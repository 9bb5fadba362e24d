--------------------------- MODULE DeliveryProofs ---------------------------
(***************************************************************************)
(* The safety half of MessagesDelivered, for every value of the constants: *)
(* whatever SlidingWindow does is a step of MessageDelivery or none.  What *)
(* is printed is, message for message, what was typed.                     *)
(*                                                                         *)
(* The invariant of SlidingWindowProofs says that frames arrive by their   *)
(* count.  Here it is joined with where in that count each message begins, *)
(* what the markers of a frame say about it, and which frames the slots of *)
(* the receiver still hold.                                                *)
(***************************************************************************)
EXTENDS SlidingWindowProofs

\* How many of the typed messages handleUserInput has cut into frames.
Framed == Len(typed) - Len(m_user_input_queue)
FramesIn(m) == NumOfChunks(typed[m].length)

\* All chunks in the order they were numbered, those that have not left included.
Stream(k) == IF k <= Len(sent) THEN sent[k] ELSE pending_frame_list[k - Len(sent)].data

\* begin[m] frames come before those of message m.
Layout(begin) ==
  /\ begin \in [1..(Framed + 1) -> 0..(Len(sent) + Len(pending_frame_list))]
  /\ begin[1] = 0
  /\ \A m \in 1..Framed : begin[m + 1] = begin[m] + FramesIn(m)
  /\ begin[Framed + 1] = Len(sent) + Len(pending_frame_list)
  /\ \A m \in 1..Framed : \A i \in 1..FramesIn(m) :
       Stream(begin[m] + i) = Split(typed[m])[i]

UserQueueInOrder ==
  /\ Len(m_user_input_queue) <= Len(typed)
  /\ \A m \in DOMAIN typed : typed[m].id = m
  /\ \A j \in DOMAIN m_user_input_queue : m_user_input_queue[j] = typed[Framed + j]

\* The markers of a frame say whether it carries the first or the last chunk.
WellMarked(frame) ==
  /\ frame.data.message \in DOMAIN typed
  /\ frame.start_of_message = (frame.data.first = 1)
  /\ frame.end_of_message
       = (frame.data.first = (FramesIn(frame.data.message) - 1) * Room + 1)
AllMarked(queue) == \A i \in DOMAIN queue : WellMarked(queue[i])
MarkersRight == /\ AllMarked(pending_frame_list) /\ AllMarked(m_output_queue)
                /\ AllMarked(uplink) /\ AllMarked(toReceiver)

\* receiver_queue still holds the last SeqMod frames taken in.
LastFramesStored ==
  \A k \in 1..TakenIn : TakenIn < k + SeqMod =>
    LET frame == receiver_queue[(k - 1) % SeqMod]
    IN  frame.data = sent[k] /\ WellMarked(frame)

\* Printed are the messages that end before the next frame to be delivered.
PrintedUpTo(begin) ==
  /\ Len(printed) <= Framed
  /\ begin[Len(printed) + 1] <= accepted
  /\ Len(printed) < Framed => accepted < begin[Len(printed) + 2]
  /\ \A p \in DOMAIN printed : Text(printed[p]) = Shown(typed[p])

DeliveryInv ==
  /\ Inv /\ UserQueueInOrder /\ MarkersRight /\ LastFramesStored
  /\ \E begin : Layout(begin) /\ PrintedUpTo(begin)

-----------------------------------------------------------------------------
(* Chunks of a typed message.                                              *)

\* Where a chunk begins tells whether it is the first or the last of its message.
LEMMA ChunkMarks ==
  ASSUME NEW message \in Messages, NEW i \in 1..NumOfChunks(message.length)
  PROVE  LET n == NumOfChunks(message.length)
         IN  /\ (Split(message)[i].first = 1) = (i = 1)
             /\ (Split(message)[i].first = (n - 1) * Room + 1) = (i = n)
<1> DEFINE n == NumOfChunks(message.length)
<1>1. /\ n \in Nat \ {0} /\ Room \in Nat \ {0}
      /\ Split(message)[i].first = (i - 1) * Room + 1
  BY ChunkBounds
<1>2. i \in 1..n
  OBVIOUS
<1> HIDE DEF n
<1>3. i - 1 \in Nat /\ n - 1 \in Nat
  BY <1>1, <1>2
<1>4. (i - 1) * Room + 1 = 1 => i - 1 = 0
  <2>1. 0 * Room + 1 = 1
    BY <1>1
  <2> QED
    BY <1>1, <1>3, <2>1, FirstDistinct
<1>5. (i - 1) * Room + 1 = (n - 1) * Room + 1 => i - 1 = n - 1
  BY <1>1, <1>3, FirstDistinct
<1>6. i = 1 => (i - 1) * Room + 1 = 1
  BY <1>1
<1>7. (i - 1 = 0) = (i = 1) /\ (i - 1 = n - 1) = (i = n)
  BY <1>1, <1>2
<1> QED
  BY <1>1, <1>4, <1>5, <1>6, <1>7 DEF n

\* A frame that carries chunk i of message m is marked first or last exactly when it is.
LEMMA MarksMean ==
  ASSUME TypeOK, UserQueueInOrder, NEW frame, WellMarked(frame),
         NEW m \in DOMAIN typed, NEW i \in 1..FramesIn(m),
         frame.data = Split(typed[m])[i]
  PROVE  /\ frame.start_of_message = (i = 1)
         /\ frame.end_of_message = (i = FramesIn(m))
<1>1. typed[m] \in Messages /\ typed[m].id = m
  BY DEF TypeOK, UserQueueInOrder
<1>2. frame.data.message = m
  BY <1>1, ChunkBounds DEF FramesIn
<1> QED
  BY <1>1, <1>2, ChunkMarks DEF WellMarked, FramesIn

-----------------------------------------------------------------------------
(* What printOutMessage prints.                                            *)

\* Walking back d slots from the slot of a frame meets the frame d before it.
LEMMA SlotBack ==
  ASSUME NEW a \in Nat, NEW d \in 0..SeqMod, d <= a
  PROVE  ((a % SeqMod) + SeqMod - d) % SeqMod = (a - d) % SeqMod
<1>1. /\ SeqMod \in Nat /\ SeqMod > 1 /\ SeqMod - d \in Nat /\ a - d \in Nat
      /\ a + (SeqMod - d) = (a - d) + SeqMod
  BY SeqModAssumption, SMT
<1>2. a % SeqMod \in Nat /\ (a % SeqMod) + SeqMod - d = (a % SeqMod) + (SeqMod - d)
  <2>1. a % SeqMod \in Nat
    BY <1>1, DivMod
  <2> QED
    BY <1>1, <2>1, SMT
<1>3. ((a % SeqMod) + (SeqMod - d)) % SeqMod = (a + (SeqMod - d)) % SeqMod
  BY <1>1, ModAddMod
<1>4. ((a - d) + SeqMod) % SeqMod = (a - d) % SeqMod
  BY <1>1, ModTurn
<1> QED
  BY <1>1, <1>2, <1>3, <1>4

\* Of the w frames up to a slot only the one n before its end may start a message.
StartsBehind(index, n, w) ==
  \A d \in 0..(w - 1) :
    receiver_queue[(index + SeqMod - d) % SeqMod].start_of_message = (d = n - 1)

\* The walk stops at the first frame of the message, or after a whole turn.
LEMMA WalkBack ==
  ASSUME NEW index \in SeqNums, NEW n \in Nat \ {0},
         NEW w, w = IF n > SeqMod THEN SeqMod ELSE n, StartsBehind(index, n, w)
  PROVE  MessageEndingAt(index)
           = [j \in 1..w |-> receiver_queue[(index + SeqMod - (w - j)) % SeqMod].data]
<1> DEFINE Back(d) == receiver_queue[(index + SeqMod - d) % SeqMod]
           walked == {d \in SeqNums : \A e \in SeqNums : e < d => ~Back(e).start_of_message}
<1>1. w \in Nat \ {0} /\ w <= SeqMod /\ w <= n /\ SeqMod \in Nat
  BY SeqModAssumption, SMT
<1>2. walked = 0..(w - 1)
  <2>1. ASSUME NEW d \in 0..(w - 1) PROVE d \in walked
    <3>1. d \in SeqNums
      BY <1>1, SMT DEF SeqNums
    <3>2. ASSUME NEW e \in SeqNums, e < d PROVE ~Back(e).start_of_message
      <4>1. e \in 0..(w - 1) /\ e # n - 1
        BY <1>1, <3>2, SMT DEF SeqNums
      <4> QED
        BY <4>1 DEF StartsBehind
    <3> QED
      BY <3>1, <3>2
  <2>2. ASSUME NEW d \in walked PROVE d \in 0..(w - 1)
    <3>1. d \in SeqNums
      OBVIOUS
    <3> SUFFICES ASSUME ~(d <= w - 1) PROVE FALSE
      BY <1>1, <3>1, SMT DEF SeqNums
    <3>2. w = n /\ n - 1 \in 0..(w - 1) /\ n - 1 \in SeqNums /\ n - 1 < d
      BY <1>1, <3>1, SMT DEF SeqNums
    <3>3. Back(n - 1).start_of_message
      BY <3>2 DEF StartsBehind
    <3> QED
      BY <3>2, <3>3
  <2> HIDE DEF walked
  <2> QED
    BY <2>1, <2>2
<1>3. Cardinality(0..(w - 1)) = w
  BY <1>1, FS_Interval, SMT
<1>4. MessageEndingAt(index)
        = [j \in 1..Cardinality(walked) |-> Back(Cardinality(walked) - j).data]
  BY DEF MessageEndingAt
<1> HIDE DEF walked, Back
<1>5. MessageEndingAt(index) = [j \in 1..w |-> Back(w - j).data]
  BY <1>2, <1>3, <1>4
<1> QED
  BY <1>5 DEF Back

\* The last w chunks of a message, printed in a row, are its text from where they begin.
LEMMA TextOfLast ==
  ASSUME NEW message \in Messages, NEW w \in 1..NumOfChunks(message.length), NEW chunks,
         chunks = [j \in 1..w |-> Split(message)[NumOfChunks(message.length) - w + j]]
  PROVE  Text(chunks) = <<[message |-> message.id,
                           first |-> (NumOfChunks(message.length) - w) * Room + 1,
                           last |-> message.length]>>
<1> DEFINE n == NumOfChunks(message.length)
           lost == n - w
           all == Split(message)
<1>1. /\ n \in Nat \ {0} /\ Room \in Nat \ {0}
      /\ \A i \in 1..n : /\ all[i].message = message.id
                         /\ all[i].first = (i - 1) * Room + 1
                         /\ all[i].last = IF i < n THEN i * Room ELSE message.length
  BY ChunkBounds
<1>2. all[n - w + 1] = [message |-> message.id, first |-> (n - w) * Room + 1,
                        last |-> all[n - w + 1].last]
  <2>1. n - w + 1 \in 1..n /\ (n - w + 1) - 1 = n - w
    BY <1>1, SMT
  <2>2. all[n - w + 1] = [message |-> message.id, first |-> ((n - w + 1) - 1) * Room + 1,
                          last |-> IF n - w + 1 < n THEN (n - w + 1) * Room ELSE message.length]
    <3> DEFINE i == n - w + 1
    <3>1. all = [k \in 1..n |-> [message |-> message.id, first |-> (k - 1) * Room + 1,
                                 last |-> IF k < n THEN k * Room ELSE message.length]]
      <4>. message.length \in Nat
        BY BoundAssumption DEF Messages
      <4>. QED  BY SplitIs
    <3>2. i \in 1..n
      BY <2>1
    <3> HIDE DEF i, all, n
    <3>3. all[i] = [message |-> message.id, first |-> (i - 1) * Room + 1,
                    last |-> IF i < n THEN i * Room ELSE message.length]
      BY <3>1, <3>2
    <3> QED
      BY <3>3 DEF i
  <2> QED
    BY <2>1, <2>2
<1>3. chunks = [j \in 1..w |-> all[lost + j]] /\ w \in Nat \ {0} /\ lost \in Nat
      /\ lost + w = n
  BY <1>1, SMT
<1> HIDE DEF n, all, lost
<1>4. Len(chunks) = w /\ \A j \in 1..w : chunks[j] = all[lost + j] /\ lost + j \in 1..n
  BY <1>3, SMT
<1>5. GoesOn(chunks)
  <2>1. ASSUME NEW k \in 1..(w - 1)
        PROVE  /\ chunks[k + 1].message = chunks[k].message
               /\ chunks[k + 1].first = chunks[k].last + 1
    <3>1. /\ k \in 1..w /\ k + 1 \in 1..w /\ lost + k < n
          /\ (lost + (k + 1)) - 1 = lost + k
      BY <1>1, <1>3, SMT
    <3>2. /\ chunks[k] = all[lost + k] /\ lost + k \in 1..n
          /\ chunks[k + 1] = all[lost + (k + 1)] /\ lost + (k + 1) \in 1..n
      BY <1>4, <3>1
    <3>3. all[lost + k].last = (lost + k) * Room /\ all[lost + k].message = message.id
      BY <1>1, <3>1, <3>2
    <3>4. /\ all[lost + (k + 1)].first = (lost + k) * Room + 1
          /\ all[lost + (k + 1)].message = message.id
      <4> DEFINE i == lost + (k + 1)
      <4>1. i \in 1..n /\ i - 1 = lost + k
        BY <3>1, <3>2
      <4> HIDE DEF i
      <4>2. all[i].first = (i - 1) * Room + 1 /\ all[i].message = message.id
        BY <1>1, <4>1
      <4> QED
        BY <4>1, <4>2 DEF i
    <3> QED
      BY <3>2, <3>3, <3>4
  <2> QED
    BY <1>4, <2>1 DEF GoesOn
<1>6. /\ chunks[1] = [message |-> message.id, first |-> lost * Room + 1, last |-> chunks[1].last]
      /\ chunks[w].last = message.length
  <2>1. 1 \in 1..w /\ w \in 1..w /\ ~(n < n) /\ n \in 1..n
    BY <1>1, <1>3, SMT
  <2>2. chunks[1] = all[lost + 1] /\ chunks[w] = all[n]
    BY <1>3, <1>4, <2>1
  <2>3. all[n].last = message.length
    BY <1>1, <2>1
  <2> QED
    BY <1>2, <2>2, <2>3 DEF lost
<1>7. [chunks[1] EXCEPT !.last = chunks[w].last]
        = [message |-> message.id, first |-> lost * Room + 1, last |-> message.length]
  BY <1>6
<1> QED
  BY <1>4, <1>5, <1>7 DEF Text, lost, n

-----------------------------------------------------------------------------
(* The invariant at the start, and helpers about its parts.                *)

LEMMA DeliveryInit == Init => DeliveryInv
<1> SUFFICES ASSUME Init PROVE DeliveryInv
  OBVIOUS
<1> DEFINE begin == [m \in 1..1 |-> 0]
<1>1. Inv
  BY InvInit
<1>2. Len(<<>>) = 0 /\ DOMAIN <<>> = {} /\ Framed = 0 /\ TakenIn = 0
  BY DEF Init, Framed, TakenIn, Delivering
<1>3. UserQueueInOrder
  BY <1>2 DEF Init, UserQueueInOrder
<1>4. MarkersRight /\ LastFramesStored
  BY <1>2 DEF Init, MarkersRight, AllMarked, LastFramesStored
<1>5. Layout(begin)
  <2>1. Len(sent) + Len(pending_frame_list) = 0
    BY <1>2 DEF Init
  <2>2. begin \in [1..(Framed + 1) -> 0..0] /\ begin[1] = 0 /\ begin[Framed + 1] = 0
    BY <1>2
  <2>3. \A m \in 1..Framed : FALSE
    BY <1>2
  <2> HIDE DEF begin
  <2> QED
    BY <2>1, <2>2, <2>3 DEF Layout
<1>6. PrintedUpTo(begin)
  BY <1>2 DEF Init, PrintedUpTo
<1> QED
  BY <1>1, <1>3, <1>4, <1>5, <1>6 DEF DeliveryInv

\* How many frames and messages there are, and how far the receiver is among them.
LEMMA DeliveryCounts ==
  ASSUME DeliveryInv
  PROVE  /\ Len(typed) \in Nat /\ Len(m_user_input_queue) \in Nat /\ Framed \in Nat
         /\ Framed <= Len(typed) /\ Len(printed) \in Nat /\ DOMAIN printed = 1..Len(printed)
         /\ DOMAIN typed = 1..Len(typed) /\ TakenIn \in Nat /\ accepted \in Nat
         /\ Len(sent) \in Nat /\ Len(pending_frame_list) \in Nat
         /\ accepted <= TakenIn /\ TakenIn <= Len(sent)
<1>1. TypeOK
  BY DEF DeliveryInv, Inv
<1>2. /\ Len(typed) \in Nat /\ Len(m_user_input_queue) \in Nat /\ Len(printed) \in Nat
      /\ DOMAIN typed = 1..Len(typed) /\ DOMAIN printed = 1..Len(printed)
  BY <1>1, LenProperties DEF TypeOK
<1>3. Len(m_user_input_queue) <= Len(typed)
  BY DEF DeliveryInv, UserQueueInOrder
<1>4. /\ TakenIn \in Nat /\ accepted \in Nat /\ Len(sent) \in Nat
      /\ Len(pending_frame_list) \in Nat /\ Len(toReceiver) \in Nat
      /\ Len(uplink) \in Nat /\ Len(m_output_queue) \in Nat
  BY <1>1, Counts
<1>5. TakenIn + Len(toReceiver) + Len(uplink) + Len(m_output_queue) = Len(sent)
  BY DEF DeliveryInv, Inv, FramesInTransit
<1>6. accepted <= TakenIn
  BY <1>4 DEF TakenIn
<1> QED
  BY <1>2, <1>3, <1>4, <1>5, <1>6 DEF Framed

LEMMA MarkedTakeFirst ==
  ASSUME NEW S, NEW queue \in Seq(S), queue # <<>>, AllMarked(queue)
  PROVE  WellMarked(Head(queue)) /\ AllMarked(Tail(queue))
<1>1. /\ 1 \in DOMAIN queue /\ Head(queue) = queue[1]
      /\ \A i \in DOMAIN Tail(queue) : Tail(queue)[i] = queue[i + 1] /\ i + 1 \in DOMAIN queue
  BY SMT
<1> QED
  BY <1>1 DEF AllMarked

LEMMA MarkedAddLast ==
  ASSUME NEW S, NEW queue \in Seq(S), NEW frame \in S, AllMarked(queue), WellMarked(frame)
  PROVE  AllMarked(Append(queue, frame))
<1>1. \A i \in DOMAIN Append(queue, frame) :
        \/ Append(queue, frame)[i] = frame
        \/ i \in DOMAIN queue /\ Append(queue, frame)[i] = queue[i]
  BY SMT
<1> QED
  BY <1>1 DEF AllMarked

LEMMA MarkedMoveBehind ==
  ASSUME NEW S, NEW queue \in Seq(S), NEW rest \in Seq(S), AllMarked(queue), AllMarked(rest)
  PROVE  AllMarked(queue \o rest)
<1> DEFINE both == queue \o rest
<1>1. /\ Len(queue) \in Nat /\ Len(rest) \in Nat
      /\ DOMAIN queue = 1..Len(queue) /\ DOMAIN rest = 1..Len(rest)
      /\ DOMAIN both = 1..(Len(queue) + Len(rest))
      /\ \A i \in 1..(Len(queue) + Len(rest)) :
           both[i] = IF i <= Len(queue) THEN queue[i] ELSE rest[i - Len(queue)]
  BY ConcatProperties
<1>2. \A i \in DOMAIN both : \/ i \in DOMAIN queue /\ both[i] = queue[i]
                             \/ i - Len(queue) \in DOMAIN rest /\ both[i] = rest[i - Len(queue)]
  BY <1>1
<1> HIDE DEF both
<1> QED
  BY <1>2 DEF AllMarked, both

LEMMA MarksStay ==
  ASSUME typed' = typed
  PROVE  /\ \A frame : WellMarked(frame)' = WellMarked(frame)
         /\ \A queue : AllMarked(queue)' = AllMarked(queue)
BY DEF WellMarked, AllMarked, FramesIn

\* The steps that leave the slots of the receiver and the counts alone.
LEMMA StoredStay ==
  ASSUME DeliveryInv, typed' = typed,
         UNCHANGED <<receiver_queue, recv_marked, NFE, accepted>>,
         \A k \in 1..TakenIn : sent'[k] = sent[k]
  PROVE  LastFramesStored'
<1>1. TakenIn' = TakenIn
  BY DEF TakenIn, Delivering
<1> QED
  BY <1>1, MarksStay DEF DeliveryInv, LastFramesStored

\* A chunk of a message that was cut has its place in the stream.
LEMMA LayoutBounds ==
  ASSUME DeliveryInv, NEW begin, Layout(begin), NEW m \in 1..Framed, NEW i \in 1..FramesIn(m)
  PROVE  /\ begin[m] \in Nat /\ begin[m + 1] \in Nat
         /\ FramesIn(m) \in Nat \ {0}
         /\ begin[m] + i \in 1..(Len(sent) + Len(pending_frame_list))
<1>1. Framed \in Nat /\ m \in DOMAIN typed /\ m \in 1..(Framed + 1) /\ m + 1 \in 1..(Framed + 1)
  BY DeliveryCounts
<1>2. typed[m] \in Messages
  BY <1>1 DEF DeliveryInv, Inv, TypeOK
<1>3. FramesIn(m) \in Nat \ {0}
  BY <1>2, SplitType DEF FramesIn
<1>4. /\ begin[m] \in 0..(Len(sent) + Len(pending_frame_list))
      /\ begin[m + 1] \in 0..(Len(sent) + Len(pending_frame_list))
      /\ begin[m + 1] = begin[m] + FramesIn(m)
  BY <1>1 DEF Layout
<1>5. Len(sent) \in Nat /\ Len(pending_frame_list) \in Nat
  BY DeliveryCounts
<1> QED
  BY <1>3, <1>4, <1>5

\* The steps that neither number frames nor print.
LEMMA LayoutStays ==
  ASSUME DeliveryInv, UNCHANGED <<typed, m_user_input_queue, printed, accepted>>,
         Len(sent)' + Len(pending_frame_list)' = Len(sent) + Len(pending_frame_list),
         \A k \in 1..(Len(sent) + Len(pending_frame_list)) : Stream(k)' = Stream(k)
  PROVE  UserQueueInOrder' /\ \E begin : Layout(begin)' /\ PrintedUpTo(begin)'
<1> PICK begin : Layout(begin) /\ PrintedUpTo(begin)
  BY DEF DeliveryInv
<1>1. Framed' = Framed /\ \A m : FramesIn(m)' = FramesIn(m)
  BY DEF Framed, FramesIn
<1>2. UserQueueInOrder'
  BY <1>1 DEF DeliveryInv, UserQueueInOrder
<1>3. \A m : Shown(typed[m])' = Shown(typed[m])
  BY DEF Shown
<1>4. PrintedUpTo(begin)'
  BY <1>1, <1>3 DEF PrintedUpTo
<1>5. ASSUME NEW m \in 1..Framed, NEW i \in 1..FramesIn(m)
      PROVE  Stream(begin[m] + i)' = Split(typed[m])[i]
  <2>1. begin[m] + i \in 1..(Len(sent) + Len(pending_frame_list))
    BY <1>5, LayoutBounds
  <2> QED
    BY <1>5, <2>1 DEF Layout
<1>6. Layout(begin)'
  BY <1>1, <1>5 DEF Layout
<1> QED
  BY <1>2, <1>4, <1>6

-----------------------------------------------------------------------------
(* The steps.                                                              *)

\* The user queue holds the typed messages that are not cut yet, in the order typed.
LEMMA UserTypesInOrder ==
  ASSUME typed \in Seq(Messages), m_user_input_queue \in Seq(Messages), UserQueueInOrder,
         NEW length \in Lengths, UserTypes(length)
  PROVE  /\ UserQueueInOrder' /\ Framed' = Framed
         /\ \A m \in DOMAIN typed : m \in DOMAIN typed' /\ typed'[m] = typed[m]
<1> DEFINE message == [id |-> Len(typed) + 1, length |-> length]
<1>1. /\ typed' = Append(typed, message)
      /\ m_user_input_queue' = Append(m_user_input_queue, message)
  BY DEF UserTypes
<1>2. message.id = Len(typed) + 1
  OBVIOUS
<1> HIDE DEF message
<1>3. /\ Len(typed') = Len(typed) + 1 /\ DOMAIN typed' = 1..(Len(typed) + 1)
      /\ \A m \in 1..Len(typed) : typed'[m] = typed[m]
      /\ typed'[Len(typed) + 1] = message
  BY <1>1, AppendProperties
<1>4. /\ Len(m_user_input_queue') = Len(m_user_input_queue) + 1
      /\ DOMAIN m_user_input_queue' = 1..(Len(m_user_input_queue) + 1)
      /\ \A j \in 1..Len(m_user_input_queue) : m_user_input_queue'[j] = m_user_input_queue[j]
      /\ m_user_input_queue'[Len(m_user_input_queue) + 1] = message
  BY <1>1, AppendProperties
<1>5. /\ Len(typed) \in Nat /\ Len(m_user_input_queue) \in Nat /\ Framed \in Nat
      /\ DOMAIN typed = 1..Len(typed)
      /\ DOMAIN m_user_input_queue = 1..Len(m_user_input_queue)
      /\ Framed + Len(m_user_input_queue) = Len(typed)
  BY LenProperties DEF Framed, UserQueueInOrder
<1>6. Framed' = Framed
  BY <1>3, <1>4, <1>5 DEF Framed
<1>7. \A m \in 1..(Len(typed) + 1) : m = Len(typed) + 1 \/ m \in 1..Len(typed)
  BY <1>5
<1>8. \A m \in DOMAIN typed' : typed'[m].id = m
  BY <1>2, <1>3, <1>5, <1>7 DEF UserQueueInOrder
<1>9. ASSUME NEW j \in DOMAIN m_user_input_queue'
      PROVE  m_user_input_queue'[j] = typed'[Framed + j]
  <2>1. CASE j = Len(m_user_input_queue) + 1
    <3>1. Framed + j = Len(typed) + 1
      BY <1>5, <2>1
    <3> QED
      BY <1>3, <1>4, <2>1, <3>1
  <2>2. CASE j \in 1..Len(m_user_input_queue)
    <3>1. Framed + j \in 1..Len(typed)
      BY <1>5, <2>2
    <3> QED
      BY <1>3, <1>4, <1>5, <2>2, <3>1 DEF UserQueueInOrder
  <2> QED
    BY <1>4, <1>5, <1>9, <2>1, <2>2
<1>10. Len(m_user_input_queue') <= Len(typed')
  BY <1>3, <1>4, <1>5 DEF UserQueueInOrder
<1>11. UserQueueInOrder'
  BY <1>6, <1>8, <1>9, <1>10 DEF UserQueueInOrder
<1> QED
  BY <1>3, <1>5, <1>6, <1>7, <1>11

LEMMA HandleUserInputInOrder ==
  ASSUME typed \in Seq(Messages), m_user_input_queue \in Seq(Messages), UserQueueInOrder,
         HandleUserInput
  PROVE  /\ UserQueueInOrder' /\ Framed \in Nat /\ Framed' = Framed + 1
         /\ Framed + 1 \in DOMAIN typed /\ Head(m_user_input_queue) = typed[Framed + 1]
<1>1. /\ m_user_input_queue # <<>> /\ m_user_input_queue' = Tail(m_user_input_queue)
      /\ typed' = typed
  BY DEF HandleUserInput
<1>2. /\ Head(m_user_input_queue) = m_user_input_queue[1]
      /\ Len(m_user_input_queue) \in Nat \ {0}
      /\ Len(m_user_input_queue') = Len(m_user_input_queue) - 1
      /\ DOMAIN m_user_input_queue = 1..Len(m_user_input_queue)
      /\ DOMAIN m_user_input_queue' = 1..(Len(m_user_input_queue) - 1)
      /\ \A j \in 1..(Len(m_user_input_queue) - 1) :
           m_user_input_queue'[j] = m_user_input_queue[j + 1]
  BY <1>1, HeadTailProperties, LenProperties
<1>3. /\ Framed \in Nat /\ Len(typed) \in Nat /\ DOMAIN typed = 1..Len(typed)
      /\ Len(m_user_input_queue) <= Len(typed)
  BY LenProperties DEF Framed, UserQueueInOrder
<1>4. Framed' = Framed + 1 /\ Framed + 1 \in DOMAIN typed
  BY <1>1, <1>2, <1>3 DEF Framed
<1>5. Head(m_user_input_queue) = typed[Framed + 1]
  <2>1. 1 \in DOMAIN m_user_input_queue
    BY <1>2
  <2> QED
    BY <1>2, <2>1 DEF UserQueueInOrder
<1>6. ASSUME NEW j \in 1..(Len(m_user_input_queue) - 1)
      PROVE  m_user_input_queue'[j] = typed[(Framed + 1) + j]
  <2>1. j + 1 \in DOMAIN m_user_input_queue /\ Framed + (j + 1) = (Framed + 1) + j
    <3>1. Framed \in Nat /\ Len(m_user_input_queue) \in Nat
      BY <1>2, <1>3
    <3> QED
      BY <1>2, <3>1
  <2>2. m_user_input_queue[j + 1] = typed[Framed + (j + 1)]
    BY <2>1 DEF UserQueueInOrder
  <2> QED
    BY <1>2, <2>1, <2>2
<1>7. Len(m_user_input_queue') <= Len(typed)
  BY <1>2, <1>3
<1> QED
  BY <1>1, <1>2, <1>3, <1>4, <1>5, <1>6, <1>7 DEF UserQueueInOrder

LEMMA UserTypesDelivers ==
  ASSUME DeliveryInv, Inv', NEW length \in Lengths, UserTypes(length)
  PROVE  DeliveryInv'
<1> DEFINE message == [id |-> Len(typed) + 1, length |-> length]
<1>1. /\ typed' = Append(typed, message)
      /\ m_user_input_queue' = Append(m_user_input_queue, message)
      /\ UNCHANGED <<blockVars, m_output_queue, frameLinks, receiverVars, sent>>
  BY DEF UserTypes
<1>2. typed \in Seq(Messages) /\ m_user_input_queue \in Seq(Messages)
  BY DEF DeliveryInv, Inv, TypeOK
<1>3. message.id = Len(typed) + 1
  OBVIOUS
<1> HIDE DEF message
<1>4. /\ Len(typed') = Len(typed) + 1 /\ DOMAIN typed' = 1..(Len(typed) + 1)
      /\ \A m \in 1..Len(typed) : typed'[m] = typed[m]
      /\ typed'[Len(typed) + 1] = message
  BY <1>1, <1>2, AppendProperties
<1>6. /\ Len(typed) \in Nat /\ Len(m_user_input_queue) \in Nat /\ Framed \in Nat
      /\ Framed <= Len(typed) /\ DOMAIN typed = 1..Len(typed)
      /\ DOMAIN m_user_input_queue = 1..Len(m_user_input_queue)
      /\ Framed + Len(m_user_input_queue) = Len(typed)
  BY <1>2, DeliveryCounts DEF Framed
<1>7. Framed' = Framed /\ UserQueueInOrder'
  BY <1>2, UserTypesInOrder DEF DeliveryInv
<1>9. \A m \in DOMAIN typed : /\ m \in DOMAIN typed' /\ typed'[m] = typed[m]
                              /\ FramesIn(m)' = FramesIn(m)
                              /\ Shown(typed[m])' = Shown(typed[m])
  BY <1>4, <1>6 DEF FramesIn, Shown
<1>10. \A frame : WellMarked(frame) => WellMarked(frame)'
  BY <1>9 DEF WellMarked
<1>11. MarkersRight'
  BY <1>1, <1>10 DEF DeliveryInv, MarkersRight, AllMarked, blockVars, frameLinks
<1>12. LastFramesStored'
  <2>1. TakenIn' = TakenIn
    BY <1>1 DEF TakenIn, Delivering, receiverVars
  <2> QED
    BY <1>1, <1>10, <2>1 DEF DeliveryInv, LastFramesStored, receiverVars
<1> PICK begin : Layout(begin) /\ PrintedUpTo(begin)
  BY DEF DeliveryInv
<1>13. \A m \in 1..Framed : m \in DOMAIN typed
  BY <1>6
<1>14. Layout(begin)'
  <2>1. \A k : Stream(k)' = Stream(k)
    BY <1>1 DEF Stream, blockVars
  <2>2. \A m \in 1..Framed : Split(typed[m])' = Split(typed[m])
    BY <1>9, <1>13 DEF Split
  <2>3. Len(sent)' = Len(sent) /\ Len(pending_frame_list)' = Len(pending_frame_list)
    BY <1>1 DEF blockVars
  <2> QED
    BY <1>7, <1>9, <1>13, <2>1, <2>2, <2>3 DEF Layout
<1>15. PrintedUpTo(begin)'
  <2>1. UNCHANGED <<printed, accepted>> /\ DOMAIN printed \subseteq DOMAIN typed
    <3>1. UNCHANGED <<printed, accepted>>
      BY <1>1 DEF receiverVars
    <3>2. Len(printed) <= Framed /\ Len(printed) \in Nat /\ DOMAIN printed = 1..Len(printed)
      BY DeliveryCounts DEF PrintedUpTo
    <3> QED
      BY <1>6, <3>1, <3>2
  <2> QED
    BY <1>7, <1>9, <2>1 DEF PrintedUpTo
<1> QED
  BY <1>7, <1>11, <1>12, <1>14, <1>15 DEF DeliveryInv

\* handlePendingFrames: a frame leaves, and the stream stays what it is.
LEMMA SendPendingFrameDelivers ==
  ASSUME DeliveryInv, Inv', SendPendingFrame
  PROVE  DeliveryInv'
<1> DEFINE frame == Head(pending_frame_list)
<1>1. /\ pending_frame_list # <<>> /\ pending_frame_list' = Tail(pending_frame_list)
      /\ m_output_queue' = Append(m_output_queue, frame)
      /\ sent' = Append(sent, frame.data)
      /\ UNCHANGED <<userVars, frameLinks, receiverVars>>
  BY DEF SendPendingFrame, MayLeave
<1>2. /\ pending_frame_list \in Seq(Frames) /\ m_output_queue \in Seq(Frames)
      /\ sent \in Seq(Chunks)
  BY DEF DeliveryInv, Inv, TypeOK
<1>3. frame \in Frames /\ frame.data \in Chunks
  <2>1. frame \in Frames
    BY <1>1, <1>2, HeadTailProperties
  <2> QED
    BY <2>1 DEF Frames
<1>4. /\ Len(pending_frame_list') = Len(pending_frame_list) - 1
      /\ DOMAIN pending_frame_list = 1..Len(pending_frame_list)
      /\ Len(pending_frame_list) \in Nat /\ frame = pending_frame_list[1]
      /\ \A i \in 1..(Len(pending_frame_list) - 1) :
           pending_frame_list'[i] = pending_frame_list[i + 1]
  BY <1>1, <1>2, HeadTailProperties, LenProperties
<1>5. /\ Len(sent') = Len(sent) + 1 /\ Len(sent) \in Nat
      /\ \A k \in 1..Len(sent) : sent'[k] = sent[k]
      /\ sent'[Len(sent) + 1] = frame.data
  BY <1>1, <1>2, <1>3, AppendProperties, LenProperties
<1>6. MarkersRight'
  <2>1. /\ WellMarked(frame) /\ AllMarked(Tail(pending_frame_list))
        /\ AllMarked(Append(m_output_queue, frame))
    <3>1. WellMarked(frame) /\ AllMarked(Tail(pending_frame_list))
      BY <1>1, <1>2, MarkedTakeFirst DEF DeliveryInv, MarkersRight
    <3> QED
      BY <1>2, <1>3, <3>1, MarkedAddLast DEF DeliveryInv, MarkersRight
  <2>2. typed' = typed
    BY <1>1 DEF userVars
  <2> QED
    BY <1>1, <2>1, <2>2, MarksStay DEF DeliveryInv, MarkersRight, frameLinks
<1>7. LastFramesStored'
  <2>1. \A k \in 1..TakenIn : k \in 1..Len(sent)
    BY DeliveryCounts
  <2> QED
    BY <1>1, <1>5, <2>1, StoredStay DEF userVars, receiverVars
<1>8. /\ Len(sent)' + Len(pending_frame_list)' = Len(sent) + Len(pending_frame_list)
      /\ \A k \in 1..(Len(sent) + Len(pending_frame_list)) : Stream(k)' = Stream(k)
  <2>1. Len(sent)' + Len(pending_frame_list)' = Len(sent) + Len(pending_frame_list)
    BY <1>4, <1>5
  <2>2. ASSUME NEW k \in 1..(Len(sent) + Len(pending_frame_list))
        PROVE  Stream(k)' = Stream(k)
    <3>1. CASE k <= Len(sent)
      BY <1>5, <3>1 DEF Stream
    <3>2. CASE k = Len(sent) + 1
      <4>1. k - Len(sent) = 1 /\ ~(k <= Len(sent)) /\ k <= Len(sent')
        BY <1>5, <3>2
      <4> QED
        BY <1>4, <1>5, <3>2, <4>1 DEF Stream
    <3>3. CASE k > Len(sent) + 1
      <4>1. /\ ~(k <= Len(sent)) /\ ~(k <= Len(sent'))
            /\ k - Len(sent') \in 1..(Len(pending_frame_list) - 1)
            /\ (k - Len(sent')) + 1 = k - Len(sent)
        BY <1>4, <1>5, <3>3
      <4>2. pending_frame_list'[k - Len(sent')] = pending_frame_list[k - Len(sent)]
        BY <1>4, <4>1
      <4> QED
        BY <4>1, <4>2 DEF Stream
    <3> QED
      BY <1>5, <3>1, <3>2, <3>3
  <2> QED
    BY <2>1, <2>2
<1>9. UserQueueInOrder' /\ \E begin : Layout(begin)' /\ PrintedUpTo(begin)'
  BY <1>1, <1>8, LayoutStays DEF userVars, receiverVars
<1> QED
  BY <1>6, <1>7, <1>9 DEF DeliveryInv

\* Frames on their way, and all that does not touch them.
LEMMA MovingFramesDelivers ==
  ASSUME DeliveryInv, Inv',
         UNCHANGED <<userVars, pending_frame_list, receiverVars, sent>>,
         AllMarked(m_output_queue'), AllMarked(uplink'), AllMarked(toReceiver')
  PROVE  DeliveryInv'
<1>1. MarkersRight'
  <2>1. typed' = typed
    BY DEF userVars
  <2> QED
    BY <2>1, MarksStay DEF DeliveryInv, MarkersRight
<1>2. LastFramesStored'
  BY StoredStay DEF userVars, receiverVars
<1>3. UserQueueInOrder' /\ \E begin : Layout(begin)' /\ PrintedUpTo(begin)'
  <2>1. \A k : Stream(k)' = Stream(k)
    BY DEF Stream
  <2> QED
    BY <2>1, LayoutStays DEF userVars, receiverVars
<1> QED
  BY <1>1, <1>2, <1>3 DEF DeliveryInv

LEMMA TransitDelivers ==
  ASSUME DeliveryInv, Inv', SendMessageToRouter \/ ForwardFrame
  PROVE  DeliveryInv'
<1>1. /\ m_output_queue \in Seq(Frames) /\ uplink \in Seq(Frames)
      /\ toReceiver \in Seq(Frames)
      /\ AllMarked(m_output_queue) /\ AllMarked(uplink) /\ AllMarked(toReceiver)
  BY DEF DeliveryInv, Inv, TypeOK, MarkersRight
<1>2. CASE SendMessageToRouter
  <2>1. AllMarked(uplink') /\ AllMarked(m_output_queue')
    <3>1. AllMarked(uplink \o m_output_queue) /\ AllMarked(<<>>)
      BY <1>1, MarkedMoveBehind DEF AllMarked
    <3> QED
      BY <1>2, <3>1 DEF SendMessageToRouter
  <2> QED
    BY <1>1, <1>2, <2>1, MovingFramesDelivers DEF SendMessageToRouter, blockVars
<1>3. CASE ForwardFrame
  <2>1. AllMarked(uplink') /\ AllMarked(toReceiver')
    <3>1. uplink # <<>> /\ Head(uplink) \in Frames
      BY <1>1, <1>3, HeadTailProperties DEF ForwardFrame
    <3>2. WellMarked(Head(uplink)) /\ AllMarked(Tail(uplink))
      BY <1>1, <3>1, MarkedTakeFirst
    <3>3. AllMarked(Append(toReceiver, Head(uplink)))
      BY <1>1, <3>1, <3>2, MarkedAddLast
    <3> QED
      BY <1>3, <3>2, <3>3 DEF ForwardFrame
  <2> QED
    BY <1>1, <1>3, <2>1, MovingFramesDelivers DEF ForwardFrame, blockVars
<1> QED
  BY <1>2, <1>3

\* handleUserInput: the frames of the next message are put behind the stream.
LEMMA HandleUserInputDelivers ==
  ASSUME DeliveryInv, Inv', HandleUserInput
  PROVE  DeliveryInv'
<1> DEFINE message == Head(m_user_input_queue)
           n == NumOfChunks(message.length)
           frames == FramesOf(message)
<1> PICK total : total = Len(sent) + Len(pending_frame_list)
  OBVIOUS
<1>1. /\ m_user_input_queue # <<>> /\ m_user_input_queue' = Tail(m_user_input_queue)
      /\ pending_frame_list' = pending_frame_list \o frames
      /\ UNCHANGED <<typed, m_output_queue, frameLinks, receiverVars, sent>>
  BY DEF HandleUserInput
<1>2. /\ m_user_input_queue \in Seq(Messages) /\ pending_frame_list \in Seq(Frames)
      /\ SEQ \in SeqNums /\ typed \in Seq(Messages)
  BY DEF DeliveryInv, Inv, TypeOK
<1>3. message \in Messages
  BY <1>1, <1>2, HeadTailProperties
<1>4. /\ n \in Nat \ {0} /\ frames \in Seq(Frames) /\ Len(frames) = n
      /\ DOMAIN frames = 1..n
  BY <1>2, <1>3, FramesOfType, SplitType, LenProperties
<1>5. \A i \in 1..n : /\ frames[i].data = Split(message)[i]
                      /\ frames[i].start_of_message = (i = 1)
                      /\ frames[i].end_of_message = (i = n)
  <2>1. Len(Split(message)) = n
    BY <1>3, SplitType
  <2> HIDE DEF n
  <2> QED
    BY <2>1 DEF FramesOf
<1>6. /\ Framed \in Nat /\ Framed' = Framed + 1 /\ Framed + 1 \in DOMAIN typed
      /\ total \in Nat /\ Len(sent) \in Nat /\ Len(pending_frame_list) \in Nat
  <2>1. Framed \in Nat /\ Framed' = Framed + 1 /\ Framed + 1 \in DOMAIN typed
    BY <1>2, HandleUserInputInOrder DEF DeliveryInv
  <2>3. Len(sent) \in Nat /\ Len(pending_frame_list) \in Nat
    BY DeliveryCounts
  <2> QED
    BY <2>1, <2>3
<1>7. /\ UserQueueInOrder' /\ message = typed[Framed + 1] /\ n = FramesIn(Framed + 1)
      /\ message.id = Framed + 1
  <2>1. UserQueueInOrder' /\ message = typed[Framed + 1]
    BY <1>2, HandleUserInputInOrder DEF DeliveryInv
  <2> QED
    BY <1>6, <2>1 DEF DeliveryInv, UserQueueInOrder, FramesIn
<1>9. MarkersRight'
  <2>1. ASSUME NEW i \in 1..n PROVE WellMarked(frames[i])
    <3>1. frames[i].data.message = Framed + 1
      <4>1. Split(message)[i].message = message.id
        BY <1>3, ChunkBounds
      <4>2. frames[i].data = Split(message)[i]
        BY <1>5
      <4> HIDE DEF frames, message
      <4> QED
        BY <1>7, <4>1, <4>2
    <3>2. /\ (Split(message)[i].first = 1) = (i = 1)
          /\ (Split(message)[i].first = (n - 1) * Room + 1) = (i = n)
      BY <1>3, ChunkMarks
    <3> QED
      BY <1>5, <1>6, <1>7, <3>1, <3>2 DEF WellMarked
  <2>2. AllMarked(frames)
    BY <1>4, <2>1 DEF AllMarked
  <2>3. AllMarked(pending_frame_list \o frames)
    BY <1>2, <1>4, <2>2, MarkedMoveBehind DEF DeliveryInv, MarkersRight
  <2> QED
    BY <1>1, <2>3, MarksStay DEF DeliveryInv, MarkersRight, frameLinks
<1>10. LastFramesStored'
  BY <1>1, StoredStay DEF receiverVars
<1> PICK begin : Layout(begin) /\ PrintedUpTo(begin)
  BY DEF DeliveryInv
<1>11. /\ Len(pending_frame_list') = Len(pending_frame_list) + n
       /\ \A k \in 1..total : Stream(k)' = Stream(k)
       /\ \A i \in 1..n : Stream(total + i)' = frames[i].data
  <2>1. /\ Len(pending_frame_list') = Len(pending_frame_list) + n
        /\ \A j \in 1..(Len(pending_frame_list) + n) : pending_frame_list'[j] =
             IF j <= Len(pending_frame_list) THEN pending_frame_list[j]
             ELSE frames[j - Len(pending_frame_list)]
    BY <1>1, <1>2, <1>4, ConcatProperties
  <2> HIDE DEF frames, n
  <2>2. ASSUME NEW k \in 1..total PROVE Stream(k)' = Stream(k)
    <3>1. CASE k <= Len(sent)
      BY <1>1, <3>1 DEF Stream
    <3>2. CASE ~(k <= Len(sent))
      <4>1. /\ k - Len(sent) \in 1..(Len(pending_frame_list) + n)
            /\ k - Len(sent) <= Len(pending_frame_list)
        BY <1>4, <1>6, <3>2
      <4> QED
        BY <1>1, <2>1, <3>2, <4>1 DEF Stream
    <3> QED
      BY <3>1, <3>2
  <2>3. ASSUME NEW i \in 1..n PROVE Stream(total + i)' = frames[i].data
    <3>1. /\ ~(total + i <= Len(sent))
          /\ (total + i) - Len(sent) \in 1..(Len(pending_frame_list) + n)
          /\ ~((total + i) - Len(sent) <= Len(pending_frame_list))
          /\ ((total + i) - Len(sent)) - Len(pending_frame_list) = i
      BY <1>4, <1>6
    <3> QED
      BY <1>1, <2>1, <3>1 DEF Stream
  <2> QED
    BY <2>1, <2>2, <2>3
<1> HIDE DEF frames, n, message
<1> PICK longer :
      longer = [m \in 1..(Framed + 2) |-> IF m <= Framed + 1 THEN begin[m] ELSE total + n]
  OBVIOUS
<1>12. /\ longer \in [1..(Framed + 2) -> 0..(total + n)]
       /\ longer[Framed + 2] = total + n
       /\ \A m \in 1..(Framed + 1) : longer[m] = begin[m]
       /\ begin[Framed + 1] = total
  <2>1. /\ begin \in [1..(Framed + 1) -> 0..total] /\ begin[Framed + 1] = total
    BY DEF Layout
  <2>2. ASSUME NEW m \in 1..(Framed + 2)
        PROVE  (IF m <= Framed + 1 THEN begin[m] ELSE total + n) \in 0..(total + n)
    <3>1. CASE m <= Framed + 1
      <4>1. m \in 1..(Framed + 1)
        BY <1>6, <3>1
      <4>2. begin[m] \in 0..total
        BY <2>1, <4>1
      <4> QED
        BY <1>4, <1>6, <3>1, <4>2
    <3>2. CASE ~(m <= Framed + 1)
      BY <1>4, <1>6, <3>2
    <3> QED
      BY <3>1, <3>2
  <2>3. longer \in [1..(Framed + 2) -> 0..(total + n)]
    BY <2>2
  <2>4. longer[Framed + 2] = total + n /\ \A m \in 1..(Framed + 1) : longer[m] = begin[m]
    <3>1. Framed + 2 \in 1..(Framed + 2) /\ ~(Framed + 2 <= Framed + 1)
      BY <1>6
    <3>2. \A m \in 1..(Framed + 1) : m \in 1..(Framed + 2) /\ m <= Framed + 1
      BY <1>6
    <3> QED
      BY <3>1, <3>2
  <2> QED
    BY <2>1, <2>3, <2>4
<1>13. Layout(longer)'
  <2>1. (Len(sent) + Len(pending_frame_list))' = total + n
    BY <1>1, <1>4, <1>6, <1>11
  <2>2. longer \in [1..(Framed' + 1) -> 0..(total + n)]
    <3>1. Framed' + 1 = Framed + 2
      BY <1>6
    <3> QED
      BY <1>12, <3>1
  <2>3. longer[1] = 0 /\ longer[Framed' + 1] = total + n
    <3>1. 1 \in 1..(Framed + 1) /\ (Framed + 1) + 1 = Framed + 2
      BY <1>6
    <3>2. begin[1] = 0
      BY DEF Layout
    <3> QED
      BY <1>6, <1>12, <3>1, <3>2
  <2>4. ASSUME NEW m \in 1..(Framed + 1)
        PROVE  /\ longer[m + 1] = longer[m] + FramesIn(m)
               /\ \A i \in 1..FramesIn(m) : Stream(longer[m] + i)' = Split(typed[m])[i]
    <3>1. CASE m = Framed + 1
      <4>1. m + 1 = Framed + 2 /\ longer[m] = total
        BY <1>6, <1>12, <3>1
      <4> QED
        BY <1>5, <1>7, <1>11, <1>12, <3>1, <4>1
    <3>2. CASE m \in 1..Framed
      <4>1. m + 1 \in 1..(Framed + 1)
        BY <1>6, <3>2
      <4>2. longer[m] = begin[m] /\ longer[m + 1] = begin[m + 1]
        BY <1>12, <4>1
      <4>3. ASSUME NEW i \in 1..FramesIn(m) PROVE begin[m] + i \in 1..total
        BY <3>2, <4>3, LayoutBounds
      <4> QED
        BY <1>11, <3>2, <4>2, <4>3 DEF Layout
    <3>3. m = Framed + 1 \/ m \in 1..Framed
      BY <1>6
    <3> QED
      BY <3>1, <3>2, <3>3
  <2>5. \A m : FramesIn(m)' = FramesIn(m) /\ Split(typed[m])' = Split(typed[m])
    BY <1>1 DEF FramesIn, Split
  <2>6. \A m \in 1..Framed' : longer[m + 1] = longer[m] + FramesIn(m)'
    BY <1>6, <2>4, <2>5
  <2>7. \A m \in 1..Framed' : \A i \in 1..FramesIn(m)' :
          Stream(longer[m] + i)' = Split(typed[m])'[i]
    <3> TAKE m \in 1..Framed'
    <3> TAKE i \in 1..FramesIn(m)'
    <3>1. m \in 1..(Framed + 1) /\ i \in 1..FramesIn(m)
      BY <1>6, <2>5
    <3>2. Stream(longer[m] + i)' = Split(typed[m])[i]
      BY <2>4, <3>1
    <3> QED
      BY <2>5, <3>2
  <2> QED
    BY <2>1, <2>2, <2>3, <2>6, <2>7 DEF Layout
<1>14. PrintedUpTo(longer)'
  <2>1. /\ Len(printed) \in Nat /\ Len(printed) <= Framed /\ accepted \in Nat
        /\ accepted <= Len(sent) /\ UNCHANGED <<printed, accepted>>
    <3>1. UNCHANGED <<printed, accepted>>
      BY <1>1 DEF receiverVars
    <3> QED
      BY <3>1, DeliveryCounts DEF PrintedUpTo
  <2>2. longer[Len(printed) + 1] <= accepted
    <3>1. Len(printed) + 1 \in 1..(Framed + 1)
      BY <1>6, <2>1
    <3> QED
      BY <1>12, <3>1 DEF PrintedUpTo
  <2>3. accepted < longer[Len(printed) + 2]
    <3>1. CASE Len(printed) = Framed
      BY <1>4, <1>6, <1>12, <2>1, <3>1
    <3>2. CASE Len(printed) < Framed
      <4>1. Len(printed) + 2 \in 1..(Framed + 1)
        BY <1>6, <2>1, <3>2
      <4> QED
        BY <1>12, <3>2, <4>1 DEF PrintedUpTo
    <3> QED
      BY <1>6, <2>1, <3>1, <3>2
  <2>4. \A p \in DOMAIN printed : Text(printed[p]) = Shown(typed[p])
    BY DEF PrintedUpTo
  <2>5. \A m : Shown(typed[m])' = Shown(typed[m])
    BY <1>1 DEF Shown
  <2>6. Len(printed) <= Framed + 1
    BY <1>6, <2>1
  <2> QED
    BY <1>6, <2>1, <2>2, <2>3, <2>4, <2>5, <2>6 DEF PrintedUpTo
<1> QED
  BY <1>7, <1>9, <1>10, <1>13, <1>14 DEF DeliveryInv

\* handlePacket: the frame goes into the slot of its number, and the slots of the
\* frames before it that are still needed are others.
LEMMA HandlePacketDelivers ==
  ASSUME DeliveryInv, Inv', HandlePacket
  PROVE  DeliveryInv'
<1> DEFINE frame == Head(toReceiver)
<1>1. /\ toReceiver # <<>> /\ toReceiver' = Tail(toReceiver) /\ ~Delivering
      /\ UNCHANGED <<userVars, blockVars, m_output_queue, uplink, NFE, printed, accepted, sent>>
  BY DEF HandlePacket
<1>2. /\ toReceiver \in Seq(Frames) /\ AllMarked(toReceiver)
      /\ receiver_queue \in [SeqNums -> Frames \cup {NoFrame}]
      /\ NFE = accepted % SeqMod /\ NFE \in SeqNums /\ accepted \in Nat /\ TakenIn = accepted
  BY <1>1 DEF DeliveryInv, Inv, TypeOK, MarkersRight, NumberingSound, CountersAreCounts, TakenIn
<1>3. WellMarked(frame) /\ AllMarked(Tail(toReceiver))
  BY <1>1, <1>2, MarkedTakeFirst
<1>4. frame.seq_ack_num = NFE /\ frame.data = sent[accepted + 1]
  <2>1. /\ 1 \in DOMAIN toReceiver /\ frame = toReceiver[1]
        /\ accepted + 1 - 1 = accepted
    BY <1>1, <1>2, HeadTailProperties, LenProperties
  <2>2. Numbered(toReceiver, accepted) /\ Carries(toReceiver, sent, accepted)
    BY <1>2 DEF DeliveryInv, Inv, NumberingSound, QueuesNumbered, FramesInTransit
  <2> HIDE DEF frame
  <2> QED
    BY <1>2, <2>1, <2>2 DEF Numbered, Carries
<1>5. /\ receiver_queue' = [receiver_queue EXCEPT ![NFE] = frame]
      /\ recv_marked' = recv_marked \cup {NFE}
  <2>1. InReceiveWindow(NFE)
    BY <1>2, ExpectedIsReceivable
  <2> QED
    BY <1>4, <2>1 DEF HandlePacket
<1> HIDE DEF frame
<1>6. TakenIn' = accepted + 1
  BY <1>1, <1>5 DEF TakenIn, Delivering
<1>7. MarkersRight'
  <2>1. typed' = typed
    BY <1>1 DEF userVars
  <2> QED
    BY <1>1, <1>3, <2>1, MarksStay DEF DeliveryInv, MarkersRight, blockVars
<1>8. LastFramesStored'
  <2>1. ASSUME NEW k \in 1..(accepted + 1), accepted + 1 < k + SeqMod
        PROVE  /\ receiver_queue'[(k - 1) % SeqMod].data = sent[k]
               /\ WellMarked(receiver_queue'[(k - 1) % SeqMod])
    <3>1. CASE k = accepted + 1
      <4>1. k - 1 = accepted
        BY <1>2, <3>1
      <4> QED
        BY <1>2, <1>3, <1>4, <1>5, <3>1, <4>1
    <3>2. CASE k # accepted + 1
      <4>1. /\ k \in 1..TakenIn /\ TakenIn < k + SeqMod /\ k - 1 \in Nat
            /\ accepted - (k - 1) \in 1..(SeqMod - 1)
            /\ (k - 1) + (accepted - (k - 1)) = accepted
        BY <1>2, <2>1, <3>2, SeqModAssumption
      <4>2. (k - 1) % SeqMod # NFE
        BY <1>2, <4>1, ModDistinct
      <4>3. (k - 1) % SeqMod \in SeqNums
        BY <4>1, ModType
      <4>4. receiver_queue'[(k - 1) % SeqMod] = receiver_queue[(k - 1) % SeqMod]
        BY <1>2, <1>5, <4>2, <4>3
      <4> QED
        BY <4>1, <4>4 DEF DeliveryInv, LastFramesStored
    <3> QED
      BY <3>1, <3>2
  <2>2. typed' = typed
    BY <1>1 DEF userVars
  <2> QED
    BY <1>1, <1>6, <2>1, <2>2, MarksStay DEF LastFramesStored
<1>9. UserQueueInOrder' /\ \E begin : Layout(begin)' /\ PrintedUpTo(begin)'
  <2>1. \A k : Stream(k)' = Stream(k)
    BY <1>1 DEF Stream, blockVars
  <2> QED
    BY <1>1, <2>1, LayoutStays DEF userVars, blockVars
<1> QED
  BY <1>7, <1>8, <1>9 DEF DeliveryInv

-----------------------------------------------------------------------------
(* The step that prints.                                                   *)

\* The frame handed over belongs to the first message that is not printed.
LEMMA NextFrame ==
  ASSUME DeliveryInv, DeliverFrame, NEW begin, Layout(begin), PrintedUpTo(begin),
         NEW m, m = Len(printed) + 1
  PROVE  /\ m \in 1..Framed /\ m \in DOMAIN typed
         /\ begin[m] \in Nat /\ begin[m] <= accepted
         /\ begin[m + 1] = begin[m] + FramesIn(m)
         /\ accepted + 1 <= begin[m + 1]
         /\ TakenIn = accepted + 1 /\ TakenIn <= Len(sent)
<1>1. /\ Framed \in Nat /\ Len(printed) \in Nat /\ accepted \in Nat /\ Len(sent) \in Nat
      /\ Len(pending_frame_list) \in Nat /\ TakenIn <= Len(sent)
      /\ Framed <= Len(typed) /\ DOMAIN typed = 1..Len(typed) /\ Len(typed) \in Nat
  BY DeliveryCounts
<1>2. TakenIn = accepted + 1
  BY DEF DeliverFrame, TakenIn
<1>3. Len(printed) < Framed
  <2>1. Len(printed) <= Framed /\ begin[Len(printed) + 1] <= accepted
    BY DEF PrintedUpTo
  <2>2. begin[Framed + 1] = Len(sent) + Len(pending_frame_list)
    BY DEF Layout
  <2>3. CASE Len(printed) = Framed
    BY <1>1, <1>2, <2>1, <2>2, <2>3
  <2> QED
    BY <1>1, <2>1, <2>3
<1>4. m \in 1..Framed /\ m \in DOMAIN typed /\ m + 1 = Len(printed) + 2
  BY <1>1, <1>3
<1>5. begin[m + 1] = begin[m] + FramesIn(m) /\ begin[m] <= accepted /\ accepted < begin[m + 1]
  BY <1>3, <1>4 DEF Layout, PrintedUpTo
<1>6. begin[m] \in Nat /\ begin[m + 1] \in Nat
  <2>1. m \in 1..(Framed + 1) /\ m + 1 \in 1..(Framed + 1)
    BY <1>1, <1>4
  <2> QED
    BY <1>1, <2>1 DEF Layout
<1> QED
  BY <1>1, <1>2, <1>4, <1>5, <1>6

\* What a slot holds d frames behind the one handed over.
LEMMA FrameBehind ==
  ASSUME DeliveryInv, DeliverFrame, NEW begin, Layout(begin), PrintedUpTo(begin),
         NEW m, m = Len(printed) + 1,
         NEW d \in Nat, d < SeqMod, d <= accepted - begin[m]
  PROVE  LET frame == receiver_queue[(NFE + SeqMod - d) % SeqMod]
             i == accepted + 1 - begin[m] - d
         IN  /\ i \in 1..FramesIn(m)
             /\ frame.data = Split(typed[m])[i]
             /\ frame.start_of_message = (i = 1)
             /\ frame.end_of_message = (i = FramesIn(m))
<1> DEFINE frame == receiver_queue[(NFE + SeqMod - d) % SeqMod]
           i == accepted + 1 - begin[m] - d
           k == accepted + 1 - d
<1>1. /\ m \in 1..Framed /\ m \in DOMAIN typed
      /\ begin[m] \in Nat /\ begin[m] <= accepted
      /\ begin[m + 1] = begin[m] + FramesIn(m)
      /\ accepted + 1 <= begin[m + 1]
      /\ TakenIn = accepted + 1 /\ TakenIn <= Len(sent)
  BY NextFrame
<1>2. accepted \in Nat /\ Len(sent) \in Nat /\ SeqMod \in Nat
  BY DeliveryCounts, SeqModAssumption
<1>3. FramesIn(m) \in Nat
  <2>1. typed[m] \in Messages
    BY <1>1 DEF DeliveryInv, Inv, TypeOK
  <2> QED
    BY <2>1, ChunkBounds DEF FramesIn
<1>4. i \in 1..FramesIn(m) /\ begin[m] + i = k
  BY <1>1, <1>2, <1>3
<1>5. /\ k \in 1..TakenIn /\ TakenIn < k + SeqMod /\ k - 1 = accepted - d
      /\ k <= Len(sent)
  BY <1>1, <1>2
<1>6. (NFE + SeqMod - d) % SeqMod = (k - 1) % SeqMod
  <2>1. NFE = accepted % SeqMod
    BY DEF DeliveryInv, Inv, NumberingSound, CountersAreCounts
  <2>2. d \in 0..SeqMod /\ d <= accepted
    BY <1>1, <1>2
  <2> QED
    BY <1>2, <1>5, <2>1, <2>2, SlotBack
<1>7. frame.data = sent[k] /\ WellMarked(frame)
  <2> HIDE DEF k
  <2> QED
    BY <1>5, <1>6 DEF DeliveryInv, LastFramesStored
<1>8. sent[k] = Split(typed[m])[i]
  <2> HIDE DEF i, k
  <2>1. Stream(k) = Split(typed[m])[i]
    BY <1>1, <1>4 DEF Layout
  <2> QED
    BY <1>5, <2>1 DEF Stream
<1> HIDE DEF i, k, frame
<1>9. /\ frame.start_of_message = (i = 1)
      /\ frame.end_of_message = (i = FramesIn(m))
  BY <1>1, <1>4, <1>7, <1>8, MarksMean DEF DeliveryInv, Inv
<1> QED
  BY <1>4, <1>7, <1>8, <1>9 DEF i, frame

\* printOutMessage, called on the last frame of a message, shows that message.
LEMMA PrintsWhole ==
  ASSUME DeliveryInv, DeliverFrame, NEW begin, Layout(begin), PrintedUpTo(begin),
         NEW m, m = Len(printed) + 1, accepted + 1 = begin[m + 1]
  PROVE  Text(MessageEndingAt(NFE)) = Shown(typed[m])
<1>1. /\ m \in 1..Framed /\ m \in DOMAIN typed
      /\ begin[m] \in Nat /\ begin[m] <= accepted
      /\ begin[m + 1] = begin[m] + FramesIn(m)
  BY NextFrame
<1>2. /\ accepted \in Nat /\ SeqMod \in Nat /\ SeqMod > 1 /\ NFE \in SeqNums
      /\ typed[m] \in Messages
  BY <1>1, DeliveryCounts, SeqModAssumption DEF DeliveryInv, Inv, TypeOK
<1> PICK n : n = FramesIn(m)
  OBVIOUS
<1>3. n \in Nat \ {0} /\ n = NumOfChunks(typed[m].length) /\ accepted - begin[m] = n - 1
  <2>1. FramesIn(m) \in Nat \ {0}
    BY <1>2, ChunkBounds DEF FramesIn
  <2> QED
    BY <1>1, <1>2, <2>1 DEF FramesIn
<1> PICK w : w = IF n > SeqMod THEN SeqMod ELSE n
  OBVIOUS
<1>4. w \in 1..n /\ w <= SeqMod
  BY <1>2, <1>3
<1>5. ASSUME NEW d \in 0..(w - 1)
      PROVE  LET frame == receiver_queue[(NFE + SeqMod - d) % SeqMod]
             IN  /\ frame.start_of_message = (d = n - 1)
                 /\ frame.data = Split(typed[m])[n - d]
  <2> DEFINE frame == receiver_queue[(NFE + SeqMod - d) % SeqMod]
             i == accepted + 1 - begin[m] - d
  <2>1. d \in Nat /\ d < SeqMod /\ d <= accepted - begin[m] /\ i = n - d /\ n - d \in Int
    <3>1. d \in Nat /\ d < SeqMod /\ d <= n - 1 /\ n \in Nat
      BY <1>2, <1>3, <1>4
    <3>2. accepted \in Nat /\ begin[m] \in Nat /\ accepted - begin[m] = n - 1
      BY <1>1, <1>2, <1>3
    <3> QED
      BY <3>1, <3>2
  <2>2. frame.start_of_message = (i = 1) /\ frame.data = Split(typed[m])[i]
    BY <2>1, FrameBehind
  <2>3. (n - d = 1) = (d = n - 1)
    BY <1>3, <2>1
  <2> QED
    BY <2>1, <2>2, <2>3
<1>6. MessageEndingAt(NFE)
        = [j \in 1..w |-> receiver_queue[(NFE + SeqMod - (w - j)) % SeqMod].data]
  <2>1. StartsBehind(NFE, n, w)
    BY <1>5 DEF StartsBehind
  <2>2. NFE \in SeqNums /\ n \in Nat \ {0}
    BY <1>2, <1>3
  <2> QED
    BY <2>1, <2>2, WalkBack
<1>7. MessageEndingAt(NFE) = [j \in 1..w |-> Split(typed[m])[n - w + j]]
  <2>1. ASSUME NEW j \in 1..w
        PROVE  receiver_queue[(NFE + SeqMod - (w - j)) % SeqMod].data
                 = Split(typed[m])[n - w + j]
    <3>1. w - j \in 0..(w - 1) /\ n - (w - j) = n - w + j
      BY <1>3, <1>4
    <3> QED
      BY <1>5, <3>1
  <2> QED
    BY <1>6, <2>1
<1>8. Text(MessageEndingAt(NFE))
        = <<[message |-> typed[m].id, first |-> (n - w) * Room + 1, last |-> typed[m].length]>>
  <2> PICK message : message = typed[m]
    OBVIOUS
  <2>1. message \in Messages /\ w \in 1..NumOfChunks(message.length)
    BY <1>2, <1>3, <1>4
  <2>2. MessageEndingAt(NFE)
          = [j \in 1..w |-> Split(message)[NumOfChunks(message.length) - w + j]]
    BY <1>3, <1>7
  <2>3. PICK chunks : chunks = MessageEndingAt(NFE)
    OBVIOUS
  <2>4. chunks = [j \in 1..w |-> Split(message)[NumOfChunks(message.length) - w + j]]
    BY <2>2, <2>3
  <2>5. Text(chunks) = <<[message |-> message.id,
                          first |-> (NumOfChunks(message.length) - w) * Room + 1,
                          last |-> message.length]>>
    BY <2>1, <2>4, TextOfLast
  <2> QED
    BY <1>3, <2>3, <2>5
<1>9. n - w = IF n > SeqMod THEN n - SeqMod ELSE 0
  BY <1>2, <1>3
<1> QED
  BY <1>3, <1>8, <1>9 DEF Shown

\* Either the frame does not end its message and nothing is printed, or it does and
\* the next message is.
LEMMA Prints ==
  ASSUME DeliveryInv, DeliverFrame, NEW begin, Layout(begin), PrintedUpTo(begin),
         NEW m, m = Len(printed) + 1
  PROVE  \/ accepted + 1 < begin[m + 1] /\ printed' = printed
         \/ /\ accepted + 1 = begin[m + 1]
            /\ printed' = Append(printed, MessageEndingAt(NFE))
            /\ Text(MessageEndingAt(NFE)) = Shown(typed[m])
<1>1. /\ begin[m] \in Nat /\ begin[m] <= accepted /\ m \in DOMAIN typed
      /\ begin[m + 1] = begin[m] + FramesIn(m) /\ accepted + 1 <= begin[m + 1]
  BY NextFrame
<1>2. accepted \in Nat /\ SeqMod \in Nat /\ SeqMod > 1
  BY DeliveryCounts, SeqModAssumption
<1>3. FramesIn(m) \in Nat
  <2>1. typed[m] \in Messages
    BY <1>1 DEF DeliveryInv, Inv, TypeOK
  <2> QED
    BY <2>1, ChunkBounds DEF FramesIn
<1>4. receiver_queue[NFE].end_of_message = (accepted + 1 = begin[m + 1])
  <2> DEFINE i == accepted + 1 - begin[m] - 0
  <2>1. receiver_queue[(NFE + SeqMod - 0) % SeqMod].end_of_message = (i = FramesIn(m))
    <3>1. 0 \in Nat /\ 0 < SeqMod /\ 0 <= accepted - begin[m]
      BY <1>1, <1>2
    <3> QED
      BY <3>1, FrameBehind
  <2>2. (NFE + SeqMod - 0) % SeqMod = NFE
    <3>1. NFE = accepted % SeqMod /\ NFE \in Nat
      BY DEF DeliveryInv, Inv, TypeOK, SeqNums, NumberingSound, CountersAreCounts
    <3>2. ((accepted % SeqMod) + SeqMod - 0) % SeqMod = (accepted - 0) % SeqMod
      BY <1>2, SlotBack
    <3>3. accepted - 0 = accepted
      BY <1>2
    <3> QED
      BY <3>1, <3>2, <3>3
  <2>3. (i = FramesIn(m)) = (accepted + 1 = begin[m + 1])
    BY <1>1, <1>2, <1>3
  <2> HIDE DEF i
  <2> QED
    BY <2>1, <2>2, <2>3
<1>5. CASE accepted + 1 = begin[m + 1]
  BY <1>4, <1>5, PrintsWhole DEF DeliverFrame
<1>6. CASE accepted + 1 < begin[m + 1]
  <2>1. accepted + 1 # begin[m + 1]
    BY <1>1, <1>2, <1>3, <1>6
  <2> QED
    BY <1>4, <1>6, <2>1 DEF DeliverFrame
<1> QED
  BY <1>1, <1>2, <1>3, <1>5, <1>6

LEMMA DeliverFrameDelivers ==
  ASSUME DeliveryInv, Inv', DeliverFrame
  PROVE  DeliveryInv'
<1> PICK begin : Layout(begin) /\ PrintedUpTo(begin)
  BY DEF DeliveryInv
<1> PICK m : m = Len(printed) + 1
  OBVIOUS
<1>1. /\ UNCHANGED <<userVars, blockVars, m_output_queue, frameLinks, receiver_queue, sent>>
      /\ accepted' = accepted + 1
  BY DEF DeliverFrame
<1>2. /\ m \in 1..Framed /\ m \in DOMAIN typed
      /\ begin[m] \in Nat /\ begin[m] <= accepted
      /\ begin[m + 1] = begin[m] + FramesIn(m) /\ accepted + 1 <= begin[m + 1]
      /\ TakenIn = accepted + 1
  BY NextFrame
<1>3. /\ Framed \in Nat /\ Len(printed) \in Nat /\ accepted \in Nat
      /\ DOMAIN printed = 1..Len(printed) /\ Framed <= Len(typed)
      /\ DOMAIN typed = 1..Len(typed)
  BY DeliveryCounts
<1>4. typed' = typed /\ m_user_input_queue' = m_user_input_queue
  BY <1>1 DEF userVars
<1>5. Framed' = Framed /\ \A q : FramesIn(q)' = FramesIn(q) /\ Shown(typed[q])' = Shown(typed[q])
  BY <1>4 DEF Framed, FramesIn, Shown
<1>6. UserQueueInOrder'
  BY <1>4, <1>5 DEF DeliveryInv, UserQueueInOrder
<1>7. MarkersRight'
  BY <1>1, <1>4, MarksStay DEF DeliveryInv, MarkersRight, blockVars, frameLinks
<1>8. LastFramesStored'
  <2>1. TakenIn' = TakenIn
    <3>1. recv_marked \subseteq {NFE} /\ recv_marked' = recv_marked \ {NFE}
      BY DEF DeliverFrame, DeliveryInv, Inv, NumberingSound, CountersAreCounts
    <3>2. ~Delivering'
      BY <3>1 DEF Delivering
    <3> QED
      BY <1>1, <1>2, <1>3, <3>2 DEF TakenIn
  <2> QED
    BY <1>1, <1>4, <2>1, MarksStay DEF DeliveryInv, LastFramesStored
<1>9. Layout(begin)'
  <2>1. \A k : Stream(k)' = Stream(k)
    BY <1>1 DEF Stream, blockVars
  <2> QED
    BY <1>1, <1>4, <1>5, <2>1 DEF Layout, blockVars
<1>10. PrintedUpTo(begin)'
  <2>1. CASE accepted + 1 < begin[m + 1] /\ printed' = printed
    <3>1. /\ m + 1 = Len(printed) + 2 /\ Len(printed) < Framed
          /\ begin[Len(printed) + 1] <= accepted + 1
      BY <1>2, <1>3
    <3> QED
      BY <1>1, <1>3, <1>4, <1>5, <2>1, <3>1 DEF PrintedUpTo
  <2>2. CASE /\ accepted + 1 = begin[m + 1]
             /\ printed' = Append(printed, MessageEndingAt(NFE))
             /\ Text(MessageEndingAt(NFE)) = Shown(typed[m])
    <3>1. /\ Len(printed') = m /\ DOMAIN printed' = 1..m
          /\ \A p \in 1..Len(printed) : printed'[p] = printed[p]
          /\ printed'[m] = MessageEndingAt(NFE)
      <4>1. printed \in Seq(Seq(Chunks \cup {NoChunk}))
        BY DEF DeliveryInv, Inv, TypeOK
      <4>2. MessageEndingAt(NFE) \in Seq(Chunks \cup {NoChunk})
        BY MessageEndingAtType DEF DeliveryInv, Inv, TypeOK
      <4> QED
        BY <1>3, <2>2, <4>1, <4>2, AppendProperties
    <3>2. \A p \in 1..m : p = m \/ p \in 1..Len(printed)
      BY <1>3
    <3>3. \A p \in 1..m : Text(printed'[p]) = Shown(typed[p])
      BY <1>3, <2>2, <3>1, <3>2 DEF PrintedUpTo
    <3>4. begin[m + 1] <= accepted' /\ m <= Framed
      BY <1>1, <1>2, <1>3, <2>2
    <3>5. ASSUME m < Framed PROVE accepted' < begin[m + 2]
      <4>1. m + 1 \in 1..Framed /\ (m + 1) + 1 = m + 2 /\ m + 1 \in DOMAIN typed
        BY <1>2, <1>3, <3>5, DeliveryCounts
      <4>2. begin[m + 2] = begin[m + 1] + FramesIn(m + 1)
        BY <4>1 DEF Layout
      <4>3. FramesIn(m + 1) \in Nat \ {0}
        <5>1. typed[m + 1] \in Messages
          <6>1. typed \in Seq(Messages)
            BY DEF DeliveryInv, Inv, TypeOK
          <6> QED
            BY <4>1, <6>1
        <5> QED
          BY <5>1, ChunkBounds DEF FramesIn
      <4> QED
        BY <1>1, <1>2, <1>3, <2>2, <4>2, <4>3
    <3> QED
      BY <1>4, <1>5, <3>1, <3>3, <3>4, <3>5 DEF PrintedUpTo
  <2> QED
    BY <2>1, <2>2, Prints
<1> QED
  BY <1>6, <1>7, <1>8, <1>9, <1>10 DEF DeliveryInv

\* Acks, the turns of the sender's loop and stuttering do not touch what is delivered.
LEMMA OtherStepsDeliver ==
  ASSUME DeliveryInv, Inv',
         \/ HandleAck \/ AdvanceLAR \/ EndIncoming \/ EndInput \/ EndPending
         \/ ForwardAck \/ SendAcks \/ UNCHANGED vars
  PROVE  DeliveryInv'
<1>1. UNCHANGED <<userVars, pending_frame_list, m_output_queue, frameLinks, sent,
                  NFE, recv_marked, receiver_queue, printed, accepted>>
  BY DEF HandleAck, AdvanceLAR, EndIncoming, EndInput, EndPending, SenderGoesTo, ForwardAck,
         SendAcks, vars, blockVars, receiverVars, frameLinks
<1>2. MarkersRight'
  <2>1. typed' = typed
    BY <1>1 DEF userVars
  <2> QED
    BY <1>1, <2>1, MarksStay DEF DeliveryInv, MarkersRight, frameLinks
<1>3. LastFramesStored'
  BY <1>1, StoredStay DEF userVars
<1>4. UserQueueInOrder' /\ \E begin : Layout(begin)' /\ PrintedUpTo(begin)'
  <2>1. \A k : Stream(k)' = Stream(k)
    BY <1>1 DEF Stream
  <2> QED
    BY <1>1, <2>1, LayoutStays DEF userVars
<1> QED
  BY <1>2, <1>3, <1>4 DEF DeliveryInv

LEMMA DeliveryNext == DeliveryInv /\ [Next]_vars => DeliveryInv'
<1> SUFFICES ASSUME DeliveryInv, [Next]_vars PROVE DeliveryInv'
  OBVIOUS
<1>1. Inv'
  BY InvNext DEF DeliveryInv
<1>2. ASSUME NEW length \in Lengths, UserTypes(length) PROVE DeliveryInv'
  BY <1>1, <1>2, UserTypesDelivers
<1> QED
  BY <1>1, <1>2, HandleUserInputDelivers, SendPendingFrameDelivers, TransitDelivers,
     HandlePacketDelivers, DeliverFrameDelivers, OtherStepsDeliver
  DEF Next, SenderThread, ReceiverThread

-----------------------------------------------------------------------------
(* The refinement.                                                         *)

\* The safety part of MessagesDelivered; its fairness part is left to the runs.
DeliveredInOrder == Delivery!Init /\ [][Delivery!Next]_(Delivery!deliveryVars)

IsRow(f, n) == f = [k \in 1..n |-> f[k]]

\* A function on 1..n with one value more is the sequence with that value appended.
LEMMA OneMore ==
  ASSUME NEW n \in Nat, NEW f, NEW g, NEW value,
         IsRow(f, n), IsRow(g, n + 1),
         \A k \in 1..n : g[k] = f[k], g[n + 1] = value
  PROVE  g = Append(f, value) /\ Len(f) = n
<1> DEFINE S == {f[k] : k \in 1..n} \cup {value}
<1>1. f \in Seq(S) /\ value \in S /\ Len(f) = n
  <2>1. f \in [1..n -> S]
    <3> HIDE DEF S
    <3>1. \A k \in 1..n : f[k] \in S
      BY DEF S
    <3> QED
      BY <3>1 DEF IsRow
  <2> HIDE DEF S
  <2>2. f \in Seq(S) /\ Len(f) = n
    BY <2>1
  <2> QED
    BY <2>2 DEF S
<1> HIDE DEF S
<1>2. /\ Len(Append(f, value)) = n + 1 /\ Append(f, value) \in Seq(S)
      /\ \A k \in 1..n : Append(f, value)[k] = f[k]
      /\ Append(f, value)[n + 1] = value
  BY <1>1, AppendProperties
<1>3. Append(f, value) = [k \in 1..(n + 1) |-> Append(f, value)[k]]
  <2> PICK more : more = Append(f, value)
    OBVIOUS
  <2>1. more \in Seq(S) /\ Len(more) = n + 1
    BY <1>2
  <2>2. more \in [1..(n + 1) -> S]
    BY <2>1, LenProperties
  <2>3. more = [k \in 1..(n + 1) |-> more[k]]
    BY <2>2
  <2> QED
    BY <2>3
<1>4. \A k \in 1..(n + 1) : k = n + 1 \/ k \in 1..n
  OBVIOUS
<1>5. \A k \in 1..(n + 1) : g[k] = Append(f, value)[k]
  BY <1>2, <1>4
<1> QED
  BY <1>1, <1>3, <1>5 DEF IsRow

LEMMA TypingTypes ==
  ASSUME DeliveryInv, NEW length \in Lengths, UserTypes(length)
  PROVE  Delivery!Type
<1> DEFINE message == [id |-> Len(typed) + 1, length |-> length]
<1>1. /\ typed' = Append(typed, message) /\ typed \in Seq(Messages)
      /\ Len(typed) < MaxMessages /\ printed' = printed
  BY DEF UserTypes, DeliveryInv, Inv, TypeOK, receiverVars
<1>2. message \in Messages
  <2>1. Len(typed) \in Nat /\ MaxMessages \in Nat
    BY <1>1, LenProperties, BoundAssumption
  <2>2. Len(typed) + 1 \in 1..MaxMessages
    BY <1>1, <2>1
  <2> QED
    BY <2>2 DEF Messages
<1> HIDE DEF message
<1>3. /\ Len(typed) \in Nat /\ DOMAIN typed = 1..Len(typed)
      /\ DOMAIN typed' = 1..(Len(typed) + 1)
      /\ \A m \in 1..Len(typed) : typed'[m] = typed[m]
      /\ typed'[Len(typed) + 1] = message
  BY <1>1, <1>2, AppendProperties, LenProperties
<1> DEFINE before == [m \in DOMAIN typed |-> Shown(typed[m])]
           after == [m \in DOMAIN typed' |-> Shown(typed'[m])]
<1>4. after = Append(before, Shown(message))
  <2> PICK n : n = Len(typed)
    OBVIOUS
  <2> PICK f, g, value : f = before /\ g = after /\ value = Shown(message)
    OBVIOUS
  <2>1. /\ n \in Nat /\ IsRow(f, n) /\ IsRow(g, n + 1)
        /\ \A m \in 1..n : g[m] = f[m]
        /\ g[n + 1] = value
    BY <1>3 DEF IsRow
  <2> HIDE DEF before, after
  <2>2. g = Append(f, value)
    BY <2>1, OneMore
  <2> QED
    BY <2>2
<1>5. Shown(message) \in {Shown(any) : any \in Messages}
  BY <1>2
<1>6. Output' = Output
  BY <1>1 DEF Output
<1>7. after = [m \in DOMAIN typed |-> Shown(typed[m])]'
  BY DEF Shown
<1> QED
  BY <1>4, <1>5, <1>6, <1>7 DEF Delivery!Type

LEMMA DeliveringPrints ==
  ASSUME DeliveryInv, DeliverFrame
  PROVE  Delivery!PrintOut \/ UNCHANGED Delivery!deliveryVars
<1> DEFINE shown == [m \in DOMAIN typed |-> Shown(typed[m])]
<1> PICK begin : Layout(begin) /\ PrintedUpTo(begin)
  BY DEF DeliveryInv
<1> PICK m : m = Len(printed) + 1
  OBVIOUS
<1>1. typed' = typed
  BY DEF DeliverFrame, userVars
<1>2. [q \in DOMAIN typed |-> Shown(typed[q])]' = [q \in DOMAIN typed |-> Shown(typed[q])]
  BY <1>1 DEF Shown
<1>3. CASE printed' = printed
  <2>1. Output' = Output
    BY <1>3 DEF Output
  <2> QED
    BY <1>2, <2>1 DEF Delivery!deliveryVars
<1>4. CASE /\ printed' = Append(printed, MessageEndingAt(NFE))
           /\ Text(MessageEndingAt(NFE)) = Shown(typed[m])
  <2>1. /\ Len(printed) \in Nat /\ DOMAIN printed = 1..Len(printed)
        /\ DOMAIN printed' = 1..(Len(printed) + 1)
        /\ \A p \in 1..Len(printed) : printed'[p] = printed[p]
        /\ printed'[Len(printed) + 1] = MessageEndingAt(NFE)
    <3>1. printed \in Seq(Seq(Chunks \cup {NoChunk}))
      BY DEF DeliveryInv, Inv, TypeOK
    <3>2. MessageEndingAt(NFE) \in Seq(Chunks \cup {NoChunk})
      BY MessageEndingAtType DEF DeliveryInv, Inv, TypeOK
    <3> QED
      BY <1>4, <3>1, <3>2, AppendProperties, LenProperties
  <2>2. m \in 1..Framed /\ m \in DOMAIN typed
    BY NextFrame
  <2> DEFINE after == [p \in DOMAIN printed' |-> Text(printed'[p])]
  <2>3. after = Append(Output, Shown(typed[m])) /\ Len(Output) = Len(printed)
    <3> PICK n : n = Len(printed)
      OBVIOUS
    <3> PICK f, g, value : f = Output /\ g = after /\ value = Shown(typed[m])
      OBVIOUS
    <3>1. /\ n \in Nat /\ IsRow(f, n) /\ IsRow(g, n + 1)
          /\ \A p \in 1..n : g[p] = f[p]
          /\ g[n + 1] = value
      BY <1>4, <2>1 DEF Output, IsRow
    <3> HIDE DEF after
    <3>2. g = Append(f, value) /\ Len(f) = n
      BY <3>1, OneMore
    <3> QED
      BY <3>2
  <2>4. Output' = after
    BY DEF Output, Text, GoesOn
  <2>5. Len(shown) = Len(typed) /\ shown[m] = Shown(typed[m]) /\ Len(Output) < Len(typed)
    <3>1. DOMAIN typed = 1..Len(typed) /\ Len(typed) \in Nat /\ Framed \in Nat
          /\ Framed <= Len(typed)
      BY DeliveryCounts
    <3>2. shown = [q \in 1..Len(typed) |-> shown[q]] /\ shown[m] = Shown(typed[m])
      BY <2>2, <3>1
    <3> HIDE DEF shown
    <3>3. Len(shown) = Len(typed)
      BY <3>1, <3>2
    <3>4. Len(printed) < Len(typed)
      BY <2>1, <2>2, <3>1
    <3> QED
      BY <2>3, <3>2, <3>3, <3>4
  <2>6. Output' = Append(Output, shown[Len(Output) + 1]) /\ Len(Output) < Len(shown)
    <3> HIDE DEF shown, after
    <3> QED
      BY <2>3, <2>4, <2>5
  <2> QED
    BY <1>2, <2>6 DEF Delivery!PrintOut
<1> QED
  BY <1>3, <1>4, Prints

LEMMA DeliveryStep ==
  ASSUME DeliveryInv, [Next]_vars
  PROVE  [Delivery!Next]_(Delivery!deliveryVars)
<1>1. ASSUME UNCHANGED <<typed, printed>> PROVE UNCHANGED Delivery!deliveryVars
  BY <1>1 DEF Delivery!deliveryVars, Output, Text, GoesOn, Shown
<1>2. ASSUME NEW length \in Lengths, UserTypes(length) PROVE Delivery!Next
  BY <1>2, TypingTypes DEF Delivery!Next
<1>3. CASE DeliverFrame
  BY <1>3, DeliveringPrints DEF Delivery!Next
<1>4. CASE SenderThread \/ ForwardFrame \/ ForwardAck \/ HandlePacket \/ SendAcks
           \/ UNCHANGED vars
  <2>1. UNCHANGED <<typed, printed>>
    BY <1>4 DEF SenderThread, HandleAck, AdvanceLAR, EndIncoming, EndInput, EndPending,
                SenderGoesTo, HandleUserInput, SendPendingFrame, SendMessageToRouter,
                ForwardFrame, ForwardAck, HandlePacket, SendAcks, vars, userVars, receiverVars
  <2> QED
    BY <1>1, <2>1
<1> QED
  BY <1>2, <1>3, <1>4 DEF Next, ReceiverThread

LEMMA DeliveryStart == Init => Delivery!Init
<1> SUFFICES ASSUME Init PROVE Delivery!Init
  OBVIOUS
<1>1. DOMAIN typed = {} /\ DOMAIN printed = {}
  BY DEF Init
<1>2. [m \in DOMAIN typed |-> Shown(typed[m])] = <<>> /\ Output = <<>>
  BY <1>1 DEF Output
<1> QED
  BY <1>2 DEF Delivery!Init

\* For any payload size, window, number of sequence numbers and messages of any length:
\* printOutMessage (host.cpp:126-149) prints the messages typed, whole (or the last SeqMod
\* frames of a longer one), once each and in the order they were typed, although their
\* frames share SeqMod slots and uint8_t numbers.
THEOREM MessagesInOrder == Spec => DeliveredInOrder
<1> DEFINE Step == [Delivery!Next]_(Delivery!deliveryVars)
<1>1. Init => DeliveryInv /\ Delivery!Init
  BY DeliveryInit, DeliveryStart
<1>2. DeliveryInv /\ [Next]_vars => DeliveryInv' /\ Step
  BY DeliveryNext, DeliveryStep
<1> HIDE DEF Step
<1>3. Spec => Delivery!Init /\ [][Step]_(Delivery!deliveryVars)
  BY <1>1, <1>2, PTL DEF Spec
<1> QED
  BY <1>3, PTL DEF DeliveredInOrder, Step

=============================================================================
