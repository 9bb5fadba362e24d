------------------------ MODULE SlidingWindowProofs ------------------------
(***************************************************************************)
(* Theorems about SlidingWindow, for every number of sequence numbers,     *)
(* every window that leaves one of them out, and any number of messages of *)
(* any length: framing, type correctness, and an inductive invariant that  *)
(* ties the uint8_t counters and the numbers on the links to the true      *)
(* counts of frames sent, taken in and acknowledged.                       *)
(***************************************************************************)
EXTENDS SlidingWindow, Integers, TLAPS, SequenceTheorems, FiniteSetTheorems

-----------------------------------------------------------------------------
(* What uint8_t arithmetic computes when the true count behind a counter   *)
(* grows without bound.                                                    *)

\* Division with remainder, as the uint8_t conversion of the code performs it.
LEMMA DivMod ==
  ASSUME NEW M \in Nat, M > 1, NEW x \in Nat
  PROVE  /\ x \div M \in Nat
         /\ x % M \in 0..(M - 1)
         /\ x = M * (x \div M) + (x % M)
BY SMT

\* Quotient and remainder are unique.
LEMMA DivUnique ==
  ASSUME NEW M \in Nat, M > 1,
         NEW q \in Int, NEW p \in Int, NEW r \in Int, NEW s \in Int,
         0 <= r, r < M, 0 <= s, s < M,
         M * q + r = M * p + s
  PROVE  q = p /\ r = s
<1>1. M * (q - p) = s - r
  BY SMT
<1>2. q - p <= 0
  BY <1>1, SMT
<1>3. q - p >= 0
  BY <1>1, SMT
<1>4. q = p
  BY <1>2, <1>3, SMT
<1> QED
  BY <1>4, SMT

\* Adding less than a whole turn to a count: its counter either does not wrap or
\* wraps once.
LEMMA ModAdd ==
  ASSUME NEW M \in Nat, M > 1, NEW x \in Nat, NEW d \in 0..M
  PROVE  (x + d) % M = IF (x % M) + d < M THEN (x % M) + d ELSE (x % M) + d - M
<1> DEFINE q == x \div M
           r == x % M
           p == (x + d) \div M
           s == (x + d) % M
<1>1. q \in Nat /\ r \in 0..(M - 1) /\ x = M * q + r
  BY DivMod
<1>2. p \in Nat /\ s \in 0..(M - 1) /\ x + d = M * p + s
  BY DivMod
<1> HIDE DEF q, r, p, s
<1>3. CASE r + d < M
  <2>1. x + d = M * q + (r + d) /\ r + d \in 0..(M - 1)
    BY <1>1, <1>3, SMT
  <2>2. s = r + d
    BY <2>1, <1>1, <1>2, DivUnique, SMT
  <2> QED
    BY <2>2, <1>3 DEF r, s
<1>4. CASE ~(r + d < M)
  <2> DEFINE turns == q + 1
             rest  == r + d - M
  <2>1. x + d = M * turns + rest
    BY <1>1, SMT
  <2>2. turns \in Int /\ rest \in 0..(M - 1)
    BY <1>1, <1>4, SMT
  <2> HIDE DEF turns, rest
  <2>3. M * turns + rest = M * p + s /\ p \in Int /\ s \in 0..(M - 1)
    BY <2>1, <1>2, SMT
  <2> HIDE DEF p, s
  <2>4. rest = s
    BY <2>2, <2>3, DivUnique, SMTT(30)
  <2> QED
    BY <2>4, <1>4 DEF r, s, rest
<1> QED
  BY <1>3, <1>4

\* Adding to a counter and wrapping gives the counter of the sum.
LEMMA ModAddMod ==
  ASSUME NEW M \in Nat, M > 1, NEW x \in Nat, NEW y \in Nat
  PROVE  ((x % M) + y) % M = (x + y) % M
<1> DEFINE q == x \div M
           r == x % M
           p == (r + y) \div M
           s == (r + y) % M
           pp == (x + y) \div M
           ss == (x + y) % M
<1>1. q \in Nat /\ r \in 0..(M - 1) /\ x = M * q + r
  BY DivMod
<1>2. r + y \in Nat /\ x + y \in Nat
  BY <1>1, SMT
<1> HIDE DEF q, r
<1>3. p \in Nat /\ s \in 0..(M - 1) /\ r + y = M * p + s
  BY <1>2, DivMod
<1>4. pp \in Nat /\ ss \in 0..(M - 1) /\ x + y = M * pp + ss
  BY <1>2, DivMod
<1> HIDE DEF p, s, pp, ss
<1> DEFINE turns == q + p
<1>5. turns \in Int /\ M * turns + s = M * pp + ss
  BY <1>1, <1>3, <1>4, SMT
<1> HIDE DEF turns
<1>6. s = ss
  BY <1>3, <1>4, <1>5, DivUnique, SMT
<1> QED
  BY <1>6 DEF s, ss, r

-----------------------------------------------------------------------------
(* Counters.                                                               *)

LEMMA IncType == \A s \in SeqNums : Inc(s) \in SeqNums
BY SeqModAssumption, SMT DEF Inc, SeqNums

LEMMA ModType == \A x \in Nat : x % SeqMod \in SeqNums
BY SeqModAssumption, DivMod DEF SeqNums

-----------------------------------------------------------------------------
(* Framing.                                                                *)

LEMMA ProductInNat ==
  ASSUME NEW a \in Nat, NEW b \in Nat
  PROVE  a * b \in Nat
BY SMT

LEMMA LenOfFunction ==
  ASSUME NEW n \in Nat, NEW S, NEW f \in [1..n -> S]
  PROVE  f \in Seq(S) /\ Len(f) = n
BY SMT

LEMMA DivBounds ==
  ASSUME NEW length \in Nat, NEW m \in Nat \ {0}
  PROVE  /\ length \div m \in Nat
         /\ m * (length \div m) <= length
         /\ length < m * (length \div m) + m
BY SMT

LEMMA NumOfChunksType ==
  ASSUME NEW length \in Nat
  PROVE  NumOfChunks(length) \in Nat \ {0}
<1>1. Room \in Nat \ {0}
  BY PayloadAssumption, SMT DEF Room
<1>2. length \div Room \in Nat
  BY <1>1, DivMod
<1> QED
  BY <1>2, SMT DEF NumOfChunks

\* A split message has a whole chunk in front of its last one, and what is left for
\* the last chunk is less than a whole one.
LEMMA SplitLengths ==
  ASSUME NEW length \in Nat, IsSplit(length), NEW n, n = NumOfChunks(length)
  PROVE  /\ n \in Nat /\ n > 1
         /\ (n - 1) * Room <= length
         /\ length < (n - 1) * Room + Room
<1> DEFINE q == length \div Room
<1>1. Room \in Nat \ {0} /\ Room < length
  BY PayloadAssumption, SMT DEF Room, IsSplit
<1>2. n = q + 1
  BY DEF NumOfChunks
<1>3. q \in Nat /\ Room * q <= length /\ length < Room * q + Room
  BY <1>1, DivBounds
<1> HIDE DEF q
<1>4. q # 0
  BY <1>1, <1>3, SMT
<1>5. Room * q = q * Room
  BY <1>1, <1>3, SMT
<1> QED
  BY <1>1, <1>2, <1>3, <1>4, <1>5, SMT

\* What is copied into a chunk fits, with the zero behind it if the message is split.
LEMMA CopiedType ==
  ASSUME NEW length \in Nat, NEW i
  PROVE  /\ Copied(length, i) \in 0..FRAME_PAYLOAD_SIZE
         /\ IsSplit(length) => Copied(length, i) + 1 <= FRAME_PAYLOAD_SIZE
<1>1. Room \in Nat \ {0} /\ Room + 1 = FRAME_PAYLOAD_SIZE /\ FRAME_PAYLOAD_SIZE \in Nat
  BY PayloadAssumption DEF Room
<1>2. length % Room \in 0..(Room - 1)
  BY <1>1, SMT
<1>3. ~IsSplit(length) => length <= FRAME_PAYLOAD_SIZE
  BY <1>1 DEF IsSplit
<1>4. CASE ~IsSplit(length)
  BY <1>1, <1>3, <1>4 DEF Copied
<1>5. CASE IsSplit(length)
  <2>1. Copied(length, i) = Room \/ Copied(length, i) = length % Room
    BY <1>5 DEF Copied
  <2>. QED  BY <1>1, <1>2, <2>1
<1>. QED  BY <1>4, <1>5

LEMMA TimesMonotone ==
  ASSUME NEW a \in Nat, NEW b \in Nat, a <= b, NEW room \in Nat
  PROVE  a * room <= b * room
<1>1. b = a + (b - a) /\ b - a \in Nat
  OBVIOUS
<1>2. b * room = a * room + (b - a) * room
  BY <1>1, SMT
<1>3. (b - a) * room \in Nat /\ a * room \in Nat
  BY <1>1, SMT
<1>. QED  BY <1>2, <1>3

\* What was copied into a chunk reaches exactly to the next chunk, or at least to the end.
LEMMA CopiedReaches ==
  ASSUME NEW length \in Nat, NEW n, n = NumOfChunks(length), NEW i \in 1..n
  PROVE  LET end == (i - 1) * Room + Copied(length, i)
         IN  /\ i < n => end = i * Room /\ end <= length
             /\ i = n => end >= length
<1>1. n \in Nat \ {0} /\ Room \in Nat \ {0} /\ Room + 1 = FRAME_PAYLOAD_SIZE
  BY NumOfChunksType, PayloadAssumption DEF Room
<1>2. i \in Nat /\ i - 1 \in Nat /\ (i - 1) * Room \in Nat /\ i * Room = (i - 1) * Room + Room
  BY <1>1, SMT
<1>3. CASE ~IsSplit(length)
  <2>1. n = 1 /\ i = 1
    BY <1>1, <1>3 DEF NumOfChunks
  <2>2. (1 - 1) * Room + length = length
    BY <1>1, SMT
  <2>. QED  BY <1>3, <2>1, <2>2 DEF Copied
<1>4. CASE IsSplit(length) /\ i < n
  <2>1. Copied(length, i) = Room
    BY <1>4 DEF Copied
  <2>2. (n - 1) * Room <= length
    BY <1>4, SplitLengths
  <2>3. i * Room <= (n - 1) * Room
    <3>1. i \in Nat /\ n - 1 \in Nat /\ i <= n - 1
      BY <1>1, <1>2, <1>4, SMT
    <3>. QED  BY <1>1, <3>1, TimesMonotone
  <2>. QED  BY <1>1, <1>2, <1>4, <2>1, <2>2, <2>3, SMT
<1>5. CASE IsSplit(length) /\ i = n
  <2>1. length < (n - 1) * Room + Room
    BY <1>5, SplitLengths
  <2>2. length % Room = 0 => Copied(length, i) = Room
    BY <1>5 DEF Copied
  <2>3. length % Room # 0 => Copied(length, i) = length % Room
    BY <1>5 DEF Copied
  <2>4. (n - 1) * Room + (length % Room) = length
    <3>1. n - 1 = length \div Room
      <4>1. n = length \div Room + 1 /\ length \div Room \in Nat
        BY <1>1, <1>5, DivBounds DEF NumOfChunks
      <4>. QED  BY <4>1, SMT
    <3>2. length = Room * (length \div Room) + (length % Room)
      BY <1>1, SMT
    <3>3. Room * (length \div Room) = (length \div Room) * Room
      BY <1>1, DivBounds, SMT
    <3>. QED  BY <3>1, <3>2, <3>3
  <2>. QED  BY <1>1, <1>2, <1>5, <2>1, <2>2, <2>3, <2>4, SMT
<1>6. i < n \/ i = n
  BY <1>1, SMT
<1>. QED  BY <1>3, <1>4, <1>5, <1>6

\* The chunks by their bounds: each but the last ends a whole chunk behind its beginning.
LEMMA SplitIs ==
  ASSUME NEW message, message.length \in Nat
  PROVE  Split(message)
           = [i \in 1..NumOfChunks(message.length) |->
                [message |-> message.id, first |-> (i - 1) * Room + 1,
                 last |-> IF i < NumOfChunks(message.length) THEN i * Room ELSE message.length]]
<1> DEFINE n == NumOfChunks(message.length)
           end(i) == (i - 1) * Room + Copied(message.length, i)
<1>1. n \in Nat \ {0} /\ Room \in Nat
  BY NumOfChunksType, PayloadAssumption DEF Room
<1>2. ASSUME NEW i \in 1..n
      PROVE  (IF end(i) < message.length THEN end(i) ELSE message.length)
               = IF i < n THEN i * Room ELSE message.length
  <2>1. /\ i < n => end(i) = i * Room /\ end(i) <= message.length
        /\ i = n => end(i) >= message.length
    BY CopiedReaches
  <2>2. CASE i < n
    <3>1. i * Room \in Nat
      BY <1>1, <2>2, SMT
    <3> HIDE DEF end
    <3>. QED  BY <2>1, <2>2, <3>1
  <2>3. CASE ~(i < n)
    <3>1. i = n
      BY <1>1, <2>3
    <3>2. end(i) \in Int
      BY <1>1, <3>1, CopiedType
    <3> HIDE DEF end
    <3>. QED  BY <2>1, <2>3, <3>1, <3>2
  <2>. QED  BY <2>2, <2>3
<1>3. Split(message)
        = [i \in 1..n |-> [message |-> message.id, first |-> (i - 1) * Room + 1,
                           last |-> IF end(i) < message.length THEN end(i) ELSE message.length]]
  BY DEF Split
<1> HIDE DEF n, end
<1>4. Split(message)
        = [i \in 1..n |-> [message |-> message.id, first |-> (i - 1) * Room + 1,
                           last |-> IF i < n THEN i * Room ELSE message.length]]
  BY <1>2, <1>3
<1>. QED  BY <1>4 DEF n

\* handleUserInput, for every length and payload size: the chunks cover the message
\* from its first to its last character without a gap or an overlap, what is copied into
\* one is no more than a payload, and leaves room for the zero if the message is split.
THEOREM SplitCovers ==
  ASSUME NEW message \in [id : Nat, length : Nat]
  PROVE  LET chunks == Split(message)
         IN  /\ Text(chunks) = <<[message |-> message.id, first |-> 1,
                                  last |-> message.length]>>
             /\ \A k \in 1..Len(chunks) :
                  LET copied == Copied(message.length, k)
                  IN  /\ copied \in 0..FRAME_PAYLOAD_SIZE
                      /\ IsSplit(message.length) => copied + 1 <= FRAME_PAYLOAD_SIZE
<1> DEFINE chunks == Split(message)
           n == NumOfChunks(message.length)
<1>1. message.id \in Nat /\ message.length \in Nat /\ n \in Nat \ {0}
  BY NumOfChunksType
<1>2. /\ Len(chunks) = n
      /\ \A k \in 1..n : chunks[k] = [message |-> message.id, first |-> (k - 1) * Room + 1,
                                      last |-> IF k < n THEN k * Room ELSE message.length]
  <2>1. chunks = [k \in 1..n |-> [message |-> message.id, first |-> (k - 1) * Room + 1,
                                  last |-> IF k < n THEN k * Room ELSE message.length]]
    BY <1>1, SplitIs
  <2> HIDE DEF chunks, n
  <2> QED
    BY <1>1, <2>1
<1>3. Room \in Nat \ {0} /\ Room + 1 = FRAME_PAYLOAD_SIZE
  BY PayloadAssumption, SMT DEF Room
<1> HIDE DEF chunks, n
<1>4. GoesOn(chunks)
  <2>1. ASSUME NEW k \in 1..(n - 1)
        PROVE  /\ chunks[k + 1].message = chunks[k].message
               /\ chunks[k + 1].first = chunks[k].last + 1
    <3>1. k \in 1..n /\ k + 1 \in 1..n /\ k < n /\ (k + 1) - 1 = k
      BY <1>1, <2>1, SMT
    <3> QED
      BY <1>2, <3>1
  <2> QED
    BY <1>2, <2>1 DEF GoesOn
<1>5. Text(chunks) = <<[message |-> message.id, first |-> 1, last |-> message.length]>>
  <2>1. 1 \in 1..n /\ n \in 1..n /\ ~(n < n) /\ (1 - 1) * Room + 1 = 1
    BY <1>1, <1>3, SMT
  <2>2. chunks[1].message = message.id /\ chunks[1].first = 1
    BY <1>2, <2>1
  <2>3. chunks[n].last = message.length
    BY <1>2, <2>1
  <2>4. [chunks[1] EXCEPT !.last = chunks[n].last]
          = [message |-> message.id, first |-> 1, last |-> message.length]
    BY <1>2, <2>1, <2>2, <2>3
  <2> QED
    BY <1>2, <1>4, <2>4 DEF Text
<1> QED
  BY <1>1, <1>2, <1>5, CopiedType DEF chunks

-----------------------------------------------------------------------------
(* Type correctness.                                                       *)

LEMMA SplitType ==
  ASSUME NEW message \in Messages
  PROVE  /\ NumOfChunks(message.length) \in Nat \ {0}
         /\ Split(message) \in Seq(Chunks)
         /\ Len(Split(message)) = NumOfChunks(message.length)
<1>1. message.id \in 1..MaxMessages /\ message.length \in Nat
  BY BoundAssumption DEF Messages
<1> DEFINE n == NumOfChunks(message.length)
<1>2. n \in Nat \ {0}
  BY <1>1, NumOfChunksType
<1>3. \A i \in 1..n : i * Room \in Nat /\ (i - 1) * Room + 1 \in Nat
  <2> TAKE i \in 1..n
  <2>1. i \in Nat /\ i - 1 \in Nat /\ Room \in Nat
    BY <1>2, PayloadAssumption, SMT DEF Room
  <2> QED
    BY <2>1, ProductInNat
<1>4. Split(message) = [i \in 1..n |-> [message |-> message.id, first |-> (i - 1) * Room + 1,
                                        last |-> IF i < n THEN i * Room ELSE message.length]]
  BY <1>1, SplitIs
<1> HIDE DEF n
<1>5. Split(message) \in [1..n -> Chunks]
  BY <1>1, <1>3, <1>4 DEF Chunks
<1> QED
  BY <1>2, <1>5, LenOfFunction DEF n

\* What the chunks of a typed message are.
LEMMA ChunkBounds ==
  ASSUME NEW message \in Messages
  PROVE  LET n == NumOfChunks(message.length)
         IN  /\ n \in Nat \ {0} /\ Room \in Nat \ {0} /\ Len(Split(message)) = n
             /\ \A i \in 1..n : /\ Split(message)[i].message = message.id
                                /\ Split(message)[i].first = (i - 1) * Room + 1
                                /\ Split(message)[i].last
                                     = IF i < n THEN i * Room ELSE message.length
<1>1. Room \in Nat \ {0}
  BY PayloadAssumption DEF Room
<1>2. message.length \in Nat
  BY BoundAssumption DEF Messages
<1> DEFINE n == NumOfChunks(message.length)
<1>3. n \in Nat \ {0}
  BY <1>2, NumOfChunksType
<1> HIDE DEF n
<1>4. Split(message) = [i \in 1..n |-> [message |-> message.id, first |-> (i - 1) * Room + 1,
                                        last |-> IF i < n THEN i * Room ELSE message.length]]
  BY <1>2, SplitIs DEF n
<1>5. Len(Split(message)) = n
  BY <1>3, <1>4
<1> QED
  BY <1>1, <1>3, <1>4, <1>5 DEF n

\* No two chunks of a message begin at the same character.
LEMMA FirstDistinct ==
  ASSUME NEW i \in Nat, NEW j \in Nat, NEW room \in Nat \ {0},
         i * room + 1 = j * room + 1
  PROVE  i = j
<1>1. i < j => (j - i) * room >= room
  BY SMT
<1>2. j < i => (i - j) * room >= room
  BY SMT
<1>3. (j - i) * room = j * room - i * room
  BY SMT
<1>4. (i - j) * room = i * room - j * room
  BY SMT
<1>5. i * room \in Nat /\ j * room \in Nat
  BY ProductInNat
<1> QED
  BY <1>1, <1>2, <1>3, <1>4, <1>5, SMT

\* handleUserInput cuts a message into frames.
LEMMA FramesOfType ==
  ASSUME NEW message \in Messages, SEQ \in SeqNums
  PROVE  /\ FramesOf(message) \in Seq(Frames)
         /\ Len(FramesOf(message)) = NumOfChunks(message.length)
<1> DEFINE chunks == Split(message)
<1>1. /\ Len(chunks) \in Nat /\ \A i \in 1..Len(chunks) : chunks[i] \in Chunks
      /\ Len(chunks) = NumOfChunks(message.length)
  BY SplitType, SMT
<1>2. \A i \in 1..Len(chunks) : (SEQ + i - 1) % SeqMod \in SeqNums
  <2> TAKE i \in 1..Len(chunks)
  <2>1. SEQ + i - 1 \in Nat
    BY <1>1, SeqModAssumption, SMT DEF SeqNums
  <2> QED
    BY <2>1, ModType
<1>3. FramesOf(message) =
        [i \in 1..Len(chunks) |->
           [data |-> chunks[i], seq_ack_num |-> (SEQ + i - 1) % SeqMod,
            start_of_message |-> i = 1, end_of_message |-> i = Len(chunks)]]
  BY DEF FramesOf
<1> HIDE DEF chunks
<1>4. \A i \in 1..Len(chunks) : FramesOf(message)[i] \in Frames
  BY <1>1, <1>2, <1>3 DEF Frames
<1>5. FramesOf(message) \in [1..Len(chunks) -> Frames]
  BY <1>3, <1>4
<1> QED
  BY <1>1, <1>5, LenOfFunction

\* printOutMessage prints at most SeqMod slots, whatever they hold.
LEMMA MessageEndingAtPieces ==
  ASSUME NEW index \in SeqNums, NEW S,
         \A s \in SeqNums : receiver_queue[s].data \in S
  PROVE  MessageEndingAt(index) \in Seq(S)
<1> DEFINE Back(d) == receiver_queue[(index + SeqMod - d) % SeqMod]
           walked  == {d \in SeqNums : \A e \in SeqNums : e < d => ~Back(e).start_of_message}
           len     == Cardinality(walked)
<1>1. len \in Nat /\ len <= SeqMod
  <2>1. IsFiniteSet(SeqNums) /\ Cardinality(SeqNums) = SeqMod
    BY FS_Interval, SeqModAssumption, SMT DEF SeqNums
  <2>2. walked \subseteq SeqNums
    OBVIOUS
  <2> HIDE DEF walked
  <2>3. Cardinality(walked) <= Cardinality(SeqNums) /\ IsFiniteSet(walked)
    BY <2>1, <2>2, FS_Subset
  <2> QED
    BY <2>1, <2>3, FS_CardinalityType
<1>2. \A d \in SeqNums : Back(d).data \in S
  <2> TAKE d \in SeqNums
  <2>1. index + SeqMod - d \in Nat
    BY SeqModAssumption, SMT DEF SeqNums
  <2> QED
    BY <2>1, ModType
<1>3. MessageEndingAt(index) = [k \in 1..len |-> Back(len - k).data]
  BY DEF MessageEndingAt
<1> HIDE DEF len, Back
<1>4. \A k \in 1..len : len - k \in SeqNums
  BY <1>1, SeqModAssumption, SMT DEF SeqNums
<1>5. \A k \in 1..len : Back(len - k).data \in S
  BY <1>2, <1>4
<1> QED
  BY <1>1, <1>3, <1>5, SMT

LEMMA MessageEndingAtType ==
  ASSUME NEW index \in SeqNums,
         receiver_queue \in [SeqNums -> Frames \cup {NoFrame}]
  PROVE  MessageEndingAt(index) \in Seq(Chunks \cup {NoChunk})
<1>1. \A s \in SeqNums : receiver_queue[s].data \in Chunks \cup {NoChunk}
  <2> TAKE s \in SeqNums
  <2>1. receiver_queue[s] \in Frames \cup {NoFrame}
    OBVIOUS
  <2> QED
    BY <2>1 DEF Frames, NoFrame
<1> QED
  BY <1>1, MessageEndingAtPieces

LEMMA TypeInit == Init => TypeOK
<1> SUFFICES ASSUME Init PROVE TypeOK
  OBVIOUS
<1>1. \A S : <<>> \in Seq(S)
  BY EmptySeq
<1>2. LAR \in SeqNums /\ LFS \in SeqNums /\ SEQ \in SeqNums /\ NFE \in SeqNums
  BY SeqModAssumption, SMT DEF Init, SeqNums
<1>3. sender_queue \in [SeqNums -> Frames \cup {NoFrame}]
  BY DEF Init
<1>4. receiver_queue \in [SeqNums -> Frames \cup {NoFrame}]
  BY DEF Init
<1> QED
  BY <1>1, <1>2, <1>3, <1>4 DEF Init, TypeOK

LEMMA TypeNext == TypeOK /\ [Next]_vars => TypeOK'
<1> SUFFICES ASSUME TypeOK, [Next]_vars PROVE TypeOK'
  OBVIOUS
<1> USE DEF TypeOK
<1>1. ASSUME NEW length \in Lengths, UserTypes(length) PROVE TypeOK'
  <2> DEFINE message == [id |-> Len(typed) + 1, length |-> length]
  <2>1. Len(typed) + 1 \in 1..MaxMessages
    BY <1>1, BoundAssumption, SMT DEF UserTypes
  <2>2. message \in Messages
    <3> HIDE DEF TypeOK
    <3> QED
      BY <2>1 DEF Messages
  <2>3. /\ typed' = Append(typed, message)
        /\ m_user_input_queue' = Append(m_user_input_queue, message)
    BY <1>1 DEF UserTypes
  <2> HIDE DEF message
  <2>4. typed' \in Seq(Messages) /\ m_user_input_queue' \in Seq(Messages)
    BY <2>2, <2>3, AppendProperties
  <2> QED
    BY <1>1, <2>4 DEF UserTypes, blockVars, receiverVars, frameLinks, ackLinks
<1>2. CASE HandleAck
  <2>1. Head(toSender) \in Acks /\ toSender' \in Seq(Acks)
    BY <1>2, HeadTailProperties DEF HandleAck
  <2>2. Head(toSender).seq_ack_num \in SeqNums
    BY <2>1 DEF Acks
  <2>3. ack_marked' \subseteq SeqNums
    BY <1>2, <2>2 DEF HandleAck
  <2> QED
    BY <1>2, <2>1, <2>3 DEF HandleAck, userVars, receiverVars, frameLinks
<1>3. CASE AdvanceLAR
  BY <1>3, IncType, SMT DEF AdvanceLAR, userVars, receiverVars, frameLinks, ackLinks
<1>4. CASE EndIncoming \/ EndInput \/ EndPending
  BY <1>4, SMT DEF EndIncoming, EndInput, EndPending, SenderGoesTo, userVars, blockVars,
                   receiverVars, frameLinks, ackLinks
<1>5. CASE HandleUserInput
  <2> DEFINE message == Head(m_user_input_queue)
  <2>1. message \in Messages /\ m_user_input_queue' \in Seq(Messages)
    BY <1>5, HeadTailProperties DEF HandleUserInput
  <2>2. FramesOf(message) \in Seq(Frames) /\ NumOfChunks(message.length) \in Nat
    BY <2>1, FramesOfType, SplitType
  <2>3. SEQ' \in SeqNums
    <3>1. SEQ + NumOfChunks(message.length) \in Nat
      BY <2>2, SMT DEF SeqNums
    <3> QED
      BY <3>1, <1>5, ModType DEF HandleUserInput
  <2>4. pending_frame_list' \in Seq(Frames)
    BY <1>5, <2>2, ConcatProperties DEF HandleUserInput
  <2> QED
    BY <1>5, <2>1, <2>3, <2>4 DEF HandleUserInput, receiverVars, frameLinks, ackLinks
<1>6. CASE SendPendingFrame
  <2>1. /\ Head(pending_frame_list) \in Frames
        /\ pending_frame_list' \in Seq(Frames)
    BY <1>6, HeadTailProperties DEF SendPendingFrame, MayLeave
  <2>2. /\ Head(pending_frame_list).seq_ack_num \in SeqNums
        /\ Head(pending_frame_list).data \in Chunks
    BY <2>1 DEF Frames
  <2> QED
    BY <1>6, <2>1, <2>2, SMT
    DEF SendPendingFrame, userVars, receiverVars, frameLinks, ackLinks
<1>7. CASE SendMessageToRouter
  <2>1. uplink' \in Seq(Frames) /\ m_output_queue' \in Seq(Frames)
    BY <1>7, ConcatProperties, EmptySeq DEF SendMessageToRouter
  <2> QED
    BY <1>7, <2>1 DEF SendMessageToRouter, userVars, blockVars, receiverVars, ackLinks
<1>8. CASE ForwardFrame
  BY <1>8, SMT DEF ForwardFrame, userVars, blockVars, receiverVars, ackLinks
<1>9. CASE ForwardAck
  BY <1>9, SMT DEF ForwardAck, userVars, blockVars, receiverVars, frameLinks
<1>10. CASE HandlePacket
  <2> DEFINE frame == Head(toReceiver)
  <2>1. frame \in Frames /\ toReceiver' \in Seq(Frames)
    BY <1>10, HeadTailProperties DEF HandlePacket
  <2>2. frame.seq_ack_num \in SeqNums
    BY <2>1 DEF Frames
  <2>3. ack_output_queue' \in Seq(Acks)
    BY <1>10, <2>2, SMT DEF HandlePacket, Acks
  <2>4. /\ receiver_queue' \in [SeqNums -> Frames \cup {NoFrame}]
        /\ recv_marked' \subseteq SeqNums
    <3> HIDE DEF frame
    <3>1. CASE InReceiveWindow(frame.seq_ack_num)
      BY <3>1, <1>10, <2>1, <2>2 DEF HandlePacket, frame
    <3>2. CASE ~InReceiveWindow(frame.seq_ack_num)
      BY <3>2, <1>10 DEF HandlePacket, frame
    <3> QED
      BY <3>1, <3>2
  <2> QED
    BY <1>10, <2>1, <2>3, <2>4 DEF HandlePacket, userVars, blockVars, ackLinks
<1>11. CASE DeliverFrame
  <2>1. printed' \in Seq(Seq(Chunks \cup {NoChunk}))
    <3>1. MessageEndingAt(NFE) \in Seq(Chunks \cup {NoChunk})
      BY MessageEndingAtType
    <3>2. Append(printed, MessageEndingAt(NFE)) \in Seq(Seq(Chunks \cup {NoChunk}))
      BY <3>1, AppendProperties
    <3> QED
      BY <3>2, <1>11 DEF DeliverFrame
  <2>2. NFE' \in SeqNums /\ recv_marked' \subseteq SeqNums /\ accepted' \in Nat
    BY <1>11, IncType, SMT DEF DeliverFrame
  <2> QED
    BY <1>11, <2>1, <2>2 DEF DeliverFrame, userVars, blockVars, frameLinks, ackLinks
<1>12. CASE SendAcks
  <2>1. ackUplink' \in Seq(Acks) /\ ack_output_queue' \in Seq(Acks)
    BY <1>12, ConcatProperties, EmptySeq DEF SendAcks
  <2> QED
    BY <1>12, <2>1 DEF SendAcks, userVars, blockVars, frameLinks
<1>13. CASE UNCHANGED vars
  BY <1>13 DEF vars, userVars, blockVars, receiverVars, frameLinks, ackLinks
<1> QED
  BY <1>1, <1>2, <1>3, <1>4, <1>5, <1>6, <1>7, <1>8, <1>9, <1>10, <1>11, <1>12, <1>13
  DEF Next, SenderThread, ReceiverThread

\* TypeOK is an invariant: in every reachable state every counter of a
\* SenderBlock and of the ReceiverBlock is a uint8_t, and every queue holds only
\* frames or acks of its kind.
THEOREM TypeCorrect == Spec => []TypeOK
<1>1. Init => TypeOK
  BY TypeInit
<1>2. TypeOK /\ [Next]_vars => TypeOK'
  BY TypeNext
<1> QED
  BY <1>1, <1>2, PTL DEF Spec

-----------------------------------------------------------------------------
(* Wrapping counters.                                                      *)

LEMMA ModPlus ==
  ASSUME NEW x \in Nat, NEW d \in 0..SeqMod
  PROVE  /\ x % SeqMod \in 0..(SeqMod - 1)
         /\ (x + d) % SeqMod = IF (x % SeqMod) + d < SeqMod THEN (x % SeqMod) + d
                               ELSE (x % SeqMod) + d - SeqMod
BY SeqModAssumption, ModAdd, DivMod

LEMMA ModNext ==
  ASSUME NEW x \in Nat
  PROVE  Inc(x % SeqMod) = (x + 1) % SeqMod
BY SeqModAssumption, ModAddMod DEF Inc

LEMMA ModTurn ==
  ASSUME NEW x \in Nat
  PROVE  (x + SeqMod) % SeqMod = x % SeqMod
<1> DEFINE r == x % SeqMod
<1>1. SeqMod \in 0..SeqMod
  BY SeqModAssumption, SMT
<1>2. /\ r \in 0..(SeqMod - 1)
      /\ (x + SeqMod) % SeqMod = IF r + SeqMod < SeqMod THEN r + SeqMod
                                 ELSE r + SeqMod - SeqMod
  BY <1>1, ModPlus
<1> HIDE DEF r
<1>3. (x + SeqMod) % SeqMod = r
  BY <1>2, SeqModAssumption, SMT
<1> QED
  BY <1>3 DEF r

\* A counter that starts one short of zero (LAR = LFS = -1) is one behind its count.
LEMMA BehindNext ==
  ASSUME NEW x \in Nat
  PROVE  Inc((x + SeqMod - 1) % SeqMod) = x % SeqMod
<1>1. x + SeqMod - 1 \in Nat /\ (x + SeqMod - 1) + 1 = x + SeqMod
  BY SeqModAssumption, SMT
<1>2. Inc((x + SeqMod - 1) % SeqMod) = (x + SeqMod) % SeqMod
  BY <1>1, ModNext
<1> QED
  BY <1>2, ModTurn

LEMMA BehindValue ==
  ASSUME NEW x \in Nat
  PROVE  (x + SeqMod - 1) % SeqMod = IF x % SeqMod = 0 THEN SeqMod - 1 ELSE (x % SeqMod) - 1
<1> DEFINE r == x % SeqMod
           d == SeqMod - 1
<1>1. d \in 0..SeqMod /\ x + SeqMod - 1 = x + d
  BY SeqModAssumption, SMT
<1> HIDE DEF d
<1>2. /\ r \in 0..(SeqMod - 1)
      /\ (x + d) % SeqMod = IF r + d < SeqMod THEN r + d ELSE r + d - SeqMod
  BY <1>1, ModPlus
<1> HIDE DEF r
<1>3. (x + d) % SeqMod = IF r = 0 THEN SeqMod - 1 ELSE r - 1
  BY <1>2, SeqModAssumption, SMT DEF d
<1> QED
  BY <1>1, <1>3 DEF r

\* Less than a whole turn apart, two counts have different counters.
LEMMA ModDistinct ==
  ASSUME NEW x \in Nat, NEW d \in 1..(SeqMod - 1)
  PROVE  (x + d) % SeqMod # x % SeqMod
<1> DEFINE r == x % SeqMod
<1>1. d \in 0..SeqMod
  BY SeqModAssumption, SMT
<1>2. /\ r \in 0..(SeqMod - 1)
      /\ (x + d) % SeqMod = IF r + d < SeqMod THEN r + d ELSE r + d - SeqMod
  BY <1>1, ModPlus
<1> HIDE DEF r
<1>3. (x + d) % SeqMod # r
  BY <1>2, SeqModAssumption, SMT
<1> QED
  BY <1>3 DEF r

-----------------------------------------------------------------------------
(* The three window tests of host.cpp, in terms of the true counts.        *)

\* handlePendingFrames: a frame within the window is less than SWS past the oldest
\* unacknowledged one.
LEMMA SendWindowMeans ==
  ASSUME NEW a \in Nat, NEW e \in 0..SWS,
         LAR = (a + SeqMod - 1) % SeqMod, InSendWindow((a + e) % SeqMod)
  PROVE  e < SWS
<1> DEFINE r == a % SeqMod
           s == (a + e) % SeqMod
<1>1. SWS \in 1..(SeqMod - 1) /\ SeqMod \in Nat /\ SeqMod > 1
  BY SeqModAssumption, WindowAssumption
<1>2. e \in 0..SeqMod
  BY <1>1, SMT
<1>3. /\ r \in 0..(SeqMod - 1)
      /\ s = IF r + e < SeqMod THEN r + e ELSE r + e - SeqMod
  BY <1>2, ModPlus
<1>4. LAR = IF r = 0 THEN SeqMod - 1 ELSE r - 1
  BY BehindValue
<1>5. LastOfWindow = IF LAR + SWS < SeqMod THEN LAR + SWS ELSE LAR + SWS - SeqMod
  <2>1. LAR \in Nat /\ LAR < SeqMod /\ SWS \in 0..SeqMod
    BY <1>1, <1>3, <1>4, SMT
  <2>2. LAR % SeqMod = LAR
    BY <2>1, <1>1, SMT
  <2> QED
    BY <2>1, <2>2, ModPlus DEF LastOfWindow
<1>6. InSendWindow(s)
  OBVIOUS
<1> HIDE DEF r, s
<1> QED
  BY <1>1, <1>3, <1>4, <1>5, <1>6, SMT DEF InSendWindow

\* handleIncomingRouterMessage: the ack after LAR is accepted while frames are out.
LEMMA AckIsAcceptable ==
  ASSUME NEW a \in Nat, NEW n \in 1..SWS,
         LAR = (a + SeqMod - 1) % SeqMod, LFS = (a + n + SeqMod - 1) % SeqMod
  PROVE  AckAcceptable(a % SeqMod)
<1> DEFINE r == a % SeqMod
<1>1. SWS \in 1..(SeqMod - 1) /\ SeqMod \in Nat /\ SeqMod > 1
  BY SeqModAssumption, WindowAssumption
<1>2. n - 1 \in 0..SeqMod /\ a + (n - 1) \in Nat
  BY <1>1, SMT
<1>3. LFS = (a + (n - 1)) % SeqMod
  <2>1. a + n + SeqMod - 1 = (a + (n - 1)) + SeqMod
    BY <1>1, SMT
  <2> QED
    BY <1>2, <2>1, ModTurn
<1>4. /\ r \in 0..(SeqMod - 1)
      /\ LFS = IF r + (n - 1) < SeqMod THEN r + (n - 1) ELSE r + (n - 1) - SeqMod
  BY <1>2, <1>3, ModPlus
<1>5. LAR = IF r = 0 THEN SeqMod - 1 ELSE r - 1
  BY BehindValue
<1>6. Inc(LAR) = r
  BY BehindNext
<1> HIDE DEF r
<1>7. AckAcceptable(r)
  BY <1>1, <1>4, <1>5, <1>6, SMT DEF AckAcceptable
<1> QED
  BY <1>7 DEF r

\* handlePacket: the expected frame lies in the receive window.
LEMMA ExpectedIsReceivable ==
  ASSUME NFE \in SeqNums
  PROVE  InReceiveWindow(NFE)
<1>1. NFE \in Nat /\ NFE < SeqMod /\ RWS - 1 \in 0..SeqMod /\ NFE % SeqMod = NFE
  BY SeqModAssumption, WindowAssumption, SMT DEF SeqNums
<1>2. NFE + RWS - 1 = NFE + (RWS - 1)
  BY <1>1, WindowAssumption, SMT
<1>3. LAF = IF NFE + (RWS - 1) < SeqMod THEN NFE + (RWS - 1) ELSE NFE + (RWS - 1) - SeqMod
  BY <1>1, <1>2, ModPlus DEF LAF
<1> QED
  BY <1>1, <1>3, WindowAssumption, SeqModAssumption, SMT DEF InReceiveWindow

-----------------------------------------------------------------------------
(* Queues of numbered frames and acks: taking one off, adding one, moving  *)
(* one queue behind another.                                               *)

LEMMA EmptyQueue ==
  ASSUME NEW chunks, NEW first
  PROVE  Numbered(<<>>, first) /\ Carries(<<>>, chunks, first)
BY SMT DEF Numbered, Carries

LEMMA TakeFirst ==
  ASSUME NEW S, NEW queue \in Seq(S), queue # <<>>, NEW chunks, NEW first \in Nat
  PROVE  /\ Numbered(queue, first) =>
              /\ Head(queue).seq_ack_num = first % SeqMod
              /\ Numbered(Tail(queue), first + 1)
         /\ Carries(queue, chunks, first) =>
              /\ Head(queue).data = chunks[first + 1]
              /\ Carries(Tail(queue), chunks, first + 1)
<1>1. /\ Len(queue) \in Nat /\ DOMAIN queue = 1..Len(queue) /\ 1 \in DOMAIN queue
      /\ Head(queue) = queue[1]
      /\ DOMAIN Tail(queue) = 1..(Len(queue) - 1)
      /\ \A i \in DOMAIN Tail(queue) : Tail(queue)[i] = queue[i + 1]
  BY SMT
<1>2. first + 1 - 1 = first
  BY SMT
<1>3. \A i \in DOMAIN Tail(queue) :
        /\ i + 1 \in DOMAIN queue
        /\ first + (i + 1) = (first + 1) + i
        /\ first + (i + 1) - 1 = (first + 1) + i - 1
  BY <1>1, SMT
<1> HIDE DEF Numbered, Carries
<1>4. ASSUME Numbered(queue, first)
      PROVE  /\ Head(queue).seq_ack_num = first % SeqMod
             /\ Numbered(Tail(queue), first + 1)
  BY <1>1, <1>2, <1>3, <1>4 DEF Numbered
<1>5. ASSUME Carries(queue, chunks, first)
      PROVE  /\ Head(queue).data = chunks[first + 1]
             /\ Carries(Tail(queue), chunks, first + 1)
  BY <1>1, <1>3, <1>5 DEF Carries
<1> QED
  BY <1>4, <1>5

LEMMA AddLast ==
  ASSUME NEW S, NEW queue \in Seq(S), NEW elem \in S, NEW chunks, NEW first \in Nat
  PROVE  /\ Numbered(queue, first)
            /\ elem.seq_ack_num = (first + Len(queue)) % SeqMod
            => Numbered(Append(queue, elem), first)
         /\ Carries(queue, chunks, first)
            /\ elem.data = chunks[first + Len(queue) + 1]
            => Carries(Append(queue, elem), chunks, first)
<1> DEFINE len == Len(queue)
           longer == Append(queue, elem)
<1>1. /\ len \in Nat /\ DOMAIN queue = 1..len /\ DOMAIN longer = 1..(len + 1)
      /\ \A i \in 1..(len + 1) : longer[i] = IF i = len + 1 THEN elem ELSE queue[i]
  BY SMT
<1>2. \A i \in 1..(len + 1) : i = len + 1 \/ i \in 1..len
  BY <1>1, SMT
<1>3. first + (len + 1) - 1 = first + len /\ first + (len + 1) = first + len + 1
  BY <1>1, SMT
<1> HIDE DEF len, longer
<1>4. ASSUME Numbered(queue, first), elem.seq_ack_num = (first + len) % SeqMod
      PROVE  Numbered(longer, first)
  BY <1>1, <1>2, <1>3, <1>4 DEF Numbered
<1>5. ASSUME Carries(queue, chunks, first), elem.data = chunks[first + len + 1]
      PROVE  Carries(longer, chunks, first)
  BY <1>1, <1>2, <1>3, <1>5 DEF Carries
<1> QED
  BY <1>4, <1>5 DEF len, longer

LEMMA MoveBehind ==
  ASSUME NEW S, NEW queue \in Seq(S), NEW rest \in Seq(S), NEW chunks, NEW first \in Nat
  PROVE  /\ Numbered(queue, first) /\ Numbered(rest, first + Len(queue))
            => Numbered(queue \o rest, first)
         /\ Carries(queue, chunks, first) /\ Carries(rest, chunks, first + Len(queue))
            => Carries(queue \o rest, chunks, first)
<1> DEFINE len == Len(queue)
           both == queue \o rest
<1>1. /\ len \in Nat /\ Len(rest) \in Nat
      /\ DOMAIN queue = 1..len /\ DOMAIN rest = 1..Len(rest)
      /\ DOMAIN both = 1..(len + Len(rest))
      /\ \A i \in 1..(len + Len(rest)) :
           both[i] = IF i <= len THEN queue[i] ELSE rest[i - len]
  BY ConcatProperties, SMT
<1>2. \A i \in 1..(len + Len(rest)) : i <= len => i \in 1..len
  BY <1>1, SMT
<1>3. \A i \in 1..(len + Len(rest)) : ~(i <= len) =>
        /\ i - len \in 1..Len(rest)
        /\ first + len + (i - len) - 1 = first + i - 1
        /\ first + len + (i - len) = first + i
  BY <1>1, SMT
<1> HIDE DEF len, both
<1>4. ASSUME Numbered(queue, first), Numbered(rest, first + len)
      PROVE  Numbered(both, first)
  BY <1>1, <1>2, <1>3, <1>4 DEF Numbered
<1>5. ASSUME Carries(queue, chunks, first), Carries(rest, chunks, first + len)
      PROVE  Carries(both, chunks, first)
  BY <1>1, <1>2, <1>3, <1>5 DEF Carries
<1> QED
  BY <1>4, <1>5 DEF len, both

\* Sending one more frame leaves what is already on the links as it was.
LEMMA CarriesMore ==
  ASSUME NEW S, NEW queue \in Seq(S), NEW T, NEW chunks \in Seq(T), NEW chunk \in T,
         NEW first \in Nat, first + Len(queue) <= Len(chunks),
         Carries(queue, chunks, first)
  PROVE  Carries(queue, Append(chunks, chunk), first)
<1>1. /\ Len(queue) \in Nat /\ DOMAIN queue = 1..Len(queue) /\ Len(chunks) \in Nat
      /\ \A k \in 1..Len(chunks) : Append(chunks, chunk)[k] = chunks[k]
  BY SMT
<1>2. \A i \in DOMAIN queue : first + i \in 1..Len(chunks)
  BY <1>1, SMT
<1> QED
  BY <1>1, <1>2 DEF Carries

-----------------------------------------------------------------------------
(* The inductive invariant.                                                *)

Inv == TypeOK /\ NumberingSound /\ WindowRespected /\ FramesInTransit /\ UnackedFramesKept

\* The lengths and counts the arithmetic of the proof is about.
LEMMA Counts ==
  ASSUME TypeOK
  PROVE  /\ Len(sent) \in Nat /\ Len(pending_frame_list) \in Nat
         /\ Len(toReceiver) \in Nat /\ Len(uplink) \in Nat /\ Len(m_output_queue) \in Nat
         /\ Len(toSender) \in Nat /\ Len(ackUplink) \in Nat
         /\ Len(ack_output_queue) \in Nat
         /\ accepted \in Nat /\ acked \in Nat /\ TakenIn \in Nat /\ Heard \in Nat
BY LenProperties, SMT DEF TypeOK, TakenIn, Heard

LEMMA InvInit == Init => Inv
<1> SUFFICES ASSUME Init PROVE Inv
  OBVIOUS
<1>1. TypeOK
  BY TypeInit
<1>2. TakenIn = 0 /\ Heard = 0 /\ Len(sent) = 0
  BY SMT DEF Init, TakenIn, Heard, Delivering, AdvancingLAR
<1>3. /\ (0 + SeqMod - 1) % SeqMod = SeqMod - 1 /\ (0 + 0) % SeqMod = 0 /\ 0 % SeqMod = 0
  BY SeqModAssumption, SMT
<1>4. CountersAreCounts
  BY <1>2, <1>3, SMT DEF Init, CountersAreCounts
<1>5. QueuesNumbered
  BY EmptyQueue DEF Init, QueuesNumbered
<1>6. WindowRespected
  BY <1>2, WindowAssumption, SMT DEF Init, WindowRespected
<1>7. FramesInTransit
  <2>1. TakenIn + Len(toReceiver) + Len(uplink) + Len(m_output_queue) = Len(sent)
    BY <1>2, SMT DEF Init
  <2> QED
    BY <2>1, EmptyQueue DEF Init, FramesInTransit
<1>8. UnackedFramesKept
  BY <1>2, SMT DEF Init, UnackedFramesKept
<1> QED
  BY <1>1, <1>4, <1>5, <1>6, <1>7, <1>8 DEF Inv, NumberingSound

\* A step that leaves the counters, the links and the saved frames alone keeps the
\* invariant, when no ack is half taken in or the sender stays where it is.
LEMMA InvUntouched ==
  ASSUME Inv, TypeOK', pc' = pc \/ ack_marked = {},
         UNCHANGED <<LAR, LFS, SEQ, pending_frame_list, ack_marked, sender_queue,
                     m_output_queue, uplink, toReceiver, NFE, recv_marked,
                     ack_output_queue, ackUplink, toSender, sent, accepted, acked>>
  PROVE  Inv'
<1>1. TakenIn' = TakenIn /\ Heard' = Heard
  BY DEF TakenIn, Heard, Delivering, AdvancingLAR, Inc
<1>2. CountersAreCounts' /\ QueuesNumbered'
  BY <1>1 DEF Inv, NumberingSound, CountersAreCounts, QueuesNumbered, Inc
<1>3. WindowRespected' /\ FramesInTransit' /\ UnackedFramesKept'
  BY <1>1 DEF Inv, WindowRespected, FramesInTransit, UnackedFramesKept
<1> QED
  BY <1>2, <1>3 DEF Inv, NumberingSound

LEMMA HandleAckKeepsInv == Inv /\ HandleAck /\ TypeOK' => Inv'
<1> SUFFICES ASSUME Inv, HandleAck, TypeOK' PROVE Inv'
  OBVIOUS
<1> DEFINE a == Head(toSender).seq_ack_num
<1>1. /\ Heard = acked /\ ack_marked = {} /\ toSender # <<>> /\ toSender \in Seq(Acks)
  BY DEF Inv, HandleAck, Heard, AdvancingLAR, NumberingSound, CountersAreCounts, TypeOK
<1>2. /\ Len(toSender) \in Nat /\ Len(toSender) > 0 /\ toSender' = Tail(toSender)
      /\ Len(toSender') = Len(toSender) - 1
  BY <1>1, HeadTailProperties, SMT DEF HandleAck
<1>3. /\ a = acked % SeqMod
      /\ Numbered(toSender', acked + 1)
  BY <1>1, <1>2, TakeFirst, Counts DEF Inv, NumberingSound, QueuesNumbered
<1>4. Len(sent) - acked \in 1..SWS
  <2>1. /\ Len(sent) - acked <= SWS
        /\ Heard + Len(toSender) + Len(ackUplink) + Len(ack_output_queue) = TakenIn
        /\ TakenIn + Len(toReceiver) + Len(uplink) + Len(m_output_queue) = Len(sent)
    BY DEF Inv, WindowRespected, FramesInTransit
  <2>2. SWS \in Nat
    BY SeqModAssumption, WindowAssumption, SMT
  <2>3. /\ Len(sent) \in Nat /\ Len(toReceiver) \in Nat /\ Len(uplink) \in Nat
        /\ Len(m_output_queue) \in Nat /\ Len(ackUplink) \in Nat
        /\ Len(ack_output_queue) \in Nat /\ acked \in Nat
    BY Counts DEF Inv
  <2> QED
    BY <1>1, <1>2, <2>1, <2>2, <2>3, SMT
<1>5. AckAcceptable(acked % SeqMod) /\ Inc(LAR) = acked % SeqMod
  <2> DEFINE n == Len(sent) - acked
  <2>1. acked + n = Len(sent) /\ n \in 1..SWS /\ acked \in Nat
    BY <1>4, Counts, SMT DEF Inv
  <2>2. /\ LAR = (acked + SeqMod - 1) % SeqMod
        /\ LFS = (acked + n + SeqMod - 1) % SeqMod
    BY <2>1 DEF Inv, NumberingSound, CountersAreCounts
  <2> HIDE DEF n
  <2> QED
    BY <2>1, <2>2, AckIsAcceptable, BehindNext
<1>6. ack_marked' = {Inc(LAR)} /\ UNCHANGED <<LAR, acked>>
  BY <1>1, <1>3, <1>5 DEF HandleAck
<1>7. Heard' = acked + 1 /\ TakenIn' = TakenIn
  BY <1>6 DEF HandleAck, Heard, AdvancingLAR, Inc, TakenIn, Delivering, receiverVars
<1>8. Heard' + Len(toSender') = Heard + Len(toSender)
  BY <1>1, <1>2, <1>7, Counts, SMT DEF Inv
<1>9. CountersAreCounts'
  BY <1>6 DEF HandleAck, Inv, NumberingSound, CountersAreCounts, Inc, receiverVars
<1>10. QueuesNumbered'
  BY <1>3, <1>7, <1>8
  DEF HandleAck, Inv, NumberingSound, QueuesNumbered, receiverVars, frameLinks
<1>11. WindowRespected'
  BY <1>7, <1>8 DEF HandleAck, Inv, WindowRespected, receiverVars
<1>12. FramesInTransit' /\ UnackedFramesKept'
  BY <1>7 DEF HandleAck, Inv, FramesInTransit, UnackedFramesKept, frameLinks
<1> QED
  BY <1>9, <1>10, <1>11, <1>12 DEF Inv, NumberingSound

LEMMA AdvanceLARKeepsInv == Inv /\ AdvanceLAR /\ TypeOK' => Inv'
<1> SUFFICES ASSUME Inv, AdvanceLAR, TypeOK' PROVE Inv'
  OBVIOUS
<1>1. /\ ack_marked = {Inc(LAR)} /\ Heard = acked + 1 /\ acked \in Nat
      /\ acked' = acked + 1 /\ ack_marked' = {}
  BY DEF Inv, AdvanceLAR, AdvancingLAR, Heard, NumberingSound, CountersAreCounts, TypeOK
<1>2. LAR' = acked % SeqMod
  BY <1>1, BehindNext DEF Inv, AdvanceLAR, NumberingSound, CountersAreCounts
<1>3. LAR' = (acked' + SeqMod - 1) % SeqMod
  <2>1. acked' + SeqMod - 1 = acked + SeqMod
    BY <1>1, SeqModAssumption, SMT
  <2> QED
    BY <1>1, <1>2, <2>1, ModTurn
<1>4. Heard' = Heard /\ TakenIn' = TakenIn
  BY <1>1, SMT DEF AdvanceLAR, Heard, AdvancingLAR, TakenIn, Delivering, receiverVars
<1>5. CountersAreCounts'
  BY <1>1, <1>3 DEF AdvanceLAR, Inv, NumberingSound, CountersAreCounts, receiverVars
<1>6. QueuesNumbered'
  BY <1>4 DEF AdvanceLAR, Inv, NumberingSound, QueuesNumbered, receiverVars, frameLinks,
              ackLinks
<1>7. WindowRespected'
  <2>1. Len(sent) - acked' <= SWS
    BY <1>1, Counts, SeqModAssumption, WindowAssumption, SMT DEF Inv, WindowRespected
  <2> QED
    BY <1>4, <2>1 DEF AdvanceLAR, Inv, WindowRespected, receiverVars, ackLinks
<1>8. FramesInTransit'
  BY <1>4 DEF AdvanceLAR, Inv, FramesInTransit, frameLinks
<1>9. UnackedFramesKept'
  <2>1. \A k \in (acked' + 1)..Len(sent) : k \in (acked + 1)..Len(sent)
    BY <1>1, Counts, SMT DEF Inv
  <2> QED
    BY <2>1 DEF AdvanceLAR, Inv, UnackedFramesKept
<1> QED
  BY <1>5, <1>6, <1>7, <1>8, <1>9 DEF Inv, NumberingSound

LEMMA HandleUserInputKeepsInv == Inv /\ HandleUserInput /\ TypeOK' => Inv'
<1> SUFFICES ASSUME Inv, HandleUserInput, TypeOK' PROVE Inv'
  OBVIOUS
<1> DEFINE message == Head(m_user_input_queue)
           next == Len(sent) + Len(pending_frame_list)
           len == NumOfChunks(message.length)
<1>1. /\ message \in Messages /\ len \in Nat
      /\ SEQ \in SeqNums /\ pending_frame_list \in Seq(Frames)
      /\ FramesOf(message) \in Seq(Frames) /\ Len(FramesOf(message)) = len
  BY HeadTailProperties, SplitType, FramesOfType DEF Inv, TypeOK, HandleUserInput
<1>2. /\ next \in Nat /\ SEQ = next % SeqMod /\ Len(sent) \in Nat
      /\ Numbered(pending_frame_list, Len(sent))
  BY Counts, SMT DEF Inv, NumberingSound, CountersAreCounts, QueuesNumbered
<1>3. Numbered(FramesOf(message), next)
  <2>1. /\ DOMAIN FramesOf(message) = 1..len
        /\ \A i \in 1..len :
             FramesOf(message)[i].seq_ack_num = (SEQ + i - 1) % SeqMod
    BY <1>1, SplitType DEF FramesOf
  <2>2. ASSUME NEW i \in 1..len
        PROVE  (SEQ + i - 1) % SeqMod = (next + i - 1) % SeqMod
    <3> DEFINE d == i - 1
    <3>1. d \in Nat /\ SEQ + i - 1 = SEQ + d /\ next + i - 1 = next + d
      BY <1>1, <1>2, SMT DEF SeqNums
    <3> HIDE DEF d, next
    <3>2. ((next % SeqMod) + d) % SeqMod = (next + d) % SeqMod
      BY <1>2, <3>1, SeqModAssumption, ModAddMod
    <3> QED
      BY <1>2, <3>1, <3>2
  <2> QED
    BY <2>1, <2>2 DEF Numbered
<1>4. /\ pending_frame_list' = pending_frame_list \o FramesOf(message)
      /\ Len(pending_frame_list') = Len(pending_frame_list) + len
      /\ Numbered(pending_frame_list', Len(sent))
  <2>1. pending_frame_list' = pending_frame_list \o FramesOf(message)
    BY DEF HandleUserInput
  <2>2. Len(pending_frame_list \o FramesOf(message))
          = Len(pending_frame_list) + Len(FramesOf(message))
    BY <1>1, ConcatProperties
  <2> HIDE DEF message
  <2>3. Numbered(pending_frame_list \o FramesOf(message), Len(sent))
    BY <1>1, <1>2, <1>3, MoveBehind
  <2> QED
    BY <1>1, <2>1, <2>2, <2>3
<1>5. SEQ' = (Len(sent) + Len(pending_frame_list')) % SeqMod
  <2>1. SEQ' = (SEQ + len) % SeqMod
    BY DEF HandleUserInput
  <2>2. Len(sent) + Len(pending_frame_list') = next + len
    <3>1. Len(sent) \in Nat /\ Len(pending_frame_list) \in Nat
      BY Counts DEF Inv
    <3> HIDE DEF message
    <3> QED
      BY <1>1, <1>4, <3>1, SMT
  <2> HIDE DEF next, len
  <2>3. len \in Nat
    BY <1>1
  <2>4. ((next % SeqMod) + len) % SeqMod = (next + len) % SeqMod
    BY <1>2, <2>3, SeqModAssumption, ModAddMod
  <2> QED
    BY <1>2, <2>1, <2>2, <2>4
<1>6. TakenIn' = TakenIn /\ Heard' = Heard
  BY DEF HandleUserInput, TakenIn, Heard, Delivering, AdvancingLAR, Inc, receiverVars
<1>7. CountersAreCounts'
  BY <1>5 DEF HandleUserInput, Inv, NumberingSound, CountersAreCounts, Inc, receiverVars
<1>8. QueuesNumbered'
  BY <1>4, <1>6 DEF HandleUserInput, Inv, NumberingSound, QueuesNumbered, receiverVars,
                    frameLinks, ackLinks
<1>9. WindowRespected' /\ FramesInTransit' /\ UnackedFramesKept'
  BY <1>6 DEF HandleUserInput, Inv, WindowRespected, FramesInTransit, UnackedFramesKept,
              receiverVars, frameLinks, ackLinks
<1> QED
  BY <1>7, <1>8, <1>9 DEF Inv, NumberingSound

LEMMA SendPendingFrameKeepsInv == Inv /\ SendPendingFrame /\ TypeOK' => Inv'
<1> SUFFICES ASSUME Inv, SendPendingFrame, TypeOK' PROVE Inv'
  OBVIOUS
<1> DEFINE frame == Head(pending_frame_list)
           n == Len(sent)
           e == Len(sent) - acked
<1>1. /\ pending_frame_list \in Seq(Frames) /\ pending_frame_list # <<>>
      /\ frame \in Frames /\ frame.data \in Chunks
      /\ sent \in Seq(Chunks) /\ n \in Nat /\ acked \in Nat
      /\ m_output_queue \in Seq(Frames)
  <2>1. pending_frame_list \in Seq(Frames) /\ pending_frame_list # <<>>
    BY DEF Inv, TypeOK, SendPendingFrame, MayLeave
  <2>2. frame \in Frames
    BY <2>1, HeadTailProperties
  <2> QED
    BY <2>1, <2>2, Counts DEF Inv, TypeOK, Frames
<1>2. frame.seq_ack_num = n % SeqMod /\ Numbered(pending_frame_list', n + 1)
  <2>1. pending_frame_list' = Tail(pending_frame_list)
    BY DEF SendPendingFrame
  <2>2. Numbered(pending_frame_list, n)
    BY DEF Inv, NumberingSound, QueuesNumbered
  <2> QED
    BY <1>1, <2>1, <2>2, TakeFirst
<1>3. /\ Len(pending_frame_list') = Len(pending_frame_list) - 1
      /\ sent' = Append(sent, frame.data) /\ Len(sent') = n + 1
      /\ m_output_queue' = Append(m_output_queue, frame)
      /\ Len(m_output_queue') = Len(m_output_queue) + 1
  BY <1>1, HeadTailProperties, AppendProperties DEF SendPendingFrame
<1>4. acked <= n
  <2>1. /\ Heard + Len(toSender) + Len(ackUplink) + Len(ack_output_queue) = TakenIn
        /\ TakenIn + Len(toReceiver) + Len(uplink) + Len(m_output_queue) = n
    BY DEF Inv, WindowRespected, FramesInTransit
  <2>2. /\ Len(toReceiver) \in Nat /\ Len(uplink) \in Nat /\ Len(m_output_queue) \in Nat
        /\ Len(toSender) \in Nat /\ Len(ackUplink) \in Nat
        /\ Len(ack_output_queue) \in Nat
    BY Counts DEF Inv
  <2>3. Heard = acked \/ Heard = acked + 1
    BY <1>1 DEF Heard
  <2> QED
    BY <1>1, <2>1, <2>2, <2>3, SMT
<1>5. SWS \in Nat /\ SWS < SeqMod /\ SeqMod \in Nat
  BY SeqModAssumption, WindowAssumption, SMT
<1>6. e \in Nat /\ e < SWS /\ acked + e = n
  <2>1. e \in 0..SWS /\ acked + e = n
    BY <1>1, <1>4, <1>5, SMT DEF Inv, WindowRespected
  <2>2. InSendWindow(n % SeqMod) /\ LAR = (acked + SeqMod - 1) % SeqMod
    BY <1>2 DEF Inv, SendPendingFrame, MayLeave, NumberingSound, CountersAreCounts
  <2> HIDE DEF e, n
  <2>3. InSendWindow((acked + e) % SeqMod)
    BY <2>1, <2>2
  <2>4. e < SWS
    BY <1>1, <2>1, <2>2, <2>3, SendWindowMeans
  <2> QED
    BY <1>5, <2>1, <2>4, SMT
<1>7. LFS' = (Len(sent') + SeqMod - 1) % SeqMod
  <2>1. Len(sent') + SeqMod - 1 = n + SeqMod
    BY <1>1, <1>3, <1>5, SMT
  <2>2. LFS' = n % SeqMod
    BY <1>2 DEF SendPendingFrame
  <2> HIDE DEF n
  <2> QED
    BY <1>1, <2>1, <2>2, ModTurn
<1>8. ack_marked = {} /\ ack_marked' = {} /\ UNCHANGED <<LAR, acked, pc>>
  BY DEF SendPendingFrame, Inv, NumberingSound, CountersAreCounts
<1>9. TakenIn' = TakenIn /\ Heard' = Heard
  BY <1>8 DEF SendPendingFrame, TakenIn, Heard, Delivering, AdvancingLAR, Inc, receiverVars
<1>10. TakenIn \in Nat /\ Heard \in Nat /\ Len(toReceiver) \in Nat /\ Len(uplink) \in Nat
       /\ Len(m_output_queue) \in Nat /\ Len(pending_frame_list) \in Nat
       /\ toReceiver \in Seq(Frames) /\ uplink \in Seq(Frames)
  BY Counts DEF Inv, TypeOK
<1>11. TakenIn + Len(toReceiver) + Len(uplink) + Len(m_output_queue) = n
  BY DEF Inv, FramesInTransit
<1>12. CountersAreCounts'
  <2>1. Len(sent') + Len(pending_frame_list') = n + Len(pending_frame_list)
    BY <1>1, <1>3, <1>10, SMT
  <2>2. SEQ = (n + Len(pending_frame_list)) % SeqMod
    BY DEF Inv, NumberingSound, CountersAreCounts
  <2> QED
    BY <1>7, <1>8, <2>1, <2>2
    DEF SendPendingFrame, Inv, NumberingSound, CountersAreCounts, Inc, receiverVars
<1>13. QueuesNumbered'
  <2> DEFINE first == TakenIn + Len(toReceiver) + Len(uplink)
  <2>1. first \in Nat /\ first + Len(m_output_queue) = n
    BY <1>10, <1>11
  <2>2. Numbered(m_output_queue, first)
    BY DEF Inv, NumberingSound, QueuesNumbered
  <2> HIDE DEF first
  <2>3. Numbered(m_output_queue', first)
    BY <1>1, <1>2, <1>3, <2>1, <2>2, AddLast
  <2> QED
    BY <1>2, <1>3, <1>9, <2>3
    DEF SendPendingFrame, Inv, NumberingSound, QueuesNumbered, frameLinks, ackLinks,
        receiverVars, first
<1>14. WindowRespected'
  <2>1. Len(sent') - acked <= SWS
    BY <1>1, <1>3, <1>5, <1>6, SMT
  <2> QED
    BY <1>8, <1>9, <2>1 DEF SendPendingFrame, Inv, WindowRespected, ackLinks, receiverVars
<1>15. FramesInTransit'
  <2> DEFINE first == TakenIn + Len(toReceiver) + Len(uplink)
  <2>1. /\ first \in Nat /\ first + Len(m_output_queue) = n
        /\ TakenIn + Len(toReceiver) \in Nat
        /\ TakenIn + Len(toReceiver) <= n
        /\ TakenIn + Len(toReceiver) + Len(uplink) <= n
    BY <1>10, <1>11, SMT
  <2>2. sent'[n + 1] = frame.data
    BY <1>1, <1>3, SMT
  <2>3. /\ Carries(toReceiver, sent, TakenIn)
        /\ Carries(uplink, sent, TakenIn + Len(toReceiver))
        /\ Carries(m_output_queue, sent, first)
    BY DEF Inv, FramesInTransit
  <2>4. first + Len(m_output_queue) <= n
    BY <1>1, <2>1
  <2> HIDE DEF first, frame
  <2>5. /\ Carries(toReceiver, sent', TakenIn)
        /\ Carries(uplink, sent', TakenIn + Len(toReceiver))
    BY <1>1, <1>3, <1>10, <2>1, <2>3, CarriesMore
  <2>6. Carries(m_output_queue, sent', first)
    BY <1>1, <1>3, <2>1, <2>3, <2>4, CarriesMore
  <2>7. Carries(m_output_queue', sent', first)
    BY <1>1, <1>3, <2>1, <2>2, <2>6, AddLast
  <2>8. TakenIn + Len(toReceiver) + Len(uplink) + Len(m_output_queue') = Len(sent')
    BY <1>1, <1>3, <1>10, <1>11, SMT
  <2> QED
    BY <1>9, <2>5, <2>7, <2>8 DEF SendPendingFrame, FramesInTransit, frameLinks, first
<1>16. UnackedFramesKept'
  <2> SUFFICES ASSUME NEW k \in (acked + 1)..(n + 1)
               PROVE  sender_queue'[(k - 1) % SeqMod].data = sent'[k]
    BY <1>3, <1>8 DEF UnackedFramesKept
  <2>1. k - 1 \in Nat /\ (k - 1) % SeqMod \in SeqNums /\ n % SeqMod \in SeqNums
    BY <1>1, ModType, SMT
  <2>2. /\ sender_queue' = [sender_queue EXCEPT ![n % SeqMod] = frame]
        /\ DOMAIN sender_queue = SeqNums
    BY <1>2 DEF SendPendingFrame, Inv, TypeOK
  <2>3. CASE k = n + 1
    <3>1. k - 1 = n /\ sent'[k] = frame.data
      BY <1>1, <1>3, <2>3, SMT
    <3> QED
      BY <2>1, <2>2, <3>1
  <2>4. CASE k # n + 1
    <3> DEFINE d == n - (k - 1)
               x == k - 1
    <3>1. d \in 1..(SeqMod - 1) /\ x + d = n /\ x \in Nat
      BY <1>1, <1>5, <1>6, <2>4, SMT
    <3> HIDE DEF d, x
    <3>2. n % SeqMod # x % SeqMod
      BY <3>1, ModDistinct
    <3>3. k \in (acked + 1)..n /\ sent'[k] = sent[k]
      BY <1>1, <1>3, <2>4, SMT
    <3>4. sender_queue[(k - 1) % SeqMod].data = sent[k]
      BY <3>3 DEF Inv, UnackedFramesKept
    <3> QED
      BY <2>1, <2>2, <3>2, <3>3, <3>4 DEF x
  <2> QED
    BY <2>3, <2>4
<1> QED
  BY <1>12, <1>13, <1>14, <1>15, <1>16 DEF Inv, NumberingSound

LEMMA SendMessageToRouterKeepsInv == Inv /\ SendMessageToRouter /\ TypeOK' => Inv'
<1> SUFFICES ASSUME Inv, SendMessageToRouter, TypeOK' PROVE Inv'
  OBVIOUS
<1> DEFINE first == TakenIn + Len(toReceiver)
<1>1. /\ uplink \in Seq(Frames) /\ m_output_queue \in Seq(Frames)
      /\ first \in Nat /\ Len(uplink) \in Nat /\ Len(m_output_queue) \in Nat
      /\ TakenIn \in Nat /\ Len(toReceiver) \in Nat
  <2>1. uplink \in Seq(Frames) /\ m_output_queue \in Seq(Frames)
    BY DEF Inv, TypeOK
  <2>2. /\ Len(uplink) \in Nat /\ Len(m_output_queue) \in Nat
        /\ TakenIn \in Nat /\ Len(toReceiver) \in Nat
    BY Counts DEF Inv
  <2> QED
    BY <2>1, <2>2, SMT
<1>2. /\ uplink' = uplink \o m_output_queue /\ m_output_queue' = <<>>
      /\ Len(uplink') = Len(uplink) + Len(m_output_queue) /\ Len(m_output_queue') = 0
  BY <1>1, ConcatProperties, EmptySeq DEF SendMessageToRouter
<1>3. ack_marked = {}
  BY DEF Inv, SendMessageToRouter, NumberingSound, CountersAreCounts
<1>4. TakenIn' = TakenIn /\ Heard' = Heard
  BY DEF SendMessageToRouter, TakenIn, Heard, Delivering, AdvancingLAR, Inc, receiverVars,
         blockVars
<1>5. Numbered(uplink', first) /\ Carries(uplink', sent, first)
  <2>1. /\ Numbered(uplink, first) /\ Carries(uplink, sent, first)
        /\ Numbered(m_output_queue, first + Len(uplink))
        /\ Carries(m_output_queue, sent, first + Len(uplink))
    BY DEF Inv, NumberingSound, QueuesNumbered, FramesInTransit
  <2> HIDE DEF first
  <2> QED
    BY <1>1, <1>2, <2>1, MoveBehind
<1>6. CountersAreCounts'
  BY <1>3 DEF SendMessageToRouter, Inv, NumberingSound, CountersAreCounts, Inc, receiverVars,
              blockVars
<1>7. QueuesNumbered'
  BY <1>2, <1>4, <1>5, EmptyQueue
  DEF SendMessageToRouter, Inv, NumberingSound, QueuesNumbered, receiverVars, blockVars,
      ackLinks
<1>8. WindowRespected' /\ UnackedFramesKept'
  <2>1. WindowRespected'
    BY <1>4 DEF SendMessageToRouter, Inv, WindowRespected, receiverVars, ackLinks
  <2>2. UnackedFramesKept'
    BY DEF SendMessageToRouter, Inv, UnackedFramesKept, blockVars
  <2> QED
    BY <2>1, <2>2
<1>9. FramesInTransit'
  <2>1. TakenIn + Len(toReceiver) + Len(uplink') + Len(m_output_queue') = Len(sent)
    <3>1. TakenIn + Len(toReceiver) + Len(uplink) + Len(m_output_queue) = Len(sent)
      BY DEF Inv, FramesInTransit
    <3> QED
      BY <1>1, <1>2, <3>1, SMT
  <2>2. Carries(toReceiver, sent, TakenIn)
    BY DEF Inv, FramesInTransit
  <2>3. Carries(m_output_queue', sent, TakenIn + Len(toReceiver) + Len(uplink'))
    BY <1>2, EmptyQueue
  <2> QED
    BY <1>4, <1>5, <2>1, <2>2, <2>3 DEF SendMessageToRouter, FramesInTransit
<1> QED
  BY <1>6, <1>7, <1>8, <1>9 DEF Inv, NumberingSound

LEMMA ForwardFrameKeepsInv == Inv /\ ForwardFrame /\ TypeOK' => Inv'
<1> SUFFICES ASSUME Inv, ForwardFrame, TypeOK' PROVE Inv'
  OBVIOUS
<1> DEFINE frame == Head(uplink)
           first == TakenIn + Len(toReceiver)
<1>1. /\ uplink \in Seq(Frames) /\ uplink # <<>> /\ toReceiver \in Seq(Frames)
      /\ frame \in Frames /\ TakenIn \in Nat /\ Len(toReceiver) \in Nat
      /\ Len(uplink) \in Nat /\ Len(m_output_queue) \in Nat
  <2>1. uplink \in Seq(Frames) /\ uplink # <<>>
    BY DEF Inv, TypeOK, ForwardFrame
  <2> QED
    BY <2>1, HeadTailProperties, Counts DEF Inv, TypeOK
<1>2. first \in Nat
  BY <1>1, SMT
<1>3. /\ uplink' = Tail(uplink) /\ Len(uplink') = Len(uplink) - 1
      /\ toReceiver' = Append(toReceiver, frame)
      /\ Len(toReceiver') = Len(toReceiver) + 1
  BY <1>1, HeadTailProperties, AppendProperties DEF ForwardFrame
<1>4. /\ frame.seq_ack_num = first % SeqMod /\ Numbered(uplink', first + 1)
      /\ frame.data = sent[first + 1] /\ Carries(uplink', sent, first + 1)
  <2>1. Numbered(uplink, first) /\ Carries(uplink, sent, first)
    BY DEF Inv, NumberingSound, QueuesNumbered, FramesInTransit
  <2> HIDE DEF first
  <2> QED
    BY <1>1, <1>2, <1>3, <2>1, TakeFirst
<1>5. Numbered(toReceiver', TakenIn) /\ Carries(toReceiver', sent, TakenIn)
  <2>1. Numbered(toReceiver, TakenIn) /\ Carries(toReceiver, sent, TakenIn)
    BY DEF Inv, NumberingSound, QueuesNumbered, FramesInTransit
  <2> HIDE DEF frame
  <2> QED
    BY <1>1, <1>3, <1>4, <2>1, AddLast
<1>6. TakenIn' = TakenIn /\ Heard' = Heard
  BY DEF ForwardFrame, TakenIn, Heard, Delivering, AdvancingLAR, Inc, receiverVars, blockVars
<1>7. /\ TakenIn' + Len(toReceiver') = first + 1
      /\ TakenIn' + Len(toReceiver') + Len(uplink') = TakenIn + Len(toReceiver) + Len(uplink)
  BY <1>1, <1>3, <1>6, SMT
<1>8. CountersAreCounts'
  BY DEF ForwardFrame, Inv, NumberingSound, CountersAreCounts, Inc, receiverVars, blockVars
<1>9. QueuesNumbered'
  BY <1>4, <1>5, <1>6, <1>7
  DEF ForwardFrame, Inv, NumberingSound, QueuesNumbered, receiverVars, blockVars, ackLinks
<1>10. WindowRespected' /\ UnackedFramesKept'
  BY <1>6 DEF ForwardFrame, Inv, WindowRespected, UnackedFramesKept, receiverVars, blockVars,
              ackLinks
<1>11. FramesInTransit'
  BY <1>4, <1>5, <1>6, <1>7 DEF ForwardFrame, Inv, FramesInTransit, blockVars
<1> QED
  BY <1>8, <1>9, <1>10, <1>11 DEF Inv, NumberingSound

LEMMA ForwardAckKeepsInv == Inv /\ ForwardAck /\ TypeOK' => Inv'
<1> SUFFICES ASSUME Inv, ForwardAck, TypeOK' PROVE Inv'
  OBVIOUS
<1> DEFINE ack == Head(ackUplink)
           first == Heard + Len(toSender)
<1>1. /\ ackUplink \in Seq(Acks) /\ ackUplink # <<>> /\ toSender \in Seq(Acks)
      /\ ack \in Acks /\ Heard \in Nat /\ Len(toSender) \in Nat
      /\ Len(ackUplink) \in Nat /\ Len(ack_output_queue) \in Nat
  <2>1. ackUplink \in Seq(Acks) /\ ackUplink # <<>>
    BY DEF Inv, TypeOK, ForwardAck
  <2> QED
    BY <2>1, HeadTailProperties, Counts DEF Inv, TypeOK
<1>2. first \in Nat
  BY <1>1, SMT
<1>3. /\ ackUplink' = Tail(ackUplink) /\ Len(ackUplink') = Len(ackUplink) - 1
      /\ toSender' = Append(toSender, ack) /\ Len(toSender') = Len(toSender) + 1
  BY <1>1, HeadTailProperties, AppendProperties DEF ForwardAck
<1>4. ack.seq_ack_num = first % SeqMod /\ Numbered(ackUplink', first + 1)
  <2>1. Numbered(ackUplink, first)
    BY DEF Inv, NumberingSound, QueuesNumbered
  <2> HIDE DEF first
  <2> QED
    BY <1>1, <1>2, <1>3, <2>1, TakeFirst
<1>5. Numbered(toSender', Heard)
  <2>1. Numbered(toSender, Heard)
    BY DEF Inv, NumberingSound, QueuesNumbered
  <2> HIDE DEF ack
  <2> QED
    BY <1>1, <1>3, <1>4, <2>1, AddLast
<1>6. TakenIn' = TakenIn /\ Heard' = Heard
  BY DEF ForwardAck, TakenIn, Heard, Delivering, AdvancingLAR, Inc, receiverVars, blockVars
<1>7. /\ Heard' + Len(toSender') = first + 1
      /\ Heard' + Len(toSender') + Len(ackUplink') = Heard + Len(toSender) + Len(ackUplink)
  BY <1>1, <1>3, <1>6, SMT
<1>8. CountersAreCounts'
  BY DEF ForwardAck, Inv, NumberingSound, CountersAreCounts, Inc, receiverVars, blockVars
<1>9. QueuesNumbered'
  BY <1>4, <1>5, <1>6, <1>7
  DEF ForwardAck, Inv, NumberingSound, QueuesNumbered, receiverVars, blockVars, frameLinks
<1>10. WindowRespected'
  BY <1>6, <1>7 DEF ForwardAck, Inv, WindowRespected, receiverVars
<1>11. FramesInTransit' /\ UnackedFramesKept'
  BY <1>6 DEF ForwardAck, Inv, FramesInTransit, UnackedFramesKept, frameLinks, blockVars
<1> QED
  BY <1>8, <1>9, <1>10, <1>11 DEF Inv, NumberingSound

LEMMA HandlePacketKeepsInv == Inv /\ HandlePacket /\ TypeOK' => Inv'
<1> SUFFICES ASSUME Inv, HandlePacket, TypeOK' PROVE Inv'
  OBVIOUS
<1> DEFINE frame == Head(toReceiver)
           s == frame.seq_ack_num
           ack == [seq_ack_num |-> s]
<1>1. /\ recv_marked = {} /\ TakenIn = accepted /\ NFE = accepted % SeqMod
      /\ NFE \in SeqNums /\ toReceiver \in Seq(Frames) /\ toReceiver # <<>>
      /\ ack_output_queue \in Seq(Acks)
  BY DEF Inv, TypeOK, HandlePacket, TakenIn, Delivering, NumberingSound, CountersAreCounts
<1>2. /\ accepted \in Nat /\ Heard \in Nat /\ Len(toReceiver) \in Nat
      /\ Len(uplink) \in Nat /\ Len(m_output_queue) \in Nat /\ Len(toSender) \in Nat
      /\ Len(ackUplink) \in Nat /\ Len(ack_output_queue) \in Nat
  BY Counts DEF Inv
<1>3. /\ toReceiver' = Tail(toReceiver) /\ Len(toReceiver') = Len(toReceiver) - 1
      /\ s = NFE /\ Numbered(toReceiver', accepted + 1)
      /\ Carries(toReceiver', sent, accepted + 1)
  <2>1. toReceiver' = Tail(toReceiver) /\ Len(toReceiver') = Len(toReceiver) - 1
    BY <1>1, HeadTailProperties DEF HandlePacket
  <2>2. Numbered(toReceiver, accepted) /\ Carries(toReceiver, sent, accepted)
    BY <1>1 DEF Inv, NumberingSound, QueuesNumbered, FramesInTransit
  <2> QED
    BY <1>1, <1>2, <2>1, <2>2, TakeFirst
<1>4. recv_marked' = {NFE} /\ UNCHANGED <<NFE, accepted>>
  BY <1>1, <1>3, ExpectedIsReceivable DEF HandlePacket
<1>5. TakenIn' = accepted + 1 /\ Heard' = Heard
  BY <1>4 DEF HandlePacket, TakenIn, Heard, Delivering, AdvancingLAR, Inc, blockVars
<1>6. /\ TakenIn' + Len(toReceiver') = TakenIn + Len(toReceiver)
      /\ TakenIn' + Len(toReceiver') + Len(uplink) = TakenIn + Len(toReceiver) + Len(uplink)
      /\ TakenIn' + Len(toReceiver') + Len(uplink) + Len(m_output_queue)
           = TakenIn + Len(toReceiver) + Len(uplink) + Len(m_output_queue)
  BY <1>1, <1>2, <1>3, <1>5, SMT
<1>7. /\ ack_output_queue' = Append(ack_output_queue, ack) /\ ack \in Acks
      /\ Len(ack_output_queue') = Len(ack_output_queue) + 1
  <2>1. ack_output_queue' = Append(ack_output_queue, ack) /\ ack \in Acks
    BY <1>1, <1>3 DEF HandlePacket, Acks
  <2> QED
    BY <1>1, <2>1, AppendProperties
<1>8. Numbered(ack_output_queue', Heard + Len(toSender) + Len(ackUplink))
  <2> DEFINE first == Heard + Len(toSender) + Len(ackUplink)
  <2>1. first \in Nat
    BY <1>2, SMT
  <2>2. Numbered(ack_output_queue, first) /\ first + Len(ack_output_queue) = accepted
    BY <1>1 DEF Inv, NumberingSound, QueuesNumbered, WindowRespected
  <2>3. ack.seq_ack_num = accepted % SeqMod
    BY <1>1, <1>3
  <2> HIDE DEF first, ack
  <2>4. Numbered(ack_output_queue', first)
    BY <1>1, <1>7, <2>1, <2>2, <2>3, AddLast
  <2> QED
    BY <2>4 DEF first
<1>9. CountersAreCounts'
  BY <1>4 DEF HandlePacket, Inv, NumberingSound, CountersAreCounts, Inc, blockVars
<1>10. QueuesNumbered'
  BY <1>3, <1>5, <1>6, <1>8
  DEF HandlePacket, Inv, NumberingSound, QueuesNumbered, blockVars, ackLinks
<1>11. WindowRespected'
  <2>1. Heard + Len(toSender) + Len(ackUplink) + Len(ack_output_queue) = accepted
    BY <1>1 DEF Inv, WindowRespected
  <2>2. Heard' + Len(toSender) + Len(ackUplink) + Len(ack_output_queue') = TakenIn'
    BY <1>2, <1>5, <1>7, <2>1, SMT
  <2>3. Len(sent) - acked <= SWS
    BY DEF Inv, WindowRespected
  <2> QED
    BY <2>2, <2>3 DEF HandlePacket, WindowRespected, ackLinks
<1>12. FramesInTransit'
  BY <1>3, <1>5, <1>6 DEF HandlePacket, Inv, FramesInTransit
<1>13. UnackedFramesKept'
  BY DEF HandlePacket, Inv, UnackedFramesKept, blockVars
<1> QED
  BY <1>9, <1>10, <1>11, <1>12, <1>13 DEF Inv, NumberingSound

LEMMA DeliverFrameKeepsInv == Inv /\ DeliverFrame /\ TypeOK' => Inv'
<1> SUFFICES ASSUME Inv, DeliverFrame, TypeOK' PROVE Inv'
  OBVIOUS
<1>1. /\ recv_marked = {NFE} /\ NFE = accepted % SeqMod /\ accepted \in Nat
      /\ TakenIn = accepted + 1
  BY DEF Inv, TypeOK, DeliverFrame, TakenIn, Delivering, NumberingSound, CountersAreCounts
<1>2. accepted' = accepted + 1 /\ recv_marked' = {} /\ NFE' = accepted' % SeqMod
  BY <1>1, ModNext DEF DeliverFrame
<1>3. TakenIn' = TakenIn /\ Heard' = Heard
  BY <1>1, <1>2, SMT DEF DeliverFrame, TakenIn, Heard, Delivering, AdvancingLAR, Inc, blockVars
<1>4. CountersAreCounts'
  BY <1>2 DEF DeliverFrame, Inv, NumberingSound, CountersAreCounts, Inc, blockVars
<1>5. QueuesNumbered'
  BY <1>3 DEF DeliverFrame, Inv, NumberingSound, QueuesNumbered, blockVars, frameLinks,
              ackLinks
<1>6. WindowRespected' /\ FramesInTransit' /\ UnackedFramesKept'
  BY <1>3 DEF DeliverFrame, Inv, WindowRespected, FramesInTransit, UnackedFramesKept,
              blockVars, frameLinks, ackLinks
<1> QED
  BY <1>4, <1>5, <1>6 DEF Inv, NumberingSound

LEMMA SendAcksKeepsInv == Inv /\ SendAcks /\ TypeOK' => Inv'
<1> SUFFICES ASSUME Inv, SendAcks, TypeOK' PROVE Inv'
  OBVIOUS
<1> DEFINE first == Heard + Len(toSender)
<1>1. ackUplink \in Seq(Acks) /\ ack_output_queue \in Seq(Acks)
  BY DEF Inv, TypeOK
<1>2. /\ Heard \in Nat /\ Len(toSender) \in Nat /\ first \in Nat
      /\ Len(ackUplink) \in Nat /\ Len(ack_output_queue) \in Nat
  <2>1. /\ Heard \in Nat /\ Len(toSender) \in Nat
        /\ Len(ackUplink) \in Nat /\ Len(ack_output_queue) \in Nat
    BY Counts DEF Inv
  <2> QED
    BY <2>1, SMT
<1>3. /\ ackUplink' = ackUplink \o ack_output_queue /\ ack_output_queue' = <<>>
      /\ Len(ackUplink') = Len(ackUplink) + Len(ack_output_queue)
      /\ Len(ack_output_queue') = 0
  BY <1>1, ConcatProperties, EmptySeq DEF SendAcks
<1>4. TakenIn' = TakenIn /\ Heard' = Heard
  BY DEF SendAcks, TakenIn, Heard, Delivering, AdvancingLAR, Inc, blockVars
<1>5. Numbered(ackUplink', first)
  <2>1. Numbered(ackUplink, first) /\ Numbered(ack_output_queue, first + Len(ackUplink))
    BY DEF Inv, NumberingSound, QueuesNumbered
  <2> HIDE DEF first
  <2> QED
    BY <1>1, <1>2, <1>3, <2>1, MoveBehind
<1>6. CountersAreCounts'
  BY DEF SendAcks, Inv, NumberingSound, CountersAreCounts, Inc, blockVars
<1>7. QueuesNumbered'
  BY <1>3, <1>4, <1>5, EmptyQueue
  DEF SendAcks, Inv, NumberingSound, QueuesNumbered, blockVars, frameLinks
<1>8. WindowRespected'
  <2>1. Heard + Len(toSender) + Len(ackUplink) + Len(ack_output_queue) = TakenIn
    BY DEF Inv, WindowRespected
  <2>2. Heard' + Len(toSender) + Len(ackUplink') + Len(ack_output_queue') = TakenIn'
    BY <1>2, <1>3, <1>4, <2>1, SMT
  <2>3. Len(sent) - acked <= SWS
    BY DEF Inv, WindowRespected
  <2> QED
    BY <2>2, <2>3 DEF SendAcks, WindowRespected
<1>9. FramesInTransit' /\ UnackedFramesKept'
  BY <1>4 DEF SendAcks, Inv, FramesInTransit, UnackedFramesKept, blockVars, frameLinks
<1> QED
  BY <1>6, <1>7, <1>8, <1>9 DEF Inv, NumberingSound

-----------------------------------------------------------------------------
LEMMA InvNext == Inv /\ [Next]_vars => Inv'
<1> SUFFICES ASSUME Inv, [Next]_vars PROVE Inv'
  OBVIOUS
<1>1. TypeOK'
  BY TypeNext DEF Inv
<1>2. ASSUME NEW length \in Lengths, UserTypes(length) PROVE Inv'
  BY <1>1, <1>2, InvUntouched
  DEF UserTypes, blockVars, receiverVars, frameLinks, ackLinks
<1>3. CASE EndIncoming \/ EndInput \/ EndPending
  <2>1. ack_marked = {}
    BY <1>3 DEF EndIncoming, EndInput, EndPending, Inv, NumberingSound, CountersAreCounts,
                AdvancingLAR
  <2> QED
    BY <1>1, <1>3, <2>1, InvUntouched
    DEF EndIncoming, EndInput, EndPending, SenderGoesTo, blockVars, receiverVars,
        frameLinks, ackLinks
<1>4. CASE UNCHANGED vars
  BY <1>1, <1>4, InvUntouched
  DEF vars, userVars, blockVars, receiverVars, frameLinks, ackLinks
<1> QED
  BY <1>1, <1>2, <1>3, <1>4, HandleAckKeepsInv, AdvanceLARKeepsInv, HandleUserInputKeepsInv,
     SendPendingFrameKeepsInv, SendMessageToRouterKeepsInv, ForwardFrameKeepsInv,
     ForwardAckKeepsInv, HandlePacketKeepsInv, DeliverFrameKeepsInv, SendAcksKeepsInv
  DEF Next, SenderThread, ReceiverThread

\* Inv is an invariant: the uint8_t counters of both hosts, the marks and the numbers
\* in every queue agree with the true counts for ever, however often they wrap.
THEOREM NumberingCorrect == Spec => []NumberingSound
<1>1. Init => Inv
  BY InvInit
<1>2. Inv /\ [Next]_vars => Inv'
  BY InvNext
<1>3. Inv => NumberingSound
  BY DEF Inv
<1> QED
  BY <1>1, <1>2, <1>3, PTL DEF Spec

\* handlePendingFrames keeps at most SWS frames unacknowledged and no ack is lost or
\* made twice.
THEOREM WindowCorrect == Spec => []WindowRespected
<1>1. Init => Inv
  BY InvInit
<1>2. Inv /\ [Next]_vars => Inv'
  BY InvNext
<1>3. Inv => WindowRespected
  BY DEF Inv
<1> QED
  BY <1>1, <1>2, <1>3, PTL DEF Spec

\* The links carry exactly what was sent and not taken in yet, in order.
THEOREM TransitCorrect == Spec => []FramesInTransit
<1>1. Init => Inv
  BY InvInit
<1>2. Inv /\ [Next]_vars => Inv'
  BY InvNext
<1>3. Inv => FramesInTransit
  BY DEF Inv
<1> QED
  BY <1>1, <1>2, <1>3, PTL DEF Spec

\* No slot of sender_queue is reused before the frame in it is acknowledged.
THEOREM SlotsCorrect == Spec => []UnackedFramesKept
<1>1. Init => Inv
  BY InvInit
<1>2. Inv /\ [Next]_vars => Inv'
  BY InvNext
<1>3. Inv => UnackedFramesKept
  BY DEF Inv
<1> QED
  BY <1>1, <1>2, <1>3, PTL DEF Spec

LEMMA InvInOrder == Inv => InOrderArrival
<1> SUFFICES ASSUME Inv PROVE InOrderArrival
  OBVIOUS
<1>1. ASSUME toReceiver # <<>>, ~Delivering
      PROVE  Head(toReceiver).seq_ack_num = NFE
  <2>1. TakenIn = accepted /\ accepted \in Nat /\ NFE = accepted % SeqMod
    BY <1>1 DEF Inv, TypeOK, TakenIn, NumberingSound, CountersAreCounts
  <2>2. toReceiver \in Seq(Frames) /\ Numbered(toReceiver, accepted)
    BY <2>1 DEF Inv, TypeOK, NumberingSound, QueuesNumbered
  <2> QED
    BY <1>1, <2>1, <2>2, TakeFirst
<1>2. ASSUME toSender # <<>>, ~AdvancingLAR
      PROVE  Head(toSender).seq_ack_num = Inc(LAR)
  <2>1. /\ Heard = acked /\ acked \in Nat
        /\ LAR = (acked + SeqMod - 1) % SeqMod
    BY <1>2 DEF Inv, TypeOK, Heard, NumberingSound, CountersAreCounts
  <2>2. toSender \in Seq(Acks) /\ Numbered(toSender, acked)
    BY <2>1 DEF Inv, TypeOK, NumberingSound, QueuesNumbered
  <2> QED
    BY <1>2, <2>1, <2>2, TakeFirst, BehindNext
<1> QED
  BY <1>1, <1>2 DEF InOrderArrival

\* Every frame and every ack that arrives is the expected one: the window tests of
\* host.cpp never refuse anything on a path that neither loses nor reorders.
THEOREM ArrivalCorrect == Spec => []InOrderArrival
<1>1. Init => Inv
  BY InvInit
<1>2. Inv /\ [Next]_vars => Inv'
  BY InvNext
<1>3. Inv => InOrderArrival
  BY InvInOrder
<1> QED
  BY <1>1, <1>2, <1>3, PTL DEF Spec

=============================================================================
