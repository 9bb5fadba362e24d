--------------------------- MODULE MessageFraming ---------------------------
(***************************************************************************)
(* How host.cpp handleUserInput cuts a typed message into the payloads of  *)
(* frames, and what printf("%s") shows of a row of payloads.               *)
(*                                                                         *)
(* A message is an id (which of the typed messages it is) and its length;  *)
(* a chunk is the interval first..last of its characters, counted from 1,  *)
(* that a payload holds in front of the terminating zero.                  *)
(***************************************************************************)
EXTENDS Naturals, Sequences

CONSTANT FRAME_PAYLOAD_SIZE      \* 20 in utility.h

ASSUME PayloadAssumption == FRAME_PAYLOAD_SIZE \in Nat /\ FRAME_PAYLOAD_SIZE > 1

\* The last byte of a payload is kept for the terminating zero.
Room == FRAME_PAYLOAD_SIZE - 1

IsSplit(length) == FRAME_PAYLOAD_SIZE < length

NumOfChunks(length) == IF IsSplit(length) THEN length \div Room + 1 ELSE 1

\* How many characters are copied into a chunk.  The last chunk of a message that Room
\* divides is filled from beyond the end of the string, the others hold what is left.
Copied(length, i) ==
  IF ~IsSplit(length) THEN length
  ELSE IF i < NumOfChunks(length) \/ length % Room = 0 THEN Room
  ELSE length % Room

\* Mutant: the chunks are a whole payload apart, although each is a byte shorter.
SplitApart(message) ==
  [i \in 1..NumOfChunks(message.length) |->
     LET start == (i - 1) * FRAME_PAYLOAD_SIZE
         end == start + Copied(message.length, i)
     IN  [message |-> message.id, first |-> start + 1,
          last |-> IF end < message.length THEN end ELSE message.length]]

\* A payload shows what was copied up to the zero behind it, or up to the string's own
\* zero when that was copied too.  The zero behind FRAME_PAYLOAD_SIZE characters falls on
\* crc, which senderFrameConstructor sets to zero.
Split(message) ==
  [i \in 1..NumOfChunks(message.length) |->
     LET start == (i - 1) * Room
         end == start + Copied(message.length, i)
     IN  [message |-> message.id, first |-> start + 1,
          last |-> IF end < message.length THEN end ELSE message.length]]

\* What printf shows of payloads in a row: one interval of characters if each payload
\* goes on where the one before ends, and otherwise the pieces as they are.
GoesOn(chunks) ==
  \A k \in 1..(Len(chunks) - 1) : /\ chunks[k + 1].message = chunks[k].message
                                  /\ chunks[k + 1].first = chunks[k].last + 1
Text(chunks) ==
  IF GoesOn(chunks) THEN <<[chunks[1] EXCEPT !.last = chunks[Len(chunks)].last]>>
  ELSE chunks

=============================================================================
