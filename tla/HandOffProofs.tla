--------------------------- MODULE HandOffProofs ---------------------------
(***************************************************************************)
(* The locked sections around shared queues are atomic, for any number of  *)
(* threads and of items: HandOff implements BatchQueue, and a pusher and   *)
(* the consumer are in their sections together only where the mutex is     *)
(* initialised late, or never and with an unusable value.                  *)
(*                                                                         *)
(* That a section is atomic is not inductive by itself.  As long as the    *)
(* mutex works, it names whoever is inside; and even where it does not, as *)
(* long as no sections have overlapped, what a thread has pushed so far is *)
(* the end of its queue.                                                   *)
(***************************************************************************)
EXTENDS HandOff, TLAPS, SequenceTheorems

\* The mutex names the thread inside, unless it is refused, or until it is initialised
\* with a thread in its section.
HolderIsInside ==
  ~reset /\ mutex # "broken" => \A t \in Threads : Inside(t) => mutex = t

\* The consumer that initialises the mutex does so before anything else.
BrokenAtFirst == mutex = "broken" => ~timed \/ pc[Consumer] = "start"

\* What a thread has pushed in this section and what it has ready make up one batch.
InHandOf(p) ==
  /\ pc[p] # "pushing" => done[p] = 0
  /\ pc[p] \in {"out", "signalling"} => source[p] = <<>>
  /\ done[p] + Len(source[p]) <= MaxBatch
  /\ done[p] + Len(source[p]) <= made[p]
  /\ \A i \in 1..Len(source[p]) : source[p][i] = Pushed(p) + i
InHand == \A p \in Pushers : InHandOf(p)

\* The queue of a thread ends with what it has pushed in this section.
EndOf(p) ==
  /\ done[p] <= Len(queue[p])
  /\ \A i \in 1..done[p] : queue[p][Len(queue[p]) - done[p] + i] = Pushed(p) - done[p] + i
EndOfQueue == ~corrupted => \A p \in Pushers : EndOf(p)

HandOffInv == /\ TypeOK /\ HolderIsInside /\ BrokenAtFirst
              /\ SectionsOverlap /\ InHand /\ EndOfQueue

-----------------------------------------------------------------------------
\* The threads and the marks of a mutex nobody holds.
LEMMA Threads3 ==
  /\ Consumer \in Threads /\ Consumer \notin Pushers
  /\ \A p \in Pushers : p \in Threads /\ p # Consumer
  /\ \A t \in Threads : t # "free" /\ t # "garbage" /\ t # "broken"
BY ConsumerAssumption, NamesAssumption DEF Threads, Unlocked

\* The first items of a sequence, when one is added at the end of it.
LEMMA AppendFacts ==
  ASSUME NEW S, NEW s \in Seq(S), NEW x \in S
  PROVE  /\ Append(s, x) \in Seq(S)
         /\ Len(Append(s, x)) = Len(s) + 1
         /\ \A i \in 1..Len(s) : Append(s, x)[i] = s[i]
         /\ Append(s, x)[Len(s) + 1] = x
OBVIOUS

\* What is left of a sequence when its first item is taken.
LEMMA TailFacts ==
  ASSUME NEW S, NEW s \in Seq(S), s # <<>>
  PROVE  /\ Head(s) \in S /\ Head(s) = s[1]
         /\ Len(s) \in Nat /\ Len(s) > 0
         /\ Tail(s) \in Seq(S)
         /\ Len(Tail(s)) = Len(s) - 1
         /\ \A i \in 1..Len(Tail(s)) : Tail(s)[i] = s[i + 1]
OBVIOUS

\* A sequence that ends with the numbers up to c, and goes on with the next one.
LEMMA OneMoreAtTheEnd ==
  ASSUME NEW s \in Seq(Nat), NEW t \in Seq(Nat), NEW n \in Nat, NEW c \in Nat,
         Len(t) = Len(s) + 1, \A i \in 1..Len(s) : t[i] = s[i], t[Len(s) + 1] = c + 1,
         n <= Len(s), \A i \in 1..n : s[Len(s) - n + i] = c - n + i
  PROVE  /\ n + 1 <= Len(t)
         /\ \A i \in 1..(n + 1) : t[Len(t) - (n + 1) + i] = (c + 1) - (n + 1) + i
<1>. DEFINE l == Len(s)
<1>1. l \in Nat /\ n + 1 <= Len(t) /\ Len(t) = l + 1
  OBVIOUS
<1>. HIDE DEF l
<1>2. ASSUME NEW i \in 1..(n + 1) PROVE t[Len(t) - (n + 1) + i] = (c + 1) - (n + 1) + i
  <2>1. Len(t) - (n + 1) + i = l - n + i /\ (c + 1) - (n + 1) + i = c - n + i
    BY <1>1
  <2>2. CASE i = n + 1
    <3>1. l - n + i = l + 1 /\ c - n + i = c + 1
      BY <2>2, <1>1
    <3>. QED  BY <2>1, <3>1 DEF l
  <2>3. CASE i # n + 1
    <3>1. i \in 1..n
      BY <2>3
    <3>2. l - n + i \in 1..l
      BY <3>1, <1>1
    <3>. QED  BY <2>1, <3>1, <3>2 DEF l
  <2>. QED  BY <2>2, <2>3
<1>. QED  BY <1>1, <1>2

\* The variables of one thread.
LEMMA TypesOf ==
  ASSUME TypeOK, NEW p \in Pushers
  PROVE  /\ source[p] \in Seq(Nat) /\ queue[p] \in Seq(Nat) /\ batch[p] \in Seq(Nat)
         /\ taken[p] \in Seq(Nat)
         /\ made[p] \in Nat /\ done[p] \in Nat /\ done[p] <= MaxBatch /\ MaxBatch \in Nat
         /\ Len(source[p]) \in Nat /\ Len(queue[p]) \in Nat /\ Len(batch[p]) \in Nat
         /\ Pushed(p) \in Int
<1>1. /\ source[p] \in Seq(Nat) /\ queue[p] \in Seq(Nat) /\ batch[p] \in Seq(Nat)
      /\ taken[p] \in Seq(Nat)
  BY DEF TypeOK, Queues
<1>2. made[p] \in 0..MaxItems /\ done[p] \in 0..MaxBatch
  BY DEF TypeOK
<1>. QED  BY <1>1, <1>2, BoundAssumption DEF Pushed

\* A thread whose items stay where they are keeps what is said of them.
LEMMA SameItems ==
  ASSUME NEW p \in Pushers, EndOf(p), queue'[p] = queue[p], done'[p] = done[p],
         source'[p] = source[p], made'[p] = made[p]
  PROVE  EndOf(p)'
BY DEF EndOf, Pushed

\* With an empty batch there is nothing to say, now or in the next state.
LEMMA NothingPushed == TypeOK => \A p \in Pushers : done[p] = 0 => EndOf(p)
BY TypesOf DEF EndOf

LEMMA NothingPushedLater == (TypeOK => \A p \in Pushers : done[p] = 0 => EndOf(p))'
BY NothingPushed, PTL

-----------------------------------------------------------------------------
\* The initial states satisfy the invariant: all queues are empty.
LEMMA InitInv == Init => HandOffInv
<1>. SUFFICES ASSUME Init PROVE HandOffInv
  OBVIOUS
<1>. USE BoundAssumption, Threads3 DEF Init
<1>0. /\ pc \in [Threads -> Places] /\ Nothing \in Queues
      /\ made \in [Pushers -> 0..MaxItems] /\ done \in [Pushers -> 0..MaxBatch]
  BY DEF Places, Queues, Nothing
<1>1. TypeOK
  BY <1>0 DEF TypeOK
<1>2. HolderIsInside /\ BrokenAtFirst /\ SectionsOverlap
  BY DEF HolderIsInside, BrokenAtFirst, SectionsOverlap, Inside, Sections
<1>3. InHand
  <2>. SUFFICES ASSUME NEW p \in Pushers PROVE InHandOf(p)
    BY DEF InHand
  <2>1. source[p] = <<>> /\ done[p] = 0 /\ made[p] = 0
    BY DEF Nothing
  <2>. QED  BY <2>1 DEF InHandOf
<1>4. EndOfQueue
  BY <1>1, NothingPushed DEF EndOfQueue
<1>. QED  BY <1>1, <1>2, <1>3, <1>4 DEF HandOffInv

\* What every way to ask for the mutex does: where it works nobody was in a section, and
\* the thread that gets in is the holder.
LEMMA LockInv ==
  ASSUME HandOffInv, NEW t \in Threads, NEW from \in Places \ {"start"}, NEW to \in Sections,
         Lock(t, from, to), t \in Pushers => from # "pushing" /\ to = "pushing"
  PROVE  HandOffInv'
<1>. USE Threads3 DEF HandOffInv
<1>0. /\ pc' = [pc EXCEPT ![t] = to] /\ pc \in [Threads -> Places] /\ to \in Places
      /\ pc[t] = from /\ mutex \in {"free", "broken"}
      /\ mutex' = IF mutex = "broken" THEN mutex ELSE t
      /\ UNCHANGED <<timed, source, made, queue, batch, taken, done, reset, corrupted>>
  BY DEF TypeOK, Sections, Places, Lock, GoesTo, Free, TakenBy
<1>1. TypeOK'
  <2>1. pc' \in [Threads -> Places] /\ mutex' \in Threads \cup Unlocked
    BY <1>0 DEF Unlocked
  <2>. QED  BY <1>0, <2>1 DEF TypeOK
<1>2. HolderIsInside'
  BY <1>0 DEF HolderIsInside, Inside
<1>3. BrokenAtFirst' /\ SectionsOverlap'
  BY <1>0 DEF BrokenAtFirst, SectionsOverlap, Sections
<1>4. InHand'
  BY <1>0 DEF InHand, InHandOf, Pushed, Sections
<1>5. EndOfQueue'
  BY <1>0 DEF EndOfQueue, EndOf, Pushed
<1>. QED  BY <1>1, <1>2, <1>3, <1>4, <1>5

-----------------------------------------------------------------------------
\* A thread that gets something ready had nothing left and had pushed nothing.
LEMMA ProduceInv ==
  ASSUME HandOffInv, NEW p \in Pushers, Produce(p)
  PROVE  HandOffInv'
<1>. USE Threads3, BoundAssumption DEF HandOffInv
<1>1. PICK k \in 0..MaxBatch :
        /\ made[p] + k <= MaxItems
        /\ source' = [source EXCEPT ![p] = [i \in 1..k |-> made[p] + i]]
        /\ made' = [made EXCEPT ![p] = @ + k]
  BY DEF Produce
<1>2. /\ pc[p] = "out" /\ pc' = [pc EXCEPT ![p] = "locking"]
      /\ UNCHANGED <<timed, mutex, queue, batch, taken, done, reset, corrupted>>
  BY DEF Produce, GoesTo
<1>. DEFINE ready == [i \in 1..k |-> made[p] + i]
<1>3. made[p] \in Nat /\ made[p] + k \in 0..MaxItems /\ k \in Nat
  BY <1>1, TypesOf
<1>4. ready \in Seq(Nat) /\ Len(ready) = k /\ \A i \in 1..k : ready[i] = made[p] + i
  <2>1. \A i \in 1..k : made[p] + i \in Nat
    BY <1>3
  <2>. QED  BY <2>1, <1>3
<1>5. source'[p] = ready /\ \A q \in Pushers \ {p} : source'[q] = source[q]
  BY <1>1 DEF TypeOK, Queues
<1>6. made'[p] = made[p] + k /\ \A q \in Pushers \ {p} : made'[q] = made[q]
  BY <1>1 DEF TypeOK
<1>7. TypeOK'
  <2>1. source' \in Queues
    BY <1>1, <1>4 DEF TypeOK, Queues
  <2>2. made' \in [Pushers -> 0..MaxItems]
    BY <1>1, <1>3 DEF TypeOK
  <2>3. pc' \in [Threads -> Places]
    BY <1>2 DEF TypeOK, Places
  <2>. QED  BY <1>2, <2>1, <2>2, <2>3 DEF TypeOK
<1>8. HolderIsInside' /\ BrokenAtFirst' /\ SectionsOverlap'
  BY <1>2 DEF HolderIsInside, BrokenAtFirst, SectionsOverlap, Inside, Sections, TypeOK
<1>9. done[p] = 0 /\ Len(source[p]) = 0 /\ done'[p] = 0
  BY <1>2 DEF InHand, InHandOf
<1>10. InHand'
  <2>. SUFFICES ASSUME NEW q \in Pushers PROVE InHandOf(q)'
    BY DEF InHand
  <2>1. CASE q = p
    BY <2>1, <1>2, <1>3, <1>4, <1>5, <1>6, <1>9 DEF TypeOK, Pushed, InHandOf
  <2>2. CASE q # p
    <3>1. /\ pc'[q] = pc[q] /\ done'[q] = done[q] /\ source'[q] = source[q]
          /\ made'[q] = made[q] /\ InHandOf(q)
      BY <2>2, <1>2, <1>5, <1>6 DEF TypeOK, InHand
    <3>. QED  BY ONLY <3>1 DEF InHandOf, Pushed
  <2>. QED  BY <2>1, <2>2
<1>11. EndOfQueue'
  <2>. SUFFICES ASSUME ~corrupted', NEW q \in Pushers PROVE EndOf(q)'
    BY DEF EndOfQueue
  <2>1. CASE q = p
    BY <2>1, <1>7, <1>9, NothingPushedLater
  <2>2. CASE q # p
    BY <2>2, <1>2, <1>5, <1>6, SameItems DEF EndOfQueue
  <2>. QED  BY <2>1, <2>2
<1>. QED  BY <1>7, <1>8, <1>10, <1>11

\* An item goes from the thread's hand to the end of its queue.
LEMMA PushInv ==
  ASSUME HandOffInv, NEW p \in Pushers, Push(p)
  PROVE  HandOffInv'
<1>. USE Threads3, BoundAssumption DEF HandOffInv
<1>. DEFINE x == Head(source[p])
<1>1. /\ pc[p] = "pushing" /\ source[p] # <<>> /\ source[p] \in Seq(Nat)
      /\ queue' = [queue EXCEPT ![p] = Append(@, x)] /\ queue[p] \in Seq(Nat)
      /\ corrupted' = (corrupted \/ Together)
      /\ UNCHANGED <<timed, mutex, pc, made, batch, taken, reset>>
  BY TypesOf DEF Push
<1>2. /\ x \in Nat /\ x = source[p][1]
      /\ Len(source[p]) \in Nat /\ Len(source[p]) > 0
      /\ Tail(source[p]) \in Seq(Nat) /\ Len(Tail(source[p])) = Len(source[p]) - 1
      /\ \A i \in 1..Len(Tail(source[p])) : Tail(source[p])[i] = source[p][i + 1]
  BY <1>1, TailFacts
<1>3. /\ queue'[p] \in Seq(Nat) /\ Len(queue'[p]) = Len(queue[p]) + 1 /\ Len(queue[p]) \in Nat
      /\ \A i \in 1..Len(queue[p]) : queue'[p][i] = queue[p][i]
      /\ queue'[p][Len(queue[p]) + 1] = x
      /\ \A q \in Pushers \ {p} : queue'[q] = queue[q]
  <2>1. queue'[p] = Append(queue[p], x) /\ \A q \in Pushers \ {p} : queue'[q] = queue[q]
    BY <1>1 DEF TypeOK, Queues
  <2>. QED  BY <2>1, <1>1, <1>2, AppendFacts
<1>4. source'[p] = Tail(source[p]) /\ \A q \in Pushers \ {p} : source'[q] = source[q]
  BY DEF Push, TypeOK, Queues
<1>5. done'[p] = done[p] + 1 /\ \A q \in Pushers \ {p} : done'[q] = done[q]
  BY DEF Push, TypeOK
<1>6. done[p] \in Nat /\ made[p] \in Nat /\ done[p] + Len(source[p]) <= MaxBatch
      /\ done[p] + Len(source[p]) <= made[p]
      /\ x = Pushed(p) + 1
      /\ \A i \in 1..Len(Tail(source[p])) : Tail(source[p])[i] = Pushed(p) + (i + 1)
  BY <1>2, TypesOf DEF InHand, InHandOf
<1>7. Pushed(p)' = Pushed(p) + 1 /\ Pushed(p) \in Nat
      /\ \A q \in Pushers \ {p} : Pushed(q)' = Pushed(q)
  <2>1. made' = made
    BY <1>1
  <2>2. Pushed(p)' = made[p] - Len(Tail(source[p])) /\ Pushed(p) = made[p] - Len(source[p])
    BY <2>1, <1>4 DEF Pushed
  <2>3. \A q \in Pushers \ {p} : Pushed(q)' = Pushed(q)
    BY <2>1, <1>4 DEF Pushed
  <2>. QED  BY <2>2, <2>3, <1>2, <1>6
<1>8. TypeOK'
  <2>1. source' \in Queues
    BY <1>2 DEF TypeOK, Push, Queues
  <2>2. done' \in [Pushers -> 0..MaxBatch]
    BY <1>2, <1>6 DEF TypeOK, Push
  <2>3. queue' \in Queues
    BY <1>1, <1>2, AppendFacts DEF TypeOK, Queues
  <2>4. corrupted' \in BOOLEAN
    BY <1>1 DEF TypeOK, Together
  <2>. QED  BY <1>1, <2>1, <2>2, <2>3, <2>4 DEF TypeOK
<1>9. HolderIsInside' /\ BrokenAtFirst' /\ SectionsOverlap'
  <2>1. Together => reset \/ (~timed /\ mutex = "broken")
    BY DEF HolderIsInside, BrokenAtFirst, Inside, Sections, Together
  <2>. QED  BY <1>1, <2>1 DEF HolderIsInside, BrokenAtFirst, SectionsOverlap, Inside
<1>10. InHand'
  <2>. SUFFICES ASSUME NEW q \in Pushers PROVE InHandOf(q)'
    BY DEF InHand
  <2>1. CASE q = p
    <3>1. \A i \in 1..Len(source'[q]) : source'[q][i] = Pushed(q)' + i
      <4>. SUFFICES ASSUME NEW i \in 1..Len(Tail(source[p]))
                    PROVE  Tail(source[p])[i] = Pushed(p)' + i
        BY <2>1, <1>4
      <4>1. Pushed(p) + (i + 1) = Pushed(p)' + i
        BY <1>7, <1>2
      <4>. QED  BY <4>1, <1>6
    <3>2. /\ done'[q] + Len(source'[q]) = done[p] + Len(source[p])
          /\ pc'[q] = "pushing" /\ made'[q] = made[p]
      <4>1. done'[q] = done[p] + 1 /\ Len(source'[q]) = Len(source[p]) - 1
        BY <2>1, <1>2, <1>4, <1>5
      <4>2. done'[q] + Len(source'[q]) = done[p] + Len(source[p])
        <5>1. done[p] \in Nat /\ Len(source[p]) \in Nat
          BY <1>2, <1>6
        <5>. QED  BY ONLY <4>1, <5>1
      <4>. QED  BY <4>2, <2>1, <1>1
    <3>3. /\ done'[q] + Len(source'[q]) <= MaxBatch
          /\ done'[q] + Len(source'[q]) <= made'[q]
      BY <3>2, <1>6
    <3>. QED  BY <3>1, <3>2, <3>3 DEF InHandOf
  <2>2. CASE q # p
    <3>1. pc' = pc /\ made' = made
      BY <1>1
    <3>2. source'[q] = source[q] /\ done'[q] = done[q] /\ Pushed(q)' = Pushed(q)
      BY <2>2, <1>4, <1>5, <1>7
    <3>. QED  BY <3>1, <3>2 DEF InHand, InHandOf
  <2>. QED  BY <2>1, <2>2
<1>11. EndOfQueue'
  <2>. SUFFICES ASSUME ~corrupted', NEW q \in Pushers PROVE EndOf(q)'
    BY DEF EndOfQueue
  <2>1. EndOf(q) /\ EndOf(p)
    BY <1>1 DEF EndOfQueue
  <2>2. CASE q # p
    <3>1. queue'[q] = queue[q] /\ done'[q] = done[q] /\ source'[q] = source[q] /\ made'[q] = made[q]
      BY <2>2, <1>1, <1>3, <1>4, <1>5
    <3>. QED  BY ONLY <3>1, <2>1, SameItems, q \in Pushers
  <2>3. CASE q = p
    <3>1. /\ done[p] <= Len(queue[p])
          /\ \A i \in 1..done[p] : queue[p][Len(queue[p]) - done[p] + i] = Pushed(p) - done[p] + i
      BY <2>1 DEF EndOf
    <3>2. /\ done[p] + 1 <= Len(queue'[p])
          /\ \A i \in 1..(done[p] + 1) : queue'[p][Len(queue'[p]) - (done[p] + 1) + i]
                                           = (Pushed(p) + 1) - (done[p] + 1) + i
      <4>1. /\ queue[p] \in Seq(Nat) /\ queue'[p] \in Seq(Nat) /\ done[p] \in Nat
            /\ Pushed(p) \in Nat /\ Len(queue'[p]) = Len(queue[p]) + 1
            /\ \A i \in 1..Len(queue[p]) : queue'[p][i] = queue[p][i]
            /\ queue'[p][Len(queue[p]) + 1] = Pushed(p) + 1
            /\ done[p] <= Len(queue[p])
            /\ \A i \in 1..done[p] : queue[p][Len(queue[p]) - done[p] + i] = Pushed(p) - done[p] + i
        BY <3>1, <1>1, <1>3, <1>6, <1>7
      <4>. QED  BY ONLY <4>1, OneMoreAtTheEnd, Zenon
    <3>. QED  BY <2>3, <3>2, <1>5, <1>7 DEF EndOf
  <2>. QED  BY <2>2, <2>3
<1>. QED  BY <1>8, <1>9, <1>10, <1>11

\* A thread that waits, looks, wakes up, or is not seen by the others at all.
LEMMA QuietInv ==
  ASSUME HandOffInv,
         pc' \in [Threads -> Places], \A u \in Threads : Inside(u)' => Inside(u),
         \A p \in Pushers : pc'[p] # pc[p] =>
           pc[p] \in {"locking", "signalling"} /\ pc'[p] \in {"parked", "out"}
             /\ (pc'[p] = "out" => source[p] = <<>>),
         pc[Consumer] = "start" => pc'[Consumer] = "start",
         UNCHANGED <<timed, mutex, source, made, queue, batch, taken, done, reset, corrupted>>
  PROVE  HandOffInv'
<1>. USE DEF HandOffInv
<1>1. TypeOK'
  BY DEF TypeOK
<1>2. HolderIsInside' /\ BrokenAtFirst' /\ SectionsOverlap'
  BY DEF HolderIsInside, BrokenAtFirst, SectionsOverlap
<1>3. InHand' /\ EndOfQueue'
  BY DEF InHand, InHandOf, EndOfQueue, EndOf, Pushed
<1>. QED  BY <1>1, <1>2, <1>3

LEMMA ParkInv ==
  ASSUME HandOffInv, NEW p \in Pushers, Park(p)
  PROVE  HandOffInv'
<1>1. pc \in [Threads -> Places] /\ pc' = [pc EXCEPT ![p] = "parked"] /\ pc[p] = "locking"
  BY DEF Park, GoesTo, HandOffInv, TypeOK
<1>2. pc' \in [Threads -> Places] /\ \A u \in Threads : Inside(u)' => Inside(u)
  BY <1>1, Threads3 DEF Places, Inside, Sections
<1>3. /\ \A q \in Pushers : pc'[q] # pc[q] => pc[q] = "locking" /\ pc'[q] = "parked"
      /\ pc'[Consumer] = pc[Consumer]
  BY <1>1, Threads3
<1>4. UNCHANGED <<timed, mutex, source, made, queue, batch, taken, done, reset, corrupted>>
  BY DEF Park
<1>. QED  BY <1>2, <1>3, <1>4, QuietInv, Threads3 DEF Places

LEMMA SignalInv ==
  ASSUME HandOffInv, NEW p \in Pushers, Signal(p)
  PROVE  HandOffInv'
<1>1. /\ pc \in [Threads -> Places] /\ pc[p] = "signalling" /\ source[p] = <<>>
      /\ pc' = [t \in Threads |-> IF t = p THEN "out"
                                  ELSE IF t = Consumer /\ pc[t] = "asleep" THEN "waking"
                                  ELSE pc[t]]
  BY DEF Signal, HandOffInv, TypeOK, InHand, InHandOf
<1>2. pc' \in [Threads -> Places] /\ \A u \in Threads : Inside(u)' => Inside(u)
  BY <1>1, Threads3 DEF Places, Inside, Sections
<1>3. /\ \A q \in Pushers : pc'[q] # pc[q] => q = p /\ pc'[q] = "out"
      /\ pc[Consumer] = "start" => pc'[Consumer] = "start"
  BY <1>1, Threads3
<1>4. UNCHANGED <<timed, mutex, source, made, queue, batch, taken, done, reset, corrupted>>
  BY DEF Signal
<1>. QED  BY <1>1, <1>2, <1>3, <1>4, QuietInv, Threads3 DEF Places

LEMMA TimeoutPollInv ==
  ASSUME HandOffInv, Timeout \/ Poll
  PROVE  HandOffInv'
<1>1. PICK place \in {"waking", "found"} :
        pc \in [Threads -> Places] /\ pc' = [pc EXCEPT ![Consumer] = place]
          /\ pc[Consumer] # "start"
  BY DEF Timeout, Poll, GoesTo, HandOffInv, TypeOK
<1>2. pc' \in [Threads -> Places] /\ \A u \in Threads : Inside(u)' => Inside(u)
  BY <1>1, Threads3 DEF Places, Inside, Sections
<1>3. \A q \in Pushers : pc'[q] = pc[q]
  BY <1>1, Threads3
<1>4. UNCHANGED <<timed, mutex, source, made, queue, batch, taken, done, reset, corrupted>>
  BY DEF Timeout, Poll
<1>. QED  BY <1>1, <1>2, <1>3, <1>4, QuietInv

-----------------------------------------------------------------------------
\* While no sections overlap, the consumer meets no unfinished batch.
LEMMA NothingUnfinished ==
  ASSUME InHand, Inside(Consumer), ~Together
  PROVE  \A p \in Pushers : done[p] = 0 /\ ~Inside(p)
BY DEF InHand, InHandOf, Together, Inside, Sections

\* A step of the consumer inside a section: it marks a race unless the consumer is alone.
LEMMA ConsumerInv ==
  ASSUME HandOffInv, Inside(Consumer), NEW place \in Places \ {"start"},
         place \in Sections => mutex' = mutex,
         mutex' = mutex \/ Released, pc' = [pc EXCEPT ![Consumer] = place],
         queue' \in Queues, batch' \in Queues, taken' \in Queues,
         corrupted' = (corrupted \/ Together),
         UNCHANGED <<timed, source, made, done, reset>>
  PROVE  HandOffInv'
<1>. USE Threads3 DEF HandOffInv
<1>0. mutex = "broken" <=> mutex' = "broken"
  BY DEF Released
<1>1. pc[Consumer] # "start" /\ (mutex = "broken" => ~timed)
  BY DEF BrokenAtFirst, Inside, Sections
<1>2. TypeOK'
  <2>1. pc' \in [Threads -> Places] /\ mutex' \in Threads \cup Unlocked
    BY DEF TypeOK, Released, Unlocked
  <2>2. corrupted' \in BOOLEAN
    BY DEF TypeOK, Together
  <2>. QED  BY <2>1, <2>2 DEF TypeOK
<1>3. HolderIsInside'
  <2>1. ~reset /\ mutex # "broken" =>
          mutex = Consumer /\ \A t \in Threads \ {Consumer} : ~Inside(t)'
    BY DEF TypeOK, HolderIsInside, Inside
  <2>2. Inside(Consumer)' => place \in Sections
    BY DEF TypeOK, Inside
  <2>. QED  BY <2>1, <2>2, <1>0 DEF HolderIsInside
<1>4. BrokenAtFirst' /\ SectionsOverlap'
  <2>1. Together => reset \/ mutex = "broken"
    BY DEF Together, HolderIsInside
  <2>. QED  BY <2>1, <1>0, <1>1 DEF BrokenAtFirst, SectionsOverlap
<1>5. InHand'
  BY DEF InHand, InHandOf, Pushed, TypeOK
<1>6. EndOfQueue'
  <2>. SUFFICES ASSUME ~corrupted', NEW p \in Pushers PROVE EndOf(p)'
    BY DEF EndOfQueue
  <2>1. done'[p] = 0
    BY NothingUnfinished
  <2>. QED  BY <2>1, <1>2, NothingPushedLater
<1>. QED  BY <1>2, <1>3, <1>4, <1>5, <1>6

LEMMA ConsumerSectionInv ==
  ASSUME HandOffInv, Wait \/ NeedNotWait \/ (\E p \in Pushers : Pop(p)) \/ ConsumerUnlocks
  PROVE  HandOffInv'
<1>. USE DEF GoesTo, Inside, Sections, Places
<1>1. /\ queue \in Queues /\ batch \in Queues /\ taken \in Queues
      /\ pc \in [Threads -> Places]
  BY DEF HandOffInv, TypeOK
<1>2. CASE Wait
  BY <1>1, <1>2, ConsumerInv DEF Wait
<1>3. CASE NeedNotWait
  BY <1>1, <1>3, ConsumerInv DEF NeedNotWait
<1>4. ASSUME NEW p \in Pushers, Pop(p) PROVE HandOffInv'
  <2>1. /\ queue[p] # <<>> /\ queue' = [queue EXCEPT ![p] = Tail(@)]
        /\ batch' = [batch EXCEPT ![p] = Append(@, Head(queue[p]))]
    BY <1>4 DEF Pop
  <2>2. queue[p] \in Seq(Nat) /\ batch[p] \in Seq(Nat)
    BY <1>1 DEF Queues
  <2>3. Tail(queue[p]) \in Seq(Nat) /\ Append(batch[p], Head(queue[p])) \in Seq(Nat)
    BY <2>1, <2>2, TailFacts, AppendFacts
  <2>4. queue' \in Queues /\ batch' \in Queues
    BY <1>1, <2>1, <2>3 DEF Queues
  <2>5. pc[Consumer] = "draining" /\ pc' = [pc EXCEPT ![Consumer] = "draining"]
    BY <1>1, <1>4 DEF Pop
  <2>6. /\ UNCHANGED <<timed, mutex, source, made, taken, done, reset>>
        /\ corrupted' = (corrupted \/ Together)
    BY <1>4 DEF Pop
  <2>. QED  BY <1>1, <2>4, <2>5, <2>6, ConsumerInv
<1>5. CASE ConsumerUnlocks
  <2>1. taken' \in Queues /\ batch' \in Queues
    BY <1>1, <1>5 DEF ConsumerUnlocks, Queues, Nothing
  <2>. QED  BY <1>1, <1>5, <2>1, ConsumerInv DEF ConsumerUnlocks
<1>. QED  BY <1>2, <1>3, <1>4, <1>5

\* The only step that takes a mutex away from a thread in its section, and it says so.
LEMMA InitialiseInv ==
  ASSUME HandOffInv, ~corrupted, Initialise
  PROVE  HandOffInv'
<1>. USE Threads3 DEF HandOffInv
<1>1. /\ pc \in [Threads -> Places] /\ pc' = [pc EXCEPT ![Consumer] = "out"]
      /\ mutex' = "free" /\ reset' = (\E p \in Pushers : Inside(p))
      /\ UNCHANGED <<timed, source, made, queue, batch, taken, done, corrupted>>
  BY DEF TypeOK, Initialise, GoesTo
<1>2. TypeOK'
  <2>1. pc' \in [Threads -> Places] /\ reset' \in BOOLEAN
    BY <1>1 DEF Places
  <2>. QED  BY <1>1, <2>1 DEF TypeOK, Unlocked
<1>3. HolderIsInside'
  <2>1. /\ \A p \in Pushers : Inside(p)' => Inside(p)
        /\ ~Inside(Consumer)'
    BY <1>1 DEF Inside, Sections
  <2>. QED  BY <2>1, <1>1 DEF HolderIsInside, Threads
<1>4. BrokenAtFirst' /\ SectionsOverlap'
  BY <1>1 DEF BrokenAtFirst, SectionsOverlap
<1>5. InHand' /\ EndOfQueue'
  BY <1>1 DEF InHand, InHandOf, EndOfQueue, EndOf, Pushed
<1>. QED  BY <1>2, <1>3, <1>4, <1>5

\* The batch is complete, and the thread leaves the queue to the others.
LEMMA PusherUnlocksInv ==
  ASSUME HandOffInv, NEW p \in Pushers, PusherUnlocks(p)
  PROVE  HandOffInv'
<1>. USE Threads3, BoundAssumption DEF HandOffInv
<1>. DEFINE place == IF p \in Signals THEN "signalling" ELSE "out"
<1>1. /\ pc \in [Threads -> Places] /\ pc[p] = "pushing" /\ source[p] = <<>>
      /\ pc' = [pc EXCEPT ![p] = place] /\ place \in {"signalling", "out"}
      /\ mutex' = (IF mutex = "broken" THEN mutex ELSE "free")
      /\ done' = [done EXCEPT ![p] = 0]
      /\ UNCHANGED <<timed, source, made, queue, batch, taken, reset, corrupted>>
  BY DEF PusherUnlocks, GoesTo, TypeOK, Released
<1>2. done \in [Pushers -> 0..MaxBatch]
  BY DEF TypeOK
<1>3. TypeOK'
  <2>1. pc' \in [Threads -> Places] /\ done' \in [Pushers -> 0..MaxBatch]
    BY <1>1, <1>2 DEF Places
  <2>. QED  BY <2>1, <1>1 DEF TypeOK, Unlocked
<1>4. HolderIsInside'
  BY <1>1 DEF HolderIsInside, Inside, Sections
<1>5. BrokenAtFirst' /\ SectionsOverlap'
  BY <1>1 DEF BrokenAtFirst, SectionsOverlap
<1>6. InHand'
  <2>. SUFFICES ASSUME NEW q \in Pushers PROVE InHandOf(q)'
    BY DEF InHand
  <2>1. CASE q = p
    <3>1. Len(source[p]) = 0 /\ made[p] \in Nat
      BY <1>1, TypesOf
    <3>. QED  BY <2>1, <3>1, <1>1, <1>2 DEF InHandOf
  <2>2. CASE q # p
    BY <2>2, <1>1, <1>2 DEF InHand, InHandOf, Pushed
  <2>. QED  BY <2>1, <2>2
<1>7. EndOfQueue'
  <2>. SUFFICES ASSUME ~corrupted', NEW q \in Pushers PROVE EndOf(q)'
    BY DEF EndOfQueue
  <2>1. CASE q = p
    <3>1. done'[q] = 0
      BY <2>1, <1>1, <1>2
    <3>. QED  BY <3>1, <1>3, NothingPushedLater
  <2>2. CASE q # p
    <3>1. /\ queue'[q] = queue[q] /\ done'[q] = done[q] /\ source'[q] = source[q]
          /\ made'[q] = made[q]
      BY <2>2, <1>1, <1>2
    <3>2. EndOf(q)
      BY <1>1 DEF EndOfQueue
    <3>. QED  BY ONLY <3>1, <3>2, SameItems, q \in Pushers
  <2>. QED  BY <2>1, <2>2
<1>. QED  BY <1>3, <1>4, <1>5, <1>6, <1>7

-----------------------------------------------------------------------------
\* Every step keeps the invariant.
LEMMA NextInv ==
  ASSUME HandOffInv, [Next]_vars
  PROVE  HandOffInv'
<1>1. ASSUME NEW p \in Pushers, Produce(p) PROVE HandOffInv'
  BY <1>1, ProduceInv
<1>2. ASSUME NEW p \in Pushers, PusherLocks(p) \/ ParkedLocks(p) PROVE HandOffInv'
  BY <1>2, LockInv, Threads3 DEF PusherLocks, ParkedLocks, Places, Sections
<1>3. ASSUME NEW p \in Pushers, PusherSteps(p) PROVE HandOffInv'
  BY <1>3, ParkInv, PushInv, PusherUnlocksInv, SignalInv DEF PusherSteps
<1>4. ASSUME ~corrupted, ConsumerSteps PROVE HandOffInv'
  BY <1>4, InitialiseInv, ConsumerSectionInv, TimeoutPollInv DEF ConsumerSteps
<1>5. CASE ConsumerWantsLock
  BY <1>5, LockInv, Threads3
     DEF ConsumerWantsLock, ConsumerLocks, LocksWhatItFound, WakesUp, Places, Sections
<1>6. CASE Poll
  BY <1>6, TimeoutPollInv
<1>7. CASE UNCHANGED vars
  BY <1>7 DEF vars, HandOffInv, TypeOK, HolderIsInside, BrokenAtFirst, SectionsOverlap,
              InHand, InHandOf, EndOfQueue, EndOf, Inside, Pushed
<1>. QED  BY <1>1, <1>2, <1>3, <1>4, <1>5, <1>6, <1>7 DEF Next

\* Types are kept, and a thread never pushes more in a section than it had ready, for any
\* number of threads (router.cpp:93-109, host.cpp:239-262).
THEOREM TypesAlways == Spec => []TypeOK
<1>1. HandOffInv => TypeOK
  BY DEF HandOffInv
<1>. QED  BY InitInv, NextInv, <1>1, PTL DEF Spec

\* For any number of threads, a pusher and the consumer are in their sections together
\* only after the consumer has initialised a mutex with a thread in its section
\* (runRouter.cpp:13), or where the sender's mutex is memory that cannot be locked
\* (host.h:43).
THEOREM SectionsOverlapAlways == Spec => []SectionsOverlap
<1>1. HandOffInv => SectionsOverlap
  BY DEF HandOffInv
<1>. QED  BY InitInv, NextInv, <1>1, PTL DEF Spec

-----------------------------------------------------------------------------
(* HandOff implements BatchQueue.                                          *)

\* The first items of a sequence.
LEMMA PrefixFacts ==
  ASSUME NEW S, NEW s \in Seq(S), NEW n \in 0..Len(s)
  PROVE  /\ SubSeq(s, 1, n) \in Seq(S)
         /\ Len(SubSeq(s, 1, n)) = n
         /\ \A i \in 1..n : SubSeq(s, 1, n)[i] = s[i]
<1>1. \A i \in 1..n : s[i] \in S
  OBVIOUS
<1>2. Len(SubSeq(s, 1, n)) = n
  BY <1>1, SubSeqProperties
<1>3. \A i \in 1..n : SubSeq(s, 1, n)[i] = s[1 + i - 1]
  BY <1>1, SubSeqProperties
<1>4. SubSeq(s, 1, n) \in Seq(S)
  BY <1>1, SubSeqProperties
<1>. QED  BY <1>2, <1>3, <1>4

LEMMA FunctionIsSequence ==
  ASSUME NEW S, NEW n \in Nat, NEW f \in [1..n -> S]
  PROVE  f \in Seq(S) /\ Len(f) = n
OBVIOUS

\* A queue without its last n items, behind what the consumer has popped.
Rest(b, s, n) == SubSeq(b \o s, 1, Len(b) + Len(s) - n)

LEMMA RestFacts ==
  ASSUME NEW b \in Seq(Nat), NEW s \in Seq(Nat), NEW n \in 0..Len(s)
  PROVE  /\ Rest(b, s, n) \in Seq(Nat)
         /\ Len(Rest(b, s, n)) = Len(b) + Len(s) - n
         /\ \A i \in 1..(Len(b) + Len(s) - n) :
              Rest(b, s, n)[i] = IF i <= Len(b) THEN b[i] ELSE s[i - Len(b)]
         /\ Len(b) + Len(s) - n \in Nat
<1>. DEFINE m == Len(b) + Len(s) - n
<1>1. /\ b \o s \in Seq(Nat) /\ Len(b \o s) = Len(b) + Len(s)
      /\ \A i \in 1..Len(b) + Len(s) : (b \o s)[i] = IF i <= Len(b) THEN b[i] ELSE s[i - Len(b)]
  BY ConcatProperties
<1>2. m \in 0..Len(b \o s) /\ m \in Nat
  BY <1>1
<1>3. /\ SubSeq(b \o s, 1, m) \in Seq(Nat) /\ Len(SubSeq(b \o s, 1, m)) = m
      /\ \A i \in 1..m : SubSeq(b \o s, 1, m)[i] = (b \o s)[i]
  BY <1>1, <1>2, PrefixFacts
<1>4. \A i \in 1..m : i \in 1..(Len(b) + Len(s))
  BY <1>1, <1>2
<1>. QED  BY <1>1, <1>2, <1>3, <1>4 DEF Rest

\* One more item at the end of the queue and one more to leave out.
LEMMA RestAppend ==
  ASSUME NEW b \in Seq(Nat), NEW s \in Seq(Nat), NEW n \in 0..Len(s), NEW x \in Nat
  PROVE  Rest(b, Append(s, x), n + 1) = Rest(b, s, n)
<1>. DEFINE t == Append(s, x)
            m == Len(b) + Len(s) - n
<1>1. t \in Seq(Nat) /\ Len(t) = Len(s) + 1 /\ \A i \in 1..Len(s) : t[i] = s[i]
  BY AppendFacts
<1>. HIDE DEF t
<1>2. n + 1 \in 0..Len(t) /\ Len(b) + Len(t) - (n + 1) = m /\ m \in Nat
  BY <1>1
<1>3. /\ Rest(b, t, n + 1) \in Seq(Nat) /\ Len(Rest(b, t, n + 1)) = m
      /\ \A i \in 1..m : Rest(b, t, n + 1)[i] = IF i <= Len(b) THEN b[i] ELSE t[i - Len(b)]
  <2>. HIDE DEF m
  <2>1. /\ Rest(b, t, n + 1) \in Seq(Nat)
        /\ Len(Rest(b, t, n + 1)) = Len(b) + Len(t) - (n + 1)
        /\ \A i \in 1..(Len(b) + Len(t) - (n + 1)) :
             Rest(b, t, n + 1)[i] = IF i <= Len(b) THEN b[i] ELSE t[i - Len(b)]
    BY <1>1, <1>2, RestFacts
  <2>. QED  BY <2>1, <1>2
<1>4. /\ Rest(b, s, n) \in Seq(Nat) /\ Len(Rest(b, s, n)) = m
      /\ \A i \in 1..m : Rest(b, s, n)[i] = IF i <= Len(b) THEN b[i] ELSE s[i - Len(b)]
  BY RestFacts
<1>5. ASSUME NEW i \in 1..m PROVE Rest(b, t, n + 1)[i] = Rest(b, s, n)[i]
  <2>1. ~(i <= Len(b)) => i - Len(b) \in 1..Len(s)
    BY <1>2
  <2>. HIDE DEF m
  <2>. QED  BY <2>1, <1>1, <1>3, <1>4
<1>6. Rest(b, t, n + 1) = Rest(b, s, n)
  <2>. HIDE DEF m
  <2>. QED  BY <1>3, <1>4, <1>5, SeqEqual
<1>. QED  BY <1>6 DEF t

\* Nothing more to leave out: what was left out comes at the end.
LEMMA RestAll ==
  ASSUME NEW b \in Seq(Nat), NEW s \in Seq(Nat), NEW k \in 0..Len(s), NEW put \in Seq(Nat),
         Len(put) = k, \A i \in 1..k : put[i] = s[Len(s) - k + i]
  PROVE  Rest(b, s, 0) = Rest(b, s, k) \o put
<1>. DEFINE m == Len(b) + Len(s) - k
            n == Len(b) + Len(s)
            r == Rest(b, s, k)
            w == Rest(b, s, 0)
<1>1. m \in Nat /\ n \in Nat /\ n = m + k /\ Len(b) \in Nat /\ Len(s) \in Nat /\ k \in Nat
  OBVIOUS
<1>2. /\ r \in Seq(Nat) /\ Len(r) = m
      /\ \A i \in 1..m : r[i] = IF i <= Len(b) THEN b[i] ELSE s[i - Len(b)]
  BY RestFacts
<1>3. /\ w \in Seq(Nat) /\ Len(w) = n
      /\ \A i \in 1..n : w[i] = IF i <= Len(b) THEN b[i] ELSE s[i - Len(b)]
  <2>1. 0 \in 0..Len(s) /\ Len(b) + Len(s) - 0 = n
    OBVIOUS
  <2>2. /\ w \in Seq(Nat) /\ Len(w) = Len(b) + Len(s) - 0
        /\ \A i \in 1..(Len(b) + Len(s) - 0) : w[i] = IF i <= Len(b) THEN b[i] ELSE s[i - Len(b)]
    BY ONLY <2>1, b \in Seq(Nat), s \in Seq(Nat), RestFacts
  <2>. HIDE DEF n, w
  <2>. QED  BY ONLY <2>1, <2>2
<1>. HIDE DEF r, w
<1>4. /\ r \o put \in Seq(Nat) /\ Len(r \o put) = n
      /\ \A i \in 1..n : (r \o put)[i] = IF i <= m THEN r[i] ELSE put[i - m]
  <2>. HIDE DEF m, n
  <2>1. /\ r \o put \in Seq(Nat) /\ Len(r \o put) = Len(r) + Len(put)
        /\ \A i \in 1..Len(r) + Len(put) :
             (r \o put)[i] = IF i <= Len(r) THEN r[i] ELSE put[i - Len(r)]
    BY <1>2, ConcatProperties
  <2>. QED  BY <2>1, <1>1, <1>2
<1>5. ASSUME NEW i \in 1..n PROVE w[i] = (r \o put)[i]
  <2>1. CASE i <= m
    <3>1. i \in 1..m
      BY <2>1, <1>1
    <3>. QED  BY <3>1, <2>1, <1>2, <1>3, <1>4
  <2>2. CASE ~(i <= m)
    <3>1. i \in Nat /\ i > m /\ i <= m + k
      BY <2>2, <1>1
    <3>2. i - m \in 1..k
      <4>. HIDE DEF m
      <4>. QED  BY <3>1, <1>1
    <3>3. ~(i <= Len(b)) /\ Len(s) - k + (i - m) = i - Len(b)
      BY <3>1, <1>1
    <3>4. (r \o put)[i] = put[i - m]
      BY <2>2, <1>4
    <3>5. put[i - m] = s[Len(s) - k + (i - m)]
      BY <3>2
    <3>6. w[i] = s[i - Len(b)]
      BY <3>3, <1>3
    <3>. QED  BY <3>3, <3>4, <3>5, <3>6
  <2>. QED  BY <2>1, <2>2
<1>6. w = r \o put
  <2>. HIDE DEF m, n
  <2>. QED  BY <1>3, <1>4, <1>5, SeqEqual
<1>. QED  BY <1>6 DEF r, w

\* An item that goes from the front of the queue to the end of the batch.
LEMMA RestPop ==
  ASSUME NEW b \in Seq(Nat), NEW s \in Seq(Nat), s # <<>>
  PROVE  Rest(Append(b, Head(s)), Tail(s), 0) = Rest(b, s, 0)
<1>. DEFINE c == Append(b, Head(s))
            n == Len(b) + Len(s)
<1>1. /\ Head(s) \in Nat /\ Head(s) = s[1]
      /\ Len(s) \in Nat /\ Len(s) > 0 /\ Tail(s) \in Seq(Nat)
      /\ Len(Tail(s)) = Len(s) - 1
      /\ \A i \in 1..Len(Tail(s)) : Tail(s)[i] = s[i + 1]
  BY TailFacts
<1>2. /\ c \in Seq(Nat) /\ Len(c) = Len(b) + 1 /\ Len(b) \in Nat
      /\ \A i \in 1..Len(b) : c[i] = b[i]
      /\ c[Len(b) + 1] = Head(s)
  BY <1>1, AppendFacts
<1>. HIDE DEF c
<1>3. /\ Rest(b, s, 0) \in Seq(Nat) /\ Len(Rest(b, s, 0)) = n
      /\ \A i \in 1..n : Rest(b, s, 0)[i] = IF i <= Len(b) THEN b[i] ELSE s[i - Len(b)]
  <2>1. 0 \in 0..Len(s) /\ Len(b) + Len(s) - 0 = n
    BY <1>1, <1>2
  <2>. QED  BY <2>1, RestFacts
<1>4. /\ Rest(c, Tail(s), 0) \in Seq(Nat) /\ Len(Rest(c, Tail(s), 0)) = n
      /\ \A i \in 1..n : Rest(c, Tail(s), 0)[i]
           = IF i <= Len(b) + 1 THEN c[i] ELSE Tail(s)[i - (Len(b) + 1)]
  <2>1. 0 \in 0..Len(Tail(s)) /\ Len(c) + Len(Tail(s)) - 0 = n
    BY <1>1, <1>2
  <2>. HIDE DEF n
  <2>2. /\ Rest(c, Tail(s), 0) \in Seq(Nat)
        /\ Len(Rest(c, Tail(s), 0)) = Len(c) + Len(Tail(s)) - 0
        /\ \A i \in 1..(Len(c) + Len(Tail(s)) - 0) : Rest(c, Tail(s), 0)[i]
             = IF i <= Len(c) THEN c[i] ELSE Tail(s)[i - Len(c)]
    BY <2>1, <1>1, <1>2, RestFacts
  <2>. QED  BY <2>1, <2>2, <1>2
<1>5. ASSUME NEW i \in 1..n PROVE Rest(c, Tail(s), 0)[i] = Rest(b, s, 0)[i]
  <2>1. CASE i <= Len(b)
    BY <2>1, <1>1, <1>2, <1>3, <1>4
  <2>2. CASE i = Len(b) + 1
    <3>1. i - Len(b) = 1 /\ ~(i <= Len(b)) /\ i <= Len(b) + 1
      BY <2>2, <1>2
    <3>. QED  BY <3>1, <2>2, <1>1, <1>2, <1>3, <1>4
  <2>3. CASE i > Len(b) + 1
    <3>1. /\ ~(i <= Len(b)) /\ ~(i <= Len(b) + 1)
          /\ i - (Len(b) + 1) \in 1..Len(Tail(s))
          /\ (i - (Len(b) + 1)) + 1 = i - Len(b)
      BY <2>3, <1>1, <1>2
    <3>. QED  BY <3>1, <1>1, <1>3, <1>4
  <2>. QED  BY <2>1, <2>2, <2>3, <1>2
<1>6. Rest(c, Tail(s), 0) = Rest(b, s, 0)
  <2>. HIDE DEF n
  <2>. QED  BY <1>3, <1>4, <1>5, SeqEqual
<1>. QED  BY <1>6 DEF c

\* At the start nothing is in the queues.
LEMMA RefinementInit == Init => Batches!Init
<1>. SUFFICES ASSUME Init PROVE Batches!Init
  OBVIOUS
<1>1. Completed = [p \in Pushers |-> 0]
  BY DEF Init, Completed, Pushed, Nothing
<1>2. ASSUME NEW p \in Pushers
      PROVE  SubSeq(batch[p] \o queue[p], 1, Len(batch[p]) + Len(queue[p]) - done[p]) = <<>>
  <2>1. batch[p] = <<>> /\ queue[p] = <<>> /\ done[p] = 0
    BY DEF Init, Nothing
  <2>2. batch[p] \o queue[p] = <<>> /\ Len(batch[p]) + Len(queue[p]) - done[p] = 0
    BY <2>1
  <2>. QED  BY <2>2, SubSeqEmpty
<1>3. Waiting = [p \in Pushers |-> <<>>]
  BY <1>2 DEF Waiting
<1>. QED  BY <1>1, <1>3 DEF Init, Batches!Init, Nothing

\* Getting something ready, waiting and locking are nobody else's business.
LEMMA ProduceStutters ==
  ASSUME HandOffInv, NEW p \in Pushers, Produce(p)
  PROVE  UNCHANGED Batches!batchVars
<1>1. PICK k \in 0..MaxBatch :
        /\ source' = [source EXCEPT ![p] = [i \in 1..k |-> made[p] + i]]
        /\ made' = [made EXCEPT ![p] = @ + k]
  BY DEF Produce
<1>2. source[p] = <<>> /\ UNCHANGED <<queue, batch, taken, done>>
  BY DEF Produce, HandOffInv, InHand, InHandOf
<1>3. made[p] \in Nat /\ k \in Nat
      /\ made \in [Pushers -> 0..MaxItems] /\ source \in [Pushers -> Seq(Nat)]
  BY BoundAssumption, TypesOf DEF HandOffInv, TypeOK, Queues
<1>4. Len([i \in 1..k |-> made[p] + i]) = k /\ Len(source[p]) = 0
  BY <1>2, <1>3
<1>5. \A q \in Pushers : Pushed(q)' = Pushed(q)
  <2>1. Pushed(p)' = Pushed(p)
    BY <1>1, <1>3, <1>4 DEF Pushed
  <2>2. \A q \in Pushers \ {p} : Pushed(q)' = Pushed(q)
    BY <1>1, <1>3 DEF Pushed
  <2>. QED  BY <2>1, <2>2
<1>. QED  BY <1>2, <1>5 DEF Batches!batchVars, Completed, Waiting

\* An item on its way into the queue is not there yet for anybody else.
LEMMA PushStutters ==
  ASSUME HandOffInv, ~corrupted', NEW p \in Pushers, Push(p)
  PROVE  UNCHANGED Batches!batchVars
<1>1. /\ queue' = [queue EXCEPT ![p] = Append(@, Head(source[p]))] /\ ~corrupted
      /\ source' = [source EXCEPT ![p] = Tail(@)] /\ source[p] # <<>>
      /\ done' = [done EXCEPT ![p] = @ + 1] /\ UNCHANGED <<made, batch, taken>>
  BY DEF Push
<1>2. /\ done \in [Pushers -> 0..MaxBatch] /\ source \in [Pushers -> Seq(Nat)]
      /\ queue \in [Pushers -> Seq(Nat)]
  BY DEF HandOffInv, TypeOK, Queues
<1>3. /\ source[p] \in Seq(Nat) /\ queue[p] \in Seq(Nat) /\ batch[p] \in Seq(Nat)
      /\ done[p] \in Nat /\ made[p] \in Nat
  BY TypesOf DEF HandOffInv
<1>4. Head(source[p]) \in Nat /\ Len(Tail(source[p])) = Len(source[p]) - 1
      /\ Len(source[p]) \in Nat
  BY <1>1, <1>3, TailFacts
<1>5. /\ queue'[p] = Append(queue[p], Head(source[p])) /\ source'[p] = Tail(source[p])
      /\ done'[p] = done[p] + 1
  BY <1>1, <1>2
<1>6. \A q \in Pushers \ {p} :
        queue'[q] = queue[q] /\ source'[q] = source[q] /\ done'[q] = done[q]
  BY <1>1, <1>2
<1>7. Completed' = Completed
  <2>1. (made[p] - Len(Tail(source[p]))) - (done[p] + 1) = (made[p] - Len(source[p])) - done[p]
    <3>1. made[p] \in Nat /\ Len(source[p]) \in Nat /\ done[p] \in Nat
      BY <1>3, <1>4
    <3>2. Len(Tail(source[p])) = Len(source[p]) - 1
      BY <1>4
    <3>. QED  BY ONLY <3>1, <3>2
  <2>2. \A q \in Pushers : (Pushed(q) - done[q])' = Pushed(q) - done[q]
    BY <2>1, <1>1, <1>5, <1>6 DEF Pushed
  <2>. QED  BY <2>2 DEF Completed
<1>8. Rest(batch[p], Append(queue[p], Head(source[p])), done[p] + 1)
        = Rest(batch[p], queue[p], done[p])
  <2>1. done[p] \in 0..Len(queue[p])
    BY <1>1, <1>3 DEF HandOffInv, EndOfQueue, EndOf
  <2>. QED  BY <2>1, <1>3, <1>4, RestAppend
<1>9. \A q \in Pushers : Rest(batch'[q], queue'[q], done'[q]) = Rest(batch[q], queue[q], done[q])
  BY <1>1, <1>5, <1>6, <1>8
<1>10. Waiting' = Waiting
  BY <1>9 DEF Waiting, Rest
<1>. QED  BY <1>1, <1>7, <1>10 DEF Batches!batchVars

\* When a thread unlocks, all it has pushed goes in at once.
LEMMA PusherUnlocksPuts ==
  ASSUME HandOffInv, ~corrupted, NEW p \in Pushers, PusherUnlocks(p)
  PROVE  Batches!Put(p) \/ UNCHANGED Batches!batchVars
<1>1. /\ done' = [done EXCEPT ![p] = 0]
      /\ UNCHANGED <<source, made, queue, batch, taken>>
  BY DEF PusherUnlocks
<1>2. /\ done \in [Pushers -> 0..MaxBatch]
      /\ queue[p] \in Seq(Nat) /\ batch[p] \in Seq(Nat)
      /\ done[p] \in Nat /\ done[p] <= MaxBatch /\ MaxBatch \in Nat
      /\ Pushed(p) \in Int /\ Len(queue[p]) \in Nat
  BY TypesOf DEF HandOffInv, TypeOK
<1>3. CASE done[p] = 0
  <2>1. done' = done
    BY <1>1, <1>2, <1>3
  <2>. QED  BY <2>1, <1>1 DEF Batches!batchVars, Completed, Pushed, Waiting
<1>4. CASE done[p] # 0
  <2>. DEFINE k == done[p]
              put == [i \in 1..k |-> Completed[p] + i]
  <2>1. k \in 1..MaxBatch
    BY <1>2, <1>4
  <2>2. /\ k <= Len(queue[p])
        /\ \A i \in 1..k : queue[p][Len(queue[p]) - k + i] = Pushed(p) - k + i
    BY DEF HandOffInv, EndOfQueue, EndOf
  <2>3. put \in Seq(Nat) /\ Len(put) = k
        /\ \A i \in 1..k : put[i] = queue[p][Len(queue[p]) - k + i]
    <3>1. \A i \in 1..k : put[i] = Pushed(p) - k + i
      BY DEF Completed
    <3>2. \A i \in 1..k : put[i] = queue[p][Len(queue[p]) - k + i]
      BY <3>1, <2>2
    <3>3. ASSUME NEW i \in 1..k PROVE Len(queue[p]) - k + i \in 1..Len(queue[p])
      <4>1. Len(queue[p]) \in Nat /\ done[p] \in Nat /\ done[p] <= Len(queue[p])
        BY <2>2, <1>2
      <4>. QED  BY ONLY <4>1, i \in 1..done[p]
    <3>4. \A i \in 1..k : put[i] \in Nat
      <4>1. \A j \in 1..Len(queue[p]) : queue[p][j] \in Nat
        BY <1>2
      <4>. HIDE DEF put, k
      <4>. QED  BY ONLY <3>2, <3>3, <4>1
    <3>5. put \in [1..k -> Nat] /\ k \in Nat
      BY <3>4, <1>2
    <3>. HIDE DEF put
    <3>. QED  BY <3>2, <3>5, FunctionIsSequence
  <2>. HIDE DEF put
  <2>4. Rest(batch[p], queue[p], 0) = Rest(batch[p], queue[p], k) \o put
    <3>1. k \in 0..Len(queue[p])
      BY <2>2, <1>2
    <3>. QED  BY <3>1, <2>3, <1>2, RestAll
  <2>5. Waiting' = [Waiting EXCEPT ![p] = @ \o put]
    <3>1. \A q \in Pushers : Rest(batch'[q], queue'[q], done'[q])
            = IF q = p THEN Rest(batch[p], queue[p], k) \o put ELSE Rest(batch[q], queue[q], done[q])
      BY <2>4, <1>1, <1>2
    <3>2. Waiting = [q \in Pushers |-> Rest(batch[q], queue[q], done[q])]
      BY DEF Waiting, Rest
    <3>3. Waiting' = [q \in Pushers |-> Rest(batch'[q], queue'[q], done'[q])]
      BY DEF Waiting, Rest
    <3>. QED  BY ONLY <3>1, <3>2, <3>3
  <2>6. Completed' = [Completed EXCEPT ![p] = @ + k]
    <3>1. \A q \in Pushers : (Pushed(q) - done[q])'
                               = IF q = p THEN Pushed(p) - done[p] + k ELSE Pushed(q) - done[q]
      <4>1. (Pushed(p) - done[p])' = Pushed(p) - done[p] + k
        <5>1. done'[p] = 0 /\ Pushed(p)' = Pushed(p)
          BY <1>1, <1>2 DEF Pushed
        <5>2. Pushed(p) - 0 = Pushed(p) - done[p] + done[p]
          BY <1>2
        <5>. QED  BY <5>1, <5>2
      <4>2. \A q \in Pushers \ {p} : (Pushed(q) - done[q])' = Pushed(q) - done[q]
        BY <1>1, <1>2 DEF Pushed
      <4>. QED  BY <4>1, <4>2
    <3>. QED  BY <3>1 DEF Completed
  <2>. QED  BY <2>1, <2>5, <2>6, <1>1 DEF Batches!Put, put
<1>. QED  BY <1>3, <1>4

\* What is popped is still waiting for anybody who cannot look inside the section.
LEMMA PopStutters ==
  ASSUME HandOffInv, ~corrupted', NEW p \in Pushers, Pop(p)
  PROVE  UNCHANGED Batches!batchVars
<1>1. /\ queue[p] # <<>> /\ queue' = [queue EXCEPT ![p] = Tail(@)]
      /\ batch' = [batch EXCEPT ![p] = Append(@, Head(queue[p]))]
      /\ Inside(Consumer) /\ ~Together
      /\ UNCHANGED <<source, made, taken, done>>
  BY DEF Pop, Inside, Sections
<1>2. /\ queue \in [Pushers -> Seq(Nat)] /\ batch \in [Pushers -> Seq(Nat)]
      /\ queue[p] \in Seq(Nat) /\ batch[p] \in Seq(Nat)
  BY DEF HandOffInv, TypeOK, Queues
<1>3. done[p] = 0
  BY <1>1, NothingUnfinished DEF HandOffInv
<1>4. Rest(Append(batch[p], Head(queue[p])), Tail(queue[p]), 0) = Rest(batch[p], queue[p], 0)
  BY <1>1, <1>2, RestPop
<1>5. \A q \in Pushers : Rest(batch'[q], queue'[q], done'[q]) = Rest(batch[q], queue[q], done[q])
  BY <1>1, <1>2, <1>3, <1>4
<1>6. Waiting' = Waiting
  BY <1>5 DEF Waiting, Rest
<1>7. Completed' = Completed
  BY <1>1 DEF Completed, Pushed
<1>. QED  BY <1>1, <1>6, <1>7 DEF Batches!batchVars

\* When the consumer unlocks, it has taken everything.
LEMMA ConsumerUnlocksTakes ==
  ASSUME HandOffInv, ~corrupted', ConsumerUnlocks
  PROVE  Batches!TakeAll \/ UNCHANGED Batches!batchVars
<1>1. /\ queue = Nothing /\ batch' = Nothing
      /\ taken' = [p \in Pushers |-> taken[p] \o batch[p]]
      /\ Inside(Consumer) /\ ~Together
      /\ UNCHANGED <<source, made, queue, done>>
  BY DEF ConsumerUnlocks, Inside, Sections, Empty
<1>2. batch \in [Pushers -> Seq(Nat)] /\ taken \in [Pushers -> Seq(Nat)]
  BY DEF HandOffInv, TypeOK, Queues
<1>3. \A p \in Pushers : done[p] = 0
  BY <1>1, NothingUnfinished DEF HandOffInv
<1>4. ASSUME NEW p \in Pushers, NEW s \in Seq(Nat)
      PROVE  SubSeq(s \o queue[p], 1, Len(s) + Len(queue[p]) - done[p]) = s
  <2>1. queue[p] = <<>> /\ done[p] = 0
    BY <1>1, <1>3 DEF Nothing
  <2>2. s \o queue[p] = s /\ Len(s) + Len(queue[p]) - done[p] = Len(s)
    BY <2>1, ConcatEmptySeq
  <2>. QED  BY <2>2, SubSeqFull
<1>5. Waiting = batch
  <2>1. \A p \in Pushers :
          SubSeq(batch[p] \o queue[p], 1, Len(batch[p]) + Len(queue[p]) - done[p]) = batch[p]
    BY <1>2, <1>4
  <2>. QED  BY <2>1, <1>2 DEF Waiting
<1>6. Waiting' = [p \in Pushers |-> <<>>]
  <2>1. ASSUME NEW p \in Pushers
        PROVE  SubSeq(batch'[p] \o queue'[p], 1, Len(batch'[p]) + Len(queue'[p]) - done'[p]) = <<>>
    <3>1. batch'[p] = <<>> /\ <<>> \in Seq(Nat)
      BY <1>1 DEF Nothing
    <3>2. SubSeq(<<>> \o queue[p], 1, Len(<<>>) + Len(queue[p]) - done[p]) = <<>>
      BY <3>1, <1>4
    <3>. QED  BY <3>1, <3>2, <1>1
  <2>. QED  BY <2>1 DEF Waiting
<1>7. Completed' = Completed
  BY <1>1 DEF Completed, Pushed
<1>8. CASE \A p \in Pushers : batch[p] = <<>>
  <2>1. \A p \in Pushers : taken[p] \o batch[p] = taken[p]
    BY <1>2, <1>8, ConcatEmptySeq
  <2>2. taken' = taken
    BY <2>1, <1>1, <1>2
  <2>3. Waiting' = Waiting
    BY <1>2, <1>5, <1>6, <1>8
  <2>. QED  BY <2>2, <2>3, <1>7 DEF Batches!batchVars
<1>9. CASE \E p \in Pushers : batch[p] # <<>>
  BY <1>1, <1>5, <1>6, <1>7, <1>9 DEF Batches!TakeAll
<1>. QED  BY <1>8, <1>9

\* Every step is a batch put in, everything taken out, or nothing the queue promises about.
LEMMA RefinementNext ==
  ASSUME HandOffInv, [Next]_vars
  PROVE  [Batches!Next \/ corrupted']_(Batches!batchVars)
<1>. SUFFICES ASSUME ~corrupted' PROVE Batches!Next \/ UNCHANGED Batches!batchVars
  OBVIOUS
<1>1. CASE UNCHANGED <<source, made, queue, batch, taken, done>>
  BY <1>1 DEF Batches!batchVars, Completed, Pushed, Waiting
<1>2. ASSUME NEW p \in Pushers, Produce(p) PROVE UNCHANGED Batches!batchVars
  BY <1>2, ProduceStutters
<1>3. ASSUME NEW p \in Pushers, Push(p) PROVE UNCHANGED Batches!batchVars
  BY <1>3, PushStutters
<1>4. ASSUME ~corrupted, NEW p \in Pushers, PusherUnlocks(p)
      PROVE  Batches!Next \/ UNCHANGED Batches!batchVars
  BY <1>4, PusherUnlocksPuts DEF Batches!Next
<1>5. ASSUME NEW p \in Pushers, Pop(p) PROVE UNCHANGED Batches!batchVars
  BY <1>5, PopStutters
<1>6. CASE ConsumerUnlocks
  BY <1>6, ConsumerUnlocksTakes DEF Batches!Next
<1>7. ASSUME NEW p \in Pushers, PusherLocks(p) \/ ParkedLocks(p) \/ Park(p) \/ Signal(p)
      PROVE  UNCHANGED <<source, made, queue, batch, taken, done>>
  BY <1>7 DEF PusherLocks, ParkedLocks, Lock, Park, Signal
<1>8. ASSUME Initialise \/ Wait \/ NeedNotWait \/ Timeout \/ Poll \/ ConsumerWantsLock
      PROVE  UNCHANGED <<source, made, queue, batch, taken, done>>
  BY <1>8 DEF Initialise, Wait, NeedNotWait, Timeout, Poll, ConsumerWantsLock, ConsumerLocks,
              LocksWhatItFound, WakesUp, Lock
<1>9. CASE UNCHANGED vars
  BY <1>1, <1>9 DEF vars
<1>10. CASE Next
  BY <1>1, <1>2, <1>3, <1>4, <1>5, <1>6, <1>7, <1>8, <1>10
     DEF Next, PusherSteps, ConsumerSteps
<1>. QED  BY <1>9, <1>10

\* For any number of threads, batches and items, the locked sections around the queues are
\* one step each: all or nothing of a batch is seen, in order, and all of it is taken,
\* as long as no sections have overlapped (router.cpp:93-109, runRouter.cpp:34-79), and
\* although the sender looks at its queue without the lock (host.cpp:514).
THEOREM ImplementsBatchQueueAlways == Spec => ImplementsBatchQueue
<1>. DEFINE Step == [Batches!Next \/ corrupted']_(Batches!batchVars)
<1>1. HandOffInv /\ [Next]_vars => Step
  BY RefinementNext
<1>. HIDE DEF Step
<1>2. Spec => Batches!Init /\ [][Step]_(Batches!batchVars)
  BY <1>1, InitInv, NextInv, RefinementInit, PTL DEF Spec
<1>. QED  BY <1>2, PTL DEF ImplementsBatchQueue, Step

=============================================================================
