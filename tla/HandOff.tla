------------------------------ MODULE HandOff ------------------------------
(***************************************************************************)
(* The queues under one mutex: the input queues of a router, the input     *)
(* queue of a host, or the queue of typed messages.  Their consumer is the *)
(* thread of runRouter, runReceiver or runSender.  Each queue has one      *)
(* thread that pushes to it, in sendThread (router.cpp),                   *)
(* sendMessageToRouter (host.cpp) or main.cpp: the queues of a router are  *)
(* one per interface, and a router joins its sendThreads before it starts  *)
(* them again.  The other modules take each locked section for one step:   *)
(* this one takes the sections apart.                                      *)
(*                                                                         *)
(* The consumer initialises the mutex itself, after other threads may have *)
(* been started; the memory of an object holds anything before that.  The  *)
(* sender's m_input_queue_mutex is never initialised, and its consumer     *)
(* polls the queue, without the mutex, instead of waiting for a signal.    *)
(***************************************************************************)
EXTENDS Naturals, Sequences

CONSTANTS Pushers,       \* threads that push, each to its own queue
          Consumer,      \* the thread that drains the queues
          Signals,       \* the pushers in sendThread or main, the others are hosts
          MaxBatch,      \* bound: items pushed in one locked section
          MaxItems       \* bound: items a thread pushes in all

\* What the memory of a mutex nobody has locked can say: a mutex that is free; one that
\* somebody seems to hold; one that pthread_mutex_lock refuses with an error.
Unlocked == {"free", "garbage", "broken"}

ASSUME ConsumerAssumption == Consumer \notin Pushers
ASSUME NamesAssumption == Unlocked \cap (Pushers \cup {Consumer}) = {}
ASSUME SignalsAssumption == Signals \subseteq Pushers
ASSUME BoundAssumption == MaxBatch \in Nat /\ MaxItems \in Nat

VARIABLES
  timed,        \* FALSE for the sender's input queue: no init, no timed wait
  mutex,        \* the thread that locked it, or one of Unlocked
  pc,           \* where each thread is
  source,       \* the items a pusher has ready, its own output queue
  made,         \* bound: how many items a pusher has made so far
  queue,        \* the shared queue each pusher pushes to
  batch,        \* what the consumer has popped from it in this section
  taken,        \* history: what it popped in earlier sections
  done,         \* history: how many items a pusher has pushed in this section
  reset,        \* history: was the mutex initialised with a thread in its section?
  corrupted     \* a pusher and the consumer have been in their sections together

vars == <<timed, mutex, pc, source, made, queue, batch, taken, done, reset, corrupted>>

Threads == Pushers \cup {Consumer}
Nothing == [p \in Pushers |-> <<>>]

Init ==
  /\ timed \in BOOLEAN
  /\ mutex \in Unlocked
  /\ pc = [t \in Threads |-> IF t = Consumer /\ timed THEN "start" ELSE "out"]
  /\ source = Nothing /\ made = [p \in Pushers |-> 0]
  /\ queue = Nothing /\ batch = Nothing /\ taken = Nothing
  /\ done = [p \in Pushers |-> 0]
  /\ reset = FALSE /\ corrupted = FALSE

\* The sections in which a thread means to have the queues for itself.  Two pushers do
\* not disturb each other, their queues are different.
Sections == {"pushing", "checking", "draining"}
Inside(t) == pc[t] \in Sections
Together == Inside(Consumer) /\ \E p \in Pushers : Inside(p)

GoesTo(t, place) == pc' = [pc EXCEPT ![t] = place]

\* Mutant: the lock is not waited for.
FreeForAny == mutex # "garbage"
Free == mutex \in {"free", "broken"}

\* Nobody looks at what pthread_mutex_lock and pthread_mutex_unlock return: a thread goes
\* on, with the mutex or without.
TakenBy(t) == mutex' = IF mutex = "broken" THEN mutex ELSE t
Released == mutex' = IF mutex = "broken" THEN mutex ELSE "free"

Lock(t, from, to) ==
  /\ pc[t] = from /\ Free
  /\ TakenBy(t)
  /\ GoesTo(t, to)
  /\ UNCHANGED <<timed, source, made, queue, batch, taken, done, reset, corrupted>>

-----------------------------------------------------------------------------
(* The threads that push.                                                  *)

\* The hosts lock the queue whether or not they have anything to push; sendThread is
\* started, and main asks for the lock, only with something in hand.  What a router has
\* for the sender goes through a sendThread.
Produce(p) ==
  /\ pc[p] = "out" /\ (p \in Signals \/ timed)
  /\ \E k \in 0..MaxBatch :
       /\ made[p] + k <= MaxItems /\ (p \in Signals => k > 0)
       /\ source' = [source EXCEPT ![p] = [i \in 1..k |-> made[p] + i]]
       /\ made' = [made EXCEPT ![p] = @ + k]
  /\ GoesTo(p, "locking")
  /\ UNCHANGED <<timed, mutex, queue, batch, taken, done, reset, corrupted>>

\* A thread that meets garbage sleeps in the kernel; the initialisation wakes nobody.
Park(p) ==
  /\ pc[p] = "locking" /\ mutex = "garbage"
  /\ GoesTo(p, "parked")
  /\ UNCHANGED <<timed, mutex, source, made, queue, batch, taken, done, reset, corrupted>>

PusherLocks(p) == Lock(p, "locking", "pushing")
ParkedLocks(p) == Lock(p, "parked", "pushing")

\* Mutant: the item stays in the thread's own queue.
PushKeeping(p) ==
  /\ pc[p] = "pushing" /\ source[p] # <<>>
  /\ queue' = [queue EXCEPT ![p] = Append(@, Head(source[p]))]
  /\ done' = [done EXCEPT ![p] = @ + 1]
  /\ corrupted' = (corrupted \/ Together)
  /\ UNCHANGED <<timed, mutex, pc, source, made, batch, taken, reset>>

\* Mutant: the newest item is pushed first.
PushNewest(p) ==
  /\ pc[p] = "pushing" /\ source[p] # <<>>
  /\ queue' = [queue EXCEPT ![p] = Append(@, source[p][Len(source[p])])]
  /\ source' = [source EXCEPT ![p] = SubSeq(@, 1, Len(@) - 1)]
  /\ done' = [done EXCEPT ![p] = @ + 1]
  /\ corrupted' = (corrupted \/ Together)
  /\ UNCHANGED <<timed, mutex, pc, made, batch, taken, reset>>

Push(p) ==
  /\ pc[p] = "pushing" /\ source[p] # <<>>
  /\ queue' = [queue EXCEPT ![p] = Append(@, Head(source[p]))]
  /\ source' = [source EXCEPT ![p] = Tail(@)]
  /\ done' = [done EXCEPT ![p] = @ + 1]
  /\ corrupted' = (corrupted \/ Together)
  /\ UNCHANGED <<timed, mutex, pc, made, batch, taken, reset>>

PusherUnlocks(p) ==
  /\ pc[p] = "pushing" /\ source[p] = <<>>
  /\ Released
  /\ done' = [done EXCEPT ![p] = 0]
  /\ GoesTo(p, IF p \in Signals THEN "signalling" ELSE "out")
  /\ UNCHANGED <<timed, source, made, queue, batch, taken, reset, corrupted>>

\* A signal that finds nobody asleep is lost.
Signal(p) ==
  /\ pc[p] = "signalling"
  /\ pc' = [t \in Threads |-> IF t = p THEN "out"
                              ELSE IF t = Consumer /\ pc[t] = "asleep" THEN "waking"
                              ELSE pc[t]]
  /\ UNCHANGED <<timed, mutex, source, made, queue, batch, taken, done, reset, corrupted>>

-----------------------------------------------------------------------------
(* The consumer.                                                           *)

Initialise ==
  /\ pc[Consumer] = "start"
  /\ mutex' = "free"
  /\ reset' = \E p \in Pushers : Inside(p)
  /\ GoesTo(Consumer, "out")
  /\ UNCHANGED <<timed, source, made, queue, batch, taken, done, corrupted>>

ConsumerLocks == timed /\ Lock(Consumer, "out", "checking")

\* The sender reads m_input_queue.empty() without the lock: while its pusher is in the
\* section, the answer may be either.
Poll ==
  /\ ~timed /\ pc[Consumer] = "out"
  /\ \E p \in Pushers : queue[p] # <<>> \/ Inside(p)
  /\ GoesTo(Consumer, "found")
  /\ UNCHANGED <<timed, mutex, source, made, queue, batch, taken, done, reset, corrupted>>

LocksWhatItFound == Lock(Consumer, "found", "draining")

Empty == queue = Nothing

\* Mutant: the thread keeps the mutex while it sleeps.
WaitHolding ==
  /\ pc[Consumer] = "checking" /\ Empty
  /\ corrupted' = (corrupted \/ Together)
  /\ GoesTo(Consumer, "asleep")
  /\ UNCHANGED <<timed, mutex, source, made, queue, batch, taken, done, reset>>

Wait ==
  /\ pc[Consumer] = "checking" /\ Empty
  /\ Released
  /\ corrupted' = (corrupted \/ Together)
  /\ GoesTo(Consumer, "asleep")
  /\ UNCHANGED <<timed, source, made, queue, batch, taken, done, reset>>

NeedNotWait ==
  /\ pc[Consumer] = "checking" /\ ~Empty
  /\ corrupted' = (corrupted \/ Together)
  /\ GoesTo(Consumer, "draining")
  /\ UNCHANGED <<timed, mutex, source, made, queue, batch, taken, done, reset>>

\* Mutant: the wait has no deadline.
TimeoutNever == pc[Consumer] = "asleep" /\ FALSE /\ UNCHANGED vars

\* After a second, or for no reason at all.
Timeout ==
  /\ pc[Consumer] = "asleep"
  /\ GoesTo(Consumer, "waking")
  /\ UNCHANGED <<timed, mutex, source, made, queue, batch, taken, done, reset, corrupted>>

WakesUp == Lock(Consumer, "waking", "draining")

\* One queue after another, in the order of a hash map.
Pop(p) ==
  /\ pc[Consumer] = "draining" /\ queue[p] # <<>>
  /\ batch' = [batch EXCEPT ![p] = Append(@, Head(queue[p]))]
  /\ queue' = [queue EXCEPT ![p] = Tail(@)]
  /\ corrupted' = (corrupted \/ Together)
  /\ UNCHANGED <<timed, mutex, pc, source, made, taken, done, reset>>

ConsumerUnlocks ==
  /\ pc[Consumer] = "draining" /\ Empty
  /\ Released
  /\ taken' = [p \in Pushers |-> taken[p] \o batch[p]]
  /\ batch' = Nothing
  /\ corrupted' = (corrupted \/ Together)
  /\ GoesTo(Consumer, "out")
  /\ UNCHANGED <<timed, source, made, queue, done, reset>>

-----------------------------------------------------------------------------
PusherSteps(p) == Park(p) \/ Push(p) \/ PusherUnlocks(p) \/ Signal(p)
ConsumerSteps == \/ Initialise \/ Wait \/ NeedNotWait \/ Timeout
                 \/ ConsumerUnlocks \/ \E p \in Pushers : Pop(p)
ConsumerWantsLock == ConsumerLocks \/ LocksWhatItFound \/ WakesUp

\* What follows a data race on a std::queue is anything: the model ends there.
Next == /\ ~corrupted
        /\ \/ \E p \in Pushers : \/ Produce(p) \/ PusherLocks(p) \/ ParkedLocks(p)
                                 \/ PusherSteps(p)
           \/ ConsumerSteps \/ ConsumerWantsLock \/ Poll

\* Threads keep running.  A mutex is not handed round in turn, but the consumer sleeps
\* with the mutex free again and again, long enough for everybody who is ready to run.
\* The sender polls again and again, so it sees what nobody is moving.
Running(A) == ~corrupted /\ A
Fairness == /\ \A p \in Pushers : /\ WF_vars(Running(PusherSteps(p)))
                                  /\ SF_vars(Running(PusherLocks(p)))
            /\ WF_vars(Running(ConsumerSteps))
            /\ SF_vars(Running(ConsumerWantsLock))
            /\ WF_vars(Running(~Empty /\ Poll))

Spec == Init /\ [][Next]_vars /\ Fairness

-----------------------------------------------------------------------------
(* Properties.                                                             *)

Places == {"start", "out", "found", "locking", "parked", "pushing", "signalling",
           "checking", "asleep", "waking", "draining"}

Queues == [Pushers -> Seq(Nat)]

\* The places, the holder and the queues keep their types, and nobody pushes more than
\* it had ready.
TypeOK ==
  /\ timed \in BOOLEAN
  /\ mutex \in Threads \cup Unlocked
  /\ pc \in [Threads -> Places]
  /\ source \in Queues /\ made \in [Pushers -> 0..MaxItems]
  /\ queue \in Queues /\ batch \in Queues /\ taken \in Queues
  /\ done \in [Pushers -> 0..MaxBatch]
  /\ reset \in BOOLEAN /\ corrupted \in BOOLEAN

\* A pusher and the consumer are in their locked sections together for two reasons only.
\* Either runRouter, runReceiver or runSender has initialised a mutex while a thread was
\* in its section (runRouter.cpp:13); or the sender's m_input_queue_mutex, which nobody
\* initialises (host.h:43), is memory that pthread_mutex_lock refuses.  Initialising
\* what nobody holds, and not initialising what is zero, keep the threads apart.  The
\* sender's empty() at host.cpp:514 is outside all sections: it does read a queue while
\* it is pushed to, and ImplementsBatchQueue says that no item is lost by that.
SectionsOverlap ==
  corrupted => reset \/ (~timed /\ mutex = "broken")

\* The locked sections are one step each for everybody else: of what a thread pushes
\* in a section the consumer gets all or nothing, in order, and it takes all there is.
Pushed(p) == made[p] - Len(source[p])
Completed == [p \in Pushers |-> Pushed(p) - done[p]]
Waiting == [p \in Pushers |->
  SubSeq(batch[p] \o queue[p], 1, Len(batch[p]) + Len(queue[p]) - done[p])]

Batches == INSTANCE BatchQueue WITH count <- Completed, waiting <- Waiting
ImplementsBatchQueue ==
  Batches!Init /\ [][Batches!Next \/ corrupted']_(Batches!batchVars)

\* Whatever is pushed is taken, although signals that come before the wait are lost, the
\* hosts send none and the sender looks without the lock: the wait has a deadline, and
\* the sender looks again.
PushedIsTaken ==
  \A n \in 1..MaxItems : \A p \in Pushers :
    (\E i \in DOMAIN queue[p] : queue[p][i] = n)
      ~> ((\E i \in DOMAIN taken[p] : taken[p][i] = n) \/ corrupted)

\* Everybody who asks for the lock gets in, once the memory of the mutex does not look
\* like a lock that somebody holds; a consumer that sleeps is in nobody's way.
EverybodyGetsIn ==
  \A p \in Pushers :
    (pc[p] = "locking" /\ mutex # "garbage") ~> (pc[p] = "pushing" \/ corrupted)

=============================================================================
