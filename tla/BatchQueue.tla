----------------------------- MODULE BatchQueue -----------------------------
(***************************************************************************)
(* What the queues between threads promise: whole batches go in and        *)
(* everything that is in comes out, in one atomic step each, so that the   *)
(* items of a thread stay in order and none is lost or taken twice.        *)
(* HandOff is shown to implement this specification.                       *)
(***************************************************************************)
EXTENDS Naturals, Sequences

CONSTANTS Pushers,      \* the threads that put items in, each into its own queue
          MaxBatch      \* the largest batch

VARIABLES count,        \* how many items each thread has put in
          waiting,      \* its items that nobody has taken yet
          taken         \* its items that have been taken, oldest first

batchVars == <<count, waiting, taken>>

Init == /\ count = [p \in Pushers |-> 0]
        /\ waiting = [p \in Pushers |-> <<>>]
        /\ taken = [p \in Pushers |-> <<>>]

Put(p) == \E k \in 1..MaxBatch :
  /\ waiting' = [waiting EXCEPT ![p] = @ \o [i \in 1..k |-> count[p] + i]]
  /\ count' = [count EXCEPT ![p] = @ + k]
  /\ UNCHANGED taken

TakeAll == /\ \E p \in Pushers : waiting[p] # <<>>
           /\ taken' = [p \in Pushers |-> taken[p] \o waiting[p]]
           /\ waiting' = [p \in Pushers |-> <<>>]
           /\ UNCHANGED count

Next == TakeAll \/ \E p \in Pushers : Put(p)

Spec == Init /\ [][Next]_batchVars

=============================================================================
