-------------------------- MODULE MessageDelivery --------------------------
(***************************************************************************)
(* What a user of the network sees: the messages typed for one receiver    *)
(* (main.cpp, the menu) come out of that receiver's terminal (host.cpp,    *)
(* printOutMessage) whole, once each and in the order they were typed.     *)
(* SlidingWindow is shown to implement this specification.                 *)
(***************************************************************************)
EXTENDS Naturals, Sequences

CONSTANT Messages       \* everything that can be typed and shown, as text

VARIABLES typed,        \* the messages typed so far, oldest first
          printed       \* what the receiver has printed, oldest first

deliveryVars == <<typed, printed>>

Init == typed = <<>> /\ printed = <<>>

Type == /\ \E message \in Messages : typed' = Append(typed, message)
        /\ UNCHANGED printed

PrintOut == /\ Len(printed) < Len(typed)
         /\ printed' = Append(printed, typed[Len(printed) + 1])
         /\ UNCHANGED typed

Next == Type \/ PrintOut

Spec == Init /\ [][Next]_deliveryVars /\ WF_deliveryVars(PrintOut)

=============================================================================
