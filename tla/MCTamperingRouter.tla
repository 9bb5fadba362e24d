------------------------- MODULE MCTamperingRouter -------------------------
(***************************************************************************)
(* TLC instance of TamperingRouter: three messages of one, two or six      *)
(* frames over six sequence numbers, so that the altered frame may be the  *)
(* last of a lap and numbers wrap before and after it.                     *)
(***************************************************************************)
EXTENDS TamperingRouter
=============================================================================
