---------------------------- MODULE MCWithdrawal ----------------------------
(***************************************************************************)
(* TLC instances of Withdrawal: two messages of at most three frames while *)
(* AS5 is attached and withdrawn up to three times.  Three more instances  *)
(* (three messages, eight numbers) look for what the code's comments and   *)
(* README.txt exclude.                                                     *)
(***************************************************************************)
EXTENDS Withdrawal
=============================================================================
