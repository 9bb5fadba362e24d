----------------------------- MODULE MCHandOff -----------------------------
(***************************************************************************)
(* TLC instance of HandOff: one pusher that signals (a sendThread) and one *)
(* that does not (a host), with batches of up to two items.                *)
(***************************************************************************)
EXTENDS HandOff
=============================================================================
