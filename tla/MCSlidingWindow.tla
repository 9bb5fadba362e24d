-------------------------- MODULE MCSlidingWindow --------------------------
(***************************************************************************)
(* TLC instance of SlidingWindow: four sequence numbers, so that counters  *)
(* and slots wrap, and windows small enough to close.                      *)
(***************************************************************************)
EXTENDS SlidingWindow
=============================================================================
