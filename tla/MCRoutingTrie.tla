--------------------------- MODULE MCRoutingTrie ---------------------------
(* TLC instance of RoutingTrie: every table of three rows over two-bit addresses. *)
EXTENDS RoutingTrie
=============================================================================
