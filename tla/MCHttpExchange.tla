--------------------------- MODULE MCHttpExchange ---------------------------
(***************************************************************************)
(* Instances of HttpExchange.                                              *)
(***************************************************************************)
EXTENDS HttpExchange
TwoRequests == 1 .. 2
ThreeRequests == 1 .. 3
=============================================================================
