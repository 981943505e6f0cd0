-------------------------- MODULE MCLimitOrderBook --------------------------
(* TLC instance of LimitOrderBook: more orders than ids, so an id comes twice. *)
EXTENDS LimitOrderBook
=============================================================================
