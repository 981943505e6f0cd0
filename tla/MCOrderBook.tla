---------------------------- MODULE MCOrderBook ----------------------------
(* TLC instance of OrderBook: rounding happens (scale 2, odd notionals). *)
EXTENDS OrderBook
=============================================================================
