----------------------------- MODULE MCGateway -----------------------------
(* Two request threads and a stream that wants one of two symbols.           *)
EXTENDS Gateway

Post(kind, symbol, price, op) == [kind |-> kind, symbol |-> symbol, price |-> price, op |-> op]

MCRequest ==
    {Post("order", "acme", 2, "none"), Post("order", "other", 2, "none"),
     Post("alert", "acme", 2, "above")}
MCMaxRequests == [kind \in Kind |-> 2]
MCWanted == [c \in Stream |-> {"acme"}]
=============================================================================
