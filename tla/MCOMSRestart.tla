---------------------------- MODULE MCOMSRestart ----------------------------
(* Instances of OMSRestart: few tickets, every interleaving of restarts. *)
EXTENDS OMSRestart

CONSTANTS alice, bob, acme

Ticket(account, side, price, qty, tif, type, stop) ==
    [account |-> account, symbol |-> acme, side |-> side, price |-> price, qty |-> qty,
     tif |-> tif, order_type |-> type, stop_price |-> stop]

MCListed == {acme}
MCMultiplier == [s \in Symbol |-> 1]
MCInitialCash == [a \in Account |-> 4]

CrashTickets ==
    {Ticket(alice, "sell", p, 1, "gtc", "limit", 0) : p \in {2, 3}}
    \cup {Ticket(bob, "buy", p, q, "gtc", "limit", 0) : p \in {2, 3}, q \in {1, 2}}
    \cup {Ticket(alice, "sell", 2, 1, "gtc", "stop_limit", 2),
          Ticket(bob, "buy", 0, 1, "gtc", "stop", 2),
          Ticket(bob, "sell", 0, 1, "gtc", "market", 0)}
=============================================================================
