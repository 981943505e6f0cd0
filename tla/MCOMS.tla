------------------------------- MODULE MCOMS -------------------------------
(***************************************************************************)
(* Instances of OMS.  Accounts, symbols and the tickets clients send; a    *)
(* quantity scale of 2 makes odd notionals round, as 1000 does.            *)
(***************************************************************************)
EXTENDS OMS

CONSTANTS alice, bob, acme, ghost

Ticket(account, side, price, qty, tif, type, stop) ==
    [account |-> account, symbol |-> acme, side |-> side, price |-> price, qty |-> qty,
     tif |-> tif, order_type |-> type, stop_price |-> stop]

MCListed == {acme}
MCMultiplier == [s \in Symbol |-> 1]
MCInitialCash == [a \in Account |-> IF a = alice THEN 4 ELSE 3]

\* Limit orders of both accounts, resting and sweeping, some of them worth less than a
\* cent, and tickets that are refused somewhere on the way.
OrderTickets ==
    {Ticket(a, side, p, q, "gtc", "limit", 0) :
        a \in Account, side \in Side, p \in {1, 3}, q \in {1, 2}}
    \cup {Ticket(alice, side, 3, 2, tif, "limit", 0) : side \in Side, tif \in {"ioc", "fok"}}
    \cup {Ticket(alice, side, 3, q, "gtc", "limit", 0) : side \in Side, q \in {0, -1, 3}}
    \cup {Ticket(alice, side, -3, 2, "gtc", "limit", 0) : side \in Side}
    \cup {Ticket(alice, "buy", 3, 2, "day", "limit", 0),
          Ticket(alice, "buy", 3, 2, "gtc", "iceberg", 0),
          Ticket(alice, "sell", 0, 3, "gtc", "market", 0),
          Ticket(alice, "sell", 0, 2, "gtc", "stop", 0),
          Ticket(alice, "buy", 0, 2, "gtc", "stop_limit", 2),
          [Ticket(alice, "buy", 3, 2, "gtc", "limit", 0) EXCEPT !.symbol = ghost]}

\* Stops and market orders over a book with two price levels, and stop-limits that
\* activate behind orders with later ids.
StopTickets ==
    {Ticket(alice, side, p, 1, "gtc", "limit", 0) : side \in Side, p \in {2, 3}}
    \cup {Ticket(alice, "sell", 2, 2, "gtc", "limit", 0)}
    \cup {Ticket(alice, "buy", 0, 2, "gtc", "market", 0)}
    \cup {Ticket(bob, side, 0, 2, "gtc", "market", 0) : side \in Side}
    \cup {Ticket(bob, side, 0, 1, "gtc", "stop", 2) : side \in Side}
    \cup {Ticket(bob, side, 2, 1, "gtc", "stop_limit", 2) : side \in Side}
=============================================================================
