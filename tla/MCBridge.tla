------------------------------ MODULE MCBridge ------------------------------
(* An engine with one registered symbol, a word of five bits and a stack     *)
(* place for one message.                                                    *)
EXTENDS Bridge

Order3(id, symbol, side, price, quantity) ==
    Message([id |-> id, symbol |-> symbol, side |-> side, price |-> price,
             quantity |-> quantity])
Posted(symbol, side, price, quantity) ==
    [symbol |-> symbol, side |-> side, price |-> price, quantity |-> quantity]

\* Two orders that meet, one over the value limit, one whose value wraps below it, and a
\* symbol nobody registered.
MCTicket ==
    {Posted("AAPL", side, 1, 2) : side \in {"buy", "sell"}}
    \cup {Posted("AAPL", "buy", 3, 3), Posted("AAPL", "buy", 11, 3),
          Posted("MSFT", "buy", 1, 1), Posted("too_long", "buy", 1, 1)}
MCMarketTrade == {[symbol |-> "AAPL", price |-> 1, quantity |-> 0]}
MCForeign ==
    {<<>>,
     <<Delimiter, Order3(21, "AAPL", "unknown", 1, 1)>>,
     <<Order3(22, "AAPL", "sell", 1, 1), WrongSize>>,
     <<WrongSize, WrongSize, Order3(23, "AAPL", "buy", 1, 1)>>}
\* 1000, 500000 and what the other client likes.
MCFirstId == [c \in Client |-> CASE c = Bridge -> 0 [] c = Feeder -> 10 [] OTHER -> 20]

ASSUME MCIds == IdsAreApart
=============================================================================
