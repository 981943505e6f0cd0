------------------------- MODULE PriceTimePriority -------------------------
(***************************************************************************)
(* What a matching venue promises, whatever data structure it uses: one    *)
(* incoming order at a time trades only with the opposite resting order    *)
(* that has the best price and, at that price, arrived first; never beyond *)
(* its limit, never for more than either side has left; and an order comes *)
(* to rest only when nothing on the other side crosses it.                 *)
(*                                                                         *)
(* OrderBook (the Python venue), LimitOrderBook (the C++ engine) and OMS   *)
(* (the order service that drives the Python venue) implement this module. *)
(***************************************************************************)
EXTENDS Integers

CONSTANTS OrderId,    \* order ids
          Price,      \* limit prices an order can carry
          Quantity,   \* quantities an order can ask for
          Arrival     \* arrival numbers

\* What the theorems ask of the constants.
VenueAssumption ==
    /\ OrderId \subseteq Nat \ {0} /\ Price \subseteq Nat \ {0}
    /\ Quantity \subseteq Nat \ {0} /\ Arrival \subseteq Nat \ {0}

VARIABLES resting,    \* the book: order id -> side, price, open quantity, arrival
          taker       \* the incoming order being matched, or NoTaker

vars == <<resting, taker>>

Side == {"buy", "sell"}
Opposite(side) == IF side = "buy" THEN "sell" ELSE "buy"

NoLimit == 0    \* the limit of a market order
NotResting == [side |-> "none", price |-> 0, qty |-> 0, arrival |-> 0]
NoTaker == [id |-> 0, side |-> "none", limit |-> NoLimit, left |-> 0]

Entry == [side : Side, price : Price, qty : Nat \ {0}, arrival : Arrival]
Taker == [id : OrderId, side : Side, limit : Price \cup {NoLimit}, left : Nat]

TypeOK ==
    /\ resting \in [OrderId -> Entry \cup {NotResting}]
    /\ taker \in Taker \cup {NoTaker}

Makers(side) == {i \in OrderId : resting[i].side = side}

\* A resting order i is served before j: better price, or same price and earlier.
Before(i, j) ==
    \/ resting[i].side = "buy" /\ resting[i].price > resting[j].price
    \/ resting[i].side = "sell" /\ resting[i].price < resting[j].price
    \/ resting[i].price = resting[j].price /\ resting[i].arrival < resting[j].arrival

\* At most one order is served next on each side.
First(side) == {i \in Makers(side) : \A j \in Makers(side) \ {i} : Before(i, j)}

Within(limit, side, price) ==
    \/ limit = NoLimit
    \/ side = "buy" /\ price <= limit
    \/ side = "sell" /\ price >= limit

Crossing(order) ==
    {i \in Makers(Opposite(order.side)) : Within(order.limit, order.side, resting[i].price)}

Init ==
    /\ resting = [i \in OrderId |-> NotResting]
    /\ taker = NoTaker

Arrive(i, side, limit, qty) ==
    /\ taker = NoTaker
    /\ resting[i] = NotResting
    /\ taker' = [id |-> i, side |-> side, limit |-> limit, left |-> qty]
    /\ UNCHANGED resting

Trade(m, qty) ==
    /\ taker # NoTaker
    /\ m \in First(Opposite(taker.side)) \cap Crossing(taker)
    /\ qty <= taker.left /\ qty <= resting[m].qty
    /\ taker' = [taker EXCEPT !.left = @ - qty]
    /\ resting' = [resting EXCEPT ![m] =
                      IF qty = resting[m].qty THEN NotResting
                      ELSE [resting[m] EXCEPT !.qty = resting[m].qty - qty]]

RestAs(i, side, price, qty, arrival) ==
    /\ \A j \in OrderId : resting[j].arrival < arrival
    /\ Crossing([side |-> side, limit |-> price]) = {}
    /\ resting' = [resting EXCEPT ![i] =
                      [side |-> side, price |-> price, qty |-> qty, arrival |-> arrival]]

\* The remainder rests, behind every order already in the book.
Rest(arrival) ==
    /\ taker # NoTaker
    /\ taker.left > 0 /\ taker.limit # NoLimit
    /\ RestAs(taker.id, taker.side, taker.limit, taker.left, arrival)
    /\ taker' = NoTaker

\* A persisted order goes back into the book without matching.
Restore(i, side, price, qty, arrival) ==
    /\ taker = NoTaker
    /\ resting[i] = NotResting
    /\ RestAs(i, side, price, qty, arrival)
    /\ UNCHANGED taker

\* The incoming order is complete, or what is left of it is dropped.
Leave ==
    /\ taker # NoTaker
    /\ taker' = NoTaker
    /\ UNCHANGED resting

Withdraw(i) ==
    /\ taker = NoTaker
    /\ resting' = [resting EXCEPT ![i] = NotResting]
    /\ UNCHANGED taker

Next ==
    \/ \E i \in OrderId, side \in Side, limit \in Price \cup {NoLimit}, qty \in Quantity :
          Arrive(i, side, limit, qty)
    \/ \E m \in OrderId, qty \in 1 .. taker.left : Trade(m, qty)
    \/ \E arrival \in Arrival : Rest(arrival)
    \/ Leave
    \/ \E i \in OrderId, side \in Side, price \in Price, qty \in Quantity, arrival \in Arrival :
          Restore(i, side, price, qty, arrival)
    \/ \E i \in OrderId : Withdraw(i)

Spec == Init /\ [][Next]_vars

-----------------------------------------------------------------------------
\* No resting bid reaches a resting ask, at any moment of a sweep or after it.
Uncrossed ==
    \A b \in Makers("buy"), s \in Makers("sell") : resting[b].price < resting[s].price

\* Nobody jumps the queue: an order that shares a side and a price with an earlier one is
\* never touched by a trade while the earlier one keeps its whole quantity.
NoQueueJump ==
    [][\A i, j \in OrderId :
          /\ resting[i] # NotResting /\ resting[j] # NotResting
          /\ resting[i].side = resting[j].side /\ resting[i].price = resting[j].price
          /\ resting[i].arrival < resting[j].arrival
          /\ resting'[j] # resting[j] /\ resting'[i] = resting[i]
          => taker = NoTaker]_vars
=============================================================================
