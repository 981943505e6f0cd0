--------------------------- MODULE LimitOrderBook ---------------------------
(***************************************************************************)
(* The C++ engine's book for one symbol (limit_order_book.hpp with         *)
(* price_level.hpp).  The book keeps pointers: a price level is a list of  *)
(* nodes that point at Order objects the caller owns, and order_lookup_    *)
(* maps an id to the list node to remove on a cancel.  Orders are changed  *)
(* through the pointers while they rest.                                   *)
(*                                                                         *)
(* processOrder is a submission, one step per turn of matchLevel's loop,   *)
(* and a return; cancelOrder is one step.  One thread runs them.  Here     *)
(* every call gets an Order object of its own, as in the tests; ids are    *)
(* the clients' and may be used twice.                                     *)
(***************************************************************************)
EXTENDS Integers, SequencesExt

CONSTANTS Slot,    \* the Order objects, numbered in the order they are submitted
          OrderId, Price, Quantity

ASSUME LimitOrderBookAssumption ==
    /\ Slot \subseteq Nat \ {0}
    /\ OrderId \subseteq Nat /\ Price \subseteq Nat \ {0} /\ Quantity \subseteq Nat \ {0}

VARIABLES order,     \* the memory of the Order objects
          levels,    \* bids_ and asks_: side -> price of a level -> PriceLevel
          lookup,    \* order_lookup_: id of an order -> its OrderEntry
          nodes,     \* list nodes made so far; a node's number is its iterator
          taker,     \* the Order being processed, 0 between calls
          trades,    \* its trades so far
          feed,      \* per Order, the last ORDER event published
          tape,      \* the TRADE events published
          asked      \* history: the quantity each order was submitted with

vars == <<order, levels, lookup, nodes, taker, trades, feed, tape, asked>>

Side == {"buy", "sell"}
Opposite(side) == IF side = "buy" THEN "sell" ELSE "buy"
\* Whatever is not a Buy is matched and rests as a sell.
BookSide(side) == IF side = "buy" THEN "buy" ELSE "sell"
NoOrder == [id |-> -1, side |-> "none", price |-> 0, quantity |-> 0, status |-> "none"]

Without(f, x) == [y \in DOMAIN f \ {x} |-> f[y]]
With(f, x, v) == [y \in DOMAIN f \cup {x} |-> IF y = x THEN v ELSE f[y]]

Init ==
    /\ order = [s \in Slot |-> NoOrder]
    /\ levels = [side \in Side |-> <<>>]
    /\ lookup = <<>>
    /\ nodes = 0
    /\ taker = 0
    /\ trades = <<>>
    /\ feed = [s \in Slot |-> NoOrder]
    /\ tape = <<>>
    /\ asked = [s \in Slot |-> 0]

-----------------------------------------------------------------------------
(* PriceLevel: a list of nodes and a running total.  History: kept, the last fills of the *)
(* makers filled whole at the level since it was made.                                   *)

addOrderInFront(level, node, quantity) ==    \* mutation: newest first
    [level EXCEPT !.orders = <<node>> \o @, !.total = @ + quantity]
addOrder(level, node, quantity) ==
    [orders |-> Append(level.orders, node), total |-> level.total + quantity, kept |-> level.kept]

\* The quantity the removed order has at this moment leaves the total.
popFront(level, quantity) ==
    [orders |-> Tail(level.orders), total |-> level.total - quantity, kept |-> level.kept]
Keep(level, quantity) == [level EXCEPT !.kept = @ + quantity]
fillFrontTwice(level, quantity) ==    \* mutation: subtracted here and by the caller
    [level EXCEPT !.total = @ - 2 * quantity]
fillFront(level, quantity) == [level EXCEPT !.total = @ - quantity]
Index(level, iterator) == CHOOSE k \in DOMAIN level.orders : level.orders[k].iterator = iterator
removeOrder(level, iterator, quantity) ==
    [orders |-> RemoveAt(level.orders, Index(level, iterator)),
     total |-> level.total - quantity, kept |-> level.kept]

SetLevelKeeping(side, price, level) ==    \* mutation: an emptied level stays in the map
    [levels EXCEPT ![side] = With(@, price, level)]
\* A level without orders is erased from the map.
SetLevel(side, price, level) ==
    [levels EXCEPT ![side] = IF level.orders = <<>> THEN Without(@, price)
                             ELSE With(@, price, level)]

-----------------------------------------------------------------------------
best(side) == IF side = "buy" THEN Max(DOMAIN levels["buy"]) ELSE Min(DOMAIN levels["sell"])

\* The incoming order has quantity left and its price reaches the best opposite level.
Marketable ==
    LET o == order[taker]
        other == Opposite(o.side)
    IN  /\ o.quantity > 0
        /\ levels[other] # <<>>
        /\ IF o.side = "buy" THEN o.price >= best(other) ELSE o.price <= best(other)

\* processOrder begins with an order a client sent.
Submit(s, id, side, price, quantity) ==
    /\ taker = 0
    /\ order[s] = NoOrder /\ \A r \in Slot : r < s => order[r] # NoOrder
    /\ order' = [order EXCEPT ![s] = [id |-> id, side |-> side, price |-> price,
                                      quantity |-> quantity, status |-> "New"]]
    /\ asked' = [asked EXCEPT ![s] = quantity]
    /\ taker' = s
    /\ UNCHANGED <<levels, lookup, nodes, trades, feed, tape>>

MatchQty(maker) == Min({order[taker].quantity, order[maker].quantity})

TradeOfSeller(maker, qty) ==    \* mutation: the incoming order is taken for the seller
    [buy |-> order[maker].id, sell |-> order[taker].id, quantity |-> qty]
TradeOf(maker, qty) ==
    IF order[taker].side = "buy"
    THEN [buy |-> order[taker].id, sell |-> order[maker].id, quantity |-> qty]
    ELSE [buy |-> order[maker].id, sell |-> order[taker].id, quantity |-> qty]

ForgetTaker(maker, filled) ==    \* mutation: the wrong id leaves the lookup
    IF filled THEN Without(lookup, order[taker].id) ELSE lookup
ForgetTouched(maker, filled) ==    \* mutation: partly filled orders leave it too
    Without(lookup, order[maker].id)
\* A filled order can no longer be cancelled.
Forget(maker, filled) == IF filled THEN Without(lookup, order[maker].id) ELSE lookup

PublishFilled(s, memory) ==    \* mutation: partial fills are not announced
    IF memory[s].status = "Filled" THEN [feed EXCEPT ![s] = memory[s]] ELSE feed
PublishOrderUpdate(s, memory) == [feed EXCEPT ![s] = memory[s]]

\* One turn of matchLevel's loop: the incoming order against the front of the best level.
MatchFront ==
    /\ taker # 0 /\ Marketable
    /\ LET other == Opposite(order[taker].side)
           price == best(other)
           level == levels[other][price]
           maker == Head(level.orders).order
           qty == MatchQty(maker)
           reduced == [order EXCEPT ![taker].quantity = @ - qty]
           filled == reduced[maker].quantity = qty
           memory == [reduced EXCEPT
               ![maker].quantity = IF filled THEN 0 ELSE @ - qty,
               ![maker].status = IF filled THEN "Filled" ELSE "Partial"]
       IN  /\ level.orders # <<>>
           /\ order' = memory
           /\ trades' = Append(trades, TradeOf(maker, qty))
           /\ lookup' = Forget(maker, filled)
           /\ levels' = SetLevel(other, price,
                            IF filled THEN Keep(popFront(level, memory[maker].quantity), qty)
                            ELSE fillFront(level, qty))
           /\ feed' = PublishOrderUpdate(maker, memory)
    /\ UNCHANGED <<nodes, taker, tape, asked>>

\* The end of processOrder: the remainder rests, then the trades and the order are published.
addToBook(s) ==
    LET o == order[s]
        side == BookSide(o.side)
        level == IF o.price \in DOMAIN levels[side] THEN levels[side][o.price]
                 ELSE [orders |-> <<>>, total |-> 0, kept |-> 0]
    IN  /\ nodes' = nodes + 1
        /\ levels' = SetLevel(side, o.price,
                         addOrder(level, [iterator |-> nodes + 1, order |-> s], o.quantity))
        /\ lookup' = With(lookup, o.id,
                         [price |-> o.price, iterator |-> nodes + 1, side |-> side])

Return ==
    /\ taker # 0 /\ (order[taker].quantity > 0 => ~Marketable)
    /\ IF order[taker].quantity > 0
       THEN /\ addToBook(taker)
            /\ order' = [order EXCEPT ![taker].status = IF @ = "New" THEN "New" ELSE "Partial"]
       ELSE /\ order' = [order EXCEPT ![taker].status = "Filled"]
            /\ UNCHANGED <<levels, lookup, nodes>>
    /\ tape' = tape \o trades
    /\ feed' = [feed EXCEPT ![taker] = order'[taker]]
    /\ trades' = <<>> /\ taker' = 0
    /\ UNCHANGED asked

cancelOrder(id) ==
    /\ taker = 0
    /\ id \in DOMAIN lookup
    /\ LET entry == lookup[id]
           level == levels[entry.side][entry.price]
           node == level.orders[Index(level, entry.iterator)]
       IN  levels' = IF entry.price \in DOMAIN levels[entry.side]
                     THEN SetLevel(entry.side, entry.price,
                              removeOrder(level, entry.iterator, order[node.order].quantity))
                     ELSE levels
    /\ lookup' = Without(lookup, id)
    /\ UNCHANGED <<order, nodes, taker, trades, feed, tape, asked>>

Next ==
    \/ \E s \in Slot, id \in OrderId, side \in Side, price \in Price, quantity \in Quantity :
          Submit(s, id, side, price, quantity)
    \/ MatchFront
    \/ Return
    \/ \E id \in OrderId : cancelOrder(id)

\* A call runs to its end.
Spec == Init /\ [][Next]_vars /\ WF_vars(MatchFront \/ Return)

-----------------------------------------------------------------------------
NodesAt(side, price) == ToSet(levels[side][price].orders)
Resting(s) ==
    \E side \in Side : \E p \in DOMAIN levels[side] : \E n \in NodesAt(side, p) : n.order = s
Idle == taker = 0

\* "Filled resting order not erased from order_lookup_ ... stale iterator": every entry of
\* the lookup names a node that is in the level it names and an order of that id, even when
\* clients use an id twice, so a cancel never follows a dead iterator.
LookupIsLive ==
    \A id \in DOMAIN lookup :
        LET entry == lookup[id]
        IN  /\ entry.price \in DOMAIN levels[entry.side]
            /\ \E n \in NodesAt(entry.side, entry.price) :
                  n.iterator = entry.iterator /\ order[n.order].id = id

\* "every resting order appears in exactly one PriceLevel and in order_lookup_": an order
\* can be cancelled for as long as it rests, provided no other order was given its id.
EveryOrderCancelable ==
    \A s \in Slot :
        Resting(s) /\ (\A r \in Slot \ {s} : order[r].id # order[s].id)
            => order[s].id \in DOMAIN lookup

\* Between calls, what the published trades say an id bought and sold is what its orders
\* have lost of the quantity they were submitted with.
Executed(id, side) ==
    SumFunction([s \in {r \in Slot : order[r].id = id /\ order[r].side = side} |->
                    asked[s] - order[s].quantity])
Bought(id, events) ==
    SumFunction([n \in {k \in DOMAIN events : events[k].buy = id} |-> events[n].quantity])
Sold(id, events) ==
    SumFunction([n \in {k \in DOMAIN events : events[k].sell = id} |-> events[n].quantity])
VolumeIsPublished ==
    Idle => \A id \in OrderId :
        Executed(id, "buy") = Bought(id, tape) /\ Executed(id, "sell") = Sold(id, tape)

\* Between calls a subscriber's last update of each order is what the engine holds of it,
\* although orders change while somebody else's call is running.
FeedIsCurrent == Idle => feed = order

\* "Track total quantity for book depth calculations": the total is what the orders at the
\* level have open, and on top of that the last fill of every maker filled whole there since
\* the level was made, for such a maker is at zero when popFront subtracts its quantity.
DepthIsOffByLastFills ==
    \A side \in Side : \A p \in DOMAIN levels[side] :
        levels[side][p].total =
            SumFunction([n \in NodesAt(side, p) |-> order[n.order].quantity])
                + levels[side][p].kept

\* Every call returns: a turn of the loop always consumes quantity.
EveryCallReturns == []<>Idle

-----------------------------------------------------------------------------
\* The book as PriceTimePriority sees it; an Order's number is its arrival.
RestingOrders ==
    [s \in Slot |->
        IF Resting(s)
        THEN [side |-> order[s].side, price |-> order[s].price, qty |-> order[s].quantity,
              arrival |-> s]
        ELSE [side |-> "none", price |-> 0, qty |-> 0, arrival |-> 0]]
Incoming ==
    IF Idle THEN [id |-> 0, side |-> "none", limit |-> 0, left |-> 0]
    ELSE [id |-> taker, side |-> order[taker].side, limit |-> order[taker].price,
          left |-> order[taker].quantity]

Priority == INSTANCE PriceTimePriority WITH
                OrderId <- Slot,
                resting <- RestingOrders,
                taker <- Incoming,
                Arrival <- Slot

\* The maps of lists of pointers implement price-time priority.
KeepsPriority == Priority!Spec
=============================================================================
