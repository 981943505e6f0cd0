----------------------------- MODULE OrderBook -----------------------------
(***************************************************************************)
(* The Python matching venue for one symbol (services/core/matching.py):   *)
(* two dictionaries from price to a FIFO list of [order_id, remaining].  A *)
(* price absent from the dictionary is a price with an empty list here.    *)
(* A call of add_limit or match_market is an arrival, one step per turn of *)
(* its inner loop, and a return; remove and rest are single steps.         *)
(*                                                                         *)
(* The callers are in oms.py: ids are fresh (an id that never rested may   *)
(* be submitted again, standing for another fresh one), fill-or-kill is    *)
(* add_limit behind a fillable_qty check, and rest only rebuilds a         *)
(* persisted book, in id order, before anything is matched.                *)
(***************************************************************************)
EXTENDS Money, SequencesExt

CONSTANTS OrderId, Price, Quantity,
          Budget,       \* cash a market buy may spend
          Multiplier    \* the contract multiplier of the symbol

ASSUME OrderBookAssumption ==
    /\ OrderId \subseteq Nat \ {0} /\ IsFiniteSet(OrderId)
    /\ Price \subseteq Nat \ {0} /\ Quantity \subseteq Nat \ {0} /\ Budget \subseteq Nat
    /\ Multiplier \in Nat \ {0}

VARIABLES levels,    \* levels["buy"] is _bids, levels["sell"] is _asks: price -> FIFO list
          call,      \* the call in progress: its arguments and remaining
          fills,     \* its fills so far
          spent,     \* the cash they exchanged (match_market)
          trading,   \* the restart phase is over
          arrived    \* history: the ids that came to rest, in order

vars == <<levels, call, fills, spent, trading, arrived>>

Side == {"buy", "sell"}
Opposite(side) == IF side = "buy" THEN "sell" ELSE "buy"
Kind == {"gtc", "ioc", "fok", "market"}

NoCall == [id |-> 0, side |-> "none", kind |-> "none", price |-> 0, qty |-> 0,
           remaining |-> 0, budget |-> 0]

Prices(side) == {p \in Price : levels[side][p] # <<>>}
best(side) == IF side = "buy" THEN Max(Prices(side)) ELSE Min(Prices(side))
Level(side, price) == ToSet(levels[side][price])
Total(level) == SumFunction([k \in DOMAIN level |-> level[k].qty])

\* An order of this side and limit price trades at this price of the other side.
Reaches(side, limit, price) ==
    limit = 0 \/ IF side = "buy" THEN price <= limit ELSE price >= limit

fillable_among(prices, side) ==
    SumFunction([p \in prices |-> Total(levels[Opposite(side)][p])])

fillable_at_any_price(side, limit) ==    \* mutation: the limit is forgotten
    fillable_among(Prices(Opposite(side)), side)

fillable_qty(side, limit) ==
    fillable_among({p \in Prices(Opposite(side)) : Reaches(side, limit, p)}, side)

Init ==
    /\ levels = [side \in Side |-> [p \in Price |-> <<>>]]
    /\ call = NoCall
    /\ fills = <<>>
    /\ spent = 0
    /\ trading = FALSE
    /\ arrived = <<>>

PushInFront(side, price, id, qty) ==    \* mutation: last in, first out
    /\ levels' = [levels EXCEPT ![side][price] = <<[id |-> id, qty |-> qty]>> \o @]
    /\ arrived' = Append(arrived, id)

Push(side, price, id, qty) ==
    /\ levels' = [levels EXCEPT ![side][price] = Append(@, [id |-> id, qty |-> qty])]
    /\ arrived' = Append(arrived, id)

rest(id, side, price, qty) ==
    /\ ~trading
    /\ \A i \in ToSet(arrived) : i < id
    /\ \A p \in Prices(Opposite(side)) : ~Reaches(side, price, p)
    /\ Push(side, price, id, qty)
    /\ UNCHANGED <<call, fills, spent, trading>>

remove(id, side, price) ==
    /\ call = NoCall
    /\ \E k \in DOMAIN levels[side][price] :
          /\ levels[side][price][k].id = id
          /\ levels' = [levels EXCEPT ![side][price] = RemoveAt(@, k)]
    /\ trading' = TRUE
    /\ UNCHANGED <<call, fills, spent, arrived>>

Submit(id, side, kind, price, qty, budget) ==
    /\ call = NoCall
    /\ id \notin ToSet(arrived)
    /\ call' = [id |-> id, side |-> side, kind |-> kind, price |-> price, qty |-> qty,
                remaining |-> qty, budget |-> budget]
    /\ trading' = TRUE
    /\ UNCHANGED <<levels, fills, spent, arrived>>

add_limit(id, side, kind, price, qty) ==
    /\ kind = "fok" => fillable_qty(side, price) >= qty
    /\ Submit(id, side, kind, price, qty, 0)

match_market(id, side, qty, budget) == Submit(id, side, "market", 0, qty, budget)

Marketable ==
    /\ call # NoCall /\ call.remaining > 0
    /\ Prices(Opposite(call.side)) # {}
    /\ Reaches(call.side, call.price, best(Opposite(call.side)))

MakerPrice == best(Opposite(call.side))
Maker == Head(levels[Opposite(call.side)][MakerPrice])

AffordableOnce ==    \* mutation: what is spent already is forgotten
    (call.budget * QuantityScale) \div (MakerPrice * Multiplier)

\* How much of the front order is taken; only a market buy has a budget.
Affordable == ((call.budget - spent) * QuantityScale) \div (MakerPrice * Multiplier)
MatchQty ==
    LET m == Min({call.remaining, Maker.qty})
    IN  IF call.kind = "market" /\ call.side = "buy" THEN Min({m, Affordable}) ELSE m

Cost(qty) ==
    IF call.kind # "market" THEN 0
    ELSE notional_cents(MakerPrice, qty, IF call.side = "buy" THEN Multiplier ELSE 1)

Consume(level, qty) ==
    IF Head(level).qty = qty THEN Tail(level) ELSE [level EXCEPT ![1].qty = @ - qty]

\* One turn of the inner loop: fill against the front of the best level.
FillFront ==
    /\ Marketable
    /\ MatchQty > 0
    /\ fills' = Append(fills, [maker |-> Maker.id, price |-> MakerPrice, qty |-> MatchQty])
    /\ spent' = spent + Cost(MatchQty)
    /\ call' = [call EXCEPT !.remaining = @ - MatchQty]
    /\ levels' = [levels EXCEPT ![Opposite(call.side)][MakerPrice] =
                     Consume(@, MatchQty)]
    /\ UNCHANGED <<trading, arrived>>

Exhausted == MatchQty <= 0

Finish ==
    /\ call # NoCall
    /\ Marketable => Exhausted
    /\ IF call.remaining > 0 /\ call.kind = "gtc"
       THEN Push(call.side, call.price, call.id, call.remaining)
       ELSE UNCHANGED <<levels, arrived>>
    /\ call' = NoCall
    /\ fills' = <<>>
    /\ spent' = 0
    /\ UNCHANGED trading

Next ==
    \/ \E id \in OrderId, side \in Side, price \in Price, qty \in Quantity :
          \/ rest(id, side, price, qty)
          \/ remove(id, side, price)
          \/ \E kind \in Kind \ {"market"} : add_limit(id, side, kind, price, qty)
    \/ \E id \in OrderId, qty \in Quantity :
          \/ \E budget \in Budget : match_market(id, "buy", qty, budget)
          \/ match_market(id, "sell", qty, 0)
    \/ FillFront
    \/ Finish

Spec == Init /\ [][Next]_vars

-----------------------------------------------------------------------------
\* fillable_qty, read before the sweep, decides fill-or-kill correctly: when the sweep of
\* an order it let through finds nothing more to match, nothing is left of the order.
FillOrKillCompletes == call.kind = "fok" /\ ~Marketable => call.remaining = 0

\* "A market buy can never overspend available cash" (match_market): the fills' values,
\* each rounded for itself, never add up to more than the budget, however many there are.
BudgetIsKept == call.kind = "market" /\ call.side = "buy" => spent <= call.budget

-----------------------------------------------------------------------------
\* The book as PriceTimePriority sees it: each resting order with its side, price,
\* open quantity and arrival number.
Position(id) == CHOOSE k \in DOMAIN arrived : arrived[k] = id
StandsAt(id, side, price) == \E e \in Level(side, price) : e.id = id
RestingOrders ==
    [id \in OrderId |->
        IF \E side \in Side, price \in Price : StandsAt(id, side, price)
        THEN LET x == CHOOSE x \in Side \X Price : StandsAt(id, x[1], x[2])
                 e == CHOOSE e \in Level(x[1], x[2]) : e.id = id
             IN  [side |-> x[1], price |-> x[2], qty |-> e.qty, arrival |-> Position(id)]
        ELSE [side |-> "none", price |-> 0, qty |-> 0, arrival |-> 0]]
Incoming == [id |-> call.id, side |-> call.side, limit |-> call.price, left |-> call.remaining]

Priority == INSTANCE PriceTimePriority WITH
                resting <- RestingOrders,
                taker <- Incoming,
                Arrival <- 1 .. Cardinality(OrderId)

\* The dictionaries of lists implement price-time priority.
KeepsPriority == Priority!Spec
=============================================================================
