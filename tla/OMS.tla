-------------------------------- MODULE OMS --------------------------------
(***************************************************************************)
(* The order management service (services/core/oms.py) with the ledger,    *)
(* the venue, the trade log, the portfolio's quantities, the pre-trade     *)
(* risk checks and the orders table it drives.                             *)
(*                                                                         *)
(* One call of place or cancel runs at a time.  It is cut into steps of at *)
(* most one database commit each (persistence.py commits every write on    *)
(* its own), so a restart can be placed between any two of them            *)
(* (OMSRestart).  Tables other than orders always equal the memory they    *)
(* are written from, and are not modelled twice.                           *)
(*                                                                         *)
(* The venue is the book PriceTimePriority describes, which OrderBook      *)
(* implements with its lists; KeepsPriority checks that the calls made     *)
(* here use it as intended.                                                *)
(***************************************************************************)
EXTENDS Money, FiniteSetsExt, Sequences

CONSTANTS Account, Symbol,
          Listed,               \* the symbols reference data knows
          Multiplier,           \* symbol -> contract multiplier
          Request,              \* the order tickets clients send
          MaxOrders,            \* bound: tickets accepted
          InitialCash,          \* account -> cents funded beforehand
          MaxOrderQuantity, MaxOrderValue,    \* RiskConfig
          AdminMayHalt          \* the kill switch is in use

OrderId == 1 .. MaxOrders
Side == {"buy", "sell"}
OrderType == {"limit", "market", "stop", "stop_limit"}
TimeInForce == {"gtc", "ioc", "fok"}
Status == {"new", "partial", "filled", "rejected", "canceled", "pending"}
Open == {"new", "partial"}

ASSUME OMSAssumption ==
    /\ MaxOrders \in Nat
    /\ "none" \notin Account
    /\ Listed \subseteq Symbol
    /\ Multiplier \in [Symbol -> Nat \ {0}]
    /\ InitialCash \in [Account -> Nat]
    /\ MaxOrderQuantity \in Nat /\ MaxOrderValue \in Nat
    /\ AdminMayHalt \in BOOLEAN
    /\ Request \subseteq [account : Account, symbol : Symbol, side : Side, price : Int,
                          qty : Int, tif : STRING, order_type : STRING, stop_price : Int]

VARIABLES
    req, status, filled, nextId,    \* _orders: the ticket, status, filled; _next_id
    pendingStops, lastPrice,        \* _pending_stops, _last_price (0: no trade yet)
    open, arrival, arrivals,        \* the book: open quantity and arrival number by id,
                                    \* and how many orders have come to rest
    balance, reserved, hold,        \* ledger: _balance, _reserved, _holds (hold-<id>)
    posted,                         \* ledger: trade numbers among the _applied txn ids
    tape, position,                 \* trade log; position quantities
    kill,                           \* risk.kill_switch
    cleared,                        \* history: the order that was past its check of it when
                                    \* it was engaged (0: none was)
    restarts,                       \* how often the process was restarted (OMSRestart)
    saved,                          \* the orders table
    pc, taker, subject,             \* the call in progress: where it is, its order,
    fills, left, budget             \* the order being written; fills, remaining, cash left

orderVars == <<req, status, filled, nextId, pendingStops, lastPrice>>
bookVars == <<open, arrival, arrivals>>
ledgerVars == <<balance, reserved, hold, posted>>
tradeVars == <<tape, position>>
processVars == <<kill, cleared, restarts>>
callVars == <<pc, taker, subject, fills, left, budget>>
vars == <<orderVars, bookVars, ledgerVars, tradeVars, processVars, saved, callVars>>

NoHold == [account |-> "none", amount |-> 0]
NoRow == [status |-> "none", filled |-> 0]
NoRequest == [account |-> "none", symbol |-> "none", side |-> "none", price |-> 0, qty |-> 0,
              tif |-> "none", order_type |-> "none", stop_price |-> 0]

Used == {i \in OrderId : req[i] # NoRequest}
IsBuy(i) == req[i].side = "buy"
IsLimit(i) == req[i].order_type \in {"limit", "stop_limit"}    \* runs _place_limit
Remaining(i) == req[i].qty - filled[i]
Value(i, price, qty) == notional_cents(price, qty, Multiplier[req[i].symbol])
Notional(i, qty) == Value(i, req[i].price, qty)
available(a) == balance[a] - reserved[a]

Init ==
    /\ req = [i \in OrderId |-> NoRequest]
    /\ status = [i \in OrderId |-> "none"]
    /\ filled = [i \in OrderId |-> 0]
    /\ nextId = 1
    /\ pendingStops = {}
    /\ lastPrice = [s \in Symbol |-> 0]
    /\ open = [i \in OrderId |-> 0]
    /\ arrival = [i \in OrderId |-> 0]
    /\ arrivals = 0
    /\ balance = InitialCash
    /\ reserved = [a \in Account |-> 0]
    /\ hold = [i \in OrderId |-> NoHold]
    /\ posted = {}
    /\ tape = <<>>
    /\ position = [a \in Account |-> [s \in Symbol |-> 0]]
    /\ kill = FALSE /\ cleared = 0 /\ restarts = 0
    /\ saved = [i \in OrderId |-> NoRow]
    /\ pc = "idle" /\ taker = 0 /\ subject = 0
    /\ fills = <<>> /\ left = 0 /\ budget = 0

-----------------------------------------------------------------------------
(* Control: the order i is finished with st and goes to be written; a call  *)
(* ends; an exception leaves the call where it is.                          *)

Goto(label) == pc' = label

Conclude(i, st) ==
    /\ status' = [status EXCEPT ![i] = st]
    /\ subject' = i

ThenWriteOnly(i) == Goto("save")    \* mutation: the compensating release is forgotten

\* Release its reservation, if it can have one, before writing it.
ThenWrite(i) == Goto(IF IsBuy(i) /\ IsLimit(i) THEN "release" ELSE "save")

EndCall ==
    /\ Goto("idle")
    /\ taker' = 0 /\ subject' = 0 /\ fills' = <<>> /\ left' = 0 /\ budget' = 0

-----------------------------------------------------------------------------
(* place: registers the ticket and routes it. *)

Invalid(r) ==
    \/ r.order_type \notin OrderType
    \/ r.order_type = "limit" /\ r.tif \notin TimeInForce
    \/ r.symbol \notin Listed

BadStop(r) ==
    \/ r.stop_price <= 0
    \/ r.order_type = "stop_limit" /\ r.price <= 0

IsStop(r) == r.order_type \in {"stop", "stop_limit"}

Register(r) ==
    /\ pc = "idle"
    /\ nextId \in OrderId
    /\ req' = [req EXCEPT ![nextId] = r]
    /\ nextId' = nextId + 1
    /\ UNCHANGED <<filled, lastPrice, bookVars, ledgerVars, tradeVars, processVars, saved,
                   fills, left, budget>>

\* These return before the trigger loop: no order is being placed (taker 0).
PlaceInvalid(r) ==
    /\ Register(r) /\ Invalid(r)
    /\ Conclude(nextId, "rejected")
    /\ Goto("save")
    /\ UNCHANGED <<taker, pendingStops>>

PlaceStop(r) ==
    /\ Register(r) /\ ~Invalid(r) /\ IsStop(r)
    /\ Conclude(nextId, IF BadStop(r) THEN "rejected" ELSE "pending")
    /\ pendingStops' = IF BadStop(r) THEN pendingStops ELSE pendingStops \cup {nextId}
    /\ taker' = nextId
    /\ Goto("save")

PlaceNow(r) ==
    /\ Register(r) /\ ~Invalid(r) /\ ~IsStop(r)
    /\ status' = [status EXCEPT ![nextId] = "new"]
    /\ taker' = nextId
    /\ Goto("start")
    /\ UNCHANGED <<subject, pendingStops>>

-----------------------------------------------------------------------------
(* _place_limit and _place_market up to the sweep of the book. *)

CanReserve(i, amount) ==
    /\ hold[i] = NoHold
    /\ amount >= 0
    /\ available(req[i].account) >= amount

Reserve(i, amount) ==
    /\ hold' = [hold EXCEPT ![i] = [account |-> req[i].account, amount |-> amount]]
    /\ reserved' = [reserved EXCEPT ![req[i].account] = @ + amount]

StartLimit ==
    /\ pc = "start" /\ IsLimit(taker)
    /\ \/ /\ IsBuy(taker) /\ CanReserve(taker, Notional(taker, req[taker].qty))
          /\ Reserve(taker, Notional(taker, req[taker].qty))
          /\ Goto("risk")
          /\ UNCHANGED <<status, subject>>
       \/ /\ IsBuy(taker) /\ ~CanReserve(taker, Notional(taker, req[taker].qty))
          /\ Conclude(taker, "rejected")
          /\ Goto("save")
          /\ UNCHANGED <<hold, reserved>>
       \/ /\ ~IsBuy(taker)
          /\ Goto("risk")
          /\ UNCHANGED <<status, subject, hold, reserved>>
    /\ UNCHANGED <<req, filled, nextId, pendingStops, lastPrice, bookVars, balance, posted,
                   tradeVars, processVars, saved, taker, fills, left, budget>>

QuantityAllowedAnyway(i) ==    \* mutation: the kill switch is not consulted
    req[i].qty > 0 /\ req[i].qty <= MaxOrderQuantity

QuantityAllowed(i) == ~kill /\ req[i].qty > 0 /\ req[i].qty <= MaxOrderQuantity

LimitAllowed(i) ==
    LET notional == Notional(i, req[i].qty)
    IN  /\ QuantityAllowed(i)
        /\ req[i].price > 0
        /\ notional <= MaxOrderValue
        /\ IsBuy(i) => notional <= available(req[i].account) + notional

\* The resting orders an incoming order i may trade with, and the first of them.
Opposite(i) == {j \in OrderId : /\ open[j] > 0
                               /\ req[j].symbol = req[i].symbol
                               /\ req[j].side # req[i].side}
Reaches(i, j) ==
    \/ ~IsLimit(i)
    \/ IF IsBuy(i) THEN req[j].price <= req[i].price ELSE req[j].price >= req[i].price
Before(j, k) ==
    \/ IF IsBuy(j) THEN req[j].price > req[k].price ELSE req[j].price < req[k].price
    \/ req[j].price = req[k].price /\ arrival[j] < arrival[k]
IsNext(j, i) ==
    /\ j \in Opposite(i) /\ Reaches(i, j)
    /\ \A k \in Opposite(i) \ {j} : Before(j, k)

fillable_qty(i) == MapThenSumSet(LAMBDA j : open[j], {j \in Opposite(i) : Reaches(i, j)})

Sweep ==
    /\ Goto("match")
    /\ left' = req[taker].qty
    /\ UNCHANGED <<status, subject>>

\* Pre-trade risk, then fill-or-kill's look at the book; either may give the hold back.
CheckLimit ==
    LET killed == req[taker].tif = "fok" /\ fillable_qty(taker) < req[taker].qty
    IN  /\ pc = "risk"
        /\ \/ /\ ~LimitAllowed(taker)
              /\ Conclude(taker, "rejected") /\ ThenWrite(taker)
              /\ UNCHANGED left
           \/ /\ LimitAllowed(taker) /\ killed
              /\ Conclude(taker, "canceled") /\ ThenWrite(taker)
              /\ UNCHANGED left
           \/ LimitAllowed(taker) /\ ~killed /\ Sweep
        /\ UNCHANGED <<req, filled, nextId, pendingStops, lastPrice, bookVars, ledgerVars,
                       tradeVars, processVars, saved, taker, fills, budget>>

\* A market buy may spend what is available now.
StartMarket ==
    /\ pc = "start" /\ ~IsLimit(taker)
    /\ \/ /\ ~QuantityAllowed(taker)
          /\ Conclude(taker, "rejected")
          /\ Goto("save")
          /\ UNCHANGED <<left, budget>>
       \/ /\ QuantityAllowed(taker)
          /\ Sweep
          /\ budget' = IF IsBuy(taker) THEN available(req[taker].account) ELSE budget
    /\ UNCHANGED <<req, filled, nextId, pendingStops, lastPrice, bookVars, ledgerVars,
                   tradeVars, processVars, saved, taker, fills>>

-----------------------------------------------------------------------------
(* The venue: one fill per turn, then the remainder rests or is dropped. *)

MatchAll(m) == left                 \* mutation: the maker's quantity is forgotten
MatchFreely(m) == Min({left, open[m]})    \* mutation: the budget is forgotten

MatchQty(m) ==
    LET unit == req[m].price * Multiplier[req[taker].symbol]
        wanted == Min({left, open[m]})
    IN  IF IsLimit(taker) \/ ~IsBuy(taker) THEN wanted
        ELSE Min({wanted, (budget * QuantityScale) \div unit})

MatchOne(m) ==
    /\ pc = "match" /\ left > 0
    /\ IsNext(m, taker) /\ MatchQty(m) > 0
    /\ LET qty == MatchQty(m)
       IN  /\ fills' = Append(fills, [maker |-> m, price |-> req[m].price, qty |-> qty])
           /\ left' = left - qty
           /\ open' = [open EXCEPT ![m] = @ - qty]
           /\ arrival' = IF qty = open[m] THEN [arrival EXCEPT ![m] = 0] ELSE arrival
           /\ budget' = IF IsLimit(taker) \/ ~IsBuy(taker) THEN budget
                        ELSE budget - Value(taker, req[m].price, qty)
    /\ UNCHANGED <<orderVars, arrivals, ledgerVars, tradeVars, processVars, saved,
                   pc, taker, subject>>

RestsAlways(i) == IsLimit(i)    \* mutation: ioc and fok rest as well
Rests(i) == IsLimit(i) /\ req[i].tif = "gtc"

ArrivalById == taker    \* mutation: an activated stop-limit queues by its id
NextArrival == arrivals + 1

MatchDone ==
    /\ pc = "match"
    /\ left = 0 \/ \A m \in OrderId : IsNext(m, taker) => MatchQty(m) <= 0
    /\ IF left > 0 /\ Rests(taker)
       THEN /\ open' = [open EXCEPT ![taker] = left]
            /\ arrival' = [arrival EXCEPT ![taker] = NextArrival]
            /\ arrivals' = arrivals + 1
       ELSE UNCHANGED bookVars
    /\ Goto("settle")
    /\ UNCHANGED <<orderVars, ledgerVars, tradeVars, processVars, saved,
                   taker, subject, fills, left, budget>>

-----------------------------------------------------------------------------
(* _apply_fills: each fill is recorded, paid, booked and advances the       *)
(* resting order; a payment of zero cents raises and ends the call there.   *)

Fill == Head(fills)
BuyOrder == IF IsBuy(taker) THEN taker ELSE Fill.maker
SellOrder == IF IsBuy(taker) THEN Fill.maker ELSE taker

RecordTrade ==
    /\ pc = "settle" /\ fills # <<>>
    /\ tape' = Append(tape, [buy |-> BuyOrder, sell |-> SellOrder,
                            buyer |-> req[BuyOrder].account, seller |-> req[SellOrder].account,
                            symbol |-> req[taker].symbol, price |-> Fill.price, qty |-> Fill.qty])
    /\ Goto("pay")
    /\ UNCHANGED <<orderVars, bookVars, ledgerVars, position, processVars, saved,
                   taker, subject, fills, left, budget>>

TakerAsTxn == taker    \* mutation: two fills of one order share a transaction id
TxnId == Len(tape)     \* the number of the trade just recorded

\* Posting is idempotent by transaction id.
Transfer(from, to, cents) ==
    balance' = IF TxnId \in posted THEN balance ELSE
        [a \in Account |-> balance[a] - (IF a = from THEN cents ELSE 0)
                                      + (IF a = to THEN cents ELSE 0)]

Pay ==
    LET cents == Value(taker, Fill.price, Fill.qty)
    IN  /\ pc = "pay" /\ cents > 0
        /\ Transfer(req[BuyOrder].account, req[SellOrder].account, cents)
        /\ posted' = posted \cup {TxnId}
        /\ Goto("book buy")
        /\ UNCHANGED <<orderVars, bookVars, reserved, hold, tradeVars, processVars, saved,
                       taker, subject, fills, left, budget>>

PayRaises ==
    /\ pc = "pay" /\ Value(taker, Fill.price, Fill.qty) <= 0
    /\ EndCall
    /\ UNCHANGED <<orderVars, bookVars, ledgerVars, tradeVars, processVars, saved>>

BookPosition(i, change) ==
    /\ position' = [position EXCEPT ![req[i].account][req[i].symbol] = @ + change]
    /\ UNCHANGED <<orderVars, bookVars, ledgerVars, tape, processVars, saved,
                   taker, subject, fills, left, budget>>

BookBuyer == pc = "book buy" /\ BookPosition(BuyOrder, Fill.qty) /\ Goto("book sell")
BookSellerAsBuyer ==    \* mutation: the sign of a sale
    pc = "book sell" /\ BookPosition(SellOrder, Fill.qty) /\ Goto("advance")
BookSeller == pc = "book sell" /\ BookPosition(SellOrder, -Fill.qty) /\ Goto("advance")

Advanced(m) == Min({req[m].qty, filled[m] + Fill.qty})

\* _advance: the resting order fills, and a buy's reservation follows.
Advance ==
    LET m == Fill.maker
        total == Advanced(m)
    IN  /\ pc = "advance"
        /\ filled' = [filled EXCEPT ![m] = total]
        /\ Conclude(m, IF total >= req[m].qty THEN "filled" ELSE "partial")
        /\ Goto(IF IsBuy(m) THEN "release" ELSE "save")
        /\ UNCHANGED <<req, nextId, pendingStops, lastPrice, bookVars, ledgerVars, tradeVars,
                       processVars, saved, taker, fills, left, budget>>

\* All fills applied: the incoming order's own fill and status.
Finish ==
    /\ pc = "settle" /\ fills = <<>>
    /\ filled' = [filled EXCEPT ![taker] = req[taker].qty - left]
    /\ Conclude(taker, IF left = 0 THEN "filled"
                       ELSE IF ~Rests(taker) THEN "canceled"
                       ELSE IF left < req[taker].qty THEN "partial" ELSE "new")
    /\ ThenWrite(taker)
    /\ UNCHANGED <<req, nextId, pendingStops, lastPrice, bookVars, ledgerVars, tradeVars,
                   processVars, saved, taker, fills, left, budget>>

KeepsNoHold(i) == FALSE    \* mutation: the remainder is not reserved again
KeepsHold(i) == status[i] \in Open /\ Remaining(i) > 0

ReleaseHold ==
    /\ pc = "release"
    /\ hold' = [hold EXCEPT ![subject] = NoHold]
    /\ reserved' = [a \in Account |->
                       IF a = hold[subject].account THEN reserved[a] - hold[subject].amount
                       ELSE reserved[a]]
    /\ Goto(IF KeepsHold(subject) THEN "reserve" ELSE "save")
    /\ UNCHANGED <<orderVars, bookVars, balance, posted, tradeVars, processVars, saved,
                   taker, subject, fills, left, budget>>

\* _resync_buy_hold: what is still open stays reserved.
ReserveRest ==
    /\ pc = "reserve" /\ CanReserve(subject, Notional(subject, Remaining(subject)))
    /\ Reserve(subject, Notional(subject, Remaining(subject)))
    /\ Goto("save")
    /\ UNCHANGED <<orderVars, bookVars, balance, posted, tradeVars, processVars, saved,
                   taker, subject, fills, left, budget>>

ReserveRaises ==
    /\ pc = "reserve" /\ ~CanReserve(subject, Notional(subject, Remaining(subject)))
    /\ EndCall
    /\ UNCHANGED <<orderVars, bookVars, ledgerVars, tradeVars, processVars, saved>>

\* The row of the orders table; then the next fill, the triggers, or the caller.
WriteRow ==
    /\ pc = "save"
    /\ saved' = [saved EXCEPT ![subject] =
                    [status |-> status[subject], filled |-> filled[subject]]]
    /\ UNCHANGED <<req, status, filled, nextId, pendingStops, bookVars, ledgerVars,
                   tradeVars, processVars>>

SaveResting ==
    /\ taker # 0 /\ subject # taker
    /\ WriteRow
    /\ lastPrice' = [lastPrice EXCEPT ![req[taker].symbol] = Fill.price]
    /\ fills' = Tail(fills)
    /\ subject' = 0
    /\ Goto("settle")
    /\ UNCHANGED <<taker, left, budget>>

ReturnAtOnce ==    \* mutation: the triggers are not processed
    subject = taker /\ WriteRow /\ EndCall /\ UNCHANGED lastPrice

SavePlaced ==
    /\ subject = taker
    /\ WriteRow
    /\ Goto("triggers")
    /\ subject' = 0 /\ left' = 0 /\ budget' = 0
    /\ UNCHANGED <<taker, fills, lastPrice>>

SaveAndReturn == taker = 0 /\ WriteRow /\ EndCall /\ UNCHANGED lastPrice

-----------------------------------------------------------------------------
(* _process_triggers, cancel, and the administrator's kill switch. *)

Triggered(i) ==
    /\ lastPrice[req[i].symbol] # 0
    /\ IF IsBuy(i) THEN lastPrice[req[i].symbol] >= req[i].stop_price
       ELSE lastPrice[req[i].symbol] <= req[i].stop_price
Ready(symbol) == {i \in pendingStops : req[i].symbol = symbol /\ Triggered(i)}

ActivateAgain(i) ==    \* mutation: the stop stays pending
    /\ pc = "triggers"
    /\ i \in Ready(req[taker].symbol)
    /\ \A j \in Ready(req[taker].symbol) : i <= j
    /\ taker' = i
    /\ Goto("start")
    /\ UNCHANGED <<orderVars, bookVars, ledgerVars, tradeVars, processVars, saved,
                   subject, fills, left, budget>>

\* The oldest triggered stop becomes live.
Activate(i) ==
    /\ pc = "triggers"
    /\ i \in Ready(req[taker].symbol)
    /\ \A j \in Ready(req[taker].symbol) : i <= j
    /\ pendingStops' = pendingStops \ {i}
    /\ taker' = i
    /\ Goto("start")
    /\ UNCHANGED <<req, status, filled, nextId, lastPrice, bookVars, ledgerVars, tradeVars,
                   processVars, saved, subject, fills, left, budget>>

Quiescent ==
    /\ pc = "triggers"
    /\ Ready(req[taker].symbol) = {}
    /\ EndCall
    /\ UNCHANGED <<orderVars, bookVars, ledgerVars, tradeVars, processVars, saved>>

Cancelable(i) == status[i] \in Open

cancel(i) ==
    /\ pc = "idle"
    /\ Cancelable(i)
    /\ open' = [open EXCEPT ![i] = 0]
    /\ arrival' = [arrival EXCEPT ![i] = 0]
    /\ Conclude(i, "canceled")
    /\ Goto(IF IsBuy(i) THEN "release" ELSE "save")
    /\ UNCHANGED <<req, filled, nextId, pendingStops, lastPrice, arrivals, ledgerVars,
                   tradeVars, processVars, saved, taker, fills, left, budget>>

\* The order being placed has been through its risk check and is being filled.
PastItsCheck ==
    /\ pc \notin {"idle", "start", "risk", "triggers"}
    /\ pc \in {"release", "reserve", "save"} => taker # 0 /\ subject # taker

\* Another request's thread sets the flag, wherever the call in progress is.
SetKillSwitch ==
    /\ AdminMayHalt
    /\ kill' = ~kill
    /\ cleared' = IF ~kill /\ PastItsCheck THEN taker ELSE 0
    /\ UNCHANGED <<restarts, orderVars, bookVars, ledgerVars, tradeVars, saved, callVars>>

place == \E r \in Request : PlaceInvalid(r) \/ PlaceStop(r) \/ PlaceNow(r)

Step ==
    \/ StartLimit \/ CheckLimit \/ StartMarket
    \/ (\E m \in OrderId : MatchOne(m)) \/ MatchDone
    \/ RecordTrade \/ Pay \/ PayRaises \/ BookBuyer \/ BookSeller \/ Advance \/ Finish
    \/ ReleaseHold \/ ReserveRest \/ ReserveRaises
    \/ SaveResting \/ SavePlaced \/ SaveAndReturn
    \/ (\E i \in OrderId : Activate(i)) \/ Quiescent

Next == place \/ (\E i \in OrderId : cancel(i)) \/ SetKillSwitch \/ Step

\* A call runs to its end: nothing in it waits for another.
Spec == Init /\ [][Next]_vars /\ WF_vars(Step)

-----------------------------------------------------------------------------
PC == {"idle", "start", "risk", "match", "settle", "pay", "book buy", "book sell", "advance",
       "release", "reserve", "save", "triggers"}
FillRecord == [maker : OrderId, price : Int, qty : Nat \ {0}]
Trade == [buy : OrderId, sell : OrderId, buyer : Account, seller : Account,
          symbol : Symbol, price : Int, qty : Nat \ {0}]
Hold == [account : Account, amount : Nat]

TypeOK ==
    /\ req \in [OrderId -> Request \cup {NoRequest}]
    /\ status \in [OrderId -> Status \cup {"none"}]
    /\ filled \in [OrderId -> Int]
    /\ nextId \in 1 .. MaxOrders + 1
    /\ pendingStops \subseteq OrderId
    /\ lastPrice \in [Symbol -> Int]
    /\ open \in [OrderId -> Nat]
    /\ arrival \in [OrderId -> Nat]
    /\ arrivals \in Nat
    /\ balance \in [Account -> Int]
    /\ reserved \in [Account -> Int]
    /\ hold \in [OrderId -> Hold \cup {NoHold}]
    /\ posted \subseteq Nat
    /\ tape \in Seq(Trade)
    /\ position \in [Account -> [Symbol -> Int]]
    /\ kill \in BOOLEAN /\ cleared \in OrderId \cup {0} /\ restarts \in Nat
    /\ saved \in [OrderId -> [status : Status, filled : Int] \cup {NoRow}]
    /\ pc \in PC
    /\ taker \in OrderId \cup {0} /\ subject \in OrderId \cup {0}
    /\ fills \in Seq(FillRecord)
    /\ left \in Int /\ budget \in Int

Idle == pc = "idle"

\* Between calls, none of which was cut short by a settlement that raised.
Settled == Idle /\ posted = DOMAIN tape

\* An open limit order that is to rest: it is in the book, whole or in part.
Working(i) == status[i] \in Open /\ IsLimit(i) /\ req[i].tif = "gtc"

\* When settled, the book offers exactly what the orders have left, and that is what they
\* asked less what the tape shows for them: a fill consumed from the book always reaches
\* the order's own record, whoever matched it and however often, and nothing closed is for
\* sale.
Volume(trades) == SumFunction([n \in trades |-> tape[n].qty])
TapeVolume(i) == Volume({n \in DOMAIN tape : i \in {tape[n].buy, tape[n].sell}})
BookMatchesOrders ==
    Settled => \A i \in Used :
        /\ open[i] = IF Working(i) THEN Remaining(i) ELSE 0
        /\ filled[i] = TapeVolume(i) /\ (filled[i] > 0 => filled[i] <= req[i].qty)

\* When settled, the cash set aside is the cost of what each open buy can still take,
\* to the cent, and no reservation outlives its order ("no orphaned holds remain"); at every
\* step the ledger's running total of an account is the sum of its holds.
HoldsMatchOrders ==
    /\ Settled => \A i \in Used :
        hold[i] = IF Working(i) /\ IsBuy(i)
                  THEN [account |-> req[i].account, amount |-> Notional(i, Remaining(i))]
                  ELSE NoHold
    /\ \A a \in Account :
        reserved[a] = SumFunction([i \in {j \in OrderId : hold[j].account = a} |-> hold[i].amount])

\* When settled, buying power is not overdrawn: roundings of separate fills, re-reservations and the
\* cash-bounded sweep of market buys never take an account below what it has set aside.
Solvent == Settled => \A a \in Account : available(a) >= 0

\* Every recorded trade has moved its cash once the call that made it is over.
EveryTradeSettles == Idle => posted = DOMAIN tape

\* An account's position is what it bought less what it sold in the trades that settled.
PositionsFollowTape ==
    Idle => \A a \in Account, s \in Symbol :
        position[a][s] = Volume({n \in posted : tape[n].symbol = s /\ tape[n].buyer = a})
                       - Volume({n \in posted : tape[n].symbol = s /\ tape[n].seller = a})

\* Between calls no pending stop is one the last trade has triggered: the cascade runs out.
NoStopLeftBehind == Idle => \A s \in Symbol : Ready(s) = {}

\* While the kill switch is engaged, nothing trades but the one order that had already passed
\* its check when the switch was thrown: no ticket accepted before or after, and no stop that
\* the order's own fills trigger.
NoTradesWhileHalted == [][kill /\ tape' # tape => taker = cleared]_vars

Final == {"filled", "rejected", "canceled"}

\* Every call returns: sweeps, settlements and stop cascades all end.
EveryCallReturns == []<>Idle

-----------------------------------------------------------------------------
\* The book of one symbol as PriceTimePriority sees it.
RestingOrders(s) ==
    [i \in OrderId |->
        IF open[i] > 0 /\ req[i].symbol = s
        THEN [side |-> req[i].side, price |-> req[i].price, qty |-> open[i],
              arrival |-> arrival[i]]
        ELSE [side |-> "none", price |-> 0, qty |-> 0, arrival |-> 0]]
Incoming(s) ==
    IF pc = "match" /\ req[taker].symbol = s
    THEN [id |-> taker, side |-> req[taker].side,
          limit |-> IF IsLimit(taker) THEN req[taker].price ELSE 0, left |-> left]
    ELSE [id |-> 0, side |-> "none", limit |-> 0, left |-> 0]

Venue(s) == INSTANCE PriceTimePriority WITH
               resting <- RestingOrders(s),
               taker <- Incoming(s),
               Price <- {r.price : r \in Request} \cap (Nat \ {0}),
               Quantity <- {r.qty : r \in Request} \cap (Nat \ {0}),
               Arrival <- OrderId

\* The service uses a symbol's book the way a price-time venue is used: whatever the calls
\* interleave - cancels, partial fills, stops that activate long after they were accepted -
\* every fill goes to the best price and, there, to the order that has rested longest.
\* (Venue(s)!Spec; that most steps leave the venue alone is looked at first.)
KeepsPriority ==
    /\ \A s \in Symbol : Venue(s)!Init
    /\ [][\A s \in Symbol :
            UNCHANGED <<RestingOrders(s), Incoming(s)>> \/ Venue(s)!Next]_vars
=============================================================================
