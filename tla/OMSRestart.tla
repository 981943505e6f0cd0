----------------------------- MODULE OMSRestart -----------------------------
(***************************************************************************)
(* OMS over process restarts.  The tables are what survives: journal,      *)
(* holds, trades and positions equal the memory they mirror at every step  *)
(* of OMS; the orders table is its variable saved.  Everything else is     *)
(* rebuilt by OMS._restore, Ledger.__init__ and TradeLog.__init__.         *)
(***************************************************************************)
EXTENDS OMS

CONSTANT MaxRestarts    \* bound: restarts of the process

ASSUME MaxRestartsAssumption == MaxRestarts \in Nat

Row(i) == saved[i] # NoRow
Rows == {i \in OrderId : Row(i)}
ReopensCanceled(i) == saved[i].status \in Open \cup {"canceled"}    \* mutation
Reopens(i) == saved[i].status \in Open /\ req[i].qty - saved[i].filled > 0
ReopenedWhole(i) == req[i].qty    \* mutation: the fills so far are forgotten
Reopened(i) == req[i].qty - saved[i].filled

LastTrade(s) ==
    LET trades == {n \in DOMAIN tape : tape[n].symbol = s}
    IN  IF trades = {} THEN 0 ELSE tape[Max(trades)].price

LastOpenId == Max({0} \cup {i \in Rows : saved[i].status \in Open})    \* mutation
LastId == Max({0} \cup Rows)

NewestFirst(i) == MaxOrders + 1 - i    \* mutation: the rows are read from the end
QueuedAs(i) == i

\* The rows are read in id order, so an id is also an arrival number.
Restore ==
    /\ req' = [i \in OrderId |-> IF Row(i) THEN req[i] ELSE NoRequest]
    /\ status' = [i \in OrderId |-> saved[i].status]
    /\ filled' = [i \in OrderId |-> saved[i].filled]
    /\ nextId' = 1 + LastId
    /\ pendingStops' = {i \in OrderId : saved[i].status = "pending"}
    /\ lastPrice' = [s \in Symbol |-> LastTrade(s)]
    /\ open' = [i \in OrderId |-> IF Reopens(i) THEN Reopened(i) ELSE 0]
    /\ arrival' = [i \in OrderId |-> IF Reopens(i) THEN QueuedAs(i) ELSE 0]
    /\ arrivals' = MaxOrders
    /\ kill' = FALSE /\ cleared' = 0
    /\ EndCall
    /\ restarts' = restarts + 1
    /\ UNCHANGED <<ledgerVars, tradeVars, saved>>

MayRestart == restarts < MaxRestarts

\* The process is stopped between two calls, or dies inside one.
Restart == MayRestart /\ pc = "idle" /\ Restore
Crash == MayRestart /\ pc # "idle" /\ Restore

SpecRestart == Init /\ [][Next \/ Restart]_vars
SpecCrash == Init /\ [][Next \/ Restart \/ Crash]_vars

-----------------------------------------------------------------------------
\* A clean restart gives the client the orders, the fills, the open quantities, the
\* pending stops and the last price the process had when it stopped, and the orders that
\* rested when they came in keep their places in the queue.
SamePlace(i, j) ==
    /\ open[i] > 0 /\ open[j] > 0
    /\ req[i].order_type = "limit" /\ req[j].order_type = "limit"
    /\ req[i].symbol = req[j].symbol /\ req[i].side = req[j].side /\ req[i].price = req[j].price
RestartLosesNothing ==
    [][Restart =>
          /\ UNCHANGED <<req, status, filled, nextId, pendingStops, lastPrice, open>>
          /\ \A i, j \in OrderId :
                SamePlace(i, j) /\ arrival[i] < arrival[j] => arrival'[i] < arrival'[j]]_vars

\* Wherever the process dies, an order the table shows as finished stays finished, with
\* that fill, in every later life of the process.
WrittenFinalStays ==
    [][\A i \in OrderId : saved[i].status \in Final => saved'[i] = saved[i]]_vars

\* Wherever the process dies, cash only ever moved for trades the log shows.
PaidTradesAreLogged == posted \subseteq DOMAIN tape

\* Wherever the process dies, the rebuilt book does not trade with itself, nor do the
\* orders that come to rest in it later.
RestoredBookUncrossed ==
    \A i, j \in OrderId :
        open[i] > 0 /\ open[j] > 0 /\ IsBuy(i) /\ ~IsBuy(j) /\ req[i].symbol = req[j].symbol
            => req[i].price < req[j].price

\* "no orphaned holds remain": a reservation belongs to an open buy order, but for at most
\* one that each crash can leave behind.
Orphaned(i) == hold[i] # NoHold /\ ~(i \in Used /\ Working(i) /\ IsBuy(i))
OneOrphanPerCrash == Idle => Cardinality({i \in OrderId : Orphaned(i)}) <= restarts

\* Wherever the process dies, only the call in flight can be misremembered: every other
\* order comes back with the ticket, status, fill and open quantity it had.
InFlight == {taker, subject} \cup {fills[n].maker : n \in DOMAIN fills}
OnlyTheCallInFlightSuffers ==
    [][restarts' # restarts => \A i \in OrderId \ InFlight :
          /\ req'[i] = req[i] /\ status'[i] = status[i]
          /\ filled'[i] = filled[i] /\ open'[i] = open[i]]_vars
=============================================================================
