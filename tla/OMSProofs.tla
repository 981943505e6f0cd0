----------------------------- MODULE OMSProofs -----------------------------
(***************************************************************************)
(* Theorems about the order service for every set of accounts, symbols and *)
(* tickets, every multiplier and every initial cash.  First the kill       *)
(* switch, payments, types and settlement; then the books: that the venue, *)
(* the orders, the tape, the positions, the reservations and the cash      *)
(* always tell one story; last the venue, which is used as a price-time    *)
(* venue is used.                                                          *)
(*                                                                         *)
(* A call is cut into steps, and between its steps the books differ by     *)
(* what the fill in hand has not reached yet.  The invariant of the books  *)
(* says for each step what that is.                                        *)
(***************************************************************************)
EXTENDS OMSRestart, SumTheorems

USE DEF processVars, orderVars, bookVars, ledgerVars, tradeVars, callVars

-----------------------------------------------------------------------------
(* The kill switch. *)

\* No order is being placed between calls, and an order that is being filled while the switch
\* is on is the one that was being filled when it was thrown.
OnlyTheClearedTrades ==
    /\ pc = "idle" => taker = 0
    /\ kill /\ PastItsCheck => taker = cleared

\* While the kill switch (risk.py) is on nothing trades but the order that was past its check
\* when it was thrown, restarts and crashes included.
THEOREM HaltIsRespected == SpecCrash => NoTradesWhileHalted
<1>1. Init => OnlyTheClearedTrades
  BY DEF Init, OnlyTheClearedTrades, PastItsCheck
<1>2. OnlyTheClearedTrades /\ [Next \/ Restart \/ Crash]_vars => OnlyTheClearedTrades'
  <2> SUFFICES ASSUME OnlyTheClearedTrades, [Next \/ Restart \/ Crash]_vars
               PROVE  OnlyTheClearedTrades'
    OBVIOUS
  <2> USE DEF OnlyTheClearedTrades, PastItsCheck
  <2>1. ASSUME NEW r \in Request, PlaceInvalid(r) \/ PlaceStop(r) \/ PlaceNow(r)
        PROVE  OnlyTheClearedTrades'
    BY <2>1 DEF PlaceInvalid, PlaceStop, PlaceNow, Register, Conclude, Goto
  <2>2. ASSUME NEW i \in OrderId, cancel(i) PROVE OnlyTheClearedTrades'
    BY <2>2 DEF cancel, Goto
  <2>3. CASE SetKillSwitch
    BY <2>3 DEF SetKillSwitch
  <2>4. CASE StartLimit
    BY <2>4 DEF StartLimit, Conclude, Goto
  <2>5. CASE CheckLimit
    BY <2>5 DEF CheckLimit, LimitAllowed, QuantityAllowed, Conclude, ThenWrite, Sweep, Goto
  <2>6. CASE StartMarket
    BY <2>6 DEF StartMarket, QuantityAllowed, Conclude, Sweep, Goto
  <2>7. ASSUME NEW m \in OrderId, MatchOne(m) PROVE OnlyTheClearedTrades'
    BY <2>7 DEF MatchOne
  <2>8. CASE MatchDone
    BY <2>8 DEF MatchDone, Goto
  <2>9. CASE RecordTrade \/ Pay \/ PayRaises \/ BookBuyer \/ BookSeller
    <3>1. CASE RecordTrade
      BY <3>1 DEF RecordTrade, Goto
    <3>2. CASE PayRaises
      BY <3>2 DEF PayRaises, EndCall, Goto
    <3>3. CASE Pay \/ BookBuyer \/ BookSeller
      <4> DEFINE Elsewhere == {"idle", "start", "risk", "triggers", "release", "reserve", "save"}
      <4>1. kill' = kill /\ cleared' = cleared /\ taker' = taker
        BY <3>3, Zenon DEF Pay, BookBuyer, BookSeller, BookPosition
      <4>2. pc \notin Elsewhere
        BY <3>3, Zenon DEF Pay, BookBuyer, BookSeller
      <4>3. pc' \notin Elsewhere
        BY <3>3, Zenon DEF Pay, BookBuyer, BookSeller, Goto
      <4> QED BY <4>1, <4>2, <4>3
    <3> QED BY <2>9, <3>1, <3>2, <3>3
  <2>10. CASE Advance \/ Finish
    BY <2>10 DEF Advance, Finish, Conclude, ThenWrite, Goto
  <2>11. CASE ReleaseHold \/ ReserveRest \/ ReserveRaises
    BY <2>11 DEF ReleaseHold, ReserveRest, ReserveRaises, EndCall, Goto
  <2>12. CASE SaveResting \/ SavePlaced \/ SaveAndReturn
    <3>1. CASE SaveResting
      BY <3>1 DEF SaveResting, WriteRow, Goto
    <3>2. CASE SavePlaced
      BY <3>2 DEF SavePlaced, WriteRow, Goto
    <3>3. CASE SaveAndReturn
      BY <3>3 DEF SaveAndReturn, WriteRow, EndCall, Goto
    <3> QED BY <2>12, <3>1, <3>2, <3>3
  <2>13. ASSUME NEW i \in OrderId, Activate(i) PROVE OnlyTheClearedTrades'
    BY <2>13 DEF Activate, Goto
  <2>14. CASE Quiescent
    BY <2>14 DEF Quiescent, EndCall, Goto
  <2>15. CASE Restart \/ Crash
    BY <2>15 DEF Restart, Crash, Restore, EndCall, Goto
  <2>16. CASE UNCHANGED vars
    BY <2>16 DEF vars
  <2> QED
    BY <2>1, <2>2, <2>3, <2>4, <2>5, <2>6, <2>7, <2>8, <2>9, <2>10, <2>11, <2>12, <2>13,
       <2>14, <2>15, <2>16 DEF Next, place, Step
<1>3. OnlyTheClearedTrades /\ [Next \/ Restart \/ Crash]_vars
        => [kill /\ tape' # tape => taker = cleared]_vars
  <2> SUFFICES ASSUME OnlyTheClearedTrades, [Next \/ Restart \/ Crash]_vars
               PROVE  kill /\ tape' # tape => taker = cleared
    OBVIOUS
  <2>1. CASE RecordTrade
    BY <2>1 DEF RecordTrade, OnlyTheClearedTrades, PastItsCheck
  <2>2. CASE ~RecordTrade
    <3>1. tape' = tape
      BY <2>2, ZenonT(60) DEF Next, place, Step, PlaceInvalid, PlaceStop, PlaceNow, Register,
         cancel, SetKillSwitch, StartLimit, CheckLimit, StartMarket, MatchOne, MatchDone,
         Pay, PayRaises, BookBuyer, BookSeller, BookPosition, Advance, Finish,
         ReleaseHold, ReserveRest, ReserveRaises, SaveResting, SavePlaced, SaveAndReturn,
         WriteRow, Activate, Quiescent, Restart, Crash, Restore, vars
    <3> QED BY <3>1
  <2> QED BY <2>1, <2>2
<1> QED BY <1>1, <1>2, <1>3, PTL DEF SpecCrash, NoTradesWhileHalted

-----------------------------------------------------------------------------
(* Payments. *)

\* A payment is made under the number of a trade that is on the tape already, and the
\* tape only grows, so numbers are never taken back.
PaymentsFollowTape ==
    /\ \E S : tape \in Seq(S)
    /\ posted \subseteq DOMAIN tape
    /\ pc = "pay" => Len(tape) > 0

\* The last trade's number is one of the log's.
LEMMA LastIsLogged ==
  ASSUME NEW S, NEW s \in Seq(S), Len(s) > 0
  PROVE  Len(s) \in DOMAIN s
OBVIOUS

\* Appending keeps the numbers of a log and adds one.
LEMMA LogGrows ==
  ASSUME NEW S, NEW s \in Seq(S), NEW e
  PROVE  /\ Append(s, e) \in Seq(S \cup {e})
         /\ DOMAIN s \subseteq DOMAIN Append(s, e)
         /\ Len(Append(s, e)) > 0
<1>1. s \in Seq(S \cup {e}) /\ Len(s) \in Nat /\ DOMAIN s = 1 .. Len(s)
  OBVIOUS
<1>2. Append(s, e) \in Seq(S \cup {e}) /\ Len(Append(s, e)) = Len(s) + 1
  BY <1>1
<1> QED BY <1>1, <1>2

\* Wherever the process stops or dies, cash has only moved for trades the log shows
\* (oms.py records each trade before it transfers its value).
THEOREM PaymentsAreLogged == SpecCrash => []PaidTradesAreLogged
<1>1. Init => PaymentsFollowTape
  <2>1. <<>> \in Seq({})
    OBVIOUS
  <2> QED BY <2>1 DEF Init, PaymentsFollowTape
<1>2. PaymentsFollowTape /\ [Next \/ Restart \/ Crash]_vars => PaymentsFollowTape'
  <2> SUFFICES ASSUME PaymentsFollowTape, [Next \/ Restart \/ Crash]_vars
               PROVE  PaymentsFollowTape'
    OBVIOUS
  <2> USE DEF PaymentsFollowTape
  <2>1. CASE RecordTrade
    <3>1. PICK e : tape' = Append(tape, e)
      BY <2>1 DEF RecordTrade
    <3>2. PICK S : tape \in Seq(S)
      OBVIOUS
    <3>3. posted' = posted
      BY <2>1 DEF RecordTrade
    <3> QED BY <3>1, <3>2, <3>3, LogGrows
  <2>2. CASE Pay
    <3>1. tape' = tape /\ posted' = posted \cup {Len(tape)} /\ pc' = "book buy" /\ Len(tape) > 0
      BY <2>2 DEF Pay, TxnId, Goto
    <3>2. PICK S : tape \in Seq(S)
      OBVIOUS
    <3>3. Len(tape) \in DOMAIN tape
      BY <3>1, <3>2, LastIsLogged
    <3> QED BY <3>1, <3>3
  <2>3. ASSUME UNCHANGED <<tape, posted>>, pc' # "pay" PROVE PaymentsFollowTape'
    BY <2>3
  <2>4. ASSUME NEW r \in Request, PlaceInvalid(r) \/ PlaceStop(r) \/ PlaceNow(r)
        PROVE  PaymentsFollowTape'
    BY <2>3, <2>4 DEF PlaceInvalid, PlaceStop, PlaceNow, Register, Goto
  <2>5. ASSUME NEW i \in OrderId, cancel(i) PROVE PaymentsFollowTape'
    BY <2>3, <2>5 DEF cancel, Goto
  <2>6. CASE SetKillSwitch
    BY <2>3, <2>6 DEF SetKillSwitch
  <2>7. CASE StartLimit \/ CheckLimit \/ StartMarket
    <3>1. UNCHANGED <<tape, posted>>
      BY <2>7 DEF StartLimit, CheckLimit, StartMarket
    <3>2. pc' # "pay"
      BY <2>7 DEF StartLimit, CheckLimit, StartMarket, ThenWrite, Sweep, Goto
    <3> QED BY <2>3, <3>1, <3>2
  <2>8. ASSUME NEW m \in OrderId, MatchOne(m) PROVE PaymentsFollowTape'
    <3>1. UNCHANGED <<tape, posted>> /\ pc' = pc /\ pc = "match"
      BY <2>8 DEF MatchOne
    <3> QED BY <2>3, <3>1
  <2>9. CASE MatchDone
    BY <2>3, <2>9 DEF MatchDone, Goto
  <2>10. CASE PayRaises
    BY <2>3, <2>10 DEF PayRaises, EndCall, Goto
  <2>11. CASE BookBuyer \/ BookSeller
    <3>1. UNCHANGED <<tape, posted>>
      BY <2>11, Zenon DEF BookBuyer, BookSeller, BookPosition
    <3>2. pc' \in {"book sell", "advance"}
      BY <2>11, Zenon DEF BookBuyer, BookSeller, Goto
    <3> QED BY <2>3, <3>1, <3>2
  <2>12. CASE Advance \/ Finish \/ ReleaseHold \/ ReserveRest \/ ReserveRaises
    <3>1. UNCHANGED <<tape, posted>>
      BY <2>12 DEF Advance, Finish, ReleaseHold, ReserveRest, ReserveRaises
    <3>2. pc' # "pay"
      BY <2>12 DEF Advance, Finish, ReleaseHold, ReserveRest, ReserveRaises, ThenWrite, EndCall,
                   Goto
    <3> QED BY <2>3, <3>1, <3>2
  <2>13. CASE SaveResting \/ SavePlaced \/ SaveAndReturn
    <3>1. UNCHANGED <<tape, posted>>
      BY <2>13 DEF SaveResting, SavePlaced, SaveAndReturn, WriteRow
    <3>2. pc' # "pay"
      BY <2>13 DEF SaveResting, SavePlaced, SaveAndReturn, EndCall, Goto
    <3> QED BY <2>3, <3>1, <3>2
  <2>14. ASSUME NEW i \in OrderId, Activate(i) PROVE PaymentsFollowTape'
    BY <2>3, <2>14 DEF Activate, Goto
  <2>15. CASE Quiescent
    BY <2>3, <2>15 DEF Quiescent, EndCall, Goto
  <2>16. CASE Restart \/ Crash
    <3>1. UNCHANGED <<tape, posted>> /\ pc' = "idle"
      BY <2>16 DEF Restart, Crash, Restore, EndCall, Goto
    <3> QED BY <2>3, <3>1
  <2>17. CASE UNCHANGED vars
    BY <2>17 DEF vars
  <2> QED
    BY <2>1, <2>2, <2>4, <2>5, <2>6, <2>7, <2>8, <2>9, <2>10, <2>11, <2>12, <2>13, <2>14,
       <2>15, <2>16, <2>17 DEF Next, place, Step
<1>3. PaymentsFollowTape => PaidTradesAreLogged
  BY DEF PaymentsFollowTape, PaidTradesAreLogged
<1> QED BY <1>1, <1>2, <1>3, PTL DEF SpecCrash
-----------------------------------------------------------------------------
(* Typing. *)

\* What TypeOK needs to be inductive: who is an order, and what each stage of a call has at
\* hand.  Only registered orders have a status, rest, are pending or are matched; a call
\* in progress has its order, a settlement its fill, a write its subject.  What rests, or
\* sweeps with a limit, has passed the check of its price.
CallsAreInOrder ==
    /\ \A i \in Used : i < nextId
    /\ \A i \in OrderId : status[i] # "none" <=> i \in Used
    /\ \A i \in OrderId : open[i] > 0 => i \in Used /\ req[i].price > 0
    /\ pc = "match" /\ req[taker].order_type \in {"limit", "stop_limit"} => req[taker].price > 0
    /\ pendingStops \subseteq Used
    /\ \A n \in DOMAIN fills : fills[n].maker \in Used
    /\ taker # 0 => taker \in Used
    /\ pc = "idle" => taker = 0
    /\ pc \in {"start", "risk", "match", "settle", "pay", "book buy", "book sell", "advance",
               "triggers"} => taker # 0
    /\ pc \in {"pay", "book buy", "book sell", "advance"} => fills # <<>>
    /\ pc \in {"release", "reserve", "save"} =>
          /\ subject \in Used
          /\ taker # 0 /\ subject # taker => fills # <<>>

WellFormed == TypeOK /\ CallsAreInOrder

\* Values of fills and of whole orders are whole cents.
LEMMA ValueIsInt ==
  ASSUME TypeOK, NEW i \in Used, NEW price \in Int, NEW qty \in Int
  PROVE  Value(i, price, qty) \in Int
<1>1. req[i] \in Request
  BY DEF TypeOK, Used
<1>2. req[i].symbol \in Symbol
  BY <1>1, OMSAssumption
<1>3. Multiplier[req[i].symbol] \in Nat
  BY <1>2, OMSAssumption
<1>4. price * qty * Multiplier[req[i].symbol] \in Int
  BY <1>3
<1>5. QuantityScale \in Nat /\ QuantityScale > 0
  BY QuantityScaleAssumption
<1> QED BY <1>4, <1>5 DEF Value, notional_cents

\* A registered order is a ticket.
LEMMA UsedIsTicket ==
  ASSUME TypeOK, NEW i \in Used
  PROVE  /\ req[i] \in Request
         /\ req[i].account \in Account /\ req[i].account # "none" /\ req[i].symbol \in Symbol
         /\ req[i].price \in Int /\ req[i].qty \in Int
<1>1. req[i] \in Request
  BY DEF TypeOK, Used
<1> QED BY <1>1, OMSAssumption

LEMMA MinOfTwo ==
  ASSUME NEW a \in Int, NEW b \in Int
  PROVE  Min({a, b}) \in Int /\ Min({a, b}) <= a /\ Min({a, b}) <= b
<1>1. \E x \in {a, b} : \A y \in {a, b} : x <= y
  <2>1. CASE a <= b
    BY <2>1
  <2>2. CASE b <= a
    BY <2>2
  <2> QED BY <2>1, <2>2
<1>2. Min({a, b}) \in {a, b} /\ \A y \in {a, b} : Min({a, b}) <= y
  BY <1>1 DEF Min
<1> QED BY <1>2

\* place registers a ticket under the next id.
LEMMA PlacingIsWellFormed ==
  ASSUME WellFormed, NEW r \in Request, PlaceInvalid(r) \/ PlaceStop(r) \/ PlaceNow(r)
  PROVE  WellFormed'
<1>1. /\ pc = "idle" /\ nextId \in OrderId
      /\ req' = [req EXCEPT ![nextId] = r] /\ nextId' = nextId + 1
      /\ UNCHANGED <<filled, lastPrice, bookVars, ledgerVars, tradeVars, processVars, saved,
                     fills, left, budget>>
  BY DEF PlaceInvalid, PlaceStop, PlaceNow, Register
<1>2. PICK st \in {"new", "pending", "rejected"} : status' = [status EXCEPT ![nextId] = st]
  BY DEF PlaceInvalid, PlaceStop, PlaceNow, Conclude
<1>3. /\ pendingStops' = pendingStops \/ pendingStops' = pendingStops \cup {nextId}
      /\ \/ pc' = "save" /\ subject' = nextId /\ taker' \in {taker, nextId}
         \/ pc' = "start" /\ UNCHANGED subject /\ taker' = nextId
  BY DEF PlaceInvalid, PlaceStop, PlaceNow, Conclude, Goto
<1>4. r # NoRequest
  BY OMSAssumption DEF NoRequest
<1>5. nextId' \in 1 .. MaxOrders + 1
  BY <1>1, OMSAssumption DEF OrderId
<1>6. TypeOK'
  BY <1>1, <1>2, <1>3, <1>5 DEF WellFormed, TypeOK, Status, PC
<1>7. CallsAreInOrder'
  <2>1. Used' = Used \cup {nextId}
    BY <1>1, <1>4 DEF Used, WellFormed, TypeOK
  <2>2. taker = 0
    BY <1>1 DEF WellFormed, CallsAreInOrder
  <2>3. \A i \in OrderId : (status[i] # "none" <=> i \in Used)'
    BY <1>1, <1>2, <2>1 DEF WellFormed, TypeOK, CallsAreInOrder
  <2>4. (\A i \in OrderId : open[i] > 0 => i \in Used /\ req[i].price > 0)' /\ (pendingStops \subseteq Used)'
    <3>1. ~(open[nextId] > 0)
      <4>1. nextId \notin Used
        BY <1>1 DEF WellFormed, TypeOK, CallsAreInOrder
      <4> QED BY <1>1, <4>1 DEF WellFormed, CallsAreInOrder
    <3>2. \A i \in OrderId : open'[i] > 0 => i \in Used'
      BY <1>1, <2>1 DEF WellFormed, CallsAreInOrder
    <3>3. \A i \in OrderId : open'[i] > 0 => req'[i].price > 0
      BY <1>1, <3>1 DEF WellFormed, TypeOK, CallsAreInOrder
    <3> QED BY <1>1, <1>3, <2>1, <3>2, <3>3 DEF WellFormed, CallsAreInOrder
  <2>5. (\A n \in DOMAIN fills : fills[n].maker \in Used)'
    BY <1>1, <2>1 DEF WellFormed, CallsAreInOrder
  <2>6. nextId \in Used' /\ nextId # 0
    BY <1>1, <2>1 DEF OrderId
  <2>7. (\A i \in Used : i < nextId)'
    BY <1>1, <2>1 DEF WellFormed, TypeOK, CallsAreInOrder, OrderId
  <2> QED BY <1>3, <2>2, <2>3, <2>4, <2>5, <2>6, <2>7 DEF CallsAreInOrder
<1> QED BY <1>6, <1>7 DEF WellFormed

\* An empty list of fills has no fill.
LEMMA EmptyHasNoIndex == DOMAIN <<>> = {}
<1>1. <<>> \in Seq({}) /\ Len(<<>>) = 0
  OBVIOUS
<1>2. DOMAIN <<>> = 1 .. Len(<<>>)
  BY <1>1
<1> QED BY <1>1, <1>2

LEMMA NoFillsTyped == <<>> \in Seq(FillRecord)
OBVIOUS

\* The rest of a list is the list moved by one.
LEMMA TailShifts ==
  ASSUME NEW S, NEW s \in Seq(S), s # <<>>
  PROVE  /\ Head(s) \in S /\ Head(s) = s[1] /\ 1 \in DOMAIN s
         /\ Tail(s) \in Seq(S)
         /\ \A n \in DOMAIN Tail(s) : n + 1 \in DOMAIN s /\ Tail(s)[n] = s[n + 1]
<1>1. Len(s) \in Nat /\ Len(s) > 0 /\ DOMAIN s = 1 .. Len(s)
  OBVIOUS
<1>2. Tail(s) \in Seq(S) /\ Len(Tail(s)) = Len(s) - 1
  BY <1>1
<1>3. DOMAIN Tail(s) = 1 .. (Len(s) - 1)
  BY <1>1, <1>2
<1> QED BY <1>1, <1>2, <1>3

\* A step that registers and matches nothing keeps the calls in order if it keeps what the next stage needs.
LEMMA SameOrders ==
  ASSUME WellFormed, UNCHANGED <<req, nextId>>,
         \A i \in OrderId : open'[i] > 0 => i \in Used /\ req[i].price > 0,
         pc' = "match" /\ req[taker'].order_type \in {"limit", "stop_limit"} => req[taker'].price > 0,
         \A i \in OrderId : status'[i] # "none" <=> status[i] # "none",
         pendingStops' \subseteq pendingStops,
         fills' = fills \/ fills' = <<>> \/ (fills # <<>> /\ fills' = Tail(fills)),
         taker' # 0 => taker' \in Used,
         pc' = "idle" => taker' = 0,
         pc' \in {"start", "risk", "match", "settle", "pay", "book buy", "book sell", "advance",
                  "triggers"} => taker' # 0,
         pc' \in {"pay", "book buy", "book sell", "advance"} => fills' # <<>>,
         pc' \in {"release", "reserve", "save"} =>
            subject' \in Used /\ (taker' # 0 /\ subject' # taker' => fills' # <<>>)
  PROVE  CallsAreInOrder'
<1>1. Used' = Used
  BY DEF Used
<1>2. \A n \in DOMAIN fills' : fills'[n].maker \in Used
  <2>1. fills \in Seq(FillRecord) /\ \A n \in DOMAIN fills : fills[n].maker \in Used
    BY DEF WellFormed, TypeOK, CallsAreInOrder
  <2>2. CASE fills # <<>> /\ fills' = Tail(fills)
    <3>1. \A n \in DOMAIN Tail(fills) : n + 1 \in DOMAIN fills /\ Tail(fills)[n] = fills[n + 1]
      BY <2>1, <2>2, TailShifts
    <3> QED BY <2>1, <2>2, <3>1
  <2>3. CASE fills' = fills
    BY <2>1, <2>3
  <2>4. CASE fills' = <<>>
    <3>1. DOMAIN fills' = {}
      BY <2>4, EmptyHasNoIndex
    <3> QED BY <3>1
  <2> QED BY <2>2, <2>3, <2>4
<1> QED BY <1>1, <1>2 DEF WellFormed, CallsAreInOrder

\* A reservation the ledger accepts keeps its books typed.
LEMMA ReservingIsTyped ==
  ASSUME TypeOK, NEW i \in Used, NEW amount \in Int, CanReserve(i, amount), Reserve(i, amount)
  PROVE  /\ hold' \in [OrderId -> Hold \cup {NoHold}]
         /\ reserved' \in [Account -> Int]
<1>1. amount \in Nat
  BY DEF CanReserve
<1>2. [account |-> req[i].account, amount |-> amount] \in Hold
  BY <1>1, UsedIsTicket DEF Hold
<1>3. i \in OrderId
  BY DEF Used
<1>4. hold' = [hold EXCEPT ![i] = [account |-> req[i].account, amount |-> amount]]
  BY DEF Reserve
<1>5. hold' \in [OrderId -> Hold \cup {NoHold}]
  BY <1>2, <1>3, <1>4 DEF TypeOK
<1>6. reserved' = [reserved EXCEPT ![req[i].account] = reserved[req[i].account] + amount]
  BY DEF Reserve
<1>7. reserved' \in [Account -> Int]
  BY <1>1, <1>6, UsedIsTicket DEF TypeOK
<1> QED BY <1>5, <1>7

\* Risk and the reservation, up to the sweep.
LEMMA StartingIsWellFormed ==
  ASSUME WellFormed, StartLimit \/ CheckLimit \/ StartMarket
  PROVE  WellFormed'
<1> USE DEF WellFormed
<1>1. taker \in Used /\ taker \in OrderId /\ taker # 0 /\ status[taker] # "none"
  BY DEF StartLimit, CheckLimit, StartMarket, CallsAreInOrder, Used
<1>2. req[taker].qty \in Int /\ Notional(taker, req[taker].qty) \in Int
  BY <1>1, UsedIsTicket, ValueIsInt DEF Notional
<1>3. /\ UNCHANGED <<req, filled, nextId, pendingStops, lastPrice, bookVars, balance, posted,
                     tradeVars, processVars, saved, taker, fills>>
      /\ left' \in {left, req[taker].qty}
      /\ budget' \in {budget, available(req[taker].account)}
  BY DEF StartLimit, CheckLimit, StartMarket, Sweep
<1>4. \/ pc' = "risk" /\ UNCHANGED <<status, subject>>
      \/ pc' = "match" /\ UNCHANGED <<status, subject>>
      \/ /\ pc' \in {"save", "release"}
         /\ subject' = taker
         /\ \E st \in {"rejected", "canceled"} : status' = [status EXCEPT ![taker] = st]
  BY DEF StartLimit, CheckLimit, StartMarket, Sweep, Conclude, ThenWrite, Goto
<1>5. \/ UNCHANGED <<hold, reserved>>
      \/ /\ CanReserve(taker, Notional(taker, req[taker].qty))
         /\ Reserve(taker, Notional(taker, req[taker].qty))
  BY DEF StartLimit, CheckLimit, StartMarket
<1>6. hold' \in [OrderId -> Hold \cup {NoHold}] /\ reserved' \in [Account -> Int]
  <2>1. CASE UNCHANGED <<hold, reserved>>
    BY <2>1 DEF TypeOK
  <2>2. CASE ~UNCHANGED <<hold, reserved>>
    BY <1>1, <1>2, <1>5, <2>2, ReservingIsTyped
  <2> QED BY <2>1, <2>2
<1>7. available(req[taker].account) \in Int
  BY <1>1, UsedIsTicket DEF TypeOK, available
<1>8. status' \in [OrderId -> Status \cup {"none"}] /\ pc' \in PC /\ subject' \in OrderId \cup {0}
  BY <1>1, <1>4 DEF TypeOK, Status, PC
<1>9. TypeOK'
  BY <1>2, <1>3, <1>6, <1>7, <1>8 DEF TypeOK
<1>10. \A i \in OrderId : status'[i] # "none" <=> status[i] # "none"
  BY <1>1, <1>4 DEF TypeOK
<1>11. pc' = "match" /\ IsLimit(taker) => req[taker].price > 0
  BY <1>4 DEF StartLimit, CheckLimit, StartMarket, LimitAllowed, ThenWrite, Goto
<1>12. CallsAreInOrder'
  BY <1>1, <1>3, <1>4, <1>10, <1>11, SameOrders DEF CallsAreInOrder, IsLimit
<1> QED BY <1>9, <1>12

\* A fill takes no more from the resting order than it has.
LEMMA MatchQtyFits ==
  ASSUME WellFormed, NEW m \in OrderId, MatchOne(m)
  PROVE  /\ MatchQty(m) \in Nat \ {0} /\ MatchQty(m) <= open[m]
         /\ m \in Used /\ taker \in Used
<1> USE DEF WellFormed
<1>1. pc = "match" /\ IsNext(m, taker) /\ MatchQty(m) > 0
  BY DEF MatchOne
<1>2. m \in Used /\ taker \in Used /\ open[m] \in Nat /\ left \in Int /\ budget \in Int
  BY <1>1 DEF IsNext, Opposite, TypeOK, CallsAreInOrder
<1> DEFINE wanted == Min({left, open[m]})
           unit == req[m].price * Multiplier[req[taker].symbol]
           affordable == (budget * QuantityScale) \div unit
<1>3. wanted \in Int /\ wanted <= open[m]
  <2>1. open[m] \in Int /\ left \in Int
    BY <1>2
  <2> HIDE DEF wanted
  <2>2. wanted = Min({left, open[m]})
    BY DEF wanted
  <2> QED BY <2>1, <2>2, MinOfTwo
<1>4. MatchQty(m) = IF IsLimit(taker) \/ ~IsBuy(taker) THEN wanted ELSE Min({wanted, affordable})
  BY DEF MatchQty
<1>5. CASE IsLimit(taker) \/ ~IsBuy(taker)
  BY <1>1, <1>2, <1>3, <1>4, <1>5
<1>6. CASE ~(IsLimit(taker) \/ ~IsBuy(taker))
  <2>1. affordable \in Int
    <3>1. req[m].price > 0 /\ req[m].price \in Int
      BY <1>1, <1>2, UsedIsTicket DEF CallsAreInOrder, IsNext, Opposite
    <3>2. Multiplier[req[taker].symbol] \in Nat /\ Multiplier[req[taker].symbol] > 0
      BY <1>2, UsedIsTicket, OMSAssumption
    <3>3. unit \in Int /\ unit > 0
      BY <3>1, <3>2
    <3>4. budget * QuantityScale \in Int
      BY <1>2, QuantityScaleAssumption
    <3> QED BY <3>3, <3>4
  <2>2. Min({wanted, affordable}) \in Int /\ Min({wanted, affordable}) <= wanted
    BY <1>3, <2>1, MinOfTwo
  <2> QED BY <1>1, <1>2, <1>3, <1>4, <1>6, <2>2
<1> QED BY <1>5, <1>6

\* One fill of a sweep.
LEMMA MatchingIsWellFormed ==
  ASSUME WellFormed, NEW m \in OrderId, MatchOne(m)
  PROVE  WellFormed'
<1> USE DEF WellFormed
<1> DEFINE qty == MatchQty(m)
           fill == [maker |-> m, price |-> req[m].price, qty |-> qty]
<1>1. qty \in Nat \ {0} /\ qty <= open[m] /\ m \in Used /\ taker \in Used
  BY MatchQtyFits
<1> HIDE DEF qty
<1>2. /\ pc = "match" /\ pc' = pc
      /\ UNCHANGED <<orderVars, arrivals, ledgerVars, tradeVars, processVars, saved, taker, subject>>
      /\ fills' = Append(fills, fill)
      /\ left' = left - qty
      /\ open' = [open EXCEPT ![m] = open[m] - qty]
      /\ arrival' = arrival \/ arrival' = [arrival EXCEPT ![m] = 0]
      /\ budget' = budget \/ budget' = budget - Value(taker, req[m].price, qty)
  BY DEF MatchOne, qty
<1>3. open' \in [OrderId -> Nat] /\ \A i \in OrderId : open'[i] <= open[i]
  BY <1>1, <1>2 DEF TypeOK
<1>4. req[m].price \in Int /\ fill \in FillRecord
  BY <1>1, UsedIsTicket DEF FillRecord
<1>5. fills' \in Seq(FillRecord)
  BY <1>2, <1>4 DEF TypeOK
<1>6. Value(taker, req[m].price, qty) \in Int
  BY <1>1, <1>4, ValueIsInt
<1>7. TypeOK'
  <2>1. left' \in Int /\ budget' \in Int
    BY <1>1, <1>2, <1>6 DEF TypeOK
  <2>2. arrival' \in [OrderId -> Nat]
    BY <1>2 DEF TypeOK
  <2> QED BY <1>2, <1>3, <1>5, <2>1, <2>2 DEF TypeOK
<1>8. \A n \in DOMAIN fills' : fills'[n].maker \in Used
  <2>1. fills \in Seq(FillRecord) /\ \A n \in DOMAIN fills : fills[n].maker \in Used
    BY DEF TypeOK, CallsAreInOrder
  <2>2. \A n \in DOMAIN Append(fills, fill) :
           (n \in DOMAIN fills /\ Append(fills, fill)[n] = fills[n]) \/ Append(fills, fill)[n] = fill
    BY <2>1, <1>4
  <2> HIDE DEF fill
  <2>3. fill.maker = m
    BY DEF fill
  <2> QED BY <1>1, <1>2, <2>1, <2>2, <2>3
<1>9. Used' = Used /\ taker # 0
  BY <1>1, <1>2 DEF Used, OrderId
<1>10. \A i \in OrderId : open'[i] > 0 => i \in Used /\ req[i].price > 0
  <2> SUFFICES ASSUME NEW i \in OrderId, open'[i] > 0 PROVE i \in Used /\ req[i].price > 0
    OBVIOUS
  <2>1. open[i] \in Nat /\ open'[i] \in Nat /\ open'[i] <= open[i]
    BY <1>3 DEF TypeOK
  <2>2. open[i] > 0
    BY <2>1
  <2> QED BY <2>2 DEF CallsAreInOrder
<1>11. CallsAreInOrder'
  BY <1>1, <1>2, <1>8, <1>9, <1>10 DEF CallsAreInOrder
<1> QED BY <1>7, <1>11

\* The end of a sweep: a remainder comes to rest.
LEMMA RestingIsWellFormed ==
  ASSUME WellFormed, MatchDone
  PROVE  WellFormed'
<1> USE DEF WellFormed
<1>1. pc = "match" /\ taker \in Used /\ taker \in OrderId /\ taker # 0
  BY DEF MatchDone, CallsAreInOrder, Used
<1>2. /\ pc' = "settle"
      /\ UNCHANGED <<orderVars, ledgerVars, tradeVars, processVars, saved, taker, subject, fills,
                     left, budget>>
      /\ \/ UNCHANGED bookVars
         \/ /\ left > 0 /\ IsLimit(taker)
            /\ open' = [open EXCEPT ![taker] = left]
            /\ arrival' = [arrival EXCEPT ![taker] = arrivals + 1]
            /\ arrivals' = arrivals + 1
  BY DEF MatchDone, Goto, Rests, NextArrival
<1>3. open' \in [OrderId -> Nat] /\ arrival' \in [OrderId -> Nat] /\ arrivals' \in Nat
  <2>1. CASE UNCHANGED bookVars
    BY <2>1 DEF TypeOK
  <2>2. CASE ~UNCHANGED bookVars
    <3>1. left \in Nat
      BY <1>2, <2>2 DEF TypeOK
    <3>2. arrivals + 1 \in Nat
      BY DEF TypeOK
    <3> QED BY <1>1, <1>2, <2>2, <3>1, <3>2 DEF TypeOK
  <2> QED BY <2>1, <2>2
<1>4. TypeOK'
  BY <1>2, <1>3 DEF TypeOK, PC
<1>5. \A i \in OrderId : open'[i] > 0 => i \in Used /\ req[i].price > 0
  BY <1>1, <1>2 DEF TypeOK, CallsAreInOrder, IsLimit
<1>6. CallsAreInOrder'
  BY <1>1, <1>2, <1>5, SameOrders DEF CallsAreInOrder
<1> QED BY <1>4, <1>6

\* The fill being settled is between two registered orders.
LEMMA FillIsOfOrders ==
  ASSUME WellFormed, taker # 0, fills # <<>>
  PROVE  /\ Fill \in FillRecord /\ Fill.maker \in Used /\ taker \in Used
         /\ BuyOrder \in Used /\ SellOrder \in Used
         /\ Tail(fills) \in Seq(FillRecord)
<1>1. fills \in Seq(FillRecord) /\ taker \in Used
  BY DEF WellFormed, TypeOK, CallsAreInOrder
<1>2. Fill \in FillRecord /\ Fill = fills[1] /\ 1 \in DOMAIN fills /\ Tail(fills) \in Seq(FillRecord)
  BY <1>1, TailShifts DEF Fill
<1>3. Fill.maker \in Used
  BY <1>2 DEF WellFormed, CallsAreInOrder
<1> QED BY <1>1, <1>2, <1>3 DEF BuyOrder, SellOrder

\* Returning to the caller, or leaving with an exception, leaves nothing of the call behind.
LEMMA EndingIsWellFormed ==
  ASSUME WellFormed, EndCall,
         UNCHANGED <<orderVars, bookVars, ledgerVars, tradeVars, processVars>>,
         saved' \in [OrderId -> [status : Status, filled : Int] \cup {NoRow}]
  PROVE  WellFormed'
<1>1. /\ pc' = "idle" /\ taker' = 0 /\ subject' = 0 /\ fills' = <<>> /\ left' = 0 /\ budget' = 0
  BY DEF EndCall, Goto
<1>2. TypeOK'
  <2>1. fills' \in Seq(FillRecord)
    BY <1>1, NoFillsTyped
  <2>2. pc' \in PC /\ taker' \in OrderId \cup {0} /\ subject' \in OrderId \cup {0}
    BY <1>1 DEF PC
  <2>3. left' \in Int /\ budget' \in Int
    BY <1>1
  <2> QED BY <2>1, <2>2, <2>3 DEF WellFormed, TypeOK
<1>3. CallsAreInOrder'
  BY <1>1, SameOrders DEF WellFormed, CallsAreInOrder
<1> QED BY <1>2, <1>3 DEF WellFormed

\* Recording, paying and booking a fill.
LEMMA SettlingIsWellFormed ==
  ASSUME WellFormed, RecordTrade \/ Pay \/ PayRaises \/ BookBuyer \/ BookSeller
  PROVE  WellFormed'
<1> USE DEF WellFormed
<1>1. taker # 0 /\ fills # <<>> /\ taker \in Used
  BY DEF RecordTrade, Pay, PayRaises, BookBuyer, BookSeller, CallsAreInOrder
<1>2. /\ Fill \in FillRecord /\ BuyOrder \in Used /\ SellOrder \in Used
      /\ Fill.price \in Int /\ Fill.qty \in Nat \ {0}
  BY <1>1, FillIsOfOrders DEF FillRecord
<1>3. CASE RecordTrade
  <2> DEFINE trade == [buy |-> BuyOrder, sell |-> SellOrder, buyer |-> req[BuyOrder].account,
                       seller |-> req[SellOrder].account, symbol |-> req[taker].symbol,
                       price |-> Fill.price, qty |-> Fill.qty]
  <2>1. trade \in Trade
    <3>1. BuyOrder \in OrderId /\ SellOrder \in OrderId
      BY <1>2 DEF Used
    <3>2. /\ req[BuyOrder].account \in Account /\ req[SellOrder].account \in Account
          /\ req[taker].symbol \in Symbol
      BY <1>1, <1>2, UsedIsTicket
    <3> QED BY <1>2, <3>1, <3>2 DEF Trade
  <2>2. /\ tape' = Append(tape, trade) /\ pc' = "pay"
        /\ UNCHANGED <<orderVars, bookVars, ledgerVars, position, processVars, saved, taker,
                       subject, fills, left, budget>>
    BY <1>3 DEF RecordTrade, Goto
  <2>3. tape' \in Seq(Trade)
    BY <2>1, <2>2 DEF TypeOK
  <2>4. TypeOK'
    BY <2>2, <2>3 DEF TypeOK, PC
  <2>5. CallsAreInOrder'
    BY <1>1, <2>2, SameOrders DEF CallsAreInOrder
  <2> QED BY <2>4, <2>5
<1>4. CASE Pay
  <2> DEFINE cents == Value(taker, Fill.price, Fill.qty)
  <2>1. cents \in Int
    BY <1>1, <1>2, ValueIsInt
  <2>2. /\ pc' = "book buy"
        /\ UNCHANGED <<orderVars, bookVars, reserved, hold, tradeVars, processVars, saved, taker,
                       subject, fills, left, budget>>
        /\ posted' = posted \cup {Len(tape)}
        /\ Transfer(req[BuyOrder].account, req[SellOrder].account, cents)
    BY <1>4 DEF Pay, TxnId, Goto
  <2> HIDE DEF cents
  <2>3. balance' \in [Account -> Int]
    <3>1. \A a \in Account : balance[a] \in Int
      BY DEF TypeOK
    <3>2. \A x, y \in {0, cents} : \A a \in Account : balance[a] - x + y \in Int
      BY <2>1, <3>1
    <3>3. CASE TxnId \in posted
      BY <2>2, <3>3 DEF Transfer, TypeOK
    <3>4. CASE TxnId \notin posted
      <4>1. balance' = [a \in Account |->
                           balance[a] - (IF a = req[BuyOrder].account THEN cents ELSE 0)
                                      + (IF a = req[SellOrder].account THEN cents ELSE 0)]
        BY <2>2, <3>4, Zenon DEF Transfer
      <4> QED BY <3>2, <4>1
    <3> QED BY <3>3, <3>4
  <2>4. posted' \subseteq Nat
    <3>1. Len(tape) \in Nat
      BY DEF TypeOK
    <3> QED BY <2>2, <3>1 DEF TypeOK
  <2>5. TypeOK'
    BY <2>2, <2>3, <2>4 DEF TypeOK, PC
  <2>6. CallsAreInOrder'
    BY <1>1, <2>2, SameOrders DEF CallsAreInOrder
  <2> QED BY <2>5, <2>6
<1>5. CASE PayRaises
  BY <1>5, EndingIsWellFormed DEF PayRaises, TypeOK
<1>6. ASSUME NEW i \in Used, NEW change \in Int, BookPosition(i, change)
      PROVE  position' \in [Account -> [Symbol -> Int]]
  <2>1. req[i].account \in Account /\ req[i].symbol \in Symbol
    BY UsedIsTicket
  <2>2. position' = [position EXCEPT ![req[i].account] =
                        [position[req[i].account] EXCEPT
                            ![req[i].symbol] = position[req[i].account][req[i].symbol] + change]]
    BY <1>6, Zenon DEF BookPosition
  <2>3. position[req[i].account] \in [Symbol -> Int]
    BY <2>1 DEF TypeOK
  <2>4. [position[req[i].account] EXCEPT
            ![req[i].symbol] = position[req[i].account][req[i].symbol] + change] \in [Symbol -> Int]
    BY <2>1, <2>3
  <2> QED BY <2>1, <2>2, <2>4 DEF TypeOK
<1>7. CASE BookBuyer \/ BookSeller
  <2>1. /\ UNCHANGED <<orderVars, bookVars, ledgerVars, tape, processVars, saved, taker, subject,
                       fills, left, budget>>
        /\ pc' \in {"book sell", "advance"}
        /\ BookPosition(BuyOrder, Fill.qty) \/ BookPosition(SellOrder, -Fill.qty)
    BY <1>7, Zenon DEF BookBuyer, BookSeller, BookPosition, Goto
  <2>2. Fill.qty \in Int /\ -Fill.qty \in Int
    BY <1>2
  <2>3. position' \in [Account -> [Symbol -> Int]]
    BY <1>2, <1>6, <2>1, <2>2
  <2>4. TypeOK'
    BY <2>1, <2>3 DEF TypeOK, PC
  <2>5. CallsAreInOrder'
    BY <1>1, <2>1, SameOrders DEF CallsAreInOrder
  <2> QED BY <2>4, <2>5
<1> QED BY <1>3, <1>4, <1>5, <1>7

\* The two sides of a fill get their new status.
LEMMA ConcludingIsWellFormed ==
  ASSUME WellFormed, Advance \/ Finish
  PROVE  WellFormed'
<1> USE DEF WellFormed
<1>1. taker # 0 /\ taker \in Used
  BY DEF Advance, Finish, CallsAreInOrder
<1>2. PICK i \in Used, st \in {"filled", "partial", "canceled", "new"}, n \in Int :
         /\ filled' = [filled EXCEPT ![i] = n]
         /\ status' = [status EXCEPT ![i] = st]
         /\ subject' = i
         /\ i # taker => fills # <<>>
  <2>1. CASE Advance
    <3>1. fills # <<>> /\ Fill.maker \in Used /\ Fill.qty \in Int
      BY <1>1, <2>1, FillIsOfOrders DEF Advance, CallsAreInOrder, FillRecord
    <3>2. filled[Fill.maker] \in Int /\ req[Fill.maker].qty \in Int
      BY <3>1, UsedIsTicket DEF TypeOK, Used
    <3>3. Advanced(Fill.maker) \in Int
      <4>1. filled[Fill.maker] + Fill.qty \in Int
        BY <3>1, <3>2
      <4>2. Min({req[Fill.maker].qty, filled[Fill.maker] + Fill.qty}) \in Int
        BY <3>2, <4>1, MinOfTwo
      <4> QED BY <4>2 DEF Advanced
    <3> QED BY <2>1, <3>1, <3>3 DEF Advance, Conclude
  <2>2. CASE Finish
    <3>1. req[taker].qty - left \in Int
      BY <1>1, UsedIsTicket DEF TypeOK
    <3> QED BY <1>1, <2>2, <3>1 DEF Finish, Conclude
  <2> QED BY <2>1, <2>2
<1>3. /\ pc' \in {"release", "save"}
      /\ UNCHANGED <<req, nextId, pendingStops, lastPrice, bookVars, ledgerVars, tradeVars,
                     processVars, saved, taker, fills, left, budget>>
  BY DEF Advance, Finish, ThenWrite, Goto
<1>4. i \in OrderId /\ status[i] # "none"
  BY DEF Used, CallsAreInOrder
<1>5. TypeOK'
  BY <1>2, <1>3, <1>4 DEF TypeOK, Status, PC
<1>6. \A j \in OrderId : status'[j] # "none" <=> status[j] # "none"
  BY <1>2, <1>4 DEF TypeOK
<1>7. CallsAreInOrder'
  BY <1>1, <1>2, <1>3, <1>6, SameOrders DEF CallsAreInOrder
<1> QED BY <1>5, <1>7

\* _resync_buy_hold and the release of a finished order.
LEMMA HoldingIsWellFormed ==
  ASSUME WellFormed, ReleaseHold \/ ReserveRest \/ ReserveRaises
  PROVE  WellFormed'
<1> USE DEF WellFormed
<1>1. pc \in {"release", "reserve"} /\ subject \in Used /\ subject \in OrderId
  BY DEF ReleaseHold, ReserveRest, ReserveRaises, CallsAreInOrder, Used
<1>2. CASE ReserveRaises
  BY <1>2, EndingIsWellFormed DEF ReserveRaises, TypeOK
<1>3. CASE ReleaseHold \/ ReserveRest
  <2>1. /\ pc' \in {"reserve", "save"}
        /\ UNCHANGED <<orderVars, bookVars, balance, posted, tradeVars, processVars, saved,
                       taker, subject, fills, left, budget>>
    BY <1>3 DEF ReleaseHold, ReserveRest, Goto
  <2>2. hold' \in [OrderId -> Hold \cup {NoHold}] /\ reserved' \in [Account -> Int]
    <3>1. CASE ReleaseHold
      <4>1. hold' = [hold EXCEPT ![subject] = NoHold]
        BY <3>1 DEF ReleaseHold
      <4>2. hold[subject].amount \in Int /\ \A a \in Account : reserved[a] \in Int
        BY <1>1 DEF TypeOK, Hold, NoHold
      <4>3. reserved' \in [Account -> Int]
        BY <3>1, <4>2 DEF ReleaseHold
      <4> QED BY <4>1, <4>3 DEF TypeOK
    <3>2. CASE ReserveRest
      <4>1. Remaining(subject) \in Int
        BY <1>1, UsedIsTicket DEF Remaining, TypeOK
      <4>2. Notional(subject, Remaining(subject)) \in Int
        BY <1>1, <4>1, UsedIsTicket, ValueIsInt DEF Notional
      <4> QED BY <1>1, <3>2, <4>2, ReservingIsTyped DEF ReserveRest
    <3> QED BY <1>3, <3>1, <3>2
  <2>3. TypeOK'
    BY <2>1, <2>2 DEF TypeOK, PC
  <2>4. CallsAreInOrder'
    BY <1>1, <2>1, SameOrders DEF CallsAreInOrder
  <2> QED BY <2>3, <2>4
<1> QED BY <1>2, <1>3

\* Writing an order's row, and going on from there.
LEMMA WritingIsWellFormed ==
  ASSUME WellFormed, SaveResting \/ SavePlaced \/ SaveAndReturn
  PROVE  WellFormed'
<1> USE DEF WellFormed
<1>1. /\ subject \in Used /\ subject \in OrderId /\ taker # 0 => taker \in Used
      /\ taker # 0 /\ subject # taker => fills # <<>>
  BY DEF SaveResting, SavePlaced, SaveAndReturn, WriteRow, CallsAreInOrder, Used
<1>2. saved' = [saved EXCEPT ![subject] = [status |-> status[subject], filled |-> filled[subject]]]
  BY DEF SaveResting, SavePlaced, SaveAndReturn, WriteRow
<1>3. saved' \in [OrderId -> [status : Status, filled : Int] \cup {NoRow}]
  <2>1. subject \in Used /\ subject \in OrderId
    BY DEF SaveResting, SavePlaced, SaveAndReturn, WriteRow, CallsAreInOrder, Used
  <2>2. status[subject] \in Status /\ filled[subject] \in Int
    BY <2>1 DEF TypeOK, CallsAreInOrder
  <2> QED BY <1>2, <2>1, <2>2 DEF TypeOK
<1>4. CASE SaveResting
  <2>1. taker # 0 /\ subject # taker /\ fills # <<>>
    BY <1>1, <1>4 DEF SaveResting, WriteRow, CallsAreInOrder
  <2>2. Fill.price \in Int /\ Tail(fills) \in Seq(FillRecord)
    BY <2>1, FillIsOfOrders DEF FillRecord
  <2>3. /\ pc' = "settle" /\ fills' = Tail(fills) /\ subject' = 0
        /\ UNCHANGED <<req, status, filled, nextId, pendingStops, bookVars, ledgerVars, tradeVars,
                       processVars, taker, left, budget>>
        /\ lastPrice' = [lastPrice EXCEPT ![req[taker].symbol] = Fill.price]
    BY <1>4 DEF SaveResting, WriteRow, Goto
  <2>4. lastPrice' \in [Symbol -> Int]
    BY <2>2, <2>3 DEF TypeOK
  <2>5. TypeOK'
    BY <1>3, <2>2, <2>3, <2>4 DEF TypeOK, PC
  <2>6. CallsAreInOrder'
    BY <1>1, <2>1, <2>3, SameOrders DEF CallsAreInOrder
  <2> QED BY <2>5, <2>6
<1>5. CASE SavePlaced
  <2>1. /\ pc' = "triggers" /\ subject' = 0 /\ left' = 0 /\ budget' = 0 /\ taker = subject
        /\ UNCHANGED <<orderVars, bookVars, ledgerVars, tradeVars, processVars, taker, fills>>
    BY <1>5 DEF SavePlaced, WriteRow, Goto
  <2>2. taker \in Used /\ taker # 0
    BY <1>5, <2>1 DEF SavePlaced, WriteRow, CallsAreInOrder, Used, OrderId
  <2>3. TypeOK'
    <3>1. pc' \in PC /\ subject' \in OrderId \cup {0} /\ left' \in Int /\ budget' \in Int
      BY <2>1 DEF PC
    <3> QED BY <1>3, <2>1, <3>1 DEF TypeOK
  <2>4. CallsAreInOrder'
    BY <2>1, <2>2, SameOrders DEF CallsAreInOrder
  <2> QED BY <2>3, <2>4
<1>6. CASE SaveAndReturn
  BY <1>3, <1>6, EndingIsWellFormed DEF SaveAndReturn, WriteRow
<1> QED BY <1>4, <1>5, <1>6

\* The trigger loop, cancels and the switch.
LEMMA OtherStepsAreWellFormed ==
  ASSUME WellFormed,
         (\E i \in OrderId : Activate(i) \/ cancel(i)) \/ Quiescent \/ SetKillSwitch
  PROVE  WellFormed'
<1> USE DEF WellFormed
<1>1. ASSUME NEW i \in OrderId, Activate(i) PROVE WellFormed'
  <2>1. /\ i \in Used /\ i # 0 /\ pc' = "start" /\ taker' = i /\ pendingStops' = pendingStops \ {i}
        /\ UNCHANGED <<req, status, filled, nextId, lastPrice, bookVars, ledgerVars, tradeVars,
                       processVars, saved, subject, fills, left, budget>>
    BY <1>1 DEF Activate, Ready, Goto, CallsAreInOrder, OrderId
  <2>2. TypeOK'
    BY <2>1 DEF TypeOK, PC
  <2>3. CallsAreInOrder'
    BY <2>1, SameOrders DEF CallsAreInOrder
  <2> QED BY <2>2, <2>3
<1>2. ASSUME NEW i \in OrderId, cancel(i) PROVE WellFormed'
  <2>1. /\ pc = "idle" /\ status[i] # "none" /\ pc' \in {"release", "save"} /\ subject' = i
        /\ open' = [open EXCEPT ![i] = 0] /\ arrival' = [arrival EXCEPT ![i] = 0]
        /\ status' = [status EXCEPT ![i] = "canceled"]
        /\ UNCHANGED <<req, filled, nextId, pendingStops, lastPrice, arrivals, ledgerVars,
                       tradeVars, processVars, saved, taker, fills, left, budget>>
    BY <1>2 DEF cancel, Cancelable, Conclude, Goto, Open
  <2>2. i \in Used /\ taker = 0
    BY <2>1 DEF CallsAreInOrder
  <2>3. TypeOK'
    BY <2>1 DEF TypeOK, PC, Status
  <2>4. \A j \in OrderId : open'[j] > 0 => j \in Used /\ req[j].price > 0
    BY <2>1 DEF TypeOK, CallsAreInOrder
  <2>5. \A j \in OrderId : status'[j] # "none" <=> status[j] # "none"
    BY <2>1 DEF TypeOK
  <2>6. CallsAreInOrder'
    BY <2>1, <2>2, <2>4, <2>5, SameOrders
  <2> QED BY <2>3, <2>6
<1>3. CASE Quiescent
  BY <1>3, EndingIsWellFormed DEF Quiescent, TypeOK
<1>4. CASE SetKillSwitch
  <2>1. /\ kill' = ~kill
        /\ UNCHANGED <<restarts, orderVars, bookVars, ledgerVars, tradeVars, saved, callVars>>
    BY <1>4 DEF SetKillSwitch
  <2>2. kill' \in BOOLEAN /\ cleared' \in OrderId \cup {0}
    BY <1>4 DEF SetKillSwitch, TypeOK
  <2>3. TypeOK'
    BY <2>1, <2>2 DEF TypeOK
  <2>4. CallsAreInOrder'
    BY <2>1, SameOrders DEF CallsAreInOrder
  <2> QED BY <2>3, <2>4
<1> QED BY <1>1, <1>2, <1>3, <1>4

\* Initially nothing is registered and no call runs.
LEMMA InitIsWellFormed ==
  ASSUME Init
  PROVE  WellFormed
<1>1. <<>> \in Seq(Trade)
  OBVIOUS
<1>2. TypeOK
  <2>1. balance \in [Account -> Int]
    BY OMSAssumption DEF Init
  <2>2. nextId \in 1 .. MaxOrders + 1
    BY OMSAssumption DEF Init
  <2>3. tape \in Seq(Trade) /\ fills \in Seq(FillRecord)
    BY <1>1, NoFillsTyped DEF Init
  <2>4. /\ req \in [OrderId -> Request \cup {NoRequest}]
        /\ status \in [OrderId -> Status \cup {"none"}]
        /\ filled \in [OrderId -> Int] /\ lastPrice \in [Symbol -> Int]
        /\ open \in [OrderId -> Nat] /\ arrival \in [OrderId -> Nat]
        /\ reserved \in [Account -> Int] /\ hold \in [OrderId -> Hold \cup {NoHold}]
        /\ position \in [Account -> [Symbol -> Int]]
        /\ saved \in [OrderId -> [status : Status, filled : Int] \cup {NoRow}]
    BY DEF Init
  <2>5. /\ pendingStops \subseteq OrderId /\ arrivals \in Nat /\ posted \subseteq Nat
        /\ restarts \in Nat /\ pc \in PC
        /\ taker \in OrderId \cup {0} /\ subject \in OrderId \cup {0}
        /\ left \in Int /\ budget \in Int
    BY DEF Init, PC
  <2>6. kill \in BOOLEAN /\ cleared \in OrderId \cup {0}
    BY DEF Init
  <2> QED BY <2>1, <2>2, <2>3, <2>4, <2>5, <2>6 DEF TypeOK
<1>3. CallsAreInOrder
  BY EmptyHasNoIndex DEF Init, CallsAreInOrder, Used
<1> QED BY <1>2, <1>3 DEF WellFormed

\* Every step of the order service keeps its form.
LEMMA StepsKeepForm ==
  ASSUME WellFormed, [Next]_vars
  PROVE  WellFormed'
<1>1. CASE place
  BY <1>1, PlacingIsWellFormed DEF place
<1>2. CASE StartLimit \/ CheckLimit \/ StartMarket
  BY <1>2, StartingIsWellFormed
<1>3. ASSUME NEW m \in OrderId, MatchOne(m) PROVE WellFormed'
  BY <1>3, MatchingIsWellFormed
<1>4. CASE MatchDone
  BY <1>4, RestingIsWellFormed
<1>5. CASE RecordTrade \/ Pay \/ PayRaises \/ BookBuyer \/ BookSeller
  BY <1>5, SettlingIsWellFormed
<1>6. CASE Advance \/ Finish
  BY <1>6, ConcludingIsWellFormed
<1>7. CASE ReleaseHold \/ ReserveRest \/ ReserveRaises
  BY <1>7, HoldingIsWellFormed
<1>8. CASE SaveResting \/ SavePlaced \/ SaveAndReturn
  BY <1>8, WritingIsWellFormed
<1>9. CASE (\E i \in OrderId : Activate(i) \/ cancel(i)) \/ Quiescent \/ SetKillSwitch
  BY <1>9, OtherStepsAreWellFormed
<1>10. CASE UNCHANGED vars
  BY <1>10 DEF vars, WellFormed, TypeOK, CallsAreInOrder, Used
<1> QED BY <1>1, <1>2, <1>3, <1>4, <1>5, <1>6, <1>7, <1>8, <1>9, <1>10 DEF Next, Step

\* Every variable of the order service keeps its type (oms.py, ledger.py, trades.py,
\* portfolio.py), for all accounts, symbols and tickets.
THEOREM Typing == Spec => []TypeOK
<1>1. Init => WellFormed
  BY InitIsWellFormed
<1>2. WellFormed /\ [Next]_vars => WellFormed'
  BY StepsKeepForm
<1>3. WellFormed => TypeOK
  BY DEF WellFormed
<1> QED BY <1>1, <1>2, <1>3, PTL DEF Spec

-----------------------------------------------------------------------------
(* Every trade settles, when no ticket is priced so low that a fill is worth nothing. *)

WholeCents == \A r \in Request : r.price > 0 => r.price * Multiplier[r.symbol] >= QuantityScale

\* At least one unit at a price of at least a cent per unit is worth at least a cent.
LEMMA FillHasValue ==
  ASSUME NEW price \in Nat, NEW mult \in Nat, NEW qty \in Nat \ {0}, price * mult >= QuantityScale
  PROVE  notional_cents(price, qty, mult) > 0
<1>1. QuantityScale \in Nat /\ QuantityScale > 0
  BY QuantityScaleAssumption
<1> DEFINE unit == price * mult
<1>2. unit \in Nat /\ unit >= QuantityScale
  OBVIOUS
<1>3. price * qty * mult = unit * qty
  OBVIOUS
<1> HIDE DEF unit
<1>4. unit * qty \in Nat /\ unit * qty >= unit
  BY <1>2
<1> DEFINE value == price * qty * mult
<1>5. value \in Nat /\ value >= QuantityScale
  BY <1>1, <1>2, <1>3, <1>4
<1>6. notional_cents(price, qty, mult) = value \div QuantityScale
  BY DEF notional_cents
<1> HIDE DEF value
<1>7. value \div QuantityScale \in Int /\ value \div QuantityScale >= 1
  BY <1>1, <1>5
<1> DEFINE cents == value \div QuantityScale
<1>8. cents \in Int /\ cents >= 1
  BY <1>7
<1> HIDE DEF cents
<1>9. cents > 0
  BY <1>8
<1> QED BY <1>6, <1>9 DEF cents

\* A fill is of two different orders of one symbol, at the resting order's price; none is
\* left over when a new taker starts.
FillsAreFresh ==
    /\ pc \in {"idle", "start", "risk", "triggers"} => fills = <<>>
    /\ pc \in {"release", "reserve", "save"} /\ subject = taker => fills = <<>>
    /\ \A n \in DOMAIN fills :
          /\ fills[n].maker # taker
          /\ fills[n].price > 0 /\ fills[n].price = req[fills[n].maker].price
          /\ req[fills[n].maker].symbol = req[taker].symbol

\* Only a trade whose payment is next may be unpaid.
PaymentsKeepUp ==
    /\ pc # "pay" => posted = DOMAIN tape
    /\ pc = "pay" => posted = 1 .. Len(tape) - 1 /\ Len(tape) > 0

\* What the trigger loop, a cancel or a write leaves alone.
LEMMA SameFills ==
  ASSUME FillsAreFresh, WellFormed, UNCHANGED <<req, taker>>,
         fills' = fills \/ (fills # <<>> /\ fills' = Tail(fills)),
         pc' \in {"idle", "start", "risk", "triggers"} => fills' = <<>>,
         pc' \in {"release", "reserve", "save"} /\ subject' = taker => fills' = <<>>
  PROVE  FillsAreFresh'
<1>1. CASE fills' = fills
  BY <1>1 DEF FillsAreFresh
<1>2. CASE fills # <<>> /\ fills' = Tail(fills)
  <2>1. fills \in Seq(FillRecord)
    BY DEF WellFormed, TypeOK
  <2>2. \A n \in DOMAIN Tail(fills) : n + 1 \in DOMAIN fills /\ Tail(fills)[n] = fills[n + 1]
    BY <1>2, <2>1, TailShifts
  <2> QED BY <1>2, <2>2 DEF FillsAreFresh
<1> QED BY <1>1, <1>2

\* An empty list of fills is fresh.
LEMMA NoFills ==
  ASSUME fills' = <<>>
  PROVE  FillsAreFresh'
<1>1. DOMAIN fills' = {}
  BY EmptyHasNoIndex
<1> QED BY <1>1 DEF FillsAreFresh

\* One fill of a sweep: the resting order it hits is on the other side, so it is another.
LEMMA MatchingKeepsFillsFresh ==
  ASSUME WellFormed, FillsAreFresh, NEW m \in OrderId, MatchOne(m)
  PROVE  FillsAreFresh'
<1> DEFINE fill == [maker |-> m, price |-> req[m].price, qty |-> MatchQty(m)]
<1>1. pc = "match" /\ pc' = pc /\ UNCHANGED <<req, taker>> /\ fills' = Append(fills, fill)
  BY DEF MatchOne
<1>2. /\ open[m] > 0 /\ req[m].side # req[taker].side /\ req[m].symbol = req[taker].symbol
  BY DEF MatchOne, IsNext, Opposite
<1>3. m # taker /\ req[m].price > 0
  BY <1>2 DEF WellFormed, CallsAreInOrder
<1>4. MatchQty(m) \in Nat \ {0} /\ m \in Used
  BY MatchQtyFits
<1>5. req[m].price \in Int
  BY <1>4, UsedIsTicket DEF WellFormed
<1>6. fill \in FillRecord
  BY <1>4, <1>5 DEF FillRecord
<1>7. fill.maker = m /\ fill.price = req[m].price
  OBVIOUS
<1> HIDE DEF fill
<1>8. fills \in Seq(FillRecord)
  BY DEF WellFormed, TypeOK
<1>9. \A n \in DOMAIN Append(fills, fill) :
         (n \in DOMAIN fills /\ Append(fills, fill)[n] = fills[n]) \/ Append(fills, fill)[n] = fill
  BY <1>6, <1>8
<1>10. \A n \in DOMAIN fills' :
          /\ fills'[n].maker # taker
          /\ fills'[n].price > 0 /\ fills'[n].price = req[fills'[n].maker].price
          /\ req[fills'[n].maker].symbol = req[taker].symbol
  BY <1>1, <1>2, <1>3, <1>7, <1>9 DEF FillsAreFresh
<1> QED BY <1>1, <1>10 DEF FillsAreFresh

\* Every step keeps the fills fresh.
LEMMA FillsStayFresh ==
  ASSUME WellFormed, FillsAreFresh, [Next]_vars
  PROVE  FillsAreFresh'
<1>1. CASE place
  <2>1. pc = "idle" /\ fills' = fills
    BY <1>1 DEF place, PlaceInvalid, PlaceStop, PlaceNow, Register
  <2>2. fills' = <<>>
    BY <2>1 DEF FillsAreFresh
  <2> QED BY <2>2, NoFills
<1>2. CASE StartLimit \/ StartMarket \/ CheckLimit
  <2>1. pc \in {"start", "risk"} /\ fills' = fills
    BY <1>2 DEF StartLimit, StartMarket, CheckLimit
  <2>2. fills' = <<>>
    BY <2>1 DEF FillsAreFresh
  <2> QED BY <2>2, NoFills
<1>3. ASSUME NEW m \in OrderId, MatchOne(m) PROVE FillsAreFresh'
  BY <1>3, MatchingKeepsFillsFresh
<1>4. CASE MatchDone \/ RecordTrade \/ Pay \/ BookBuyer \/ BookSeller
  <2>1. /\ pc' \in {"settle", "pay", "book buy", "book sell", "advance"}
        /\ UNCHANGED <<req, taker, fills>>
    BY <1>4 DEF MatchDone, RecordTrade, Pay, BookBuyer, BookSeller, BookPosition, Goto
  <2> QED BY <2>1, SameFills
<1>5. CASE PayRaises \/ ReserveRaises \/ SaveAndReturn \/ Quiescent
  <2>1. fills' = <<>>
    BY <1>5 DEF PayRaises, ReserveRaises, SaveAndReturn, Quiescent, EndCall
  <2> QED BY <2>1, NoFills
<1>6. CASE Advance
  <2>1. /\ pc = "advance" /\ UNCHANGED <<req, taker, fills>> /\ subject' = Fill.maker
        /\ pc' \in {"release", "save"}
    BY <1>6 DEF Advance, Conclude, Goto
  <2>2. fills # <<>> /\ fills \in Seq(FillRecord)
    BY <2>1 DEF WellFormed, TypeOK, CallsAreInOrder
  <2>3. Fill = fills[1] /\ 1 \in DOMAIN fills
    BY <2>2, TailShifts DEF Fill
  <2>4. Fill.maker # taker
    BY <2>3 DEF FillsAreFresh
  <2> QED BY <2>1, <2>4, SameFills
<1>7. CASE Finish
  <2>1. fills' = <<>>
    BY <1>7 DEF Finish
  <2> QED BY <2>1, NoFills
<1>8. CASE ReleaseHold \/ ReserveRest
  <2>1. /\ pc \in {"release", "reserve"} /\ pc' \in {"reserve", "save"}
        /\ UNCHANGED <<req, taker, subject, fills>>
    BY <1>8 DEF ReleaseHold, ReserveRest, Goto
  <2>2. subject' = taker => fills' = <<>>
    BY <2>1 DEF FillsAreFresh
  <2> QED BY <2>1, <2>2, SameFills
<1>9. CASE SaveResting
  <2>1. /\ pc = "save" /\ taker # 0 /\ subject # taker /\ pc' = "settle"
        /\ UNCHANGED <<req, taker>> /\ fills' = Tail(fills)
    BY <1>9 DEF SaveResting, WriteRow, Goto
  <2>2. fills # <<>>
    BY <2>1 DEF WellFormed, CallsAreInOrder
  <2> QED BY <2>1, <2>2, SameFills
<1>10. CASE SavePlaced
  <2>1. pc = "save" /\ subject = taker /\ fills' = fills
    BY <1>10 DEF SavePlaced, WriteRow
  <2>2. fills' = <<>>
    BY <2>1 DEF FillsAreFresh
  <2> QED BY <2>2, NoFills
<1>11. ASSUME NEW i \in OrderId, Activate(i) \/ cancel(i) PROVE FillsAreFresh'
  <2>1. pc \in {"triggers", "idle"} /\ fills' = fills
    BY <1>11 DEF Activate, cancel
  <2>2. fills' = <<>>
    BY <2>1 DEF FillsAreFresh
  <2> QED BY <2>2, NoFills
<1>12. CASE SetKillSwitch \/ UNCHANGED vars
  BY <1>12 DEF SetKillSwitch, vars, FillsAreFresh
<1> QED BY <1>1, <1>2, <1>3, <1>4, <1>5, <1>6, <1>7, <1>8, <1>9, <1>10, <1>11, <1>12 DEF Next, Step

\* A whole-cent ticket's fill never makes the payment raise.
LEMMA PaymentsAreWorthSomething ==
  ASSUME WholeCents, WellFormed, FillsAreFresh, pc = "pay"
  PROVE  Value(taker, Fill.price, Fill.qty) > 0
<1>1. taker # 0 /\ fills # <<>> /\ fills \in Seq(FillRecord)
  BY DEF WellFormed, TypeOK, CallsAreInOrder
<1>2. Fill = fills[1] /\ 1 \in DOMAIN fills
  BY <1>1, TailShifts DEF Fill
<1>3. Fill \in FillRecord /\ Fill.maker \in Used
  BY <1>1, FillIsOfOrders
<1> DEFINE ticket == req[Fill.maker]
<1>4. /\ Fill.price > 0 /\ Fill.price = ticket.price /\ ticket.symbol = req[taker].symbol
  BY <1>2 DEF FillsAreFresh
<1>5. ticket \in Request /\ ticket.symbol \in Symbol /\ ticket.price \in Int
  BY <1>3, UsedIsTicket DEF WellFormed
<1>6. Fill.qty \in Nat \ {0}
  BY <1>3 DEF FillRecord
<1>7. ticket.price * Multiplier[ticket.symbol] >= QuantityScale
  BY <1>4, <1>5 DEF WholeCents
<1>8. Multiplier[ticket.symbol] \in Nat
  BY <1>5, OMSAssumption
<1> HIDE DEF ticket
<1>9. Fill.price \in Nat /\ Fill.price * Multiplier[req[taker].symbol] >= QuantityScale
      /\ Multiplier[req[taker].symbol] \in Nat
  BY <1>4, <1>5, <1>7, <1>8
<1> QED BY <1>6, <1>9, FillHasValue DEF Value

\* The numbers of a log of known length, and of the log with one entry more.
LEMMA LogNumbers ==
  ASSUME NEW S, NEW s \in Seq(S), NEW e \in S
  PROVE  /\ DOMAIN s = 1 .. Len(s) /\ Len(s) \in Nat
         /\ Len(Append(s, e)) = Len(s) + 1
OBVIOUS

\* The numbers up to k are those below it and k.
LEMMA OneMore == \A k \in Nat : k > 0 => (1 .. k - 1) \cup {k} = 1 .. k
OBVIOUS

\* Every step keeps payments up with the tape.
LEMMA PaymentsStayUp ==
  ASSUME WholeCents, WellFormed, WellFormed', FillsAreFresh, PaymentsKeepUp, [Next]_vars
  PROVE  PaymentsKeepUp'
<1>1. CASE RecordTrade
  <2>1. PICK e : tape' = Append(tape, e)
    BY <1>1 DEF RecordTrade
  <2>2. pc = "settle" /\ pc' = "pay" /\ posted' = posted
    BY <1>1 DEF RecordTrade, Goto
  <2>3. tape \in Seq(Trade) /\ tape' \in Seq(Trade)
    BY DEF WellFormed, TypeOK
  <2>4. /\ DOMAIN tape = 1 .. Len(tape) /\ Len(tape) \in Nat
        /\ Len(tape') = Len(tape) + 1
    <3>1. tape \in Seq(Trade \cup {e}) /\ e \in Trade \cup {e}
      BY <2>3
    <3> QED BY <2>1, <3>1, LogNumbers
  <2>5. posted = 1 .. Len(tape)
    BY <2>2, <2>4 DEF PaymentsKeepUp
  <2> QED BY <2>2, <2>4, <2>5 DEF PaymentsKeepUp
<1>2. CASE Pay
  <2>1. pc = "pay" /\ pc' = "book buy" /\ tape' = tape /\ posted' = posted \cup {Len(tape)}
    BY <1>2 DEF Pay, Goto, TxnId
  <2>2. tape \in Seq(Trade) /\ Len(tape) > 0
    BY <2>1 DEF WellFormed, TypeOK, PaymentsKeepUp
  <2>3. DOMAIN tape = 1 .. Len(tape) /\ Len(tape) \in Nat
    BY <2>2
  <2>4. posted = 1 .. Len(tape) - 1
    BY <2>1 DEF PaymentsKeepUp
  <2>5. posted' = (1 .. Len(tape) - 1) \cup {Len(tape)}
    BY <2>1, <2>4
  <2>6. posted' = 1 .. Len(tape)
    BY <2>2, <2>3, <2>5, OneMore
  <2> QED BY <2>1, <2>3, <2>6 DEF PaymentsKeepUp
<1>3. CASE PayRaises
  <2>1. pc = "pay" /\ Value(taker, Fill.price, Fill.qty) <= 0
    BY <1>3 DEF PayRaises
  <2>2. Value(taker, Fill.price, Fill.qty) > 0
    BY <2>1, PaymentsAreWorthSomething
  <2>3. taker \in Used /\ Fill.price \in Int /\ Fill.qty \in Int
    <3>1. taker # 0 /\ fills # <<>>
      BY <2>1 DEF WellFormed, CallsAreInOrder
    <3> QED BY <3>1, FillIsOfOrders DEF FillRecord
  <2>4. Value(taker, Fill.price, Fill.qty) \in Int
    BY <2>3, ValueIsInt DEF WellFormed
  <2> QED BY <2>1, <2>2, <2>4
<1>4. CASE \/ place \/ (\E i \in OrderId : cancel(i))
           \/ StartLimit \/ CheckLimit \/ StartMarket
  <2>1. UNCHANGED <<tape, posted>> /\ pc # "pay" /\ pc' # "pay"
    BY <1>4 DEF place, PlaceInvalid, PlaceStop, PlaceNow, Register, cancel,
                StartLimit, CheckLimit, StartMarket, Goto, ThenWrite, Sweep
  <2> QED BY <2>1 DEF PaymentsKeepUp
<1>5. CASE (\E m \in OrderId : MatchOne(m)) \/ MatchDone \/ BookBuyer \/ BookSeller \/ Advance \/ Finish
  <2>1. UNCHANGED <<tape, posted>> /\ pc # "pay" /\ pc' # "pay"
    BY <1>5 DEF MatchOne, MatchDone, BookBuyer, BookSeller, BookPosition, Advance, Finish,
                Conclude, Goto, ThenWrite
  <2> QED BY <2>1 DEF PaymentsKeepUp
<1>6. CASE \/ ReleaseHold \/ ReserveRest \/ ReserveRaises \/ SaveResting \/ SavePlaced \/ SaveAndReturn
           \/ (\E i \in OrderId : Activate(i)) \/ Quiescent
  <2>1. UNCHANGED <<tape, posted>> /\ pc # "pay" /\ pc' # "pay"
    BY <1>6 DEF ReleaseHold, ReserveRest, ReserveRaises, Reserve, SaveResting, SavePlaced,
                SaveAndReturn, WriteRow, Activate, Quiescent, EndCall, Goto
  <2> QED BY <2>1 DEF PaymentsKeepUp
<1>7. CASE SetKillSwitch \/ UNCHANGED vars
  BY <1>7 DEF SetKillSwitch, vars, PaymentsKeepUp
<1> QED BY <1>1, <1>2, <1>3, <1>4, <1>5, <1>6, <1>7 DEF Next, Step

\* When every priced ticket is worth at least a cent per unit, each trade on the tape has
\* moved its cash (oms.py, _settle_fill; ledger.py, transfer) once its call is over: the
\* failure penny_settlement shows needs a price below that, and nothing else causes it.
THEOREM TradesSettle ==
  ASSUME WholeCents
  PROVE  Spec => []EveryTradeSettles
<1> DEFINE Settling == WellFormed /\ FillsAreFresh /\ PaymentsKeepUp
<1>1. Init => Settling
  <2> SUFFICES ASSUME Init PROVE Settling
    OBVIOUS
  <2>1. fills = <<>> /\ tape = <<>> /\ posted = {} /\ pc = "idle"
    BY DEF Init
  <2>2. PaymentsKeepUp
    BY <2>1, EmptyHasNoIndex DEF PaymentsKeepUp
  <2>3. FillsAreFresh
    BY <2>1, EmptyHasNoIndex DEF FillsAreFresh
  <2> QED BY <2>2, <2>3, InitIsWellFormed
<1>2. Settling /\ [Next]_vars => Settling'
  BY StepsKeepForm, FillsStayFresh, PaymentsStayUp
<1>3. Settling => EveryTradeSettles
  BY DEF PaymentsKeepUp, EveryTradeSettles, Idle
<1> HIDE DEF Settling
<1> QED BY <1>1, <1>2, <1>3, PTL DEF Spec

-----------------------------------------------------------------------------
(* Sums over fills, and over trades. *)

Qtys(fs, i) == [n \in DOMAIN fs |-> IF fs[n].maker = i THEN fs[n].qty ELSE 0]
ComingIn(fs, i) == SumFunction(Qtys(fs, i))
SweptIn(fs) == SumFunction([n \in DOMAIN fs |-> fs[n].qty])
CostIn(fs, mult) == SumFunction([n \in DOMAIN fs |-> notional_cents(fs[n].price, fs[n].qty, mult)])

\* What rounding down does.
LEMMA CentsRoundDown ==
    ASSUME NEW c \in Int, NEW n \in Nat \ {0}
    PROVE  c \div n \in Int /\ (c \div n) * n <= c /\ c < (c \div n) * n + n
OBVIOUS

LEMMA CentsType ==
    ASSUME NEW price \in Int, NEW qty \in Int, NEW mult \in Int
    PROVE  /\ notional_cents(price, qty, mult) \in Int
           /\ notional_cents(price, qty, mult) * QuantityScale <= price * qty * mult
           /\ price * qty * mult < notional_cents(price, qty, mult) * QuantityScale + QuantityScale
<1>1. price * qty * mult \in Int
  OBVIOUS
<1> QED
  BY <1>1, CentsRoundDown, QuantityScaleAssumption DEF notional_cents

LEMMA CentsInt == \A x, y, z : x \in Int /\ y \in Int /\ z \in Int => notional_cents(x, y, z) \in Int
BY CentsType

LEMMA CentsNatural ==
    ASSUME NEW price \in Nat, NEW qty \in Nat, NEW mult \in Nat
    PROVE  notional_cents(price, qty, mult) \in Nat
<1> DEFINE v == notional_cents(price, qty, mult)
<1>1. v \in Int /\ price * qty * mult < v * QuantityScale + QuantityScale
  BY CentsType
<1>2. price * qty * mult >= 0
  OBVIOUS
<1> HIDE DEF v
<1>3. v >= 0
  <2> SUFFICES ASSUME v <= -1 PROVE FALSE
    BY <1>1
  <2>1. QuantityScale \in Nat \ {0}
    BY QuantityScaleAssumption
  <2>2. v * QuantityScale <= (-1) * QuantityScale
    BY <1>1, <2>1
  <2>3. v * QuantityScale \in Int
    BY <1>1, <2>1
  <2>4. PICK x \in Int : x = price * qty * mult
    OBVIOUS
  <2> QED
    BY <1>1, <1>2, <2>1, <2>2, <2>3, <2>4
<1> QED
  BY <1>1, <1>3 DEF v

\* What is bought in parts, at the price or below, costs no more than what was set aside for
\* the whole.
LEMMA PartsCostNoMore ==
    ASSUME NEW low \in Nat, NEW price \in Nat, low <= price, NEW p \in Nat, NEW q \in Nat,
           NEW mult \in Nat
    PROVE  notional_cents(low, p, mult) + notional_cents(price, q, mult)
              <= notional_cents(price, p + q, mult)
<1> DEFINE S == QuantityScale
<1>1. S \in Nat \ {0}
  BY QuantityScaleAssumption
<1>2. PICK x \in Int : x = notional_cents(low, p, mult)
  BY CentsInt
<1>3. PICK y \in Int : y = notional_cents(price, q, mult)
  BY CentsInt
<1>4. PICK z \in Int : z = notional_cents(price, p + q, mult)
  <2>1. p + q \in Int
    OBVIOUS
  <2> QED
    BY <2>1, CentsInt
<1>5. x * S <= low * p * mult
  BY <1>2, CentsType
<1>6. y * S <= price * q * mult
  BY <1>3, CentsType
<1>7. price * (p + q) * mult < z * S + S
  <2>1. p + q \in Int
    OBVIOUS
  <2> QED
    BY <1>4, <2>1, CentsType
<1>8. low * p * mult <= price * p * mult
  <2>1. low * p <= price * p /\ low * p \in Int /\ price * p \in Int
    OBVIOUS
  <2> QED
    BY <2>1
<1>9. price * (p + q) * mult = price * p * mult + price * q * mult
  OBVIOUS
<1>10. (x + y) * S = x * S + y * S
  BY <1>1
<1> HIDE DEF S
<1>11. (x + y) * S < z * S + S
  <2>1. PICK a \in Int : a = low * p * mult
    OBVIOUS
  <2>2. PICK b \in Int : b = price * p * mult
    OBVIOUS
  <2>3. PICK c \in Int : c = price * q * mult
    OBVIOUS
  <2>4. x * S \in Int /\ y * S \in Int /\ z * S \in Int
    BY <1>1
  <2> QED
    BY <1>1, <1>5, <1>6, <1>7, <1>8, <1>9, <1>10, <2>1, <2>2, <2>3, <2>4
<1>12. x + y <= z
  <2> SUFFICES ASSUME x + y >= z + 1 PROVE FALSE
    OBVIOUS
  <2>1. (x + y) * S >= (z + 1) * S
    BY <1>1
  <2>2. (z + 1) * S = z * S + S
    BY <1>1
  <2>3. (x + y) * S \in Int /\ z * S \in Int
    BY <1>1
  <2> QED
    BY <1>1, <1>11, <2>1, <2>2, <2>3
<1> QED
  BY <1>2, <1>3, <1>4, <1>12

\* Nothing costs nothing.
LEMMA NothingIsFree ==
    ASSUME NEW price \in Int, NEW mult \in Int
    PROVE  notional_cents(price, 0, mult) = 0
<1>1. price * 0 * mult = 0
  OBVIOUS
<1>2. 0 \div QuantityScale = 0
  BY QuantityScaleAssumption
<1> QED
  BY <1>1, <1>2 DEF notional_cents

\* The quantity a market buy can afford costs no more than its budget.
LEMMA AffordableIsCovered ==
    ASSUME NEW budget0 \in Nat, NEW price \in Nat \ {0}, NEW mult \in Nat \ {0}, NEW q \in Nat,
           q <= (budget0 * QuantityScale) \div (price * mult)
    PROVE  notional_cents(price, q, mult) <= budget0
<1> DEFINE S == QuantityScale
           unit == price * mult
           k == (budget0 * S) \div unit
<1>1. S \in Nat \ {0} /\ unit \in Nat \ {0} /\ budget0 * S \in Int
  BY QuantityScaleAssumption
<1>2. k \in Int /\ k * unit <= budget0 * S
  BY <1>1, CentsRoundDown
<1>3. PICK v \in Int : v = notional_cents(price, q, mult)
  BY CentsInt
<1>4. v * S <= price * q * mult
  BY <1>3, CentsType
<1>5. price * q * mult = q * unit
  OBVIOUS
<1> HIDE DEF unit, k
<1>6. q * unit <= k * unit
  BY <1>1, <1>2 DEF k, unit
<1> HIDE DEF S
<1>7. v * S <= budget0 * S
  <2>1. v * S \in Int /\ q * unit \in Int /\ k * unit \in Int
    BY <1>1, <1>2
  <2> QED
    BY <1>1, <1>2, <1>4, <1>5, <1>6, <2>1
<1>8. v <= budget0
  <2> SUFFICES ASSUME v >= budget0 + 1 PROVE FALSE
    OBVIOUS
  <2>1. v * S >= (budget0 + 1) * S /\ (budget0 + 1) * S = budget0 * S + S
    BY <1>1
  <2>2. v * S \in Int
    BY <1>1
  <2> QED
    BY <1>1, <1>7, <2>1, <2>2
<1> QED
  BY <1>3, <1>8

\* Without fills nothing is coming.
LEMMA NoFillsNoSums ==
    ASSUME NEW fs, fs = <<>>
    PROVE  /\ \A i : ComingIn(fs, i) = 0
           /\ SweptIn(fs) = 0
           /\ \A mult : CostIn(fs, mult) = 0
<1>1. DOMAIN fs = {}
  BY EmptyHasNoIndex
<1>2. \A f : DOMAIN f = {} => SumFunction(f) = 0
  BY SumEmpty DEF SumFunction
<1> QED
  BY <1>1, <1>2 DEF ComingIn, Qtys, SweptIn, CostIn

LEMMA FillsAreNumbers ==
    ASSUME NEW fs \in Seq(FillRecord)
    PROVE  /\ DOMAIN fs = 1 .. Len(fs) /\ Len(fs) \in Nat
           /\ \A n \in 1 .. Len(fs) : fs[n].qty \in Nat \ {0} /\ fs[n].price \in Int
                                      /\ fs[n].maker \in OrderId
<1>1. DOMAIN fs = 1 .. Len(fs) /\ Len(fs) \in Nat
  OBVIOUS
<1>2. \A n \in 1 .. Len(fs) : fs[n] \in FillRecord
  OBVIOUS
<1> QED
  BY <1>1, <1>2 DEF FillRecord

LEMMA SumsOfFills ==
    ASSUME NEW fs \in Seq(FillRecord), NEW i, NEW mult \in Nat
    PROVE  /\ ComingIn(fs, i) \in Nat /\ SweptIn(fs) \in Nat
           /\ CostIn(fs, mult) \in Int
<1> DEFINE f == Qtys(fs, i)
           g == [n \in DOMAIN fs |-> fs[n].qty]
           h == [n \in DOMAIN fs |-> notional_cents(fs[n].price, fs[n].qty, mult)]
           S == 1 .. Len(fs)
<1>1. DOMAIN fs = S /\ IsFiniteSet(S)
  BY FillsAreNumbers, FS_Interval
<1>2. \A n \in S : f[n] \in Nat /\ g[n] \in Nat /\ h[n] \in Int
  <2> SUFFICES ASSUME NEW n \in S PROVE f[n] \in Nat /\ g[n] \in Nat /\ h[n] \in Int
    OBVIOUS
  <2>1. fs[n].qty \in Nat /\ fs[n].price \in Int
    BY FillsAreNumbers
  <2>2. notional_cents(fs[n].price, fs[n].qty, mult) \in Int
    BY <2>1, CentsInt
  <2> QED
    BY <1>1, <2>1, <2>2 DEF Qtys
<1>3. ComingIn(fs, i) = SumFunctionOnSet(f, S) /\ SweptIn(fs) = SumFunctionOnSet(g, S)
      /\ CostIn(fs, mult) = SumFunctionOnSet(h, S)
  BY <1>1 DEF ComingIn, SweptIn, CostIn, SumFunction, Qtys
<1> HIDE DEF f, g, h, S
<1>4. SumFunctionOnSet(f, S) \in Nat
  BY <1>1, <1>2, SumNatural
<1>5. SumFunctionOnSet(g, S) \in Nat
  BY <1>1, <1>2, SumNatural
<1>6. SumFunctionOnSet(h, S) \in Int
  BY <1>1, <1>2, SumType
<1> QED
  BY <1>3, <1>4, <1>5, <1>6

\* A fill more.
LEMMA FillsAppended ==
    ASSUME NEW fs \in Seq(FillRecord), NEW e \in FillRecord, NEW i, NEW mult \in Nat
    PROVE  /\ ComingIn(Append(fs, e), i) = ComingIn(fs, i) + IF e.maker = i THEN e.qty ELSE 0
           /\ SweptIn(Append(fs, e)) = SweptIn(fs) + e.qty
           /\ CostIn(Append(fs, e), mult) = CostIn(fs, mult) + notional_cents(e.price, e.qty, mult)
<1> DEFINE gs == Append(fs, e)
           n == Len(fs)
<1>1. /\ gs \in Seq(FillRecord) /\ Len(gs) = n + 1 /\ n \in Nat
      /\ DOMAIN fs = 1 .. n /\ DOMAIN gs = 1 .. n + 1
      /\ gs[n + 1] = e /\ \A k \in 1 .. n : gs[k] = fs[k]
  BY FillsAreNumbers
<1>2. /\ \A k \in 1 .. n : fs[k].qty \in Int /\ fs[k].price \in Int
      /\ e.qty \in Int /\ e.price \in Int
  <2>1. e.qty \in Int /\ e.price \in Int
    BY DEF FillRecord
  <2> QED
    BY <2>1, FillsAreNumbers
<1> HIDE DEF gs, n
<1>3. ComingIn(gs, i) = ComingIn(fs, i) + IF e.maker = i THEN e.qty ELSE 0
  <2> DEFINE f == Qtys(fs, i)
             g == Qtys(gs, i)
  <2>1. /\ \A k \in 1 .. n : f[k] \in Int /\ g[k] = f[k]
        /\ g[n + 1] = (IF e.maker = i THEN e.qty ELSE 0) /\ g[n + 1] \in Int
    BY <1>1, <1>2 DEF Qtys
  <2>2. ComingIn(fs, i) = SumFunctionOnSet(f, 1 .. n)
        /\ ComingIn(gs, i) = SumFunctionOnSet(g, 1 .. n + 1)
    BY <1>1 DEF ComingIn, SumFunction, Qtys
  <2> HIDE DEF f, g
  <2>3. SumFunctionOnSet(g, 1 .. n + 1) = SumFunctionOnSet(f, 1 .. n) + g[n + 1]
    BY <1>1, <2>1, SumAppended
  <2> QED
    BY <2>1, <2>2, <2>3
<1>4. SweptIn(gs) = SweptIn(fs) + e.qty
  <2> DEFINE f == [k \in DOMAIN fs |-> fs[k].qty]
             g == [k \in DOMAIN gs |-> gs[k].qty]
  <2>1. /\ \A k \in 1 .. n : f[k] \in Int /\ g[k] = f[k]
        /\ g[n + 1] = e.qty /\ g[n + 1] \in Int
    BY <1>1, <1>2
  <2>2. SweptIn(fs) = SumFunctionOnSet(f, 1 .. n)
        /\ SweptIn(gs) = SumFunctionOnSet(g, 1 .. n + 1)
    BY <1>1 DEF SweptIn, SumFunction
  <2> HIDE DEF f, g
  <2>3. SumFunctionOnSet(g, 1 .. n + 1) = SumFunctionOnSet(f, 1 .. n) + g[n + 1]
    BY <1>1, <2>1, SumAppended
  <2> QED
    BY <2>1, <2>2, <2>3
<1>5. CostIn(gs, mult) = CostIn(fs, mult) + notional_cents(e.price, e.qty, mult)
  <2> DEFINE f == [k \in DOMAIN fs |-> notional_cents(fs[k].price, fs[k].qty, mult)]
             g == [k \in DOMAIN gs |-> notional_cents(gs[k].price, gs[k].qty, mult)]
  <2>1. /\ \A k \in 1 .. n : f[k] \in Int /\ g[k] = f[k]
        /\ g[n + 1] = notional_cents(e.price, e.qty, mult) /\ g[n + 1] \in Int
    BY <1>1, <1>2, CentsInt
  <2>2. CostIn(fs, mult) = SumFunctionOnSet(f, 1 .. n)
        /\ CostIn(gs, mult) = SumFunctionOnSet(g, 1 .. n + 1)
    BY <1>1 DEF CostIn, SumFunction
  <2> HIDE DEF f, g
  <2>3. SumFunctionOnSet(g, 1 .. n + 1) = SumFunctionOnSet(f, 1 .. n) + g[n + 1]
    BY <1>1, <2>1, SumAppended
  <2> QED
    BY <2>1, <2>2, <2>3
<1> QED
  BY <1>3, <1>4, <1>5 DEF gs

\* The fill in hand done.
LEMMA FillsShifted ==
    ASSUME NEW fs \in Seq(FillRecord), fs # <<>>, NEW i, NEW mult \in Nat
    PROVE  /\ ComingIn(Tail(fs), i) = ComingIn(fs, i) - IF Head(fs).maker = i THEN Head(fs).qty ELSE 0
           /\ SweptIn(Tail(fs)) = SweptIn(fs) - Head(fs).qty
           /\ CostIn(Tail(fs), mult)
                 = CostIn(fs, mult) - notional_cents(Head(fs).price, Head(fs).qty, mult)
<1> DEFINE gs == Tail(fs)
           n == Len(fs)
<1>1. /\ n \in Nat /\ n > 0 /\ DOMAIN fs = 1 .. n /\ DOMAIN gs = 1 .. n - 1
      /\ fs[1] = Head(fs) /\ \A k \in 1 .. n - 1 : gs[k] = fs[k + 1]
  <2>1. n \in Nat /\ n > 0 /\ DOMAIN fs = 1 .. n /\ fs[1] = Head(fs)
    BY FillsAreNumbers
  <2>2. gs \in Seq(FillRecord) /\ Len(gs) = n - 1
    BY <2>1
  <2>3. DOMAIN gs = 1 .. n - 1
    BY <2>1, <2>2
  <2>4. \A k \in 1 .. n - 1 : gs[k] = fs[k + 1]
    BY <2>1, <2>3, TailShifts
  <2> QED
    BY <2>1, <2>3, <2>4
<1>2. \A k \in 1 .. n : fs[k].qty \in Int /\ fs[k].price \in Int
  BY FillsAreNumbers
<1>3. \A k \in 1 .. n - 1 : k + 1 \in 1 .. n
  BY <1>1
<1> HIDE DEF gs, n
<1>4. ComingIn(gs, i) = ComingIn(fs, i) - IF Head(fs).maker = i THEN Head(fs).qty ELSE 0
  <2> DEFINE f == Qtys(fs, i)
             g == Qtys(gs, i)
  <2>1. /\ \A k \in 1 .. n : f[k] \in Int
        /\ \A k \in 1 .. n - 1 : g[k] = f[k + 1]
        /\ f[1] = IF Head(fs).maker = i THEN Head(fs).qty ELSE 0
    BY <1>1, <1>2, <1>3 DEF Qtys
  <2>2. ComingIn(fs, i) = SumFunctionOnSet(f, 1 .. n)
        /\ ComingIn(gs, i) = SumFunctionOnSet(g, 1 .. n - 1)
    BY <1>1 DEF ComingIn, SumFunction, Qtys
  <2> HIDE DEF f, g
  <2>3. SumFunctionOnSet(g, 1 .. n - 1) = SumFunctionOnSet(f, 1 .. n) - f[1]
    BY <1>1, <2>1, SumShift
  <2> QED
    BY <2>1, <2>2, <2>3
<1>5. SweptIn(gs) = SweptIn(fs) - Head(fs).qty
  <2> DEFINE f == [k \in DOMAIN fs |-> fs[k].qty]
             g == [k \in DOMAIN gs |-> gs[k].qty]
  <2>1. /\ \A k \in 1 .. n : f[k] \in Int
        /\ \A k \in 1 .. n - 1 : g[k] = f[k + 1]
        /\ f[1] = Head(fs).qty
    BY <1>1, <1>2, <1>3
  <2>2. SweptIn(fs) = SumFunctionOnSet(f, 1 .. n)
        /\ SweptIn(gs) = SumFunctionOnSet(g, 1 .. n - 1)
    BY <1>1 DEF SweptIn, SumFunction
  <2> HIDE DEF f, g
  <2>3. SumFunctionOnSet(g, 1 .. n - 1) = SumFunctionOnSet(f, 1 .. n) - f[1]
    BY <1>1, <2>1, SumShift
  <2> QED
    BY <2>1, <2>2, <2>3
<1>6. CostIn(gs, mult) = CostIn(fs, mult) - notional_cents(Head(fs).price, Head(fs).qty, mult)
  <2> DEFINE f == [k \in DOMAIN fs |-> notional_cents(fs[k].price, fs[k].qty, mult)]
             g == [k \in DOMAIN gs |-> notional_cents(gs[k].price, gs[k].qty, mult)]
  <2>1. /\ \A k \in 1 .. n : f[k] \in Int
        /\ \A k \in 1 .. n - 1 : g[k] = f[k + 1]
        /\ f[1] = notional_cents(Head(fs).price, Head(fs).qty, mult)
    BY <1>1, <1>2, <1>3, CentsInt
  <2>2. CostIn(fs, mult) = SumFunctionOnSet(f, 1 .. n)
        /\ CostIn(gs, mult) = SumFunctionOnSet(g, 1 .. n - 1)
    BY <1>1 DEF CostIn, SumFunction
  <2> HIDE DEF f, g
  <2>3. SumFunctionOnSet(g, 1 .. n - 1) = SumFunctionOnSet(f, 1 .. n) - f[1]
    BY <1>1, <2>1, SumShift
  <2> QED
    BY <2>1, <2>2, <2>3
<1> QED
  BY <1>4, <1>5, <1>6 DEF gs
-----------------------------------------------------------------------------
(* Volumes on the tape. *)

VolumeOf(log, trades) == SumFunction([n \in trades |-> log[n].qty])

LEMMA VolumeSame ==
    ASSUME NEW S, IsFiniteSet(S), NEW log, NEW log2,
           \A n \in S : log[n].qty \in Int /\ log2[n] = log[n]
    PROVE  VolumeOf(log2, S) = VolumeOf(log, S)
<1> DEFINE f == [n \in S |-> log[n].qty]
           g == [n \in S |-> log2[n].qty]
<1>1. \A n \in S : f[n] \in Int /\ g[n] = f[n]
  OBVIOUS
<1>2. VolumeOf(log, S) = SumFunctionOnSet(f, S) /\ VolumeOf(log2, S) = SumFunctionOnSet(g, S)
  BY DEF VolumeOf, SumFunction
<1> HIDE DEF f, g
<1> QED
  BY <1>1, <1>2, SumEqual

LEMMA VolumeMore ==
    ASSUME NEW S, IsFiniteSet(S), NEW log, NEW y, y \notin S,
           NEW T, T = S \cup {y}, \A n \in T : log[n].qty \in Int
    PROVE  VolumeOf(log, T) = VolumeOf(log, S) + log[y].qty
<1> DEFINE f == [n \in S |-> log[n].qty]
           g == [n \in T |-> log[n].qty]
<1>1. (\A n \in T : g[n] \in Int) /\ (\A n \in T : n # y => g[n] = f[n]) /\ g[y] = log[y].qty
  OBVIOUS
<1>2. IsFiniteSet(T) /\ y \in T /\ T \ {y} = S
  BY FS_AddElement
<1>3. VolumeOf(log, S) = SumFunctionOnSet(f, S) /\ VolumeOf(log, T) = SumFunctionOnSet(g, T)
  BY DEF VolumeOf, SumFunction
<1> HIDE DEF f, g
<1>4. SumFunctionOnSet(g, T) = SumFunctionOnSet(f, T \ {y}) + g[y]
  BY <1>1, <1>2, SumWith
<1> QED
  BY <1>1, <1>2, <1>3, <1>4

LEMMA VolumeType ==
    ASSUME NEW S, IsFiniteSet(S), NEW log, \A n \in S : log[n].qty \in Int
    PROVE  VolumeOf(log, S) \in Int
<1> DEFINE f == [n \in S |-> log[n].qty]
<1>1. \A n \in S : f[n] \in Int
  OBVIOUS
<1>2. VolumeOf(log, S) = SumFunctionOnSet(f, S)
  BY DEF VolumeOf, SumFunction
<1> HIDE DEF f
<1> QED
  BY <1>1, <1>2, SumType

LEMMA VolumeNatural ==
    ASSUME NEW S, IsFiniteSet(S), NEW log, \A n \in S : log[n].qty \in Nat
    PROVE  VolumeOf(log, S) \in Nat
<1> DEFINE f == [n \in S |-> log[n].qty]
<1>1. \A n \in S : f[n] \in Nat
  OBVIOUS
<1>2. VolumeOf(log, S) = SumFunctionOnSet(f, S)
  BY DEF VolumeOf, SumFunction
<1> HIDE DEF f
<1> QED
  BY <1>1, <1>2, SumNatural

\* The tape's numbers, and what a trade more changes.
LEMMA TapeNumbers ==
    ASSUME NEW log \in Seq(Trade)
    PROVE  /\ DOMAIN log = 1 .. Len(log) /\ Len(log) \in Nat /\ IsFiniteSet(DOMAIN log)
           /\ \A n \in DOMAIN log : log[n] \in Trade /\ log[n].qty \in Nat
<1>1. DOMAIN log = 1 .. Len(log) /\ Len(log) \in Nat /\ \A n \in DOMAIN log : log[n] \in Trade
  OBVIOUS
<1>2. IsFiniteSet(1 .. Len(log))
  BY <1>1, FS_Interval
<1> QED
  BY <1>1, <1>2 DEF Trade

LEMMA TapeAppended ==
    ASSUME NEW log \in Seq(Trade), NEW e \in Trade
    PROVE  /\ DOMAIN Append(log, e) = DOMAIN log \cup {Len(log) + 1} /\ Len(log) + 1 \notin DOMAIN log
           /\ Append(log, e)[Len(log) + 1] = e /\ Len(Append(log, e)) = Len(log) + 1
           /\ \A n \in DOMAIN log : Append(log, e)[n] = log[n]
<1>1. DOMAIN log = 1 .. Len(log) /\ Len(log) \in Nat
  OBVIOUS
<1>2. /\ Len(Append(log, e)) = Len(log) + 1 /\ DOMAIN Append(log, e) = 1 .. Len(log) + 1
      /\ Append(log, e)[Len(log) + 1] = e /\ \A n \in 1 .. Len(log) : Append(log, e)[n] = log[n]
  BY <1>1
<1> QED
  BY <1>1, <1>2

LEMMA TapeVolumeType ==
    ASSUME TypeOK
    PROVE  \A i : TapeVolume(i) \in Nat
<1> SUFFICES ASSUME NEW i PROVE TapeVolume(i) \in Nat
  OBVIOUS
<1> DEFINE S == {n \in DOMAIN tape : i \in {tape[n].buy, tape[n].sell}}
<1>1. tape \in Seq(Trade)
  BY DEF TypeOK
<1>2. IsFiniteSet(S)
  BY <1>1, TapeNumbers, FS_Subset
<1>3. \A n \in S : tape[n].qty \in Nat
  BY <1>1, TapeNumbers
<1>4. TapeVolume(i) = VolumeOf(tape, S)
  BY DEF TapeVolume, Volume, VolumeOf
<1> HIDE DEF S
<1> QED
  BY <1>2, <1>3, <1>4, VolumeNatural

LEMMA TapeVolumeNext ==
    ASSUME TypeOK, NEW e \in Trade, tape' = Append(tape, e), NEW i
    PROVE  TapeVolume(i)' = TapeVolume(i) + IF i \in {e.buy, e.sell} THEN e.qty ELSE 0
<1> DEFINE S == {n \in DOMAIN tape : i \in {tape[n].buy, tape[n].sell}}
           y == Len(tape) + 1
<1>1. tape \in Seq(Trade)
  BY DEF TypeOK
<1>2. PICK log : log = Append(tape, e)
  OBVIOUS
<1>3. /\ DOMAIN log = DOMAIN tape \cup {y} /\ y \notin DOMAIN tape /\ log[y] = e
      /\ \A n \in DOMAIN tape : log[n] = tape[n]
  BY <1>1, <1>2, TapeAppended
<1>4. PICK T : T = {n \in DOMAIN log : i \in {log[n].buy, log[n].sell}}
  OBVIOUS
<1>5. T = IF i \in {e.buy, e.sell} THEN S \cup {y} ELSE S
  BY <1>3, <1>4
<1>6. IsFiniteSet(S) /\ y \notin S /\ \A n \in S : tape[n].qty \in Int /\ log[n] = tape[n]
  <2>1. IsFiniteSet(S)
    BY <1>1, TapeNumbers, FS_Subset
  <2>2. \A n \in S : tape[n].qty \in Int
    BY <1>1, TapeNumbers
  <2> QED
    BY <1>3, <2>1, <2>2
<1>7. e.qty \in Nat /\ log[y].qty \in Int
  BY <1>3 DEF Trade
<1>8. TapeVolume(i) = VolumeOf(tape, S)
  BY DEF TapeVolume, Volume, VolumeOf
<1>9. TapeVolume(i)' = VolumeOf(log, T)
  BY <1>2, <1>4 DEF TapeVolume, Volume, VolumeOf
<1>10. VolumeOf(tape, S) \in Int
  BY <1>8, TapeVolumeType
<1> HIDE DEF S, y
<1>11. VolumeOf(log, S) = VolumeOf(tape, S)
  BY <1>6, VolumeSame
<1>12. CASE i \in {e.buy, e.sell}
  <2>1. T = S \cup {y} /\ IsFiniteSet(S) /\ y \notin S
    BY <1>5, <1>6, <1>12
  <2>3. \A n \in T : log[n].qty \in Int
    BY <1>6, <1>7, <2>1
  <2>2. VolumeOf(log, T) = VolumeOf(log, S) + log[y].qty
    BY <2>1, <2>3, VolumeMore
  <2> QED
    BY <1>3, <1>5, <1>8, <1>9, <1>11, <1>12, <2>2
<1>13. CASE ~(i \in {e.buy, e.sell})
  BY <1>5, <1>8, <1>9, <1>10, <1>11, <1>13
<1> QED
  BY <1>12, <1>13


-----------------------------------------------------------------------------
(* The ledger's running totals. *)

HeldBy(h, a) == SumFunction([i \in {j \in OrderId : h[j].account = a} |-> h[i].amount])

\* A hold more, and no hold of this account touched.
LEMMA HeldMore ==
    ASSUME NEW h, NEW g, NEW i \in OrderId, NEW a, \A j \in OrderId : h[j].amount \in Int /\ g[j].amount \in Int,
           \A j \in OrderId : j # i => g[j] = h[j], h[i].account # a, g[i].account = a
    PROVE  HeldBy(g, a) = HeldBy(h, a) + g[i].amount
<1> DEFINE S == {j \in OrderId : h[j].account = a}
           T == {j \in OrderId : g[j].account = a}
           f == [j \in S |-> h[j].amount]
           k == [j \in T |-> g[j].amount]
<1>1. i \in T /\ S = T \ {i}
  OBVIOUS
<1>2. IsFiniteSet(OrderId) /\ T \subseteq OrderId
  BY OMSAssumption, FS_Interval DEF OrderId
<1>3. IsFiniteSet(T)
  BY <1>2, FS_Subset
<1>4. (\A j \in T : k[j] \in Int) /\ (\A j \in T : j # i => k[j] = f[j]) /\ k[i] = g[i].amount
  BY <1>1
<1>5. HeldBy(h, a) = SumFunctionOnSet(f, S) /\ HeldBy(g, a) = SumFunctionOnSet(k, T)
  BY DEF HeldBy, SumFunction
<1> HIDE DEF S, T, f, k
<1>6. SumFunctionOnSet(k, T) = SumFunctionOnSet(f, T \ {i}) + k[i]
  BY <1>1, <1>3, <1>4, SumWith
<1> QED
  BY <1>1, <1>4, <1>5, <1>6

LEMMA HeldSame ==
    ASSUME NEW h, NEW g, NEW i \in OrderId, NEW a, \A j \in OrderId : h[j].amount \in Int,
           \A j \in OrderId : j # i => g[j] = h[j], h[i].account # a, g[i].account # a
    PROVE  HeldBy(g, a) = HeldBy(h, a)
<1>1. {j \in OrderId : g[j].account = a} = {j \in OrderId : h[j].account = a}
  OBVIOUS
<1>2. PICK S : S = {j \in OrderId : h[j].account = a}
  OBVIOUS
<1>3. \A j \in S : g[j] = h[j]
  BY <1>2
<1>4. [j \in S |-> g[j].amount] = [j \in S |-> h[j].amount]
  BY <1>3
<1> QED
  BY <1>1, <1>2, <1>4 DEF HeldBy

LEMMA HeldIsInt ==
    ASSUME NEW h, NEW a, \A j \in OrderId : h[j].amount \in Int
    PROVE  HeldBy(h, a) \in Int
<1> DEFINE S == {j \in OrderId : h[j].account = a}
           f == [j \in S |-> h[j].amount]
<1>1. IsFiniteSet(OrderId) /\ S \subseteq OrderId
  BY OMSAssumption, FS_Interval DEF OrderId
<1>2. IsFiniteSet(S)
  BY <1>1, FS_Subset
<1>3. \A j \in S : f[j] \in Int
  OBVIOUS
<1>4. HeldBy(h, a) = SumFunctionOnSet(f, S)
  BY DEF HeldBy, SumFunction
<1> HIDE DEF S, f
<1> QED
  BY <1>2, <1>3, <1>4, SumType

\* At every step the running total of an account's reservations is the sum of its holds.
ReservedIsHeld == \A a \in Account : reserved[a] = HeldBy(hold, a)

LEMMA HoldsAreTyped ==
    ASSUME TypeOK
    PROVE  \A j \in OrderId : hold[j].amount \in Int /\ (hold[j] = NoHold \/ hold[j].account \in Account)
<1>1. \A j \in OrderId : hold[j] \in Hold \cup {NoHold}
  BY DEF TypeOK
<1> QED
  BY <1>1 DEF Hold, NoHold

LEMMA HoldsAreTypedNext == TypeOK' => \A j \in OrderId : (hold[j].amount \in Int)'
<1>1. TypeOK => \A j \in OrderId : hold[j].amount \in Int
  BY HoldsAreTyped
<1>2. TypeOK' => (\A j \in OrderId : hold[j].amount \in Int)'
  BY <1>1, PTL
<1> QED
  BY <1>2

\* Setting a reservation aside, and giving one back, keep the totals.
LEMMA ReservingKeepsTotals ==
    ASSUME TypeOK, TypeOK', ReservedIsHeld, NEW i \in Used, NEW amount \in Int,
           CanReserve(i, amount), Reserve(i, amount)
    PROVE  ReservedIsHeld'
<1>1. i \in OrderId /\ req[i].account \in Account
  BY UsedIsTicket DEF Used
<1>2. hold[i] = NoHold /\ hold' = [hold EXCEPT ![i] = [account |-> req[i].account, amount |-> amount]]
      /\ reserved' = [reserved EXCEPT ![req[i].account] = @ + amount]
  BY DEF CanReserve, Reserve
<1>3. /\ DOMAIN hold = OrderId /\ DOMAIN reserved = Account
      /\ \A a \in Account : reserved[a] \in Int /\ a # "none"
  BY OMSAssumption DEF TypeOK
<1>4. hold'[i].account = req[i].account /\ hold'[i].amount = amount /\ \A j \in OrderId : j # i => hold'[j] = hold[j]
  BY <1>1, <1>2, <1>3
<1>5. \A j \in OrderId : hold[j].amount \in Int /\ hold'[j].amount \in Int
  BY HoldsAreTyped, HoldsAreTypedNext
<1>6. hold[i].account = "none"
  BY <1>2 DEF NoHold
<1> SUFFICES ASSUME NEW a \in Account PROVE reserved'[a] = HeldBy(hold', a)
  BY DEF ReservedIsHeld, HeldBy
<1>7. reserved[a] = HeldBy(hold, a)
  BY DEF ReservedIsHeld
<1>8. PICK h, g : h = hold /\ g = hold'
  OBVIOUS
<1>9. CASE a = req[i].account
  <2>2. /\ \A j \in OrderId : h[j].amount \in Int /\ g[j].amount \in Int
        /\ \A j \in OrderId : j # i => g[j] = h[j]
        /\ h[i].account # a /\ g[i].account = a
    BY <1>1, <1>3, <1>4, <1>5, <1>6, <1>8, <1>9
  <2>1. HeldBy(g, a) = HeldBy(h, a) + g[i].amount
    BY <1>1, <2>2, HeldMore
  <2> QED
    BY <1>2, <1>3, <1>4, <1>7, <1>8, <1>9, <2>1
<1>10. CASE a # req[i].account
  <2>1. HeldBy(g, a) = HeldBy(h, a)
    BY <1>1, <1>3, <1>4, <1>5, <1>6, <1>8, <1>10, HeldSame
  <2> QED
    BY <1>2, <1>3, <1>7, <1>8, <1>10, <2>1
<1> QED
  BY <1>9, <1>10

LEMMA ReleasingKeepsTotals ==
    ASSUME TypeOK, TypeOK', ReservedIsHeld, subject \in OrderId, ReleaseHold
    PROVE  ReservedIsHeld'
<1>1. /\ hold' = [hold EXCEPT ![subject] = NoHold]
      /\ reserved' = [a \in Account |-> IF a = hold[subject].account THEN reserved[a] - hold[subject].amount
                                        ELSE reserved[a]]
  BY DEF ReleaseHold
<1>2. PICK i, h, g : i = subject /\ h = hold /\ g = hold'
  OBVIOUS
<1>3. i \in OrderId /\ DOMAIN h = OrderId /\ \A a \in Account : reserved[a] \in Int /\ a # "none"
  BY <1>2, OMSAssumption DEF TypeOK
<1>4. g[i].account = "none" /\ \A j \in OrderId : j # i => g[j] = h[j]
  BY <1>1, <1>2, <1>3 DEF NoHold
<1>5. \A j \in OrderId : h[j].amount \in Int /\ g[j].amount \in Int
  BY <1>2, HoldsAreTyped, HoldsAreTypedNext
<1> SUFFICES ASSUME NEW a \in Account PROVE reserved'[a] = HeldBy(g, a)
  BY <1>2 DEF ReservedIsHeld, HeldBy
<1>6. reserved[a] = HeldBy(h, a) /\ g[i].account # a
  BY <1>2, <1>3, <1>4 DEF ReservedIsHeld
<1>7. CASE a = h[i].account
  <2>1. /\ \A j \in OrderId : g[j].amount \in Int /\ h[j].amount \in Int
        /\ \A j \in OrderId : j # i => h[j] = g[j]
        /\ g[i].account # a /\ h[i].account = a
    BY <1>4, <1>5, <1>6, <1>7
  <2>5. i \in OrderId
    BY <1>3
  <2>2. HeldBy(h, a) = HeldBy(g, a) + h[i].amount
    BY <2>1, <2>5, HeldMore
  <2>3. HeldBy(g, a) \in Int
    BY <1>5, HeldIsInt
  <2>4. reserved'[a] = reserved[a] - h[i].amount /\ h[i].amount \in Int
    BY <1>1, <1>2, <1>3, <1>5, <1>7
  <2> QED
    BY <1>6, <2>2, <2>3, <2>4
<1>8. CASE a # h[i].account
  <2>1. HeldBy(g, a) = HeldBy(h, a)
    BY <1>3, <1>4, <1>5, <1>6, <1>8, HeldSame
  <2> QED
    BY <1>1, <1>2, <1>6, <1>8, <2>1
<1> QED
  BY <1>7, <1>8

LEMMA RemainderHasValue ==
    ASSUME TypeOK, NEW i \in Used
    PROVE  /\ Notional(i, req[i].qty) \in Int /\ Remaining(i) \in Int
           /\ Notional(i, Remaining(i)) \in Int
<1>1. req[i].qty \in Int /\ req[i].price \in Int /\ filled[i] \in Int
  BY UsedIsTicket DEF TypeOK, Used
<1>2. Remaining(i) \in Int
  BY <1>1 DEF Remaining
<1> QED
  BY <1>1, <1>2, ValueIsInt DEF Notional

LEMMA TotalsAreKept ==
    ASSUME WellFormed, WellFormed', ReservedIsHeld, [Next]_vars
    PROVE  ReservedIsHeld'
<1>1. ASSUME UNCHANGED <<hold, reserved>> PROVE ReservedIsHeld'
  BY <1>1 DEF ReservedIsHeld, HeldBy
<1>2. TypeOK /\ TypeOK'
  BY DEF WellFormed
<1>3. CASE StartLimit
  <2>1. taker \in Used
    BY <1>3 DEF StartLimit, WellFormed, CallsAreInOrder
  <2>2. Notional(taker, req[taker].qty) \in Int
    BY <1>2, <2>1, RemainderHasValue
  <2>3. \/ UNCHANGED <<hold, reserved>>
        \/ CanReserve(taker, Notional(taker, req[taker].qty)) /\ Reserve(taker, Notional(taker, req[taker].qty))
    BY <1>3 DEF StartLimit
  <2> QED
    BY <1>1, <1>2, <2>1, <2>2, <2>3, ReservingKeepsTotals
<1>4. CASE ReserveRest
  <2>1. subject \in Used
    BY <1>4 DEF ReserveRest, WellFormed, CallsAreInOrder
  <2>2. Notional(subject, Remaining(subject)) \in Int
    BY <1>2, <2>1, RemainderHasValue
  <2>3. /\ CanReserve(subject, Notional(subject, Remaining(subject)))
        /\ Reserve(subject, Notional(subject, Remaining(subject)))
    BY <1>4 DEF ReserveRest
  <2> QED
    BY <1>2, <2>1, <2>2, <2>3, ReservingKeepsTotals
<1>5. CASE ReleaseHold
  <2>1. subject \in OrderId
    BY <1>5 DEF ReleaseHold, WellFormed, CallsAreInOrder, Used
  <2> QED
    BY <1>2, <1>5, <2>1, ReleasingKeepsTotals
<1>6. CASE place
  BY <1>1, <1>6 DEF place, PlaceInvalid, PlaceStop, PlaceNow, Register
<1>7. CASE \/ (\E i \in OrderId : cancel(i)) \/ SetKillSwitch \/ CheckLimit \/ StartMarket
           \/ (\E m \in OrderId : MatchOne(m)) \/ MatchDone
  BY <1>1, <1>7 DEF cancel, SetKillSwitch, CheckLimit, StartMarket, MatchOne, MatchDone
<1>8. CASE RecordTrade \/ Pay \/ PayRaises \/ Advance \/ Finish \/ ReserveRaises
  BY <1>1, <1>8 DEF RecordTrade, Pay, PayRaises, Advance, Finish, ReserveRaises
<1>9. CASE BookBuyer \/ BookSeller
  BY <1>1, <1>9, Zenon DEF BookBuyer, BookSeller, BookPosition
<1>10. CASE SaveResting \/ SavePlaced \/ SaveAndReturn \/ (\E i \in OrderId : Activate(i)) \/ Quiescent
  BY <1>1, <1>10 DEF SaveResting, SavePlaced, SaveAndReturn, WriteRow, Activate, Quiescent
<1>11. CASE UNCHANGED vars
  BY <1>1, <1>11 DEF vars
<1> QED
  BY <1>3, <1>4, <1>5, <1>6, <1>7, <1>8, <1>9, <1>10, <1>11 DEF Next, Step

LEMMA NothingIsHeld ==
    ASSUME Init
    PROVE  ReservedIsHeld
<1> SUFFICES ASSUME NEW a \in Account PROVE reserved[a] = HeldBy(hold, a)
  BY DEF ReservedIsHeld
<1>1. {j \in OrderId : hold[j].account = a} = {}
  BY OMSAssumption DEF Init, NoHold
<1>2. HeldBy(hold, a) = 0
  <2>1. HeldBy(hold, a) = SumFunctionOnSet([i \in {} |-> hold[i].amount], {})
    BY <1>1 DEF HeldBy, SumFunction
  <2> QED
    BY <2>1, SumEmpty
<1> QED
  BY <1>2 DEF Init

-----------------------------------------------------------------------------
(* Positions and the tape. *)

Bought(log, numbers, a, s) == VolumeOf(log, {n \in numbers : log[n].symbol = s /\ log[n].buyer = a})
Sold(log, numbers, a, s) == VolumeOf(log, {n \in numbers : log[n].symbol = s /\ log[n].seller = a})

\* One trade more: it counts for the account if it is the account's and in that symbol.
LEMMA BoughtMore ==
    ASSUME NEW P, IsFiniteSet(P), NEW log, \A n \in P : log[n].qty \in Int, NEW k \in P, NEW a, NEW s
    PROVE  /\ Bought(log, P, a, s) = Bought(log, P \ {k}, a, s)
                 + IF log[k].symbol = s /\ log[k].buyer = a THEN log[k].qty ELSE 0
           /\ Bought(log, P, a, s) \in Int /\ Bought(log, P \ {k}, a, s) \in Int
<1> DEFINE S == {n \in P \ {k} : log[n].symbol = s /\ log[n].buyer = a}
           T == {n \in P : log[n].symbol = s /\ log[n].buyer = a}
<1>1. S \subseteq P /\ T \subseteq P /\ k \notin S
  OBVIOUS
<1>2. T = IF log[k].symbol = s /\ log[k].buyer = a THEN S \cup {k} ELSE S
  OBVIOUS
<1>3. IsFiniteSet(S) /\ IsFiniteSet(T)
  BY <1>1, FS_Subset
<1>4. \A n \in T : log[n].qty \in Int
  OBVIOUS
<1>5. \A n \in S : log[n].qty \in Int
  OBVIOUS
<1>6. Bought(log, P, a, s) = VolumeOf(log, T) /\ Bought(log, P \ {k}, a, s) = VolumeOf(log, S)
  BY DEF Bought
<1> HIDE DEF S, T
<1>7. VolumeOf(log, T) \in Int /\ VolumeOf(log, S) \in Int
  BY <1>3, <1>4, <1>5, VolumeType
<1>8. CASE log[k].symbol = s /\ log[k].buyer = a
  <2>1. T = S \cup {k}
    BY <1>2, <1>8
  <2>2. VolumeOf(log, T) = VolumeOf(log, S) + log[k].qty
    BY <1>1, <1>3, <1>4, <2>1, VolumeMore
  <2> QED
    BY <1>6, <1>7, <1>8, <2>2
<1>9. CASE ~(log[k].symbol = s /\ log[k].buyer = a)
  BY <1>2, <1>6, <1>7, <1>9
<1> QED
  BY <1>8, <1>9

LEMMA SoldMore ==
    ASSUME NEW P, IsFiniteSet(P), NEW log, \A n \in P : log[n].qty \in Int, NEW k \in P, NEW a, NEW s
    PROVE  /\ Sold(log, P, a, s) = Sold(log, P \ {k}, a, s)
                 + IF log[k].symbol = s /\ log[k].seller = a THEN log[k].qty ELSE 0
           /\ Sold(log, P, a, s) \in Int /\ Sold(log, P \ {k}, a, s) \in Int
<1> DEFINE S == {n \in P \ {k} : log[n].symbol = s /\ log[n].seller = a}
           T == {n \in P : log[n].symbol = s /\ log[n].seller = a}
<1>1. S \subseteq P /\ T \subseteq P /\ k \notin S
  OBVIOUS
<1>2. T = IF log[k].symbol = s /\ log[k].seller = a THEN S \cup {k} ELSE S
  OBVIOUS
<1>3. IsFiniteSet(S) /\ IsFiniteSet(T)
  BY <1>1, FS_Subset
<1>4. \A n \in T : log[n].qty \in Int
  OBVIOUS
<1>5. \A n \in S : log[n].qty \in Int
  OBVIOUS
<1>6. Sold(log, P, a, s) = VolumeOf(log, T) /\ Sold(log, P \ {k}, a, s) = VolumeOf(log, S)
  BY DEF Sold
<1> HIDE DEF S, T
<1>7. VolumeOf(log, T) \in Int /\ VolumeOf(log, S) \in Int
  BY <1>3, <1>4, <1>5, VolumeType
<1>8. CASE log[k].symbol = s /\ log[k].seller = a
  <2>1. T = S \cup {k}
    BY <1>2, <1>8
  <2>2. VolumeOf(log, T) = VolumeOf(log, S) + log[k].qty
    BY <1>1, <1>3, <1>4, <2>1, VolumeMore
  <2> QED
    BY <1>6, <1>7, <1>8, <2>2
<1>9. CASE ~(log[k].symbol = s /\ log[k].seller = a)
  BY <1>2, <1>6, <1>7, <1>9
<1> QED
  BY <1>8, <1>9

\* What is bought and sold depends on the trades counted alone.
LEMMA TradedSame ==
    ASSUME NEW P, IsFiniteSet(P), NEW log, NEW log2, \A n \in P : log[n].qty \in Int /\ log2[n] = log[n],
           NEW a, NEW s
    PROVE  Bought(log2, P, a, s) = Bought(log, P, a, s) /\ Sold(log2, P, a, s) = Sold(log, P, a, s)
<1> DEFINE S == {n \in P : log[n].symbol = s /\ log[n].buyer = a}
           T == {n \in P : log[n].symbol = s /\ log[n].seller = a}
<1>1. S \subseteq P /\ T \subseteq P
  OBVIOUS
<1>2. IsFiniteSet(S) /\ IsFiniteSet(T)
  BY <1>1, FS_Subset
<1>3. \A n \in S : log[n].qty \in Int /\ log2[n] = log[n]
  OBVIOUS
<1>4. \A n \in T : log[n].qty \in Int /\ log2[n] = log[n]
  OBVIOUS
<1>5. /\ {n \in P : log2[n].symbol = s /\ log2[n].buyer = a} = S
      /\ {n \in P : log2[n].symbol = s /\ log2[n].seller = a} = T
  OBVIOUS
<1>6. /\ Bought(log, P, a, s) = VolumeOf(log, S) /\ Sold(log, P, a, s) = VolumeOf(log, T)
      /\ Bought(log2, P, a, s) = VolumeOf(log2, S) /\ Sold(log2, P, a, s) = VolumeOf(log2, T)
  BY <1>5 DEF Bought, Sold
<1> HIDE DEF S, T
<1>7. VolumeOf(log2, S) = VolumeOf(log, S)
  BY <1>2, <1>3, VolumeSame
<1>8. VolumeOf(log2, T) = VolumeOf(log, T)
  BY <1>2, <1>4, VolumeSame
<1> QED
  BY <1>6, <1>7, <1>8

Recorded == pc \in {"pay", "book buy", "book sell", "advance"}
Paid == pc \in {"book buy", "book sell", "advance"}
TradeInHand == [buy |-> BuyOrder, sell |-> SellOrder,
              buyer |-> req[BuyOrder].account, seller |-> req[SellOrder].account,
              symbol |-> req[taker].symbol, price |-> Fill.price, qty |-> Fill.qty]

\* The trades the buyers' positions show, and those the sellers' show: the one in hand is
\* booked on one side after the other.
BookedIn == IF pc = "book buy" THEN posted \ {Len(tape)} ELSE posted
BookedOut == IF pc \in {"book buy", "book sell"} THEN posted \ {Len(tape)} ELSE posted
Positions ==
    \A a \in Account, s \in Symbol :
        position[a][s] = Bought(tape, BookedIn, a, s) - Sold(tape, BookedOut, a, s)

\* Only trades on the tape are paid, and the trade in hand is the last one on it; it is
\* paid once, in its turn.
LastIsInHand ==
    /\ posted \subseteq DOMAIN tape
    /\ Recorded => /\ Len(tape) \in DOMAIN tape /\ tape[Len(tape)] = TradeInHand
                   /\ Len(tape) \in posted <=> Paid

PositionsFit == LastIsInHand /\ Positions

LEMMA PostedAreTrades ==
    ASSUME TypeOK, posted \subseteq DOMAIN tape
    PROVE  IsFiniteSet(posted) /\ \A n \in posted : tape[n] \in Trade /\ tape[n].qty \in Int
<1>1. tape \in Seq(Trade)
  BY DEF TypeOK
<1>2. IsFiniteSet(posted)
  BY <1>1, TapeNumbers, FS_Subset
<1> QED
  BY <1>1, <1>2, TapeNumbers

\* Steps that record, pay and book nothing.
LEMMA PositionsLeftAlone ==
    ASSUME PositionsFit, UNCHANGED <<tape, posted, position>>,
           pc \notin {"book buy", "book sell"}, pc' \notin {"pay", "book buy", "book sell", "advance"}
    PROVE  PositionsFit'
<1>1. LastIsInHand'
  BY DEF PositionsFit, LastIsInHand, Recorded
<1>2. Positions'
  BY DEF PositionsFit, Positions, BookedIn, BookedOut, Bought, Sold
<1> QED
  BY <1>1, <1>2 DEF PositionsFit

LEMMA RecordingKeepsPositions ==
    ASSUME WellFormed, WellFormed', PositionsFit, RecordTrade
    PROVE  PositionsFit'
<1>1. PICK e : e = TradeInHand
  OBVIOUS
<1>2. /\ pc = "settle" /\ pc' = "pay" /\ tape' = Append(tape, e)
      /\ UNCHANGED <<req, taker, fills, posted, position>>
  BY <1>1 DEF RecordTrade, Goto, TradeInHand
<1>3. tape \in Seq(Trade) /\ tape' \in Seq(Trade)
  BY DEF WellFormed, TypeOK
<1>4. e \in Trade
  <2>1. tape \in Seq(Trade \cup {e}) /\ e \in Trade \cup {e}
    BY <1>3
  <2>2. Len(tape) \in Nat /\ Len(tape') = Len(tape) + 1 /\ tape'[Len(tape) + 1] = e
    BY <1>2, <2>1
  <2>3. Len(tape) + 1 \in DOMAIN tape'
    BY <1>3, <2>2
  <2> QED
    BY <1>3, <2>2, <2>3
<1>5. /\ DOMAIN tape' = DOMAIN tape \cup {Len(tape) + 1} /\ Len(tape) + 1 \notin DOMAIN tape
      /\ tape'[Len(tape) + 1] = e /\ Len(tape') = Len(tape) + 1
      /\ \A n \in DOMAIN tape : tape'[n] = tape[n]
  BY <1>2, <1>3, <1>4, TapeAppended
<1>6. posted \subseteq DOMAIN tape
  BY DEF PositionsFit, LastIsInHand
<1>7. TradeInHand' = TradeInHand
  BY <1>2 DEF TradeInHand, BuyOrder, SellOrder, Fill, IsBuy
<1>8. LastIsInHand'
  BY <1>1, <1>2, <1>5, <1>6, <1>7 DEF LastIsInHand, Recorded, Paid
<1>9. Positions'
  <2> SUFFICES ASSUME NEW a \in Account, NEW s \in Symbol
               PROVE  position'[a][s] = Bought(tape', posted', a, s) - Sold(tape', posted', a, s)
    BY <1>2 DEF Positions, BookedIn, BookedOut, Bought, Sold
  <2>1. position[a][s] = Bought(tape, posted, a, s) - Sold(tape, posted, a, s)
    BY <1>2 DEF PositionsFit, Positions, BookedIn, BookedOut
  <2>2. PICK log, log2, P : log = tape /\ log2 = tape' /\ P = posted
    OBVIOUS
  <2>3. IsFiniteSet(P)
    BY <1>6, <2>2, PostedAreTrades DEF WellFormed
  <2>4. \A n \in P : log[n].qty \in Int /\ log2[n] = log[n]
    BY <1>5, <1>6, <2>2, PostedAreTrades DEF WellFormed
  <2>5. Bought(log2, P, a, s) = Bought(log, P, a, s) /\ Sold(log2, P, a, s) = Sold(log, P, a, s)
    BY <2>3, <2>4, TradedSame
  <2> QED
    BY <1>2, <2>1, <2>2, <2>5
<1> QED
  BY <1>8, <1>9 DEF PositionsFit

LEMMA PayingKeepsPositions ==
    ASSUME PositionsFit, Pay
    PROVE  PositionsFit'
<1>1. /\ pc = "pay" /\ pc' = "book buy" /\ posted' = posted \cup {Len(tape)}
      /\ UNCHANGED <<req, taker, fills, tape, position>>
  BY DEF Pay, Goto, TxnId
<1>2. Len(tape) \in DOMAIN tape /\ tape[Len(tape)] = TradeInHand /\ Len(tape) \notin posted
      /\ posted \subseteq DOMAIN tape
  BY <1>1 DEF PositionsFit, LastIsInHand, Recorded, Paid
<1>3. TradeInHand' = TradeInHand
  BY <1>1 DEF TradeInHand, BuyOrder, SellOrder, Fill, IsBuy
<1>4. LastIsInHand'
  BY <1>1, <1>2, <1>3 DEF LastIsInHand, Recorded, Paid
<1>5. posted' \ {Len(tape')} = posted
  BY <1>1, <1>2
<1>6. Positions'
  <2>1. BookedIn' = posted /\ BookedOut' = posted /\ BookedIn = posted /\ BookedOut = posted
    BY <1>1, <1>5 DEF BookedIn, BookedOut
  <2>2. PICK P, log : P = posted /\ log = tape
    OBVIOUS
  <2> QED
    BY <1>1, <2>1, <2>2 DEF PositionsFit, Positions, Bought, Sold
<1> QED
  BY <1>4, <1>6 DEF PositionsFit

\* Writing one entry of the table of positions.
Put(table, A, X, change) == [table EXCEPT ![A] = [table[A] EXCEPT ![X] = table[A][X] + change]]

LEMMA OneEntryChanges ==
    ASSUME NEW table \in [Account -> [Symbol -> Int]], NEW table2, NEW A \in Account, NEW X \in Symbol,
           NEW change \in Int, table2 = Put(table, A, X, change)
    PROVE  \A a \in Account, s \in Symbol :
               /\ s = X /\ a = A => table2[a][s] = table[a][s] + change
               /\ ~(s = X /\ a = A) => table2[a][s] = table[a][s]
<1> SUFFICES ASSUME NEW a \in Account, NEW s \in Symbol
             PROVE  /\ s = X /\ a = A => table2[a][s] = table[a][s] + change
                    /\ ~(s = X /\ a = A) => table2[a][s] = table[a][s]
  OBVIOUS
<1>1. PICK row : row = [table[A] EXCEPT ![X] = table[A][X] + change]
  OBVIOUS
<1>2. table2 = [table EXCEPT ![A] = row]
  BY <1>1 DEF Put
<1>3. table[a][s] \in Int /\ table[A] \in [Symbol -> Int]
  OBVIOUS
<1>4. CASE a = A
  <2>1. table2[a] = row
    BY <1>2, <1>4
  <2>2. row[s] = IF s = X THEN table[A][s] + change ELSE table[A][s]
    BY <1>1, <1>3
  <2> QED
    BY <1>3, <1>4, <2>1, <2>2
<1>5. CASE a # A
  BY <1>2, <1>3, <1>5
<1> QED
  BY <1>4, <1>5

\* The fill in hand is between two orders on the symbol of the tape's last trade.
LEMMA FillIsOfOneSymbol ==
    ASSUME WellFormed, FillsAreFresh, taker # 0, fills # <<>>
    PROVE  /\ req[BuyOrder].symbol = req[taker].symbol /\ req[SellOrder].symbol = req[taker].symbol
           /\ Fill.maker # taker /\ Fill.price > 0 /\ Fill.price = req[Fill.maker].price
           /\ req[Fill.maker].symbol = req[taker].symbol
<1>1. fills \in Seq(FillRecord)
  BY DEF WellFormed, TypeOK
<1>2. Fill = fills[1] /\ 1 \in DOMAIN fills
  BY <1>1, TailShifts DEF Fill
<1>3. /\ Fill.maker # taker /\ Fill.price > 0 /\ Fill.price = req[Fill.maker].price
      /\ req[Fill.maker].symbol = req[taker].symbol
  BY <1>2 DEF FillsAreFresh
<1> QED
  BY <1>3 DEF BuyOrder, SellOrder

LEMMA BookingKeepsPositions ==
    ASSUME WellFormed, FillsAreFresh, PositionsFit, BookBuyer \/ BookSeller
    PROVE  PositionsFit'
<1>1. /\ pc \in {"book buy", "book sell"}
      /\ UNCHANGED <<req, taker, fills, tape, posted>>
  BY Zenon DEF BookBuyer, BookSeller, BookPosition
<1>2. pc' \in {"book sell", "advance"}
  BY Zenon DEF BookBuyer, BookSeller, Goto
<1>3. Len(tape) \in DOMAIN tape /\ tape[Len(tape)] = TradeInHand /\ Len(tape) \in posted
      /\ posted \subseteq DOMAIN tape
  BY <1>1 DEF PositionsFit, LastIsInHand, Recorded, Paid
<1>4. TradeInHand' = TradeInHand
  BY <1>1 DEF TradeInHand, BuyOrder, SellOrder, Fill, IsBuy
<1>5. LastIsInHand'
  BY <1>1, <1>2, <1>3, <1>4 DEF LastIsInHand, Recorded, Paid
<1>6. taker # 0 /\ fills # <<>>
  BY <1>1 DEF WellFormed, CallsAreInOrder
<1>7. BuyOrder \in Used /\ SellOrder \in Used /\ Fill.qty \in Nat \ {0}
  BY <1>6, FillIsOfOrders DEF FillRecord
<1>8. req[BuyOrder].symbol = req[taker].symbol /\ req[SellOrder].symbol = req[taker].symbol
  BY <1>6, FillIsOfOneSymbol
<1>9. PICK log, P, k, e : log = tape /\ P = posted /\ k = Len(tape) /\ e = TradeInHand
  OBVIOUS
<1>10. /\ e.buyer = req[BuyOrder].account /\ e.seller = req[SellOrder].account
       /\ e.symbol = req[taker].symbol /\ e.qty = Fill.qty
  BY <1>9 DEF TradeInHand
<1>11. IsFiniteSet(P) /\ k \in P /\ log[k] = e
  BY <1>3, <1>9, PostedAreTrades DEF WellFormed
<1>12. \A n \in P : log[n].qty \in Int
  BY <1>3, <1>9, PostedAreTrades DEF WellFormed
<1> SUFFICES ASSUME NEW a \in Account, NEW s \in Symbol
             PROVE  position'[a][s] = Bought(log, BookedIn', a, s) - Sold(log, BookedOut', a, s)
  BY <1>1, <1>5, <1>9 DEF PositionsFit, Positions, Bought, Sold
<1>13. position[a][s] = Bought(log, BookedIn, a, s) - Sold(log, BookedOut, a, s)
  BY <1>9 DEF PositionsFit, Positions
<1>14. /\ Bought(log, P, a, s) = Bought(log, P \ {k}, a, s)
              + IF e.symbol = s /\ e.buyer = a THEN e.qty ELSE 0
       /\ Bought(log, P, a, s) \in Int /\ Bought(log, P \ {k}, a, s) \in Int
  BY <1>11, <1>12, BoughtMore
<1>15. /\ Sold(log, P, a, s) = Sold(log, P \ {k}, a, s)
              + IF e.symbol = s /\ e.seller = a THEN e.qty ELSE 0
       /\ Sold(log, P, a, s) \in Int /\ Sold(log, P \ {k}, a, s) \in Int
  BY <1>11, <1>12, SoldMore
<1>16. CASE BookBuyer
  <2>1. pc = "book buy" /\ pc' = "book sell" /\ BookPosition(BuyOrder, Fill.qty)
    BY <1>16, Zenon DEF BookBuyer, Goto
  <2>2. BookedIn = P \ {k} /\ BookedOut = P \ {k} /\ BookedIn' = P /\ BookedOut' = P \ {k}
    BY <1>1, <1>9, <2>1 DEF BookedIn, BookedOut
  <2>3. position'[a][s] = position[a][s]
            + IF s = req[BuyOrder].symbol /\ a = req[BuyOrder].account THEN Fill.qty ELSE 0
    <3>1. PICK table, table2, A, X, c :
             table = position /\ table2 = position' /\ A = req[BuyOrder].account /\ X = req[BuyOrder].symbol /\ c = Fill.qty
      OBVIOUS
    <3>2. A \in Account /\ X \in Symbol /\ c \in Int
      BY <1>7, <3>1, UsedIsTicket DEF WellFormed
    <3>3. table2 = Put(table, A, X, c)
      <4>1. position' = [position EXCEPT ![req[BuyOrder].account] =
                            [position[req[BuyOrder].account] EXCEPT
                                ![req[BuyOrder].symbol] =
                                    position[req[BuyOrder].account][req[BuyOrder].symbol] + Fill.qty]]
        BY <2>1, Zenon DEF BookPosition
      <4> QED
        BY <3>1, <4>1, Zenon DEF Put
    <3>4. table \in [Account -> [Symbol -> Int]]
      BY <3>1 DEF WellFormed, TypeOK
    <3>5. /\ s = X /\ a = A => table2[a][s] = table[a][s] + c
          /\ ~(s = X /\ a = A) => table2[a][s] = table[a][s]
      BY <3>2, <3>3, <3>4, OneEntryChanges
    <3>6. table[a][s] \in Int
      BY <3>4
    <3> QED
      BY <3>1, <3>5, <3>6
  <2>4. position'[a][s] = position[a][s] + IF e.symbol = s /\ e.buyer = a THEN e.qty ELSE 0
    BY <1>8, <1>10, <2>3
  <2>5. position[a][s] = Bought(log, P \ {k}, a, s) - Sold(log, P \ {k}, a, s)
    BY <1>13, <2>2
  <2>6. e.qty \in Int
    BY <1>7, <1>10
  <2>7. position'[a][s] = Bought(log, P, a, s) - Sold(log, P \ {k}, a, s)
    BY <1>14, <1>15, <2>4, <2>5, <2>6
  <2> QED
    BY <2>2, <2>7
<1>17. CASE BookSeller
  <2>1. pc = "book sell" /\ pc' = "advance" /\ BookPosition(SellOrder, -Fill.qty)
    BY <1>17, Zenon DEF BookSeller, Goto
  <2>2. BookedIn = P /\ BookedOut = P \ {k} /\ BookedIn' = P /\ BookedOut' = P
    BY <1>1, <1>9, <2>1 DEF BookedIn, BookedOut
  <2>3. position'[a][s] = position[a][s]
            + IF s = req[SellOrder].symbol /\ a = req[SellOrder].account THEN -Fill.qty ELSE 0
    <3>1. PICK table, table2, A, X, c :
             table = position /\ table2 = position' /\ A = req[SellOrder].account /\ X = req[SellOrder].symbol /\ c = -Fill.qty
      OBVIOUS
    <3>2. A \in Account /\ X \in Symbol /\ c \in Int
      BY <1>7, <3>1, UsedIsTicket DEF WellFormed
    <3>3. table2 = Put(table, A, X, c)
      <4>1. position' = [position EXCEPT ![req[SellOrder].account] =
                            [position[req[SellOrder].account] EXCEPT
                                ![req[SellOrder].symbol] =
                                    position[req[SellOrder].account][req[SellOrder].symbol] + -Fill.qty]]
        BY <2>1, Zenon DEF BookPosition
      <4> QED
        BY <3>1, <4>1, Zenon DEF Put
    <3>4. table \in [Account -> [Symbol -> Int]]
      BY <3>1 DEF WellFormed, TypeOK
    <3>5. /\ s = X /\ a = A => table2[a][s] = table[a][s] + c
          /\ ~(s = X /\ a = A) => table2[a][s] = table[a][s]
      BY <3>2, <3>3, <3>4, OneEntryChanges
    <3>6. table[a][s] \in Int
      BY <3>4
    <3> QED
      BY <3>1, <3>5, <3>6
  <2>4. position'[a][s] = position[a][s] + IF e.symbol = s /\ e.seller = a THEN -e.qty ELSE 0
    BY <1>8, <1>10, <2>3
  <2>5. position[a][s] = Bought(log, P, a, s) - Sold(log, P \ {k}, a, s)
    BY <1>13, <2>2
  <2>6. e.qty \in Int
    BY <1>7, <1>10
  <2>7. position'[a][s] = Bought(log, P, a, s) - Sold(log, P, a, s)
    BY <1>14, <1>15, <2>4, <2>5, <2>6
  <2> QED
    BY <2>2, <2>7
<1> QED
  BY <1>16, <1>17

LEMMA PositionsStayFit ==
    ASSUME WellFormed, WellFormed', FillsAreFresh, PositionsFit, [Next]_vars
    PROVE  PositionsFit'
<1>1. CASE place
  BY <1>1, PositionsLeftAlone
     DEF place, PlaceInvalid, PlaceStop, PlaceNow, Register, Goto
<1>2. CASE StartLimit \/ CheckLimit \/ StartMarket
  <2>1. UNCHANGED <<tape, posted, position>> /\ pc \in {"start", "risk"}
    BY <1>2 DEF StartLimit, CheckLimit, StartMarket
  <2>2. pc' \notin {"pay", "book buy", "book sell", "advance"}
    BY <1>2 DEF StartLimit, CheckLimit, StartMarket, ThenWrite, Sweep, Goto
  <2> QED
    BY <2>1, <2>2, PositionsLeftAlone
<1>3. CASE RecordTrade
  BY <1>3, RecordingKeepsPositions
<1>4. CASE Pay
  BY <1>4, PayingKeepsPositions
<1>5. CASE BookBuyer \/ BookSeller
  BY <1>5, BookingKeepsPositions
<1>6. CASE PayRaises \/ ReserveRaises \/ Quiescent \/ SaveAndReturn
  <2>1. UNCHANGED <<tape, posted, position>> /\ pc \in {"pay", "reserve", "triggers", "save"} /\ pc' = "idle"
    BY <1>6 DEF PayRaises, ReserveRaises, Quiescent, SaveAndReturn, WriteRow, EndCall, Goto
  <2> QED
    BY <2>1, PositionsLeftAlone
<1>7. CASE Advance \/ Finish \/ ReleaseHold \/ ReserveRest
  <2>1. UNCHANGED <<tape, posted, position>> /\ pc \in {"advance", "settle", "release", "reserve"}
    BY <1>7 DEF Advance, Finish, ReleaseHold, ReserveRest
  <2>2. pc' \in {"release", "reserve", "save"}
    BY <1>7 DEF Advance, Finish, ReleaseHold, ReserveRest, ThenWrite, Goto
  <2> QED
    BY <2>1, <2>2, PositionsLeftAlone
<1>8. CASE SaveResting \/ SavePlaced \/ MatchDone
  <2>1. UNCHANGED <<tape, posted, position>> /\ pc \in {"save", "match"}
    BY <1>8 DEF SaveResting, SavePlaced, MatchDone, WriteRow
  <2>2. pc' \in {"settle", "triggers"}
    BY <1>8 DEF SaveResting, SavePlaced, MatchDone, WriteRow, Goto
  <2> QED
    BY <2>1, <2>2, PositionsLeftAlone
<1>9. ASSUME NEW i \in OrderId, cancel(i) \/ Activate(i) \/ MatchOne(i) PROVE PositionsFit'
  <2>1. /\ UNCHANGED <<tape, posted, position>> /\ pc \in {"idle", "triggers", "match"}
        /\ pc' \in {"release", "save", "start", "match"}
    BY <1>9 DEF cancel, Activate, MatchOne, Goto
  <2> QED
    BY <2>1, PositionsLeftAlone
<1>10. CASE SetKillSwitch \/ UNCHANGED vars
  <2>1. UNCHANGED <<pc, req, taker, fills, tape, posted, position>>
    BY <1>10 DEF SetKillSwitch, vars
  <2>2. TradeInHand' = TradeInHand
    BY <2>1 DEF TradeInHand, BuyOrder, SellOrder, Fill, IsBuy
  <2>3. LastIsInHand'
    BY <2>1, <2>2 DEF PositionsFit, LastIsInHand, Recorded, Paid
  <2>4. Positions'
    BY <2>1 DEF PositionsFit, Positions, BookedIn, BookedOut, Bought, Sold
  <2> QED
    BY <2>3, <2>4 DEF PositionsFit
<1> QED
  BY <1>1, <1>2, <1>3, <1>4, <1>5, <1>6, <1>7, <1>8, <1>9, <1>10 DEF Next, Step

LEMMA NoPositions ==
    ASSUME Init
    PROVE  PositionsFit
<1>1. LastIsInHand
  BY DEF Init, LastIsInHand, Recorded
<1>2. BookedIn = {} /\ BookedOut = {} /\ position = [a \in Account |-> [s \in Symbol |-> 0]]
  BY DEF Init, BookedIn, BookedOut
<1>3. VolumeOf(tape, {}) = 0
  <2>1. VolumeOf(tape, {}) = SumFunctionOnSet([n \in {} |-> tape[n].qty], {})
    BY DEF VolumeOf, SumFunction
  <2> QED
    BY <2>1, SumEmpty
<1>4. \A a, s : Bought(tape, {}, a, s) = 0 /\ Sold(tape, {}, a, s) = 0
  <2> SUFFICES ASSUME NEW a, NEW s PROVE Bought(tape, {}, a, s) = 0 /\ Sold(tape, {}, a, s) = 0
    OBVIOUS
  <2>1. /\ {n \in {} : tape[n].symbol = s /\ tape[n].buyer = a} = {}
        /\ {n \in {} : tape[n].symbol = s /\ tape[n].seller = a} = {}
    OBVIOUS
  <2> QED
    BY <1>3, <2>1 DEF Bought, Sold
<1>5. Positions
  BY <1>2, <1>4 DEF Positions
<1> QED
  BY <1>1, <1>5 DEF PositionsFit

\* The positions are those of the tape once no trade is being booked.
LEMMA PositionsShowTape == PositionsFit => PositionsFollowTape
<1> SUFFICES ASSUME PositionsFit, pc = "idle", NEW a \in Account, NEW s \in Symbol
             PROVE  position[a][s] = Volume({n \in posted : tape[n].symbol = s /\ tape[n].buyer = a})
                                   - Volume({n \in posted : tape[n].symbol = s /\ tape[n].seller = a})
  BY DEF PositionsFollowTape, Idle
<1>1. position[a][s] = Bought(tape, posted, a, s) - Sold(tape, posted, a, s)
  BY DEF PositionsFit, Positions, BookedIn, BookedOut
<1> QED
  BY <1>1 DEF Bought, Sold, Volume, VolumeOf

\* What every account holds is what the tape says it bought less what it sold, in the
\* trades that settled (oms.py, _settle; portfolio.py, on_fill).
THEOREM PositionsAreTraded == Spec => []PositionsFollowTape
<1> DEFINE Fits == WellFormed /\ FillsAreFresh /\ PositionsFit
<1>1. Init => Fits
  <2> SUFFICES ASSUME Init PROVE Fits
    OBVIOUS
  <2>1. fills = <<>>
    BY DEF Init
  <2>2. FillsAreFresh
    BY <2>1, EmptyHasNoIndex DEF FillsAreFresh
  <2> QED
    BY <2>2, InitIsWellFormed, NoPositions
<1>2. Fits /\ [Next]_vars => Fits'
  BY StepsKeepForm, FillsStayFresh, PositionsStayFit
<1>3. Fits => PositionsFollowTape
  BY PositionsShowTape
<1> HIDE DEF Fits
<1> QED
  BY <1>1, <1>2, <1>3, PTL DEF Spec

-----------------------------------------------------------------------------
(* The orders, the book and the tape. *)

\* No trade is unpaid but the one whose payment is next.
Whole == \A n \in DOMAIN tape : n \in posted \/ (pc = "pay" /\ n = Len(tape))

\* What the sweep has taken from i, and from everyone, and not yet applied.
Coming(i) == ComingIn(fills, i)
Swept == SweptIn(fills)

\* An order is being placed: it waits for its sweep, or sweeps and applies its fills; in
\* between it is the turn of the resting order to be written.
MakerTurn == taker # 0 /\ subject # taker /\ pc \in {"release", "reserve", "save"}
Sweeping == pc \in {"match", "settle"} \/ Recorded \/ MakerTurn
Placing == pc \in {"start", "risk"} \/ Sweeping

Expected(i) == IF Working(i) THEN Remaining(i) ELSE 0
Taken(i) == IF MakerTurn /\ i = Fill.maker THEN Fill.qty ELSE 0
Noted(i) == IF Recorded /\ i = Fill.maker THEN Fill.qty ELSE 0

\* A resting or finished order: the book offers what it has left, but for the fills it has
\* not been told of; the tape shows what it has filled, but for the trade in hand.
Order(i) ==
    /\ open[i] + Coming(i) = Expected(i) + Taken(i)
    /\ TapeVolume(i) = filled[i] + Noted(i)
    /\ filled[i] >= 0 /\ (filled[i] > 0 => filled[i] <= req[i].qty)
    /\ status[i] \in Open => Rests(i) /\ Remaining(i) > 0
    /\ status[i] = "pending" => filled[i] = 0

\* The order being placed: nothing is on its record yet, and it splits into what the tape
\* shows, what is swept and what is left.
Taking ==
    /\ status[taker] \in {"new", "pending"} /\ filled[taker] = 0 /\ taker \notin pendingStops
    /\ open[taker] = IF left > 0 /\ Rests(taker) /\ pc \notin {"start", "risk", "match"}
                     THEN left ELSE 0
    /\ pc \in {"start", "risk"} => TapeVolume(taker) = 0
    /\ pc = "risk" => IsLimit(taker)
    /\ Sweeping =>
         /\ left >= 0 /\ req[taker].qty > 0
         /\ IsLimit(taker) => req[taker].price > 0
         /\ TapeVolume(taker) + Swept + left
               = req[taker].qty + (IF Recorded \/ MakerTurn THEN Fill.qty ELSE 0)

FillsFit ==
    \A n \in DOMAIN fills :
        /\ req[fills[n].maker].side # req[taker].side
        /\ IsLimit(taker) /\ IsBuy(taker) => fills[n].price <= req[taker].price

Orders ==
    /\ \A i \in Used : (Placing /\ i = taker) \/ Order(i)
    /\ \A i \in OrderId \ Used : TapeVolume(i) = 0 /\ filled[i] = 0
    /\ Placing => Taking
    /\ MakerTurn => subject = Fill.maker
    /\ \A i \in pendingStops : status[i] = "pending" /\ IsStop(req[i])
    /\ FillsFit
    /\ ~Placing => fills = <<>>

LEMMA OrderNumbers ==
    ASSUME WellFormed, NEW i \in Used
    PROVE  /\ i \in OrderId /\ open[i] \in Nat /\ filled[i] \in Int /\ Remaining(i) \in Int
           /\ req[i].qty \in Int /\ req[i].price \in Int
           /\ Remaining(i) = req[i].qty - filled[i]
           /\ Coming(i) \in Nat /\ TapeVolume(i) \in Nat /\ Swept \in Nat
<1>1. i \in OrderId /\ open[i] \in Nat /\ filled[i] \in Int
  BY DEF WellFormed, TypeOK, Used
<1>2. req[i].qty \in Int /\ req[i].price \in Int
  BY UsedIsTicket DEF WellFormed
<1>3. TapeVolume(i) \in Nat
  BY TapeVolumeType DEF WellFormed
<1>4. fills \in Seq(FillRecord) /\ 0 \in Nat
  BY DEF WellFormed, TypeOK
<1>5. ComingIn(fills, i) \in Nat /\ SweptIn(fills) \in Nat
  BY <1>4, SumsOfFills
<1> QED
  BY <1>1, <1>2, <1>3, <1>5 DEF Remaining, Coming, Swept

LEMMA SameFillsSameSums ==
    ASSUME UNCHANGED fills
    PROVE  (\A i : Coming(i)' = Coming(i)) /\ Swept' = Swept /\ Fill' = Fill
BY DEF Coming, Swept, Fill

LEMMA SameTapeSameVolumes ==
    ASSUME UNCHANGED tape
    PROVE  \A i : TapeVolume(i)' = TapeVolume(i)
BY DEF TapeVolume, Volume

\* The fill in hand.
LEMMA HeadFill ==
    ASSUME WellFormed, FillsAreFresh, Orders, Placing, fills # <<>>
    PROVE  /\ taker \in Used /\ Fill \in FillRecord /\ Fill.qty \in Nat \ {0}
           /\ Fill.maker \in Used /\ Fill.maker # taker /\ Fill.maker \in OrderId
           /\ Coming(Fill.maker) >= Fill.qty
           /\ Order(Fill.maker) /\ req[Fill.maker].side # req[taker].side
           /\ Fill.price > 0 /\ Fill.price = req[Fill.maker].price
           /\ req[Fill.maker].symbol = req[taker].symbol
           /\ IsLimit(taker) /\ IsBuy(taker) => Fill.price <= req[taker].price
<1>1. taker # 0
  BY DEF Placing, Sweeping, Recorded, MakerTurn, WellFormed, CallsAreInOrder
<1>2. fills \in Seq(FillRecord)
  BY DEF WellFormed, TypeOK
<1>3. Fill = fills[1] /\ 1 \in DOMAIN fills
  BY <1>2, TailShifts DEF Fill
<1>4. taker \in Used /\ Fill \in FillRecord /\ Fill.maker \in Used
  BY <1>1, FillIsOfOrders
<1>5. Fill.qty \in Nat \ {0} /\ Fill.maker \in OrderId
  BY <1>4 DEF FillRecord
<1>6. /\ Fill.maker # taker /\ Fill.price > 0 /\ Fill.price = req[Fill.maker].price
      /\ req[Fill.maker].symbol = req[taker].symbol
  BY <1>1, FillIsOfOneSymbol
<1>7. Coming(Fill.maker) >= Fill.qty
  <2>1. PICK fs, m, q : fs = fills /\ m = Fill.maker /\ q = Fill.qty
    OBVIOUS
  <2>2. fs \in Seq(FillRecord) /\ fs # <<>> /\ 0 \in Nat /\ Head(fs).maker = m /\ Head(fs).qty = q
    BY <1>2, <2>1 DEF Fill
  <2>3. ComingIn(Tail(fs), m) = ComingIn(fs, m) - q
    BY <2>2, FillsShifted
  <2>4. Tail(fs) \in Seq(FillRecord)
    BY <2>2
  <2>5. ComingIn(Tail(fs), m) \in Nat /\ ComingIn(fs, m) \in Nat
    BY <2>2, <2>4, SumsOfFills
  <2>6. ComingIn(fs, m) >= q
    BY <1>5, <2>1, <2>3, <2>5
  <2> QED
    BY <2>1, <2>6 DEF Coming
<1>8. Order(Fill.maker)
  BY <1>4, <1>6 DEF Orders
<1>9. /\ req[Fill.maker].side # req[taker].side
      /\ IsLimit(taker) /\ IsBuy(taker) => Fill.price <= req[taker].price
  BY <1>3 DEF Orders, FillsFit
<1> QED
  BY <1>4, <1>5, <1>6, <1>7, <1>8, <1>9

\* Before the fill reaches it, its resting order is open and has at least as much left.
LEMMA MakerIsWorking ==
    ASSUME WellFormed, FillsAreFresh, Orders, Recorded
    PROVE  LET m == Fill.maker
           IN  /\ m \in Used /\ m # taker /\ Working(m) /\ status[m] \in Open /\ Rests(m)
               /\ Remaining(m) >= Fill.qty /\ filled[m] >= 0
               /\ open[m] + Coming(m) = Remaining(m)
               /\ TapeVolume(m) = filled[m] + Fill.qty
<1>1. Placing /\ fills # <<>> /\ ~MakerTurn
  BY DEF Placing, Sweeping, Recorded, MakerTurn, WellFormed, CallsAreInOrder
<1>2. PICK m, q : m = Fill.maker /\ q = Fill.qty
  OBVIOUS
<1>3. m \in Used /\ m # taker /\ q \in Nat \ {0} /\ Coming(m) >= q /\ Order(m)
  BY <1>1, <1>2, HeadFill
<1>4. open[m] + Coming(m) = Expected(m) /\ filled[m] >= 0 /\ TapeVolume(m) = filled[m] + q
  <2>1. Taken(m) = 0 /\ Noted(m) = q
    BY <1>1, <1>2 DEF Taken, Noted
  <2>2. Expected(m) \in Int
    BY <1>3, OrderNumbers DEF Expected
  <2> QED
    BY <1>3, <2>1, <2>2 DEF Order
<1>5. open[m] \in Nat /\ Coming(m) \in Nat /\ Remaining(m) \in Int
  BY <1>3, OrderNumbers
<1>6. Working(m) /\ Remaining(m) >= q
  BY <1>3, <1>4, <1>5 DEF Expected
<1>7. status[m] \in Open /\ Rests(m)
  BY <1>6 DEF Working, Rests
<1> QED
  BY <1>2, <1>3, <1>4, <1>6, <1>7 DEF Expected

\* The fill brings its resting order to no more than it asked for.
LEMMA AdvancedIsMore ==
    ASSUME WellFormed, FillsAreFresh, Orders, Recorded
    PROVE  Advanced(Fill.maker) = filled[Fill.maker] + Fill.qty
<1>1. PICK m, q : m = Fill.maker /\ q = Fill.qty
  OBVIOUS
<1>2. Placing /\ fills # <<>>
  BY DEF Placing, Sweeping, Recorded, WellFormed, CallsAreInOrder
<1>3. m \in Used /\ q \in Nat \ {0} /\ Remaining(m) >= q
  BY <1>1, <1>2, HeadFill, MakerIsWorking
<1>4. filled[m] \in Int /\ req[m].qty \in Int /\ Remaining(m) = req[m].qty - filled[m]
  BY <1>3, OrderNumbers
<1>5. filled[m] + q <= req[m].qty /\ filled[m] + q \in Int
  BY <1>3, <1>4
<1>6. \A x, y \in Int : y <= x => Min({x, y}) = y
  <2> SUFFICES ASSUME NEW x \in Int, NEW y \in Int, y <= x PROVE Min({x, y}) = y
    OBVIOUS
  <2>1. \E z \in {x, y} : \A w \in {x, y} : z <= w
    OBVIOUS
  <2>2. Min({x, y}) \in {x, y} /\ \A w \in {x, y} : Min({x, y}) <= w
    BY <2>1 DEF Min
  <2> QED
    BY <2>2
<1>7. Advanced(m) = Min({req[m].qty, filled[m] + q})
  BY <1>1 DEF Advanced
<1> QED
  BY <1>1, <1>4, <1>5, <1>6, <1>7

\* An order of which nothing changes.
LEMMA OrderKept ==
    ASSUME NEW i, Order(i), open'[i] = open[i], filled'[i] = filled[i], status'[i] = status[i],
           req'[i] = req[i], Coming(i)' = Coming(i), TapeVolume(i)' = TapeVolume(i),
           Taken(i)' = Taken(i), Noted(i)' = Noted(i)
    PROVE  Order(i)'
<1>1. Working(i)' = Working(i) /\ Remaining(i)' = Remaining(i) /\ Rests(i)' = Rests(i)
  BY DEF Working, Remaining, Rests, IsLimit
<1> QED
  BY <1>1 DEF Order, Expected

\* Steps that move the call along without touching orders, book, tape or fills.
LEMMA OrdersKept ==
    ASSUME Orders, UNCHANGED <<req, status, filled, open, tape, fills, pendingStops>>,
           Placing' <=> Placing, Sweeping' <=> Sweeping, Recorded' <=> Recorded,
           MakerTurn' <=> MakerTurn, MakerTurn => subject' = subject,
           Placing => /\ taker' = taker /\ left' = left
                      /\ pc' \in {"start", "risk", "match"} <=> pc \in {"start", "risk", "match"}
                      /\ pc' \in {"start", "risk"} <=> pc \in {"start", "risk"}
                      /\ pc' = "risk" => pc = "risk"
    PROVE  Orders'
<1>1. Used' = Used /\ (\A i : Coming(i)' = Coming(i)) /\ Swept' = Swept /\ Fill' = Fill
  BY SameFillsSameSums DEF Used
<1>2. \A i : TapeVolume(i)' = TapeVolume(i)
  BY SameTapeSameVolumes
<1>3. ASSUME NEW i, Order(i) PROVE Order(i)'
  BY <1>1, <1>2, <1>3, OrderKept DEF Taken, Noted
<1>4. \A i \in Used : (Placing' /\ i = taker') \/ Order(i)'
  BY <1>3 DEF Orders
<1>5. \A i \in OrderId \ Used : TapeVolume(i)' = 0 /\ filled'[i] = 0
  BY <1>2 DEF Orders
<1>6. Placing => Taking'
  BY <1>1, <1>2 DEF Orders, Taking, Rests, IsLimit
<1>7. FillsFit'
  <2>1. CASE Placing
    BY <2>1 DEF Orders, FillsFit, IsLimit, IsBuy
  <2>2. CASE ~Placing
    BY <2>2, EmptyHasNoIndex DEF Orders, FillsFit
  <2> QED
    BY <2>1, <2>2
<1> QED
  BY <1>1, <1>4, <1>5, <1>6, <1>7 DEF Orders

\* place: the ticket has no history, and nobody else is touched.
LEMMA PlacingKeepsOrders ==
    ASSUME WellFormed, FillsAreFresh, Orders, NEW r \in Request,
           PlaceInvalid(r) \/ PlaceStop(r) \/ PlaceNow(r)
    PROVE  Orders'
<1>1. PICK n : n = nextId
  OBVIOUS
<1>2. /\ pc = "idle" /\ n \in OrderId /\ req' = [req EXCEPT ![n] = r]
      /\ UNCHANGED <<filled, open, tape, fills, left>>
  BY <1>1 DEF PlaceInvalid, PlaceStop, PlaceNow, Register
<1>3. PICK st \in {"new", "pending", "rejected"} : status' = [status EXCEPT ![n] = st]
  BY <1>1 DEF PlaceInvalid, PlaceStop, PlaceNow, Conclude
<1>4. /\ \/ pc' = "save" /\ subject' = n /\ taker' \in {0, n} /\ st # "new"
         \/ pc' = "start" /\ taker' = n /\ st = "new"
      /\ \/ pendingStops' = pendingStops
         \/ pendingStops' = pendingStops \cup {n} /\ st = "pending" /\ IsStop(r) /\ pc' = "save"
  <2>1. taker = 0
    BY <1>2 DEF WellFormed, CallsAreInOrder
  <2>2. DOMAIN status = OrderId
    BY DEF WellFormed, TypeOK
  <2>3. status'[n] = st
    BY <1>2, <1>3, <2>2
  <2>4. CASE PlaceInvalid(r)
    <3>1. status' = [status EXCEPT ![n] = "rejected"] /\ pc' = "save" /\ subject' = n
          /\ taker' = taker /\ pendingStops' = pendingStops
      BY <1>1, <2>4 DEF PlaceInvalid, Conclude, Goto
    <3>2. status'[n] = "rejected"
      BY <1>2, <2>2, <3>1
    <3> QED
      BY <2>1, <2>3, <3>1, <3>2
  <2>5. CASE PlaceNow(r)
    <3>1. status' = [status EXCEPT ![n] = "new"] /\ pc' = "start" /\ taker' = n
          /\ pendingStops' = pendingStops
      BY <1>1, <2>5 DEF PlaceNow, Goto
    <3>2. status'[n] = "new"
      BY <1>2, <2>2, <3>1
    <3> QED
      BY <2>3, <3>1, <3>2
  <2>6. CASE PlaceStop(r) /\ BadStop(r)
    <3>1. status' = [status EXCEPT ![n] = "rejected"] /\ pc' = "save" /\ subject' = n
          /\ taker' = n /\ pendingStops' = pendingStops
      BY <1>1, <2>6 DEF PlaceStop, Conclude, Goto
    <3>2. status'[n] = "rejected"
      BY <1>2, <2>2, <3>1
    <3> QED
      BY <2>3, <3>1, <3>2
  <2>7. CASE PlaceStop(r) /\ ~BadStop(r)
    <3>1. status' = [status EXCEPT ![n] = "pending"] /\ pc' = "save" /\ subject' = n
          /\ taker' = n /\ pendingStops' = pendingStops \cup {n} /\ IsStop(r)
      BY <1>1, <2>7 DEF PlaceStop, Conclude, Goto
    <3>2. status'[n] = "pending"
      BY <1>2, <2>2, <3>1
    <3> QED
      BY <2>3, <3>1, <3>2
  <2> QED
    BY <2>4, <2>5, <2>6, <2>7
<1>5. r # NoRequest /\ n # 0
  BY <1>2, OMSAssumption DEF NoRequest, OrderId
<1>6. n \notin Used /\ Used' = Used \cup {n}
  BY <1>1, <1>2, <1>5 DEF Used, WellFormed, TypeOK, CallsAreInOrder
<1>7. fills = <<>>
  BY <1>2 DEF FillsAreFresh
<1>8. ~MakerTurn /\ ~MakerTurn' /\ ~Recorded /\ ~Recorded' /\ ~Sweeping' /\ ~Placing
  BY <1>2, <1>4 DEF MakerTurn, Recorded, Sweeping, Placing, WellFormed, CallsAreInOrder
<1>9. /\ \A i : Coming(i)' = Coming(i) /\ TapeVolume(i)' = TapeVolume(i) /\ Coming(i) = 0
  BY <1>2, <1>7, SameFillsSameSums, SameTapeSameVolumes, NoFillsNoSums DEF Coming
<1>10. \A i \in OrderId : i # n => status'[i] = status[i] /\ req'[i] = req[i]
  BY <1>2, <1>3 DEF WellFormed, TypeOK
<1>11. \A i \in Used : Order(i)'
  <2> SUFFICES ASSUME NEW i \in Used PROVE Order(i)'
    OBVIOUS
  <2>1. Order(i) /\ i \in OrderId /\ i # n
    BY <1>6, <1>8 DEF Orders, Used
  <2>2. status'[i] = status[i] /\ req'[i] = req[i]
    BY <1>10, <2>1
  <2>3. Taken(i)' = Taken(i) /\ Noted(i)' = Noted(i)
    BY <1>8 DEF Taken, Noted
  <2> QED
    BY <1>2, <1>9, <2>1, <2>2, <2>3, OrderKept
<1>12. /\ filled'[n] = 0 /\ TapeVolume(n)' = 0 /\ open'[n] = 0 /\ Coming(n)' = 0
  <2>1. filled[n] = 0 /\ TapeVolume(n) = 0
    BY <1>2, <1>6 DEF Orders
  <2>2. open[n] = 0
    BY <1>2, <1>6 DEF WellFormed, TypeOK, CallsAreInOrder
  <2> QED
    BY <1>2, <1>9, <2>1, <2>2
<1>13. status'[n] = st /\ req'[n] = r
  BY <1>2, <1>3 DEF WellFormed, TypeOK
<1>14. (Placing' /\ n = taker') \/ Order(n)'
  <2>1. CASE pc' = "start"
    BY <1>4, <2>1 DEF Placing
  <2>2. CASE pc' = "save"
    <3>1. st # "new" /\ st \notin Open /\ ~Working(n)'
      BY <1>4, <1>13, <2>2 DEF Open, Working
    <3>2. Expected(n)' = 0 /\ Taken(n)' = 0 /\ Noted(n)' = 0
      BY <1>8, <3>1 DEF Expected, Taken, Noted
    <3> QED
      BY <1>12, <1>13, <3>1, <3>2 DEF Order
  <2> QED
    BY <1>4, <2>1, <2>2
<1>15. \A i \in Used' : (Placing' /\ i = taker') \/ Order(i)'
  BY <1>6, <1>11, <1>14
<1>16. \A i \in OrderId \ Used' : TapeVolume(i)' = 0 /\ filled'[i] = 0
  BY <1>2, <1>6, <1>9 DEF Orders
<1>17. Placing' => Taking'
  <2>1. Placing' => pc' = "start" /\ taker' = n /\ st = "new"
    BY <1>4, <1>8 DEF Placing
  <2>2. n \notin pendingStops
    BY <1>6 DEF WellFormed, CallsAreInOrder
  <2>3. pc' = "start" => n \notin pendingStops'
    BY <1>4, <2>2
  <2> QED
    BY <1>8, <1>12, <1>13, <2>1, <2>3 DEF Taking
<1>18. \A i \in pendingStops' : status'[i] = "pending" /\ IsStop(req'[i])
  <2> SUFFICES ASSUME NEW i \in pendingStops' PROVE status'[i] = "pending" /\ IsStop(req'[i])
    OBVIOUS
  <2>1. CASE i \in pendingStops
    <3>1. i \in OrderId /\ i # n /\ status[i] = "pending" /\ IsStop(req[i])
      BY <1>6, <2>1 DEF Orders, WellFormed, CallsAreInOrder, Used
    <3> QED
      BY <1>10, <3>1
  <2>2. CASE i \notin pendingStops
    BY <1>4, <1>13, <2>2
  <2> QED
    BY <2>1, <2>2
<1>19. FillsFit'
  BY <1>2, <1>7, EmptyHasNoIndex DEF FillsFit
<1> QED
  BY <1>2, <1>7, <1>8, <1>15, <1>16, <1>17, <1>18, <1>19 DEF Orders

\* The checks before the sweep: the order goes on, or it is refused with nothing traded.
LEMMA ChecksEnd ==
    ASSUME StartLimit \/ CheckLimit \/ StartMarket
    PROVE  /\ pc \in {"start", "risk"}
           /\ UNCHANGED <<req, filled, pendingStops, open, tape, fills, taker>>
           /\ \/ pc = "start" /\ pc' = "risk" /\ IsLimit(taker) /\ UNCHANGED <<status, left>>
              \/ /\ pc' = "match" /\ left' = req[taker].qty /\ req[taker].qty > 0
                 /\ IsLimit(taker) => req[taker].price > 0
                 /\ UNCHANGED status
              \/ /\ \E st \in {"rejected", "canceled"} : status' = [status EXCEPT ![taker] = st]
                 /\ subject' = taker /\ pc' \in {"release", "save"}
<1>1. CASE StartLimit
  BY <1>1 DEF StartLimit, Conclude, Goto
<1>2. CASE CheckLimit
  BY <1>2 DEF CheckLimit, LimitAllowed, QuantityAllowed, Conclude, ThenWrite, Sweep, Goto
<1>3. CASE StartMarket
  BY <1>3 DEF StartMarket, QuantityAllowed, Conclude, Sweep, Goto
<1> QED
  BY <1>1, <1>2, <1>3

LEMMA ChecksKeepOrders ==
    ASSUME WellFormed, FillsAreFresh, Orders, StartLimit \/ CheckLimit \/ StartMarket
    PROVE  Orders'
<1>1. /\ pc \in {"start", "risk"}
      /\ UNCHANGED <<req, filled, pendingStops, open, tape, fills, taker>>
      /\ \/ pc = "start" /\ pc' = "risk" /\ IsLimit(taker) /\ UNCHANGED <<status, left>>
         \/ /\ pc' = "match" /\ left' = req[taker].qty /\ req[taker].qty > 0
            /\ IsLimit(taker) => req[taker].price > 0
            /\ UNCHANGED status
         \/ /\ \E st \in {"rejected", "canceled"} : status' = [status EXCEPT ![taker] = st]
            /\ subject' = taker /\ pc' \in {"release", "save"}
  BY ChecksEnd
<1>2. Placing /\ ~Sweeping /\ ~MakerTurn /\ ~Recorded /\ ~Recorded' /\ ~MakerTurn'
  BY <1>1 DEF Placing, Sweeping, MakerTurn, Recorded
<1>3. taker \in Used /\ fills = <<>>
  BY <1>1 DEF WellFormed, CallsAreInOrder, FillsAreFresh
<1>4. taker \in OrderId /\ DOMAIN status = OrderId
  BY <1>3 DEF WellFormed, TypeOK, Used
<1>5. Used' = Used /\ \A i : Coming(i)' = Coming(i) /\ TapeVolume(i)' = TapeVolume(i) /\ Coming(i) = 0
  BY <1>1, <1>3, SameFillsSameSums, SameTapeSameVolumes, NoFillsNoSums DEF Coming, Used
<1>6. Taking
  BY <1>2 DEF Orders
<1>7. \A i \in Used : i # taker => Order(i)'
  <2> SUFFICES ASSUME NEW i \in Used, i # taker PROVE Order(i)'
    OBVIOUS
  <2>1. Order(i) /\ i \in OrderId
    BY DEF Orders, Used
  <2>2. status'[i] = status[i]
    BY <1>1, <1>4, <2>1
  <2>3. Taken(i)' = Taken(i) /\ Noted(i)' = Noted(i)
    BY <1>2 DEF Taken, Noted
  <2> QED
    BY <1>1, <1>5, <2>1, <2>2, <2>3, OrderKept
<1>8. \A i \in pendingStops' : i # taker' /\ status'[i] = "pending" /\ IsStop(req'[i])
  <2>1. \A i \in pendingStops : i \in OrderId /\ i # taker /\ status[i] = "pending" /\ IsStop(req[i])
    BY <1>6 DEF Orders, WellFormed, TypeOK, Taking
  <2> QED
    BY <1>1, <1>4, <2>1
<1>9. FillsFit'
  BY <1>1, <1>3, EmptyHasNoIndex DEF FillsFit
<1>10. \A i \in OrderId \ Used : TapeVolume(i)' = 0 /\ filled'[i] = 0
  BY <1>1, <1>5 DEF Orders
<1>11. CASE pc' \in {"risk", "match"}
  <2>1. Placing' /\ taker' = taker /\ UNCHANGED status
    BY <1>1, <1>11 DEF Placing, Sweeping
  <2>2. /\ TapeVolume(taker) = 0 /\ open[taker] = 0
        /\ status[taker] \in {"new", "pending"} /\ filled[taker] = 0 /\ taker \notin pendingStops
    BY <1>1, <1>6 DEF Taking
  <2>3. Swept' = 0
    BY <1>1, <1>3, NoFillsNoSums DEF Swept
  <2>4. req[taker].qty \in Int /\ IsLimit(taker)' = IsLimit(taker)
    BY <1>1, <1>3, OrderNumbers DEF IsLimit
  <2>5. Taking'
    <3>1. CASE pc' = "risk"
      <4>1. ~Sweeping'
        BY <1>2, <3>1 DEF Sweeping
      <4>2. IsLimit(taker)
        BY <1>1, <3>1
      <4> QED
        BY <1>1, <1>5, <2>1, <2>2, <2>4, <3>1, <4>1, <4>2 DEF Taking
    <3>2. CASE pc' = "match"
      <4>1. left' = req[taker].qty /\ req[taker].qty > 0 /\ (IsLimit(taker) => req[taker].price > 0)
        BY <1>1, <3>2
      <4>2. TapeVolume(taker)' + Swept' + left' = req[taker].qty
        <5>1. PICK t : t = taker
          OBVIOUS
        <5>2. TapeVolume(t)' = 0
          BY <1>5, <2>2, <5>1
        <5> QED
          BY <1>1, <2>3, <2>4, <4>1, <5>1, <5>2
      <4>3. req[taker].qty + 0 = req[taker].qty /\ left' >= 0
        BY <2>4, <4>1
      <4> QED
        BY <1>1, <1>2, <1>5, <2>1, <2>2, <2>4, <3>2, <4>1, <4>2, <4>3 DEF Taking
    <3> QED
      BY <1>11, <3>1, <3>2
  <2> QED
    BY <1>2, <1>5, <1>7, <1>8, <1>9, <1>10, <2>1, <2>5 DEF Orders
<1>12. CASE pc' \in {"release", "save"}
  <2>1. PICK st \in {"rejected", "canceled"} : status' = [status EXCEPT ![taker] = st]
    BY <1>1, <1>12
  <2>2. ~Placing'
    BY <1>2, <1>12 DEF Placing, Sweeping
  <2>3. status'[taker] = st /\ ~Working(taker)' /\ status'[taker] \notin Open
    BY <1>1, <1>4, <2>1 DEF Working, Open
  <2>4. Expected(taker)' = 0 /\ Taken(taker)' = 0 /\ Noted(taker)' = 0
    BY <1>2, <2>3 DEF Expected, Taken, Noted
  <2>5. open[taker] = 0 /\ filled[taker] = 0 /\ TapeVolume(taker) = 0
    BY <1>1, <1>6 DEF Taking
  <2>6. Order(taker)'
    <3>1. PICK i : i = taker
      OBVIOUS
    <3>2. Order(i)'
      BY <1>1, <1>5, <2>1, <2>3, <2>4, <2>5, <3>1 DEF Order, Taken, Noted, Expected, Working
    <3> QED
      BY <1>1, <3>1, <3>2
  <2>7. \A i \in Used : Order(i)'
    <3> SUFFICES ASSUME NEW i \in Used PROVE Order(i)'
      OBVIOUS
    <3>1. CASE i = taker
      BY <1>1, <2>6, <3>1
    <3>2. CASE i # taker
      BY <1>7, <3>2
    <3> QED
      BY <3>1, <3>2
  <2> QED
    BY <1>1, <1>2, <1>3, <1>5, <1>8, <1>9, <1>10, <2>2, <2>7 DEF Orders
<1> QED
  BY <1>1, <1>11, <1>12

\* A fill takes no more than is left, and what it takes from the book comes in as a fill.
LEMMA MatchTakesWhatIsLeft ==
    ASSUME WellFormed, NEW m \in OrderId, MatchOne(m)
    PROVE  /\ MatchQty(m) \in Nat \ {0} /\ MatchQty(m) <= left /\ MatchQty(m) <= open[m]
           /\ m \in Used /\ taker \in Used /\ m # taker /\ req[m].price > 0
           /\ ~IsLimit(taker) /\ IsBuy(taker) =>
                 MatchQty(m) <= (budget * QuantityScale) \div (req[m].price * Multiplier[req[taker].symbol])
<1>1. /\ open[m] > 0 /\ req[m].side # req[taker].side
  BY DEF MatchOne, IsNext, Opposite
<1>2. MatchQty(m) \in Nat \ {0} /\ MatchQty(m) <= open[m] /\ m \in Used /\ taker \in Used
  BY MatchQtyFits
<1>3. m # taker /\ req[m].price > 0
  BY <1>1 DEF WellFormed, CallsAreInOrder
<1>4. left \in Int /\ open[m] \in Int /\ budget \in Int
  BY DEF WellFormed, TypeOK
<1>5. Min({left, open[m]}) \in Int /\ Min({left, open[m]}) <= left
  BY <1>4, MinOfTwo
<1>6. CASE IsLimit(taker) \/ ~IsBuy(taker)
  BY <1>2, <1>3, <1>5, <1>6 DEF MatchQty
<1>7. CASE ~(IsLimit(taker) \/ ~IsBuy(taker))
  <2> DEFINE d == (budget * QuantityScale) \div (req[m].price * Multiplier[req[taker].symbol])
             w == Min({left, open[m]})
  <2>1. d \in Int
    <3>1. req[m].price \in Nat \ {0} /\ Multiplier[req[taker].symbol] \in Nat \ {0}
      BY <1>2, <1>3, UsedIsTicket, OMSAssumption DEF WellFormed
    <3>2. req[m].price * Multiplier[req[taker].symbol] \in Nat \ {0}
      BY <3>1
    <3>3. budget * QuantityScale \in Int
      BY <1>4, QuantityScaleAssumption
    <3> QED
      BY <3>2, <3>3, CentsRoundDown
  <2>2. MatchQty(m) = Min({w, d})
    BY <1>7 DEF MatchQty
  <2> HIDE DEF w, d
  <2>3. w \in Int /\ w <= left
    BY <1>5 DEF w
  <2>4. Min({w, d}) \in Int /\ Min({w, d}) <= w /\ Min({w, d}) <= d
    BY <2>1, <2>3, MinOfTwo
  <2>5. MatchQty(m) <= left /\ MatchQty(m) <= d
    BY <1>4, <2>1, <2>2, <2>3, <2>4
  <2> QED
    BY <1>2, <1>3, <2>5 DEF d
<1> QED
  BY <1>6, <1>7

LEMMA MatchingKeepsOrders ==
    ASSUME WellFormed, FillsAreFresh, Orders, NEW m \in OrderId, MatchOne(m)
    PROVE  Orders'
<1>1. PICK q, e, t : q = MatchQty(m) /\ e = [maker |-> m, price |-> req[m].price, qty |-> q] /\ t = taker
  OBVIOUS
<1>2. /\ pc = "match" /\ pc' = "match" /\ left > 0 /\ fills' = Append(fills, e) /\ left' = left - q
      /\ open' = [open EXCEPT ![m] = @ - q]
      /\ UNCHANGED <<req, status, filled, pendingStops, tape, taker, subject>>
  BY <1>1 DEF MatchOne
<1>3. req[m].side # req[taker].side /\ Reaches(taker, m)
  BY DEF MatchOne, IsNext, Opposite
<1>4. /\ q \in Nat \ {0} /\ q <= left /\ q <= open[m]
      /\ m \in Used /\ t \in Used /\ m # t /\ req[m].price > 0
  BY <1>1, MatchTakesWhatIsLeft
<1>5. /\ ~MakerTurn /\ ~MakerTurn' /\ ~Recorded /\ ~Recorded' /\ Sweeping /\ Sweeping' /\ Placing /\ Placing'
      /\ Used' = Used
  BY <1>2 DEF MakerTurn, Recorded, Sweeping, Placing, Used
<1>6. e \in FillRecord /\ e.maker = m /\ e.qty = q /\ e.price = req[m].price
  BY <1>1, <1>4, UsedIsTicket DEF FillRecord, WellFormed
<1>7. fills \in Seq(FillRecord) /\ 0 \in Nat
  BY DEF WellFormed, TypeOK
<1>8. /\ Swept' = Swept + q
      /\ \A i : Coming(i)' = Coming(i) + IF m = i THEN q ELSE 0
  <2>1. PICK fs : fs = fills
    OBVIOUS
  <2>2. SweptIn(Append(fs, e)) = SweptIn(fs) + q
    BY <1>6, <1>7, <2>1, FillsAppended
  <2>3. \A i : ComingIn(Append(fs, e), i) = ComingIn(fs, i) + IF m = i THEN q ELSE 0
    BY <1>6, <1>7, <2>1, FillsAppended
  <2> QED
    BY <1>2, <2>1, <2>2, <2>3 DEF Coming, Swept
<1>9. \A i : TapeVolume(i)' = TapeVolume(i)
  BY <1>2, SameTapeSameVolumes
<1>10. \A i \in Used : i # t => Order(i)'
  <2> SUFFICES ASSUME NEW i \in Used, i # t PROVE Order(i)'
    OBVIOUS
  <2>1. Order(i) /\ i \in OrderId /\ open[i] \in Nat /\ Coming(i) \in Nat
    BY <1>1, OrderNumbers DEF Orders
  <2>2. Working(i)' = Working(i) /\ Remaining(i)' = Remaining(i) /\ Rests(i)' = Rests(i)
    BY <1>2 DEF Working, Remaining, Rests, IsLimit
  <2>3. Taken(i)' = 0 /\ Taken(i) = 0 /\ Noted(i)' = 0 /\ Noted(i) = 0 /\ Expected(i)' = Expected(i)
    BY <1>5, <2>2 DEF Taken, Noted, Expected
  <2>4. open'[i] + Coming(i)' = open[i] + Coming(i)
    BY <1>2, <1>4, <1>8, <2>1 DEF WellFormed, TypeOK
  <2> QED
    BY <1>2, <1>9, <2>1, <2>2, <2>3, <2>4 DEF Order
<1>11. \A i \in OrderId \ Used : TapeVolume(i)' = 0 /\ filled'[i] = 0
  BY <1>2, <1>9 DEF Orders
<1>12. Taking'
  <2>1. Taking
    BY <1>5 DEF Orders
  <2>2. /\ open'[t] = open[t] /\ TapeVolume(t)' = TapeVolume(t)
    BY <1>2, <1>4, <1>9 DEF WellFormed, TypeOK
  <2>3. /\ TapeVolume(t) \in Nat /\ Swept \in Nat /\ left \in Int /\ req[t].qty \in Int
    BY <1>4, OrderNumbers DEF WellFormed, TypeOK
  <2>4. TapeVolume(t) + Swept + left = req[t].qty + 0 /\ req[t].qty > 0 /\ (IsLimit(t) => req[t].price > 0)
    BY <1>1, <1>5, <2>1 DEF Taking
  <2>5. TapeVolume(t)' + Swept' + left' = req[t].qty + 0 /\ left' >= 0
    BY <1>2, <1>4, <1>8, <2>2, <2>3, <2>4
  <2>6. open[t] = 0 /\ status[t] \in {"new", "pending"} /\ filled[t] = 0 /\ t \notin pendingStops
    BY <1>1, <1>2, <2>1 DEF Taking
  <2>7. IsLimit(t)' = IsLimit(t)
    BY <1>2 DEF IsLimit
  <2> QED
    BY <1>1, <1>2, <1>5, <2>2, <2>4, <2>5, <2>6, <2>7 DEF Taking
<1>13. FillsFit'
  <2>1. \A n \in DOMAIN Append(fills, e) :
           (n \in DOMAIN fills /\ Append(fills, e)[n] = fills[n]) \/ Append(fills, e)[n] = e
    BY <1>6, <1>7
  <2>2. IsLimit(taker) /\ IsBuy(taker) => e.price <= req[taker].price
    BY <1>3, <1>6 DEF Reaches
  <2>3. FillsFit
    BY DEF Orders
  <2>4. \A n \in DOMAIN fills' : (n \in DOMAIN fills /\ fills'[n] = fills[n]) \/ fills'[n] = e
    BY <1>2, <2>1
  <2> QED
    BY <1>2, <1>3, <1>6, <2>2, <2>3, <2>4 DEF FillsFit, IsLimit, IsBuy
<1>14. \A i \in pendingStops' : status'[i] = "pending" /\ IsStop(req'[i])
  BY <1>2 DEF Orders
<1> QED
  BY <1>1, <1>2, <1>5, <1>10, <1>11, <1>12, <1>13, <1>14 DEF Orders

\* The remainder rests, or is dropped.
LEMMA RestingKeepsOrders ==
    ASSUME WellFormed, FillsAreFresh, Orders, MatchDone
    PROVE  Orders'
<1>1. PICK t : t = taker
  OBVIOUS
<1>2. /\ pc = "match" /\ pc' = "settle"
      /\ UNCHANGED <<req, status, filled, pendingStops, tape, fills, left, taker, subject>>
      /\ open' = IF left > 0 /\ Rests(t) THEN [open EXCEPT ![t] = left] ELSE open
  BY <1>1 DEF MatchDone, Goto
<1>3. /\ ~MakerTurn /\ ~MakerTurn' /\ ~Recorded /\ ~Recorded' /\ Sweeping /\ Sweeping' /\ Placing /\ Placing'
      /\ Used' = Used
  BY <1>2 DEF MakerTurn, Recorded, Sweeping, Placing, Used
<1>4. /\ \A i : Coming(i)' = Coming(i) /\ TapeVolume(i)' = TapeVolume(i)
      /\ Swept' = Swept
  BY <1>2, SameFillsSameSums, SameTapeSameVolumes
<1>5. t \in OrderId /\ t \in Used
  BY <1>1, <1>2 DEF WellFormed, TypeOK, CallsAreInOrder, Used
<1>6. \A i \in Used : i # t => Order(i)'
  <2> SUFFICES ASSUME NEW i \in Used, i # t PROVE Order(i)'
    OBVIOUS
  <2>1. Order(i) /\ i \in OrderId /\ open'[i] = open[i]
    BY <1>1, <1>2, <1>5 DEF Orders, Used, WellFormed, TypeOK
  <2>2. Taken(i)' = Taken(i) /\ Noted(i)' = Noted(i)
    BY <1>3 DEF Taken, Noted
  <2> QED
    BY <1>2, <1>4, <2>1, <2>2, OrderKept
<1>7. Taking'
  <2>1. Taking
    BY <1>3 DEF Orders
  <2>2. Rests(t)' = Rests(t) /\ IsLimit(t)' = IsLimit(t) /\ TapeVolume(t)' = TapeVolume(t)
    BY <1>2, <1>4 DEF Rests, IsLimit
  <2>3. open[t] = 0
    BY <1>1, <1>2, <2>1 DEF Taking
  <2>4. open'[t] = IF left > 0 /\ Rests(t) THEN left ELSE 0
    BY <1>2, <1>5, <2>3 DEF WellFormed, TypeOK
  <2> QED
    BY <1>1, <1>2, <1>3, <1>4, <2>1, <2>2, <2>4 DEF Taking
<1>8. FillsFit'
  BY <1>2 DEF Orders, FillsFit, IsLimit, IsBuy
<1>9. \A i \in OrderId \ Used : TapeVolume(i)' = 0 /\ filled'[i] = 0
  BY <1>2, <1>4 DEF Orders
<1> QED
  BY <1>1, <1>2, <1>3, <1>6, <1>7, <1>8, <1>9 DEF Orders

\* The trade goes on the tape, for both sides.
LEMMA RecordingKeepsOrders ==
    ASSUME WellFormed, WellFormed', FillsAreFresh, Orders, RecordTrade
    PROVE  Orders'
<1>1. PICK t, m, q, e : t = taker /\ m = Fill.maker /\ q = Fill.qty /\ e = TradeInHand
  OBVIOUS
<1>2. /\ pc = "settle" /\ pc' = "pay" /\ fills # <<>> /\ tape' = Append(tape, e)
      /\ UNCHANGED <<req, status, filled, open, pendingStops, fills, left, taker, subject>>
  BY <1>1 DEF RecordTrade, Goto, TradeInHand
<1>3. /\ ~MakerTurn /\ ~MakerTurn' /\ ~Recorded /\ Recorded' /\ Sweeping /\ Sweeping' /\ Placing /\ Placing'
      /\ Used' = Used
  BY <1>2 DEF MakerTurn, Recorded, Sweeping, Placing, Used
<1>4. t \in Used /\ m \in Used /\ m # t /\ q \in Nat \ {0} /\ Fill' = Fill
  BY <1>1, <1>2, <1>3, HeadFill DEF Fill
<1>5. e.qty = q /\ {e.buy, e.sell} = {t, m}
  BY <1>1 DEF TradeInHand, BuyOrder, SellOrder
<1>6. e \in Trade
  <2>1. tape \in Seq(Trade) /\ tape' \in Seq(Trade)
    BY DEF WellFormed, TypeOK
  <2>2. tape \in Seq(Trade \cup {e}) /\ e \in Trade \cup {e}
    BY <2>1
  <2>3. Len(tape) \in Nat /\ Len(tape') = Len(tape) + 1 /\ tape'[Len(tape) + 1] = e
    BY <1>2, <2>2
  <2>4. Len(tape) + 1 \in DOMAIN tape'
    BY <2>1, <2>3
  <2> QED
    BY <2>1, <2>3, <2>4
<1>7. \A i : TapeVolume(i)' = TapeVolume(i) + IF i \in {t, m} THEN q ELSE 0
  BY <1>2, <1>5, <1>6, TapeVolumeNext DEF WellFormed
<1>8. (\A i : Coming(i)' = Coming(i)) /\ Swept' = Swept
  BY <1>2, SameFillsSameSums
<1>9. \A i \in Used : i # t => Order(i)'
  <2> SUFFICES ASSUME NEW i \in Used, i # t PROVE Order(i)'
    OBVIOUS
  <2>1. Order(i) /\ filled[i] \in Int /\ TapeVolume(i) \in Nat
    BY <1>1, OrderNumbers DEF Orders
  <2>2. Working(i)' = Working(i) /\ Remaining(i)' = Remaining(i) /\ Rests(i)' = Rests(i)
    BY <1>2 DEF Working, Remaining, Rests, IsLimit
  <2>3. Taken(i)' = 0 /\ Taken(i) = 0 /\ Noted(i) = 0 /\ Expected(i)' = Expected(i)
    BY <1>3, <2>2 DEF Taken, Noted, Expected
  <2>4. Noted(i)' = IF i = m THEN q ELSE 0
    BY <1>1, <1>3, <1>4 DEF Noted
  <2>5. TapeVolume(i)' = filled[i] + Noted(i)'
    BY <1>4, <1>7, <2>1, <2>3, <2>4 DEF Order
  <2> QED
    BY <1>2, <1>8, <2>1, <2>2, <2>3, <2>5 DEF Order
<1>10. \A i \in OrderId \ Used : TapeVolume(i)' = 0 /\ filled'[i] = 0
  BY <1>2, <1>4, <1>7 DEF Orders
<1>11. Taking'
  <2>1. Taking
    BY <1>3 DEF Orders
  <2>2. Rests(t)' = Rests(t) /\ IsLimit(t)' = IsLimit(t) /\ TapeVolume(t)' = TapeVolume(t) + q
    BY <1>2, <1>7 DEF Rests, IsLimit
  <2>3. TapeVolume(t) \in Nat /\ Swept \in Nat /\ left \in Int /\ req[t].qty \in Int
    BY <1>4, OrderNumbers DEF WellFormed, TypeOK
  <2>4. TapeVolume(t) + Swept + left = req[t].qty + 0
    BY <1>1, <1>3, <2>1 DEF Taking
  <2>5. TapeVolume(t)' + Swept' + left' = req[t].qty + q
    BY <1>2, <1>4, <1>8, <2>2, <2>3, <2>4
  <2>6. /\ status[t] \in {"new", "pending"} /\ filled[t] = 0 /\ t \notin pendingStops
        /\ open[t] = IF left > 0 /\ Rests(t) THEN left ELSE 0
        /\ left >= 0 /\ req[t].qty > 0 /\ (IsLimit(t) => req[t].price > 0)
    BY <1>1, <1>2, <1>3, <2>1 DEF Taking
  <2>7. q = Fill'.qty
    BY <1>1, <1>4
  <2> QED
    BY <1>1, <1>2, <1>3, <2>2, <2>5, <2>6, <2>7 DEF Taking
<1>12. FillsFit'
  BY <1>2 DEF Orders, FillsFit, IsLimit, IsBuy
<1> QED
  BY <1>1, <1>2, <1>3, <1>9, <1>10, <1>11, <1>12 DEF Orders

\* The resting order hears of its fill.
LEMMA AdvancingKeepsOrders ==
    ASSUME WellFormed, FillsAreFresh, Orders, Advance
    PROVE  Orders'
<1>1. PICK t, m, q, total : t = taker /\ m = Fill.maker /\ q = Fill.qty /\ total = Advanced(m)
  OBVIOUS
<1>2. /\ pc = "advance" /\ pc' \in {"release", "save"} /\ subject' = m
      /\ UNCHANGED <<req, open, pendingStops, tape, fills, left, taker>>
      /\ filled' = [filled EXCEPT ![m] = total]
      /\ status' = [status EXCEPT ![m] = IF total >= req[m].qty THEN "filled" ELSE "partial"]
  BY <1>1 DEF Advance, Conclude, Goto
<1>3. Recorded /\ ~MakerTurn /\ ~Recorded' /\ Sweeping /\ Placing /\ Used' = Used /\ taker # 0
  BY <1>2 DEF MakerTurn, Recorded, Sweeping, Placing, Used, WellFormed, CallsAreInOrder
<1>4. /\ m \in Used /\ m # t /\ Working(m) /\ status[m] \in Open /\ Rests(m)
      /\ Remaining(m) >= q /\ filled[m] >= 0
      /\ open[m] + Coming(m) = Remaining(m) /\ TapeVolume(m) = filled[m] + q
  BY <1>1, <1>3, MakerIsWorking
<1>5. t \in Used /\ q \in Nat \ {0} /\ Fill' = Fill
  BY <1>1, <1>2, <1>3, HeadFill DEF Fill, WellFormed, CallsAreInOrder
<1>6. MakerTurn' /\ Sweeping' /\ Placing'
  BY <1>1, <1>2, <1>3, <1>4 DEF MakerTurn, Sweeping, Placing
<1>7. /\ \A i : Coming(i)' = Coming(i) /\ TapeVolume(i)' = TapeVolume(i)
      /\ Swept' = Swept
  BY <1>2, SameFillsSameSums, SameTapeSameVolumes
<1>8. m \in OrderId /\ DOMAIN filled = OrderId /\ DOMAIN status = OrderId
  BY <1>4 DEF WellFormed, TypeOK, Used
<1>9. \A i \in OrderId : i # m => filled'[i] = filled[i] /\ status'[i] = status[i]
  BY <1>2, <1>8
<1>10. \A i \in Used : i # t /\ i # m => Order(i)'
  <2> SUFFICES ASSUME NEW i \in Used, i # t, i # m PROVE Order(i)'
    OBVIOUS
  <2>1. Order(i) /\ i \in OrderId
    BY <1>1 DEF Orders, Used
  <2>2. Taken(i)' = Taken(i) /\ Noted(i)' = Noted(i)
    BY <1>1, <1>5 DEF Taken, Noted
  <2> QED
    BY <1>2, <1>7, <1>9, <2>1, <2>2, OrderKept
<1>11. Order(m)'
  <2>1. /\ filled[m] \in Int /\ req[m].qty \in Int /\ Remaining(m) = req[m].qty - filled[m]
        /\ open[m] \in Nat /\ Coming(m) \in Nat
    BY <1>4, OrderNumbers
  <2>2. total = filled[m] + q
    BY <1>1, <1>3, AdvancedIsMore
  <2>3. filled'[m] = filled[m] + q /\ Remaining(m)' = Remaining(m) - q /\ total \in Int
    BY <1>2, <1>5, <1>8, <2>1, <2>2 DEF Remaining
  <2>4. Taken(m)' = q /\ Noted(m)' = 0 /\ Rests(m)' /\ IsLimit(m)'
    BY <1>1, <1>2, <1>3, <1>4, <1>5, <1>6 DEF Taken, Noted, Rests, IsLimit
  <2>5. CASE total >= req[m].qty
    <3>1. status'[m] = "filled"
      BY <1>2, <1>8, <2>5
    <3>2. Remaining(m) = q
      BY <1>4, <1>5, <2>1, <2>2, <2>5
    <3>3. Expected(m)' = 0
      BY <3>1 DEF Expected, Working, Open
    <3>4. open'[m] + Coming(m)' = q
      BY <1>2, <1>4, <1>7, <3>2
    <3>5. TapeVolume(m)' = filled'[m] + 0 /\ filled'[m] >= 0 /\ filled'[m] <= req'[m].qty
      BY <1>2, <1>4, <1>5, <1>7, <2>1, <2>3, <3>2
    <3> QED
      BY <1>5, <2>4, <3>1, <3>3, <3>4, <3>5 DEF Order, Open
  <2>6. CASE ~(total >= req[m].qty)
    <3>1. status'[m] = "partial"
      BY <1>2, <1>8, <2>6
    <3>2. Expected(m)' = Remaining(m) - q
      BY <2>3, <2>4, <3>1 DEF Expected, Working, Open, Rests
    <3>3. open'[m] + Coming(m)' = Expected(m)' + q
      BY <1>2, <1>4, <1>5, <1>7, <2>1, <3>2
    <3>4. TapeVolume(m)' = filled'[m] + 0 /\ filled'[m] >= 0 /\ filled'[m] <= req'[m].qty
      BY <1>2, <1>4, <1>5, <1>7, <2>1, <2>3
    <3>5. Remaining(m)' > 0
      BY <1>5, <2>1, <2>2, <2>3, <2>6
    <3> QED
      BY <2>4, <3>1, <3>3, <3>4, <3>5 DEF Order, Open
  <2> QED
    BY <2>5, <2>6
<1>12. Taking'
  <2>1. Taking
    BY <1>3 DEF Orders
  <2>2. Rests(t)' = Rests(t) /\ IsLimit(t)' = IsLimit(t) /\ TapeVolume(t)' = TapeVolume(t) /\ t \in OrderId
    BY <1>2, <1>5, <1>7 DEF Rests, IsLimit, Used
  <2>3. /\ status'[t] \in {"new", "pending"} /\ filled'[t] = 0 /\ t \notin pendingStops
        /\ open[t] = IF left > 0 /\ Rests(t) THEN left ELSE 0
        /\ left >= 0 /\ req[t].qty > 0 /\ (IsLimit(t) => req[t].price > 0)
        /\ TapeVolume(t) + Swept + left = req[t].qty + q
    BY <1>1, <1>2, <1>3, <1>4, <1>9, <2>1, <2>2 DEF Taking
  <2>4. q = Fill'.qty
    BY <1>1, <1>5
  <2> QED
    BY <1>1, <1>2, <1>6, <1>7, <2>2, <2>3, <2>4 DEF Taking
<1>13. FillsFit'
  BY <1>2 DEF Orders, FillsFit, IsLimit, IsBuy
<1>14. \A i \in OrderId \ Used : TapeVolume(i)' = 0 /\ filled'[i] = 0
  BY <1>4, <1>7, <1>9 DEF Orders
<1>15. \A i \in pendingStops' : status'[i] = "pending" /\ IsStop(req'[i])
  <2>1. m \notin pendingStops
    BY <1>4 DEF Orders, Open
  <2>2. \A i \in pendingStops : i \in OrderId /\ i # m
    BY <2>1 DEF WellFormed, TypeOK
  <2> QED
    BY <1>2, <1>9, <2>2 DEF Orders
<1>16. \A i \in Used : (Placing' /\ i = taker') \/ Order(i)'
  <2> SUFFICES ASSUME NEW i \in Used PROVE (Placing' /\ i = taker') \/ Order(i)'
    OBVIOUS
  <2>1. CASE i = t
    BY <1>1, <1>2, <1>6, <2>1
  <2>2. CASE i = m
    BY <1>11, <2>2
  <2>3. CASE i # t /\ i # m
    BY <1>10, <2>3
  <2> QED
    BY <2>1, <2>2, <2>3
<1> QED
  BY <1>1, <1>2, <1>3, <1>5, <1>6, <1>12, <1>13, <1>14, <1>15, <1>16 DEF Orders

\* The incoming order's own record.
LEMMA FinishingKeepsOrders ==
    ASSUME WellFormed, FillsAreFresh, Orders, Finish
    PROVE  Orders'
<1>1. PICK t, st : /\ t = taker
                   /\ st = IF left = 0 THEN "filled"
                           ELSE IF ~Rests(t) THEN "canceled"
                           ELSE IF left < req[t].qty THEN "partial" ELSE "new"
  OBVIOUS
<1>2. /\ pc = "settle" /\ fills = <<>> /\ pc' \in {"release", "save"} /\ subject' = t
      /\ UNCHANGED <<req, open, pendingStops, tape, fills, left, taker>>
      /\ filled' = [filled EXCEPT ![t] = req[t].qty - left]
      /\ status' = [status EXCEPT ![t] = st]
  BY <1>1 DEF Finish, Conclude, ThenWrite, Goto
<1>3. /\ Sweeping /\ Placing /\ ~Recorded /\ ~MakerTurn /\ ~Recorded' /\ ~MakerTurn'
      /\ ~Placing' /\ Used' = Used
  BY <1>1, <1>2 DEF MakerTurn, Recorded, Sweeping, Placing, Used
<1>4. t \in Used /\ t \in OrderId /\ DOMAIN filled = OrderId /\ DOMAIN status = OrderId
  BY <1>1, <1>2 DEF WellFormed, TypeOK, CallsAreInOrder, Used
<1>5. \A i : Coming(i)' = Coming(i) /\ TapeVolume(i)' = TapeVolume(i) /\ Coming(i) = 0
  BY <1>2, SameFillsSameSums, SameTapeSameVolumes, NoFillsNoSums DEF Coming
<1>6. \A i \in OrderId : i # t => filled'[i] = filled[i] /\ status'[i] = status[i]
  BY <1>2, <1>4
<1>7. \A i \in Used : i # t => Order(i)'
  <2> SUFFICES ASSUME NEW i \in Used, i # t PROVE Order(i)'
    OBVIOUS
  <2>1. Order(i) /\ i \in OrderId
    BY <1>1 DEF Orders, Used
  <2>2. Taken(i)' = Taken(i) /\ Noted(i)' = Noted(i)
    BY <1>3 DEF Taken, Noted
  <2> QED
    BY <1>2, <1>5, <1>6, <2>1, <2>2, OrderKept
<1>8. Taking
  BY <1>3 DEF Orders
<1>9. Order(t)'
  <2>1. Swept = 0 /\ TapeVolume(t) \in Nat /\ left \in Int /\ req[t].qty \in Int
    BY <1>2, <1>4, OrderNumbers, NoFillsNoSums DEF Swept, WellFormed, TypeOK
  <2>2. /\ TapeVolume(t) + left = req[t].qty /\ left >= 0
        /\ open[t] = IF left > 0 /\ Rests(t) THEN left ELSE 0
    <3>1. TapeVolume(t) + Swept + left = req[t].qty + 0
      BY <1>1, <1>3, <1>8 DEF Taking
    <3>2. left >= 0 /\ open[t] = IF left > 0 /\ Rests(t) THEN left ELSE 0
      BY <1>1, <1>2, <1>3, <1>8 DEF Taking
    <3> QED
      BY <2>1, <3>1, <3>2
  <2>3. filled'[t] = req[t].qty - left /\ status'[t] = st
    BY <1>2, <1>4
  <2>4. Remaining(t)' = left /\ Taken(t)' = 0 /\ Noted(t)' = 0 /\ (Rests(t)' <=> Rests(t))
    BY <1>2, <1>3, <2>1, <2>3 DEF Remaining, Taken, Noted, Rests, IsLimit
  <2>5. TapeVolume(t)' = filled'[t] + 0 /\ filled'[t] >= 0 /\ filled'[t] <= req'[t].qty
    BY <1>2, <1>5, <2>1, <2>2, <2>3
  <2>6. open'[t] + Coming(t)' = IF left > 0 /\ Rests(t) THEN left ELSE 0
    BY <1>2, <1>5, <2>1, <2>2
  <2>7. st \in Open <=> left > 0 /\ Rests(t)
    BY <1>1, <2>1, <2>2 DEF Open
  <2>8. Expected(t)' = IF left > 0 /\ Rests(t) THEN left ELSE 0
    <3>1. Working(t)' <=> left > 0 /\ Rests(t)
      BY <1>2, <2>3, <2>4, <2>7 DEF Working, Rests, Open
    <3> QED
      BY <2>4, <3>1 DEF Expected
  <2>9. st # "pending"
    BY <1>1
  <2> QED
    BY <2>1, <2>3, <2>4, <2>5, <2>6, <2>7, <2>8, <2>9 DEF Order, Open
<1>10. \A i \in Used : Order(i)'
  BY <1>7, <1>9
<1>11. \A i \in OrderId \ Used : TapeVolume(i)' = 0 /\ filled'[i] = 0
  BY <1>4, <1>5, <1>6 DEF Orders
<1>12. \A i \in pendingStops' : status'[i] = "pending" /\ IsStop(req'[i])
  <2>1. \A i \in pendingStops : i \in OrderId /\ i # t
    BY <1>1, <1>8 DEF WellFormed, TypeOK, Taking
  <2> QED
    BY <1>2, <1>6, <2>1 DEF Orders
<1>13. FillsFit'
  BY <1>2, EmptyHasNoIndex DEF FillsFit
<1> QED
  BY <1>2, <1>3, <1>10, <1>11, <1>12, <1>13 DEF Orders

\* The resting order is written, and the next fill's turn comes.
LEMMA NextFillKeepsOrders ==
    ASSUME WellFormed, FillsAreFresh, Orders, SaveResting
    PROVE  Orders'
<1>1. PICK t, m, q, fs : t = taker /\ m = Fill.maker /\ q = Fill.qty /\ fs = fills
  OBVIOUS
<1>2. /\ pc = "save" /\ pc' = "settle" /\ taker # 0 /\ subject # taker /\ fills' = Tail(fs)
      /\ UNCHANGED <<req, status, filled, open, pendingStops, tape, left, taker>>
  BY <1>1 DEF SaveResting, WriteRow, Goto
<1>3. /\ MakerTurn /\ ~MakerTurn' /\ ~Recorded /\ ~Recorded' /\ Sweeping /\ Sweeping' /\ Placing /\ Placing'
      /\ Used' = Used
  BY <1>2 DEF MakerTurn, Recorded, Sweeping, Placing, Used
<1>4. fs # <<>> /\ fs \in Seq(FillRecord) /\ 0 \in Nat
  BY <1>1, <1>2 DEF WellFormed, TypeOK, CallsAreInOrder
<1>5. t \in Used /\ m \in Used /\ m # t /\ q \in Nat \ {0} /\ Head(fs).maker = m /\ Head(fs).qty = q
  BY <1>1, <1>3, <1>4, HeadFill DEF Fill
<1>6. /\ Swept' = Swept - q
      /\ \A i : Coming(i)' = Coming(i) - IF m = i THEN q ELSE 0
  <2>1. \A i : ComingIn(Tail(fs), i) = ComingIn(fs, i) - IF m = i THEN q ELSE 0
    BY <1>4, <1>5, FillsShifted
  <2>2. SweptIn(Tail(fs)) = SweptIn(fs) - q
    BY <1>4, <1>5, FillsShifted
  <2> QED
    BY <1>1, <1>2, <2>1, <2>2 DEF Coming, Swept
<1>7. \A i : TapeVolume(i)' = TapeVolume(i)
  BY <1>2, SameTapeSameVolumes
<1>8. \A i \in Used : i # t => Order(i)'
  <2> SUFFICES ASSUME NEW i \in Used, i # t PROVE Order(i)'
    OBVIOUS
  <2>1. Order(i) /\ open[i] \in Nat /\ Coming(i) \in Nat /\ Remaining(i) \in Int
    BY <1>1, OrderNumbers DEF Orders
  <2>2. Working(i)' = Working(i) /\ Remaining(i)' = Remaining(i) /\ Rests(i)' = Rests(i)
    BY <1>2 DEF Working, Remaining, Rests, IsLimit
  <2>3. Taken(i)' = 0 /\ Noted(i)' = 0 /\ Noted(i) = 0 /\ Expected(i)' = Expected(i)
        /\ Taken(i) = IF i = m THEN q ELSE 0
    BY <1>1, <1>3, <2>2 DEF Taken, Noted, Expected
  <2>4. open'[i] + Coming(i)' = Expected(i)' + 0
    <3>1. Expected(i) \in Int
      BY <2>1 DEF Expected
    <3>2. open[i] + Coming(i) = Expected(i) + IF i = m THEN q ELSE 0
      BY <2>1, <2>3 DEF Order
    <3>3. Coming(i)' = Coming(i) - IF m = i THEN q ELSE 0
      BY <1>6
    <3>4. open'[i] = open[i]
      BY <1>2
    <3> QED
      BY <1>5, <2>1, <2>3, <3>1, <3>2, <3>3, <3>4
  <2> QED
    BY <1>2, <1>7, <2>1, <2>2, <2>3, <2>4 DEF Order
<1>9. \A i \in OrderId \ Used : TapeVolume(i)' = 0 /\ filled'[i] = 0
  BY <1>2, <1>7 DEF Orders
<1>10. Taking'
  <2>1. Taking
    BY <1>3 DEF Orders
  <2>2. Rests(t)' = Rests(t) /\ IsLimit(t)' = IsLimit(t) /\ TapeVolume(t)' = TapeVolume(t)
    BY <1>2, <1>7 DEF Rests, IsLimit
  <2>3. TapeVolume(t) \in Nat /\ Swept \in Nat /\ left \in Int /\ req[t].qty \in Int
    BY <1>5, OrderNumbers DEF WellFormed, TypeOK
  <2>4. TapeVolume(t) + Swept + left = req[t].qty + q
    BY <1>1, <1>3, <2>1 DEF Taking
  <2>5. TapeVolume(t)' + Swept' + left' = req[t].qty + 0
    <3>1. TapeVolume(t)' = TapeVolume(t) /\ Swept' = Swept - q /\ left' = left /\ q \in Int
      BY <1>2, <1>5, <1>6, <2>2
    <3>2. TapeVolume(t) + (Swept - q) + left = req[t].qty + 0
      BY <2>3, <2>4, <3>1
    <3> QED
      BY <3>1, <3>2
  <2>6. /\ status[t] \in {"new", "pending"} /\ filled[t] = 0 /\ t \notin pendingStops
        /\ open[t] = IF left > 0 /\ Rests(t) THEN left ELSE 0
        /\ left >= 0 /\ req[t].qty > 0 /\ (IsLimit(t) => req[t].price > 0)
    BY <1>1, <1>2, <1>3, <2>1 DEF Taking
  <2> QED
    BY <1>1, <1>2, <1>3, <2>2, <2>5, <2>6 DEF Taking
<1>11. FillsFit'
  <2>1. \A n \in DOMAIN Tail(fs) : n + 1 \in DOMAIN fs /\ Tail(fs)[n] = fs[n + 1]
    BY <1>4, TailShifts
  <2> QED
    BY <1>1, <1>2, <2>1 DEF Orders, FillsFit, IsLimit, IsBuy
<1> QED
  BY <1>1, <1>2, <1>3, <1>8, <1>9, <1>10, <1>11 DEF Orders

\* A triggered stop starts, and a cancel ends, with no sweep under way.
LEMMA TriggersKeepOrders ==
    ASSUME WellFormed, FillsAreFresh, Orders, NEW n \in OrderId, Activate(n)
    PROVE  Orders'
<1>1. /\ pc = "triggers" /\ pc' = "start" /\ taker' = n /\ n \in pendingStops /\ pendingStops' = pendingStops \ {n}
      /\ UNCHANGED <<req, status, filled, open, tape, fills, left, subject>>
  BY DEF Activate, Ready, Goto
<1>2. ~Placing /\ ~MakerTurn /\ ~MakerTurn' /\ ~Recorded /\ ~Recorded' /\ ~Sweeping' /\ Placing' /\ Used' = Used
  BY <1>1 DEF MakerTurn, Recorded, Sweeping, Placing, Used
<1>3. fills = <<>>
  BY <1>1 DEF FillsAreFresh
<1>4. \A i : Coming(i)' = Coming(i) /\ TapeVolume(i)' = TapeVolume(i) /\ Coming(i) = 0
  BY <1>1, <1>3, SameFillsSameSums, SameTapeSameVolumes, NoFillsNoSums DEF Coming
<1>5. \A i \in Used : Order(i) /\ Order(i)'
  <2> SUFFICES ASSUME NEW i \in Used PROVE Order(i) /\ Order(i)'
    OBVIOUS
  <2>1. Order(i)
    BY <1>2 DEF Orders
  <2>2. Taken(i)' = Taken(i) /\ Noted(i)' = Noted(i)
    BY <1>2 DEF Taken, Noted
  <2> QED
    BY <1>1, <1>4, <2>1, <2>2, OrderKept
<1>6. n \in Used /\ status[n] = "pending" /\ Order(n)
  BY <1>1, <1>5 DEF Orders, WellFormed, CallsAreInOrder
<1>7. filled[n] = 0 /\ open[n] = 0 /\ TapeVolume(n) = 0
  <2>1. Expected(n) = 0 /\ Taken(n) = 0 /\ Noted(n) = 0
    BY <1>2, <1>6 DEF Expected, Working, Open, Taken, Noted
  <2>2. open[n] \in Nat
    BY <1>6, OrderNumbers
  <2> QED
    BY <1>4, <1>6, <2>1, <2>2 DEF Order
<1>8. Taking'
  BY <1>1, <1>2, <1>4, <1>6, <1>7 DEF Taking
<1>9. FillsFit'
  BY <1>1, <1>3, EmptyHasNoIndex DEF FillsFit
<1> QED
  BY <1>1, <1>2, <1>4, <1>5, <1>8, <1>9 DEF Orders

LEMMA CancelingKeepsOrders ==
    ASSUME WellFormed, FillsAreFresh, Orders, NEW n \in OrderId, cancel(n)
    PROVE  Orders'
<1>1. /\ pc = "idle" /\ pc' \in {"release", "save"} /\ status[n] \in Open /\ subject' = n
      /\ open' = [open EXCEPT ![n] = 0] /\ status' = [status EXCEPT ![n] = "canceled"]
      /\ UNCHANGED <<req, filled, pendingStops, tape, fills, left, taker>>
  BY DEF cancel, Cancelable, Conclude, Goto
<1>2. taker = 0 /\ fills = <<>>
  BY <1>1 DEF WellFormed, CallsAreInOrder, FillsAreFresh
<1>3. ~Placing /\ ~MakerTurn /\ ~MakerTurn' /\ ~Recorded /\ ~Recorded' /\ ~Placing' /\ Used' = Used
  BY <1>1, <1>2 DEF MakerTurn, Recorded, Sweeping, Placing, Used
<1>4. \A i : Coming(i)' = Coming(i) /\ TapeVolume(i)' = TapeVolume(i) /\ Coming(i) = 0
  BY <1>1, <1>2, SameFillsSameSums, SameTapeSameVolumes, NoFillsNoSums DEF Coming
<1>5. DOMAIN open = OrderId /\ DOMAIN status = OrderId
  BY DEF WellFormed, TypeOK
<1>6. \A i \in Used : Order(i)'
  <2> SUFFICES ASSUME NEW i \in Used PROVE Order(i)'
    OBVIOUS
  <2>1. Order(i) /\ i \in OrderId
    BY <1>3 DEF Orders, Used
  <2>2. Taken(i)' = 0 /\ Noted(i)' = 0 /\ Taken(i) = 0 /\ Noted(i) = 0
    BY <1>3 DEF Taken, Noted
  <2>3. CASE i = n
    <3>1. open'[i] = 0 /\ status'[i] = "canceled"
      BY <1>1, <1>5, <2>1, <2>3
    <3>2. Expected(i)' = 0
      BY <3>1 DEF Expected, Working, Open
    <3> QED
      BY <1>1, <1>4, <2>1, <2>2, <3>1, <3>2 DEF Order, Open
  <2>4. CASE i # n
    <3>1. open'[i] = open[i] /\ status'[i] = status[i]
      BY <1>1, <1>5, <2>1, <2>4
    <3> QED
      BY <1>1, <1>4, <2>1, <2>2, <3>1, OrderKept
  <2> QED
    BY <2>3, <2>4
<1>7. \A i \in pendingStops : status'[i] = "pending" /\ IsStop(req[i])
  <2>1. n \notin pendingStops
    BY <1>1 DEF Orders, Open
  <2> QED
    BY <1>1, <1>5, <2>1 DEF Orders, WellFormed, TypeOK
<1>8. FillsFit'
  BY <1>1, <1>2, EmptyHasNoIndex DEF FillsFit
<1> QED
  BY <1>1, <1>2, <1>3, <1>4, <1>6, <1>7, <1>8 DEF Orders

\* The steps that pay, book, reserve and write.
LEMMA OtherStepsKeepOrders ==
    ASSUME WellFormed, FillsAreFresh, Orders,
           \/ Pay \/ BookBuyer \/ BookSeller \/ ReleaseHold \/ ReserveRest
           \/ SavePlaced \/ SaveAndReturn \/ Quiescent \/ SetKillSwitch \/ UNCHANGED vars
    PROVE  Orders'
<1>1. CASE Pay
  <2>1. /\ pc = "pay" /\ pc' = "book buy"
        /\ UNCHANGED <<req, status, filled, open, tape, fills, pendingStops, taker, left, subject>>
    BY <1>1 DEF Pay, Goto
  <2> QED
    BY <2>1, OrdersKept DEF Placing, Sweeping, Recorded, MakerTurn
<1>2. CASE BookBuyer \/ BookSeller
  <2>1. /\ pc \in {"book buy", "book sell"}
        /\ UNCHANGED <<req, status, filled, open, tape, fills, pendingStops, taker, left, subject>>
    BY <1>2, Zenon DEF BookBuyer, BookSeller, BookPosition
  <2>2. pc' \in {"book sell", "advance"}
    BY <1>2, Zenon DEF BookBuyer, BookSeller, Goto
  <2> QED
    BY <2>1, <2>2, OrdersKept DEF Placing, Sweeping, Recorded, MakerTurn
<1>3. CASE ReleaseHold \/ ReserveRest
  <2>1. /\ pc \in {"release", "reserve"} /\ pc' \in {"reserve", "save"}
        /\ UNCHANGED <<req, status, filled, open, tape, fills, pendingStops, taker, left, subject>>
    BY <1>3 DEF ReleaseHold, ReserveRest, Goto
  <2> QED
    BY <2>1, OrdersKept DEF Placing, Sweeping, Recorded, MakerTurn
<1>4. CASE SavePlaced \/ SaveAndReturn \/ Quiescent
  <2>1. /\ \/ pc = "save" /\ (subject = taker \/ taker = 0)
           \/ pc = "triggers"
        /\ pc' \in {"triggers", "idle"}
        /\ UNCHANGED <<req, status, filled, open, tape, pendingStops>>
        /\ fills' \in {fills, <<>>}
    BY <1>4 DEF SavePlaced, SaveAndReturn, Quiescent, WriteRow, EndCall, Goto
  <2>2. ~Placing /\ ~Placing' /\ ~Sweeping /\ ~Sweeping' /\ ~Recorded /\ ~Recorded' /\ ~MakerTurn /\ ~MakerTurn'
    BY <2>1 DEF Placing, Sweeping, Recorded, MakerTurn
  <2>3. fills = <<>>
    BY <2>2 DEF Orders
  <2> QED
    BY <2>1, <2>2, <2>3, OrdersKept
<1>5. CASE SetKillSwitch \/ UNCHANGED vars
  <2>1. /\ pc' = pc
        /\ UNCHANGED <<req, status, filled, open, tape, fills, pendingStops, taker, left, subject>>
    BY <1>5 DEF SetKillSwitch, vars
  <2> QED
    BY <2>1, OrdersKept DEF Placing, Sweeping, Recorded, MakerTurn
<1> QED
  BY <1>1, <1>2, <1>3, <1>4, <1>5

\* Every step keeps the orders in order, unless it raises.
LEMMA OrdersStayFit ==
    ASSUME WellFormed, WellFormed', FillsAreFresh, Orders, [Next]_vars, ~PayRaises, ~ReserveRaises
    PROVE  Orders'
<1>1. CASE place
  BY <1>1, PlacingKeepsOrders DEF place
<1>2. CASE StartLimit \/ CheckLimit \/ StartMarket
  BY <1>2, ChecksKeepOrders
<1>3. ASSUME NEW i \in OrderId, MatchOne(i) \/ Activate(i) \/ cancel(i) PROVE Orders'
  BY <1>3, MatchingKeepsOrders, TriggersKeepOrders, CancelingKeepsOrders
<1>4. CASE MatchDone \/ RecordTrade
  BY <1>4, RestingKeepsOrders, RecordingKeepsOrders
<1>5. CASE Advance \/ Finish \/ SaveResting
  BY <1>5, AdvancingKeepsOrders, FinishingKeepsOrders, NextFillKeepsOrders
<1>6. CASE \/ Pay \/ BookBuyer \/ BookSeller \/ ReleaseHold \/ ReserveRest
           \/ SavePlaced \/ SaveAndReturn \/ Quiescent \/ SetKillSwitch \/ UNCHANGED vars
  BY <1>6, OtherStepsKeepOrders
<1> QED
  BY <1>1, <1>2, <1>3, <1>4, <1>5, <1>6 DEF Next, Step

LEMMA NoOrders ==
    ASSUME Init
    PROVE  Orders
<1>1. Used = {} /\ pendingStops = {} /\ fills = <<>> /\ ~MakerTurn /\ ~Placing
  BY DEF Init, Used, MakerTurn, Placing, Sweeping, Recorded
<1>2. \A i : TapeVolume(i) = 0
  <2> SUFFICES ASSUME NEW i PROVE TapeVolume(i) = 0
    OBVIOUS
  <2>1. {n \in DOMAIN tape : i \in {tape[n].buy, tape[n].sell}} = {}
    BY EmptyHasNoIndex DEF Init
  <2>2. TapeVolume(i) = SumFunctionOnSet([n \in {} |-> tape[n].qty], {})
    BY <2>1 DEF TapeVolume, Volume, SumFunction
  <2> QED
    BY <2>2, SumEmpty
<1>3. FillsFit
  BY <1>1, EmptyHasNoIndex DEF FillsFit
<1>4. \A i \in OrderId : filled[i] = 0
  BY DEF Init
<1> QED
  BY <1>1, <1>2, <1>3, <1>4 DEF Orders

-----------------------------------------------------------------------------
(* Reservations. *)

\* What a buy has set aside when nothing is happening to it.
Standard(i) ==
    hold[i] = IF Working(i) /\ IsBuy(i)
              THEN [account |-> req[i].account, amount |-> Notional(i, Remaining(i))]
              ELSE NoHold

\* What the order being placed has set aside, from the moment it reserves.
Full(i) == [account |-> req[i].account, amount |-> Notional(i, req[i].qty)]

\* The order being placed holds what all of it costs until its fills are applied, and an
\* order's reservation is being replaced; otherwise it is what it should be.
Held(i) ==
    IF Placing /\ i = taker
    THEN hold[i] = IF pc # "start" /\ IsLimit(i) /\ IsBuy(i) THEN Full(i) ELSE NoHold
    ELSE (pc \in {"release", "reserve"} /\ i = subject) \/ Standard(i)

HoldsAreBuys ==
    \A i \in OrderId :
        hold[i] # NoHold => i \in Used /\ IsBuy(i) /\ hold[i].account = req[i].account

HoldsFit ==
    /\ HoldsAreBuys
    /\ \A i \in Used : Held(i)
    /\ pc = "release" => hold[subject] # NoHold
    /\ pc = "reserve" => hold[subject] = NoHold /\ IsBuy(subject) /\ KeepsHold(subject)

\* The reservation of an order of which nothing changes.
LEMMA HeldKept ==
    ASSUME NEW i, Held(i), hold'[i] = hold[i], filled'[i] = filled[i], status'[i] = status[i],
           req'[i] = req[i], (Placing' /\ i = taker') <=> (Placing /\ i = taker),
           Placing /\ i = taker => (pc' = "start" <=> pc = "start"),
           pc \in {"release", "reserve"} /\ i = subject => pc' \in {"release", "reserve"} /\ i = subject'
    PROVE  Held(i)'
<1>1. (Working(i)' <=> Working(i)) /\ Remaining(i)' = Remaining(i) /\ (IsBuy(i)' <=> IsBuy(i))
      /\ (IsLimit(i)' <=> IsLimit(i))
  BY DEF Working, Remaining, IsLimit, IsBuy
<1>2. Notional(i, Remaining(i))' = Notional(i, Remaining(i)) /\ Full(i)' = Full(i)
  BY <1>1 DEF Notional, Value, Full
<1>3. Standard(i) => Standard(i)'
  BY <1>1, <1>2 DEF Standard
<1> QED
  BY <1>1, <1>2, <1>3 DEF Held

\* Steps that leave reservations, orders and the stage of the call as they are.
LEMMA HoldsKept ==
    ASSUME HoldsFit, UNCHANGED <<req, status, filled, hold>>,
           Placing' <=> Placing, Placing => taker' = taker /\ (pc' = "start" <=> pc = "start"),
           \/ pc \notin {"release", "reserve"} /\ pc' \notin {"release", "reserve"}
           \/ UNCHANGED <<pc, subject>>
    PROVE  HoldsFit'
<1>1. Used' = Used
  BY DEF Used
<1>2. \A i \in Used : Held(i)'
  BY HeldKept DEF HoldsFit
<1>3. HoldsAreBuys'
  BY <1>1 DEF HoldsFit, HoldsAreBuys, IsBuy
<1>4. pc' = "release" => hold'[subject'] # NoHold
  BY DEF HoldsFit
<1>5. pc' = "reserve" => (hold[subject] = NoHold /\ IsBuy(subject) /\ KeepsHold(subject))'
  BY DEF HoldsFit, IsBuy, KeepsHold, Remaining
<1> QED
  BY <1>1, <1>2, <1>3, <1>4, <1>5 DEF HoldsFit

\* place: the ticket has no reservation yet.
LEMMA PlacingKeepsHolds ==
    ASSUME WellFormed, FillsAreFresh, Orders, HoldsFit, NEW r \in Request,
           PlaceInvalid(r) \/ PlaceStop(r) \/ PlaceNow(r)
    PROVE  HoldsFit'
<1>1. PICK n : n = nextId
  OBVIOUS
<1>2. /\ pc = "idle" /\ n \in OrderId /\ req' = [req EXCEPT ![n] = r]
      /\ UNCHANGED <<filled, hold>>
  BY <1>1 DEF PlaceInvalid, PlaceStop, PlaceNow, Register
<1>3. PICK st \in {"new", "pending", "rejected"} : status' = [status EXCEPT ![n] = st]
  BY <1>1 DEF PlaceInvalid, PlaceStop, PlaceNow, Conclude
<1>4. \/ pc' = "save" /\ subject' = n /\ taker' \in {0, n} /\ st # "new"
      \/ pc' = "start" /\ taker' = n
  <2>1. taker = 0
    BY <1>2 DEF WellFormed, CallsAreInOrder
  <2>2. DOMAIN status = OrderId
    BY DEF WellFormed, TypeOK
  <2>3. status'[n] = st
    BY <1>2, <1>3, <2>2
  <2>4. CASE PlaceInvalid(r)
    <3>1. status' = [status EXCEPT ![n] = "rejected"] /\ pc' = "save" /\ subject' = n /\ taker' = taker
      BY <1>1, <2>4 DEF PlaceInvalid, Conclude, Goto
    <3>2. status'[n] = "rejected"
      BY <1>2, <2>2, <3>1
    <3> QED
      BY <2>1, <2>3, <3>1, <3>2
  <2>5. CASE PlaceNow(r)
    BY <1>1, <2>5 DEF PlaceNow, Goto
  <2>6. CASE PlaceStop(r)
    <3>1. /\ status' = [status EXCEPT ![n] = IF BadStop(r) THEN "rejected" ELSE "pending"]
          /\ pc' = "save" /\ subject' = n /\ taker' = n
      BY <1>1, <2>6 DEF PlaceStop, Conclude, Goto
    <3>2. status'[n] \in {"rejected", "pending"}
      BY <1>2, <2>2, <3>1
    <3> QED
      BY <2>3, <3>1, <3>2
  <2> QED
    BY <2>4, <2>5, <2>6
<1>5. n \notin Used /\ n # 0 /\ Used' = Used \cup {n}
  <2>1. r # NoRequest /\ n # 0
    BY <1>2, OMSAssumption DEF NoRequest, OrderId
  <2> QED
    BY <1>1, <1>2, <2>1 DEF Used, WellFormed, TypeOK, CallsAreInOrder
<1>6. ~Placing /\ (Placing' => pc' = "start")
  BY <1>2, <1>4, <1>5 DEF Placing, Sweeping, Recorded, MakerTurn, WellFormed, CallsAreInOrder
<1>7. hold[n] = NoHold
  BY <1>2, <1>5 DEF HoldsFit, HoldsAreBuys
<1>8. \A i \in OrderId : i # n => status'[i] = status[i] /\ req'[i] = req[i]
  BY <1>2, <1>3 DEF WellFormed, TypeOK
<1>9. \A i \in Used : Held(i)'
  <2> SUFFICES ASSUME NEW i \in Used PROVE Held(i)'
    OBVIOUS
  <2>1. Held(i) /\ i \in OrderId /\ i # n
    BY <1>5 DEF HoldsFit, Used
  <2>2. ~(Placing' /\ i = taker')
    BY <1>4, <1>6, <2>1
  <2> QED
    BY <1>2, <1>6, <1>8, <2>1, <2>2, HeldKept
<1>10. Held(n)'
  <2>1. hold'[n] = NoHold
    BY <1>2, <1>7
  <2>2. CASE pc' = "start"
    BY <1>4, <2>1, <2>2 DEF Held, Placing
  <2>3. CASE pc' = "save"
    <3>1. status'[n] = st /\ st \notin Open
      BY <1>2, <1>3, <1>4, <2>3 DEF WellFormed, TypeOK, Open
    <3>2. Standard(n)'
      BY <2>1, <3>1 DEF Standard, Working
    <3> QED
      BY <1>6, <2>3, <3>2 DEF Held
  <2> QED
    BY <1>4, <2>2, <2>3
<1>11. HoldsAreBuys'
  <2> SUFFICES ASSUME NEW i \in OrderId, hold[i] # NoHold
               PROVE  i \in Used' /\ (IsBuy(i))' /\ hold[i].account = req'[i].account
    BY <1>2 DEF HoldsAreBuys
  <2>1. i # n
    BY <1>7
  <2> QED
    BY <1>5, <1>8, <2>1 DEF HoldsFit, HoldsAreBuys, IsBuy
<1> QED
  BY <1>4, <1>5, <1>9, <1>10, <1>11 DEF HoldsFit

\* The checks before the sweep reserve a limit buy's cost, or give it back.
LEMMA ChecksKeepHolds ==
    ASSUME WellFormed, FillsAreFresh, Orders, HoldsFit, StartLimit \/ CheckLimit \/ StartMarket
    PROVE  HoldsFit'
<1>1. PICK t : t = taker
  OBVIOUS
<1>2. /\ pc \in {"start", "risk"} /\ taker' = taker
      /\ UNCHANGED <<req, filled>>
      /\ pc' \in {"risk", "match", "release", "save"}
      /\ pc' \in {"risk", "match"} => UNCHANGED status
      /\ pc' \in {"release", "save"} =>
            /\ subject' = t
            /\ \E st \in {"rejected", "canceled"} : status' = [status EXCEPT ![t] = st]
  BY <1>1, ChecksEnd
<1>3. t \in Used /\ t \in OrderId /\ Placing /\ Used' = Used
  BY <1>1, <1>2 DEF WellFormed, CallsAreInOrder, Used, Placing
<1>4. hold[t] = IF pc # "start" /\ IsLimit(t) /\ IsBuy(t) THEN Full(t) ELSE NoHold
  BY <1>1, <1>3 DEF HoldsFit, Held
<1>5. /\ DOMAIN hold = OrderId /\ DOMAIN status = OrderId /\ (IsBuy(t)' <=> IsBuy(t))
      /\ (IsLimit(t)' <=> IsLimit(t)) /\ Full(t)' = Full(t)
  BY <1>2 DEF WellFormed, TypeOK, IsBuy, IsLimit, Full, Notional, Value
<1>6. Full(t) # NoHold /\ Full(t).account = req[t].account
  BY <1>3, UsedIsTicket DEF Full, NoHold, WellFormed
<1>7. /\ \A i \in OrderId : i # t => hold'[i] = hold[i]
      /\ hold'[t] \in {NoHold, Full(t)} /\ (hold'[t] = Full(t) => IsBuy(t))
      /\ pc' \in {"risk", "match"} => hold'[t] = IF IsLimit(t) /\ IsBuy(t) THEN Full(t) ELSE NoHold
      /\ pc' = "release" => hold'[t] = Full(t)
      /\ pc' = "save" => hold'[t] = NoHold
  <2>1. CASE StartLimit
    <3>1. IsLimit(t) /\ pc = "start" /\ hold[t] = NoHold
      BY <1>1, <1>4, <2>1 DEF StartLimit
    <3>2. \/ /\ IsBuy(t) /\ pc' = "risk" /\ hold' = [hold EXCEPT ![t] = Full(t)]
          \/ IsBuy(t) /\ pc' = "save" /\ hold' = hold
          \/ ~IsBuy(t) /\ pc' = "risk" /\ hold' = hold
      BY <1>1, <2>1 DEF StartLimit, Reserve, Full, Goto
    <3> QED
      BY <1>3, <1>5, <1>6, <3>1, <3>2
  <2>2. CASE CheckLimit
    <3>1. pc = "risk" /\ hold' = hold /\ pc' # "risk"
      BY <2>2 DEF CheckLimit, ThenWrite, Sweep, Goto
    <3>2. pc' \in {"release", "save"} => pc' = IF IsBuy(t) /\ IsLimit(t) THEN "release" ELSE "save"
      BY <1>1, <2>2 DEF CheckLimit, ThenWrite, Sweep, Goto
    <3> QED
      BY <1>4, <1>6, <3>1, <3>2
  <2>3. CASE StartMarket
    <3>1. pc = "start" /\ ~IsLimit(t) /\ hold' = hold /\ pc' \in {"save", "match"}
      BY <1>1, <2>3 DEF StartMarket, Sweep, Goto
    <3> QED
      BY <1>4, <1>6, <3>1
  <2> QED
    BY <2>1, <2>2, <2>3
<1>8. \A i \in Used : i # t => Held(i)'
  <2> SUFFICES ASSUME NEW i \in Used, i # t PROVE Held(i)'
    OBVIOUS
  <2>1. Held(i) /\ i \in OrderId
    BY DEF HoldsFit, Used
  <2>2. hold'[i] = hold[i] /\ filled'[i] = filled[i] /\ req'[i] = req[i] /\ status'[i] = status[i]
    BY <1>2, <1>5, <1>7, <2>1
  <2> QED
    BY <1>1, <1>2, <2>1, <2>2, HeldKept
<1>9. Held(t)'
  <2>1. CASE pc' \in {"risk", "match"}
    <3>1. Placing' /\ taker' = t
      BY <1>1, <1>2, <2>1 DEF Placing, Sweeping
    <3> QED
      BY <1>5, <1>7, <2>1, <3>1 DEF Held
  <2>2. CASE pc' \in {"release", "save"}
    <3>1. ~Placing'
      BY <1>1, <1>2, <2>2 DEF Placing, Sweeping, Recorded, MakerTurn
    <3>2. status'[t] \notin Open
      BY <1>2, <1>3, <1>5, <2>2 DEF Open
    <3>3. pc' = "save" => Standard(t)'
      BY <1>7, <3>2 DEF Standard, Working
    <3> QED
      BY <1>2, <2>2, <3>1, <3>3 DEF Held
  <2> QED
    BY <1>2, <2>1, <2>2
<1>10. HoldsAreBuys'
  <2> SUFFICES ASSUME NEW i \in OrderId, hold'[i] # NoHold
               PROVE  i \in Used' /\ IsBuy(i)' /\ hold'[i].account = req'[i].account
    BY DEF HoldsAreBuys
  <2>1. CASE i = t
    BY <1>2, <1>3, <1>5, <1>6, <1>7, <2>1
  <2>2. CASE i # t
    BY <1>2, <1>3, <1>7, <2>2 DEF HoldsFit, HoldsAreBuys, IsBuy
  <2> QED
    BY <2>1, <2>2
<1>11. \A i \in Used' : Held(i)'
  BY <1>3, <1>8, <1>9
<1>12. pc' = "release" => hold'[subject'] # NoHold
  BY <1>2, <1>6, <1>7
<1> QED
  BY <1>2, <1>10, <1>11, <1>12 DEF HoldsFit

\* The resting order's reservation is next to be replaced.
LEMMA AdvancingKeepsHolds ==
    ASSUME WellFormed, FillsAreFresh, Orders, HoldsFit, Advance
    PROVE  HoldsFit'
<1>1. PICK m : m = Fill.maker
  OBVIOUS
<1>2. /\ pc = "advance" /\ subject' = m /\ UNCHANGED <<req, hold, taker>>
      /\ pc' = IF IsBuy(m) THEN "release" ELSE "save"
      /\ \A i : i # m => filled'[i] = filled[i] /\ status'[i] = status[i]
  <2>1. /\ pc = "advance" /\ subject' = m /\ UNCHANGED <<req, hold, taker>>
        /\ pc' = IF IsBuy(m) THEN "release" ELSE "save"
        /\ filled' = [filled EXCEPT ![m] = Advanced(m)]
        /\ status' = [status EXCEPT ![m] = IF Advanced(m) >= req[m].qty THEN "filled" ELSE "partial"]
    BY <1>1 DEF Advance, Conclude, Goto
  <2> QED
    BY <2>1
<1>3. Recorded /\ Placing /\ taker # 0 /\ Used' = Used
  BY <1>2 DEF Recorded, Placing, Sweeping, Used, WellFormed, CallsAreInOrder
<1>4. m \in Used /\ m # taker /\ Working(m)
  BY <1>1, <1>3, MakerIsWorking
<1>5. Placing'
  BY <1>2, <1>3, <1>4 DEF Placing, Sweeping, MakerTurn
<1>6. \A i \in Used : i # m => Held(i)'
  <2> SUFFICES ASSUME NEW i \in Used, i # m PROVE Held(i)'
    OBVIOUS
  <2>1. Held(i)
    BY DEF HoldsFit
  <2> QED
    BY <1>2, <1>3, <1>5, <2>1, HeldKept
<1>7. Standard(m)
  BY <1>2, <1>4 DEF HoldsFit, Held
<1>8. IsBuy(m) => hold[m] # NoHold
  <2>1. req[m].account # "none"
    BY <1>4, UsedIsTicket DEF WellFormed
  <2> QED
    BY <1>4, <1>7, <2>1 DEF Standard, NoHold
<1>9. Held(m)'
  <2>1. CASE IsBuy(m)
    BY <1>2, <1>4, <2>1 DEF Held
  <2>2. CASE ~IsBuy(m)
    <3>1. Standard(m)'
      BY <1>2, <1>7, <2>2 DEF Standard, IsBuy
    <3> QED
      BY <1>2, <1>4, <3>1 DEF Held
  <2> QED
    BY <2>1, <2>2
<1>10. HoldsAreBuys'
  BY <1>2, <1>3 DEF HoldsFit, HoldsAreBuys, IsBuy
<1>11. \A i \in Used' : Held(i)'
  BY <1>3, <1>6, <1>9
<1>12. pc' = "release" => hold'[subject'] # NoHold
  BY <1>2, <1>8
<1> QED
  BY <1>2, <1>10, <1>11, <1>12 DEF HoldsFit

\* The incoming order's reservation is next.
LEMMA FinishingKeepsHolds ==
    ASSUME WellFormed, FillsAreFresh, Orders, HoldsFit, Finish
    PROVE  HoldsFit'
<1>1. PICK t : t = taker
  OBVIOUS
<1>2. /\ pc = "settle" /\ subject' = t /\ UNCHANGED <<req, hold, taker>>
      /\ pc' = IF IsBuy(t) /\ IsLimit(t) THEN "release" ELSE "save"
      /\ \A i : i # t => filled'[i] = filled[i] /\ status'[i] = status[i]
  BY <1>1 DEF Finish, Conclude, ThenWrite, Goto
<1>3. Placing /\ ~Placing' /\ Used' = Used /\ t \in Used
  BY <1>1, <1>2 DEF Recorded, Placing, Sweeping, MakerTurn, Used, WellFormed, CallsAreInOrder
<1>4. \A i \in Used : i # t => Held(i)'
  <2> SUFFICES ASSUME NEW i \in Used, i # t PROVE Held(i)'
    OBVIOUS
  <2>1. Held(i)
    BY DEF HoldsFit
  <2> QED
    BY <1>1, <1>2, <1>3, <2>1, HeldKept
<1>5. hold[t] = IF IsLimit(t) /\ IsBuy(t) THEN Full(t) ELSE NoHold
  BY <1>1, <1>2, <1>3 DEF HoldsFit, Held
<1>6. Full(t) # NoHold
  BY <1>3, UsedIsTicket DEF Full, NoHold, WellFormed
<1>7. Held(t)'
  <2>1. CASE IsBuy(t) /\ IsLimit(t)
    BY <1>2, <1>3, <2>1 DEF Held
  <2>2. CASE ~(IsBuy(t) /\ IsLimit(t))
    <3>1. Standard(t)'
      BY <1>2, <1>5, <2>2 DEF Standard, IsBuy, IsLimit, Working
    <3> QED
      BY <1>3, <3>1 DEF Held
  <2> QED
    BY <2>1, <2>2
<1>8. HoldsAreBuys'
  BY <1>2, <1>3 DEF HoldsFit, HoldsAreBuys, IsBuy
<1>9. \A i \in Used' : Held(i)'
  BY <1>3, <1>4, <1>7
<1>10. pc' = "release" => hold'[subject'] # NoHold
  BY <1>2, <1>5, <1>6
<1> QED
  BY <1>2, <1>8, <1>9, <1>10 DEF HoldsFit

\* An open order rests.
LEMMA KeepsHoldIsWorking ==
    ASSUME Orders, NEW i \in Used, ~(Placing /\ i = taker)
    PROVE  KeepsHold(i) <=> Working(i)
<1>1. Order(i)
  BY DEF Orders
<1> QED
  BY <1>1 DEF Order, KeepsHold, Working, Rests

\* The order whose reservation is replaced is not the one being placed.
LEMMA SubjectIsNotPlacing ==
    ASSUME WellFormed, pc \in {"release", "reserve"}
    PROVE  subject \in Used /\ subject \in OrderId /\ ~(Placing /\ subject = taker)
BY DEF WellFormed, CallsAreInOrder, Placing, Sweeping, Recorded, MakerTurn, Used

LEMMA ReleasingKeepsHolds ==
    ASSUME WellFormed, FillsAreFresh, Orders, HoldsFit, ReleaseHold
    PROVE  HoldsFit'
<1>1. PICK n : n = subject
  OBVIOUS
<1>2. /\ pc = "release" /\ hold' = [hold EXCEPT ![n] = NoHold]
      /\ pc' = IF KeepsHold(n) THEN "reserve" ELSE "save"
      /\ UNCHANGED <<req, status, filled, taker, subject>>
  BY <1>1 DEF ReleaseHold, Goto
<1>3. /\ n \in Used /\ n \in OrderId /\ ~(Placing /\ n = taker) /\ Used' = Used
      /\ Placing' <=> Placing
  BY <1>1, <1>2, SubjectIsNotPlacing DEF Used, Placing, Sweeping, Recorded, MakerTurn
<1>4. DOMAIN hold = OrderId
  BY DEF WellFormed, TypeOK
<1>5. \A i \in Used : i # n => Held(i)'
  <2> SUFFICES ASSUME NEW i \in Used, i # n PROVE Held(i)'
    OBVIOUS
  <2>1. Held(i) /\ i \in OrderId
    BY DEF HoldsFit, Used
  <2> QED
    BY <1>1, <1>2, <1>3, <1>4, <2>1, HeldKept
<1>6. hold'[n] = NoHold
  BY <1>2, <1>3, <1>4
<1>7. IsBuy(n)
  BY <1>1, <1>2, <1>3 DEF HoldsFit, HoldsAreBuys
<1>8. (KeepsHold(n)' <=> KeepsHold(n)) /\ (Working(n)' <=> Working(n)) /\ (IsBuy(n)' <=> IsBuy(n))
  BY <1>2 DEF KeepsHold, Working, Remaining, IsLimit, IsBuy
<1>9. Held(n)'
  <2>1. CASE KeepsHold(n)
    BY <1>1, <1>2, <1>3, <2>1 DEF Held
  <2>2. CASE ~KeepsHold(n)
    <3>1. ~Working(n)'
      BY <1>3, <1>8, <2>2, KeepsHoldIsWorking
    <3>2. Standard(n)'
      BY <1>6, <3>1 DEF Standard
    <3> QED
      BY <1>2, <1>3, <3>2 DEF Held
  <2> QED
    BY <2>1, <2>2
<1>10. HoldsAreBuys'
  BY <1>2, <1>3, <1>4, <1>6 DEF HoldsFit, HoldsAreBuys, IsBuy
<1>11. \A i \in Used' : Held(i)'
  BY <1>3, <1>5, <1>9
<1>12. pc' = "reserve" => (hold[subject] = NoHold /\ IsBuy(subject) /\ KeepsHold(subject))'
  <2>1. ASSUME pc' = "reserve" PROVE hold'[n] = NoHold /\ IsBuy(n)' /\ KeepsHold(n)'
    BY <1>2, <1>6, <1>7, <1>8, <2>1
  <2> QED
    BY <1>1, <1>2, <2>1 DEF IsBuy, KeepsHold, Remaining
<1> QED
  BY <1>2, <1>10, <1>11, <1>12 DEF HoldsFit

LEMMA ReservingKeepsHolds ==
    ASSUME WellFormed, FillsAreFresh, Orders, HoldsFit, ReserveRest
    PROVE  HoldsFit'
<1>1. PICK n, h : n = subject /\ h = [account |-> req[n].account, amount |-> Notional(n, Remaining(n))]
  OBVIOUS
<1>2. /\ pc = "reserve" /\ hold' = [hold EXCEPT ![n] = h] /\ pc' = "save"
      /\ UNCHANGED <<req, status, filled, taker, subject>>
  BY <1>1 DEF ReserveRest, Reserve, Goto
<1>3. /\ n \in Used /\ n \in OrderId /\ ~(Placing /\ n = taker) /\ Used' = Used
      /\ Placing' <=> Placing
  BY <1>1, <1>2, SubjectIsNotPlacing DEF Used, Placing, Sweeping, Recorded, MakerTurn
<1>4. DOMAIN hold = OrderId
  BY DEF WellFormed, TypeOK
<1>5. \A i \in Used : i # n => Held(i)'
  <2> SUFFICES ASSUME NEW i \in Used, i # n PROVE Held(i)'
    OBVIOUS
  <2>1. Held(i) /\ i \in OrderId
    BY DEF HoldsFit, Used
  <2> QED
    BY <1>1, <1>2, <1>3, <1>4, <2>1, HeldKept
<1>6. hold'[n] = h
  BY <1>2, <1>3, <1>4
<1>7. IsBuy(n) /\ Working(n)
  BY <1>1, <1>2, <1>3, KeepsHoldIsWorking DEF HoldsFit
<1>8. Standard(n)'
  <2>1. Working(n)' /\ IsBuy(n)' /\ Remaining(n)' = Remaining(n)
    BY <1>2, <1>7 DEF Working, Remaining, IsLimit, IsBuy
  <2>2. h = [account |-> req'[n].account, amount |-> Notional(n, Remaining(n))']
    BY <1>1, <1>2, <2>1 DEF Notional, Value
  <2> QED
    BY <1>6, <2>1, <2>2 DEF Standard
<1>9. Held(n)'
  BY <1>2, <1>3, <1>8 DEF Held
<1>10. HoldsAreBuys'
  <2>1. h.account = req[n].account
    BY <1>1
  <2> QED
    BY <1>2, <1>3, <1>4, <1>6, <1>7, <2>1 DEF HoldsFit, HoldsAreBuys, IsBuy
<1>11. \A i \in Used' : Held(i)'
  BY <1>3, <1>5, <1>9
<1> QED
  BY <1>2, <1>10, <1>11 DEF HoldsFit

LEMMA TriggersKeepHolds ==
    ASSUME WellFormed, FillsAreFresh, Orders, HoldsFit, NEW n \in OrderId, Activate(n)
    PROVE  HoldsFit'
<1>1. /\ pc = "triggers" /\ pc' = "start" /\ taker' = n /\ n \in pendingStops
      /\ UNCHANGED <<req, status, filled, hold>>
  BY DEF Activate, Ready, Goto
<1>2. ~Placing /\ Placing' /\ Used' = Used
  BY <1>1 DEF Placing, Sweeping, Recorded, MakerTurn, Used
<1>3. n \in Used /\ status[n] = "pending"
  BY <1>1 DEF Orders, WellFormed, CallsAreInOrder
<1>4. \A i \in Used : i # n => Held(i)'
  <2> SUFFICES ASSUME NEW i \in Used, i # n PROVE Held(i)'
    OBVIOUS
  <2>1. Held(i)
    BY DEF HoldsFit
  <2> QED
    BY <1>1, <1>2, <2>1, HeldKept
<1>5. Held(n)'
  <2>1. Standard(n)
    BY <1>1, <1>2, <1>3 DEF HoldsFit, Held
  <2>2. hold[n] = NoHold
    BY <1>3, <2>1 DEF Standard, Working, Open
  <2> QED
    BY <1>1, <1>2, <2>2 DEF Held
<1>6. HoldsAreBuys'
  BY <1>1, <1>2 DEF HoldsFit, HoldsAreBuys, IsBuy
<1> QED
  BY <1>1, <1>2, <1>4, <1>5, <1>6 DEF HoldsFit

LEMMA CancelingKeepsHolds ==
    ASSUME WellFormed, FillsAreFresh, Orders, HoldsFit, NEW n \in OrderId, cancel(n)
    PROVE  HoldsFit'
<1>1. /\ pc = "idle" /\ pc' = (IF IsBuy(n) THEN "release" ELSE "save") /\ status[n] \in Open /\ subject' = n
      /\ status' = [status EXCEPT ![n] = "canceled"] /\ UNCHANGED <<req, filled, hold, taker>>
  BY DEF cancel, Cancelable, Conclude, Goto
<1>2. taker = 0 /\ n \in Used
  BY <1>1 DEF WellFormed, CallsAreInOrder, Open
<1>3. ~Placing /\ ~Placing' /\ Used' = Used
  BY <1>1, <1>2 DEF Placing, Sweeping, Recorded, MakerTurn, Used
<1>4. Working(n)
  BY <1>1, <1>2, <1>3 DEF Orders, Order, Working, Rests
<1>5. Standard(n)
  BY <1>1, <1>2, <1>3 DEF HoldsFit, Held
<1>6. \A i \in Used : i # n => Held(i)'
  <2> SUFFICES ASSUME NEW i \in Used, i # n PROVE Held(i)'
    OBVIOUS
  <2>1. Held(i) /\ status'[i] = status[i]
    BY <1>1 DEF HoldsFit
  <2> QED
    BY <1>1, <1>3, <2>1, HeldKept
<1>7. IsBuy(n) => hold[n] # NoHold
  <2>1. req[n].account # "none"
    BY <1>2, UsedIsTicket DEF WellFormed
  <2> QED
    BY <1>4, <1>5, <2>1 DEF Standard, NoHold
<1>8. Held(n)'
  <2>1. CASE IsBuy(n)
    BY <1>1, <1>3, <2>1 DEF Held
  <2>2. CASE ~IsBuy(n)
    <3>1. Standard(n)'
      BY <1>1, <1>5, <2>2 DEF Standard, IsBuy
    <3> QED
      BY <1>3, <3>1 DEF Held
  <2> QED
    BY <2>1, <2>2
<1>9. HoldsAreBuys'
  BY <1>1, <1>3 DEF HoldsFit, HoldsAreBuys, IsBuy
<1>10. \A i \in Used' : Held(i)'
  BY <1>3, <1>6, <1>8
<1> QED
  BY <1>1, <1>7, <1>9, <1>10 DEF HoldsFit

\* The steps that match, settle and write touch no reservation.
LEMMA OtherStepsKeepHolds ==
    ASSUME WellFormed, FillsAreFresh, Orders, HoldsFit,
           \/ (\E m \in OrderId : MatchOne(m)) \/ MatchDone \/ RecordTrade \/ Pay \/ BookBuyer \/ BookSeller
           \/ SaveResting \/ SavePlaced \/ SaveAndReturn \/ Quiescent \/ SetKillSwitch \/ UNCHANGED vars
    PROVE  HoldsFit'
<1>1. CASE (\E m \in OrderId : MatchOne(m)) \/ MatchDone \/ RecordTrade \/ Pay
  <2>1. /\ pc \in {"match", "settle", "pay"} /\ pc' \in {"match", "settle", "pay", "book buy"}
        /\ UNCHANGED <<req, status, filled, hold, taker>>
    BY <1>1 DEF MatchOne, MatchDone, RecordTrade, Pay, Goto
  <2> QED
    BY <2>1, HoldsKept DEF Placing, Sweeping, Recorded
<1>2. CASE BookBuyer \/ BookSeller
  <2>1. /\ pc \in {"book buy", "book sell"} /\ UNCHANGED <<req, status, filled, hold, taker>>
    BY <1>2, Zenon DEF BookBuyer, BookSeller, BookPosition
  <2>2. pc' \in {"book sell", "advance"}
    BY <1>2, Zenon DEF BookBuyer, BookSeller, Goto
  <2> QED
    BY <2>1, <2>2, HoldsKept DEF Placing, Sweeping, Recorded
<1>3. CASE SaveResting
  <2>1. /\ pc = "save" /\ pc' = "settle" /\ taker # 0 /\ subject # taker
        /\ UNCHANGED <<req, status, filled, hold, taker>>
    BY <1>3 DEF SaveResting, WriteRow, Goto
  <2> QED
    BY <2>1, HoldsKept DEF Placing, Sweeping, Recorded, MakerTurn
<1>4. CASE SavePlaced \/ SaveAndReturn \/ Quiescent
  <2>1. /\ \/ pc = "save" /\ (subject = taker \/ taker = 0)
           \/ pc = "triggers"
        /\ pc' \in {"triggers", "idle"}
        /\ UNCHANGED <<req, status, filled, hold>>
    BY <1>4 DEF SavePlaced, SaveAndReturn, Quiescent, WriteRow, EndCall, Goto
  <2>2. ~Placing /\ ~Placing'
    BY <2>1 DEF Placing, Sweeping, Recorded, MakerTurn
  <2> QED
    BY <2>1, <2>2, HoldsKept
<1>5. CASE SetKillSwitch \/ UNCHANGED vars
  <2>1. UNCHANGED <<req, status, filled, hold, taker, pc, subject>>
    BY <1>5 DEF SetKillSwitch, vars
  <2> QED
    BY <2>1, HoldsKept DEF Placing, Sweeping, Recorded, MakerTurn
<1> QED
  BY <1>1, <1>2, <1>3, <1>4, <1>5

LEMMA HoldsStayFit ==
    ASSUME WellFormed, FillsAreFresh, Orders, HoldsFit, [Next]_vars, ~PayRaises, ~ReserveRaises
    PROVE  HoldsFit'
<1>1. CASE place
  BY <1>1, PlacingKeepsHolds DEF place
<1>2. CASE StartLimit \/ CheckLimit \/ StartMarket
  BY <1>2, ChecksKeepHolds
<1>3. ASSUME NEW i \in OrderId, Activate(i) \/ cancel(i) PROVE HoldsFit'
  BY <1>3, TriggersKeepHolds, CancelingKeepsHolds
<1>4. CASE Advance \/ Finish \/ ReleaseHold \/ ReserveRest
  BY <1>4, AdvancingKeepsHolds, FinishingKeepsHolds, ReleasingKeepsHolds, ReservingKeepsHolds
<1>5. CASE \/ (\E m \in OrderId : MatchOne(m)) \/ MatchDone \/ RecordTrade \/ Pay \/ BookBuyer \/ BookSeller
           \/ SaveResting \/ SavePlaced \/ SaveAndReturn \/ Quiescent \/ SetKillSwitch \/ UNCHANGED vars
  BY <1>5, OtherStepsKeepHolds
<1> QED
  BY <1>1, <1>2, <1>3, <1>4, <1>5 DEF Next, Step

LEMMA NoHolds ==
    ASSUME Init
    PROVE  HoldsFit
<1>1. Used = {} /\ pc = "idle" /\ \A i \in OrderId : hold[i] = NoHold
  BY DEF Init, Used
<1> QED
  BY <1>1 DEF HoldsFit, HoldsAreBuys

-----------------------------------------------------------------------------
(* Cash. *)

\* What the order being placed has yet to pay for its fills.
Unpaid(t) ==
    CostIn(fills, Multiplier[req[t].symbol])
        - IF Paid \/ MakerTurn THEN Value(t, Fill.price, Fill.qty) ELSE 0

\* What it needs beyond what it has set aside: a limit buy holds the cost of all of it, a
\* market buy may spend its budget.
Spend(t) ==
    IF IsLimit(t) THEN Unpaid(t) + Notional(t, left) - Notional(t, req[t].qty)
    ELSE Unpaid(t) + IF pc = "match" THEN budget ELSE 0

\* The accounts whose cash and reservations are out of step with each other: the buyer's
\* between payment and reservation.
Short(a) ==
    \/ Sweeping /\ IsBuy(taker) /\ a = req[taker].account
    \/ Paid /\ ~IsBuy(taker) /\ a = req[Fill.maker].account
    \/ pc \in {"release", "reserve"} /\ a = req[subject].account

CashFits ==
    /\ \A a \in Account : Short(a) \/ available(a) >= 0
    /\ pc = "match" /\ ~IsLimit(taker) /\ IsBuy(taker) => budget >= 0
    /\ \A t \in Used : Sweeping /\ t = taker /\ IsBuy(t) => available(req[t].account) >= Spend(t)
    /\ \A m \in Used : Paid /\ ~IsBuy(taker) /\ m = Fill.maker =>
          available(req[m].account) + Notional(m, Remaining(m)) >= Notional(m, Remaining(m) - Fill.qty)
    /\ \A i \in Used : pc = "release" /\ i = subject =>
          available(req[i].account) + hold[i].amount
             >= IF KeepsHold(i) THEN Notional(i, Remaining(i)) ELSE 0
    /\ \A i \in Used : pc = "reserve" /\ i = subject =>
          available(req[i].account) >= Notional(i, Remaining(i))

LEMMA CashNumbers ==
    ASSUME WellFormed
    PROVE  /\ \A a \in Account : balance[a] \in Int /\ reserved[a] \in Int /\ available(a) \in Int
           /\ \A i \in OrderId : hold[i].amount \in Nat
           /\ DOMAIN hold = OrderId /\ DOMAIN reserved = Account /\ DOMAIN balance = Account
           /\ budget \in Int /\ left \in Int
<1>1. \A i \in OrderId : hold[i] \in Hold \cup {NoHold}
  BY DEF WellFormed, TypeOK
<1>2. \A a \in Account : balance[a] \in Int /\ reserved[a] \in Int
  BY DEF WellFormed, TypeOK
<1> QED
  BY <1>1, <1>2 DEF WellFormed, TypeOK, Hold, NoHold, available

LEMMA HoldNumbersNext == WellFormed' => \A i \in OrderId : (hold[i].amount \in Nat)'
<1>1. WellFormed => \A i \in OrderId : hold[i].amount \in Nat
  BY CashNumbers
<1>2. WellFormed' => (\A i \in OrderId : hold[i].amount \in Nat)'
  BY <1>1, PTL
<1> QED
  BY <1>2

LEMMA AccountsNext == WellFormed' => \A a \in Account : (balance[a] - reserved[a] \in Int)'
<1>1. WellFormed => \A a \in Account : balance[a] - reserved[a] \in Int
  BY DEF WellFormed, TypeOK
<1>2. WellFormed' => (\A a \in Account : balance[a] - reserved[a] \in Int)'
  BY <1>1, PTL
<1> QED
  BY <1>2

LEMMA TicketsNext == WellFormed' => (\A i \in Used : i \in OrderId /\ req[i].account \in Account)'
<1>1. WellFormed => \A i \in Used : i \in OrderId /\ req[i].account \in Account
  BY UsedIsTicket DEF WellFormed, Used
<1>2. WellFormed' => (\A i \in Used : i \in OrderId /\ req[i].account \in Account)'
  BY <1>1, PTL
<1> QED
  BY <1>2

LEMMA TicketNumbers ==
    ASSUME WellFormed, NEW i \in Used
    PROVE  /\ req[i].account \in Account /\ Multiplier[req[i].symbol] \in Nat \ {0}
           /\ req[i].qty \in Int /\ req[i].price \in Int
           /\ \A x \in Int : Notional(i, x) = notional_cents(req[i].price, x, Multiplier[req[i].symbol])
                             /\ Notional(i, x) \in Int
<1>1. /\ req[i].account \in Account /\ Multiplier[req[i].symbol] \in Nat \ {0}
      /\ req[i].qty \in Int /\ req[i].price \in Int
  BY UsedIsTicket, OMSAssumption DEF WellFormed
<1>2. \A x : Notional(i, x) = notional_cents(req[i].price, x, Multiplier[req[i].symbol])
  BY DEF Notional, Value
<1> QED
  BY <1>1, <1>2, CentsInt

\* Between sweeps every account covers what it has set aside.
LEMMA QuietCash ==
    ASSUME \A a \in Account : balance'[a] - reserved'[a] >= 0, ~Sweeping', pc' # "reserve",
           WellFormed', pc' = "release" => ~KeepsHold(subject)'
    PROVE  CashFits'
<1>1. \A i \in Used' : i \in OrderId /\ req'[i].account \in Account
  BY TicketsNext
<1>2. \A i \in OrderId : hold'[i].amount \in Nat
  BY HoldNumbersNext
<1>3. \A a \in Account : balance'[a] - reserved'[a] \in Int
  BY AccountsNext
<1>4. pc' # "match" /\ ~Paid'
  BY DEF Sweeping, Recorded, Paid
<1>5. ASSUME NEW i \in Used', pc' = "release", i = subject' PROVE ~KeepsHold(i)'
  BY <1>5 DEF KeepsHold, Remaining
<1>6. ASSUME NEW i \in Used', pc' = "release", i = subject'
      PROVE  balance'[req'[i].account] - reserved'[req'[i].account] + hold'[i].amount
                >= IF KeepsHold(i)' THEN Notional(i, Remaining(i))' ELSE 0
  <2>1. ~KeepsHold(i)'
    BY <1>5, <1>6
  <2>2. PICK x, y : x = balance'[req'[i].account] - reserved'[req'[i].account] /\ y = hold'[i].amount
    OBVIOUS
  <2>3. x >= 0 /\ x \in Int /\ y \in Nat
    BY <1>1, <1>2, <1>3, <2>2
  <2>4. x + y >= 0
    BY <2>3
  <2> QED
    BY <2>1, <2>2, <2>4
<1> QED
  BY <1>4, <1>6 DEF CashFits, available

\* No account is out of step when there is no sweep and no reservation is being replaced.
LEMMA QuietBefore ==
    ASSUME CashFits, ~Sweeping, pc \notin {"release", "reserve"}
    PROVE  \A a \in Account : balance[a] - reserved[a] >= 0
BY DEF CashFits, Short, Sweeping, Recorded, Paid, available

\* Steps taken between sweeps: nothing is reserved, or a limit buy's cost.
LEMMA QuietStepsKeepCash ==
    ASSUME WellFormed, WellFormed', FillsAreFresh, Orders, HoldsFit, CashFits,
           \/ place \/ SavePlaced \/ SaveAndReturn \/ Quiescent
           \/ \E i \in OrderId : Activate(i) \/ cancel(i)
    PROVE  CashFits'
<1>1. UNCHANGED <<balance, reserved>> /\ pc \in {"idle", "save", "triggers"}
  BY DEF place, PlaceInvalid, PlaceStop, PlaceNow, Register, SavePlaced, SaveAndReturn, Quiescent,
         Activate, cancel, WriteRow, EndCall
<1>2. ~Sweeping
  <2>1. pc = "save" => subject = taker \/ taker = 0
    BY DEF place, PlaceInvalid, PlaceStop, PlaceNow, Register, SavePlaced, SaveAndReturn, Quiescent,
           Activate, cancel, WriteRow, EndCall
  <2> QED
    BY <1>1, <2>1 DEF Sweeping, Recorded, MakerTurn, WellFormed, CallsAreInOrder
<1>3. \A a \in Account : balance'[a] - reserved'[a] >= 0
  BY <1>1, <1>2, QuietBefore
<1>4. CASE place
  <2>1. PICK r \in Request : PlaceInvalid(r) \/ PlaceStop(r) \/ PlaceNow(r)
    BY <1>4 DEF place
  <2>2. taker = 0 /\ nextId \in OrderId
    BY <2>1 DEF PlaceInvalid, PlaceStop, PlaceNow, Register, WellFormed, CallsAreInOrder
  <2>3. \/ pc' = "save" /\ (taker' = 0 \/ subject' = taker')
        \/ pc' = "start"
    BY <2>1, <2>2 DEF PlaceInvalid, PlaceStop, PlaceNow, Conclude, Goto
  <2>4. ~Sweeping' /\ pc' \notin {"release", "reserve"}
    BY <2>3 DEF Sweeping, Recorded, MakerTurn
  <2> QED
    BY <1>3, <2>4, QuietCash
<1>5. CASE SavePlaced \/ SaveAndReturn \/ Quiescent
  <2>1. pc' \in {"idle", "triggers"}
    BY <1>5 DEF SavePlaced, SaveAndReturn, Quiescent, EndCall, Goto
  <2>2. ~Sweeping' /\ pc' \notin {"release", "reserve"}
    BY <2>1 DEF Sweeping, Recorded, MakerTurn
  <2> QED
    BY <1>3, <2>2, QuietCash
<1>6. ASSUME NEW i \in OrderId, Activate(i) PROVE CashFits'
  <2>1. pc' = "start"
    BY <1>6 DEF Activate, Goto
  <2>2. ~Sweeping' /\ pc' \notin {"release", "reserve"}
    BY <2>1 DEF Sweeping, Recorded, MakerTurn
  <2> QED
    BY <1>3, <2>2, QuietCash
<1>7. ASSUME NEW i \in OrderId, cancel(i) PROVE CashFits'
  <2>1. /\ pc = "idle" /\ pc' \in {"release", "save"} /\ taker' = taker /\ subject' = i
        /\ status' = [status EXCEPT ![i] = "canceled"]
    BY <1>7 DEF cancel, Conclude, Goto
  <2>2. taker = 0
    BY <2>1 DEF WellFormed, CallsAreInOrder
  <2>3. ~Sweeping' /\ pc' # "reserve"
    BY <2>1, <2>2 DEF Sweeping, Recorded, MakerTurn
  <2>4. status'[subject'] = "canceled"
    BY <2>1 DEF WellFormed, TypeOK
  <2>5. ~KeepsHold(subject)'
    BY <2>4 DEF KeepsHold, Open
  <2> QED
    BY <1>3, <2>3, <2>5, QuietCash
<1> QED
  BY <1>4, <1>5, <1>6, <1>7

\* The figures of the cash invariant are whole cents.
LEMMA SpendNumbers ==
    ASSUME WellFormed, NEW t \in Used
    PROVE  /\ CostIn(fills, Multiplier[req[t].symbol]) \in Int
           /\ Unpaid(t) \in Int /\ Spend(t) \in Int
           /\ fills # <<>> => /\ Fill.price \in Int /\ Fill.qty \in Int /\ Fill.maker \in OrderId
                              /\ Value(t, Fill.price, Fill.qty) \in Int
                              /\ Value(t, Fill.price, Fill.qty)
                                   = notional_cents(Fill.price, Fill.qty, Multiplier[req[t].symbol])
<1>1. /\ Multiplier[req[t].symbol] \in Nat \ {0} /\ req[t].qty \in Int /\ req[t].price \in Int
      /\ \A x \in Int : Notional(t, x) \in Int
  BY TicketNumbers
<1>2. fills \in Seq(FillRecord) /\ left \in Int /\ budget \in Int
  BY DEF WellFormed, TypeOK
<1>3. CostIn(fills, Multiplier[req[t].symbol]) \in Int
  BY <1>1, <1>2, SumsOfFills
<1>4. ASSUME fills # <<>>
      PROVE  /\ Fill.price \in Int /\ Fill.qty \in Int /\ Fill.maker \in OrderId
             /\ Value(t, Fill.price, Fill.qty) \in Int
             /\ Value(t, Fill.price, Fill.qty)
                  = notional_cents(Fill.price, Fill.qty, Multiplier[req[t].symbol])
  <2>1. Fill \in FillRecord
    BY <1>2, <1>4, TailShifts DEF Fill
  <2>2. Fill.price \in Int /\ Fill.qty \in Int /\ Fill.maker \in OrderId
    BY <2>1 DEF FillRecord
  <2> QED
    BY <1>1, <2>2, CentsInt DEF Value
<1>5. Paid \/ MakerTurn => fills # <<>>
  BY DEF Paid, MakerTurn, WellFormed, CallsAreInOrder
<1>6. Unpaid(t) \in Int
  BY <1>3, <1>4, <1>5 DEF Unpaid
<1>7. Spend(t) \in Int
  <2>1. Notional(t, left) \in Int /\ Notional(t, req[t].qty) \in Int
    BY <1>1, <1>2
  <2> QED
    BY <1>2, <1>6, <2>1 DEF Spend
<1> QED
  BY <1>3, <1>4, <1>6, <1>7

\* Steps of a sweep that move no cash and finish no fill.
LEMMA CashKept ==
    ASSUME CashFits, UNCHANGED <<req, balance, reserved, status, filled, hold, taker, fills, left>>,
           Sweeping' <=> Sweeping, Paid' <=> Paid, MakerTurn' <=> MakerTurn,
           \/ UNCHANGED <<pc, subject, budget>>
           \/ pc \notin {"match", "release", "reserve"} /\ pc' \notin {"match", "release", "reserve"}
    PROVE  CashFits'
<1>1. Used' = Used /\ Fill' = Fill
  BY DEF Used, Fill
<1>2. \A a \in Account : Short(a)' <=> Short(a)
  BY <1>1 DEF Short, IsBuy
<1>3. \A t \in Used : Unpaid(t)' = Unpaid(t)
  BY <1>1 DEF Unpaid, Value
<1>4. \A t \in Used : Spend(t)' = Spend(t)
  BY <1>3 DEF Spend, IsLimit, Notional, Value
<1>5. \A i \in Used : Remaining(i)' = Remaining(i) /\ (KeepsHold(i)' <=> KeepsHold(i))
  BY DEF Remaining, KeepsHold
<1>7. /\ \A a \in Account : Short(a)' \/ balance'[a] - reserved'[a] >= 0
      /\ pc' = "match" /\ ~IsLimit(taker') /\ IsBuy(taker') => budget' >= 0
  BY <1>2 DEF CashFits, available, IsLimit, IsBuy
<1> QED
  BY <1>1, <1>2, <1>4, <1>5 DEF CashFits, available, Notional, Value, IsLimit, IsBuy

LEMMA FrameStepsKeepCash ==
    ASSUME WellFormed, CashFits,
           RecordTrade \/ BookBuyer \/ BookSeller \/ SetKillSwitch \/ UNCHANGED vars
    PROVE  CashFits'
<1>1. CASE RecordTrade
  <2>1. /\ pc = "settle" /\ pc' = "pay"
        /\ UNCHANGED <<req, balance, reserved, status, filled, hold, taker, fills, left, subject, budget>>
    BY <1>1 DEF RecordTrade, Goto
  <2> QED
    BY <2>1, CashKept DEF Sweeping, Recorded, Paid, MakerTurn
<1>2. CASE BookBuyer \/ BookSeller
  <2>1. /\ pc \in {"book buy", "book sell"}
        /\ UNCHANGED <<req, balance, reserved, status, filled, hold, taker, fills, left, subject, budget>>
    BY <1>2, Zenon DEF BookBuyer, BookSeller, BookPosition
  <2>2. pc' \in {"book sell", "advance"}
    BY <1>2, Zenon DEF BookBuyer, BookSeller, Goto
  <2> QED
    BY <2>1, <2>2, CashKept DEF Sweeping, Recorded, Paid, MakerTurn
<1>3. CASE SetKillSwitch \/ UNCHANGED vars
  <2>1. UNCHANGED <<req, balance, reserved, status, filled, hold, taker, fills, left, subject, budget, pc>>
    BY <1>3 DEF SetKillSwitch, vars
  <2> QED
    BY <2>1, CashKept DEF Sweeping, Recorded, Paid, MakerTurn
<1> QED
  BY <1>1, <1>2, <1>3

\* Before the sweep: a limit buy reserves what it has, a market buy's budget is what is there.
LEMMA ChecksKeepCash ==
    ASSUME WellFormed, WellFormed', FillsAreFresh, Orders, CashFits, StartLimit \/ CheckLimit \/ StartMarket
    PROVE  CashFits'
<1>1. PICK t : t = taker
  OBVIOUS
<1>2. /\ pc \in {"start", "risk"} /\ taker' = t /\ UNCHANGED <<req, filled, fills>>
      /\ pc' \in {"risk", "match", "release", "save"}
      /\ pc' = "match" => left' = req[t].qty
      /\ pc' \in {"release", "save"} =>
            /\ subject' = t
            /\ \E st \in {"rejected", "canceled"} : status' = [status EXCEPT ![t] = st]
  BY <1>1, ChecksEnd
<1>3. t \in Used /\ t \in OrderId /\ fills = <<>> /\ ~Sweeping
  BY <1>1, <1>2 DEF WellFormed, CallsAreInOrder, Used, FillsAreFresh, Sweeping, Recorded, MakerTurn
<1>4. \A a \in Account : balance[a] - reserved[a] >= 0
  BY <1>2, <1>3, QuietBefore
<1>5. \A a \in Account : balance'[a] - reserved'[a] >= 0
  <2>1. PICK n : n = Notional(t, req[t].qty)
    OBVIOUS
  <2>2. CASE UNCHANGED <<balance, reserved>>
    BY <1>4, <2>2
  <2>3. CASE ~UNCHANGED <<balance, reserved>>
    <3>1. CanReserve(t, n) /\ Reserve(t, n) /\ UNCHANGED balance
      BY <1>1, <2>1, <2>3 DEF StartLimit, CheckLimit, StartMarket
    <3>2. PICK A : A = req[t].account
      OBVIOUS
    <3>3. balance[A] - reserved[A] >= n /\ reserved' = [reserved EXCEPT ![A] = reserved[A] + n]
      BY <3>1, <3>2 DEF CanReserve, Reserve, available
    <3>4. A \in Account /\ n \in Int
      BY <1>3, <2>1, <3>2, TicketNumbers
    <3>5. reserved \in [Account -> Int] /\ balance \in [Account -> Int]
      BY DEF WellFormed, TypeOK
    <3> QED
      BY <1>4, <3>1, <3>3, <3>4, <3>5
  <2> QED
    BY <2>2, <2>3
<1>6. CASE pc' # "match"
  <2>1. ~Sweeping' /\ pc' # "reserve"
    BY <1>2, <1>6 DEF Sweeping, Recorded, MakerTurn
  <2>2. pc' = "release" => ~KeepsHold(subject)'
    <3>1. ASSUME pc' = "release" PROVE status'[subject'] \notin Open
      <4>1. PICK st \in {"rejected", "canceled"} : status' = [status EXCEPT ![t] = st]
        BY <1>2, <3>1
      <4> QED
        BY <1>2, <1>3, <3>1, <4>1 DEF WellFormed, TypeOK, Open
    <3> QED
      BY <3>1 DEF KeepsHold
  <2> QED
    BY <1>5, <2>1, <2>2, QuietCash
<1>7. CASE pc' = "match"
  <2>1. /\ Used' = Used /\ ~Paid' /\ ~MakerTurn' /\ left' = req[t].qty
        /\ UNCHANGED <<balance, reserved>>
        /\ ~IsLimit(t) /\ IsBuy(t) => budget' = balance[req[t].account] - reserved[req[t].account]
    <3>1. CheckLimit \/ StartMarket
      BY <1>7 DEF StartLimit, Goto
    <3>2. CASE StartMarket
      BY <1>1, <1>2, <1>7, <3>2 DEF StartMarket, available, Goto, Used, Paid, MakerTurn
    <3>3. CASE CheckLimit
      <4>1. pc = "risk" /\ UNCHANGED <<balance, reserved>>
        BY <3>3 DEF CheckLimit
      <4>2. IsLimit(t)
        BY <1>1, <4>1 DEF Orders, Taking, Placing
      <4> QED
        BY <1>1, <1>2, <1>7, <4>1, <4>2 DEF Used, Paid, MakerTurn
    <3> QED
      BY <3>1, <3>2, <3>3
  <2>2. Spend(t)' <= balance'[req[t].account] - reserved'[req[t].account] \/ ~IsBuy(t)
    <3>1. PICK mult, price, qty : mult = Multiplier[req[t].symbol] /\ price = req[t].price /\ qty = req[t].qty
      OBVIOUS
    <3>2. Unpaid(t)' = 0
      <4>1. CostIn(<<>>, mult) = 0
        BY NoFillsNoSums
      <4> QED
        BY <1>2, <1>3, <2>1, <3>1, <4>1 DEF Unpaid
    <3>3. CASE IsLimit(t)
      <4>1. Notional(t, left)' - Notional(t, req[t].qty)' = 0
        <5>1. notional_cents(price, qty, mult) \in Int
          BY <1>3, <3>1, TicketNumbers, CentsInt
        <5>2. Notional(t, left)' = notional_cents(price, qty, mult)
              /\ Notional(t, req[t].qty)' = notional_cents(price, qty, mult)
          BY <1>2, <2>1, <3>1 DEF Notional, Value
        <5> QED
          BY <5>1, <5>2
      <4>2. Notional(t, left)' \in Int /\ Notional(t, req[t].qty)' \in Int
        <5>1. notional_cents(price, qty, mult) \in Int
          BY <1>3, <3>1, TicketNumbers, CentsInt
        <5> QED
          BY <1>2, <2>1, <3>1, <5>1 DEF Notional, Value
      <4>3. Spend(t)' = 0
        BY <1>2, <3>2, <3>3, <4>1, <4>2 DEF Spend, IsLimit
      <4>4. req[t].account \in Account
        BY <1>3, TicketNumbers
      <4> QED
        BY <1>5, <4>3, <4>4
    <3>4. CASE ~IsLimit(t) /\ IsBuy(t)
      <4>1. Spend(t)' = 0 + budget'
        BY <1>2, <1>7, <3>2, <3>4 DEF Spend, IsLimit
      <4>2. budget' = balance[req[t].account] - reserved[req[t].account]
        BY <2>1, <3>4
      <4>3. balance[req[t].account] - reserved[req[t].account] \in Int
        BY <1>3, TicketNumbers, CashNumbers
      <4> QED
        BY <2>1, <4>1, <4>2, <4>3
    <3> QED
      BY <3>3, <3>4
  <2>3. ~IsLimit(t) /\ IsBuy(t) => budget' >= 0
    BY <1>3, <1>4, <2>1, TicketNumbers
  <2> QED
    BY <1>2, <1>5, <1>7, <2>1, <2>2, <2>3 DEF CashFits, available, IsLimit, IsBuy
<1> QED
  BY <1>6, <1>7

\* A fill costs a limit buy no more than it set aside for it, and a market buy no more than
\* its budget.
LEMMA MatchingKeepsCash ==
    ASSUME WellFormed, FillsAreFresh, Orders, CashFits, NEW m \in OrderId, MatchOne(m)
    PROVE  CashFits'
<1>1. PICK q, e, t, fs : q = MatchQty(m) /\ e = [maker |-> m, price |-> req[m].price, qty |-> q]
                         /\ t = taker /\ fs = fills
  OBVIOUS
<1>2. /\ pc = "match" /\ pc' = "match" /\ fills' = Append(fs, e) /\ left' = left - q
      /\ budget' = IF IsLimit(t) \/ ~IsBuy(t) THEN budget ELSE budget - Value(t, req[m].price, q)
      /\ UNCHANGED <<req, status, filled, balance, reserved, taker, subject>>
  BY <1>1 DEF MatchOne
<1>3. Reaches(t, m)
  BY <1>1 DEF MatchOne, IsNext
<1>4. /\ q \in Nat \ {0} /\ q <= left /\ m \in Used /\ t \in Used /\ m # t /\ req[m].price > 0
      /\ ~IsLimit(t) /\ IsBuy(t) =>
            q <= (budget * QuantityScale) \div (req[m].price * Multiplier[req[t].symbol])
  BY <1>1, MatchTakesWhatIsLeft
<1>5. Sweeping /\ Sweeping' /\ ~Paid /\ ~Paid' /\ ~MakerTurn /\ ~MakerTurn' /\ Used' = Used
  BY <1>2 DEF Sweeping, Paid, MakerTurn, Used
<1>6. PICK mult, own, low, v : /\ mult = Multiplier[req[t].symbol] /\ own = req[t].price
                               /\ low = req[m].price /\ v = notional_cents(low, q, mult)
  OBVIOUS
<1>7. mult \in Nat \ {0} /\ own \in Int /\ low \in Nat \ {0} /\ v \in Int
  <2>1. mult \in Nat \ {0} /\ own \in Int /\ low \in Nat \ {0}
    BY <1>4, <1>6, TicketNumbers
  <2> QED
    BY <1>4, <1>6, <2>1, CentsInt
<1>8. CostIn(fills', mult) = CostIn(fs, mult) + v /\ CostIn(fs, mult) \in Int
  <2>1. fs \in Seq(FillRecord) /\ 0 \in Nat
    BY <1>1 DEF WellFormed, TypeOK
  <2>2. e \in FillRecord /\ e.price = low /\ e.qty = q
    BY <1>1, <1>4, <1>6, <1>7, UsedIsTicket DEF FillRecord, WellFormed, Used
  <2>3. CostIn(Append(fs, e), mult) = CostIn(fs, mult) + notional_cents(e.price, e.qty, mult)
    BY <1>7, <2>1, <2>2, FillsAppended
  <2>4. CostIn(fs, mult) \in Int
    BY <1>7, <2>1, SumsOfFills
  <2> QED
    BY <1>2, <1>6, <2>2, <2>3, <2>4
<1>9. Unpaid(t) = CostIn(fs, mult) /\ Unpaid(t)' = CostIn(fs, mult) + v
  BY <1>1, <1>2, <1>5, <1>6, <1>7, <1>8 DEF Unpaid
<1>10. left \in Int /\ budget \in Int /\ left' = left - q
  BY <1>2 DEF WellFormed, TypeOK
<1>11. IsBuy(t) => Spend(t)' <= Spend(t) /\ Spend(t)' \in Int /\ Spend(t) \in Int
  <2>1. CASE IsLimit(t) /\ IsBuy(t)
    <3>1. own \in Nat /\ low <= own
      <4>1. low <= own
        BY <1>3, <1>6, <2>1 DEF Reaches
      <4> QED
        BY <1>7, <4>1
    <3>2. PICK z : z = left - q
      OBVIOUS
    <3>3. z \in Nat /\ q + z = left
      BY <1>4, <1>10, <3>2
    <3>4. notional_cents(low, q, mult) + notional_cents(own, z, mult) <= notional_cents(own, q + z, mult)
      BY <1>4, <1>7, <3>1, <3>3, PartsCostNoMore
    <3>5. PICK a, b, c : a = notional_cents(own, z, mult) /\ b = notional_cents(own, left, mult)
                         /\ c = notional_cents(own, req[t].qty, mult)
      OBVIOUS
    <3>6. a \in Int /\ b \in Int /\ c \in Int
      <4>1. req[t].qty \in Int
        BY <1>4, TicketNumbers
      <4> QED
        BY <1>7, <1>10, <3>3, <3>5, <4>1, CentsInt
    <3>7. v + a <= b
      BY <1>6, <3>3, <3>4, <3>5
    <3>8. Spend(t) = CostIn(fs, mult) + b - c
      BY <1>6, <1>9, <2>1, <3>5 DEF Spend, Notional, Value
    <3>9. Spend(t)' = CostIn(fs, mult) + v + a - c
      <4>1. IsLimit(t)' /\ left' = z
        BY <1>2, <2>1, <3>2 DEF IsLimit
      <4>2. Notional(t, left)' = a /\ Notional(t, req[t].qty)' = c
        BY <1>2, <1>6, <3>5, <4>1 DEF Notional, Value
      <4> QED
        BY <1>9, <4>1, <4>2 DEF Spend
    <3> QED
      BY <1>7, <1>8, <3>6, <3>7, <3>8, <3>9
  <2>2. CASE ~IsLimit(t) /\ IsBuy(t)
    <3>1. Spend(t) = CostIn(fs, mult) + budget
      BY <1>2, <1>9, <2>2 DEF Spend
    <3>2. budget' = budget - v
      BY <1>2, <1>6, <2>2 DEF Value
    <3>3. Spend(t)' = CostIn(fs, mult) + v + budget'
      BY <1>2, <1>9, <2>2 DEF Spend, IsLimit
    <3> QED
      BY <1>7, <1>8, <1>10, <3>1, <3>2, <3>3
  <2> QED
    BY <2>1, <2>2
<1>12. ~IsLimit(t) /\ IsBuy(t) => budget' >= 0
  <2> SUFFICES ASSUME ~IsLimit(t), IsBuy(t) PROVE budget' >= 0
    OBVIOUS
  <2>1. budget \in Nat
    BY <1>1, <1>2, <1>10 DEF CashFits
  <2>2. q <= (budget * QuantityScale) \div (low * mult) /\ q \in Nat
    BY <1>4, <1>6
  <2>3. notional_cents(low, q, mult) <= budget
    BY <1>7, <2>1, <2>2, AffordableIsCovered
  <2>4. budget' = budget - v
    BY <1>2, <1>6 DEF Value
  <2> QED
    BY <1>6, <1>7, <1>10, <2>3, <2>4
<1>13. IsBuy(t) => balance[req[t].account] - reserved[req[t].account] >= Spend(t)'
  <2> SUFFICES ASSUME IsBuy(t) PROVE balance[req[t].account] - reserved[req[t].account] >= Spend(t)'
    OBVIOUS
  <2>1. available(req[t].account) >= Spend(t)
    BY <1>1, <1>4, <1>5 DEF CashFits
  <2>2. available(req[t].account) \in Int
    BY <1>4, TicketNumbers, CashNumbers
  <2>3. available(req[t].account) >= Spend(t)'
    BY <1>11, <2>1, <2>2
  <2> QED
    BY <2>3 DEF available
<1>14. \A a \in Account : Short(a)' \/ balance[a] - reserved[a] >= 0
  <2>1. \A a \in Account : Short(a) => Short(a)'
    BY <1>1, <1>2, <1>5 DEF Short, IsBuy
  <2> QED
    BY <2>1 DEF CashFits, available
<1> QED
  BY <1>1, <1>2, <1>5, <1>12, <1>13, <1>14 DEF CashFits, available, IsLimit, IsBuy

\* What a market buy did not spend is no longer set apart.
LEMMA RestingKeepsCash ==
    ASSUME WellFormed, FillsAreFresh, Orders, CashFits, MatchDone
    PROVE  CashFits'
<1>1. PICK t : t = taker
  OBVIOUS
<1>2. /\ pc = "match" /\ pc' = "settle"
      /\ UNCHANGED <<req, status, filled, balance, reserved, fills, left, budget, taker, subject>>
  BY DEF MatchDone, Goto
<1>3. /\ Sweeping /\ Sweeping' /\ ~Paid /\ ~Paid' /\ ~MakerTurn /\ ~MakerTurn' /\ Used' = Used
      /\ t \in Used
  BY <1>1, <1>2 DEF Sweeping, Recorded, Paid, MakerTurn, Used, WellFormed, CallsAreInOrder
<1>4. Unpaid(t)' = Unpaid(t) /\ Unpaid(t) \in Int /\ Spend(t) \in Int /\ budget \in Int
  BY <1>2, <1>3, SpendNumbers, CashNumbers DEF Unpaid
<1>5. IsBuy(t) => Spend(t)' <= Spend(t)
  <2>1. CASE IsLimit(t)
    <3>1. Spend(t)' = Spend(t)
      BY <1>2, <1>4, <2>1 DEF Spend, IsLimit, Notional, Value
    <3> QED
      BY <1>4, <3>1
  <2>2. CASE ~IsLimit(t) /\ IsBuy(t)
    <3>1. budget >= 0
      BY <1>1, <1>2, <2>2 DEF CashFits
    <3>2. Spend(t)' = Unpaid(t) + 0 /\ Spend(t) = Unpaid(t) + budget
      BY <1>2, <1>4, <2>2 DEF Spend, IsLimit
    <3> QED
      BY <1>4, <3>1, <3>2
  <2> QED
    BY <2>1, <2>2
<1>6. IsBuy(t) => balance[req[t].account] - reserved[req[t].account] >= Spend(t)'
  <2> SUFFICES ASSUME IsBuy(t) PROVE balance[req[t].account] - reserved[req[t].account] >= Spend(t)'
    OBVIOUS
  <2>1. available(req[t].account) >= Spend(t)
    BY <1>1, <1>3 DEF CashFits
  <2>2. available(req[t].account) \in Int
    BY <1>3, TicketNumbers, CashNumbers
  <2>3. Spend(t)' \in Int
    <3>1. Notional(t, left) \in Int /\ Notional(t, req[t].qty) \in Int
      BY <1>3, TicketNumbers, CashNumbers
    <3>2. Notional(t, left)' = Notional(t, left) /\ Notional(t, req[t].qty)' = Notional(t, req[t].qty)
      BY <1>2 DEF Notional, Value
    <3> QED
      BY <1>2, <1>4, <3>1, <3>2 DEF Spend
  <2>4. available(req[t].account) >= Spend(t)'
    BY <1>4, <1>5, <2>1, <2>2, <2>3
  <2> QED
    BY <2>4 DEF available
<1>7. \A a \in Account : Short(a)' \/ balance[a] - reserved[a] >= 0
  <2>1. \A a \in Account : Short(a) => Short(a)'
    BY <1>1, <1>2, <1>3 DEF Short, IsBuy
  <2> QED
    BY <2>1 DEF CashFits, available
<1> QED
  BY <1>1, <1>2, <1>3, <1>6, <1>7 DEF CashFits, available, IsLimit, IsBuy

\* Cash changes hands: the buyer's set aside cost covers it.
LEMMA PayingKeepsCash ==
    ASSUME WellFormed, FillsAreFresh, Orders, CashFits, PositionsFit, Pay
    PROVE  CashFits'
<1>1. PICK t, m, q, p, c : /\ t = taker /\ m = Fill.maker /\ q = Fill.qty /\ p = Fill.price
                           /\ c = Value(t, p, q)
  OBVIOUS
<1>2. /\ pc = "pay" /\ pc' = "book buy" /\ c > 0
      /\ UNCHANGED <<req, status, filled, reserved, fills, left, budget, taker, subject>>
      /\ Transfer(req[BuyOrder].account, req[SellOrder].account, c)
  BY <1>1 DEF Pay, Goto
<1>3. /\ Recorded /\ ~Paid /\ Paid' /\ ~MakerTurn /\ ~MakerTurn' /\ Sweeping /\ Sweeping' /\ Placing
      /\ Used' = Used /\ Fill' = Fill
  BY <1>2 DEF MakerTurn, Recorded, Paid, Sweeping, Placing, Used, Fill
<1>4. fills # <<>>
  BY <1>2 DEF WellFormed, CallsAreInOrder
<1>5. /\ t \in Used /\ m \in Used /\ m # t /\ q \in Nat \ {0} /\ p = req[m].price /\ p > 0
      /\ req[m].symbol = req[t].symbol /\ Remaining(m) >= q
  BY <1>1, <1>3, <1>4, HeadFill, MakerIsWorking
<1>6. PICK A, B, mult : A = req[t].account /\ B = req[m].account /\ mult = Multiplier[req[t].symbol]
  OBVIOUS
<1>7. A \in Account /\ B \in Account /\ mult \in Nat \ {0} /\ p \in Nat /\ c \in Int
      /\ c = notional_cents(p, q, mult)
  <2>1. A \in Account /\ B \in Account /\ mult \in Nat \ {0} /\ p \in Nat
    BY <1>5, <1>6, TicketNumbers
  <2> QED
    BY <1>1, <1>5, <1>6, <2>1, CentsInt DEF Value
<1>8. Len(tape) \notin posted
  BY <1>3 DEF PositionsFit, LastIsInHand
<1>9. PICK from, to : from = req[BuyOrder].account /\ to = req[SellOrder].account
  OBVIOUS
<1>10. /\ IsBuy(t) => from = A /\ to = B
       /\ ~IsBuy(t) => from = B /\ to = A
  BY <1>1, <1>6, <1>9 DEF BuyOrder, SellOrder
<1>11. /\ \A a \in Account : a # from => balance'[a] >= balance[a]
       /\ balance'[from] >= balance[from] - c
       /\ \A a \in Account : balance'[a] \in Int
  <2>1. balance' = [a \in Account |-> balance[a] - (IF a = from THEN c ELSE 0) + (IF a = to THEN c ELSE 0)]
    BY <1>2, <1>8, <1>9 DEF Transfer, TxnId
  <2>2. \A a \in Account : balance[a] \in Int
    BY DEF WellFormed, TypeOK
  <2>3. from \in Account
    BY <1>7, <1>10
  <2>4. \A a \in Account : balance'[a] = balance[a] - (IF a = from THEN c ELSE 0) + (IF a = to THEN c ELSE 0)
    BY <2>1
  <2>5. c \in Nat
    <3>1. c > 0
      BY <1>2, Zenon
    <3>2. c \in Int
      BY <1>7
    <3> QED
      BY <3>1, <3>2
  <2> QED
    BY <2>2, <2>3, <2>4, <2>5
<1>12. \A a \in Account : reserved[a] \in Int /\ balance[a] \in Int
  BY CashNumbers
<1>13. CASE IsBuy(t)
  <2>1. \A a \in Account : a = A \/ balance[a] - reserved[a] >= 0
    BY <1>1, <1>2, <1>3, <1>6, <1>13 DEF CashFits, Short, available
  <2>2. \A a \in Account : a = A \/ balance'[a] - reserved[a] >= 0
    BY <1>10, <1>11, <1>12, <1>13, <2>1
  <2>3. balance[A] - reserved[A] >= Spend(t)
    BY <1>1, <1>3, <1>5, <1>6, <1>13 DEF CashFits, available
  <2>4. Spend(t)' = Spend(t) - c
    <3>1. CostIn(fills, mult) \in Int /\ Unpaid(t) \in Int /\ Spend(t) \in Int
      BY <1>5, <1>6, SpendNumbers
    <3>2. Unpaid(t) = CostIn(fills, mult) - 0 /\ Unpaid(t)' = CostIn(fills, mult) - c
      BY <1>1, <1>2, <1>3, <1>6 DEF Unpaid, Value
    <3>3. Unpaid(t)' = Unpaid(t) - c
      BY <1>7, <3>1, <3>2
    <3>4. CASE IsLimit(t)
      <4>1. PICK x, y : x = Notional(t, left) /\ y = Notional(t, req[t].qty)
        OBVIOUS
      <4>2. x \in Int /\ y \in Int
        BY <1>5, <4>1, TicketNumbers, CashNumbers
      <4>3. Spend(t) = Unpaid(t) + x - y /\ Spend(t)' = Unpaid(t)' + x - y
        BY <1>2, <3>4, <4>1 DEF Spend, IsLimit, Notional, Value
      <4> QED
        BY <1>7, <3>1, <3>3, <4>2, <4>3
    <3>5. CASE ~IsLimit(t)
      <4>1. Spend(t) = Unpaid(t) + 0 /\ Spend(t)' = Unpaid(t)' + 0
        BY <1>2, <3>5 DEF Spend, IsLimit
      <4> QED
        BY <1>7, <3>1, <3>3, <4>1
    <3> QED
      BY <3>4, <3>5
  <2>5. balance'[A] - reserved[A] >= Spend(t)'
    <3>1. Spend(t) \in Int
      BY <1>5, SpendNumbers
    <3> QED
      BY <1>7, <1>10, <1>11, <1>12, <1>13, <2>3, <2>4, <3>1
  <2>6. \A a \in Account : a = A => Short(a)'
    BY <1>1, <1>2, <1>3, <1>6, <1>13 DEF Short, IsBuy
  <2>7. \A a \in Account : Short(a)' \/ balance'[a] - reserved'[a] >= 0
    BY <1>2, <2>2, <2>6
  <2> QED
    BY <1>1, <1>2, <1>3, <1>6, <1>13, <2>5, <2>7 DEF CashFits, available, IsBuy
<1>14. CASE ~IsBuy(t)
  <2>1. \A a \in Account : balance[a] - reserved[a] >= 0
    BY <1>1, <1>2, <1>3, <1>14 DEF CashFits, Short, available
  <2>2. \A a \in Account : a = B \/ balance'[a] - reserved[a] >= 0
    BY <1>10, <1>11, <1>12, <1>14, <2>1
  <2>3. \A a \in Account : a = B => Short(a)'
    BY <1>1, <1>2, <1>3, <1>6, <1>14 DEF Short, IsBuy
  <2>4. \A a \in Account : Short(a)' \/ balance'[a] - reserved'[a] >= 0
    BY <1>2, <2>2, <2>3
  <2>5. PICK r, z : r = Remaining(m) /\ z = r - q
    OBVIOUS
  <2>6. z \in Nat /\ q + z = r /\ r \in Int
    BY <1>5, <2>5, OrderNumbers
  <2>7. c + notional_cents(p, z, mult) <= notional_cents(p, r, mult)
    <3>1. notional_cents(p, q, mult) + notional_cents(p, z, mult) <= notional_cents(p, q + z, mult)
      <4>1. p <= p /\ q \in Nat /\ mult \in Nat
        BY <1>5, <1>7
      <4> QED
        BY <1>7, <2>6, <4>1, PartsCostNoMore
    <3> QED
      BY <1>7, <2>6, <3>1
  <2>8. PICK x, y : x = notional_cents(p, z, mult) /\ y = notional_cents(p, r, mult)
    OBVIOUS
  <2>9. x \in Int /\ y \in Int
    BY <1>7, <2>6, <2>8, CentsInt
  <2>10. balance'[B] - reserved[B] + y >= x
    <3>1. balance'[B] >= balance[B] - c /\ balance[B] - reserved[B] >= 0
      BY <1>7, <1>10, <1>11, <1>14, <2>1
    <3> QED
      BY <1>7, <1>11, <1>12, <2>7, <2>8, <2>9, <3>1
  <2>11. Remaining(m)' = r /\ Notional(m, Remaining(m))' = y /\ Notional(m, Remaining(m) - Fill.qty)' = x
    <3>1. Remaining(m)' = r
      BY <1>2, <2>5 DEF Remaining
    <3> QED
      BY <1>1, <1>2, <1>3, <1>5, <1>6, <2>5, <2>8, <3>1 DEF Notional, Value
  <2> QED
    BY <1>1, <1>2, <1>3, <1>6, <1>14, <2>4, <2>10, <2>11 DEF CashFits, available, IsBuy
<1> QED
  BY <1>13, <1>14

\* The resting order's reservation covers what is left of it and the fill it paid.
LEMMA AdvancingKeepsCash ==
    ASSUME WellFormed, FillsAreFresh, Orders, HoldsFit, CashFits, Advance
    PROVE  CashFits'
<1>1. PICK t, m, q : t = taker /\ m = Fill.maker /\ q = Fill.qty
  OBVIOUS
<1>2. /\ pc = "advance" /\ subject' = m /\ pc' = (IF IsBuy(m) THEN "release" ELSE "save")
      /\ UNCHANGED <<req, balance, reserved, hold, fills, left, taker, budget>>
      /\ filled' = [filled EXCEPT ![m] = Advanced(m)]
  BY <1>1 DEF Advance, Conclude, Goto
<1>3. /\ Recorded /\ Paid /\ ~Paid' /\ ~MakerTurn /\ Sweeping /\ Placing /\ Used' = Used /\ Fill' = Fill
  BY <1>2 DEF MakerTurn, Recorded, Paid, Sweeping, Placing, Used, Fill
<1>4. fills # <<>> /\ taker # 0
  BY <1>2 DEF WellFormed, CallsAreInOrder
<1>5. /\ t \in Used /\ m \in Used /\ m \in OrderId /\ m # t /\ q \in Nat \ {0}
      /\ req[m].price > 0 /\ req[m].side # req[t].side
      /\ Working(m) /\ Remaining(m) >= q /\ Advanced(m) = filled[m] + q
  BY <1>1, <1>3, <1>4, HeadFill, MakerIsWorking, AdvancedIsMore
<1>6. MakerTurn' /\ Sweeping'
  BY <1>1, <1>2, <1>4, <1>5 DEF MakerTurn, Sweeping
<1>7. CASE IsBuy(t)
  <2>1. ~IsBuy(m)
    BY <1>5, <1>7 DEF IsBuy
  <2>2. pc' = "save"
    BY <1>2, <2>1
  <2>3. Spend(t)' = Spend(t)
    BY <1>2, <1>3, <1>6, <2>2 DEF Spend, Unpaid, IsLimit, Notional, Value
  <2>4. \A a \in Account : Short(a) => Short(a)'
    BY <1>1, <1>2, <1>3, <1>6, <1>7 DEF Short, IsBuy
  <2>5. balance[req[t].account] - reserved[req[t].account] >= Spend(t)
    BY <1>1, <1>3, <1>5, <1>7 DEF CashFits, available
  <2> QED
    BY <1>1, <1>2, <1>3, <1>5, <1>7, <2>2, <2>3, <2>4, <2>5 DEF CashFits, available, IsBuy
<1>8. CASE ~IsBuy(t)
  <2>1. PICK B, r, z : B = req[m].account /\ r = Remaining(m) /\ z = r - q
    OBVIOUS
  <2>2. PICK mult, p : mult = Multiplier[req[m].symbol] /\ p = req[m].price
    OBVIOUS
  <2>3. B \in Account /\ mult \in Nat /\ p \in Nat /\ z \in Nat /\ r \in Int
    <3>1. B \in Account /\ mult \in Nat \ {0} /\ p \in Int /\ r \in Int
      BY <1>5, <2>1, <2>2, TicketNumbers, OrderNumbers
    <3> QED
      BY <1>5, <2>1, <2>2, <3>1
  <2>4. PICK x, y : x = notional_cents(p, z, mult) /\ y = notional_cents(p, r, mult)
    OBVIOUS
  <2>5. x \in Nat /\ y \in Int
    <3>1. notional_cents(p, z, mult) \in Nat
      BY <2>3, CentsNatural
    <3>2. notional_cents(p, r, mult) \in Int
      BY <2>3, CentsInt
    <3> QED
      BY <2>4, <3>1, <3>2
  <2>6. balance[B] - reserved[B] + y >= x
    <3>1. available(req[m].account) + Notional(m, Remaining(m)) >= Notional(m, Remaining(m) - Fill.qty)
      BY <1>1, <1>3, <1>5, <1>8 DEF CashFits
    <3> QED
      BY <1>1, <2>1, <2>2, <2>4, <3>1 DEF available, Notional, Value
  <2>7. IsBuy(m) => hold[m].amount = y
    <3>1. Standard(m)
      BY <1>1, <1>2, <1>5 DEF HoldsFit, Held
    <3> QED
      BY <1>5, <2>1, <2>2, <2>4, <3>1 DEF Standard, Notional, Value
  <2>8. Remaining(m)' = z
    <3>1. filled'[m] = filled[m] + q
      BY <1>2, <1>5 DEF WellFormed, TypeOK
    <3>2. filled[m] \in Int /\ req[m].qty \in Int /\ r = req[m].qty - filled[m]
      BY <1>5, <2>1, OrderNumbers
    <3> QED
      BY <1>2, <1>5, <2>1, <3>1, <3>2 DEF Remaining
  <2>9. Notional(m, Remaining(m))' = x
    BY <1>2, <2>2, <2>4, <2>8 DEF Notional, Value
  <2>10. CASE IsBuy(m)
    <3>1. pc' = "release"
      BY <1>2, <2>10
    <3>2. \A a \in Account : Short(a) => Short(a)'
      BY <1>1, <1>2, <1>3, <1>8, <3>1 DEF Short
    <3>3. balance[B] - reserved[B] + hold[m].amount >= IF KeepsHold(m)' THEN x ELSE 0
      <4>1. balance[B] - reserved[B] \in Int
        BY <2>3, CashNumbers
      <4> QED
        BY <2>5, <2>6, <2>7, <2>10, <4>1
    <3> QED
      BY <1>1, <1>2, <1>3, <1>8, <2>1, <2>9, <3>1, <3>2, <3>3 DEF CashFits, available, IsBuy
  <2>11. CASE ~IsBuy(m)
    <3>1. IsBuy(m) \/ IsBuy(t)
      BY <1>5, UsedIsTicket, OMSAssumption DEF WellFormed, IsBuy, Side
    <3> QED
      BY <1>8, <2>11, <3>1
  <2> QED
    BY <2>10, <2>11
<1> QED
  BY <1>7, <1>8

\* What was not swept is all a limit buy still needs.
LEMMA FinishingKeepsCash ==
    ASSUME WellFormed, WellFormed', FillsAreFresh, Orders, HoldsFit, CashFits, Finish
    PROVE  CashFits'
<1>1. PICK t : t = taker
  OBVIOUS
<1>2. /\ pc = "settle" /\ fills = <<>> /\ subject' = t /\ taker' = t
      /\ pc' = (IF IsBuy(t) /\ IsLimit(t) THEN "release" ELSE "save")
      /\ UNCHANGED <<req, balance, reserved, hold>>
      /\ filled' = [filled EXCEPT ![t] = req[t].qty - left]
  BY <1>1 DEF Finish, Conclude, ThenWrite, Goto
<1>3. /\ Sweeping /\ ~Sweeping' /\ ~Paid /\ ~Paid' /\ ~MakerTurn /\ Used' = Used
      /\ t \in Used /\ t \in OrderId
  BY <1>1, <1>2 DEF Sweeping, Recorded, Paid, MakerTurn, Used, WellFormed, CallsAreInOrder
<1>4. \A a \in Account : (IsBuy(t) /\ a = req[t].account) \/ balance[a] - reserved[a] >= 0
  BY <1>1, <1>2, <1>3 DEF CashFits, Short, available
<1>5. PICK A, mult, p, n : A = req[t].account /\ mult = Multiplier[req[t].symbol] /\ p = req[t].price
                           /\ n = req[t].qty
  OBVIOUS
<1>6. A \in Account /\ mult \in Nat \ {0} /\ p \in Int /\ n \in Int /\ left \in Nat
      /\ (IsLimit(t) => p > 0)
  <2>1. left >= 0 /\ (IsLimit(t) => p > 0)
    BY <1>1, <1>3, <1>5 DEF Orders, Placing, Taking
  <2>2. left \in Int
    BY CashNumbers
  <2> QED
    BY <1>3, <1>5, <2>1, <2>2, TicketNumbers
<1>7. Unpaid(t) = 0
  <2>1. CostIn(<<>>, mult) = 0
    BY NoFillsNoSums
  <2> QED
    BY <1>2, <1>3, <1>5, <2>1 DEF Unpaid
<1>8. IsBuy(t) => balance[A] - reserved[A] >= Spend(t)
  BY <1>1, <1>3, <1>5 DEF CashFits, available
<1>9. CASE ~(IsBuy(t) /\ IsLimit(t))
  <2>1. IsBuy(t) => balance[A] - reserved[A] >= 0
    <3>1. IsBuy(t) => Spend(t) = 0 + 0
      BY <1>2, <1>7, <1>9 DEF Spend
    <3> QED
      BY <1>8, <3>1
  <2>2. \A a \in Account : balance'[a] - reserved'[a] >= 0
    BY <1>2, <1>4, <1>5, <2>1
  <2>3. pc' = "save"
    BY <1>2, <1>9
  <2> QED
    BY <1>3, <2>2, <2>3, QuietCash
<1>10. CASE IsBuy(t) /\ IsLimit(t)
  <2>1. PICK x, y : x = notional_cents(p, left, mult) /\ y = notional_cents(p, n, mult)
    OBVIOUS
  <2>2. x \in Nat /\ y \in Int
    <3>1. p \in Nat /\ mult \in Nat
      BY <1>6, <1>10
    <3>2. notional_cents(p, left, mult) \in Nat
      BY <1>6, <3>1, CentsNatural
    <3>3. notional_cents(p, n, mult) \in Int
      BY <1>6, <3>1, CentsInt
    <3> QED
      BY <2>1, <3>2, <3>3
  <2>3. Spend(t) = x - y
    <3>1. Spend(t) = 0 + x - y
      BY <1>5, <1>7, <1>10, <2>1 DEF Spend, Notional, Value
    <3> QED
      BY <2>2, <3>1
  <2>4. hold[t].amount = y
    <3>1. hold[t] = Full(t)
      BY <1>1, <1>2, <1>3, <1>10 DEF HoldsFit, Held, Placing
    <3> QED
      BY <1>5, <2>1, <3>1 DEF Full, Notional, Value
  <2>5. Remaining(t)' = left
    <3>1. filled'[t] = n - left
      BY <1>2, <1>3, <1>5 DEF WellFormed, TypeOK
    <3> QED
      BY <1>2, <1>5, <1>6, <3>1 DEF Remaining
  <2>6. Notional(t, Remaining(t))' = x
    BY <1>2, <1>5, <2>1, <2>5 DEF Notional, Value
  <2>7. balance[A] - reserved[A] + hold[t].amount >= IF KeepsHold(t)' THEN x ELSE 0
    <3>1. balance[A] - reserved[A] \in Int
      BY <1>6, CashNumbers
    <3> QED
      BY <1>8, <1>10, <2>2, <2>3, <2>4, <3>1
  <2>8. pc' = "release"
    BY <1>2, <1>10
  <2>9. \A a \in Account : Short(a)' \/ balance'[a] - reserved'[a] >= 0
    BY <1>2, <1>4, <2>8 DEF Short
  <2> QED
    BY <1>2, <1>3, <1>5, <2>6, <2>7, <2>8, <2>9 DEF CashFits, available
<1> QED
  BY <1>9, <1>10

\* While a resting buy's reservation is replaced, the incoming order sells.
LEMMA ReplacingForSeller ==
    ASSUME WellFormed, FillsAreFresh, Orders, pc \in {"release", "reserve"}, IsBuy(subject)
    PROVE  /\ ~Paid /\ (Sweeping <=> MakerTurn)
           /\ Sweeping => ~IsBuy(taker) /\ subject = Fill.maker /\ req[subject].price > 0
           /\ ~Sweeping => ~Placing
<1>1. ~Paid /\ (Sweeping <=> MakerTurn) /\ (~Sweeping => ~Placing)
  BY DEF Paid, Sweeping, Recorded, Placing
<1>2. ASSUME MakerTurn PROVE ~IsBuy(taker) /\ subject = Fill.maker /\ req[subject].price > 0
  <2>1. Placing /\ fills # <<>>
    BY <1>2 DEF Placing, Sweeping, MakerTurn, WellFormed, CallsAreInOrder
  <2>2. subject = Fill.maker
    BY <1>2 DEF Orders
  <2>3. req[Fill.maker].side # req[taker].side /\ Fill.price > 0 /\ Fill.price = req[Fill.maker].price
    BY <2>1, HeadFill
  <2> QED
    BY <2>2, <2>3 DEF IsBuy
<1> QED
  BY <1>1, <1>2

LEMMA ReleasingKeepsCash ==
    ASSUME WellFormed, FillsAreFresh, Orders, HoldsFit, CashFits, ReleaseHold
    PROVE  CashFits'
<1>1. PICK n, h, A : n = subject /\ h = hold[n].amount /\ A = req[n].account
  OBVIOUS
<1>2. /\ pc = "release" /\ pc' = (IF KeepsHold(n) THEN "reserve" ELSE "save")
      /\ UNCHANGED <<req, status, filled, balance, taker, subject, fills>>
      /\ reserved' = [a \in Account |-> IF a = hold[n].account THEN reserved[a] - h ELSE reserved[a]]
  BY <1>1 DEF ReleaseHold, Goto
<1>3. n \in Used /\ n \in OrderId /\ Used' = Used
  BY <1>1, <1>2, SubjectIsNotPlacing DEF Used
<1>4. hold[n].account = A /\ IsBuy(n)
  BY <1>1, <1>2, <1>3 DEF HoldsFit, HoldsAreBuys
<1>5. ~Paid /\ ~Paid' /\ (Sweeping => ~IsBuy(taker)) /\ (Sweeping' => ~IsBuy(taker'))
  <2>1. ~Paid /\ (Sweeping => ~IsBuy(taker)) /\ (Sweeping <=> MakerTurn)
    BY <1>1, <1>2, <1>4, ReplacingForSeller
  <2>2. Sweeping' => Sweeping
    BY <1>2 DEF Sweeping, Recorded, MakerTurn
  <2> QED
    BY <1>2, <2>1, <2>2 DEF Paid, IsBuy
<1>6. h \in Nat /\ A \in Account /\ \A a \in Account : balance[a] \in Int /\ reserved[a] \in Int
  BY <1>1, <1>3, CashNumbers, TicketNumbers
<1>7. \A a \in Account : reserved'[a] = IF a = A THEN reserved[a] - h ELSE reserved[a]
  BY <1>2, <1>4
<1>8. \A a \in Account : a # A => balance[a] - reserved[a] >= 0
  BY <1>1, <1>2, <1>5 DEF CashFits, Short, available
<1>9. PICK x : x = Notional(n, Remaining(n))
  OBVIOUS
<1>10. balance[A] - reserved[A] + h >= IF KeepsHold(n) THEN x ELSE 0
  BY <1>1, <1>2, <1>3, <1>9 DEF CashFits, available
<1>11. x \in Int
  <2>1. Remaining(n) \in Int
    BY <1>3, OrderNumbers
  <2> QED
    BY <1>3, <1>9, <2>1, TicketNumbers
<1>12. balance[A] - reserved'[A] >= IF KeepsHold(n) THEN x ELSE 0
  BY <1>6, <1>7, <1>10, <1>11
<1>13. Notional(n, Remaining(n))' = x
  BY <1>2, <1>9 DEF Notional, Value, Remaining
<1>14. \A a \in Account : Short(a)' \/ balance'[a] - reserved'[a] >= 0
  <2> SUFFICES ASSUME NEW a \in Account PROVE Short(a)' \/ balance[a] - reserved'[a] >= 0
    BY <1>2
  <2>1. CASE a # A
    BY <1>7, <1>8, <2>1
  <2>2. CASE a = A /\ KeepsHold(n)
    BY <1>1, <1>2, <2>2 DEF Short
  <2>3. CASE a = A /\ ~KeepsHold(n)
    BY <1>12, <2>3
  <2> QED
    BY <2>1, <2>2, <2>3
<1>15. pc' = "reserve" => balance'[A] - reserved'[A] >= x
  BY <1>2, <1>12
<1>16. pc' \in {"reserve", "save"}
  BY <1>2
<1> QED
  BY <1>1, <1>2, <1>3, <1>5, <1>13, <1>14, <1>15, <1>16 DEF CashFits, available, IsBuy

LEMMA ReservingKeepsCash ==
    ASSUME WellFormed, FillsAreFresh, Orders, HoldsFit, CashFits, ReserveRest
    PROVE  CashFits'
<1>1. PICK n, x, A : n = subject /\ x = Notional(n, Remaining(n)) /\ A = req[n].account
  OBVIOUS
<1>2. /\ pc = "reserve" /\ pc' = "save"
      /\ UNCHANGED <<req, status, filled, balance, taker, subject, fills>>
      /\ reserved' = [reserved EXCEPT ![A] = reserved[A] + x]
  BY <1>1 DEF ReserveRest, Reserve, Goto
<1>3. n \in Used /\ n \in OrderId /\ Used' = Used /\ IsBuy(n)
  BY <1>1, <1>2, SubjectIsNotPlacing DEF Used, HoldsFit
<1>4. ~Paid /\ ~Paid' /\ (Sweeping => ~IsBuy(taker)) /\ (Sweeping' => ~IsBuy(taker'))
  <2>1. ~Paid /\ (Sweeping => ~IsBuy(taker)) /\ (Sweeping <=> MakerTurn)
    BY <1>1, <1>2, <1>3, ReplacingForSeller
  <2>2. Sweeping' => Sweeping
    BY <1>2 DEF Sweeping, Recorded, MakerTurn
  <2> QED
    BY <1>2, <2>1, <2>2 DEF Paid, IsBuy
<1>5. A \in Account /\ \A a \in Account : balance[a] \in Int /\ reserved[a] \in Int
  BY <1>1, <1>3, CashNumbers, TicketNumbers
<1>6. x \in Int
  <2>1. Remaining(n) \in Int
    BY <1>3, OrderNumbers
  <2> QED
    BY <1>1, <1>3, <2>1, TicketNumbers
<1>7. balance[A] - reserved[A] >= x
  BY <1>1, <1>2, <1>3 DEF CashFits, available
<1>8. \A a \in Account : a # A => balance[a] - reserved[a] >= 0
  BY <1>1, <1>2, <1>4 DEF CashFits, Short, available
<1>9. \A a \in Account : reserved'[a] = IF a = A THEN reserved[a] + x ELSE reserved[a]
  <2>1. reserved \in [Account -> Int]
    BY DEF WellFormed, TypeOK
  <2> QED
    BY <1>2, <1>5, <2>1
<1>10. \A a \in Account : balance'[a] - reserved'[a] >= 0
  BY <1>2, <1>5, <1>6, <1>7, <1>8, <1>9
<1> QED
  BY <1>2, <1>4, <1>10 DEF CashFits, available, IsBuy

\* The fill is done with: it no longer counts as paid for nor as to be paid.
LEMMA NextFillKeepsCash ==
    ASSUME WellFormed, FillsAreFresh, Orders, CashFits, SaveResting
    PROVE  CashFits'
<1>1. PICK t, fs, c, mult : /\ t = taker /\ fs = fills /\ c = Value(t, Fill.price, Fill.qty)
                            /\ mult = Multiplier[req[t].symbol]
  OBVIOUS
<1>2. /\ pc = "save" /\ pc' = "settle" /\ taker # 0 /\ subject # taker /\ fills' = Tail(fs)
      /\ UNCHANGED <<req, status, filled, balance, reserved, left, taker>>
  BY <1>1 DEF SaveResting, WriteRow, Goto
<1>3. /\ MakerTurn /\ ~MakerTurn' /\ Sweeping /\ Sweeping' /\ ~Paid /\ ~Paid' /\ Used' = Used
      /\ t \in Used /\ fs # <<>>
  BY <1>1, <1>2 DEF Sweeping, Recorded, Paid, MakerTurn, Used, WellFormed, CallsAreInOrder
<1>4. /\ CostIn(fs, mult) \in Int /\ c \in Int
      /\ c = notional_cents(Head(fs).price, Head(fs).qty, mult)
  BY <1>1, <1>3, SpendNumbers DEF Fill
<1>5. CostIn(Tail(fs), mult) = CostIn(fs, mult) - c
  <2>1. fs \in Seq(FillRecord) /\ 0 \in Nat /\ mult \in Nat
    BY <1>1, <1>3, TicketNumbers DEF WellFormed, TypeOK
  <2> QED
    BY <1>3, <1>4, <2>1, FillsShifted
<1>6. Unpaid(t)' = Unpaid(t)
  <2>1. Unpaid(t) = CostIn(fs, mult) - c
    BY <1>1, <1>3 DEF Unpaid
  <2>2. Unpaid(t)' = CostIn(Tail(fs), mult) - 0
    BY <1>1, <1>2, <1>3 DEF Unpaid
  <2> QED
    BY <1>4, <1>5, <2>1, <2>2
<1>7. Spend(t)' = Spend(t)
  BY <1>2, <1>6 DEF Spend, IsLimit, Notional, Value
<1>8. \A a \in Account : Short(a) => Short(a)'
  BY <1>1, <1>2, <1>3 DEF Short, IsBuy
<1>9. IsBuy(t) => balance[req[t].account] - reserved[req[t].account] >= Spend(t)
  BY <1>1, <1>3 DEF CashFits, available
<1>10. \A a \in Account : Short(a)' \/ balance'[a] - reserved'[a] >= 0
  BY <1>2, <1>8 DEF CashFits, available
<1> QED
  BY <1>1, <1>2, <1>3, <1>7, <1>9, <1>10 DEF CashFits, available, IsBuy

\* Every step keeps the cash covered, unless a payment raises.
LEMMA CashStaysFit ==
    ASSUME WellFormed, WellFormed', FillsAreFresh, PositionsFit, Orders, HoldsFit, CashFits,
           [Next]_vars, ~PayRaises, ~ReserveRaises
    PROVE  CashFits'
<1>1. CASE \/ place \/ SavePlaced \/ SaveAndReturn \/ Quiescent
           \/ \E i \in OrderId : Activate(i) \/ cancel(i)
  BY <1>1, QuietStepsKeepCash
<1>2. CASE StartLimit \/ CheckLimit \/ StartMarket
  BY <1>2, ChecksKeepCash
<1>3. ASSUME NEW i \in OrderId, MatchOne(i) PROVE CashFits'
  BY <1>3, MatchingKeepsCash
<1>4. CASE MatchDone \/ Pay
  BY <1>4, RestingKeepsCash, PayingKeepsCash
<1>5. CASE RecordTrade \/ BookBuyer \/ BookSeller \/ SetKillSwitch \/ UNCHANGED vars
  BY <1>5, FrameStepsKeepCash
<1>6. CASE Advance \/ Finish
  BY <1>6, AdvancingKeepsCash, FinishingKeepsCash
<1>7. CASE ReleaseHold \/ ReserveRest \/ SaveResting
  BY <1>7, ReleasingKeepsCash, ReservingKeepsCash, NextFillKeepsCash
<1> QED
  BY <1>1, <1>2, <1>3, <1>4, <1>5, <1>6, <1>7 DEF Next, Step

LEMMA CashToStart ==
    ASSUME Init
    PROVE  CashFits
<1>1. \A a \in Account : available(a) = InitialCash[a] - 0 /\ InitialCash[a] \in Nat
  BY OMSAssumption DEF Init, available
<1>2. \A a \in Account : available(a) >= 0
  BY <1>1
<1> QED
  BY <1>2 DEF CashFits, Init, Used, Paid, Sweeping, Recorded, MakerTurn

\* The remainder of a resting buy can always be reserved again.
LEMMA ReservationsNeverRaise ==
    ASSUME WellFormed, FillsAreFresh, Orders, HoldsFit, CashFits
    PROVE  ~ReserveRaises
<1> SUFFICES ASSUME pc = "reserve" PROVE CanReserve(subject, Notional(subject, Remaining(subject)))
  BY DEF ReserveRaises
<1>1. PICK n : n = subject
  OBVIOUS
<1>2. n \in Used /\ n \in OrderId /\ ~(Placing /\ n = taker) /\ hold[n] = NoHold /\ IsBuy(n) /\ KeepsHold(n)
  BY <1>1, SubjectIsNotPlacing DEF HoldsFit
<1>3. Remaining(n) > 0 /\ Remaining(n) \in Int /\ Working(n) /\ Order(n)
  BY <1>2, OrderNumbers, KeepsHoldIsWorking DEF KeepsHold, Orders
<1>4. req[n].price > 0
  <2>1. CASE Sweeping
    BY <1>1, <1>2, <2>1, ReplacingForSeller
  <2>2. CASE ~Sweeping
    <3>1. fills = <<>> /\ ~MakerTurn
      BY <2>2 DEF Orders, Placing, Sweeping
    <3>2. Coming(n) = 0 /\ Taken(n) = 0 /\ Expected(n) = Remaining(n)
      BY <1>3, <3>1, NoFillsNoSums DEF Coming, Taken, Expected
    <3>3. open[n] + 0 = Remaining(n) + 0 /\ open[n] \in Nat
      BY <1>2, <1>3, <3>2, OrderNumbers DEF Order
    <3>4. open[n] > 0
      BY <1>3, <3>3
    <3> QED
      BY <1>2, <3>4 DEF WellFormed, CallsAreInOrder
  <2> QED
    BY <2>1, <2>2
<1>5. Notional(n, Remaining(n)) >= 0
  <2>1. PICK p, r, mult : p = req[n].price /\ r = Remaining(n) /\ mult = Multiplier[req[n].symbol]
    OBVIOUS
  <2>2. p \in Nat /\ r \in Nat /\ mult \in Nat
    BY <1>2, <1>3, <1>4, <2>1, TicketNumbers
  <2>3. notional_cents(p, r, mult) \in Nat
    BY <2>2, CentsNatural
  <2> QED
    BY <2>1, <2>3 DEF Notional, Value
<1>6. available(req[n].account) >= Notional(n, Remaining(n))
  BY <1>1, <1>2 DEF CashFits
<1> QED
  BY <1>1, <1>2, <1>5, <1>6 DEF CanReserve

-----------------------------------------------------------------------------
(* The books. *)

\* Once a payment has raised, the trade it was for stays unpaid: nothing makes a tape whole
\* again that is not.
LEMMA WholeWasWhole ==
    ASSUME WellFormed, PositionsFit, [Next]_vars, Whole'
    PROVE  Whole /\ ~PayRaises
<1>1. tape \in Seq(Trade)
  BY DEF WellFormed, TypeOK
<1>2. CASE RecordTrade
  <2>1. PICK e : tape' = Append(tape, e)
    BY <1>2 DEF RecordTrade
  <2>2. tape \in Seq(Trade \cup {e}) /\ e \in Trade \cup {e}
    BY <1>1
  <2>3. DOMAIN tape = 1 .. Len(tape) /\ Len(tape) \in Nat /\ Len(tape') = Len(tape) + 1
        /\ DOMAIN tape' = 1 .. Len(tape) + 1
    BY <2>1, <2>2
  <2>4. \A n \in DOMAIN tape : n \in DOMAIN tape' /\ n # Len(tape')
    BY <2>3
  <2>5. posted' = posted /\ pc = "settle"
    BY <1>2 DEF RecordTrade
  <2> QED
    BY <2>4, <2>5 DEF Whole, PayRaises
<1>3. CASE Pay
  <2>1. pc = "pay" /\ pc' = "book buy" /\ tape' = tape /\ posted' = posted \cup {Len(tape)}
    BY <1>3 DEF Pay, Goto, TxnId
  <2>2. Value(taker, Fill.price, Fill.qty) > 0
    BY <1>3 DEF Pay
  <2>3. Value(taker, Fill.price, Fill.qty) \in Int
    <3>1. taker \in Used /\ fills # <<>>
      BY <2>1 DEF WellFormed, CallsAreInOrder
    <3> QED
      BY <3>1, SpendNumbers
  <2>4. ~(Value(taker, Fill.price, Fill.qty) <= 0)
    BY <2>2, <2>3
  <2>5. Whole
    BY <2>1 DEF Whole
  <2> QED
    BY <2>4, <2>5 DEF PayRaises
<1>4. CASE PayRaises
  <2>1. pc = "pay" /\ pc' = "idle" /\ UNCHANGED <<tape, posted>>
    BY <1>4 DEF PayRaises, EndCall, Goto
  <2>2. Len(tape) \in DOMAIN tape /\ Len(tape) \notin posted
    BY <2>1 DEF PositionsFit, LastIsInHand, Recorded, Paid
  <2> QED
    BY <2>1, <2>2 DEF Whole
<1>5. ASSUME UNCHANGED <<tape, posted>>, pc # "pay", pc' # "pay" PROVE Whole /\ ~PayRaises
  BY <1>5 DEF Whole, PayRaises
<1>6. CASE \/ place \/ (\E i \in OrderId : cancel(i))
           \/ StartLimit \/ CheckLimit \/ StartMarket
  <2>1. UNCHANGED <<tape, posted>> /\ pc # "pay" /\ pc' # "pay"
    BY <1>6 DEF place, PlaceInvalid, PlaceStop, PlaceNow, Register, cancel,
                StartLimit, CheckLimit, StartMarket, Goto, ThenWrite, Sweep
  <2> QED
    BY <1>5, <2>1
<1>7. CASE (\E m \in OrderId : MatchOne(m)) \/ MatchDone \/ BookBuyer \/ BookSeller \/ Advance \/ Finish
  <2>1. UNCHANGED <<tape, posted>> /\ pc # "pay" /\ pc' # "pay"
    BY <1>7 DEF MatchOne, MatchDone, BookBuyer, BookSeller, BookPosition, Advance, Finish,
                Conclude, Goto, ThenWrite
  <2> QED
    BY <1>5, <2>1
<1>8. CASE \/ ReleaseHold \/ ReserveRest \/ ReserveRaises \/ SaveResting \/ SavePlaced \/ SaveAndReturn
           \/ (\E i \in OrderId : Activate(i)) \/ Quiescent
  <2>1. UNCHANGED <<tape, posted>> /\ pc # "pay" /\ pc' # "pay"
    BY <1>8 DEF ReleaseHold, ReserveRest, ReserveRaises, Reserve, SaveResting, SavePlaced,
                SaveAndReturn, WriteRow, Activate, Quiescent, EndCall, Goto
  <2> QED
    BY <1>5, <2>1
<1>9. CASE SetKillSwitch \/ UNCHANGED vars
  <2>1. UNCHANGED <<tape, posted, pc>>
    BY <1>9 DEF SetKillSwitch, vars
  <2>2. Whole
    BY <2>1 DEF Whole
  <2>3. ~PayRaises
    <3>1. pc = "pay" => pc' # "idle"
      BY <2>1
    <3> QED
      BY <3>1 DEF PayRaises, EndCall, Goto
  <2> QED
    BY <2>2, <2>3
<1> QED
  BY <1>2, <1>3, <1>4, <1>6, <1>7, <1>8, <1>9 DEF Next, Step

\* All of it: while every trade is paid, the orders, the reservations and the cash agree
\* with the tape at every step of a call; the ledger's totals and the positions do anyway.
Books ==
    /\ WellFormed /\ FillsAreFresh /\ PositionsFit /\ ReservedIsHeld
    /\ Whole => Orders /\ HoldsFit /\ CashFits

LEMMA BooksToStart ==
    ASSUME Init
    PROVE  Books
<1>1. fills = <<>>
  BY DEF Init
<1>2. FillsAreFresh
  BY <1>1, EmptyHasNoIndex DEF FillsAreFresh
<1> QED
  BY <1>2, InitIsWellFormed, NoPositions, NothingIsHeld, NoOrders, NoHolds, CashToStart DEF Books

LEMMA BooksStayFit ==
    ASSUME Books, [Next]_vars
    PROVE  Books'
<1>1. WellFormed /\ FillsAreFresh /\ PositionsFit /\ ReservedIsHeld
  BY DEF Books
<1>2. WellFormed' /\ FillsAreFresh'
  BY <1>1, StepsKeepForm, FillsStayFresh
<1>3. PositionsFit' /\ ReservedIsHeld'
  BY <1>1, <1>2, PositionsStayFit, TotalsAreKept
<1>4. ASSUME Whole' PROVE Orders' /\ HoldsFit' /\ CashFits'
  <2>1. Whole /\ ~PayRaises
    BY <1>1, <1>4, WholeWasWhole
  <2>2. Orders /\ HoldsFit /\ CashFits
    BY <2>1 DEF Books
  <2>3. ~ReserveRaises
    BY <1>1, <2>2, ReservationsNeverRaise
  <2>4. Orders'
    BY <1>1, <1>2, <2>1, <2>2, <2>3, OrdersStayFit
  <2>5. HoldsFit'
    BY <1>1, <2>1, <2>2, <2>3, HoldsStayFit
  <2>6. CashFits'
    BY <1>1, <1>2, <2>1, <2>2, <2>3, CashStaysFit
  <2> QED
    BY <2>4, <2>5, <2>6
<1> QED
  BY <1>2, <1>3, <1>4 DEF Books

LEMMA BooksHold == Spec => []Books
<1>1. Init => Books
  BY BooksToStart
<1>2. Books /\ [Next]_vars => Books'
  BY BooksStayFit
<1> QED
  BY <1>1, <1>2, PTL DEF Spec

\* Between calls whose trades are all paid, nothing is half done.
LEMMA SettledBooks ==
    ASSUME Books, Settled
    PROVE  Orders /\ HoldsFit /\ CashFits /\ WellFormed /\ ~Placing /\ ~Sweeping /\ ~MakerTurn
           /\ ~Recorded /\ pc = "idle" /\ fills = <<>>
<1>1. pc = "idle" /\ Whole
  BY DEF Settled, Idle, Whole
<1>2. ~Placing /\ ~Sweeping /\ ~MakerTurn /\ ~Recorded
  BY <1>1 DEF Placing, Sweeping, MakerTurn, Recorded
<1> QED
  BY <1>1, <1>2 DEF Books, FillsAreFresh

\* The books say between calls that the book offers and the tape shows what the orders are.
LEMMA BooksShowOrders == Books => BookMatchesOrders
<1> SUFFICES ASSUME Books, Settled, NEW i \in Used
             PROVE  /\ open[i] = IF Working(i) THEN Remaining(i) ELSE 0
                    /\ filled[i] = TapeVolume(i) /\ (filled[i] > 0 => filled[i] <= req[i].qty)
  BY DEF BookMatchesOrders
<1>1. Order(i) /\ WellFormed /\ ~MakerTurn /\ ~Recorded /\ fills = <<>>
  BY SettledBooks DEF Orders
<1>2. Coming(i) = 0 /\ Taken(i) = 0 /\ Noted(i) = 0
  BY <1>1, NoFillsNoSums DEF Coming, Taken, Noted
<1>3. open[i] + 0 = Expected(i) + 0 /\ TapeVolume(i) = filled[i] + 0
  BY <1>1, <1>2 DEF Order
<1>4. open[i] \in Nat /\ filled[i] \in Int /\ Expected(i) \in Int
  BY <1>1, OrderNumbers DEF Expected
<1>5. open[i] = Expected(i) /\ filled[i] = TapeVolume(i)
  <2>1. TapeVolume(i) \in Nat
    BY <1>1, OrderNumbers
  <2> QED
    BY <1>3, <1>4, <2>1
<1>6. filled[i] > 0 => filled[i] <= req[i].qty
  BY <1>1 DEF Order
<1> QED
  BY <1>5, <1>6 DEF Expected

\* When settled, the book offers what the orders have left and the tape shows what they have
\* filled, to the unit (oms.py, _apply_fills and _advance; matching.py).
THEOREM BookIsTheOrders == Spec => []BookMatchesOrders
BY BooksShowOrders, BooksHold, PTL

\* They say that what is set aside is what the open buys need.
LEMMA BooksShowHolds == Books => HoldsMatchOrders
<1> SUFFICES ASSUME Books PROVE HoldsMatchOrders
  OBVIOUS
<1>1. ASSUME Settled, NEW i \in Used
      PROVE  hold[i] = IF Working(i) /\ IsBuy(i)
                       THEN [account |-> req[i].account, amount |-> Notional(i, Remaining(i))]
                       ELSE NoHold
  <2>1. Held(i) /\ ~Placing /\ pc = "idle"
    BY <1>1, SettledBooks DEF HoldsFit
  <2> QED
    BY <2>1 DEF Held, Standard
<1>2. \A a \in Account :
         reserved[a] = SumFunction([i \in {j \in OrderId : hold[j].account = a} |-> hold[i].amount])
  BY DEF Books, ReservedIsHeld, HeldBy
<1> QED
  BY <1>1, <1>2 DEF HoldsMatchOrders

\* When settled, the cash set aside is what each open buy can still cost, and no hold
\* outlives its order; the ledger's totals are the sums of the holds at every step (oms.py,
\* _resync_buy_hold; ledger.py, reserve and release).
THEOREM HoldsAreTheOrders == Spec => []HoldsMatchOrders
BY BooksShowHolds, BooksHold, PTL

\* They say that no account has set aside more than it has.
LEMMA BooksAreSolvent == Books => Solvent
<1> SUFFICES ASSUME Books, Settled PROVE \A a \in Account : available(a) >= 0
  BY DEF Solvent
<1>1. CashFits /\ ~Sweeping /\ pc \notin {"release", "reserve"}
  BY SettledBooks
<1>2. \A a \in Account : balance[a] - reserved[a] >= 0
  BY <1>1, QuietBefore
<1> QED
  BY <1>2 DEF available

\* When settled, no account's buying power is overdrawn: no rounding of separate fills, no
\* re-reservation and no market buy ever costs more than was set aside or at hand for it
\* (oms.py, _place_limit and _place_market; money.py, notional_cents).
THEOREM AccountsAreSolvent == Spec => []Solvent
BY BooksAreSolvent, BooksHold, PTL

-----------------------------------------------------------------------------
(* Stops. *)

\* A stop the last trade has triggered waits only for the call that is running on its symbol.
StopsElsewhere ==
    \A s \in Symbol : (taker # 0 /\ s = req[taker].symbol) \/ Ready(s) = {}

LEMMA SameStops ==
    ASSUME StopsElsewhere, UNCHANGED <<req, pendingStops, lastPrice, taker>>
    PROVE  StopsElsewhere'
<1>1. \A s \in Symbol : Ready(s)' = Ready(s)
  BY DEF Ready, Triggered, IsBuy
<1> QED
  BY <1>1 DEF StopsElsewhere

\* Registering a ticket triggers no other stop, and one on its own symbol is dealt with next.
LEMMA PlacingLeavesNoStop ==
    ASSUME WellFormed, StopsElsewhere, NEW r \in Request,
           PlaceInvalid(r) \/ PlaceStop(r) \/ PlaceNow(r)
    PROVE  StopsElsewhere'
<1>1. PICK n : n = nextId
  OBVIOUS
<1>2. /\ pc = "idle" /\ n \in OrderId /\ n # 0 /\ req' = [req EXCEPT ![n] = r] /\ UNCHANGED lastPrice
      /\ \/ UNCHANGED <<taker, pendingStops>>
         \/ taker' = n /\ pendingStops' \in {pendingStops, pendingStops \cup {n}}
  BY <1>1 DEF PlaceInvalid, PlaceStop, PlaceNow, Register, OrderId
<1>3. taker = 0 /\ n \notin pendingStops
  BY <1>1, <1>2 DEF WellFormed, CallsAreInOrder, OrderId
<1>4. /\ \A i \in OrderId : i # n => req'[i] = req[i]
      /\ req'[n] = r /\ pendingStops \subseteq OrderId
  BY <1>2 DEF WellFormed, TypeOK
<1> SUFFICES ASSUME NEW s \in Symbol, ~(taker' # 0 /\ s = req'[taker'].symbol)
             PROVE  Ready(s)' = {}
  BY DEF StopsElsewhere
<1>5. Ready(s) = {}
  BY <1>3 DEF StopsElsewhere
<1>6. \A i \in pendingStops : ~(req'[i].symbol = s /\ Triggered(i)')
  BY <1>2, <1>3, <1>4, <1>5 DEF Ready, Triggered, IsBuy
<1>7. ASSUME n \in pendingStops' PROVE req'[n].symbol # s
  BY <1>2, <1>3, <1>7
<1> QED
  BY <1>2, <1>6, <1>7 DEF Ready

\* Every step keeps triggered stops with the call that runs, unless a payment raises.
LEMMA StopsStayElsewhere ==
    ASSUME WellFormed, StopsElsewhere, [Next]_vars, ~PayRaises, ~ReserveRaises
    PROVE  StopsElsewhere'
<1>1. CASE place
  BY <1>1, PlacingLeavesNoStop DEF place
<1>2. CASE SaveResting
  <2>1. /\ UNCHANGED <<req, pendingStops, taker>> /\ taker # 0
        /\ lastPrice' = [lastPrice EXCEPT ![req[taker].symbol] = Fill.price]
    BY <1>2 DEF SaveResting, WriteRow
  <2>2. \A s \in Symbol : s # req[taker].symbol => lastPrice'[s] = lastPrice[s]
    BY <2>1 DEF WellFormed, TypeOK
  <2>3. \A s \in Symbol : s # req[taker].symbol => Ready(s)' = Ready(s)
    BY <2>1, <2>2 DEF Ready, Triggered, IsBuy
  <2> QED
    BY <2>1, <2>3 DEF StopsElsewhere
<1>3. ASSUME NEW i \in OrderId, Activate(i) PROVE StopsElsewhere'
  <2>1. /\ UNCHANGED <<req, lastPrice>> /\ taker' = i /\ pendingStops' = pendingStops \ {i}
        /\ i # 0 /\ req[i].symbol = req[taker].symbol
    BY <1>3 DEF Activate, Ready, OrderId
  <2>2. \A s \in Symbol : Ready(s)' \subseteq Ready(s)
    BY <2>1 DEF Ready, Triggered, IsBuy
  <2> QED
    BY <2>1, <2>2 DEF StopsElsewhere
<1>4. CASE Quiescent \/ SaveAndReturn
  <2>1. /\ UNCHANGED <<req, pendingStops, lastPrice>> /\ taker' = 0
        /\ taker = 0 \/ Ready(req[taker].symbol) = {}
    BY <1>4 DEF Quiescent, SaveAndReturn, WriteRow, EndCall
  <2>2. \A s \in Symbol : Ready(s)' = Ready(s)
    BY <2>1 DEF Ready, Triggered, IsBuy
  <2> QED
    BY <2>1, <2>2 DEF StopsElsewhere
<1>5. CASE \/ (\E i \in OrderId : cancel(i)) \/ SetKillSwitch \/ StartLimit \/ CheckLimit \/ StartMarket
           \/ (\E m \in OrderId : MatchOne(m)) \/ MatchDone
  <2>1. UNCHANGED <<req, pendingStops, lastPrice, taker>>
    BY <1>5 DEF cancel, SetKillSwitch, StartLimit, CheckLimit, StartMarket, MatchOne, MatchDone
  <2> QED
    BY <2>1, SameStops
<1>6. CASE \/ RecordTrade \/ Pay \/ BookBuyer \/ BookSeller \/ Advance \/ Finish
           \/ ReleaseHold \/ ReserveRest \/ SavePlaced \/ UNCHANGED vars
  <2>1. UNCHANGED <<req, pendingStops, lastPrice, taker>>
    BY <1>6 DEF RecordTrade, Pay, BookBuyer, BookSeller, BookPosition, Advance, Finish,
                ReleaseHold, ReserveRest, SavePlaced, WriteRow, vars
  <2> QED
    BY <2>1, SameStops
<1> QED
  BY <1>1, <1>2, <1>3, <1>4, <1>5, <1>6 DEF Next, Step

\* Between calls no stop the last trade has triggered is left pending (oms.py,
\* _process_triggers).  Like TradesSettle it needs tickets worth at least a cent per unit: a
\* payment that raises ends the call with its triggers unprocessed.
THEOREM NoTriggeredStopWaits ==
    ASSUME WholeCents
    PROVE  Spec => []NoStopLeftBehind
<1> DEFINE Stops == Books /\ PaymentsKeepUp /\ StopsElsewhere
<1>1. Init => Stops
  <2> SUFFICES ASSUME Init PROVE Stops
    OBVIOUS
  <2>1. PaymentsKeepUp
    BY EmptyHasNoIndex DEF Init, PaymentsKeepUp
  <2>2. StopsElsewhere
    BY DEF Init, StopsElsewhere, Ready
  <2> QED
    BY <2>1, <2>2, BooksToStart
<1>2. Stops /\ [Next]_vars => Stops'
  <2> SUFFICES ASSUME Stops, [Next]_vars PROVE Stops'
    OBVIOUS
  <2>1. WellFormed /\ FillsAreFresh /\ Books /\ Books' /\ WellFormed'
    BY BooksStayFit DEF Books
  <2>2. PaymentsKeepUp'
    BY <2>1, PaymentsStayUp
  <2>3. Whole
    <3>1. tape \in Seq(Trade)
      BY <2>1 DEF WellFormed, TypeOK
    <3>2. DOMAIN tape = 1 .. Len(tape) /\ Len(tape) \in Nat
      BY <3>1
    <3> QED
      BY <3>2 DEF PaymentsKeepUp, Whole
  <2>4. Whole'
    <3>1. (tape \in Seq(Trade))'
      BY <2>1 DEF WellFormed, TypeOK
    <3>2. DOMAIN tape' = 1 .. Len(tape') /\ Len(tape') \in Nat
      BY <3>1
    <3> QED
      BY <2>2, <3>2 DEF PaymentsKeepUp, Whole
  <2>5. ~PayRaises
    BY <2>1, <2>4, WholeWasWhole DEF Books
  <2>6. ~ReserveRaises
    BY <2>1, <2>3, ReservationsNeverRaise DEF Books
  <2> QED
    BY <2>1, <2>2, <2>5, <2>6, StopsStayElsewhere
<1>3. Stops => NoStopLeftBehind
  BY DEF NoStopLeftBehind, StopsElsewhere, Idle, Books, WellFormed, CallsAreInOrder
<1> HIDE DEF Stops
<1> QED
  BY <1>1, <1>2, <1>3, PTL DEF Spec

-----------------------------------------------------------------------------
(* The venue of a symbol inside the service. *)

\* An order that waits for its sweep: it is not in the book, and it has never been.
Sweepable == {"start", "risk", "match"}
Waits(i) == i \in pendingStops \/ (pc \in Sweepable /\ i = taker)
Entered == {i \in Used : ~Waits(i)}

\* Orders come to rest once at most, after their sweep, and no two of them at one time: the
\* numbers of arrivals are different, and there are no more of them than orders.
QueueFits ==
    /\ \A i \in OrderId : Waits(i) => open[i] = 0
    /\ pc \in Sweepable => taker \notin pendingStops
    /\ \A i \in OrderId : open[i] > 0 => arrival[i] >= 1 /\ arrival[i] <= arrivals
    /\ \A i, j \in OrderId : open[i] > 0 /\ open[j] > 0 /\ arrival[i] = arrival[j] => i = j
    /\ arrivals <= Cardinality(Entered)

\* The number of orders that do not wait.
LEMMA EnteredGrows ==
    ASSUME NEW A \in SUBSET OrderId, NEW B \in SUBSET OrderId, A \subseteq B
    PROVE  /\ Cardinality(A) \in Nat /\ Cardinality(B) \in Nat
           /\ Cardinality(A) <= Cardinality(B) /\ Cardinality(B) <= MaxOrders
           /\ A # B => Cardinality(A) < Cardinality(B)
<1>1. IsFiniteSet(OrderId) /\ Cardinality(OrderId) <= MaxOrders
  <2>1. MaxOrders \in Int /\ MaxOrders >= 0
    BY OMSAssumption
  <2>2. IsFiniteSet(1 .. MaxOrders) /\ Cardinality(1 .. MaxOrders) = IF 1 > MaxOrders THEN 0 ELSE MaxOrders - 1 + 1
    BY <2>1, FS_Interval
  <2> QED
    BY <2>1, <2>2 DEF OrderId
<1>2. IsFiniteSet(A) /\ IsFiniteSet(B) /\ Cardinality(B) <= Cardinality(OrderId)
  BY <1>1, FS_Subset
<1>3. Cardinality(A) <= Cardinality(B) /\ (Cardinality(A) = Cardinality(B) => A = B)
  BY <1>2, FS_Subset
<1>4. Cardinality(A) \in Nat /\ Cardinality(B) \in Nat /\ Cardinality(OrderId) \in Nat
  BY <1>1, <1>2, FS_CardinalityType
<1> QED
  BY <1>1, <1>2, <1>3, <1>4, OMSAssumption

\* The lesser of two is one of them.
LEMMA MinIsEither ==
    ASSUME NEW a \in Int, NEW b \in Int
    PROVE  Min({a, b}) \in {a, b}
<1>1. \E x \in {a, b} : \A y \in {a, b} : x <= y
  <2>1. CASE a <= b
    BY <2>1
  <2>2. CASE b <= a
    BY <2>2
  <2> QED
    BY <2>1, <2>2
<1> QED
  BY <1>1 DEF Min

\* Nor more than the order it is for has left.
LEMMA MatchQtyFitsLeft ==
    ASSUME WellFormed, NEW m \in OrderId, MatchOne(m)
    PROVE  MatchQty(m) <= left
<1>1. pc = "match" /\ IsNext(m, taker)
  BY DEF MatchOne
<1>2. m \in Used /\ taker \in Used /\ open[m] \in Int /\ left \in Int /\ budget \in Int
  BY <1>1, MatchQtyFits DEF WellFormed, TypeOK
<1> DEFINE wanted == Min({left, open[m]})
           affordable == (budget * QuantityScale) \div (req[m].price * Multiplier[req[taker].symbol])
<1>3. wanted \in Int /\ wanted <= left
  BY <1>2, MinOfTwo
<1>4. MatchQty(m) = IF IsLimit(taker) \/ ~IsBuy(taker) THEN wanted ELSE Min({wanted, affordable})
  BY DEF MatchQty
<1>5. affordable \in Int
  <2>1. req[m].price \in Int /\ req[m].price > 0
    BY <1>1, <1>2, UsedIsTicket DEF WellFormed, CallsAreInOrder, IsNext, Opposite
  <2>2. Multiplier[req[taker].symbol] \in Int /\ Multiplier[req[taker].symbol] > 0
    BY <1>2, UsedIsTicket, OMSAssumption DEF WellFormed
  <2>3. /\ req[m].price * Multiplier[req[taker].symbol] \in Int
        /\ req[m].price * Multiplier[req[taker].symbol] > 0
    BY <2>1, <2>2
  <2>4. budget * QuantityScale \in Int
    BY <1>2, QuantityScaleAssumption
  <2> QED
    BY <2>3, <2>4
<1>6. Min({wanted, affordable}) <= wanted /\ Min({wanted, affordable}) \in Int
  <2> HIDE DEF wanted, affordable
  <2> QED
    BY <1>3, <1>5, MinOfTwo
<1> HIDE DEF wanted, affordable
<1> QED
  BY <1>2, <1>3, <1>4, <1>6

LEMMA EnteredAreOrders == Entered \in SUBSET OrderId /\ Entered' \in SUBSET OrderId
BY DEF Entered, Used

\* What stays in the book stays as it was, and nobody who has entered waits again.
LEMMA QueueKept ==
    ASSUME WellFormed, WellFormed', QueueFits, UNCHANGED arrivals, Entered \subseteq Entered',
           \A i \in OrderId : open'[i] > 0 => open[i] > 0 /\ arrival'[i] = arrival[i],
           \A i \in OrderId : Waits(i)' => open'[i] = 0,
           pc' \in Sweepable => taker' \notin pendingStops'
    PROVE  QueueFits'
<1>1. Cardinality(Entered) \in Nat /\ Cardinality(Entered') \in Nat
      /\ Cardinality(Entered) <= Cardinality(Entered')
  BY EnteredAreOrders, EnteredGrows
<1>2. arrivals \in Nat /\ arrivals' \in Nat
  BY DEF WellFormed, TypeOK
<1>3. arrivals' <= Cardinality(Entered')
  BY <1>1, <1>2 DEF QueueFits
<1>4. \A i \in OrderId : open'[i] > 0 => arrival'[i] >= 1 /\ arrival'[i] <= arrivals'
  BY DEF QueueFits
<1>5. \A i, j \in OrderId : open'[i] > 0 /\ open'[j] > 0 /\ arrival'[i] = arrival'[j] => i = j
  BY DEF QueueFits
<1> QED
  BY <1>3, <1>4, <1>5 DEF QueueFits

LEMMA PlacingKeepsQueue ==
    ASSUME WellFormed, WellFormed', QueueFits, NEW r \in Request,
           PlaceInvalid(r) \/ PlaceStop(r) \/ PlaceNow(r)
    PROVE  QueueFits'
<1>1. /\ pc = "idle" /\ nextId \in OrderId
      /\ req' = [req EXCEPT ![nextId] = r] /\ nextId' = nextId + 1
      /\ UNCHANGED bookVars
  BY DEF PlaceInvalid, PlaceStop, PlaceNow, Register
<1>2. \/ pendingStops' = pendingStops
      \/ pendingStops' = pendingStops \cup {nextId} /\ pc' = "save"
  BY DEF PlaceInvalid, PlaceStop, PlaceNow, Goto
<1>3. pc' \in Sweepable => taker' = nextId /\ pendingStops' = pendingStops
  BY <1>2 DEF PlaceInvalid, PlaceStop, PlaceNow, Goto, Sweepable
<1>4. r # NoRequest
  BY OMSAssumption DEF NoRequest
<1>5. Used' = Used \cup {nextId}
  BY <1>1, <1>4 DEF Used, WellFormed, TypeOK
<1>6. open[nextId] = 0 /\ nextId \notin Used
  <2>1. nextId \notin Used
    <3>1. nextId \in Int
      BY <1>1, OMSAssumption DEF OrderId
    <3>2. CallsAreInOrder
      BY DEF WellFormed
    <3>3. \A i \in Used : i < nextId
      BY <3>2 DEF CallsAreInOrder
    <3> QED
      BY <3>1, <3>3
  <2>2. open[nextId] \in Nat /\ ~(open[nextId] > 0)
    BY <1>1, <2>1 DEF WellFormed, TypeOK, CallsAreInOrder
  <2> QED
    BY <2>1, <2>2
<1>7. \A i \in OrderId : Waits(i)' => Waits(i) \/ i = nextId
  BY <1>2, <1>3 DEF Waits
<1>8. Entered \subseteq Entered'
  <2>1. Used \subseteq OrderId
    BY DEF Used
  <2> QED
    BY <1>5, <1>6, <1>7, <2>1 DEF Entered
<1>9. \A i \in OrderId : Waits(i)' => open'[i] = 0
  BY <1>1, <1>6, <1>7 DEF QueueFits
<1>10. pc' \in Sweepable => taker' \notin pendingStops'
  BY <1>3, <1>6 DEF WellFormed, CallsAreInOrder
<1> QED
  BY <1>1, <1>8, <1>9, <1>10, QueueKept

\* A step that moves no order in or out of the book.
LEMMA QuietQueue ==
    ASSUME WellFormed, WellFormed', QueueFits, UNCHANGED <<req, bookVars>>,
           \A i \in OrderId : Waits(i)' => Waits(i),
           pc' \in Sweepable => taker' \notin pendingStops'
    PROVE  QueueFits'
<1>1. Entered \subseteq Entered'
  BY DEF Entered, Used
<1> QED
  BY <1>1, QueueKept DEF QueueFits

LEMMA ChecksKeepQueue ==
    ASSUME WellFormed, WellFormed', QueueFits, StartLimit \/ CheckLimit \/ StartMarket
    PROVE  QueueFits'
<1>1. UNCHANGED <<req, bookVars, taker, pendingStops>> /\ pc \in {"start", "risk"}
  BY DEF StartLimit, CheckLimit, StartMarket
<1> QED
  BY <1>1, QuietQueue DEF Waits, Sweepable, QueueFits

LEMMA MatchingKeepsQueue ==
    ASSUME WellFormed, WellFormed', QueueFits, NEW m \in OrderId, MatchOne(m)
    PROVE  QueueFits'
<1>1. /\ MatchQty(m) \in Nat \ {0} /\ MatchQty(m) <= open[m]
      /\ m \in Used /\ taker \in Used
  BY MatchQtyFits
<1>2. /\ UNCHANGED <<req, pendingStops, arrivals, pc, taker>>
      /\ open' = [open EXCEPT ![m] = open[m] - MatchQty(m)]
      /\ arrival' = IF MatchQty(m) = open[m] THEN [arrival EXCEPT ![m] = 0] ELSE arrival
  BY DEF MatchOne
<1>3. open \in [OrderId -> Nat] /\ arrival \in [OrderId -> Nat]
  BY DEF WellFormed, TypeOK
<1>4. \A i \in OrderId : open'[i] > 0 => open[i] > 0 /\ arrival'[i] = arrival[i]
  BY <1>1, <1>2, <1>3
<1>5. \A i \in OrderId : Waits(i)' = Waits(i)
  BY <1>2 DEF Waits
<1>6. Entered \subseteq Entered'
  BY <1>2 DEF Entered, Used, Waits
<1>7. \A i \in OrderId : Waits(i) => open'[i] = 0
  BY <1>1, <1>2, <1>3 DEF QueueFits
<1> QED
  BY <1>2, <1>4, <1>5, <1>6, <1>7, QueueKept DEF QueueFits

\* The remainder of a sweep is the newest in the book.
LEMMA RestingKeepsQueue ==
    ASSUME WellFormed, WellFormed', QueueFits, MatchDone
    PROVE  QueueFits'
<1>1. /\ pc = "match" /\ pc' = "settle" /\ UNCHANGED <<req, pendingStops, taker>>
  BY DEF MatchDone, Goto
<1>2. taker \in Used /\ taker \in OrderId
  BY <1>1 DEF WellFormed, CallsAreInOrder, Used
<1>3. \A i \in OrderId : Waits(i)' => Waits(i) /\ i # taker
  BY <1>1 DEF Waits, QueueFits, Sweepable
<1>4. CASE UNCHANGED bookVars
  BY <1>1, <1>3, <1>4, QuietQueue DEF Sweepable
<1>5. CASE ~UNCHANGED bookVars
  <2>1. /\ left > 0
        /\ open' = [open EXCEPT ![taker] = left]
        /\ arrival' = [arrival EXCEPT ![taker] = arrivals + 1]
        /\ arrivals' = arrivals + 1
    BY <1>5 DEF MatchDone, NextArrival
  <2>2. open \in [OrderId -> Nat] /\ arrival \in [OrderId -> Nat] /\ arrivals \in Nat
    BY DEF WellFormed, TypeOK
  <2>3. Entered \subseteq Entered' /\ taker \in Entered' /\ taker \notin Entered
    BY <1>1, <1>2, <1>3 DEF Entered, Used, Waits, Sweepable
  <2>4. Cardinality(Entered) \in Nat /\ Cardinality(Entered') \in Nat
        /\ Cardinality(Entered) < Cardinality(Entered')
    BY <2>3, EnteredAreOrders, EnteredGrows
  <2>5. arrivals' <= Cardinality(Entered')
    BY <2>1, <2>2, <2>4 DEF QueueFits
  <2>6. \A i \in OrderId : i # taker => open'[i] = open[i] /\ arrival'[i] = arrival[i]
    BY <2>1, <2>2
  <2>7. \A i \in OrderId : Waits(i)' => open'[i] = 0
    BY <1>3, <2>6 DEF QueueFits
  <2>8. arrival'[taker] = arrivals + 1
    BY <1>2, <2>1, <2>2
  <2>9. \A i \in OrderId : i # taker /\ open'[i] > 0 => arrival'[i] >= 1 /\ arrival'[i] <= arrivals
    BY <2>6 DEF QueueFits
  <2>10. \A i \in OrderId : open'[i] > 0 => arrival'[i] >= 1 /\ arrival'[i] <= arrivals'
    <3> SUFFICES ASSUME NEW i \in OrderId, open'[i] > 0
                 PROVE  arrival'[i] >= 1 /\ arrival'[i] <= arrivals'
      OBVIOUS
    <3>1. arrival'[i] \in Nat
      BY DEF WellFormed, TypeOK
    <3> QED
      BY <2>1, <2>2, <2>8, <2>9, <3>1
  <2>11. \A i, j \in OrderId : open'[i] > 0 /\ open'[j] > 0 /\ arrival'[i] = arrival'[j] => i = j
    <3> SUFFICES ASSUME NEW i \in OrderId, NEW j \in OrderId,
                        open'[i] > 0, open'[j] > 0, arrival'[i] = arrival'[j]
                 PROVE  i = j
      OBVIOUS
    <3>1. CASE i # taker /\ j # taker
      BY <2>6, <3>1 DEF QueueFits
    <3>2. CASE i = taker /\ j # taker
      BY <2>2, <2>8, <2>9, <3>2
    <3>3. CASE i # taker /\ j = taker
      BY <2>2, <2>8, <2>9, <3>3
    <3> QED
      BY <3>1, <3>2, <3>3
  <2> QED
    BY <1>1, <2>5, <2>7, <2>10, <2>11 DEF QueueFits, Sweepable
<1> QED
  BY <1>4, <1>5

LEMMA OtherStepsKeepQueue ==
    ASSUME WellFormed, WellFormed', QueueFits,
           \/ RecordTrade \/ Pay \/ PayRaises \/ BookBuyer \/ BookSeller \/ Advance \/ Finish
           \/ ReleaseHold \/ ReserveRest \/ ReserveRaises
           \/ SaveResting \/ SavePlaced \/ SaveAndReturn
           \/ Quiescent \/ SetKillSwitch \/ UNCHANGED vars
    PROVE  QueueFits'
<1>1. UNCHANGED <<req, bookVars, pendingStops>>
  BY DEF RecordTrade, Pay, PayRaises, BookBuyer, BookSeller, BookPosition, Advance, Finish,
         ReleaseHold, ReserveRest, ReserveRaises, SaveResting, SavePlaced, SaveAndReturn,
         WriteRow, Quiescent, SetKillSwitch, vars
<1>2. pc' \notin Sweepable \/ UNCHANGED <<pc, taker>>
  <2>1. CASE RecordTrade \/ Pay \/ PayRaises \/ BookBuyer \/ BookSeller \/ Advance \/ Finish
    BY <2>1 DEF RecordTrade, Pay, PayRaises, BookBuyer, BookSeller, Advance, Finish, ThenWrite,
         EndCall, Goto, Sweepable
  <2>2. CASE ReleaseHold \/ ReserveRest \/ ReserveRaises
    BY <2>2 DEF ReleaseHold, ReserveRest, ReserveRaises, EndCall, Goto, Sweepable
  <2>3. CASE SaveResting \/ SavePlaced \/ SaveAndReturn \/ Quiescent
    BY <2>3 DEF SaveResting, SavePlaced, SaveAndReturn, Quiescent, EndCall, Goto, Sweepable
  <2>4. CASE SetKillSwitch \/ UNCHANGED vars
    BY <2>4 DEF SetKillSwitch, vars
  <2> QED
    BY <2>1, <2>2, <2>3, <2>4
<1> QED
  BY <1>1, <1>2, QuietQueue DEF Waits, QueueFits

LEMMA QueueStaysFit ==
    ASSUME WellFormed, WellFormed', QueueFits, [Next]_vars
    PROVE  QueueFits'
<1>1. CASE place
  BY <1>1, PlacingKeepsQueue DEF place
<1>2. CASE StartLimit \/ CheckLimit \/ StartMarket
  BY <1>2, ChecksKeepQueue
<1>3. ASSUME NEW m \in OrderId, MatchOne(m) PROVE QueueFits'
  BY <1>3, MatchingKeepsQueue
<1>4. CASE MatchDone
  BY <1>4, RestingKeepsQueue
<1>5. ASSUME NEW i \in OrderId, Activate(i) PROVE QueueFits'
  <2>1. /\ pc = "triggers" /\ pc' = "start" /\ taker' = i /\ pendingStops' = pendingStops \ {i}
        /\ i \in pendingStops /\ UNCHANGED <<req, bookVars>>
    BY <1>5 DEF Activate, Ready, Goto
  <2> QED
    BY <2>1, QuietQueue DEF Waits, Sweepable
<1>6. ASSUME NEW i \in OrderId, cancel(i) PROVE QueueFits'
  <2>1. /\ pc = "idle" /\ pc' \in {"release", "save"} /\ UNCHANGED <<req, pendingStops, arrivals>>
        /\ open' = [open EXCEPT ![i] = 0] /\ arrival' = [arrival EXCEPT ![i] = 0]
    BY <1>6 DEF cancel, Goto
  <2>2. open \in [OrderId -> Nat] /\ arrival \in [OrderId -> Nat]
    BY DEF WellFormed, TypeOK
  <2>3. \A j \in OrderId : open'[j] > 0 => open[j] > 0 /\ arrival'[j] = arrival[j]
    BY <2>1, <2>2
  <2>4. \A j \in OrderId : Waits(j)' => Waits(j)
    BY <2>1 DEF Waits, Sweepable
  <2>5. Entered \subseteq Entered'
    BY <2>1, <2>4 DEF Entered, Used
  <2>6. \A j \in OrderId : Waits(j)' => open'[j] = 0
    BY <2>1, <2>2, <2>4 DEF QueueFits
  <2> QED
    BY <2>1, <2>3, <2>5, <2>6, QueueKept DEF Sweepable
<1>7. CASE \/ RecordTrade \/ Pay \/ PayRaises \/ BookBuyer \/ BookSeller \/ Advance \/ Finish
           \/ ReleaseHold \/ ReserveRest \/ ReserveRaises
           \/ SaveResting \/ SavePlaced \/ SaveAndReturn
           \/ Quiescent \/ SetKillSwitch \/ UNCHANGED vars
  BY <1>7, OtherStepsKeepQueue
<1> QED
  BY <1>1, <1>2, <1>3, <1>4, <1>5, <1>6, <1>7 DEF Next, Step

\* What is finite and not empty has a member of least value.
LEMMA LeastExists ==
    ASSUME NEW S, IsFiniteSet(S), S # {}, NEW f, \A x \in S : f[x] \in Int
    PROVE  \E x \in S : \A y \in S : f[x] <= f[y]
<1> DEFINE V == {f[x] : x \in S}
<1>1. IsFiniteSet(V)
  BY ImageFinite
<1>2. V # {} /\ \A v \in V : v \in Int
  OBVIOUS
<1>3. PICK v \in V : \A w \in V : v <= w
  <2> HIDE DEF V
  <2> QED
    BY <1>1, <1>2, SmallestExists
<1> QED
  BY <1>3

\* If an order with a limit can trade at all, somebody comes first.
LEMMA SomebodyIsNext ==
    ASSUME WellFormed, QueueFits, taker \in Used, IsLimit(taker),
           NEW j \in Opposite(taker), Reaches(taker, j)
    PROVE  \E m \in OrderId : IsNext(m, taker)
<1> DEFINE O == Opposite(taker)
           cost == [k \in O |-> IF IsBuy(taker) THEN req[k].price ELSE -req[k].price]
<1>1. IsFiniteSet(O)
  <2>1. MaxOrders \in Int /\ O \in SUBSET OrderId
    BY OMSAssumption DEF Opposite
  <2>2. IsFiniteSet(OrderId)
    BY <2>1, FS_Interval DEF OrderId
  <2> QED
    BY <2>1, <2>2, FS_Subset
<1>2. \A k \in O : /\ k \in OrderId /\ req[k].price \in Int /\ arrival[k] \in Int /\ open[k] > 0
                   /\ IsBuy(k) <=> ~IsBuy(taker)
  <2> SUFFICES ASSUME NEW k \in O
               PROVE  /\ k \in OrderId /\ req[k].price \in Int /\ arrival[k] \in Int /\ open[k] > 0
                      /\ IsBuy(k) <=> ~IsBuy(taker)
    OBVIOUS
  <2>1. k \in OrderId /\ open[k] > 0 /\ req[k].side # req[taker].side
    BY DEF Opposite
  <2>2. k \in Used
    BY <2>1 DEF WellFormed, CallsAreInOrder
  <2>3. req[k].price \in Int /\ arrival[k] \in Int
    BY <2>1, <2>2, UsedIsTicket DEF WellFormed, TypeOK
  <2>4. req[k].side \in Side /\ req[taker].side \in Side
    BY <2>2, UsedIsTicket, OMSAssumption DEF WellFormed
  <2> QED
    BY <2>1, <2>3, <2>4 DEF IsBuy, Side
<1>3. PICK b \in O : \A k \in O : cost[b] <= cost[k]
  <2>1. \A k \in O : cost[k] \in Int
    BY <1>2
  <2>2. O # {}
    OBVIOUS
  <2> HIDE DEF O, cost
  <2> QED
    BY <1>1, <2>1, <2>2, LeastExists
<1> DEFINE K == {k \in O : req[k].price = req[b].price}
<1>4. PICK m \in K : \A k \in K : arrival[m] <= arrival[k]
  <2>1. IsFiniteSet(K)
    BY <1>1, FS_Subset
  <2>2. K # {} /\ \A k \in K : arrival[k] \in Int
    BY <1>2
  <2> HIDE DEF K
  <2> QED
    BY <2>1, <2>2, LeastExists
<1>5. ASSUME NEW k \in O \ {m} PROVE Before(m, k)
  <2>1. /\ k \in OrderId /\ open[k] > 0 /\ req[k].price \in Int /\ arrival[k] \in Int
        /\ m \in OrderId /\ open[m] > 0 /\ req[m].price \in Int /\ arrival[m] \in Int
        /\ req[b].price \in Int
    BY <1>2
  <2>2. cost[b] <= cost[k] /\ req[m].price = req[b].price
    BY <1>3
  <2>3. IF IsBuy(taker) THEN req[m].price <= req[k].price ELSE -req[m].price <= -req[k].price
    BY <2>2
  <2>4. CASE req[k].price = req[m].price
    <3>1. arrival[m] <= arrival[k]
      BY <1>4, <2>2, <2>4
    <3>2. arrival[m] # arrival[k]
      BY <2>1 DEF QueueFits
    <3> QED
      BY <2>1, <2>4, <3>1, <3>2 DEF Before
  <2>5. CASE req[k].price # req[m].price
    <3>1. IsBuy(m) <=> ~IsBuy(taker)
      BY <1>2
    <3>2. IF IsBuy(m) THEN req[m].price > req[k].price ELSE req[m].price < req[k].price
      BY <2>1, <2>3, <2>5, <3>1
    <3> QED
      BY <3>2 DEF Before
  <2> QED
    BY <2>4, <2>5
<1>6. Reaches(taker, m)
  <2>1. cost[b] <= cost[j] /\ req[m].price = req[b].price
    BY <1>3
  <2>2. req[j].price \in Int /\ req[m].price \in Int /\ req[taker].price \in Int
    BY <1>2, UsedIsTicket DEF WellFormed
  <2>3. IF IsBuy(taker) THEN req[m].price <= req[j].price ELSE -req[m].price <= -req[j].price
    BY <2>1
  <2> QED
    BY <2>2, <2>3 DEF Reaches
<1> QED
  BY <1>2, <1>5, <1>6 DEF IsNext

\* What the venue of a symbol sees of a step that does not touch its book.
LEMMA VenueLeftAlone ==
    ASSUME NEW s, UNCHANGED <<open, arrival>>, \A i \in OrderId : open[i] > 0 => req'[i] = req[i],
           (pc # "match" /\ pc' # "match") \/ UNCHANGED <<pc, taker, req, left>>
    PROVE  UNCHANGED <<RestingOrders(s), Incoming(s)>>
<1>1. RestingOrders(s)' = RestingOrders(s)
  BY DEF RestingOrders
<1>2. Incoming(s)' = Incoming(s)
  BY DEF Incoming, IsLimit
<1> QED
  BY <1>1, <1>2

VenueStep == \A s \in Symbol : UNCHANGED <<RestingOrders(s), Incoming(s)>> \/ Venue(s)!Next

\* A sweep begins: the order arrives at its symbol's venue.
LEMMA SweepIsArrive ==
    ASSUME WellFormed, WellFormed', QueueFits, CheckLimit \/ StartMarket
    PROVE  VenueStep
<1>1. /\ UNCHANGED <<req, bookVars, taker>> /\ pc \in {"start", "risk"}
      /\ pc' = "match" => /\ left' = req[taker].qty /\ req[taker].qty > 0
                          /\ IsLimit(taker) => req[taker].price > 0
  BY DEF CheckLimit, StartMarket, LimitAllowed, QuantityAllowed, Sweep, Conclude, ThenWrite, Goto
<1>2. taker \in Used /\ taker \in OrderId /\ open[taker] = 0
  BY <1>1 DEF WellFormed, CallsAreInOrder, QueueFits, Waits, Sweepable, Used
<1>3. SUFFICES ASSUME NEW s \in Symbol, ~UNCHANGED <<RestingOrders(s), Incoming(s)>>
               PROVE  Venue(s)!Next
  BY DEF VenueStep
<1>4. RestingOrders(s)' = RestingOrders(s) /\ Incoming(s) = Venue(s)!NoTaker
  BY <1>1 DEF RestingOrders, Incoming, Venue!NoTaker, Venue!NoLimit
<1>5. pc' = "match" /\ req[taker].symbol = s
  BY <1>1, <1>3, <1>4 DEF Incoming, Venue!NoTaker, Venue!NoLimit
<1>6. RestingOrders(s)[taker] = Venue(s)!NotResting
  BY <1>2 DEF RestingOrders, Venue!NotResting
<1> DEFINE limit == IF IsLimit(taker) THEN req[taker].price ELSE 0
<1>7. Incoming(s)' = [id |-> taker, side |-> req[taker].side, limit |-> limit,
                      left |-> req[taker].qty]
  BY <1>1, <1>5 DEF Incoming, IsLimit
<1>8. Venue(s)!Arrive(taker, req[taker].side, limit, req[taker].qty)
  BY <1>4, <1>6, <1>7 DEF Venue!Arrive
<1>9. req[taker] \in Request /\ req[taker].side \in Side /\ req[taker].qty \in Int
      /\ req[taker].price \in Int
  BY <1>2, UsedIsTicket, OMSAssumption DEF WellFormed
<1>10. /\ limit \in ({r.price : r \in Request} \cap (Nat \ {0})) \cup {0}
       /\ req[taker].qty \in {r.qty : r \in Request} \cap (Nat \ {0})
  BY <1>1, <1>5, <1>9
<1> QED
  BY <1>2, <1>8, <1>9, <1>10 DEF Venue!Next, Venue!Side, Venue!NoLimit, Side

\* One turn of the sweep is a trade with the first of the orders that cross.
LEMMA MatchIsTrade ==
    ASSUME WellFormed, QueueFits, NEW m \in OrderId, MatchOne(m)
    PROVE  VenueStep
<1> DEFINE qty == MatchQty(m)
<1>1. qty \in Nat \ {0} /\ qty <= open[m] /\ m \in Used /\ taker \in Used
  BY MatchQtyFits
<1>2. /\ pc = "match" /\ pc' = "match" /\ left > 0 /\ IsNext(m, taker)
      /\ UNCHANGED <<req, taker>>
      /\ left' = left - qty
      /\ open' = [open EXCEPT ![m] = open[m] - qty]
      /\ arrival' = IF qty = open[m] THEN [arrival EXCEPT ![m] = 0] ELSE arrival
  BY DEF MatchOne
<1>3. open \in [OrderId -> Nat] /\ arrival \in [OrderId -> Nat] /\ left \in Int
  BY DEF WellFormed, TypeOK
<1>4. qty <= left
  BY MatchQtyFitsLeft
<1>5. m \in Opposite(taker) /\ Reaches(taker, m) /\ \A k \in Opposite(taker) \ {m} : Before(m, k)
  BY <1>2 DEF IsNext
<1>6. open[m] > 0 /\ req[m].symbol = req[taker].symbol /\ req[m].side # req[taker].side
  BY <1>5 DEF Opposite
<1>7. req[taker].side \in Side /\ \A k \in Used : req[k].side \in Side
  BY <1>1, UsedIsTicket, OMSAssumption DEF WellFormed
<1>8. SUFFICES ASSUME NEW s \in Symbol PROVE UNCHANGED <<RestingOrders(s), Incoming(s)>> \/ Venue(s)!Next
  BY DEF VenueStep
<1>9. CASE s # req[taker].symbol
  <2>1. RestingOrders(s)' = RestingOrders(s)
    BY <1>2, <1>3, <1>6, <1>9 DEF RestingOrders
  <2>2. Incoming(s)' = Incoming(s)
    BY <1>2, <1>9 DEF Incoming
  <2> QED
    BY <2>1, <2>2
<1>10. CASE s = req[taker].symbol
  <2> DEFINE book == RestingOrders(s)
             side == req[taker].side
             limit == IF IsLimit(taker) THEN req[taker].price ELSE 0
  <2>1. Incoming(s) = [id |-> taker, side |-> side, limit |-> limit, left |-> left]
    BY <1>2, <1>10 DEF Incoming
  <2>2. Incoming(s)' = [Incoming(s) EXCEPT !.left = Incoming(s).left - qty]
    BY <1>2, <1>10, <2>1 DEF Incoming, IsLimit
  <2>3. \A i \in OrderId :
           IF open[i] > 0 /\ req[i].symbol = s
           THEN /\ book[i] = [side |-> req[i].side, price |-> req[i].price, qty |-> open[i],
                              arrival |-> arrival[i]]
                /\ book[i].side = req[i].side /\ book[i].price = req[i].price
                /\ book[i].qty = open[i] /\ book[i].arrival = arrival[i]
           ELSE book[i].side = "none"
    BY DEF RestingOrders
  <2> HIDE DEF book
  <2>0. book = RestingOrders(s)
    BY DEF book
  <2>4. Venue(s)!Makers(Venue(s)!Opposite(side)) = Opposite(taker)
    <3>1. \A i \in OrderId : open[i] > 0 => req[i].side \in Side
      BY <1>7 DEF WellFormed, CallsAreInOrder
    <3>2. Venue(s)!Opposite(side) = IF side = "buy" THEN "sell" ELSE "buy"
      BY DEF Venue!Opposite
    <3>3. \A i \in OrderId : book[i].side = Venue(s)!Opposite(side) <=> i \in Opposite(taker)
      <4> SUFFICES ASSUME NEW i \in OrderId
                   PROVE  book[i].side = Venue(s)!Opposite(side) <=> i \in Opposite(taker)
        OBVIOUS
      <4>1. CASE open[i] > 0 /\ req[i].symbol = s
        <5>1. book[i].side = req[i].side
          BY <2>3, <4>1
        <5> QED
          BY <1>7, <1>10, <3>1, <3>2, <4>1, <5>1 DEF Opposite, Side
      <4>2. CASE ~(open[i] > 0 /\ req[i].symbol = s)
        <5>1. book[i].side = "none"
          BY <2>3, <4>2
        <5> QED
          BY <1>10, <3>2, <4>2, <5>1 DEF Opposite
      <4> QED
        BY <4>1, <4>2
    <3>4. Opposite(taker) \subseteq OrderId
      BY DEF Opposite
    <3> QED
      BY <2>0, <3>3, <3>4 DEF Venue!Makers
  <2>5. m \in Venue(s)!First(Venue(s)!Opposite(side))
    <3>1. \A k \in Opposite(taker) : /\ book[k].side = req[k].side /\ book[k].price = req[k].price
                                     /\ book[k].arrival = arrival[k]
      BY <1>10, <2>3 DEF Opposite
    <3>2. \A k \in Opposite(taker) : k \in Used
      BY DEF Opposite, WellFormed, CallsAreInOrder
    <3>3. \A k \in Opposite(taker) \ {m} : Venue(s)!Before(m, k)
      <4> SUFFICES ASSUME NEW k \in Opposite(taker) \ {m} PROVE Venue(s)!Before(m, k)
        OBVIOUS
      <4>1. Before(m, k) /\ req[m].side \in Side
        BY <1>1, <1>5, <1>7
      <4>2. /\ book[m].side = req[m].side /\ book[m].price = req[m].price /\ book[m].arrival = arrival[m]
            /\ book[k].price = req[k].price /\ book[k].arrival = arrival[k]
        BY <1>5, <3>1
      <4> QED
        BY <2>0, <4>1, <4>2 DEF Before, IsBuy, Venue!Before, Side
    <3> QED
      BY <1>5, <2>4, <3>3 DEF Venue!First
  <2>6. m \in Venue(s)!Crossing(Incoming(s))
    <3>1. book[m].price = req[m].price
      BY <1>1, <1>6, <1>10, <2>3
    <3>2. IsLimit(taker) => req[taker].price > 0
      BY <1>2 DEF WellFormed, CallsAreInOrder, IsLimit
    <3>3. Venue(s)!Within(limit, side, req[m].price)
      BY <1>5, <1>7, <3>2 DEF Reaches, IsBuy, Venue!Within, Venue!NoLimit, Side
    <3>4. Incoming(s).side = side /\ Incoming(s).limit = limit
      BY <2>1
    <3> QED
      BY <1>5, <2>0, <2>4, <3>1, <3>3, <3>4 DEF Venue!Crossing
  <2>7. /\ Incoming(s) # Venue(s)!NoTaker
        /\ qty <= Incoming(s).left /\ qty <= book[m].qty
    <3>1. taker # 0 /\ Incoming(s).left = left /\ Incoming(s).id = taker
      BY <1>1, <2>1 DEF Used, OrderId
    <3>2. book[m].qty = open[m]
      BY <1>1, <1>6, <1>10, <2>3
    <3>3. Venue(s)!NoTaker.id = 0
      BY DEF Venue!NoTaker
    <3> QED
      BY <1>1, <1>4, <3>1, <3>2, <3>3
  <2>8. RestingOrders(s)' = [book EXCEPT ![m] = IF qty = book[m].qty THEN Venue(s)!NotResting
                                               ELSE [book[m] EXCEPT !.qty = book[m].qty - qty]]
    <3>1. book[m] = [side |-> req[m].side, price |-> req[m].price, qty |-> open[m],
                     arrival |-> arrival[m]]
      BY <1>6, <1>10, <2>3
    <3>2. RestingOrders(s)'[m] = IF qty = open[m] THEN Venue(s)!NotResting
                                 ELSE [book[m] EXCEPT !.qty = open[m] - qty]
      <4>1. open'[m] = open[m] - qty /\ open'[m] \in Int /\ req' = req
        BY <1>1, <1>2, <1>3
      <4>2. CASE qty = open[m]
        BY <1>3, <4>1, <4>2 DEF RestingOrders, Venue!NotResting
      <4>3. CASE qty # open[m]
        <5>1. open'[m] > 0 /\ arrival'[m] = arrival[m]
          BY <1>1, <1>2, <1>3, <4>1, <4>3
        <5> QED
          BY <1>6, <1>10, <3>1, <4>1, <4>3, <5>1 DEF RestingOrders
      <4> QED
        BY <4>2, <4>3
    <3>3. \A i \in OrderId \ {m} : RestingOrders(s)'[i] = book[i]
      BY <1>2, <1>3, <2>0 DEF RestingOrders
    <3>4. book[m].qty = open[m]
      BY <1>1, <1>6, <1>10, <2>3
    <3> DEFINE next == RestingOrders(s)'
    <3>5. next = [i \in OrderId |-> next[i]] /\ book = [i \in OrderId |-> book[i]]
      BY <2>0 DEF RestingOrders
    <3> HIDE DEF next
    <3>6. next = [book EXCEPT ![m] = next[m]]
      <4>1. \A i \in OrderId \ {m} : next[i] = book[i]
        BY <3>3 DEF next
      <4> QED
        BY <3>5, <4>1
    <3>7. next[m] = IF qty = book[m].qty THEN Venue(s)!NotResting
                    ELSE [book[m] EXCEPT !.qty = book[m].qty - qty]
      BY <3>2, <3>4 DEF next
    <3> QED
      BY <3>6, <3>7 DEF next
  <2>9. Venue(s)!Trade(m, qty)
    BY <2>0, <2>1, <2>2, <2>5, <2>6, <2>7, <2>8 DEF Venue!Trade
  <2>10. qty \in 1 .. Incoming(s).left
    BY <1>1, <1>3, <1>4, <2>1
  <2> QED
    BY <2>9, <2>10 DEF Venue!Next
<1> QED
  BY <1>9, <1>10

\* The sweep is over: the remainder rests behind everybody and nobody is left to trade with
\* it, or it is dropped.
LEMMA ReturnIsRestOrLeave ==
    ASSUME WellFormed, WellFormed', QueueFits, MatchDone
    PROVE  VenueStep
<1>1. /\ pc = "match" /\ pc' = "settle" /\ UNCHANGED <<req, taker, left>>
      /\ left = 0 \/ \A m \in OrderId : IsNext(m, taker) => MatchQty(m) <= 0
  BY DEF MatchDone, Goto
<1>2. taker \in Used /\ taker \in OrderId /\ taker # 0
  BY <1>1 DEF WellFormed, CallsAreInOrder, Used
<1>3. /\ open \in [OrderId -> Nat] /\ arrival \in [OrderId -> Nat] /\ arrivals \in Nat /\ left \in Int
      /\ open' \in [OrderId -> Nat]
  BY DEF WellFormed, TypeOK
<1>4. SUFFICES ASSUME NEW s \in Symbol PROVE UNCHANGED <<RestingOrders(s), Incoming(s)>> \/ Venue(s)!Next
  BY DEF VenueStep
<1>5. \/ UNCHANGED bookVars
      \/ /\ left > 0 /\ Rests(taker)
         /\ open' = [open EXCEPT ![taker] = left]
         /\ arrival' = [arrival EXCEPT ![taker] = arrivals + 1]
         /\ arrivals' = arrivals + 1
  BY DEF MatchDone, NextArrival
<1>6. CASE s # req[taker].symbol
  <2>1. Incoming(s)' = Incoming(s)
    BY <1>1, <1>6 DEF Incoming
  <2>2. RestingOrders(s)' = RestingOrders(s)
    BY <1>1, <1>2, <1>3, <1>5, <1>6 DEF RestingOrders
  <2> QED
    BY <2>1, <2>2
<1>7. CASE s = req[taker].symbol
  <2> DEFINE book == RestingOrders(s)
             side == req[taker].side
             limit == IF IsLimit(taker) THEN req[taker].price ELSE 0
  <2>1. Incoming(s) = [id |-> taker, side |-> side, limit |-> limit, left |-> left]
    BY <1>1, <1>7 DEF Incoming
  <2>2. Incoming(s)' = Venue(s)!NoTaker /\ Incoming(s) # Venue(s)!NoTaker
    <3>1. Incoming(s)' = Venue(s)!NoTaker
      BY <1>1 DEF Incoming, Venue!NoTaker, Venue!NoLimit
    <3>2. Incoming(s).id # 0 /\ Venue(s)!NoTaker.id = 0
      BY <1>2, <2>1 DEF Venue!NoTaker
    <3> QED
      BY <3>1, <3>2
  <2>3. CASE UNCHANGED bookVars
    <3>1. RestingOrders(s)' = RestingOrders(s)
      BY <1>1, <2>3 DEF RestingOrders
    <3> QED
      BY <2>2, <3>1 DEF Venue!Leave, Venue!Next
  <2>4. CASE ~UNCHANGED bookVars
    <3>1. /\ left > 0 /\ IsLimit(taker)
          /\ open' = [open EXCEPT ![taker] = left]
          /\ arrival' = [arrival EXCEPT ![taker] = arrivals + 1]
          /\ arrivals' = arrivals + 1
      BY <1>5, <2>4 DEF Rests
    <3>2. req[taker].price > 0 /\ limit = req[taker].price /\ req[taker].price \in Int /\ side \in Side
      BY <1>1, <1>2, <3>1, UsedIsTicket, OMSAssumption DEF WellFormed, CallsAreInOrder, IsLimit
    <3>3. arrivals + 1 \in OrderId
      <4>1. arrivals' <= Cardinality(Entered')
        BY RestingKeepsQueue DEF QueueFits
      <4>2. Cardinality(Entered') \in Nat /\ Cardinality(Entered') <= MaxOrders
        BY EnteredAreOrders, EnteredGrows
      <4> QED
        BY <1>3, <3>1, <4>1, <4>2, OMSAssumption DEF OrderId
    <3>4. \A j \in OrderId : book[j].arrival < arrivals + 1
      <4> SUFFICES ASSUME NEW j \in OrderId PROVE book[j].arrival < arrivals + 1
        OBVIOUS
      <4>1. CASE open[j] > 0 /\ req[j].symbol = s
        <5>1. book[j].arrival = arrival[j]
          BY <4>1 DEF RestingOrders
        <5>2. arrival[j] \in Nat /\ arrival[j] <= arrivals
          BY <1>3, <4>1 DEF QueueFits
        <5> HIDE DEF book
        <5> QED
          BY <1>3, <5>1, <5>2
      <4>2. CASE ~(open[j] > 0 /\ req[j].symbol = s)
        <5>1. book[j].arrival = 0
          BY <4>2 DEF RestingOrders
        <5> HIDE DEF book
        <5> QED
          BY <1>3, <5>1
      <4> QED
        BY <4>1, <4>2
    <3>5. Venue(s)!Crossing([side |-> side, limit |-> limit]) = {}
      <4>1. SUFFICES ASSUME NEW j \in Venue(s)!Crossing([side |-> side, limit |-> limit])
                     PROVE  FALSE
        OBVIOUS
      <4>2. /\ j \in OrderId /\ book[j].side = IF side = "buy" THEN "sell" ELSE "buy"
            /\ Venue(s)!Within(limit, side, book[j].price)
        BY <4>1 DEF Venue!Crossing, Venue!Makers, Venue!Opposite
      <4>3. open[j] > 0 /\ req[j].symbol = s
        <5>1. CASE ~(open[j] > 0 /\ req[j].symbol = s)
          <6>1. book[j].side = "none"
            BY <4>2, <5>1 DEF RestingOrders
          <6> HIDE DEF book
          <6> QED
            BY <4>2, <6>1
        <5> QED
          BY <5>1
      <4>4. book[j].side = req[j].side /\ book[j].price = req[j].price
        BY <4>2, <4>3 DEF RestingOrders
      <4> HIDE DEF book
      <4>5. j \in Opposite(taker)
        BY <1>7, <3>2, <4>2, <4>3, <4>4 DEF Opposite, Side
      <4>6. Reaches(taker, j)
        BY <3>1, <3>2, <4>2, <4>4 DEF Reaches, IsBuy, Venue!Within, Venue!NoLimit, Side
      <4>7. PICK m \in OrderId : IsNext(m, taker)
        BY <1>2, <3>1, <4>5, <4>6, SomebodyIsNext
      <4>8. MatchQty(m) <= 0
        BY <1>1, <3>1, <4>7
      <4>9. MatchQty(m) = Min({left, open[m]}) /\ open[m] > 0
        BY <3>1, <4>7 DEF MatchQty, IsNext, Opposite
      <4>10. Min({left, open[m]}) \in {left, open[m]}
        BY <1>3, MinIsEither
      <4> QED
        BY <1>3, <3>1, <4>8, <4>9, <4>10
    <3>6. RestingOrders(s)' = [book EXCEPT ![taker] =
             [side |-> side, price |-> limit, qty |-> left, arrival |-> arrivals + 1]]
      <4> DEFINE next == RestingOrders(s)'
                 new == [side |-> side, price |-> limit, qty |-> left, arrival |-> arrivals + 1]
      <4>1. next = [i \in OrderId |-> next[i]] /\ book = [i \in OrderId |-> book[i]]
        BY DEF RestingOrders
      <4>2. open'[taker] = left /\ arrival'[taker] = arrivals + 1 /\ req' = req
        BY <1>1, <1>2, <1>3, <3>1
      <4>3. next[taker] = new
        BY <1>2, <1>7, <3>1, <3>2, <4>2 DEF RestingOrders
      <4>4. \A i \in OrderId \ {taker} : open'[i] = open[i] /\ arrival'[i] = arrival[i]
        BY <1>3, <3>1
      <4>5. \A i \in OrderId \ {taker} : next[i] = book[i]
        BY <4>2, <4>4 DEF RestingOrders
      <4> HIDE DEF next, new, book
      <4>6. next = [book EXCEPT ![taker] = new]
        BY <4>1, <4>3, <4>5
      <4> QED
        BY <4>6 DEF next, new
    <3>7. Venue(s)!RestAs(taker, side, limit, left, arrivals + 1)
      BY <3>4, <3>5, <3>6 DEF Venue!RestAs
    <3>8. Venue(s)!Rest(arrivals + 1)
      <4>1. Incoming(s).id = taker /\ Incoming(s).side = side /\ Incoming(s).limit = limit
            /\ Incoming(s).left = left
        BY <2>1
      <4>2. limit # Venue(s)!NoLimit
        BY <3>2 DEF Venue!NoLimit
      <4> HIDE DEF limit, side
      <4> QED
        BY <2>2, <3>1, <3>7, <4>1, <4>2 DEF Venue!Rest
    <3> QED
      BY <3>3, <3>8 DEF Venue!Next
  <2> QED
    BY <2>3, <2>4
<1> QED
  BY <1>6, <1>7

\* A cancel withdraws the order from its symbol's venue.
LEMMA CancelIsWithdraw ==
    ASSUME WellFormed, NEW i \in OrderId, cancel(i)
    PROVE  VenueStep
<1>1. /\ pc = "idle" /\ pc' \in {"release", "save"} /\ UNCHANGED req
      /\ open' = [open EXCEPT ![i] = 0] /\ arrival' = [arrival EXCEPT ![i] = 0]
  BY DEF cancel, Goto
<1>2. open \in [OrderId -> Nat] /\ arrival \in [OrderId -> Nat]
  BY DEF WellFormed, TypeOK
<1>3. SUFFICES ASSUME NEW s \in Symbol PROVE Venue(s)!Next
  BY DEF VenueStep
<1>4. Incoming(s) = Venue(s)!NoTaker /\ Incoming(s)' = Venue(s)!NoTaker
  BY <1>1 DEF Incoming, Venue!NoTaker, Venue!NoLimit
<1> DEFINE book == RestingOrders(s)
           next == RestingOrders(s)'
<1>5. next = [j \in OrderId |-> next[j]] /\ book = [j \in OrderId |-> book[j]]
  BY DEF RestingOrders
<1>6. next[i] = Venue(s)!NotResting
  BY <1>1, <1>2 DEF RestingOrders, Venue!NotResting
<1>7. \A j \in OrderId \ {i} : next[j] = book[j]
  BY <1>1, <1>2 DEF RestingOrders
<1>8. next = [book EXCEPT ![i] = Venue(s)!NotResting]
  <2> HIDE DEF next, book
  <2> QED
    BY <1>5, <1>6, <1>7
<1>9. Venue(s)!Withdraw(i)
  BY <1>4, <1>8 DEF Venue!Withdraw
<1> QED
  BY <1>9 DEF Venue!Next

LEMMA OtherStepsLeaveVenue ==
    ASSUME WellFormed, WellFormed',
           \/ place \/ StartLimit
           \/ RecordTrade \/ Pay \/ PayRaises \/ BookBuyer \/ BookSeller \/ Advance \/ Finish
           \/ ReleaseHold \/ ReserveRest \/ ReserveRaises
           \/ SaveResting \/ SavePlaced \/ SaveAndReturn
           \/ (\E i \in OrderId : Activate(i)) \/ Quiescent \/ SetKillSwitch \/ UNCHANGED vars
    PROVE  VenueStep
<1>1. UNCHANGED <<open, arrival>>
  BY DEF place, PlaceInvalid, PlaceStop, PlaceNow, Register, StartLimit,
         RecordTrade, Pay, PayRaises, BookBuyer, BookSeller, BookPosition, Advance, Finish,
         ReleaseHold, ReserveRest, ReserveRaises, SaveResting, SavePlaced, SaveAndReturn,
         WriteRow, Activate, Quiescent, SetKillSwitch, vars
<1>2. \A i \in OrderId : open[i] > 0 => req'[i] = req[i]
  <2>1. CASE place
    <3>1. PICK r \in Request : Register(r)
      BY <2>1 DEF place, PlaceInvalid, PlaceStop, PlaceNow
    <3>2. req' = [req EXCEPT ![nextId] = r] /\ nextId \in OrderId
      BY <3>1 DEF Register
    <3>3. \A i \in OrderId : open[i] > 0 => i # nextId
      <4>1. nextId \in Int
        BY <3>2, OMSAssumption DEF OrderId
      <4>2. \A i \in OrderId : open[i] > 0 => i < nextId
        BY DEF WellFormed, CallsAreInOrder
      <4> QED
        BY <4>1, <4>2
    <3> QED
      BY <3>2, <3>3 DEF WellFormed, TypeOK
  <2>2. CASE ~place
    BY <2>2 DEF StartLimit,
         RecordTrade, Pay, PayRaises, BookBuyer, BookSeller, BookPosition, Advance, Finish,
         ReleaseHold, ReserveRest, ReserveRaises, SaveResting, SavePlaced, SaveAndReturn,
         WriteRow, Activate, Quiescent, SetKillSwitch, vars
  <2> QED
    BY <2>1, <2>2
<1>3. (pc # "match" /\ pc' # "match") \/ UNCHANGED <<pc, taker, req, left>>
  <2>1. CASE place \/ StartLimit
    BY <2>1 DEF place, PlaceInvalid, PlaceStop, PlaceNow, Register, StartLimit, Goto
  <2>2. CASE RecordTrade \/ Pay \/ PayRaises \/ BookBuyer \/ BookSeller \/ Advance \/ Finish
    BY <2>2 DEF RecordTrade, Pay, PayRaises, BookBuyer, BookSeller, Advance, Finish, ThenWrite,
         EndCall, Goto
  <2>3. CASE ReleaseHold \/ ReserveRest \/ ReserveRaises
    BY <2>3 DEF ReleaseHold, ReserveRest, ReserveRaises, EndCall, Goto
  <2>4. CASE SaveResting \/ SavePlaced \/ SaveAndReturn
    BY <2>4 DEF SaveResting, SavePlaced, SaveAndReturn, WriteRow, EndCall, Goto
  <2>5. CASE (\E i \in OrderId : Activate(i)) \/ Quiescent
    BY <2>5 DEF Activate, Quiescent, EndCall, Goto
  <2>6. CASE SetKillSwitch \/ UNCHANGED vars
    BY <2>6 DEF SetKillSwitch, vars
  <2> QED
    BY <2>1, <2>2, <2>3, <2>4, <2>5, <2>6
<1> QED
  BY <1>1, <1>2, <1>3, VenueLeftAlone DEF VenueStep

LEMMA StepIsPriority ==
    ASSUME WellFormed, WellFormed', QueueFits, [Next]_vars
    PROVE  VenueStep
<1>1. CASE CheckLimit \/ StartMarket
  BY <1>1, SweepIsArrive
<1>2. ASSUME NEW m \in OrderId, MatchOne(m) PROVE VenueStep
  BY <1>2, MatchIsTrade
<1>3. CASE MatchDone
  BY <1>3, ReturnIsRestOrLeave
<1>4. ASSUME NEW i \in OrderId, cancel(i) PROVE VenueStep
  BY <1>4, CancelIsWithdraw
<1>5. CASE \/ place \/ StartLimit
           \/ RecordTrade \/ Pay \/ PayRaises \/ BookBuyer \/ BookSeller \/ Advance \/ Finish
           \/ ReleaseHold \/ ReserveRest \/ ReserveRaises
           \/ SaveResting \/ SavePlaced \/ SaveAndReturn
           \/ (\E i \in OrderId : Activate(i)) \/ Quiescent \/ SetKillSwitch \/ UNCHANGED vars
  BY <1>5, OtherStepsLeaveVenue
<1> QED
  BY <1>1, <1>2, <1>3, <1>4, <1>5 DEF Next, Step

LEMMA VenueToStart ==
    ASSUME Init
    PROVE  QueueFits /\ \A s \in Symbol : Venue(s)!Init
<1>1. \A i \in OrderId : ~Waits(i) /\ open[i] = 0
  BY DEF Init, Waits, Sweepable
<1>2. 0 <= Cardinality(Entered)
  <2>1. Cardinality(Entered) \in Nat
    BY EnteredAreOrders, EnteredGrows
  <2> QED
    BY <2>1
<1>3. QueueFits
  BY <1>1, <1>2 DEF Init, QueueFits, Sweepable
<1>4. ASSUME NEW s \in Symbol PROVE Venue(s)!Init
  <2>1. RestingOrders(s) = [i \in OrderId |-> Venue(s)!NotResting]
    BY <1>1 DEF RestingOrders, Venue!NotResting
  <2>2. Incoming(s) = Venue(s)!NoTaker
    BY DEF Init, Incoming, Venue!NoTaker, Venue!NoLimit
  <2> QED
    BY <2>1, <2>2 DEF Venue!Init
<1> QED
  BY <1>3, <1>4

\* The service drives the venue of every symbol (oms.py's place, cancel and triggers on
\* matching.py's books) as a venue by price and time: an order arrives once, its fills go
\* to the first of the orders it reaches, it comes to rest behind all of them when it
\* reaches none, and nothing but a cancel takes it away.
THEOREM ServiceKeepsPriority == Spec => KeepsPriority
<1>1. Init => WellFormed /\ QueueFits /\ \A s \in Symbol : Venue(s)!Init
  BY InitIsWellFormed, VenueToStart
<1>2. WellFormed /\ QueueFits /\ [Next]_vars => WellFormed' /\ QueueFits'
  BY StepsKeepForm, QueueStaysFit
<1>3. WellFormed /\ WellFormed' /\ QueueFits /\ [Next]_vars => [VenueStep]_vars
  BY StepIsPriority
<1>4. KeepsPriority <=> (\A s \in Symbol : Venue(s)!Init) /\ [][VenueStep]_vars
  BY DEF KeepsPriority, VenueStep
<1> QED
  BY <1>1, <1>2, <1>3, <1>4, PTL DEF Spec
=============================================================================
