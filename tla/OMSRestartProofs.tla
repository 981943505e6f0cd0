-------------------------- MODULE OMSRestartProofs --------------------------
(***************************************************************************)
(* Theorems about the order service over restarts and crashes: what the    *)
(* tables hold when the process dies between any two commits, and what     *)
(* OMS._restore (oms.py) makes of it, for every set of accounts, symbols   *)
(* and tickets and any number of restarts.                                 *)
(*                                                                         *)
(* OMSProofs says how the books agree while the process lives.  Here they  *)
(* need not: a crash may leave a trade unpaid, a position half booked or a *)
(* reservation without its order.  What is left true is said in layers.    *)
(* RestartForm is true of everything, at any time.  On it stand what an    *)
(* order is still offered for (so that a finished order is never reopened, *)
(* and nothing is offered twice), which reservations have an order, and    *)
(* how the prices of book, fills and rows lie apart.  LifeForm is what     *)
(* holds besides while no crash has come: rows, stops, prices and queue    *)
(* mirror memory, so that reading them back changes nothing.               *)
(***************************************************************************)
EXTENDS OMSProofs

USE DEF processVars, orderVars, bookVars, ledgerVars, tradeVars, callVars

-----------------------------------------------------------------------------
(* What is true of tables and memory at any time, crashes or not. *)

\* An order is on its way into the table.
Writing == pc \in {"release", "reserve", "save"}

\* Only orders have rows; an open row is one of an order that may rest, a pending one has
\* no fill.
RowsFit ==
    \A i \in OrderId :
        /\ Row(i) => i \in Used
        /\ saved[i].status \in Open => Rests(i) /\ req[i].price > 0
        /\ saved[i].status = "pending" => saved[i].filled = 0

\* Whatever rests, trades as a maker or is written as open may rest.
TradingFits ==
    /\ \A i \in OrderId : open[i] > 0 => Rests(i)
    /\ \A n \in DOMAIN fills : Rests(fills[n].maker)
    /\ Sweeping /\ IsLimit(taker) => req[taker].price > 0
    /\ Writing =>
          /\ status[subject] \in Open => Rests(subject) /\ req[subject].price > 0
          /\ status[subject] = "pending" => filled[subject] = 0

\* Nothing has happened to i yet.
Untouched(i) == filled[i] = 0 /\ open[i] = 0 /\ Coming(i) = 0

\* A ticket that is not placed, or waits as a stop, is untouched; the one being placed has
\* in the book what its sweep left, and no fill on its record.
CallFits ==
    /\ \A i \in OrderId \ Used : Untouched(i)
    /\ \A i \in pendingStops : Untouched(i) /\ status[i] = "pending"
    /\ Placing =>
          /\ taker \notin pendingStops /\ filled[taker] = 0
          /\ open[taker] = IF left > 0 /\ Rests(taker) /\ pc \notin {"start", "risk", "match"}
                           THEN left ELSE 0
    /\ Sweeping => left >= 0 /\ left <= req[taker].qty
    /\ MakerTurn => subject = Fill.maker
    /\ ~Placing => fills = <<>>
    /\ pc = "risk" => IsLimit(taker)

\* A row counts as closed or open only if it is there.
LEMMA RowsAreRows ==
    ASSUME WellFormed
    PROVE  /\ \A i \in OrderId : saved[i].status \in Status \cup {"none"} /\ saved[i].filled \in Int
           /\ \A i \in OrderId : Row(i) <=> saved[i].status # "none"
<1>1. ASSUME NEW i \in OrderId
      PROVE  /\ saved[i].status \in Status \cup {"none"} /\ saved[i].filled \in Int
             /\ Row(i) <=> saved[i].status # "none"
  <2>1. saved[i] \in [status : Status, filled : Int] \cup {NoRow}
    BY DEF WellFormed, TypeOK
  <2> QED
    BY <2>1 DEF NoRow, Row, Status
<1> QED
  BY <1>1

\* The last id read is the largest of the rows'.
LEMMA LastIdIsLargest ==
    /\ LastId \in 0 .. MaxOrders
    /\ \A i \in OrderId : Row(i) => i <= LastId
    /\ LastId = 0 \/ (LastId \in OrderId /\ Row(LastId))
<1> DEFINE S == {0} \cup Rows
<1>1. IsFiniteSet(S) /\ S # {} /\ (\A y \in S : y \in Int) /\ S \subseteq 0 .. MaxOrders
  <2>1. S \subseteq 0 .. MaxOrders
    BY OMSAssumption DEF Rows, OrderId
  <2>2. IsFiniteSet(0 .. MaxOrders)
    BY OMSAssumption, FS_Interval
  <2>3. IsFiniteSet(S)
    BY <2>1, <2>2, FS_Subset
  <2> QED
    BY <2>1, <2>3
<1>2. \A i \in OrderId : Row(i) => i \in S
  BY DEF Rows
<1>3. LastId = Max(S)
  BY DEF LastId
<1>7. \A x \in S : x = 0 \/ (x \in OrderId /\ Row(x))
  BY DEF Rows
<1> HIDE DEF S
<1>4. \E x \in S : \A y \in S : x >= y
  BY <1>1, LargestExists
<1>5. Max(S) \in S /\ \A y \in S : Max(S) >= y
  BY <1>4 DEF Max
<1>6. \A y \in S : y <= Max(S)
  BY <1>1, <1>5
<1> QED
  BY <1>1, <1>2, <1>3, <1>5, <1>6, <1>7

\* The price restored for a symbol is one the tape shows.
LEMMA LastTradeIsPrice ==
    ASSUME WellFormed, NEW s
    PROVE  LastTrade(s) \in Int
<1> DEFINE S == {n \in DOMAIN tape : tape[n].symbol = s}
<1>1. tape \in Seq(Trade)
  BY DEF WellFormed, TypeOK
<1>2. DOMAIN tape = 1 .. Len(tape) /\ Len(tape) \in Nat /\ \A n \in DOMAIN tape : tape[n].price \in Int
  <2>1. DOMAIN tape = 1 .. Len(tape) /\ Len(tape) \in Nat /\ \A n \in DOMAIN tape : tape[n] \in Trade
    BY <1>1
  <2> QED
    BY <2>1 DEF Trade
<1>3. LastTrade(s) = IF S = {} THEN 0 ELSE tape[Max(S)].price
  BY DEF LastTrade
<1>4. CASE S # {}
  <2>1. S \subseteq 1 .. Len(tape) /\ \A y \in S : y \in Int
    BY <1>2
  <2>2. IsFiniteSet(1 .. Len(tape))
    BY <1>2, FS_Interval
  <2>3. IsFiniteSet(S)
    BY <2>1, <2>2, FS_Subset
  <2>4. S \subseteq DOMAIN tape
    OBVIOUS
  <2> HIDE DEF S
  <2>5. \E x \in S : \A y \in S : x >= y
    BY <1>4, <2>1, <2>3, LargestExists
  <2>6. Max(S) \in S
    BY <2>5 DEF Max
  <2> QED
    BY <1>2, <1>3, <1>4, <2>4, <2>6
<1> QED
  BY <1>3, <1>4

\* What is read back from the tables is in order, wherever the process died.
LEMMA RestoringIsWellFormed ==
    ASSUME WellFormed, RowsFit, Restore
    PROVE  WellFormed' /\ FillsAreFresh'
<1>1. /\ req' = [i \in OrderId |-> IF Row(i) THEN req[i] ELSE NoRequest]
      /\ status' = [i \in OrderId |-> saved[i].status]
      /\ filled' = [i \in OrderId |-> saved[i].filled]
      /\ nextId' = 1 + LastId
      /\ pendingStops' = {i \in OrderId : saved[i].status = "pending"}
      /\ lastPrice' = [s \in Symbol |-> LastTrade(s)]
      /\ open' = [i \in OrderId |-> IF Reopens(i) THEN Reopened(i) ELSE 0]
      /\ arrival' = [i \in OrderId |-> IF Reopens(i) THEN QueuedAs(i) ELSE 0]
      /\ arrivals' = MaxOrders /\ kill' = FALSE /\ cleared' = 0 /\ restarts' = restarts + 1
      /\ UNCHANGED <<ledgerVars, tradeVars, saved>>
      /\ pc' = "idle" /\ taker' = 0 /\ subject' = 0 /\ fills' = <<>> /\ left' = 0 /\ budget' = 0
  BY DEF Restore, EndCall, Goto
<1>2. \A i \in OrderId : /\ saved[i].status \in Status \cup {"none"} /\ saved[i].filled \in Int
                         /\ Row(i) <=> saved[i].status # "none"
  BY RowsAreRows
<1>3. \A i \in OrderId : Reopens(i) => /\ Reopened(i) \in Nat /\ Row(i) /\ req[i].price > 0
  <2> SUFFICES ASSUME NEW i \in OrderId, Reopens(i)
               PROVE  Reopened(i) \in Nat /\ Row(i) /\ req[i].price > 0
    OBVIOUS
  <2>1. saved[i].status \in Open /\ req[i].qty - saved[i].filled > 0
    BY DEF Reopens
  <2>2. Row(i) /\ req[i].price > 0 /\ i \in Used
    BY <1>2, <2>1 DEF RowsFit, Open
  <2>3. req[i].qty \in Int
    BY <2>2, UsedIsTicket DEF WellFormed
  <2> QED
    BY <1>2, <2>1, <2>2, <2>3 DEF Reopened
<1>4. LastId \in 0 .. MaxOrders /\ \A i \in OrderId : Row(i) => i <= LastId
  BY LastIdIsLargest
<1>5. TypeOK'
  <2>1. /\ req' \in [OrderId -> Request \cup {NoRequest}]
        /\ status' \in [OrderId -> Status \cup {"none"}]
        /\ filled' \in [OrderId -> Int]
    BY <1>1, <1>2 DEF WellFormed, TypeOK
  <2>2. nextId' \in 1 .. MaxOrders + 1 /\ arrivals' \in Nat /\ restarts' \in Nat
    BY <1>1, <1>4, OMSAssumption DEF WellFormed, TypeOK
  <2>3. pendingStops' \subseteq OrderId
    BY <1>1
  <2>4. lastPrice' \in [Symbol -> Int]
    BY <1>1, LastTradeIsPrice
  <2>5. open' \in [OrderId -> Nat]
    BY <1>1, <1>3
  <2>6. arrival' \in [OrderId -> Nat]
    BY <1>1 DEF QueuedAs, OrderId
  <2>7. fills' \in Seq(FillRecord)
    BY <1>1, NoFillsTyped
  <2>8. /\ pc' \in PC /\ taker' \in OrderId \cup {0} /\ subject' \in OrderId \cup {0}
        /\ left' \in Int /\ budget' \in Int
    BY <1>1 DEF PC
  <2>10. kill' \in BOOLEAN /\ cleared' \in OrderId \cup {0}
    BY <1>1
  <2>9. UNCHANGED <<balance, reserved, hold, posted, tape, position, saved>>
    BY <1>1
  <2> QED
    BY <2>1, <2>2, <2>3, <2>4, <2>5, <2>6, <2>7, <2>8, <2>9, <2>10 DEF WellFormed, TypeOK
<1>6. \A i \in OrderId : Row(i) => req'[i] = req[i] /\ req[i] # NoRequest
  BY <1>1 DEF RowsFit, Used
<1>7. Used' = Rows
  BY <1>1, <1>6 DEF Used, Rows
<1>8. CallsAreInOrder'
  <2>1. \A i \in Used' : i < nextId'
    BY <1>1, <1>4, <1>7 DEF Rows, OrderId
  <2>2. \A i \in OrderId : status'[i] # "none" <=> i \in Used'
    BY <1>1, <1>2, <1>7 DEF Rows
  <2>3. \A i \in OrderId : open'[i] > 0 => i \in Used' /\ req'[i].price > 0
    BY <1>1, <1>3, <1>6, <1>7 DEF Rows
  <2>4. pendingStops' \subseteq Used'
    BY <1>1, <1>2, <1>7 DEF Rows
  <2> QED
    BY <1>1, <2>1, <2>2, <2>3, <2>4, EmptyHasNoIndex DEF CallsAreInOrder
<1>9. FillsAreFresh'
  BY <1>1, NoFills
<1> QED
  BY <1>5, <1>8, <1>9 DEF WellFormed

\* Tickets and rows: a registered ticket stays as it is while the process lives, and the only
\* row a step writes is that of the order whose turn it is.
LEMMA RowsMove ==
    ASSUME WellFormed, [Next]_vars
    PROVE  /\ \A i \in Used : i \in Used' /\ req'[i] = req[i]
           /\ restarts' = restarts
           /\ \/ saved' = saved
              \/ /\ pc = "save" /\ subject \in Used
                 /\ saved' = [saved EXCEPT ![subject] =
                                [status |-> status[subject], filled |-> filled[subject]]]
<1>1. CASE place
  <2>1. PICK r \in Request : nextId \in OrderId /\ req' = [req EXCEPT ![nextId] = r]
                             /\ saved' = saved /\ restarts' = restarts
    BY <1>1 DEF place, PlaceInvalid, PlaceStop, PlaceNow, Register
  <2>2. nextId \notin Used
    <3>1. nextId \in OrderId
      BY <2>1
    <3>2. nextId \in Int
      BY <3>1 DEF OrderId
    <3>3. \A i \in Used : i < nextId
      BY DEF WellFormed, CallsAreInOrder
    <3> QED
      BY <3>2, <3>3
  <2>3. \A i \in Used : req'[i] = req[i]
    BY <2>1, <2>2 DEF WellFormed, TypeOK, Used
  <2> QED
    BY <2>1, <2>3 DEF Used
<1>2. CASE SaveResting \/ SavePlaced \/ SaveAndReturn
  <2>1. WriteRow
    BY <1>2 DEF SaveResting, SavePlaced, SaveAndReturn
  <2>2. pc = "save" /\ UNCHANGED <<req, restarts>>
        /\ saved' = [saved EXCEPT ![subject] =
                        [status |-> status[subject], filled |-> filled[subject]]]
    BY <2>1 DEF WriteRow
  <2>3. subject \in Used
    BY <2>2 DEF WellFormed, CallsAreInOrder
  <2> QED
    BY <2>2, <2>3 DEF Used
<1>3. CASE UNCHANGED <<req, saved, restarts>>
  BY <1>3 DEF Used
<1>4. CASE StartLimit \/ CheckLimit \/ StartMarket
  <2>1. UNCHANGED <<req, saved, restarts>>
    BY <1>4 DEF StartLimit, CheckLimit, StartMarket
  <2> QED
    BY <1>3, <2>1
<1>5. CASE (\E m \in OrderId : MatchOne(m)) \/ MatchDone
  <2>1. UNCHANGED <<req, saved, restarts>>
    BY <1>5 DEF MatchOne, MatchDone
  <2> QED
    BY <1>3, <2>1
<1>6. CASE RecordTrade \/ Pay \/ PayRaises \/ BookBuyer \/ BookSeller
  <2>1. UNCHANGED <<req, saved, restarts>>
    BY <1>6 DEF RecordTrade, Pay, PayRaises, BookBuyer, BookSeller, BookPosition
  <2> QED
    BY <1>3, <2>1
<1>7. CASE Advance \/ Finish \/ ReleaseHold \/ ReserveRest \/ ReserveRaises
  <2>1. UNCHANGED <<req, saved, restarts>>
    BY <1>7 DEF Advance, Finish, ReleaseHold, ReserveRest, ReserveRaises
  <2> QED
    BY <1>3, <2>1
<1>8. CASE (\E i \in OrderId : Activate(i) \/ cancel(i)) \/ Quiescent \/ SetKillSwitch
  <2>1. UNCHANGED <<req, saved, restarts>>
    BY <1>8 DEF Activate, cancel, Quiescent, SetKillSwitch
  <2> QED
    BY <1>3, <2>1
<1>9. CASE UNCHANGED vars
  BY <1>3, <1>9 DEF vars
<1> QED
  BY <1>1, <1>2, <1>4, <1>5, <1>6, <1>7, <1>8, <1>9 DEF Next, Step

\* The rows stay in order, whatever is written or lost.
LEMMA RowsStayFit ==
    ASSUME WellFormed, RowsFit, TradingFits, [Next]_vars
    PROVE  RowsFit'
<1> SUFFICES ASSUME NEW i \in OrderId
             PROVE  /\ Row(i)' => i \in Used'
                    /\ saved'[i].status \in Open => Rests(i)' /\ req'[i].price > 0
                    /\ saved'[i].status = "pending" => saved'[i].filled = 0
  BY DEF RowsFit
<1>1. /\ \A j \in Used : j \in Used' /\ req'[j] = req[j]
      /\ \/ saved' = saved
         \/ /\ pc = "save" /\ subject \in Used
            /\ saved' = [saved EXCEPT ![subject] =
                            [status |-> status[subject], filled |-> filled[subject]]]
  BY RowsMove
<1>2. CASE saved'[i] = saved[i]
  <2>1. saved[i].status \in Open => Row(i)
    BY RowsAreRows DEF Open
  <2> QED
    BY <1>1, <1>2, <2>1 DEF RowsFit, Row, Rests, IsLimit
<1>3. CASE saved'[i] # saved[i]
  <2>1. i = subject /\ i \in Used /\ pc = "save" /\ saved \in [OrderId -> [status : Status, filled : Int] \cup {NoRow}]
    BY <1>1, <1>3 DEF WellFormed, TypeOK
  <2>2. saved'[i].status = status[i] /\ saved'[i].filled = filled[i]
    BY <1>1, <1>3, <2>1
  <2> QED
    BY <1>1, <2>1, <2>2 DEF TradingFits, Writing, Rests, IsLimit
<1> QED
  BY <1>2, <1>3

\* What the fills bring is a number, whoever it is for.
LEMMA ComingIsNatural ==
    ASSUME WellFormed
    PROVE  \A i : Coming(i) \in Nat
<1>1. fills \in Seq(FillRecord) /\ 0 \in Nat
  BY DEF WellFormed, TypeOK
<1> QED
  BY <1>1, SumsOfFills DEF Coming

\* Without fills nothing is on its way.
LEMMA NothingComes ==
    ASSUME fills' = <<>>
    PROVE  \A i : Coming(i)' = 0
BY NoFillsNoSums DEF Coming

\* What the fill in hand takes is coming.
LEMMA HeadIsComing ==
    ASSUME WellFormed, fills # <<>>
    PROVE  /\ Fill = fills[1] /\ 1 \in DOMAIN fills
           /\ Fill \in FillRecord /\ Fill.qty \in Nat \ {0} /\ Fill.maker \in OrderId
           /\ Fill.maker \in Used
           /\ Coming(Fill.maker) >= Fill.qty
           /\ Tail(fills) \in Seq(FillRecord)
           /\ \A i : ComingIn(Tail(fills), i) = Coming(i) - IF i = Fill.maker THEN Fill.qty ELSE 0
<1>1. fills \in Seq(FillRecord)
  BY DEF WellFormed, TypeOK
<1>2. /\ Fill = fills[1] /\ 1 \in DOMAIN fills /\ Fill \in FillRecord
      /\ Tail(fills) \in Seq(FillRecord)
  BY <1>1, TailShifts DEF Fill
<1>3. Fill.qty \in Nat \ {0} /\ Fill.maker \in OrderId /\ Fill.maker \in Used
  BY <1>2 DEF FillRecord, WellFormed, CallsAreInOrder
<1>4. ASSUME NEW i
      PROVE  ComingIn(Tail(fills), i) = Coming(i) - IF i = Fill.maker THEN Fill.qty ELSE 0
  <2>1. 0 \in Nat
    OBVIOUS
  <2> QED
    BY <1>1, <2>1, FillsShifted DEF Coming, Fill
<1>5. ComingIn(Tail(fills), Fill.maker) \in Nat /\ Coming(Fill.maker) \in Nat
  <2>1. 0 \in Nat
    OBVIOUS
  <2> QED
    BY <1>1, <1>2, <2>1, SumsOfFills DEF Coming
<1>6. Coming(Fill.maker) >= Fill.qty
  <2> DEFINE m == Fill.maker
             x == ComingIn(Tail(fills), m)
             y == Coming(m)
             q == Fill.qty
  <2>1. x \in Nat /\ y \in Nat /\ q \in Nat /\ x = y - q
    BY <1>3, <1>4, <1>5
  <2> HIDE DEF x, y, q
  <2>2. y >= q
    BY <2>1
  <2> QED
    BY <2>2 DEF y, q
<1> QED
  BY <1>2, <1>3, <1>4, <1>6

\* Steps that move no fill, register no ticket and change no order leave trading fit.
LEMMA QuietStepsKeepCall ==
    ASSUME WellFormed, TradingFits, CallFits,
           UNCHANGED <<req, filled, open, fills>>,
           pendingStops' = pendingStops,
           \A i \in pendingStops : status'[i] = status[i],
           Placing' => Placing /\ taker' = taker /\ left' = left
                       /\ (pc' \in {"start", "risk", "match"} <=> pc \in {"start", "risk", "match"}),
           Sweeping' => Sweeping,
           ~Placing' => fills = <<>>,
           MakerTurn' => MakerTurn,
           Writing' => Writing /\ subject' = subject /\ status'[subject] = status[subject],
           pc' = "risk" => pc = "risk" /\ taker' = taker
    PROVE  TradingFits' /\ CallFits'
<1>1. /\ \A i : Rests(i)' = Rests(i) /\ IsLimit(i)' = IsLimit(i)
      /\ \A i : Coming(i)' = Coming(i)
      /\ Used' = Used
  BY DEF Rests, IsLimit, Coming, Used
<1>2. \A i : Untouched(i)' <=> Untouched(i)
  BY <1>1 DEF Untouched
<1>3. Sweeping' => Placing' /\ taker' = taker
  BY DEF Placing
<1>4. TradingFits'
  BY <1>1, <1>3 DEF TradingFits
<1>5. CallFits'
  BY <1>1, <1>2, <1>3 DEF CallFits, MakerTurn, Writing, Fill
<1> QED
  BY <1>4, <1>5

\* place: the ticket is untouched by trading.
LEMMA PlacingKeepsCall ==
    ASSUME WellFormed, TradingFits, CallFits, NEW r \in Request,
           PlaceInvalid(r) \/ PlaceStop(r) \/ PlaceNow(r)
    PROVE  TradingFits' /\ CallFits'
<1>1. /\ pc = "idle" /\ nextId \in OrderId /\ req' = [req EXCEPT ![nextId] = r]
      /\ UNCHANGED <<filled, open, fills, left>>
  BY DEF PlaceInvalid, PlaceStop, PlaceNow, Register
<1>2. \/ /\ pc' = "save" /\ subject' = nextId /\ taker' \in {0, nextId}
         /\ \/ pendingStops' = pendingStops /\ status' = [status EXCEPT ![nextId] = "rejected"]
            \/ pendingStops' = pendingStops \cup {nextId} /\ status' = [status EXCEPT ![nextId] = "pending"]
      \/ /\ pc' = "start" /\ taker' = nextId /\ UNCHANGED pendingStops
         /\ status' = [status EXCEPT ![nextId] = "new"]
  <2>1. taker = 0
    BY <1>1 DEF WellFormed, CallsAreInOrder
  <2> QED
    BY <2>1 DEF PlaceInvalid, PlaceStop, PlaceNow, Conclude, Goto
<1>3. nextId \notin Used /\ nextId # 0
  BY <1>1 DEF WellFormed, TypeOK, CallsAreInOrder, OrderId
<1>4. Untouched(nextId) /\ nextId \notin pendingStops
  BY <1>1, <1>3 DEF CallFits, WellFormed, CallsAreInOrder
<1>5. fills = <<>>
  BY <1>1 DEF CallFits, Placing, Sweeping, Recorded, MakerTurn
<1>6. /\ \A i \in OrderId \ {nextId} : Rests(i)' = Rests(i)
      /\ \A i : Untouched(i)' <=> Untouched(i)
      /\ Used' \cup {nextId} = Used \cup {nextId}
  BY <1>1 DEF WellFormed, TypeOK, Rests, IsLimit, Coming, Untouched, Used
<1>7. ~Sweeping' /\ ~MakerTurn' /\ (Placing' => pc' = "start")
  BY <1>2, <1>3 DEF Placing, Sweeping, Recorded, MakerTurn
<1>8. TradingFits'
  <2>1. \A i \in OrderId : open'[i] > 0 => Rests(i)'
    BY <1>1, <1>4, <1>6 DEF TradingFits, Untouched
  <2>2. DOMAIN fills' = {}
    BY <1>1, <1>5, EmptyHasNoIndex
  <2>3. Writing' => status'[subject'] \notin Open /\ (status'[subject'] = "pending" => filled'[subject'] = 0)
    BY <1>1, <1>2, <1>4 DEF Writing, WellFormed, TypeOK, Open, Untouched
  <2> QED
    BY <1>7, <2>1, <2>2, <2>3 DEF TradingFits
<1>9. CallFits'
  <2>1. \A i \in OrderId \ Used' : Untouched(i)'
    BY <1>4, <1>6 DEF CallFits
  <2>2. \A i \in pendingStops' : Untouched(i)' /\ status'[i] = "pending"
    <3>1. \A i \in pendingStops : i # nextId /\ i \in OrderId /\ Untouched(i) /\ status[i] = "pending"
      BY <1>4 DEF CallFits, WellFormed, TypeOK
    <3>2. status \in [OrderId -> Status \cup {"none"}] /\ nextId \in OrderId
      BY <1>1 DEF WellFormed, TypeOK
    <3> QED
      BY <1>1, <1>2, <1>4, <1>6, <3>1, <3>2
  <2>3. Placing' => /\ taker' \notin pendingStops' /\ filled'[taker'] = 0 /\ open'[taker'] = 0
                    /\ pc' = "start"
    BY <1>1, <1>2, <1>4, <1>7 DEF Untouched
  <2>4. ~MakerTurn' /\ ~Sweeping' /\ fills' = <<>> /\ pc' # "risk"
    BY <1>1, <1>2, <1>5, <1>7
  <2> QED
    BY <2>1, <2>2, <2>3, <2>4 DEF CallFits
<1> QED
  BY <1>8, <1>9

\* Checks: the order begins its sweep with everything left, or is finished.
LEMMA ChecksKeepCall ==
    ASSUME WellFormed, FillsAreFresh, TradingFits, CallFits,
           StartLimit \/ CheckLimit \/ StartMarket
    PROVE  TradingFits' /\ CallFits'
<1>1. /\ pc \in {"start", "risk"} /\ taker \in Used /\ taker # 0 /\ taker \in OrderId
      /\ UNCHANGED <<req, filled, open, fills, pendingStops, taker>>
  BY DEF StartLimit, CheckLimit, StartMarket, WellFormed, CallsAreInOrder, Used
<1>2. \/ pc' = "risk" /\ IsLimit(taker) /\ UNCHANGED <<status, subject, left>>
      \/ /\ pc' = "match" /\ left' = req[taker].qty /\ req[taker].qty > 0
         /\ IsLimit(taker) => req[taker].price > 0
         /\ UNCHANGED <<status, subject>>
      \/ /\ pc' \in {"save", "release"} /\ subject' = taker /\ left' = left
         /\ \E st \in {"rejected", "canceled"} : status' = [status EXCEPT ![taker] = st]
  BY DEF StartLimit, CheckLimit, StartMarket, Sweep, Conclude, ThenWrite, Goto, LimitAllowed,
         QuantityAllowed
<1>3. /\ fills = <<>>
      /\ Placing /\ taker \notin pendingStops /\ filled[taker] = 0 /\ open[taker] = 0
  BY <1>1 DEF Placing, CallFits, FillsAreFresh
<1>4. /\ \A i : Rests(i)' = Rests(i) /\ IsLimit(i)' = IsLimit(i)
      /\ \A i : Untouched(i)' <=> Untouched(i)
      /\ Used' = Used
  BY <1>1 DEF Rests, IsLimit, Coming, Untouched, Used
<1>5. /\ Sweeping' => pc' = "match"
      /\ ~MakerTurn'
      /\ Placing' <=> pc' \in {"risk", "match"}
  BY <1>1, <1>2 DEF Placing, Sweeping, Recorded, MakerTurn
<1>6. TradingFits'
  BY <1>1, <1>2, <1>4, <1>5 DEF TradingFits, Writing, WellFormed, TypeOK, Open
<1>7. CallFits'
  <2>1. \A i \in pendingStops' : Untouched(i)' /\ status'[i] = "pending"
    BY <1>1, <1>2, <1>3, <1>4 DEF CallFits, WellFormed, TypeOK
  <2>2. req[taker].qty \in Int
    BY <1>1, UsedIsTicket DEF WellFormed
  <2>3. Sweeping' => left' >= 0 /\ left' <= req'[taker'].qty
    BY <1>1, <1>2, <1>5, <2>2
  <2> QED
    BY <1>1, <1>2, <1>3, <1>4, <1>5, <2>1, <2>3 DEF CallFits
<1> QED
  BY <1>6, <1>7

\* What one fill of a sweep moves.
LEMMA MatchingMoves ==
    ASSUME WellFormed, NEW m \in OrderId, MatchOne(m)
    PROVE  LET q == MatchQty(m)
           IN  /\ pc = "match" /\ q \in Nat \ {0} /\ q <= left /\ q <= open[m] /\ open[m] > 0
               /\ m \in Used /\ taker \in Used /\ m # taker
               /\ req[m].side # req[taker].side /\ req[m].symbol = req[taker].symbol
               /\ UNCHANGED <<orderVars, arrivals, ledgerVars, tradeVars, processVars, saved, pc, taker, subject>>
               /\ left' = left - q
               /\ open' = [open EXCEPT ![m] = open[m] - q]
               /\ \A i : Coming(i)' = Coming(i) + IF i = m THEN q ELSE 0
               /\ DOMAIN fills = 1 .. Len(fills) /\ Len(fills) \in Nat
               /\ DOMAIN fills' = 1 .. Len(fills) + 1 /\ Len(fills') = Len(fills) + 1
               /\ \A n \in 1 .. Len(fills) : fills'[n] = fills[n]
               /\ fills'[Len(fills) + 1].maker = m
               /\ fills # <<>> => Fill' = Fill
<1>1. PICK q, e, fs : q = MatchQty(m) /\ e = [maker |-> m, price |-> req[m].price, qty |-> q] /\ fs = fills
  OBVIOUS
<1>2. q \in Nat \ {0} /\ q <= left /\ q <= open[m] /\ m \in Used /\ taker \in Used /\ m # taker
  BY <1>1, MatchTakesWhatIsLeft
<1>3. /\ pc = "match" /\ open[m] > 0 /\ req[m].side # req[taker].side /\ req[m].symbol = req[taker].symbol
      /\ UNCHANGED <<orderVars, arrivals, ledgerVars, tradeVars, processVars, saved, pc, taker, subject>>
      /\ left' = left - q /\ fills' = Append(fs, e)
      /\ open' = [open EXCEPT ![m] = open[m] - q]
  BY <1>1 DEF MatchOne, IsNext, Opposite
<1>4. e \in FillRecord /\ e.maker = m /\ e.qty = q
  <2>1. req[m].price \in Int
    BY <1>2, UsedIsTicket DEF WellFormed
  <2> QED
    BY <1>1, <1>2, <2>1 DEF FillRecord
<1>5. fs \in Seq(FillRecord) /\ 0 \in Nat
  BY <1>1 DEF WellFormed, TypeOK
<1>6. \A i : ComingIn(Append(fs, e), i) = ComingIn(fs, i) + IF i = m THEN q ELSE 0
  BY <1>4, <1>5, FillsAppended
<1>7. /\ DOMAIN fs = 1 .. Len(fs) /\ Len(fs) \in Nat
      /\ DOMAIN Append(fs, e) = 1 .. Len(fs) + 1 /\ Len(Append(fs, e)) = Len(fs) + 1
      /\ \A n \in 1 .. Len(fs) : Append(fs, e)[n] = fs[n]
      /\ Append(fs, e)[Len(fs) + 1] = e
  BY <1>4, <1>5
<1>8. fs # <<>> => Head(Append(fs, e)) = Head(fs)
  BY <1>4, <1>5
<1> QED
  BY <1>1, <1>2, <1>3, <1>4, <1>6, <1>7, <1>8 DEF Coming, Fill

\* A fill: its maker rested, so it may trade.
LEMMA MatchingKeepsCall ==
    ASSUME WellFormed, TradingFits, CallFits, NEW m \in OrderId, MatchOne(m)
    PROVE  TradingFits' /\ CallFits'
<1>1. PICK q : q = MatchQty(m)
  OBVIOUS
<1>2. /\ pc = "match" /\ q \in Nat \ {0} /\ q <= left /\ q <= open[m] /\ open[m] > 0
      /\ m \in Used /\ taker \in Used /\ m # taker
      /\ UNCHANGED <<req, status, filled, pendingStops, pc, taker, subject>>
      /\ left' = left - q
      /\ open' = [open EXCEPT ![m] = open[m] - q]
      /\ \A i : Coming(i)' = Coming(i) + IF i = m THEN q ELSE 0
      /\ DOMAIN fills = 1 .. Len(fills) /\ DOMAIN fills' = 1 .. Len(fills) + 1 /\ Len(fills) \in Nat
      /\ \A n \in 1 .. Len(fills) : fills'[n] = fills[n]
      /\ fills'[Len(fills) + 1].maker = m
  BY <1>1, MatchingMoves
<1>3. /\ \A i : Rests(i)' = Rests(i) /\ IsLimit(i)' = IsLimit(i)
      /\ Used' = Used
  BY <1>2 DEF Rests, IsLimit, Used
<1>4. \A i \in OrderId : Untouched(i) => i # m /\ Untouched(i)'
  <2>1. \A i \in OrderId : Coming(i) \in Nat
    BY ComingIsNatural
  <2> QED
    BY <1>2, <2>1 DEF Untouched, WellFormed, TypeOK
<1>5. Placing /\ Sweeping /\ Placing' /\ Sweeping' /\ ~MakerTurn' /\ ~Writing'
  BY <1>2 DEF Placing, Sweeping, MakerTurn, Writing
<1>6. left \in Int /\ req[taker].qty \in Int /\ open[taker] = 0 /\ taker \in OrderId
  <2>1. open[taker] = 0
    BY <1>2, <1>5 DEF CallFits
  <2> QED
    BY <1>2, <2>1, UsedIsTicket DEF WellFormed, TypeOK, Used
<1>7. TradingFits'
  <2>1. \A i \in OrderId : open'[i] > 0 => Rests(i)'
    <3>1. \A i \in OrderId : open'[i] > 0 => open[i] > 0
      BY <1>2 DEF WellFormed, TypeOK
    <3> QED
      BY <1>3, <3>1 DEF TradingFits
  <2>2. Rests(m)
    BY <1>2 DEF TradingFits
  <2>3. \A n \in DOMAIN fills' : Rests(fills[n].maker)'
    <3>1. \A n \in 1 .. Len(fills) + 1 : n \in 1 .. Len(fills) \/ n = Len(fills) + 1
      BY <1>2
    <3>2. \A n \in 1 .. Len(fills) : Rests(fills[n].maker)
      BY <1>2 DEF TradingFits
    <3>4. ASSUME NEW n \in 1 .. Len(fills)
          PROVE  Rests(fills[n].maker)'
      BY <1>2, <3>2 DEF Rests, IsLimit
    <3>5. ASSUME NEW n, n = Len(fills) + 1
          PROVE  Rests(fills[n].maker)'
      BY <1>2, <2>2, <3>5 DEF Rests, IsLimit
    <3> QED
      BY <1>2, <3>1, <3>4, <3>5
  <2> QED
    BY <1>2, <1>3, <1>5, <2>1, <2>3 DEF TradingFits
<1>8. CallFits'
  <2>1. \A i \in OrderId \ Used' : Untouched(i)'
    BY <1>3, <1>4 DEF CallFits
  <2>2. \A i \in pendingStops' : Untouched(i)' /\ status'[i] = "pending"
    BY <1>2, <1>4 DEF CallFits, WellFormed, TypeOK
  <2>3. left' >= 0 /\ left' <= req'[taker'].qty
    BY <1>2, <1>5, <1>6 DEF CallFits
  <2>4. open'[taker'] = 0
    BY <1>2, <1>6 DEF WellFormed, TypeOK
  <2> QED
    BY <1>2, <1>5, <2>1, <2>2, <2>3, <2>4 DEF CallFits
<1> QED
  BY <1>7, <1>8

\* The end of a sweep: what rests may rest, and is what the sweep left.
LEMMA RestingKeepsCall ==
    ASSUME WellFormed, FillsAreFresh, TradingFits, CallFits, MatchDone
    PROVE  TradingFits' /\ CallFits'
<1>1. /\ pc = "match" /\ pc' = "settle" /\ taker \in Used /\ taker \in OrderId
      /\ UNCHANGED <<req, status, filled, pendingStops, taker, subject, fills, left>>
      /\ IF left > 0 /\ Rests(taker) THEN open' = [open EXCEPT ![taker] = left] ELSE open' = open
  BY DEF MatchDone, Goto, WellFormed, CallsAreInOrder, Used
<1>2. /\ \A i : Rests(i)' = Rests(i) /\ IsLimit(i)' = IsLimit(i)
      /\ \A i : Coming(i)' = Coming(i)
      /\ Used' = Used
  BY <1>1 DEF Rests, IsLimit, Coming, Used
<1>3. Placing /\ Sweeping /\ Placing' /\ Sweeping' /\ ~MakerTurn' /\ ~Writing'
  BY <1>1 DEF Placing, Sweeping, MakerTurn, Writing
<1>4. \A i \in OrderId : i # taker => (Untouched(i)' <=> Untouched(i))
  BY <1>1, <1>2 DEF Untouched, WellFormed, TypeOK
<1>5. TradingFits'
  BY <1>1, <1>2, <1>3 DEF TradingFits, WellFormed, TypeOK
<1>6. CallFits'
  <2>1. \A i \in OrderId \ Used' : Untouched(i)'
    BY <1>1, <1>2, <1>4 DEF CallFits
  <2>2. \A i \in pendingStops' : Untouched(i)' /\ status'[i] = "pending"
    BY <1>1, <1>3, <1>4 DEF CallFits, WellFormed, TypeOK
  <2>3. /\ filled'[taker'] = 0
        /\ open'[taker'] = IF left' > 0 /\ Rests(taker)' THEN left' ELSE 0
    BY <1>1, <1>2, <1>3 DEF CallFits, WellFormed, TypeOK
  <2> QED
    BY <1>1, <1>2, <1>3, <2>1, <2>2, <2>3 DEF CallFits
<1> QED
  BY <1>5, <1>6

\* _advance: the resting order fills, and it is its turn to be written.
LEMMA AdvancingKeepsCall ==
    ASSUME WellFormed, FillsAreFresh, TradingFits, CallFits, Advance
    PROVE  TradingFits' /\ CallFits'
<1>1. PICK m : m = Fill.maker
  OBVIOUS
<1>2. /\ pc = "advance" /\ pc' \in {"release", "save"} /\ subject' = m
      /\ filled' = [filled EXCEPT ![m] = Advanced(m)]
      /\ \E st \in Open \cup {"filled"} : status' = [status EXCEPT ![m] = st]
      /\ UNCHANGED <<req, open, pendingStops, taker, fills, left>>
  BY <1>1 DEF Advance, Conclude, Goto, Open
<1>3. /\ taker \in Used /\ fills # <<>> /\ taker # 0
  BY <1>2 DEF WellFormed, CallsAreInOrder
<1>4. m \in Used /\ m \in OrderId /\ Coming(m) > 0 /\ m # taker /\ Rests(m) /\ req[m].price > 0
  <2>1. /\ m \in Used /\ m \in OrderId /\ Coming(m) >= Fill.qty /\ Fill.qty \in Nat \ {0}
        /\ Fill = fills[1] /\ 1 \in DOMAIN fills
    BY <1>1, <1>3, HeadIsComing
  <2>2. Coming(m) > 0
    BY <2>1, ComingIsNatural
  <2> QED
    BY <1>1, <2>1, <2>2 DEF FillsAreFresh, TradingFits
<1>5. /\ \A i : Rests(i)' = Rests(i) /\ IsLimit(i)' = IsLimit(i)
      /\ \A i : Coming(i)' = Coming(i)
      /\ Used' = Used /\ Fill' = Fill
  BY <1>2 DEF Rests, IsLimit, Coming, Used, Fill
<1>6. Placing /\ Sweeping /\ Placing' /\ Sweeping' /\ MakerTurn' /\ Writing'
  BY <1>2, <1>3, <1>4 DEF Placing, Sweeping, Recorded, MakerTurn, Writing
<1>7. \A i \in OrderId : Untouched(i) => i # m /\ Untouched(i)'
  BY <1>2, <1>4, <1>5 DEF Untouched, WellFormed, TypeOK
<1>8. TradingFits'
  <2>1. status'[m] # "pending"
    BY <1>2, <1>4 DEF WellFormed, TypeOK, Open
  <2> QED
    BY <1>2, <1>4, <1>5, <1>6, <2>1 DEF TradingFits
<1>9. CallFits'
  <2>1. \A i \in OrderId \ Used' : Untouched(i)'
    BY <1>5, <1>7 DEF CallFits
  <2>2. \A i \in pendingStops' : Untouched(i)' /\ status'[i] = "pending"
    BY <1>2, <1>7 DEF CallFits, WellFormed, TypeOK
  <2>3. filled'[taker'] = 0
    BY <1>2, <1>4, <1>6 DEF CallFits, WellFormed, TypeOK
  <2> QED
    BY <1>1, <1>2, <1>5, <1>6, <2>1, <2>2, <2>3 DEF CallFits
<1> QED
  BY <1>8, <1>9

\* Finish: the incoming order is no longer being placed, but to be written.
LEMMA FinishingKeepsCall ==
    ASSUME WellFormed, TradingFits, CallFits, Finish
    PROVE  TradingFits' /\ CallFits'
<1>1. /\ pc = "settle" /\ fills = <<>> /\ pc' \in {"release", "save"} /\ subject' = taker
      /\ filled' = [filled EXCEPT ![taker] = req[taker].qty - left]
      /\ \E st \in {"filled", "canceled", "partial", "new"} :
            /\ status' = [status EXCEPT ![taker] = st]
            /\ st \in Open => Rests(taker)
      /\ UNCHANGED <<req, open, pendingStops, taker, fills, left>>
  BY DEF Finish, Conclude, ThenWrite, Goto, Open
<1>2. taker \in Used /\ taker \in OrderId
  BY <1>1 DEF WellFormed, CallsAreInOrder, Used
<1>3. /\ \A i : Rests(i)' = Rests(i) /\ IsLimit(i)' = IsLimit(i)
      /\ \A i : Coming(i)' = Coming(i)
      /\ Used' = Used
  BY <1>1 DEF Rests, IsLimit, Coming, Used
<1>4. Placing /\ Sweeping /\ ~Placing' /\ ~Sweeping' /\ ~MakerTurn' /\ pc' # "risk"
  BY <1>1 DEF Placing, Sweeping, Recorded, MakerTurn
<1>5. \A i \in OrderId : i # taker => (Untouched(i)' <=> Untouched(i))
  BY <1>1, <1>3 DEF Untouched, WellFormed, TypeOK
<1>6. taker \notin pendingStops
  BY <1>4 DEF CallFits
<1>7. TradingFits'
  <2>1. IsLimit(taker) => req[taker].price > 0
    BY <1>4 DEF TradingFits
  <2>2. Rests(taker) => IsLimit(taker)
    BY DEF Rests
  <2>3. status'[taker] \in Open => Rests(taker)
    BY <1>1, <1>2 DEF WellFormed, TypeOK
  <2>4. status'[taker] # "pending"
    BY <1>1, <1>2 DEF WellFormed, TypeOK
  <2> QED
    BY <1>1, <1>3, <1>4, <2>1, <2>2, <2>3, <2>4 DEF TradingFits
<1>8. CallFits'
  <2>1. \A i \in OrderId \ Used' : Untouched(i)'
    BY <1>2, <1>3, <1>5 DEF CallFits
  <2>2. \A i \in pendingStops' : Untouched(i)' /\ status'[i] = "pending"
    BY <1>1, <1>2, <1>5, <1>6 DEF CallFits, WellFormed, TypeOK
  <2> QED
    BY <1>1, <1>4, <2>1, <2>2 DEF CallFits
<1> QED
  BY <1>7, <1>8

\* Settling a fill, moving a reservation and writing the taker's row trade nothing.
LEMMA QuietSteps ==
    ASSUME WellFormed, FillsAreFresh, TradingFits, CallFits,
           \/ RecordTrade \/ Pay \/ BookBuyer \/ BookSeller
           \/ ReleaseHold \/ ReserveRest \/ SavePlaced \/ SaveAndReturn \/ Quiescent
           \/ SetKillSwitch \/ UNCHANGED vars
    PROVE  TradingFits' /\ CallFits'
<1>1. CASE RecordTrade \/ Pay \/ BookBuyer \/ BookSeller
  <2>1. /\ pc \in {"settle", "pay", "book buy", "book sell"}
        /\ pc' \in {"pay", "book buy", "book sell", "advance"}
        /\ UNCHANGED <<req, filled, open, fills, pendingStops, status, taker, left>>
    BY <1>1 DEF RecordTrade, Pay, BookBuyer, BookSeller, BookPosition, Goto
  <2>2. taker # 0
    BY <2>1 DEF WellFormed, CallsAreInOrder
  <2>3. Placing /\ Sweeping /\ Placing' /\ Sweeping' /\ ~MakerTurn' /\ ~Writing'
    BY <2>1, <2>2 DEF Placing, Sweeping, Recorded, MakerTurn, Writing
  <2> QED
    BY <2>1, <2>3, QuietStepsKeepCall
<1>2. CASE ReleaseHold \/ ReserveRest
  <2>1. /\ pc \in {"release", "reserve"} /\ pc' \in {"reserve", "save"}
        /\ UNCHANGED <<req, filled, open, fills, pendingStops, status, taker, left, subject>>
    BY <1>2 DEF ReleaseHold, ReserveRest, Goto
  <2>2. /\ Writing /\ Writing' /\ (MakerTurn' <=> MakerTurn)
        /\ (Placing <=> MakerTurn) /\ (Placing' <=> MakerTurn)
        /\ (Sweeping <=> MakerTurn) /\ (Sweeping' <=> MakerTurn)
    BY <2>1 DEF Placing, Sweeping, Recorded, MakerTurn, Writing
  <2>3. ~Placing => fills = <<>>
    BY DEF CallFits
  <2> QED
    BY <2>1, <2>2, <2>3, QuietStepsKeepCall
<1>3. CASE SavePlaced \/ SaveAndReturn \/ Quiescent
  <2>1. /\ pc \in {"save", "triggers"} /\ pc' \in {"idle", "triggers"}
        /\ pc = "save" => subject = taker \/ taker = 0
        /\ UNCHANGED <<req, filled, open, pendingStops, status>>
        /\ fills' = fills \/ fills' = <<>>
    BY <1>3 DEF SavePlaced, SaveAndReturn, Quiescent, WriteRow, EndCall, Goto
  <2>2. ~Placing /\ ~Placing' /\ ~Sweeping' /\ ~MakerTurn' /\ ~Writing'
    BY <2>1 DEF Placing, Sweeping, Recorded, MakerTurn, Writing
  <2>3. fills = <<>>
    BY <2>2 DEF CallFits
  <2>4. fills' = fills
    BY <2>1, <2>3
  <2> QED
    BY <2>1, <2>2, <2>3, <2>4, QuietStepsKeepCall
<1>4. CASE SetKillSwitch \/ UNCHANGED vars
  <2>1. UNCHANGED <<req, filled, open, fills, pendingStops, status, taker, left, subject, pc>>
    BY <1>4 DEF SetKillSwitch, vars
  <2>2. /\ Placing' <=> Placing
        /\ Sweeping' <=> Sweeping
        /\ MakerTurn' <=> MakerTurn
        /\ Writing' <=> Writing
    BY <2>1 DEF Placing, Sweeping, Recorded, MakerTurn, Writing
  <2>3. ~Placing => fills = <<>>
    BY DEF CallFits
  <2> QED
    BY <2>1, <2>2, <2>3, QuietStepsKeepCall
<1> QED
  BY <1>1, <1>2, <1>3, <1>4

\* The resting order's row is written: the fill in hand is done with.
LEMMA NextFillKeepsCall ==
    ASSUME WellFormed, TradingFits, CallFits, SaveResting
    PROVE  TradingFits' /\ CallFits'
<1>1. /\ pc = "save" /\ pc' = "settle" /\ taker # 0 /\ subject # taker
      /\ UNCHANGED <<req, filled, open, pendingStops, status, taker, left>>
      /\ fills' = Tail(fills)
  BY DEF SaveResting, WriteRow, Goto
<1>2. MakerTurn /\ Sweeping /\ Placing /\ Sweeping' /\ Placing' /\ ~MakerTurn' /\ ~Writing'
  BY <1>1 DEF Placing, Sweeping, Recorded, MakerTurn, Writing
<1>3. fills # <<>> /\ fills \in Seq(FillRecord)
  BY <1>1 DEF WellFormed, TypeOK, CallsAreInOrder
<1>4. /\ \A i : Rests(i)' = Rests(i) /\ IsLimit(i)' = IsLimit(i)
      /\ Used' = Used
  BY <1>1 DEF Rests, IsLimit, Used
<1>5. \A i \in OrderId : Coming(i)' \in Nat /\ Coming(i)' <= Coming(i)
  <2>1. ASSUME NEW i \in OrderId
        PROVE  Coming(i)' \in Nat /\ Coming(i)' <= Coming(i)
    <3> DEFINE x == ComingIn(Tail(fills), i)
               y == Coming(i)
               q == Fill.qty
    <3>1. x = y - (IF i = Fill.maker THEN q ELSE 0) /\ q \in Nat /\ y \in Nat
      BY <1>3, HeadIsComing, ComingIsNatural
    <3>2. x \in Nat
      <4>1. Tail(fills) \in Seq(FillRecord) /\ 0 \in Nat
        BY <1>3
      <4> QED
        BY <4>1, SumsOfFills
    <3>3. Coming(i)' = x
      BY <1>1 DEF Coming
    <3> HIDE DEF x, y, q
    <3>4. x <= y
      BY <3>1, <3>2
    <3> QED
      BY <3>2, <3>3, <3>4 DEF y
  <2> QED
    BY <2>1
<1>6. \A i \in OrderId : Untouched(i) => Untouched(i)'
  BY <1>1, <1>5 DEF Untouched
<1>7. TradingFits'
  <2>1. \A n \in DOMAIN fills' : n + 1 \in DOMAIN fills /\ fills'[n] = fills[n + 1]
    BY <1>1, <1>3, TailShifts
  <2>2. \A n \in DOMAIN fills' : Rests(fills[n].maker)'
    BY <1>1, <2>1 DEF TradingFits, Rests, IsLimit
  <2> QED
    BY <1>1, <1>2, <1>4, <2>2 DEF TradingFits
<1>8. CallFits'
  <2>1. \A i \in OrderId \ Used' : Untouched(i)'
    BY <1>4, <1>6 DEF CallFits
  <2>2. \A i \in pendingStops' : Untouched(i)' /\ status'[i] = "pending"
    BY <1>1, <1>6 DEF CallFits, WellFormed, TypeOK
  <2> QED
    BY <1>1, <1>2, <1>4, <2>1, <2>2 DEF CallFits
<1> QED
  BY <1>7, <1>8

\* A call that raises leaves the orders as they are and forgets its fills.
LEMMA RaisingKeepsCall ==
    ASSUME WellFormed, TradingFits, CallFits, PayRaises \/ ReserveRaises
    PROVE  TradingFits' /\ CallFits'
<1>1. /\ pc' = "idle" /\ fills' = <<>>
      /\ UNCHANGED <<req, filled, open, pendingStops, status>>
  BY DEF PayRaises, ReserveRaises, EndCall, Goto
<1>2. ~Placing' /\ ~Sweeping' /\ ~MakerTurn' /\ ~Writing'
  BY <1>1 DEF Placing, Sweeping, Recorded, MakerTurn, Writing
<1>3. \A i : Rests(i)' = Rests(i) /\ (Untouched(i) => Untouched(i)')
  BY <1>1, NothingComes DEF Rests, IsLimit, Untouched
<1>4. Used' = Used
  BY <1>1 DEF Used
<1>5. DOMAIN fills' = {}
  BY <1>1, EmptyHasNoIndex
<1>6. TradingFits'
  BY <1>1, <1>2, <1>3, <1>5 DEF TradingFits
<1>7. CallFits'
  BY <1>1, <1>2, <1>3, <1>4 DEF CallFits
<1> QED
  BY <1>6, <1>7

\* The triggers take a stop that nothing has touched.
LEMMA TriggersKeepCall ==
    ASSUME WellFormed, FillsAreFresh, TradingFits, CallFits, NEW i \in OrderId, Activate(i)
    PROVE  TradingFits' /\ CallFits'
<1>1. /\ pc = "triggers" /\ pc' = "start" /\ taker' = i /\ i \in pendingStops
      /\ pendingStops' = pendingStops \ {i}
      /\ UNCHANGED <<req, filled, open, fills, status, subject, left>>
  BY DEF Activate, Ready, Goto
<1>2. Untouched(i) /\ fills = <<>>
  BY <1>1 DEF CallFits, FillsAreFresh
<1>3. /\ \A j : Rests(j)' = Rests(j) /\ (Untouched(j)' <=> Untouched(j))
      /\ Used' = Used
  BY <1>1 DEF Rests, IsLimit, Used, Untouched, Coming
<1>4. Placing' /\ ~Sweeping' /\ ~MakerTurn' /\ ~Writing'
  BY <1>1 DEF Placing, Sweeping, Recorded, MakerTurn, Writing
<1>5. DOMAIN fills' = {}
  BY <1>1, <1>2, EmptyHasNoIndex
<1>6. TradingFits'
  BY <1>1, <1>3, <1>4, <1>5 DEF TradingFits
<1>7. CallFits'
  BY <1>1, <1>2, <1>3, <1>4 DEF CallFits, Untouched
<1> QED
  BY <1>6, <1>7

\* A canceled order is taken from the book and goes to be written.
LEMMA CancelingKeepsCall ==
    ASSUME WellFormed, TradingFits, CallFits, NEW i \in OrderId, cancel(i)
    PROVE  TradingFits' /\ CallFits'
<1>1. /\ pc = "idle" /\ pc' \in {"release", "save"} /\ subject' = i /\ status[i] \in Open
      /\ open' = [open EXCEPT ![i] = 0]
      /\ status' = [status EXCEPT ![i] = "canceled"]
      /\ UNCHANGED <<req, filled, fills, pendingStops, taker, left>>
  BY DEF cancel, Cancelable, Conclude, Goto
<1>2. taker = 0
  BY <1>1 DEF WellFormed, CallsAreInOrder
<1>3. ~Placing /\ ~Placing' /\ ~Sweeping' /\ ~MakerTurn' /\ pc' # "risk"
  BY <1>1, <1>2 DEF Placing, Sweeping, Recorded, MakerTurn
<1>4. fills = <<>>
  BY <1>3 DEF CallFits
<1>5. /\ \A j : Rests(j)' = Rests(j)
      /\ \A j \in OrderId : Untouched(j) => Untouched(j)'
      /\ Used' = Used
  BY <1>1 DEF Rests, IsLimit, Used, Untouched, Coming, WellFormed, TypeOK
<1>6. i \notin pendingStops
  BY <1>1 DEF CallFits, Open
<1>7. TradingFits'
  <2>1. \A j \in OrderId : open'[j] > 0 => open[j] > 0
    BY <1>1 DEF WellFormed, TypeOK
  <2>2. DOMAIN fills' = {}
    BY <1>1, <1>4, EmptyHasNoIndex
  <2>3. status'[subject'] = "canceled"
    BY <1>1 DEF WellFormed, TypeOK
  <2> QED
    BY <1>3, <1>5, <2>1, <2>2, <2>3 DEF TradingFits, Open
<1>8. CallFits'
  <2>1. \A j \in OrderId \ Used' : Untouched(j)'
    BY <1>5 DEF CallFits
  <2>2. \A j \in pendingStops' : Untouched(j)' /\ status'[j] = "pending"
    BY <1>1, <1>5, <1>6 DEF CallFits, WellFormed, TypeOK
  <2> QED
    BY <1>1, <1>3, <1>4, <2>1, <2>2 DEF CallFits
<1> QED
  BY <1>7, <1>8

\* What is read back from the tables fits, wherever the process died.
LEMMA RestoringKeepsCall ==
    ASSUME WellFormed, RowsFit, Restore
    PROVE  RowsFit' /\ TradingFits' /\ CallFits'
<1>1. /\ req' = [i \in OrderId |-> IF Row(i) THEN req[i] ELSE NoRequest]
      /\ status' = [i \in OrderId |-> saved[i].status]
      /\ filled' = [i \in OrderId |-> saved[i].filled]
      /\ pendingStops' = {i \in OrderId : saved[i].status = "pending"}
      /\ open' = [i \in OrderId |-> IF Reopens(i) THEN Reopened(i) ELSE 0]
      /\ pc' = "idle" /\ fills' = <<>> /\ saved' = saved
  BY DEF Restore, EndCall, Goto
<1>2. /\ \A i \in OrderId : saved[i].status \in Status \cup {"none"} /\ saved[i].filled \in Int
      /\ \A i \in OrderId : Row(i) <=> saved[i].status # "none"
  BY RowsAreRows
<1>3. ~Placing' /\ ~Sweeping' /\ ~MakerTurn' /\ ~Writing' /\ pc' # "risk"
  BY <1>1 DEF Placing, Sweeping, Recorded, MakerTurn, Writing
<1>4. \A i \in OrderId : Row(i) => req'[i] = req[i] /\ req[i] # NoRequest
  BY <1>1 DEF RowsFit, Used
<1>5. Used' = Rows
  BY <1>1, <1>4 DEF Used, Rows
<1>6. \A i \in OrderId : Row(i) => Rests(i)' = Rests(i)
  BY <1>4 DEF Rests, IsLimit
<1>7. \A i \in OrderId : saved[i].status \in Open => Row(i)
  BY <1>2 DEF Open
<1>8. RowsFit'
  BY <1>1, <1>4, <1>5, <1>6, <1>7 DEF RowsFit, Rows, Row
<1>9. TradingFits'
  <2>1. \A i \in OrderId : open'[i] > 0 => Rests(i)'
    BY <1>1, <1>6, <1>7 DEF Reopens, RowsFit
  <2>2. DOMAIN fills' = {}
    BY <1>1, EmptyHasNoIndex
  <2> QED
    BY <1>3, <2>1, <2>2 DEF TradingFits
<1>10. CallFits'
  <2>1. \A i \in OrderId \ Used' : Untouched(i)'
    <3>1. ASSUME NEW i \in OrderId, ~Row(i)
          PROVE  saved[i].status = "none" /\ saved[i].filled = 0
      BY <3>1 DEF Row, NoRow
    <3> QED
      BY <1>1, <1>5, <3>1, NothingComes DEF Untouched, Rows, Reopens, Open
  <2>2. \A i \in pendingStops' : Untouched(i)' /\ status'[i] = "pending"
    BY <1>1, NothingComes DEF Untouched, RowsFit, Reopens, Open
  <2> QED
    BY <1>1, <1>3, <2>1, <2>2 DEF CallFits
<1> QED
  BY <1>8, <1>9, <1>10

\* What holds of the service across restarts and crashes alike: its types, and that its
\* orders, its book and its rows are ones a call can go on with.
RestartForm == WellFormed /\ FillsAreFresh /\ RowsFit /\ TradingFits /\ CallFits

\* Every step keeps it.
LEMMA StepsKeepRestartForm ==
    ASSUME RestartForm, [Next]_vars
    PROVE  RestartForm'
<1> USE DEF RestartForm
<1>1. WellFormed' /\ FillsAreFresh' /\ RowsFit'
  BY StepsKeepForm, FillsStayFresh, RowsStayFit
<1>2. ASSUME NEW r \in Request, PlaceInvalid(r) \/ PlaceStop(r) \/ PlaceNow(r)
      PROVE  TradingFits' /\ CallFits'
  BY <1>2, PlacingKeepsCall
<1>3. CASE StartLimit \/ CheckLimit \/ StartMarket
  BY <1>1, <1>3, ChecksKeepCall
<1>4. ASSUME NEW m \in OrderId, MatchOne(m)
      PROVE  TradingFits' /\ CallFits'
  BY <1>4, MatchingKeepsCall
<1>5. CASE MatchDone
  BY <1>1, <1>5, RestingKeepsCall
<1>6. CASE Advance
  BY <1>1, <1>6, AdvancingKeepsCall
<1>7. CASE Finish
  BY <1>1, <1>7, FinishingKeepsCall
<1>8. CASE SaveResting
  BY <1>1, <1>8, NextFillKeepsCall
<1>9. CASE PayRaises \/ ReserveRaises
  BY <1>1, <1>9, RaisingKeepsCall
<1>10. ASSUME NEW i \in OrderId, Activate(i)
       PROVE  TradingFits' /\ CallFits'
  BY <1>10, TriggersKeepCall
<1>11. ASSUME NEW i \in OrderId, cancel(i)
       PROVE  TradingFits' /\ CallFits'
  BY <1>11, CancelingKeepsCall
<1>12. CASE \/ RecordTrade \/ Pay \/ BookBuyer \/ BookSeller
            \/ ReleaseHold \/ ReserveRest \/ SavePlaced \/ SaveAndReturn \/ Quiescent
            \/ SetKillSwitch \/ UNCHANGED vars
  BY <1>1, <1>12, QuietSteps
<1> QED
  BY <1>1, <1>2, <1>3, <1>4, <1>5, <1>6, <1>7, <1>8, <1>9, <1>10, <1>11, <1>12 DEF Next, place, Step

\* So do restarts and crashes.
LEMMA RestartFormIsKept ==
    ASSUME RestartForm, [Next \/ Restart \/ Crash]_vars
    PROVE  RestartForm'
<1>1. CASE [Next]_vars
  BY <1>1, StepsKeepRestartForm
<1>2. CASE Restart \/ Crash
  BY <1>2, RestoringIsWellFormed, RestoringKeepsCall DEF Restart, Crash, RestartForm
<1> QED
  BY <1>1, <1>2

\* It is true of the empty tables.
LEMMA RestartFormToStart == Init => RestartForm
<1> SUFFICES ASSUME Init PROVE RestartForm
  OBVIOUS
<1>1. WellFormed
  BY InitIsWellFormed
<1>2. /\ req = [i \in OrderId |-> NoRequest] /\ filled = [i \in OrderId |-> 0]
      /\ open = [i \in OrderId |-> 0] /\ pendingStops = {} /\ fills = <<>> /\ pc = "idle"
      /\ saved = [i \in OrderId |-> NoRow]
  BY DEF Init
<1>3. DOMAIN fills = {}
  BY <1>2, EmptyHasNoIndex
<1>4. FillsAreFresh
  BY <1>2, <1>3 DEF FillsAreFresh
<1>5. RowsFit
  BY <1>2 DEF RowsFit, Row, NoRow, Open
<1>6. ~Placing /\ ~Sweeping /\ ~MakerTurn /\ ~Writing
  BY <1>2 DEF Placing, Sweeping, Recorded, MakerTurn, Writing
<1>7. TradingFits
  BY <1>2, <1>3, <1>6 DEF TradingFits
<1>8. \A i \in OrderId : Coming(i) = 0
  BY <1>2, NoFillsNoSums DEF Coming
<1>9. CallFits
  BY <1>2, <1>6, <1>8 DEF CallFits, Untouched
<1> QED
  BY <1>1, <1>4, <1>5, <1>7, <1>9 DEF RestartForm

\* So it is true at any time, whatever the constants.
LEMMA RestartFormHolds == SpecCrash => []RestartForm
<1>1. Init => RestartForm
  BY RestartFormToStart
<1>2. RestartForm /\ [Next \/ Restart \/ Crash]_vars => RestartForm'
  BY RestartFormIsKept
<1> QED
  BY <1>1, <1>2, PTL DEF SpecCrash

\* Every variable of the order service is well typed over any restarts and crashes: what
\* OMS._restore reads from the tables is a state the process can run in, although rows,
\* trades and reservations need not agree there.
THEOREM TypingAcrossCrashes == SpecCrash => []TypeOK
<1>1. RestartForm => TypeOK
  BY DEF RestartForm, WellFormed
<1> QED
  BY <1>1, RestartFormHolds, PTL

-----------------------------------------------------------------------------
(* What an order may still trade, and the rows of finished orders. *)

\* What the book and the fills on their way still owe the order.
Due(i) == (open[i] + Coming(i)) - Taken(i)

\* The order is on offer, to be met by others: something is due to it, or a fill has just
\* reached it.  What it is on offer for, then, is that and what it has filled.
Offered(i) ==
    /\ ~(Placing /\ i = taker)
    /\ Due(i) > 0 \/ (MakerTurn /\ i = Fill.maker)
Offer(i) == Due(i) + filled[i]

\* Nothing is on offer for more than was asked, crashes or not.
OffersFit == \A i \in Used : Offered(i) => Offer(i) <= req[i].qty

\* An order that is to be written as finished is off the book; once it is written, it has
\* that status in memory and takes part in nothing any more.
FinalFits ==
    /\ Writing /\ status[subject] \in Final => Due(subject) = 0
    /\ \A i \in OrderId : saved[i].status \in Final =>
          /\ status[i] = saved[i].status
          /\ open[i] = 0 /\ Coming(i) = 0
          /\ i = taker => pc = "triggers"
          /\ Writing => subject # i

\* The smaller of two numbers.
LEMMA MinIsSmaller ==
    ASSUME NEW a \in Int, NEW b \in Int, b <= a
    PROVE  Min({a, b}) = b
<1>1. \E x \in {a, b} : \A y \in {a, b} : x <= y
  OBVIOUS
<1>2. Min({a, b}) \in {a, b} /\ \A y \in {a, b} : Min({a, b}) <= y
  BY <1>1 DEF Min
<1> QED
  BY <1>2

\* What is due and on offer are numbers.
LEMMA OfferNumbers ==
    ASSUME WellFormed, NEW i \in Used
    PROVE  /\ i \in OrderId /\ open[i] \in Nat /\ Coming(i) \in Nat /\ filled[i] \in Int
           /\ req[i].qty \in Int
           /\ Taken(i) \in Nat /\ Taken(i) <= Coming(i) /\ Due(i) \in Nat
<1>1. /\ i \in OrderId /\ open[i] \in Nat /\ Coming(i) \in Nat /\ filled[i] \in Int
      /\ req[i].qty \in Int
  BY OrderNumbers
<1>2. Taken(i) \in Nat /\ Taken(i) <= Coming(i)
  <2>1. CASE MakerTurn /\ i = Fill.maker
    <3>1. fills # <<>>
      BY <2>1 DEF MakerTurn, WellFormed, CallsAreInOrder
    <3>2. Fill.qty \in Nat /\ Coming(i) >= Fill.qty
      BY <2>1, <3>1, HeadIsComing
    <3> QED
      BY <1>1, <2>1, <3>2 DEF Taken
  <2>2. CASE ~(MakerTurn /\ i = Fill.maker)
    BY <1>1, <2>2 DEF Taken
  <2> QED
    BY <2>1, <2>2
<1> QED
  BY <1>1, <1>2 DEF Due

\* A step that leaves the book, the fills and whose turn it is leaves what is due.
LEMMA DueKept ==
    ASSUME UNCHANGED <<open, fills>>, MakerTurn' <=> MakerTurn, NEW i
    PROVE  Due(i)' = Due(i)
BY DEF Due, Coming, Taken, Fill

\* Nothing is due that was not when book, fills and turn stay as they are.
LEMMA OfferKept ==
    ASSUME WellFormed, FillsAreFresh, CallFits, NEW i \in Used,
           UNCHANGED <<req, filled, open, fills>>, MakerTurn' <=> MakerTurn,
           Placing /\ i = taker => (Placing' /\ i = taker') \/ pc \in {"start", "risk"},
           Offered(i)'
    PROVE  Offered(i) /\ Offer(i)' = Offer(i)
<1>1. Due(i)' = Due(i) /\ Fill' = Fill
  BY DueKept DEF Fill
<1>2. ~(Placing /\ i = taker)
  <2> SUFFICES ASSUME Placing, i = taker, pc \in {"start", "risk"}
               PROVE  FALSE
    BY DEF Offered
  <2>1. open[i] = 0 /\ fills = <<>>
    BY DEF CallFits, FillsAreFresh
  <2>2. ~MakerTurn /\ Coming(i) = 0
    BY <2>1, NoFillsNoSums DEF MakerTurn, Coming
  <2>3. Due(i) = 0
    BY <2>1, <2>2 DEF Due, Taken
  <2> QED
    BY <1>1, <2>2, <2>3 DEF Offered
<1> QED
  BY <1>1, <1>2 DEF Offered, Offer

\* place registers a ticket that offers nothing yet.
LEMMA PlacingOffers ==
    ASSUME WellFormed, FillsAreFresh, CallFits, NEW r \in Request,
           PlaceInvalid(r) \/ PlaceStop(r) \/ PlaceNow(r), NEW i \in Used', Offered(i)'
    PROVE  i \in Used /\ Offered(i) /\ Offer(i)' = Offer(i)
<1>1. /\ pc = "idle" /\ nextId \in OrderId /\ req' = [req EXCEPT ![nextId] = r]
      /\ UNCHANGED <<filled, open, fills>>
      /\ pc' \in {"save", "start"} /\ taker' \in {0, nextId} /\ (pc' = "save" => subject' = nextId)
  <2>1. pc = "idle" /\ taker = 0
    BY DEF PlaceInvalid, PlaceStop, PlaceNow, Register, WellFormed, CallsAreInOrder
  <2> QED
    BY <2>1 DEF PlaceInvalid, PlaceStop, PlaceNow, Register, Conclude, Goto
<1>2. ~MakerTurn /\ ~MakerTurn' /\ ~Placing
  BY <1>1 DEF MakerTurn, Placing, Sweeping, Recorded
<1>3. Due(i)' = Due(i)
  BY <1>1, <1>2, DueKept
<1>4. i # nextId
  <2> SUFFICES ASSUME i = nextId PROVE FALSE
    OBVIOUS
  <2>1. nextId \notin Used
    BY <1>1 DEF WellFormed, TypeOK, CallsAreInOrder, OrderId
  <2>2. open[i] = 0 /\ Coming(i) = 0
    BY <1>1, <2>1 DEF CallFits, Untouched
  <2>3. Due(i) = 0
    BY <1>2, <2>2 DEF Due, Taken
  <2> QED
    BY <1>2, <1>3, <2>3 DEF Offered
<1>5. i \in Used
  BY <1>1, <1>4 DEF WellFormed, TypeOK, Used
<1> QED
  BY <1>1, <1>2, <1>3, <1>5 DEF Offered, Offer

\* A fill moves what an order is due from the book to the fills.
LEMMA MatchingOffers ==
    ASSUME WellFormed, NEW m \in OrderId, MatchOne(m), NEW i \in Used
    PROVE  Due(i)' = Due(i) /\ (Offered(i)' => Offered(i) /\ Offer(i)' = Offer(i))
<1>1. PICK q : q = MatchQty(m)
  OBVIOUS
<1>2. /\ pc = "match" /\ q \in Nat \ {0} /\ q <= open[m]
      /\ UNCHANGED <<req, filled, pc, taker, subject>>
      /\ open' = [open EXCEPT ![m] = open[m] - q]
      /\ \A j : Coming(j)' = Coming(j) + IF j = m THEN q ELSE 0
  BY <1>1, MatchingMoves
<1>3. ~MakerTurn /\ ~MakerTurn' /\ (Placing' <=> Placing)
  BY <1>2 DEF MakerTurn, Placing, Sweeping, Recorded
<1>4. open'[i] + Coming(i)' = open[i] + Coming(i)
  <2>1. open[i] \in Nat /\ Coming(i) \in Nat /\ i \in OrderId /\ open \in [OrderId -> Nat]
    BY OfferNumbers DEF WellFormed, TypeOK
  <2> QED
    BY <1>2, <2>1
<1>5. Due(i)' = Due(i)
  <2>1. Due(i) = (open[i] + Coming(i)) - 0 /\ Due(i)' = (open'[i] + Coming(i)') - 0
    BY <1>3 DEF Due, Taken
  <2> QED
    BY <1>4, <2>1
<1> QED
  BY <1>2, <1>3, <1>5 DEF Offered, Offer

\* The resting order fills by what it was due.
LEMMA AdvancingOffers ==
    ASSUME WellFormed, FillsAreFresh, CallFits, OffersFit, Advance, NEW i \in Used, Offered(i)'
    PROVE  Offered(i) /\ Offer(i)' = Offer(i)
<1>1. PICK m, q : m = Fill.maker /\ q = Fill.qty
  OBVIOUS
<1>2. /\ pc = "advance" /\ pc' \in {"release", "save"} /\ subject' = m
      /\ filled' = [filled EXCEPT ![m] = Advanced(m)]
      /\ UNCHANGED <<req, open, taker, fills>>
  BY <1>1 DEF Advance, Conclude, Goto
<1>3. taker # 0 /\ fills # <<>>
  BY <1>2 DEF WellFormed, CallsAreInOrder
<1>4. m \in Used /\ m # taker /\ q \in Nat \ {0} /\ Coming(m) >= q
  <2>1. /\ m \in Used /\ Coming(m) >= q /\ q \in Nat \ {0} /\ Fill = fills[1] /\ 1 \in DOMAIN fills
    BY <1>1, <1>3, HeadIsComing
  <2> QED
    BY <1>1, <2>1 DEF FillsAreFresh
<1>5. /\ ~MakerTurn /\ MakerTurn' /\ Placing /\ Placing' /\ Fill' = Fill
  BY <1>2, <1>3, <1>4 DEF Placing, Sweeping, Recorded, MakerTurn, Fill
<1>6. \A j : Coming(j)' = Coming(j)
  BY <1>2 DEF Coming
<1>7. CASE i = m
  <2>1. open[i] \in Nat /\ Coming(i) \in Nat /\ filled[i] \in Int /\ req[i].qty \in Int /\ i \in OrderId
    BY OfferNumbers
  <2>2. Due(i) = open[i] + Coming(i) /\ Due(i)' = (open[i] + Coming(i)) - q
    BY <1>1, <1>2, <1>5, <1>6, <1>7, <2>1 DEF Due, Taken
  <2>3. Offered(i)
    BY <1>4, <1>7, <2>1, <2>2 DEF Offered
  <2>4. Due(i) + filled[i] <= req[i].qty
    BY <2>3 DEF OffersFit, Offer
  <2>5. Advanced(i) = Min({req[i].qty, filled[i] + q})
    BY <1>1 DEF Advanced
  <2>6. filled[i] + q <= req[i].qty
    BY <1>4, <1>7, <2>1, <2>2, <2>4
  <2>7. Advanced(i) = filled[i] + q
    <3> DEFINE x == req[i].qty
               y == filled[i] + q
    <3>1. x \in Int /\ y \in Int /\ y <= x
      BY <1>4, <2>1, <2>6
    <3> HIDE DEF x, y
    <3>3. Min({x, y}) = y
      BY <3>1, MinIsSmaller
    <3> QED
      BY <2>5, <3>3 DEF x, y
  <2>8. filled'[i] = filled[i] + q
    BY <1>2, <1>7, <2>1, <2>7 DEF WellFormed, TypeOK
  <2> QED
    BY <1>4, <2>1, <2>2, <2>3, <2>8 DEF Offer
<1>8. CASE i # m
  <2>1. i \in OrderId
    BY DEF Used
  <2>2. Due(i)' = Due(i) /\ filled'[i] = filled[i]
    BY <1>1, <1>2, <1>5, <1>6, <1>8, <2>1 DEF Due, Taken, WellFormed, TypeOK
  <2> QED
    BY <1>1, <1>2, <1>5, <1>8, <2>2 DEF Offered, Offer
<1> QED
  BY <1>7, <1>8

\* The incoming order offers what it has left, and its fill is the rest.
LEMMA FinishingOffers ==
    ASSUME WellFormed, CallFits, Finish, NEW i \in Used, Offered(i)'
    PROVE  \/ Offered(i) /\ Offer(i)' = Offer(i)
           \/ Offer(i)' = req[i].qty
<1>1. /\ pc = "settle" /\ fills = <<>> /\ pc' \in {"release", "save"} /\ subject' = taker
      /\ filled' = [filled EXCEPT ![taker] = req[taker].qty - left]
      /\ UNCHANGED <<req, open, taker, fills, left>>
  BY DEF Finish, Conclude, ThenWrite, Goto
<1>2. taker \in Used /\ taker \in OrderId
  BY <1>1 DEF WellFormed, CallsAreInOrder, Used
<1>3. /\ ~MakerTurn /\ ~MakerTurn' /\ Placing /\ ~Placing'
  BY <1>1 DEF Placing, Sweeping, Recorded, MakerTurn
<1>4. Due(i)' = Due(i)
  BY <1>1, <1>3, DueKept
<1>5. CASE i = taker
  <2>1. Coming(i) = 0 /\ Taken(i) = 0
    BY <1>1, <1>3, NoFillsNoSums DEF Coming, Taken
  <2>2. Due(i) = open[i]
    BY <2>1, OfferNumbers DEF Due
  <2>3. open[i] > 0
    BY <1>3, <1>4, <2>2 DEF Offered
  <2>4. open[i] = left
    BY <1>1, <1>3, <1>5, <2>3 DEF CallFits
  <2>5. filled'[i] = req[i].qty - left
    BY <1>1, <1>2, <1>5 DEF WellFormed, TypeOK
  <2> QED
    BY <1>4, <2>2, <2>4, <2>5, OfferNumbers DEF Offer
<1>6. CASE i # taker
  <2>1. filled'[i] = filled[i]
    BY <1>1, <1>6 DEF WellFormed, TypeOK, Used
  <2> QED
    BY <1>3, <1>4, <1>6, <2>1 DEF Offered, Offer
<1> QED
  BY <1>5, <1>6

\* The fill in hand is done with, and so is the turn of its resting order.
LEMMA NextFillOffers ==
    ASSUME WellFormed, CallFits, SaveResting, NEW i \in Used
    PROVE  /\ Due(i)' = Due(i)
           /\ Offered(i)' => Offered(i) /\ Offer(i)' = Offer(i)
<1>1. /\ pc = "save" /\ pc' = "settle" /\ taker # 0 /\ subject # taker
      /\ UNCHANGED <<req, filled, open, taker>>
      /\ fills' = Tail(fills)
  BY DEF SaveResting, WriteRow, Goto
<1>2. MakerTurn /\ Placing /\ Placing' /\ ~MakerTurn'
  BY <1>1 DEF Placing, Sweeping, Recorded, MakerTurn
<1>3. fills # <<>>
  BY <1>1 DEF WellFormed, CallsAreInOrder
<1>4. /\ Coming(i)' = Coming(i) - (IF i = Fill.maker THEN Fill.qty ELSE 0)
      /\ Fill.qty \in Nat
  BY <1>1, <1>3, HeadIsComing DEF Coming
<1>5. Due(i)' = Due(i)
  BY <1>1, <1>2, <1>4, OfferNumbers DEF Due, Taken
<1> QED
  BY <1>1, <1>2, <1>5 DEF Offered, Offer

\* A call that raises drops what it has not applied.
LEMMA RaisingOffers ==
    ASSUME WellFormed, CallFits, OffersFit, PayRaises \/ ReserveRaises, NEW i \in Used, Offered(i)'
    PROVE  Offer(i)' <= req[i].qty
<1>1. /\ pc' = "idle" /\ fills' = <<>> /\ pc \in {"pay", "reserve"}
      /\ UNCHANGED <<req, filled, open>>
  BY DEF PayRaises, ReserveRaises, EndCall, Goto
<1>2. ~MakerTurn' /\ Coming(i)' = 0
  BY <1>1, NothingComes DEF MakerTurn
<1>3. Due(i)' = open[i] /\ open[i] > 0
  BY <1>1, <1>2, OfferNumbers DEF Due, Taken, Offered
<1>4. CASE Placing /\ i = taker
  <2>1. filled[i] = 0 /\ open[i] = left /\ Sweeping
    BY <1>1, <1>3, <1>4 DEF CallFits, Placing
  <2>2. left <= req[i].qty
    BY <1>4, <2>1 DEF CallFits
  <2> QED
    BY <1>1, <1>3, <2>1, <2>2, OfferNumbers DEF Offer
<1>5. CASE ~(Placing /\ i = taker)
  <2>1. Due(i) >= open[i]
    BY OfferNumbers DEF Due
  <2>2. Offered(i)
    BY <1>3, <1>5, <2>1, OfferNumbers DEF Offered
  <2>3. Offer(i) <= req[i].qty
    BY <2>2 DEF OffersFit
  <2> QED
    BY <1>1, <1>3, <2>1, <2>3, OfferNumbers DEF Offer
<1> QED
  BY <1>4, <1>5

\* Every step carries an offer along, makes a whole one, or raises and drops part of it.
LEMMA OffersMove ==
    ASSUME RestartForm, OffersFit, [Next]_vars, NEW i \in Used', Offered(i)'
    PROVE  \/ i \in Used /\ Offered(i) /\ Offer(i)' = Offer(i)
           \/ Offer(i)' = req'[i].qty
           \/ (PayRaises \/ ReserveRaises) /\ i \in Used /\ Offer(i)' <= req'[i].qty
<1> USE DEF RestartForm
<1>1. ASSUME NEW r \in Request, PlaceInvalid(r) \/ PlaceStop(r) \/ PlaceNow(r)
      PROVE  i \in Used /\ Offered(i) /\ Offer(i)' = Offer(i)
  BY <1>1, PlacingOffers
<1>2. ASSUME UNCHANGED req PROVE i \in Used /\ req'[i] = req[i]
  BY <1>2 DEF Used
<1>3. ASSUME NEW m \in OrderId, MatchOne(m)
      PROVE  i \in Used /\ Offered(i) /\ Offer(i)' = Offer(i)
  <2>1. UNCHANGED req
    BY <1>3 DEF MatchOne
  <2> QED
    BY <1>2, <1>3, <2>1, MatchingOffers
<1>4. CASE Advance
  <2>1. UNCHANGED req
    BY <1>4 DEF Advance
  <2> QED
    BY <1>2, <1>4, <2>1, AdvancingOffers
<1>5. CASE Finish
  <2>1. UNCHANGED req
    BY <1>5 DEF Finish
  <2> QED
    BY <1>2, <1>5, <2>1, FinishingOffers
<1>6. CASE SaveResting
  <2>1. UNCHANGED req
    BY <1>6 DEF SaveResting, WriteRow
  <2> QED
    BY <1>2, <1>6, <2>1, NextFillOffers
<1>7. CASE PayRaises \/ ReserveRaises
  <2>1. UNCHANGED req
    BY <1>7 DEF PayRaises, ReserveRaises
  <2> QED
    BY <1>2, <1>7, <2>1, RaisingOffers
<1>8. CASE StartLimit \/ CheckLimit \/ StartMarket
  <2>1. /\ pc \in {"start", "risk"} /\ taker # 0 /\ UNCHANGED <<req, filled, open, fills, taker>>
        /\ pc' \in {"risk", "match"} \/ (pc' \in {"release", "save"} /\ subject' = taker)
    BY <1>8 DEF StartLimit, CheckLimit, StartMarket, Conclude, ThenWrite, Goto, Sweep, WellFormed, CallsAreInOrder
  <2>2. MakerTurn' <=> MakerTurn
    BY <2>1 DEF MakerTurn
  <2> QED
    BY <1>2, <2>1, <2>2, OfferKept
<1>9. CASE MatchDone
  <2>1. /\ pc = "match" /\ pc' = "settle" /\ UNCHANGED <<req, filled, fills, taker>>
        /\ open' = open \/ open' = [open EXCEPT ![taker] = left]
    BY <1>9 DEF MatchDone, Goto
  <2>2. ~MakerTurn' /\ ~MakerTurn /\ Placing /\ Placing'
    BY <2>1 DEF MakerTurn, Placing, Sweeping
  <2>3. i \in Used /\ i \in OrderId /\ i # taker
    BY <1>2, <2>1, <2>2 DEF Used, Offered
  <2>4. open'[i] = open[i]
    BY <2>1, <2>3 DEF WellFormed, TypeOK
  <2>5. Due(i)' = Due(i)
    BY <2>1, <2>2, <2>4 DEF Due, Coming, Taken
  <2> QED
    BY <2>1, <2>2, <2>3, <2>5 DEF Offered, Offer
<1>10. CASE RecordTrade \/ Pay \/ BookBuyer \/ BookSeller
  <2>1. /\ pc \in {"settle", "pay", "book buy", "book sell"}
        /\ pc' \in {"pay", "book buy", "book sell", "advance"}
        /\ UNCHANGED <<req, filled, open, fills, taker>>
    BY <1>10 DEF RecordTrade, Pay, BookBuyer, BookSeller, BookPosition, Goto
  <2>2. ~MakerTurn' /\ ~MakerTurn /\ Placing /\ Placing'
    BY <2>1 DEF MakerTurn, Placing, Sweeping, Recorded
  <2> QED
    BY <1>2, <2>1, <2>2, OfferKept
<1>11. CASE ReleaseHold \/ ReserveRest
  <2>1. /\ pc \in {"release", "reserve"} /\ pc' \in {"reserve", "save"}
        /\ UNCHANGED <<req, filled, open, fills, taker, subject>>
    BY <1>11 DEF ReleaseHold, ReserveRest, Goto
  <2>2. (MakerTurn' <=> MakerTurn) /\ (Placing' <=> Placing)
    BY <2>1 DEF MakerTurn, Placing, Sweeping, Recorded
  <2> QED
    BY <1>2, <2>1, <2>2, OfferKept
<1>12. CASE SavePlaced \/ SaveAndReturn \/ Quiescent
  <2>1. /\ pc \in {"save", "triggers"} /\ pc' \in {"idle", "triggers"}
        /\ pc = "save" => subject = taker \/ taker = 0
        /\ UNCHANGED <<req, filled, open>>
        /\ fills' = fills \/ fills' = <<>>
    BY <1>12 DEF SavePlaced, SaveAndReturn, Quiescent, WriteRow, EndCall, Goto
  <2>2. ~MakerTurn' /\ ~MakerTurn /\ ~Placing
    BY <2>1 DEF MakerTurn, Placing, Sweeping, Recorded
  <2>3. fills = <<>>
    BY <2>2 DEF CallFits
  <2> QED
    BY <1>2, <2>1, <2>2, <2>3, OfferKept
<1>13. ASSUME NEW j \in OrderId, Activate(j)
       PROVE  i \in Used /\ Offered(i) /\ Offer(i)' = Offer(i)
  <2>1. /\ pc = "triggers" /\ pc' = "start" /\ UNCHANGED <<req, filled, open, fills>>
    BY <1>13 DEF Activate, Goto
  <2>2. ~MakerTurn' /\ ~MakerTurn /\ ~Placing
    BY <2>1 DEF MakerTurn, Placing, Sweeping, Recorded
  <2> QED
    BY <1>2, <2>1, <2>2, OfferKept
<1>14. ASSUME NEW j \in OrderId, cancel(j)
       PROVE  i \in Used /\ Offered(i) /\ Offer(i)' = Offer(i)
  <2>1. /\ pc = "idle" /\ pc' \in {"release", "save"} /\ subject' = j /\ UNCHANGED <<req, filled, fills, taker>>
        /\ open' = [open EXCEPT ![j] = 0]
    BY <1>14 DEF cancel, Conclude, Goto
  <2>2. taker = 0
    BY <2>1 DEF WellFormed, CallsAreInOrder
  <2>3. ~MakerTurn' /\ ~MakerTurn /\ ~Placing
    BY <2>1, <2>2 DEF MakerTurn, Placing, Sweeping, Recorded
  <2>4. fills = <<>> /\ Coming(i)' = 0
    BY <2>1, <2>3, NothingComes DEF CallFits
  <2>5. i \in Used /\ i \in OrderId /\ Coming(i) = 0
    BY <1>2, <2>1, <2>4, NoFillsNoSums DEF Used, Coming
  <2>6. i # j
    BY <2>1, <2>3, <2>4, <2>5 DEF Offered, Due, Taken, WellFormed, TypeOK
  <2>7. open'[i] = open[i]
    BY <2>1, <2>5, <2>6 DEF WellFormed, TypeOK
  <2>8. Due(i)' = Due(i)
    BY <2>3, <2>4, <2>5, <2>7 DEF Due, Taken
  <2> QED
    BY <2>1, <2>3, <2>5, <2>8 DEF Offered, Offer
<1>15. CASE SetKillSwitch \/ UNCHANGED vars
  <2>1. UNCHANGED <<req, filled, open, fills, pc, taker, subject>>
    BY <1>15 DEF SetKillSwitch, vars
  <2>2. (MakerTurn' <=> MakerTurn) /\ (Placing' <=> Placing)
    BY <2>1 DEF MakerTurn, Placing, Sweeping, Recorded
  <2> QED
    BY <1>2, <2>1, <2>2, OfferKept
<1> QED
  BY <1>1, <1>3, <1>4, <1>5, <1>6, <1>7, <1>8, <1>9, <1>10, <1>11, <1>12, <1>13, <1>14, <1>15
     DEF Next, place, Step

\* What the fills bring is a number in the next state too.
LEMMA ComingNext == WellFormed' => (\A i : Coming(i) \in Nat)'
<1>1. WellFormed => \A i : Coming(i) \in Nat
  BY ComingIsNatural
<1>2. WellFormed' => (\A i : Coming(i) \in Nat)'
  BY <1>1, PTL
<1> QED
  BY <1>2

\* What is on offer is a number in the next state too.
LEMMA OffersNext ==
    WellFormed' => (\A i \in Used : Due(i) \in Nat /\ filled[i] \in Int /\ req[i].qty \in Int)'
<1>1. WellFormed => \A i \in Used : Due(i) \in Nat /\ filled[i] \in Int /\ req[i].qty \in Int
  BY OfferNumbers
<1>2. WellFormed' => (\A i \in Used : Due(i) \in Nat /\ filled[i] \in Int /\ req[i].qty \in Int)'
  BY <1>1, PTL
<1> QED
  BY <1>2

\* No step puts more on offer than was asked.
LEMMA OffersStayFit ==
    ASSUME RestartForm, OffersFit, [Next]_vars
    PROVE  OffersFit'
<1> SUFFICES ASSUME NEW i \in Used', Offered(i)'
             PROVE  Offer(i)' <= req'[i].qty
  BY DEF OffersFit
<1>1. i \in Used => req'[i] = req[i]
  BY RowsMove DEF RestartForm
<1>2. Offer(i)' \in Int /\ req'[i].qty \in Int
  <2>1. WellFormed'
    BY StepsKeepRestartForm DEF RestartForm
  <2>2. filled'[i] \in Int /\ req'[i].qty \in Int /\ Due(i)' \in Nat
    BY <2>1, OffersNext
  <2> QED
    BY <2>1, <2>2 DEF Offer
<1> QED
  BY <1>1, <1>2, OffersMove DEF OffersFit

\* What a restart puts back on offer is the whole of what was asked: the row's fill and the rest.
LEMMA RestoringOffers ==
    ASSUME WellFormed, RowsFit, Restore, NEW i \in Used', Offered(i)'
    PROVE  Offer(i)' = req'[i].qty
<1>1. /\ req' = [j \in OrderId |-> IF Row(j) THEN req[j] ELSE NoRequest]
      /\ filled' = [j \in OrderId |-> saved[j].filled]
      /\ open' = [j \in OrderId |-> IF Reopens(j) THEN Reopened(j) ELSE 0]
      /\ pc' = "idle" /\ fills' = <<>>
  BY DEF Restore, EndCall, Goto
<1>2. ~MakerTurn' /\ Coming(i)' = 0 /\ i \in OrderId
  BY <1>1, NothingComes DEF MakerTurn, Used
<1>3. Due(i)' = open'[i] - 0
  <2>1. Due(i)' = (open'[i] + 0) - 0
    BY <1>2 DEF Due, Taken
  <2>2. open'[i] \in Int
    BY <1>2, RestoringIsWellFormed DEF WellFormed, TypeOK
  <2> QED
    BY <2>1, <2>2
<1>4. open'[i] \in Nat
  BY <1>2, RestoringIsWellFormed DEF WellFormed, TypeOK
<1>5. open'[i] > 0
  BY <1>2, <1>3, <1>4 DEF Offered
<1>6. Reopens(i) /\ open'[i] = req[i].qty - saved[i].filled
  BY <1>1, <1>2, <1>5 DEF Reopened
<1>7. Row(i) /\ req'[i] = req[i] /\ filled'[i] = saved[i].filled /\ saved[i].filled \in Int
  BY <1>1, <1>2, <1>6, RowsAreRows DEF Reopens, Open
<1>8. i \in Used /\ req[i].qty \in Int
  BY <1>2, <1>7, UsedIsTicket DEF RowsFit, WellFormed
<1> QED
  BY <1>3, <1>4, <1>6, <1>7, <1>8 DEF Offer

\* Whose turn it is to be written with a final status has nothing due.
LEMMA TurnsAreDone ==
    ASSUME RestartForm, OffersFit, FinalFits, [Next]_vars, Writing', status'[subject'] \in Final
    PROVE  Due(subject)' = 0
<1> USE DEF RestartForm
<1>1. ASSUME NEW r \in Request, PlaceInvalid(r) \/ PlaceStop(r) \/ PlaceNow(r)
      PROVE  Due(subject)' = 0
  <2>1. /\ pc = "idle" /\ nextId \in OrderId /\ UNCHANGED <<filled, open, fills>>
        /\ pc' \in {"save", "start"} /\ taker' \in {0, nextId} /\ (pc' = "save" => subject' = nextId)
    <3>1. pc = "idle" /\ taker = 0
      BY <1>1 DEF PlaceInvalid, PlaceStop, PlaceNow, Register, WellFormed, CallsAreInOrder
    <3> QED
      BY <1>1, <3>1 DEF PlaceInvalid, PlaceStop, PlaceNow, Register, Conclude, Goto
  <2>2. nextId \notin Used
    BY <2>1 DEF WellFormed, TypeOK, CallsAreInOrder, OrderId
  <2>3. open[nextId] = 0 /\ Coming(nextId) = 0
    BY <2>1, <2>2 DEF CallFits, Untouched
  <2>4. ~MakerTurn' /\ subject' = nextId
    BY <2>1 DEF MakerTurn, Writing
  <2>5. Coming(subject)' = 0 /\ open'[subject'] = 0
    BY <2>1, <2>3, <2>4 DEF Coming
  <2> QED
    BY <2>4, <2>5 DEF Due, Taken
<1>2. ASSUME ~MakerTurn', UNCHANGED fills, fills = <<>>, open'[subject'] = 0
      PROVE  Due(subject)' = 0
  BY <1>2, NothingComes DEF Due, Taken
<1>3. CASE StartLimit \/ CheckLimit \/ StartMarket
  <2>1. /\ pc \in {"start", "risk"} /\ UNCHANGED <<open, fills, taker>>
        /\ pc' \in {"risk", "match"} \/ subject' = taker
    BY <1>3 DEF StartLimit, CheckLimit, StartMarket, Conclude, ThenWrite, Goto, Sweep
  <2>2. fills = <<>> /\ open[taker] = 0 /\ subject' = taker /\ ~MakerTurn'
    BY <2>1 DEF FillsAreFresh, CallFits, Placing, Writing, MakerTurn
  <2> QED
    BY <1>2, <2>1, <2>2
<1>4. CASE Advance
  <2>1. /\ pc = "advance" /\ subject' = Fill.maker
        /\ filled' = [filled EXCEPT ![Fill.maker] = Advanced(Fill.maker)]
        /\ status' = [status EXCEPT ![Fill.maker] =
                         IF Advanced(Fill.maker) >= req[Fill.maker].qty THEN "filled" ELSE "partial"]
        /\ UNCHANGED <<req, open, taker, fills>>
    BY <1>4 DEF Advance, Conclude, Goto
  <2>2. PICK m : m = Fill.maker
    OBVIOUS
  <2>3. taker # 0 /\ fills # <<>>
    BY <2>1 DEF WellFormed, CallsAreInOrder
  <2>4. m \in Used /\ m \in OrderId /\ m # taker
    <3>1. /\ m \in Used /\ m \in OrderId /\ Fill = fills[1] /\ 1 \in DOMAIN fills
      BY <2>2, <2>3, HeadIsComing
    <3> QED
      BY <2>2, <3>1 DEF FillsAreFresh
  <2>5. filled'[m] >= req[m].qty
    BY <2>1, <2>2, <2>4 DEF WellFormed, TypeOK, Final
  <2>6. MakerTurn' /\ Fill' = Fill
    BY <2>1, <2>2, <2>3, <2>4 DEF MakerTurn, Writing, Fill
  <2>7. Offered(m)'
    BY <2>1, <2>2, <2>4, <2>6 DEF Offered
  <2>8. OffersFit' /\ WellFormed' /\ m \in Used' /\ req'[m] = req[m]
    BY <2>1, <2>4, OffersStayFit, StepsKeepRestartForm DEF Used
  <2>9. Offer(m)' <= req[m].qty
    BY <2>7, <2>8 DEF OffersFit
  <2>10. Due(m)' \in Nat /\ filled'[m] \in Int /\ req[m].qty \in Int
    BY <2>8, OffersNext
  <2>11. Due(m)' = 0
    BY <2>5, <2>9, <2>10 DEF Offer
  <2>12. Due(subject)' = Due(m)'
    BY <2>1, <2>2 DEF Due, Coming, Taken
  <2> QED
    BY <2>11, <2>12
<1>5. CASE Finish
  <2>1. /\ pc = "settle" /\ fills = <<>> /\ pc' \in {"release", "save"} /\ subject' = taker
        /\ status' = [status EXCEPT ![taker] =
                         IF left = 0 THEN "filled"
                         ELSE IF ~Rests(taker) THEN "canceled"
                         ELSE IF left < req[taker].qty THEN "partial" ELSE "new"]
        /\ UNCHANGED <<open, taker, fills>>
    BY <1>5 DEF Finish, Conclude, ThenWrite, Goto
  <2>2. taker \in OrderId
    BY <2>1 DEF WellFormed, CallsAreInOrder, Used
  <2>3. left = 0 \/ ~Rests(taker)
    BY <2>1, <2>2 DEF WellFormed, TypeOK, Final
  <2>4. open[taker] = 0
    BY <2>1, <2>3 DEF CallFits, Placing, Sweeping
  <2> QED
    BY <1>2, <2>1, <2>4 DEF MakerTurn
<1>6. CASE ReleaseHold \/ ReserveRest
  <2>1. /\ pc \in {"release", "reserve"} /\ pc' \in {"reserve", "save"}
        /\ UNCHANGED <<status, open, fills, taker, subject>>
    BY <1>6 DEF ReleaseHold, ReserveRest, Goto
  <2>2. (MakerTurn' <=> MakerTurn) /\ Writing
    BY <2>1 DEF MakerTurn, Writing
  <2>3. Due(subject) = 0
    BY <2>1, <2>2 DEF FinalFits
  <2>4. Due(subject)' = Due(subject)
    BY <2>1, <2>2 DEF Due, Coming, Taken, Fill
  <2> QED
    BY <2>3, <2>4
<1>7. ASSUME NEW i \in OrderId, cancel(i)
      PROVE  Due(subject)' = 0
  <2>1. /\ pc = "idle" /\ pc' \in {"release", "save"} /\ subject' = i /\ UNCHANGED <<fills, taker>>
        /\ open' = [open EXCEPT ![i] = 0]
    BY <1>7 DEF cancel, Conclude, Goto
  <2>2. taker = 0 /\ fills = <<>> /\ ~MakerTurn'
    BY <2>1 DEF WellFormed, CallsAreInOrder, FillsAreFresh, MakerTurn
  <2>3. open'[subject'] = 0
    BY <2>1 DEF WellFormed, TypeOK
  <2> QED
    BY <1>2, <2>1, <2>2, <2>3
<1>8. CASE SetKillSwitch \/ UNCHANGED vars
  <2>1. UNCHANGED <<pc, status, open, fills, taker, subject>>
    BY <1>8 DEF SetKillSwitch, vars
  <2>2. (MakerTurn' <=> MakerTurn) /\ Writing
    BY <2>1 DEF MakerTurn, Writing
  <2>3. Due(subject) = 0
    BY <2>1, <2>2 DEF FinalFits
  <2>4. Due(subject)' = Due(subject)
    BY <2>1, <2>2 DEF Due, Coming, Taken, Fill
  <2> QED
    BY <2>3, <2>4
<1>9. ASSUME \/ MatchDone \/ RecordTrade \/ Pay \/ PayRaises \/ BookBuyer
             \/ BookSeller \/ ReserveRaises \/ SaveResting \/ SavePlaced \/ SaveAndReturn \/ Quiescent
             \/ \E i \in OrderId : MatchOne(i) \/ Activate(i)
      PROVE  ~Writing'
  <2>1. pc' \in {"idle", "match", "settle", "pay", "book buy", "book sell", "advance", "triggers", "start"}
    BY <1>9 DEF MatchDone, RecordTrade, Pay, PayRaises, BookBuyer, BookSeller,
                ReserveRaises, SaveResting, SavePlaced, SaveAndReturn, Quiescent, MatchOne, Activate,
                EndCall, Goto
  <2> QED
    BY <2>1 DEF Writing
<1> QED
  BY <1>1, <1>3, <1>4, <1>5, <1>6, <1>7, <1>8, <1>9 DEF Next, place, Step

\* A finished order on the table takes part in nothing any more.
Closed(i) ==
    /\ status[i] = saved[i].status
    /\ open[i] = 0 /\ Coming(i) = 0
    /\ i = taker => pc = "triggers"
    /\ Writing => subject # i

\* A finished order stays so, in memory and on the table.
LEMMA ClosedStaysClosed ==
    ASSUME RestartForm, [Next]_vars, NEW i \in Used, status[i] \in Final, Closed(i)
    PROVE  Closed(i)' /\ saved'[i] = saved[i]
<1> USE DEF RestartForm
<1>0. i \in OrderId /\ i # 0
  BY DEF Used, OrderId
<1>1. saved'[i] = saved[i]
  BY <1>0, RowsMove DEF Closed, Writing, WellFormed, TypeOK
<1>2. ASSUME NEW r \in Request, PlaceInvalid(r) \/ PlaceStop(r) \/ PlaceNow(r)
      PROVE  Closed(i)'
  <2>1. /\ pc = "idle" /\ nextId \in OrderId /\ UNCHANGED <<open, fills>>
        /\ pc' \in {"save", "start"} /\ taker' \in {0, nextId} /\ (pc' = "save" => subject' = nextId)
        /\ \E st : status' = [status EXCEPT ![nextId] = st]
    <3>1. pc = "idle" /\ taker = 0
      BY <1>2 DEF PlaceInvalid, PlaceStop, PlaceNow, Register, WellFormed, CallsAreInOrder
    <3> QED
      BY <1>2, <3>1 DEF PlaceInvalid, PlaceStop, PlaceNow, Register, Conclude, Goto
  <2>2. i # nextId
    BY <2>1 DEF WellFormed, TypeOK, CallsAreInOrder, OrderId
  <2>3. Coming(i)' = Coming(i)
    BY <2>1 DEF Coming
  <2> QED
    BY <1>0, <1>1, <2>1, <2>2, <2>3 DEF Closed, Writing, WellFormed, TypeOK
<1>3. CASE StartLimit \/ CheckLimit \/ StartMarket
  <2>1. /\ pc \in {"start", "risk"} /\ UNCHANGED <<open, fills, taker>>
        /\ \/ pc' \in {"risk", "match"} /\ status' = status
           \/ pc' \in {"release", "save"} /\ subject' = taker /\ \E st : status' = [status EXCEPT ![taker] = st]
    BY <1>3 DEF StartLimit, CheckLimit, StartMarket, Conclude, ThenWrite, Goto, Sweep
  <2>2. i # taker /\ Coming(i)' = Coming(i)
    BY <2>1 DEF Closed, Coming
  <2> QED
    BY <1>0, <1>1, <2>1, <2>2 DEF Closed, Writing, WellFormed, TypeOK
<1>4. ASSUME NEW m \in OrderId, MatchOne(m)
      PROVE  Closed(i)'
  <2>1. PICK q : q = MatchQty(m)
    OBVIOUS
  <2>2. /\ pc = "match" /\ open[m] > 0
        /\ UNCHANGED <<status, pc, taker, subject>>
        /\ open' = [open EXCEPT ![m] = open[m] - q]
        /\ \A j : Coming(j)' = Coming(j) + IF j = m THEN q ELSE 0
    BY <1>4, <2>1, MatchingMoves
  <2>3. i # m
    BY <2>2 DEF Closed
  <2> QED
    BY <1>0, <1>1, <2>2, <2>3 DEF Closed, Writing, WellFormed, TypeOK
<1>5. CASE MatchDone
  <2>1. /\ pc = "match" /\ pc' = "settle" /\ UNCHANGED <<status, fills, taker>>
        /\ open' = open \/ open' = [open EXCEPT ![taker] = left]
    BY <1>5 DEF MatchDone, Goto
  <2>2. i # taker /\ Coming(i)' = Coming(i)
    BY <2>1 DEF Closed, Coming
  <2> QED
    BY <1>0, <1>1, <2>1, <2>2 DEF Closed, Writing, WellFormed, TypeOK
<1>6. CASE RecordTrade \/ Pay \/ BookBuyer \/ BookSeller
  <2>1. /\ pc \in {"settle", "pay", "book buy", "book sell"}
        /\ pc' \in {"pay", "book buy", "book sell", "advance"}
        /\ UNCHANGED <<status, open, fills, taker>>
    BY <1>6 DEF RecordTrade, Pay, BookBuyer, BookSeller, BookPosition, Goto
  <2> QED
    BY <1>1, <2>1 DEF Closed, Coming, Writing
<1>7. CASE Advance
  <2>1. /\ pc = "advance" /\ pc' \in {"release", "save"} /\ subject' = Fill.maker
        /\ \E st : status' = [status EXCEPT ![Fill.maker] = st]
        /\ UNCHANGED <<open, fills, taker>>
    BY <1>7 DEF Advance, Conclude, Goto
  <2>2. i # Fill.maker
    <3>1. fills # <<>>
      BY <2>1 DEF WellFormed, CallsAreInOrder
    <3>2. Coming(Fill.maker) >= Fill.qty /\ Fill.qty \in Nat \ {0}
      BY <3>1, HeadIsComing
    <3> QED
      BY <3>2 DEF Closed
  <2> QED
    BY <1>0, <1>1, <2>1, <2>2 DEF Closed, Coming, Writing, WellFormed, TypeOK
<1>8. CASE Finish
  <2>1. /\ pc = "settle" /\ pc' \in {"release", "save"} /\ subject' = taker
        /\ \E st : status' = [status EXCEPT ![taker] = st]
        /\ UNCHANGED <<open, fills, taker>>
    BY <1>8 DEF Finish, Conclude, ThenWrite, Goto
  <2>2. i # taker
    BY <2>1 DEF Closed
  <2> QED
    BY <1>0, <1>1, <2>1, <2>2 DEF Closed, Coming, Writing, WellFormed, TypeOK
<1>9. CASE ReleaseHold \/ ReserveRest
  <2>1. /\ pc \in {"release", "reserve"} /\ pc' \in {"reserve", "save"}
        /\ UNCHANGED <<status, open, fills, taker, subject>>
    BY <1>9 DEF ReleaseHold, ReserveRest, Goto
  <2> QED
    BY <1>1, <2>1 DEF Closed, Coming, Writing
<1>10. CASE PayRaises \/ ReserveRaises \/ SaveAndReturn \/ Quiescent
  <2>1. pc' = "idle" /\ taker' = 0 /\ fills' = <<>> /\ UNCHANGED <<status, open>>
    BY <1>10 DEF PayRaises, ReserveRaises, SaveAndReturn, Quiescent, WriteRow, EndCall, Goto
  <2> QED
    BY <1>0, <1>1, <2>1, NothingComes DEF Closed, Writing
<1>11. CASE SaveResting
  <2>1. pc = "save" /\ pc' = "settle" /\ UNCHANGED <<status, open, taker>> /\ fills' = Tail(fills)
    BY <1>11 DEF SaveResting, WriteRow, Goto
  <2>2. fills # <<>>
    BY <1>11, <2>1 DEF SaveResting, WellFormed, CallsAreInOrder
  <2>3. Coming(i)' = Coming(i) - (IF i = Fill.maker THEN Fill.qty ELSE 0)
    BY <2>1, <2>2, HeadIsComing DEF Coming
  <2>4. i # Fill.maker /\ i # taker
    <3>1. Coming(Fill.maker) >= Fill.qty /\ Fill.qty \in Nat \ {0}
      BY <2>2, HeadIsComing
    <3> QED
      BY <2>1, <3>1 DEF Closed
  <2> QED
    BY <1>1, <2>1, <2>3, <2>4 DEF Closed, Writing
<1>12. CASE SavePlaced
  <2>1. pc = "save" /\ pc' = "triggers" /\ UNCHANGED <<status, open, taker, fills>>
    BY <1>12 DEF SavePlaced, WriteRow, Goto
  <2> QED
    BY <1>1, <2>1 DEF Closed, Coming, Writing
<1>13. ASSUME NEW j \in OrderId, Activate(j)
       PROVE  Closed(i)'
  <2>1. /\ pc' = "start" /\ UNCHANGED <<status, open, fills>> /\ taker' = j /\ j \in pendingStops
    BY <1>13 DEF Activate, Ready, Goto
  <2>2. i # j
    BY <2>1 DEF CallFits, Final
  <2> QED
    BY <1>1, <2>1, <2>2 DEF Closed, Coming, Writing
<1>14. ASSUME NEW j \in OrderId, cancel(j)
       PROVE  Closed(i)'
  <2>1. /\ pc = "idle" /\ subject' = j /\ UNCHANGED <<fills, taker>> /\ status[j] \in Open
        /\ open' = [open EXCEPT ![j] = 0] /\ \E st : status' = [status EXCEPT ![j] = st]
    BY <1>14 DEF cancel, Cancelable, Conclude
  <2>2. i # j
    BY <2>1 DEF Open, Final
  <2>3. taker = 0
    BY <2>1 DEF WellFormed, CallsAreInOrder
  <2> QED
    BY <1>0, <1>1, <2>1, <2>2, <2>3 DEF Closed, Coming, Writing, WellFormed, TypeOK
<1>15. CASE SetKillSwitch \/ UNCHANGED vars
  <2>1. UNCHANGED <<status, open, fills, pc, taker, subject>>
    BY <1>15 DEF SetKillSwitch, vars
  <2> QED
    BY <1>1, <2>1 DEF Closed, Coming, Writing
<1> QED
  BY <1>1, <1>2, <1>3, <1>4, <1>5, <1>6, <1>7, <1>8, <1>9, <1>10, <1>11, <1>12, <1>13, <1>14, <1>15
     DEF Next, place, Step

\* A row that is written with a final status is of an order with nothing due.
LEMMA WritingCloses ==
    ASSUME RestartForm, FinalFits, [Next]_vars, NEW i \in OrderId,
           saved'[i] # saved[i], saved'[i].status \in Final
    PROVE  Closed(i)'
<1> USE DEF RestartForm
<1>1. /\ pc = "save" /\ subject \in Used /\ i = subject
      /\ saved'[i].status = status[i] /\ Writing
  BY RowsMove DEF WellFormed, TypeOK, Writing
<1>2. Due(i) = 0
  BY <1>1 DEF FinalFits
<1>3. SaveResting \/ SavePlaced \/ SaveAndReturn
  <2>1. ASSUME pc = "save"
        PROVE  /\ ~(place \/ (\E j \in OrderId : cancel(j)) \/ SetKillSwitch)
               /\ ~(StartLimit \/ CheckLimit \/ StartMarket \/ (\E m \in OrderId : MatchOne(m)) \/ MatchDone)
               /\ ~(RecordTrade \/ Pay \/ PayRaises \/ BookBuyer \/ BookSeller \/ Advance \/ Finish)
               /\ ~(ReleaseHold \/ ReserveRest \/ ReserveRaises \/ (\E j \in OrderId : Activate(j)) \/ Quiescent)
    <3>1. ~(place \/ (\E j \in OrderId : cancel(j)) \/ SetKillSwitch)
      BY <2>1 DEF place, PlaceInvalid, PlaceStop, PlaceNow, Register, cancel, SetKillSwitch
    <3>2. ~(StartLimit \/ CheckLimit \/ StartMarket \/ (\E m \in OrderId : MatchOne(m)) \/ MatchDone)
      BY <2>1 DEF StartLimit, CheckLimit, StartMarket, MatchOne, MatchDone
    <3>3. ~(RecordTrade \/ Pay \/ PayRaises \/ BookBuyer \/ BookSeller \/ Advance \/ Finish)
      BY <2>1 DEF RecordTrade, Pay, PayRaises, BookBuyer, BookSeller, Advance, Finish
    <3>4. ~(ReleaseHold \/ ReserveRest \/ ReserveRaises \/ (\E j \in OrderId : Activate(j)) \/ Quiescent)
      BY <2>1 DEF ReleaseHold, ReserveRest, ReserveRaises, Activate, Quiescent
    <3> QED
      BY <3>1, <3>2, <3>3, <3>4
  <2>2. ~UNCHANGED vars
    BY DEF vars
  <2> QED
    BY <1>1, <2>1, <2>2 DEF Next, Step
<1>4. CASE SaveResting
  <2>1. pc' = "settle" /\ taker # 0 /\ subject # taker /\ UNCHANGED <<status, open, taker>> /\ i \in Used
    BY <1>1, <1>4 DEF SaveResting, WriteRow, Goto
  <2>2. Due(i)' = 0
    BY <1>2, <1>4, <2>1, NextFillOffers
  <2>3. ~MakerTurn'
    BY <2>1 DEF MakerTurn
  <2>4. Coming(i)' \in Nat
    <3>1. WellFormed'
      BY StepsKeepRestartForm
    <3> QED
      BY <3>1, ComingNext
  <2>5. open'[i] \in Nat
    BY <2>1 DEF WellFormed, TypeOK
  <2>6. open'[i] = 0 /\ Coming(i)' = 0
    BY <2>2, <2>3, <2>4, <2>5 DEF Due, Taken
  <2> QED
    BY <1>1, <2>1, <2>6 DEF Closed, Writing
<1>5. CASE SavePlaced \/ SaveAndReturn
  <2>1. /\ pc' = "triggers" \/ (pc' = "idle" /\ taker' = 0) 
        /\ subject = taker \/ taker = 0
        /\ UNCHANGED <<status, open>>
        /\ fills' = fills \/ fills' = <<>>
    BY <1>5 DEF SavePlaced, SaveAndReturn, WriteRow, EndCall, Goto
  <2>2. ~MakerTurn /\ ~Placing
    BY <1>1, <2>1 DEF MakerTurn, Placing, Sweeping, Recorded
  <2>3. fills = <<>> /\ i # 0
    BY <1>1, <2>2 DEF CallFits, Used, OrderId
  <2>4. Coming(i) = 0 /\ Coming(i)' = 0
    BY <2>1, <2>3, NothingComes, NoFillsNoSums DEF Coming
  <2>5. open[i] = 0
    BY <1>1, <1>2, <2>2, <2>4 DEF Due, Taken, WellFormed, TypeOK
  <2> QED
    BY <1>1, <2>1, <2>3, <2>4, <2>5 DEF Closed, Writing
<1> QED
  BY <1>3, <1>4, <1>5

\* Every step keeps finished orders finished.
LEMMA FinalStaysFit ==
    ASSUME RestartForm, OffersFit, FinalFits, [Next]_vars
    PROVE  FinalFits'
<1>1. ASSUME NEW i \in OrderId, saved'[i].status \in Final
      PROVE  Closed(i)'
  <2>1. CASE saved'[i] # saved[i]
    BY <1>1, <2>1, WritingCloses
  <2>2. CASE saved'[i] = saved[i]
    <3>1. Closed(i) /\ status[i] \in Final
      BY <1>1, <2>2 DEF FinalFits, Closed
    <3>2. i \in Used
      BY <3>1 DEF RestartForm, WellFormed, CallsAreInOrder, Final
    <3> QED
      BY <3>1, <3>2, ClosedStaysClosed
  <2> QED
    BY <2>1, <2>2
<1>2. Writing' /\ status'[subject'] \in Final => Due(subject)' = 0
  BY TurnsAreDone
<1> QED
  BY <1>1, <1>2 DEF FinalFits, Closed

\* A restart reads them back as finished.
LEMMA RestoringKeepsFinal ==
    ASSUME WellFormed, Restore
    PROVE  FinalFits'
<1>1. /\ status' = [i \in OrderId |-> saved[i].status]
      /\ open' = [i \in OrderId |-> IF Reopens(i) THEN Reopened(i) ELSE 0]
      /\ pc' = "idle" /\ taker' = 0 /\ fills' = <<>> /\ saved' = saved
  BY DEF Restore, EndCall, Goto
<1>2. ~Writing' /\ \A i : Coming(i)' = 0
  BY <1>1, NothingComes DEF Writing
<1>3. ASSUME NEW i \in OrderId, saved'[i].status \in Final
      PROVE  status'[i] = saved'[i].status /\ open'[i] = 0 /\ i # taker'
  BY <1>1, <1>3 DEF Reopens, Open, Final, OrderId
<1> QED
  BY <1>2, <1>3 DEF FinalFits

\* What a crash can meet, the orders' offers and final rows included.
CrashForm == RestartForm /\ OffersFit /\ FinalFits

\* At first there is no order to finish.
LEMMA CrashFormToStart == Init => CrashForm
<1> SUFFICES ASSUME Init PROVE CrashForm
  OBVIOUS
<1>1. RestartForm
  BY RestartFormToStart
<1>2. pc = "idle" /\ fills = <<>> /\ saved = [i \in OrderId |-> NoRow] /\ Used = {}
  BY DEF Init, Used
<1>3. ~Writing
  BY <1>2 DEF Writing
<1>4. OffersFit
  BY <1>2 DEF OffersFit
<1>5. FinalFits
  BY <1>2, <1>3 DEF FinalFits, Final, NoRow
<1> QED
  BY <1>1, <1>4, <1>5 DEF CrashForm

\* Steps, restarts and crashes keep finished orders finished.
LEMMA CrashFormIsKept ==
    ASSUME CrashForm, [Next \/ Restart \/ Crash]_vars
    PROVE  CrashForm'
<1> USE DEF CrashForm
<1>1. RestartForm'
  BY RestartFormIsKept
<1>2. CASE [Next]_vars
  BY <1>1, <1>2, OffersStayFit, FinalStaysFit
<1>3. CASE Restart \/ Crash
  <2>1. WellFormed /\ RowsFit /\ Restore
    BY <1>3 DEF Restart, Crash, RestartForm
  <2>2. ASSUME NEW i \in Used', Offered(i)'
        PROVE  Offer(i)' <= req'[i].qty
    <3>1. Offer(i)' = req'[i].qty
      BY <2>1, <2>2, RestoringOffers
    <3>2. req'[i].qty \in Int
      BY <1>1, OffersNext DEF RestartForm
    <3> QED
      BY <3>1, <3>2
  <2>3. OffersFit'
    BY <2>2 DEF OffersFit
  <2> QED
    BY <1>1, <2>1, <2>3, RestoringKeepsFinal
<1> QED
  BY <1>2, <1>3

\* Wherever the process dies, an order the table shows as finished keeps that row for good:
\* no cancel, fill, trigger or restart writes it again (oms.py _save_order, _restore).
THEOREM FinalRowsStay == SpecCrash => WrittenFinalStays
<1>1. Init => CrashForm
  BY CrashFormToStart
<1>2. CrashForm /\ [Next \/ Restart \/ Crash]_vars => CrashForm'
  BY CrashFormIsKept
<1>3. CrashForm /\ [Next \/ Restart \/ Crash]_vars
          => [\A i \in OrderId : saved[i].status \in Final => saved'[i] = saved[i]]_vars
  <2> SUFFICES ASSUME CrashForm, [Next \/ Restart \/ Crash]_vars,
                      NEW i \in OrderId, saved[i].status \in Final
               PROVE  saved'[i] = saved[i]
    OBVIOUS
  <2>1. CASE [Next]_vars
    <3>1. Closed(i) /\ status[i] \in Final
      BY DEF CrashForm, FinalFits, Closed
    <3>2. i \in Used
      BY <3>1 DEF CrashForm, RestartForm, WellFormed, CallsAreInOrder, Final
    <3> QED
      BY <2>1, <3>1, <3>2, ClosedStaysClosed DEF CrashForm
  <2>2. CASE Restart \/ Crash
    BY <2>2 DEF Restart, Crash, Restore
  <2> QED
    BY <2>1, <2>2
<1> QED
  BY <1>1, <1>2, <1>3, PTL DEF SpecCrash, WrittenFinalStays

-----------------------------------------------------------------------------
(* Reservations that lose their order. *)

\* The call in progress has yet to place the order, or to write its row.
InFlightNow(i) == (Placing /\ i = taker) \/ (Writing /\ i = subject)

\* A reservation has its order: an open limit buy, one that is being placed, or one whose
\* reservation is about to be released.
Legit(i) ==
    /\ i \in Used /\ IsBuy(i) /\ IsLimit(i)
    /\ ~(pc = "start" /\ i = taker)
    /\ Working(i) \/ (Placing /\ i = taker) \/ (pc = "release" /\ i = subject)

\* A reservation without its order.
Stray(i) == hold[i] # NoHold /\ ~Legit(i)
Strays == {i \in OrderId : Stray(i)}

\* A reservation whose order a restart finds open in the table, but for the order in flight.
Tracked(i) == hold[i] # NoHold /\ Legit(i) /\ ~InFlightNow(i) => saved[i].status \in Open
HoldsTrack ==
    /\ \A i \in OrderId : Tracked(i)
    /\ pc \in {"release", "reserve"} => IsBuy(subject)
    /\ pc = "reserve" => KeepsHold(subject) /\ hold[subject] = NoHold

\* Fills are of two sides, so no call has the reservations of two buyers in its hands.
SidesDiffer == \A n \in DOMAIN fills : req[fills[n].maker].side # req[taker].side

\* A sweep only meets the other side.
LEMMA SidesStayDifferent ==
    ASSUME WellFormed, FillsAreFresh, SidesDiffer, [Next]_vars
    PROVE  SidesDiffer'
<1>1. ASSUME fills' = <<>> PROVE SidesDiffer'
  <2>1. DOMAIN fills' = {}
    BY <1>1, EmptyHasNoIndex
  <2> QED
    BY <2>1 DEF SidesDiffer
<1>2. ASSUME UNCHANGED <<req, taker, fills>> PROVE SidesDiffer'
  BY <1>2 DEF SidesDiffer
<1>3. CASE place
  <2>1. pc = "idle" /\ fills' = fills
    BY <1>3 DEF place, PlaceInvalid, PlaceStop, PlaceNow, Register
  <2> QED
    BY <1>1, <2>1 DEF FillsAreFresh
<1>4. ASSUME NEW m \in OrderId, MatchOne(m) PROVE SidesDiffer'
  <2>1. /\ m \in Used /\ req[m].side # req[taker].side /\ UNCHANGED <<req, taker>>
        /\ DOMAIN fills = 1 .. Len(fills) /\ Len(fills) \in Nat
        /\ DOMAIN fills' = 1 .. Len(fills) + 1
        /\ \A n \in 1 .. Len(fills) : fills'[n] = fills[n]
        /\ fills'[Len(fills) + 1].maker = m
    BY <1>4, MatchingMoves
  <2>2. \A n \in 1 .. Len(fills) + 1 : n \in 1 .. Len(fills) \/ n = Len(fills) + 1
    BY <2>1
  <2> QED
    BY <2>1, <2>2 DEF SidesDiffer
<1>5. CASE SaveResting
  <2>1. /\ pc = "save" /\ taker # 0 /\ subject # taker /\ UNCHANGED <<req, taker>> /\ fills' = Tail(fills)
    BY <1>5 DEF SaveResting, WriteRow
  <2>2. fills # <<>> /\ fills \in Seq(FillRecord)
    BY <2>1 DEF WellFormed, TypeOK, CallsAreInOrder
  <2>3. \A n \in DOMAIN fills' : n + 1 \in DOMAIN fills /\ fills'[n] = fills[n + 1]
    BY <2>1, <2>2, TailShifts
  <2> QED
    BY <2>1, <2>3 DEF SidesDiffer
<1>6. CASE PayRaises \/ ReserveRaises \/ SaveAndReturn \/ Quiescent
  BY <1>1, <1>6 DEF PayRaises, ReserveRaises, SaveAndReturn, Quiescent, EndCall
<1>7. ASSUME NEW i \in OrderId, Activate(i) PROVE SidesDiffer'
  <2>1. pc = "triggers" /\ fills' = fills
    BY <1>7 DEF Activate
  <2> QED
    BY <1>1, <2>1 DEF FillsAreFresh
<1>8. CASE StartLimit \/ CheckLimit \/ StartMarket \/ MatchDone
  BY <1>2, <1>8 DEF StartLimit, CheckLimit, StartMarket, MatchDone
<1>9. CASE RecordTrade \/ Pay \/ BookBuyer \/ BookSeller \/ Advance \/ Finish
  <2>1. UNCHANGED <<req, taker, fills>>
    BY <1>9 DEF RecordTrade, Pay, BookBuyer, BookSeller, BookPosition, Advance, Finish
  <2> QED
    BY <1>2, <2>1
<1>10. CASE ReleaseHold \/ ReserveRest \/ SavePlaced
  BY <1>2, <1>10 DEF ReleaseHold, ReserveRest, SavePlaced, WriteRow
<1>11. ASSUME NEW i \in OrderId, cancel(i) PROVE SidesDiffer'
  BY <1>2, <1>11 DEF cancel
<1>12. CASE SetKillSwitch \/ UNCHANGED vars
  BY <1>2, <1>12 DEF SetKillSwitch, vars
<1> QED
  BY <1>3, <1>4, <1>5, <1>6, <1>7, <1>8, <1>9, <1>10, <1>11, <1>12 DEF Next, place, Step

\* An order whose turn it neither is nor becomes keeps its reservation's standing.
LEMMA StandingKept ==
    ASSUME NEW i, Tracked(i), i \in Used' <=> i \in Used, req'[i] = req[i],
           hold'[i] = hold[i] \/ hold'[i] = NoHold,
           status'[i] = status[i], saved'[i] = saved[i],
           (Placing' /\ i = taker') <=> (Placing /\ i = taker),
           (pc' = "start" /\ i = taker') <=> (pc = "start" /\ i = taker),
           (Writing' /\ i = subject') <=> (Writing /\ i = subject),
           hold'[i] # NoHold => ((pc' = "release" /\ i = subject') <=> (pc = "release" /\ i = subject))
    PROVE  (Stray(i)' => Stray(i)) /\ Tracked(i)'
<1>1. CASE hold'[i] = NoHold
  BY <1>1 DEF Stray, Tracked
<1>2. CASE hold'[i] = hold[i] /\ hold[i] # NoHold
  <2>1. IsBuy(i)' = IsBuy(i) /\ IsLimit(i)' = IsLimit(i) /\ Working(i)' = Working(i)
    BY DEF IsBuy, IsLimit, Working
  <2>2. Legit(i)' <=> Legit(i)
    BY <1>2, <2>1 DEF Legit
  <2>3. InFlightNow(i)' <=> InFlightNow(i)
    BY DEF InFlightNow
  <2> QED
    BY <1>2, <2>2, <2>3 DEF Stray, Tracked
<1> QED
  BY <1>1, <1>2

\* A step creates no stray reservation, and rows keep up with the tracked ones.
LEMMA StandingsKept ==
    ASSUME WholeCents, RestartForm, SidesDiffer, HoldsTrack, [Next]_vars, NEW i \in OrderId
    PROVE  (Stray(i)' => Stray(i)) /\ Tracked(i)'
<1> USE DEF RestartForm
<1>0. Tracked(i) /\ i # 0
  BY DEF HoldsTrack, OrderId
<1>1. ASSUME NEW r \in Request, PlaceInvalid(r) \/ PlaceStop(r) \/ PlaceNow(r)
      PROVE  (Stray(i)' => Stray(i)) /\ Tracked(i)'
  <2>1. /\ pc = "idle" /\ nextId \in OrderId /\ UNCHANGED <<hold, saved>> /\ taker = 0
        /\ req' = [req EXCEPT ![nextId] = r]
        /\ taker' \in {0, nextId}
        /\ \/ pc' = "save" /\ subject' = nextId
              /\ \E st \in {"pending", "rejected"} : status' = [status EXCEPT ![nextId] = st]
           \/ pc' = "start" /\ taker' = nextId /\ status' = [status EXCEPT ![nextId] = "new"]
    <3>1. pc = "idle" /\ taker = 0
      BY <1>1 DEF PlaceInvalid, PlaceStop, PlaceNow, Register, WellFormed, CallsAreInOrder
    <3> QED
      BY <1>1, <3>1 DEF PlaceInvalid, PlaceStop, PlaceNow, Register, Conclude, Goto
  <2>2. nextId \notin Used
    BY <2>1 DEF WellFormed, TypeOK, CallsAreInOrder, OrderId
  <2>3. /\ ~Placing /\ ~Writing /\ (Placing' <=> pc' = "start") /\ (Writing' <=> pc' = "save")
    BY <2>1 DEF Placing, Sweeping, Recorded, MakerTurn, Writing
  <2>4. CASE i # nextId
    <3>1. (i \in Used' <=> i \in Used) /\ req'[i] = req[i] /\ status'[i] = status[i]
      BY <2>1, <2>4 DEF WellFormed, TypeOK, Used
    <3> QED
      BY <1>0, <2>1, <2>3, <2>4, <3>1, StandingKept
  <2>5. CASE i = nextId
    <3>1. hold[i] # NoHold => Stray(i)
      BY <2>2, <2>5 DEF Stray, Legit
    <3>2. ~Legit(i)'
      <4>1. pc' = "save" => ~Working(i)' /\ ~(Placing' /\ i = taker')
        BY <2>1, <2>3, <2>5 DEF Working, Open, WellFormed, TypeOK
      <4> QED
        BY <2>1, <2>5, <4>1 DEF Legit
    <3> QED
      BY <2>1, <3>1, <3>2 DEF Stray, Tracked
  <2> QED
    BY <2>4, <2>5
<1>2. CASE StartLimit
  <2>1. /\ pc = "start" /\ IsLimit(taker) /\ UNCHANGED <<req, taker, saved>>
        /\ \/ /\ pc' = "risk" /\ IsBuy(taker) /\ UNCHANGED status
              /\ \E h : hold' = [hold EXCEPT ![taker] = h]
           \/ /\ pc' = "save" /\ subject' = taker /\ UNCHANGED hold
              /\ status' = [status EXCEPT ![taker] = "rejected"]
           \/ /\ pc' = "risk" /\ ~IsBuy(taker) /\ UNCHANGED <<status, hold>>
    BY <1>2 DEF StartLimit, Reserve, Conclude, Goto
  <2>2. Placing /\ ~Writing /\ (Placing' <=> pc' = "risk") /\ (Writing' <=> pc' = "save")
    BY <2>1 DEF Placing, Sweeping, Recorded, MakerTurn, Writing
  <2>3. taker \in Used /\ taker \in OrderId /\ Used' = Used
    BY <2>1 DEF WellFormed, CallsAreInOrder, Used
  <2>4. CASE i # taker
    <3>1. hold'[i] = hold[i] /\ status'[i] = status[i]
      BY <2>1, <2>3, <2>4 DEF WellFormed, TypeOK
    <3> QED
      BY <1>0, <2>1, <2>2, <2>3, <2>4, <3>1, StandingKept
  <2>5. CASE i = taker
    <3>1. ~Legit(i)
      BY <2>1, <2>5 DEF Legit
    <3>2. CASE pc' = "risk" /\ IsBuy(taker)
      <4>1. Legit(i)'
        BY <2>1, <2>2, <2>3, <2>5, <3>2 DEF Legit, IsBuy, IsLimit
      <4>2. InFlightNow(i)'
        BY <2>1, <2>2, <2>5, <3>2 DEF InFlightNow
      <4> QED
        BY <4>1, <4>2 DEF Stray, Tracked
    <3>3. CASE ~(pc' = "risk" /\ IsBuy(taker))
      <4>1. pc' = "save" => ~Working(i)'
        BY <2>1, <2>3, <2>5 DEF Working, Open, WellFormed, TypeOK
      <4>2. ~Legit(i)'
        BY <2>1, <2>2, <2>5, <3>3, <4>1 DEF Legit, IsBuy
      <4> QED
        BY <2>1, <3>1, <3>3, <4>2 DEF Stray, Tracked
    <3> QED
      BY <2>1, <3>2, <3>3
  <2> QED
    BY <2>4, <2>5
<1>3. CASE CheckLimit
  <2>1. /\ pc = "risk" /\ UNCHANGED <<req, taker, saved, hold>>
        /\ \/ /\ pc' = (IF IsBuy(taker) /\ IsLimit(taker) THEN "release" ELSE "save")
              /\ subject' = taker
              /\ \E st \in {"rejected", "canceled"} : status' = [status EXCEPT ![taker] = st]
           \/ pc' = "match" /\ UNCHANGED <<status, subject>>
    BY <1>3 DEF CheckLimit, Sweep, Conclude, ThenWrite, Goto
  <2>2. Placing /\ ~Writing /\ (Placing' <=> pc' = "match") /\ (Writing' <=> pc' \in {"release", "save"})
    BY <2>1 DEF Placing, Sweeping, Recorded, MakerTurn, Writing
  <2>3. taker \in Used /\ taker \in OrderId /\ Used' = Used
    BY <2>1 DEF WellFormed, CallsAreInOrder, Used
  <2>4. CASE i # taker
    <3>1. status'[i] = status[i]
      BY <2>1, <2>3, <2>4 DEF WellFormed, TypeOK
    <3> QED
      BY <1>0, <2>1, <2>2, <2>3, <2>4, <3>1, StandingKept
  <2>5. CASE i = taker
    <3>1. Legit(i) <=> IsBuy(i) /\ IsLimit(i)
      BY <2>1, <2>2, <2>3, <2>5 DEF Legit
    <3>2. IsBuy(i) /\ IsLimit(i) => Legit(i)'
      BY <2>1, <2>2, <2>3, <2>5 DEF Legit, IsBuy, IsLimit
    <3>3. InFlightNow(i)'
      BY <2>1, <2>2, <2>5 DEF InFlightNow
    <3> QED
      BY <2>1, <3>1, <3>2, <3>3 DEF Stray, Tracked
  <2> QED
    BY <2>4, <2>5
<1>4. CASE StartMarket
  <2>1. /\ pc = "start" /\ ~IsLimit(taker) /\ UNCHANGED <<req, taker, saved, hold>>
        /\ \/ pc' = "save" /\ subject' = taker /\ status' = [status EXCEPT ![taker] = "rejected"]
           \/ pc' = "match" /\ UNCHANGED <<status, subject>>
    BY <1>4 DEF StartMarket, Sweep, Conclude, Goto
  <2>2. Placing /\ ~Writing /\ (Placing' <=> pc' = "match") /\ (Writing' <=> pc' = "save")
    BY <2>1 DEF Placing, Sweeping, Recorded, MakerTurn, Writing
  <2>3. taker \in Used /\ taker \in OrderId /\ Used' = Used
    BY <2>1 DEF WellFormed, CallsAreInOrder, Used
  <2>4. CASE i # taker
    <3>1. status'[i] = status[i]
      BY <2>1, <2>3, <2>4 DEF WellFormed, TypeOK
    <3> QED
      BY <1>0, <2>1, <2>2, <2>3, <2>4, <3>1, StandingKept
  <2>5. CASE i = taker
    <3>1. ~Legit(i) /\ ~Legit(i)'
      BY <2>1, <2>5 DEF Legit, IsLimit
    <3> QED
      BY <2>1, <3>1 DEF Stray, Tracked
  <2> QED
    BY <2>4, <2>5
<1>5. CASE (\E m \in OrderId : MatchOne(m)) \/ MatchDone \/ RecordTrade \/ Pay \/ BookBuyer \/ BookSeller
  <2>1. /\ pc \in {"match", "settle", "pay", "book buy", "book sell"}
        /\ pc' \in {"match", "settle", "pay", "book buy", "book sell", "advance"}
        /\ UNCHANGED <<req, taker, saved, hold, status>>
    BY <1>5 DEF MatchOne, MatchDone, RecordTrade, Pay, BookBuyer, BookSeller, BookPosition, Goto
  <2>2. Placing /\ ~Writing /\ Placing' /\ ~Writing' /\ Used' = Used
    BY <2>1 DEF Placing, Sweeping, Recorded, MakerTurn, Writing, Used
  <2> QED
    BY <1>0, <2>1, <2>2, StandingKept
<1>6. CASE PayRaises
  <2>1. Value(taker, Fill.price, Fill.qty) > 0 /\ Value(taker, Fill.price, Fill.qty) <= 0
    BY <1>6, PaymentsAreWorthSomething DEF PayRaises
  <2>2. Value(taker, Fill.price, Fill.qty) \in Int
    <3>1. fills # <<>> /\ taker \in Used
      BY <1>6 DEF PayRaises, WellFormed, CallsAreInOrder
    <3>2. Fill.price \in Int /\ Fill.qty \in Int
      BY <3>1, HeadIsComing DEF FillRecord
    <3> QED
      BY <3>1, <3>2, ValueIsInt DEF WellFormed
  <2> QED
    BY <2>1, <2>2
<1>7. CASE Advance
  <2>1. PICK m : m = Fill.maker
    OBVIOUS
  <2>2. /\ pc = "advance" /\ UNCHANGED <<req, taker, saved, hold, fills>> /\ subject' = m
        /\ pc' = (IF IsBuy(m) THEN "release" ELSE "save")
        /\ \E st \in {"filled", "partial"} : status' = [status EXCEPT ![m] = st]
    BY <1>7, <2>1 DEF Advance, Conclude, Goto
  <2>3. /\ taker # 0 /\ fills # <<>>
    BY <2>2 DEF WellFormed, CallsAreInOrder
  <2>4. /\ m \in Used /\ m \in OrderId /\ m # taker /\ Rests(m)
    <3>1. m \in Used /\ m \in OrderId /\ Fill = fills[1] /\ 1 \in DOMAIN fills
      BY <2>1, <2>3, HeadIsComing
    <3> QED
      BY <2>1, <3>1 DEF FillsAreFresh, TradingFits
  <2>5. Placing /\ Placing' /\ ~Writing /\ Writing' /\ Used' = Used
    BY <2>2, <2>3, <2>4 DEF Placing, Sweeping, Recorded, MakerTurn, Writing, Used
  <2>6. CASE i # m
    <3>1. status'[i] = status[i]
      BY <2>2, <2>4, <2>6 DEF WellFormed, TypeOK
    <3> QED
      BY <1>0, <2>2, <2>5, <2>6, <3>1, StandingKept
  <2>7. CASE i = m
    <3>1. InFlightNow(i)'
      BY <2>2, <2>5, <2>7 DEF InFlightNow
    <3>2. IsBuy(i) => Legit(i)'
      BY <2>2, <2>4, <2>5, <2>7 DEF Legit, IsBuy, IsLimit, Rests
    <3>3. ~IsBuy(i) => ~Legit(i)
      BY DEF Legit
    <3> QED
      BY <2>2, <3>1, <3>2, <3>3 DEF Stray, Tracked
  <2> QED
    BY <2>6, <2>7
<1>8. CASE Finish
  <2>1. /\ pc = "settle" /\ fills = <<>> /\ UNCHANGED <<req, taker, saved, hold>>
        /\ pc' = (IF IsBuy(taker) /\ IsLimit(taker) THEN "release" ELSE "save")
        /\ subject' = taker
        /\ \E st : status' = [status EXCEPT ![taker] = st]
    BY <1>8 DEF Finish, Conclude, ThenWrite, Goto
  <2>2. Placing /\ ~Writing /\ ~Placing' /\ Writing'
    BY <2>1 DEF Placing, Sweeping, Recorded, MakerTurn, Writing
  <2>3. taker \in Used /\ taker \in OrderId /\ Used' = Used
    BY <2>1 DEF WellFormed, CallsAreInOrder, Used
  <2>4. CASE i # taker
    <3>1. status'[i] = status[i]
      BY <2>1, <2>3, <2>4 DEF WellFormed, TypeOK
    <3> QED
      BY <1>0, <2>1, <2>2, <2>3, <2>4, <3>1, StandingKept
  <2>5. CASE i = taker
    <3>1. Legit(i) <=> IsBuy(i) /\ IsLimit(i)
      BY <2>1, <2>2, <2>3, <2>5 DEF Legit
    <3>2. IsBuy(i) /\ IsLimit(i) => Legit(i)'
      BY <2>1, <2>2, <2>3, <2>5 DEF Legit, IsBuy, IsLimit
    <3>3. InFlightNow(i)'
      BY <2>1, <2>2, <2>5 DEF InFlightNow
    <3> QED
      BY <2>1, <3>1, <3>2, <3>3 DEF Stray, Tracked
  <2> QED
    BY <2>4, <2>5
<1>9. CASE ReleaseHold
  <2>1. /\ pc = "release" /\ pc' \in {"reserve", "save"} /\ UNCHANGED <<req, taker, subject, saved, status>>
        /\ hold' = [hold EXCEPT ![subject] = NoHold] /\ subject \in OrderId
    BY <1>9 DEF ReleaseHold, Goto, WellFormed, CallsAreInOrder, Used
  <2>2. (Placing' <=> Placing) /\ Writing /\ Writing' /\ Used' = Used
    BY <2>1 DEF Placing, Sweeping, Recorded, MakerTurn, Writing, Used
  <2>3. hold'[i] = IF i = subject THEN NoHold ELSE hold[i]
    BY <2>1 DEF WellFormed, TypeOK
  <2> QED
    BY <1>0, <2>1, <2>2, <2>3, StandingKept
<1>10. CASE ReserveRest
  <2>1. /\ pc = "reserve" /\ pc' = "save" /\ UNCHANGED <<req, taker, subject, saved, status>>
        /\ \E h : hold' = [hold EXCEPT ![subject] = h]
        /\ subject \in OrderId /\ subject \in Used
    BY <1>10 DEF ReserveRest, Reserve, Goto, WellFormed, CallsAreInOrder, Used
  <2>2. (Placing' <=> Placing) /\ Writing /\ Writing' /\ Used' = Used
    BY <2>1 DEF Placing, Sweeping, Recorded, MakerTurn, Writing, Used
  <2>3. CASE i # subject
    <3>1. hold'[i] = hold[i]
      BY <2>1, <2>3 DEF WellFormed, TypeOK
    <3> QED
      BY <1>0, <2>1, <2>2, <2>3, <3>1, StandingKept
  <2>4. CASE i = subject
    <3>1. status[i] \in Open /\ IsBuy(i) /\ Rests(i)
      BY <2>1, <2>2, <2>4 DEF HoldsTrack, KeepsHold, TradingFits
    <3>2. Legit(i)'
      BY <2>1, <2>2, <2>4, <3>1 DEF Legit, IsBuy, IsLimit, Rests, Working
    <3>3. InFlightNow(i)'
      BY <2>1, <2>2, <2>4 DEF InFlightNow
    <3> QED
      BY <3>2, <3>3 DEF Stray, Tracked
  <2> QED
    BY <2>3, <2>4
<1>11. CASE ReserveRaises
  <2>1. /\ pc = "reserve" /\ pc' = "idle" /\ UNCHANGED <<req, saved, status, hold>> /\ taker' = 0
        /\ subject \in Used /\ hold[subject] = NoHold /\ IsBuy(subject)
    BY <1>11 DEF ReserveRaises, EndCall, Goto, HoldsTrack, WellFormed, CallsAreInOrder
  <2>2. ~Placing' /\ ~Writing' /\ Writing /\ Used' = Used /\ (Placing <=> MakerTurn)
    BY <2>1 DEF Placing, Sweeping, Recorded, MakerTurn, Writing, Used
  <2>3. Placing => ~IsBuy(taker)
    <3> SUFFICES ASSUME MakerTurn PROVE ~IsBuy(taker)
      BY <2>2
    <3>1. fills # <<>> /\ subject = Fill.maker
      BY DEF MakerTurn, CallFits, WellFormed, CallsAreInOrder
    <3>2. Fill = fills[1] /\ 1 \in DOMAIN fills
      BY <3>1, HeadIsComing
    <3> QED
      BY <2>1, <3>1, <3>2 DEF SidesDiffer, IsBuy
  <2>4. CASE i = subject
    BY <2>1, <2>4 DEF Stray, Tracked
  <2>5. CASE i # subject /\ Placing /\ i = taker
    <3>1. ~Legit(i) /\ ~Legit(i)'
      BY <2>1, <2>3, <2>5 DEF Legit, IsBuy
    <3> QED
      BY <2>1, <3>1 DEF Stray, Tracked
  <2>6. CASE i # subject /\ ~(Placing /\ i = taker)
    BY <1>0, <2>1, <2>2, <2>6, StandingKept
  <2> QED
    BY <2>4, <2>5, <2>6
<1>12. CASE SaveResting \/ SavePlaced \/ SaveAndReturn
  <2>1. /\ pc = "save" /\ pc' \in {"settle", "triggers", "idle"} /\ UNCHANGED <<req, hold, status>>
        /\ saved' = [saved EXCEPT ![subject] = [status |-> status[subject], filled |-> filled[subject]]]
        /\ subject \in Used
        /\ \/ taker # 0 /\ subject # taker /\ pc' = "settle" /\ taker' = taker
           \/ subject = taker /\ pc' = "triggers" /\ taker' = taker
           \/ taker = 0 /\ pc' = "idle"
    BY <1>12 DEF SaveResting, SavePlaced, SaveAndReturn, WriteRow, EndCall, Goto, WellFormed, CallsAreInOrder
  <2>2. Writing /\ ~Writing' /\ (Placing' <=> Placing) /\ Used' = Used /\ (Placing => taker' = taker /\ subject # taker)
    BY <2>1 DEF Placing, Sweeping, Recorded, MakerTurn, Writing, Used
  <2>3. CASE i # subject
    <3>1. saved'[i] = saved[i]
      BY <2>1, <2>3 DEF WellFormed, TypeOK
    <3> QED
      BY <1>0, <2>1, <2>2, <2>3, <3>1, StandingKept
  <2>4. CASE i = subject
    <3>1. saved'[i].status = status[i]
      BY <2>1, <2>4 DEF WellFormed, TypeOK
    <3>2. Legit(i) => Working(i)
      BY <2>1, <2>2, <2>4 DEF Legit
    <3>3. Working(i)' <=> Working(i)
      BY <2>1 DEF Working, IsLimit
    <3>4. Legit(i)' <=> Legit(i)
      BY <2>1, <2>2, <2>4, <3>3 DEF Legit, IsBuy, IsLimit
    <3>5. Working(i) => status[i] \in Open
      BY DEF Working
    <3> QED
      BY <2>1, <3>1, <3>2, <3>4, <3>5 DEF Stray, Tracked
  <2> QED
    BY <2>3, <2>4
<1>13. ASSUME NEW j \in OrderId, Activate(j)
       PROVE  (Stray(i)' => Stray(i)) /\ Tracked(i)'
  <2>1. /\ pc = "triggers" /\ pc' = "start" /\ UNCHANGED <<req, hold, status, saved>> /\ taker' = j
        /\ j \in pendingStops
    BY <1>13 DEF Activate, Ready, Goto
  <2>2. ~Writing /\ ~Writing' /\ ~Placing /\ Placing' /\ Used' = Used
    BY <2>1 DEF Placing, Sweeping, Recorded, MakerTurn, Writing, Used
  <2>3. CASE i # j
    BY <1>0, <2>1, <2>2, <2>3, StandingKept
  <2>4. CASE i = j
    <3>1. status[i] = "pending"
      BY <2>1, <2>4 DEF CallFits
    <3>2. ~Legit(i) /\ ~Legit(i)'
      BY <2>1, <2>2, <2>4, <3>1 DEF Legit, Working, Open
    <3> QED
      BY <2>1, <3>2 DEF Stray, Tracked
  <2> QED
    BY <2>3, <2>4
<1>14. ASSUME NEW j \in OrderId, cancel(j)
       PROVE  (Stray(i)' => Stray(i)) /\ Tracked(i)'
  <2>1. /\ pc = "idle" /\ pc' = (IF IsBuy(j) THEN "release" ELSE "save")
        /\ UNCHANGED <<req, hold, saved, taker>>
        /\ subject' = j /\ status[j] \in Open /\ status' = [status EXCEPT ![j] = "canceled"]
    BY <1>14 DEF cancel, Cancelable, Conclude, Goto
  <2>2. taker = 0
    BY <2>1 DEF WellFormed, CallsAreInOrder
  <2>3. ~Writing /\ Writing' /\ ~Placing /\ ~Placing' /\ Used' = Used
    BY <2>1, <2>2 DEF Placing, Sweeping, Recorded, MakerTurn, Writing, Used
  <2>4. CASE i # j
    <3>1. status'[i] = status[i]
      BY <2>1, <2>4 DEF WellFormed, TypeOK
    <3> QED
      BY <1>0, <2>1, <2>3, <2>4, <3>1, StandingKept
  <2>5. CASE i = j
    <3>1. InFlightNow(i)'
      BY <2>1, <2>3, <2>5 DEF InFlightNow
    <3>2. Legit(i) => Legit(i)'
      BY <2>1, <2>2, <2>3, <2>5, <1>0 DEF Legit, IsBuy, IsLimit
    <3> QED
      BY <2>1, <3>1, <3>2 DEF Stray, Tracked
  <2> QED
    BY <2>4, <2>5
<1>15. CASE Quiescent
  <2>1. /\ pc = "triggers" /\ pc' = "idle" /\ UNCHANGED <<req, hold, status, saved>>
    BY <1>15 DEF Quiescent, EndCall, Goto
  <2>2. ~Writing /\ ~Writing' /\ ~Placing /\ ~Placing' /\ Used' = Used
    BY <2>1 DEF Placing, Sweeping, Recorded, MakerTurn, Writing, Used
  <2> QED
    BY <1>0, <2>1, <2>2, StandingKept
<1>16. CASE SetKillSwitch \/ UNCHANGED vars
  <2>1. UNCHANGED <<req, hold, status, saved, pc, taker, subject>>
    BY <1>16 DEF SetKillSwitch, vars
  <2>2. (Placing' <=> Placing) /\ (Writing' <=> Writing) /\ Used' = Used
    BY <2>1 DEF Placing, Sweeping, Recorded, MakerTurn, Writing, Used
  <2> QED
    BY <1>0, <2>1, <2>2, StandingKept
<1> QED
  BY <1>1, <1>2, <1>3, <1>4, <1>5, <1>6, <1>7, <1>8, <1>9, <1>10, <1>11, <1>12, <1>13, <1>14, <1>15, <1>16
     DEF Next, place, Step

\* Every step keeps reservations with their orders' rows.
LEMMA HoldsStayTracked ==
    ASSUME WholeCents, RestartForm, SidesDiffer, HoldsTrack, [Next]_vars
    PROVE  HoldsTrack'
<1> USE DEF RestartForm
<1>1. \A i \in OrderId : Tracked(i)'
  BY StandingsKept
<1>2. /\ pc' \in {"release", "reserve"} => IsBuy(subject)'
      /\ pc' = "reserve" => KeepsHold(subject)' /\ hold'[subject'] = NoHold
  <2>1. CASE StartLimit \/ CheckLimit \/ StartMarket
    <3>1. /\ pc' # "reserve" /\ UNCHANGED req
          /\ pc' = "release" => IsBuy(taker) /\ subject' = taker
      BY <2>1 DEF StartLimit, CheckLimit, StartMarket, Conclude, ThenWrite, Goto, Sweep
    <3> QED
      BY <3>1 DEF IsBuy
  <2>2. CASE Advance \/ Finish
    <3>1. /\ pc' # "reserve" /\ UNCHANGED req
          /\ pc' = "release" => \E m : IsBuy(m) /\ subject' = m
      BY <2>2 DEF Advance, Finish, Conclude, ThenWrite, Goto
    <3> QED
      BY <3>1 DEF IsBuy
  <2>3. CASE ReleaseHold
    <3>1. /\ pc = "release" /\ UNCHANGED <<req, subject, status, filled>> /\ pc' # "release"
          /\ hold' = [hold EXCEPT ![subject] = NoHold]
          /\ pc' = "reserve" => KeepsHold(subject)
          /\ subject \in OrderId
      BY <2>3 DEF ReleaseHold, Goto, WellFormed, CallsAreInOrder, Used
    <3> QED
      BY <3>1 DEF IsBuy, HoldsTrack, KeepsHold, Remaining, WellFormed, TypeOK
  <2>4. ASSUME NEW i \in OrderId, cancel(i)
        PROVE  (pc' = "release" => IsBuy(subject)') /\ pc' # "reserve"
    BY <2>4 DEF cancel, Conclude, Goto, IsBuy
  <2>5. ASSUME NEW r \in Request, PlaceInvalid(r) \/ PlaceStop(r) \/ PlaceNow(r)
        PROVE  pc' \notin {"release", "reserve"}
    BY <2>5 DEF PlaceInvalid, PlaceStop, PlaceNow, Goto
  <2>6. ASSUME \/ MatchDone \/ RecordTrade \/ Pay \/ PayRaises \/ BookBuyer
               \/ BookSeller \/ ReserveRest \/ ReserveRaises \/ SaveResting \/ SavePlaced \/ SaveAndReturn
               \/ Quiescent
               \/ \E i \in OrderId : MatchOne(i) \/ Activate(i)
        PROVE  pc' \notin {"release", "reserve"}
    BY <2>6 DEF MatchDone, RecordTrade, Pay, PayRaises, BookBuyer, BookSeller, ReserveRest,
                ReserveRaises, SaveResting, SavePlaced, SaveAndReturn, Quiescent, MatchOne, Activate,
                EndCall, Goto
  <2>7. CASE SetKillSwitch \/ UNCHANGED vars
    <3>1. UNCHANGED <<req, hold, status, filled, pc, subject>>
      BY <2>7 DEF SetKillSwitch, vars
    <3> QED
      BY <3>1 DEF HoldsTrack, IsBuy, KeepsHold, Remaining
  <2> QED
    BY <2>1, <2>2, <2>3, <2>4, <2>5, <2>6, <2>7 DEF Next, place, Step
<1> QED
  BY <1>1, <1>2 DEF HoldsTrack

\* A restart finds the order of every tracked reservation among the open rows, but for the
\* one buy order the call was placing or writing.
LEMMA RestoringStrays ==
    ASSUME RestartForm, SidesDiffer, HoldsTrack, Restore
    PROVE  /\ \E x : \A i \in OrderId : Stray(i)' => Stray(i) \/ i = x
           /\ HoldsTrack' /\ SidesDiffer'
<1> USE DEF RestartForm
<1>1. /\ req' = [i \in OrderId |-> IF Row(i) THEN req[i] ELSE NoRequest]
      /\ status' = [i \in OrderId |-> saved[i].status]
      /\ pc' = "idle" /\ taker' = 0 /\ fills' = <<>> /\ hold' = hold /\ saved' = saved
  BY DEF Restore, EndCall, Goto
<1>2. ~Placing' /\ ~Writing'
  BY <1>1 DEF Placing, Sweeping, Recorded, MakerTurn, Writing
<1>3. ASSUME NEW i \in OrderId, saved[i].status \in Open, IsBuy(i)
      PROVE  Legit(i)'
  <2>1. Row(i) /\ i \in Used /\ Rests(i)
    BY <1>3, RowsAreRows DEF RowsFit, Open
  <2>2. req'[i] = req[i] /\ i \in Used' /\ status'[i] \in Open
    BY <1>1, <1>3, <2>1 DEF Used
  <2> QED
    BY <1>1, <1>3, <2>1, <2>2 DEF Legit, IsBuy, IsLimit, Rests, Working
<1>4. ASSUME NEW i \in OrderId, Stray(i)', ~Stray(i)
      PROVE  IsBuy(i) /\ InFlightNow(i)
  <2>1. hold[i] # NoHold /\ Legit(i) /\ ~Legit(i)' /\ IsBuy(i)
    BY <1>1, <1>4 DEF Stray, Legit
  <2>2. saved[i].status \notin Open
    BY <1>3, <2>1
  <2> QED
    BY <2>1, <2>2 DEF HoldsTrack, Tracked
<1>5. ASSUME Writing, Placing, IsBuy(subject) PROVE ~IsBuy(taker)
  <2>1. MakerTurn
    BY <1>5 DEF Placing, Sweeping, Recorded, Writing
  <2>2. fills # <<>> /\ subject = Fill.maker
    BY <2>1 DEF MakerTurn, CallFits, WellFormed, CallsAreInOrder
  <2>3. Fill = fills[1] /\ 1 \in DOMAIN fills
    BY <2>2, HeadIsComing
  <2> QED
    BY <1>5, <2>2, <2>3 DEF SidesDiffer, IsBuy
<1>6. \E x : \A i \in OrderId : Stray(i)' => Stray(i) \/ i = x
  <2>1. CASE Placing /\ IsBuy(taker)
    BY <1>4, <1>5, <2>1 DEF InFlightNow
  <2>2. CASE ~(Placing /\ IsBuy(taker))
    BY <1>4, <2>2 DEF InFlightNow
  <2> QED
    BY <2>1, <2>2
<1>7. ASSUME NEW i \in OrderId PROVE Tracked(i)'
  <2>1. Legit(i)' => status'[i] \in Open
    BY <1>1, <1>2 DEF Legit, Working
  <2> QED
    BY <1>1, <2>1 DEF Tracked
<1>8. HoldsTrack'
  BY <1>1, <1>7 DEF HoldsTrack
<1>9. SidesDiffer'
  <2>1. DOMAIN fills' = {}
    BY <1>1, EmptyHasNoIndex
  <2> QED
    BY <2>1 DEF SidesDiffer
<1> QED
  BY <1>6, <1>8, <1>9

\* A set that gains at most one element has at most one more.
LEMMA FewerOrOneMore ==
    ASSUME NEW S, IsFiniteSet(S), NEW T, NEW x, T \subseteq S \cup {x}
    PROVE  Cardinality(T) <= Cardinality(S) + 1 /\ Cardinality(T) \in Nat /\ Cardinality(S) \in Nat
<1>1. IsFiniteSet(S \cup {x}) /\ Cardinality(S \cup {x}) = IF x \in S THEN Cardinality(S) ELSE Cardinality(S) + 1
  BY FS_AddElement
<1>2. Cardinality(S) \in Nat
  BY FS_CardinalityType
<1>3. IsFiniteSet(T) /\ Cardinality(T) <= Cardinality(S \cup {x})
  BY <1>1, FS_Subset
<1>4. Cardinality(T) \in Nat
  BY <1>3, FS_CardinalityType
<1> QED
  BY <1>1, <1>2, <1>3, <1>4

\* There are no more strays than there were restarts.
StraysFit == RestartForm /\ SidesDiffer /\ HoldsTrack /\ Cardinality(Strays) <= restarts

\* Each crash leaves at most one reservation without its order: that of the buy order the
\* call was placing, or writing, when the process died (oms.py place, _resync_buy_hold,
\* _restore; ledger.py keeps the hold).  For any number of restarts.
THEOREM OrphansArePerCrash ==
    ASSUME WholeCents
    PROVE  SpecCrash => []OneOrphanPerCrash
<1>0. IsFiniteSet(OrderId) /\ \A S \in SUBSET OrderId : IsFiniteSet(S)
  <2>1. IsFiniteSet(OrderId)
    BY OMSAssumption, FS_Interval DEF OrderId
  <2> QED
    BY <2>1, FS_Subset
<1>1. Init => StraysFit
  <2> SUFFICES ASSUME Init PROVE StraysFit
    OBVIOUS
  <2>1. RestartForm
    BY RestartFormToStart
  <2>2. hold = [i \in OrderId |-> NoHold] /\ fills = <<>> /\ pc = "idle" /\ restarts = 0
    BY DEF Init
  <2>3. DOMAIN fills = {}
    BY <2>2, EmptyHasNoIndex
  <2>4. Strays = {}
    BY <2>2 DEF Strays, Stray
  <2>5. Cardinality(Strays) = 0
    BY <2>4, FS_EmptySet
  <2> QED
    BY <2>1, <2>2, <2>3, <2>5 DEF StraysFit, SidesDiffer, HoldsTrack, Tracked
<1>2. StraysFit /\ [Next \/ Restart \/ Crash]_vars => StraysFit'
  <2> SUFFICES ASSUME StraysFit, [Next \/ Restart \/ Crash]_vars PROVE StraysFit'
    OBVIOUS
  <2> USE DEF StraysFit
  <2>1. RestartForm'
    BY RestartFormIsKept
  <2>2. Cardinality(Strays) \in Nat /\ restarts \in Nat /\ IsFiniteSet(Strays)
    BY <1>0, FS_CardinalityType DEF Strays, RestartForm, WellFormed, TypeOK
  <2>3. CASE [Next]_vars
    <3>1. SidesDiffer' /\ HoldsTrack' /\ restarts' = restarts
      BY <2>3, SidesStayDifferent, HoldsStayTracked, RowsMove DEF RestartForm
    <3>2. Strays' \subseteq Strays
      BY <2>3, StandingsKept DEF Strays
    <3>3. Cardinality(Strays') <= Cardinality(Strays) /\ Cardinality(Strays') \in Nat
      BY <2>2, <3>2, FS_Subset, FS_CardinalityType
    <3> QED
      BY <2>1, <2>2, <3>1, <3>3
  <2>4. CASE Restart \/ Crash
    <3>1. Restore /\ restarts' = restarts + 1
      BY <2>4 DEF Restart, Crash, Restore
    <3>2. SidesDiffer' /\ HoldsTrack'
      BY <3>1, RestoringStrays
    <3>3. PICK x : \A i \in OrderId : Stray(i)' => Stray(i) \/ i = x
      BY <3>1, RestoringStrays
    <3>4. Strays' \subseteq Strays \cup {x}
      BY <3>3 DEF Strays
    <3>5. Cardinality(Strays') <= Cardinality(Strays) + 1 /\ Cardinality(Strays') \in Nat
      BY <2>2, <3>4, FewerOrOneMore
    <3> QED
      BY <2>1, <2>2, <3>1, <3>2, <3>5
  <2> QED
    BY <2>3, <2>4
<1>3. StraysFit => OneOrphanPerCrash
  <2> SUFFICES ASSUME StraysFit, pc = "idle"
               PROVE  Cardinality({i \in OrderId : Orphaned(i)}) <= restarts
    BY DEF OneOrphanPerCrash, Idle
  <2>1. ~Placing
    <3>1. taker = 0
      BY DEF StraysFit, RestartForm, WellFormed, CallsAreInOrder
    <3> QED
      BY <3>1 DEF Placing, Sweeping, Recorded, MakerTurn
  <2>2. \A i \in OrderId : Orphaned(i) <=> Stray(i)
    BY <2>1 DEF Orphaned, Stray, Legit, Working
  <2>3. {i \in OrderId : Orphaned(i)} = Strays
    BY <2>2 DEF Strays
  <2> QED
    BY <2>3 DEF StraysFit
<1> QED
  BY <1>1, <1>2, <1>3, PTL DEF SpecCrash

-----------------------------------------------------------------------------
(* The book a restart builds does not cross. *)

\* As long as no payment raises, what is on offer is the whole of what was asked.
OffersWhole == \A i \in Used : Offered(i) => Offer(i) = req[i].qty

\* A sweep that is not cut off by a budget meets every order once, and leaves none behind
\* but the last with something open.
SweepFits ==
    \A n \in DOMAIN fills : IsLimit(taker) \/ ~IsBuy(taker) =>
        /\ \A k \in DOMAIN fills : n # k => fills[n].maker # fills[k].maker
        /\ n < Len(fills) \/ left > 0 => open[fills[n].maker] = 0

\* No two orders came to rest at the same time, and none later than the last.
ArrivalsFit ==
    /\ \A i \in OrderId : open[i] > 0 => arrival[i] <= arrivals
    /\ \A i, j \in OrderId : open[i] > 0 /\ open[j] > 0 /\ i # j => arrival[i] # arrival[j]

\* What is to be written as open is on offer.
OpenTurns == Writing /\ status[subject] \in Open => Offered(subject)

\* A buy and a sale that cannot trade with each other.
Apart(i, j) == IsBuy(i) /\ ~IsBuy(j) /\ req[i].symbol = req[j].symbol => req[i].price < req[j].price

\* The orders a restart might put side by side: those in the book before this sweep, and
\* those whose rows reopen.
Known(i) ==
    \/ open[i] > 0 /\ ~(Placing /\ i = taker)
    \/ \E n \in DOMAIN fills : fills[n].maker = i
    \/ Reopens(i)

\* The book does not cross itself, nor do the orders a restart might put side by side; and
\* a row only reopens what is in the book now, or was until this very turn.
Uncrossed == \A i, j \in OrderId : open[i] > 0 /\ open[j] > 0 => Apart(i, j)
KnownApart == \A i, j \in OrderId : Known(i) /\ Known(j) => Apart(i, j)
ReopensFit ==
    \A i \in OrderId : Reopens(i) => /\ ~(Placing /\ i = taker)
                                     /\ Due(i) > 0 \/ (Writing /\ i = subject)

\* Nothing comes for an order no fill names.
LEMMA NoOneComes ==
    ASSUME NEW fs \in Seq(FillRecord), NEW i, \A n \in DOMAIN fs : fs[n].maker # i
    PROVE  ComingIn(fs, i) = 0
<1> DEFINE f == Qtys(fs, i)
<1>1. DOMAIN fs = 1 .. Len(fs) /\ Len(fs) \in Nat
  OBVIOUS
<1>2. IsFiniteSet(DOMAIN fs)
  BY <1>1, FS_Interval
<1>3. DOMAIN f = DOMAIN fs /\ \A n \in DOMAIN fs : f[n] = 0
  BY DEF Qtys
<1> HIDE DEF f
<1>4. SumFunctionOnSet(f, DOMAIN fs) = 0
  BY <1>2, <1>3, SumZero
<1> QED
  BY <1>3, <1>4 DEF ComingIn, f, SumFunction

\* No two resting orders came at once, and the next comes after them all.
LEMMA ArrivalsStayFit ==
    ASSUME WellFormed, ArrivalsFit, [Next]_vars
    PROVE  ArrivalsFit'
<1>0. open \in [OrderId -> Nat] /\ arrival \in [OrderId -> Nat] /\ arrivals \in Nat
  BY DEF WellFormed, TypeOK
<1>1. ASSUME UNCHANGED bookVars PROVE ArrivalsFit'
  BY <1>1 DEF ArrivalsFit
<1>2. CASE place
  <2>1. UNCHANGED bookVars
    BY <1>2 DEF place, PlaceInvalid, PlaceStop, PlaceNow, Register
  <2> QED
    BY <1>1, <2>1
<1>3. ASSUME NEW m \in OrderId, MatchOne(m) PROVE ArrivalsFit'
  <2>1. PICK q : q = MatchQty(m)
    OBVIOUS
  <2>2. /\ q \in Nat \ {0} /\ q <= open[m] /\ open' = [open EXCEPT ![m] = open[m] - q]
    BY <1>3, <2>1, MatchingMoves
  <2>3. /\ arrivals' = arrivals
        /\ arrival' = IF q = open[m] THEN [arrival EXCEPT ![m] = 0] ELSE arrival
    BY <1>3, <2>1 DEF MatchOne
  <2>4. \A i \in OrderId : open'[i] > 0 => open[i] > 0 /\ arrival'[i] = arrival[i]
    BY <1>0, <2>2, <2>3
  <2> QED
    BY <2>3, <2>4 DEF ArrivalsFit
<1>4. CASE MatchDone
  <2>1. CASE UNCHANGED bookVars
    BY <1>1, <2>1
  <2>2. CASE left > 0 /\ Rests(taker)
    <3>1. /\ open' = [open EXCEPT ![taker] = left] /\ arrivals' = arrivals + 1
          /\ arrival' = [arrival EXCEPT ![taker] = arrivals + 1]
      BY <1>4, <2>2 DEF MatchDone, NextArrival
    <3>2. \A i \in OrderId : open'[i] > 0 =>
             \/ i = taker /\ arrival'[i] = arrivals + 1
             \/ i # taker /\ open[i] > 0 /\ arrival'[i] = arrival[i]
      BY <1>0, <3>1
    <3>3. \A i \in OrderId : open[i] > 0 => arrival[i] < arrivals + 1
      BY <1>0 DEF ArrivalsFit
    <3> QED
      BY <1>0, <3>1, <3>2, <3>3 DEF ArrivalsFit
  <2> QED
    BY <1>4, <2>1, <2>2 DEF MatchDone
<1>5. ASSUME NEW i \in OrderId, cancel(i) PROVE ArrivalsFit'
  <2>1. /\ open' = [open EXCEPT ![i] = 0] /\ arrival' = [arrival EXCEPT ![i] = 0] /\ arrivals' = arrivals
    BY <1>5 DEF cancel
  <2>2. \A j \in OrderId : open'[j] > 0 => open[j] > 0 /\ arrival'[j] = arrival[j]
    BY <1>0, <2>1
  <2> QED
    BY <2>1, <2>2 DEF ArrivalsFit
<1>6. CASE StartLimit \/ CheckLimit \/ StartMarket \/ Advance \/ Finish
  BY <1>1, <1>6 DEF StartLimit, CheckLimit, StartMarket, Advance, Finish
<1>7. CASE RecordTrade \/ Pay \/ PayRaises \/ BookBuyer \/ BookSeller
  <2>1. UNCHANGED bookVars
    BY <1>7 DEF RecordTrade, Pay, PayRaises, BookBuyer, BookSeller, BookPosition
  <2> QED
    BY <1>1, <2>1
<1>8. CASE ReleaseHold \/ ReserveRest \/ ReserveRaises \/ SaveResting \/ SavePlaced \/ SaveAndReturn
  BY <1>1, <1>8 DEF ReleaseHold, ReserveRest, ReserveRaises, SaveResting, SavePlaced, SaveAndReturn, WriteRow
<1>9. CASE Quiescent \/ SetKillSwitch \/ (\E i \in OrderId : Activate(i)) \/ UNCHANGED vars
  BY <1>1, <1>9 DEF Quiescent, SetKillSwitch, Activate, vars
<1> QED
  BY <1>2, <1>3, <1>4, <1>5, <1>6, <1>7, <1>8, <1>9 DEF Next, Step

\* A restart lets the orders arrive in the order of their ids.
LEMMA RestoringArrivals ==
    ASSUME Restore
    PROVE  ArrivalsFit'
<1>1. /\ open' = [i \in OrderId |-> IF Reopens(i) THEN Reopened(i) ELSE 0]
      /\ arrival' = [i \in OrderId |-> IF Reopens(i) THEN i ELSE 0]
      /\ arrivals' = MaxOrders
  BY DEF Restore, QueuedAs
<1>2. \A i \in OrderId : open'[i] > 0 => arrival'[i] = i /\ i <= arrivals'
  BY <1>1, OMSAssumption DEF OrderId
<1> QED
  BY <1>2 DEF ArrivalsFit

\* A limit order, or a sale, takes all of a resting order before the next one; it meets
\* none twice.
LEMMA SweepStaysFit ==
    ASSUME WellFormed, FillsAreFresh, CallFits, SweepFits, [Next]_vars
    PROVE  SweepFits'
<1>0. open \in [OrderId -> Nat] /\ fills \in Seq(FillRecord) /\ left \in Int
  BY DEF WellFormed, TypeOK
<1>1. ASSUME fills' = <<>> PROVE SweepFits'
  <2>1. DOMAIN fills' = {}
    BY <1>1, EmptyHasNoIndex
  <2> QED
    BY <2>1 DEF SweepFits
<1>2. ASSUME UNCHANGED <<req, taker, fills, open, left>> PROVE SweepFits'
  BY <1>2 DEF SweepFits, IsLimit, IsBuy
<1>3. CASE place
  <2>1. pc = "idle" /\ fills' = fills
    BY <1>3 DEF place, PlaceInvalid, PlaceStop, PlaceNow, Register
  <2> QED
    BY <1>1, <2>1 DEF FillsAreFresh
<1>4. CASE StartLimit \/ CheckLimit \/ StartMarket
  <2>1. pc \in {"start", "risk"} /\ fills' = fills
    BY <1>4 DEF StartLimit, CheckLimit, StartMarket
  <2> QED
    BY <1>1, <2>1 DEF FillsAreFresh
<1>5. ASSUME NEW m \in OrderId, MatchOne(m) PROVE SweepFits'
  <2>1. PICK q : q = MatchQty(m)
    OBVIOUS
  <2>2. /\ q \in Nat \ {0} /\ q <= open[m] /\ q <= left /\ open' = [open EXCEPT ![m] = open[m] - q]
        /\ left' = left - q /\ UNCHANGED <<req, taker>> /\ open[m] > 0
        /\ DOMAIN fills = 1 .. Len(fills) /\ Len(fills) \in Nat
        /\ DOMAIN fills' = 1 .. Len(fills) + 1 /\ Len(fills') = Len(fills) + 1
        /\ \A n \in 1 .. Len(fills) : fills'[n] = fills[n]
        /\ fills'[Len(fills) + 1].maker = m
    BY <1>5, <2>1, MatchingMoves
  <2>3. SUFFICES ASSUME IsLimit(taker) \/ ~IsBuy(taker),
                        NEW n \in DOMAIN fills'
                 PROVE  /\ \A k \in DOMAIN fills' : n # k => fills'[n].maker # fills'[k].maker
                        /\ n < Len(fills') \/ left' > 0 => open'[fills'[n].maker] = 0
    BY <2>2 DEF SweepFits, IsLimit, IsBuy
  <2>4. q = Min({left, open[m]})
    BY <2>1, <2>3 DEF MatchQty
  <2>5. left - q > 0 => q = open[m]
    <3>1. CASE open[m] <= left
      BY <1>0, <2>4, <3>1, MinIsSmaller
    <3>2. CASE left <= open[m]
      <4>1. {left, open[m]} = {open[m], left}
        OBVIOUS
      <4>2. Min({left, open[m]}) = left
        BY <1>0, <3>2, <4>1, MinIsSmaller
      <4> QED
        BY <1>0, <2>4, <4>2
    <3> QED
      BY <1>0, <3>1, <3>2
  <2>6. left > 0
    BY <1>0, <2>2
  <2>7. \A k \in 1 .. Len(fills) : open[fills[k].maker] = 0 /\ fills[k].maker # m
    BY <2>2, <2>3, <2>6 DEF SweepFits
  <2>8. \A k \in DOMAIN fills' : k \in 1 .. Len(fills) \/ k = Len(fills) + 1
    BY <2>2
  <2>9. \A k \in DOMAIN fills' : n # k => fills'[n].maker # fills'[k].maker
    BY <2>2, <2>3, <2>7, <2>8 DEF SweepFits
  <2>10. n < Len(fills') \/ left' > 0 => open'[fills'[n].maker] = 0
    <3>1. CASE n \in 1 .. Len(fills)
      <4>1. fills'[n] = fills[n] /\ open[fills[n].maker] = 0 /\ fills[n].maker # m /\ fills[n].maker \in OrderId
        BY <1>0, <2>2, <2>7, <3>1, FillsAreNumbers
      <4> QED
        BY <1>0, <2>2, <4>1
    <3>2. CASE n = Len(fills) + 1
      BY <1>0, <2>2, <2>5, <3>2
    <3> QED
      BY <2>8, <3>1, <3>2
  <2> QED
    BY <2>9, <2>10
<1>6. CASE MatchDone
  <2>1. /\ UNCHANGED <<req, taker, fills, left>>
        /\ open' = open \/ open' = [open EXCEPT ![taker] = left]
    BY <1>6 DEF MatchDone
  <2>2. \A n \in DOMAIN fills : fills[n].maker # taker
    BY DEF FillsAreFresh
  <2>3. \A n \in DOMAIN fills : open'[fills[n].maker] = open[fills[n].maker]
    <3>1. \A n \in DOMAIN fills : fills[n].maker \in OrderId
      BY <1>0, FillsAreNumbers
    <3> QED
      BY <1>0, <2>1, <2>2, <3>1
  <2> QED
    BY <2>1, <2>3 DEF SweepFits, IsLimit, IsBuy
<1>7. CASE RecordTrade \/ Pay \/ BookBuyer \/ BookSeller \/ Advance \/ Finish
  <2>1. UNCHANGED <<req, taker, fills, open, left>>
    BY <1>7 DEF RecordTrade, Pay, BookBuyer, BookSeller, BookPosition, Advance, Finish
  <2> QED
    BY <1>2, <2>1
<1>8. CASE PayRaises \/ ReserveRaises \/ SaveAndReturn \/ Quiescent
  BY <1>1, <1>8 DEF PayRaises, ReserveRaises, SaveAndReturn, Quiescent, EndCall
<1>9. CASE SaveResting
  <2>1. /\ pc = "save" /\ taker # 0 /\ subject # taker /\ UNCHANGED <<req, taker, open, left>>
        /\ fills' = Tail(fills)
    BY <1>9 DEF SaveResting, WriteRow
  <2>2. fills # <<>>
    BY <2>1 DEF WellFormed, CallsAreInOrder
  <2>3. \A n \in DOMAIN fills' : n + 1 \in DOMAIN fills /\ fills'[n] = fills[n + 1] /\ n \in Nat
    BY <1>0, <2>1, <2>2, TailShifts
  <2>4. Len(fills') = Len(fills) - 1 /\ Len(fills) \in Nat
    BY <1>0, <2>1, <2>2
  <2>5. \A n \in DOMAIN fills' : n < Len(fills') => n + 1 < Len(fills)
    BY <2>3, <2>4
  <2>6. \A n, k \in DOMAIN fills' : n # k => n + 1 # k + 1
    BY <2>3
  <2> QED
    BY <2>1, <2>3, <2>5, <2>6 DEF SweepFits, IsLimit, IsBuy
<1>10. CASE ReleaseHold \/ ReserveRest
  BY <1>2, <1>10 DEF ReleaseHold, ReserveRest
<1>11. CASE SavePlaced
  <2>1. pc = "save" /\ subject = taker /\ fills' = fills
    BY <1>11 DEF SavePlaced, WriteRow
  <2> QED
    BY <1>1, <2>1 DEF FillsAreFresh
<1>12. ASSUME NEW i \in OrderId, Activate(i) \/ cancel(i) PROVE SweepFits'
  <2>1. pc \in {"triggers", "idle"} /\ fills' = fills
    BY <1>12 DEF Activate, cancel
  <2> QED
    BY <1>1, <2>1 DEF FillsAreFresh
<1>13. CASE SetKillSwitch \/ UNCHANGED vars
  BY <1>2, <1>13 DEF SetKillSwitch, vars
<1> QED
  BY <1>3, <1>4, <1>5, <1>6, <1>7, <1>8, <1>9, <1>10, <1>11, <1>12, <1>13 DEF Next, place, Step

\* Fills of tickets worth a cent per unit are always paid.
LEMMA PayNeverRaises ==
    ASSUME WholeCents, WellFormed, FillsAreFresh
    PROVE  ~PayRaises
<1> SUFFICES ASSUME PayRaises PROVE FALSE
  OBVIOUS
<1>1. Value(taker, Fill.price, Fill.qty) > 0 /\ Value(taker, Fill.price, Fill.qty) <= 0
  BY PaymentsAreWorthSomething DEF PayRaises
<1>2. fills # <<>> /\ taker \in Used
  BY DEF PayRaises, WellFormed, CallsAreInOrder
<1>3. Fill.price \in Int /\ Fill.qty \in Int
  BY <1>2, HeadIsComing DEF FillRecord
<1>4. Value(taker, Fill.price, Fill.qty) \in Int
  BY <1>2, <1>3, ValueIsInt DEF WellFormed
<1> QED
  BY <1>1, <1>4

\* A buy that cannot be reserved again was hit by the last fill of its sale, which has
\* nothing left: the call that raises drops nothing.
LEMMA RaisingDropsNothing ==
    ASSUME RestartForm, OffersWhole, SweepFits, SidesDiffer, HoldsTrack, ReserveRaises
    PROVE  /\ \A i \in Used : Due(i) = open[i] /\ Due(i)' = open[i] /\ Offer(i)' = Offer(i)
           /\ Placing => open[taker] = 0
<1> USE DEF RestartForm
<1>1. /\ pc = "reserve" /\ pc' = "idle" /\ fills' = <<>> /\ UNCHANGED <<open, filled, req>>
      /\ subject \in Used /\ KeepsHold(subject) /\ IsBuy(subject)
  BY DEF ReserveRaises, EndCall, Goto, HoldsTrack, WellFormed, CallsAreInOrder
<1>2. /\ ~MakerTurn' /\ (Placing <=> MakerTurn) /\ (Sweeping <=> MakerTurn)
  BY <1>1 DEF Placing, Sweeping, Recorded, MakerTurn
<1>3. \A i : Coming(i)' = 0
  BY <1>1, NothingComes
<1>4. /\ \A i \in Used : Coming(i) = Taken(i)
      /\ Placing => open[taker] = 0
  <2>1. CASE ~MakerTurn
    <3>1. fills = <<>>
      BY <1>2, <2>1 DEF CallFits
    <3> QED
      BY <1>2, <2>1, <3>1, NoFillsNoSums DEF Coming, Taken
  <2>2. CASE MakerTurn
    <3>1. PICK m, q : m = Fill.maker /\ q = Fill.qty
      OBVIOUS
    <3>2. fills # <<>> /\ subject = m /\ m \in Used
      BY <1>1, <2>2, <3>1 DEF MakerTurn, CallFits, WellFormed, CallsAreInOrder
    <3>3. /\ Fill = fills[1] /\ 1 \in DOMAIN fills /\ q \in Nat \ {0} /\ Tail(fills) \in Seq(FillRecord)
          /\ \A i : ComingIn(Tail(fills), i) = Coming(i) - IF i = m THEN q ELSE 0
      BY <3>1, <3>2, HeadIsComing
    <3>4. fills \in Seq(FillRecord) /\ left \in Int /\ open \in [OrderId -> Nat]
      BY DEF WellFormed, TypeOK
    <3>5. \A n \in DOMAIN Tail(fills) : n + 1 \in DOMAIN fills /\ Tail(fills)[n] = fills[n + 1] /\ n \in Nat /\ n >= 1
      BY <3>2, <3>4, TailShifts
    <3>6. ~IsBuy(taker)
      BY <1>1, <3>1, <3>2, <3>3 DEF SidesDiffer, IsBuy
    <3>7. Due(m) > 0
      <4>1. Offered(m)
        BY <2>2, <3>1, <3>2 DEF Offered, MakerTurn
      <4>2. Due(m) + filled[m] = req[m].qty
        BY <3>2, <4>1 DEF OffersWhole, Offer
      <4>3. req[m].qty - filled[m] > 0
        BY <1>1, <3>2 DEF KeepsHold, Remaining
      <4> QED
        BY <3>2, <4>2, <4>3, OfferNumbers
    <3>8. ~(1 < Len(fills) \/ left > 0)
      <4> SUFFICES ASSUME 1 < Len(fills) \/ left > 0 PROVE FALSE
        OBVIOUS
      <4>1. open[m] = 0 /\ \A k \in DOMAIN fills : k # 1 => fills[k].maker # m
        BY <3>1, <3>3, <3>6 DEF SweepFits
      <4>2. \A n \in DOMAIN Tail(fills) : Tail(fills)[n].maker # m
        <5>1. ASSUME NEW n \in DOMAIN Tail(fills) PROVE Tail(fills)[n].maker # m
          <6>1. n + 1 \in DOMAIN fills /\ Tail(fills)[n] = fills[n + 1] /\ n + 1 # 1
            BY <3>5
          <6> QED
            BY <4>1, <6>1
        <5> QED
          BY <5>1
      <4>3. ComingIn(Tail(fills), m) = 0
        BY <3>3, <4>2, NoOneComes
      <4>4. Coming(m) = q
        <5>1. Coming(m) \in Nat /\ 0 = Coming(m) - q
          BY <3>3, <4>3, ComingIsNatural
        <5> QED
          BY <3>3, <5>1
      <4>5. Taken(m) = q
        BY <2>2, <3>1 DEF Taken
      <4> QED
        BY <3>3, <3>7, <4>1, <4>4, <4>5 DEF Due
    <3>9. Tail(fills) = <<>>
      <4>1. Len(fills) \in Nat /\ Len(fills) # 0 /\ ~(1 < Len(fills))
        BY <3>2, <3>4, <3>8
      <4>3. Len(Tail(fills)) = Len(fills) - 1
        BY <3>2, <3>4, HeadTailProperties
      <4>2. Len(Tail(fills)) = 0
        BY <4>1, <4>3
      <4> QED
        BY <3>3, <4>2, EmptySeq
    <3>10. \A i : ComingIn(Tail(fills), i) = 0
      BY <3>9, NoFillsNoSums
    <3>11. ASSUME NEW i \in Used PROVE Coming(i) = Taken(i)
      <4>1. Coming(i) \in Nat /\ 0 = Coming(i) - IF i = m THEN q ELSE 0
        BY <3>3, <3>10, ComingIsNatural
      <4>2. Taken(i) = IF i = m THEN q ELSE 0
        BY <2>2, <3>1 DEF Taken
      <4> QED
        BY <3>3, <4>1, <4>2
    <3>12. open[taker] = 0
      <4>1. left >= 0
        BY <1>2, <2>2 DEF CallFits
      <4>2. left = 0
        BY <3>4, <3>8, <4>1
      <4> QED
        BY <1>2, <2>2, <4>2 DEF CallFits
    <3> QED
      BY <3>11, <3>12
  <2> QED
    BY <2>1, <2>2
<1>5. ASSUME NEW i \in Used
      PROVE  Due(i) = open[i] /\ Due(i)' = open[i] /\ Offer(i)' = Offer(i)
  <2>1. open[i] \in Nat /\ Coming(i) \in Nat /\ Taken(i) \in Nat
    BY OfferNumbers
  <2>2. Due(i) = open[i]
    BY <1>4, <2>1 DEF Due
  <2>3. Due(i)' = (open[i] + 0) - 0
    BY <1>1, <1>2, <1>3 DEF Due, Taken
  <2> QED
    BY <1>1, <2>1, <2>2, <2>3 DEF Offer
<1> QED
  BY <1>4, <1>5

\* No step puts part of what was asked on offer.
LEMMA OffersStayWhole ==
    ASSUME WholeCents, RestartForm, OffersFit, OffersWhole, SweepFits, SidesDiffer, HoldsTrack, [Next]_vars
    PROVE  OffersWhole'
<1> SUFFICES ASSUME NEW i \in Used', Offered(i)'
             PROVE  Offer(i)' = req'[i].qty
  BY DEF OffersWhole
<1>1. i \in Used => req'[i] = req[i]
  BY RowsMove DEF RestartForm
<1>2. CASE i \in Used /\ Offered(i) /\ Offer(i)' = Offer(i)
  BY <1>1, <1>2 DEF OffersWhole
<1>3. CASE ReserveRaises /\ i \in Used
  <2>1. Due(i) = open[i] /\ Due(i)' = open[i] /\ Offer(i)' = Offer(i) /\ (Placing => open[taker] = 0)
    BY <1>3, RaisingDropsNothing
  <2>2. pc' = "idle"
    BY <1>3 DEF ReserveRaises, EndCall, Goto
  <2>3. ~MakerTurn'
    BY <2>2 DEF MakerTurn
  <2>4. open[i] \in Nat /\ open[i] > 0
    BY <1>3, <2>1, <2>3, OfferNumbers DEF Offered, RestartForm
  <2>5. Offered(i)
    BY <2>1, <2>4 DEF Offered
  <2> QED
    BY <1>1, <1>3, <2>1, <2>5 DEF OffersWhole
<1>4. ~PayRaises
  BY PayNeverRaises DEF RestartForm
<1> QED
  BY <1>2, <1>3, <1>4, OffersMove

\* Whose turn it is to be written as open is on offer.
LEMMA TurnsStayOpen ==
    ASSUME RestartForm, OpenTurns, [Next]_vars
    PROVE  OpenTurns'
<1> SUFFICES ASSUME Writing', status'[subject'] \in Open
             PROVE  Offered(subject)'
  BY DEF OpenTurns
<1> USE DEF RestartForm
<1>1. ASSUME NEW r \in Request, PlaceInvalid(r) \/ PlaceStop(r) \/ PlaceNow(r)
      PROVE  FALSE
  <2>1. /\ nextId \in OrderId
        /\ \/ /\ subject' = nextId
              /\ \E st \in {"pending", "rejected"} : status' = [status EXCEPT ![nextId] = st]
           \/ pc' = "start"
    BY <1>1 DEF PlaceInvalid, PlaceStop, PlaceNow, Register, Conclude, Goto
  <2> QED
    BY <2>1 DEF Writing, Open, WellFormed, TypeOK
<1>2. CASE StartLimit \/ CheckLimit \/ StartMarket
  <2>1. /\ pc \in {"start", "risk"}
        /\ \/ pc' \in {"risk", "match"}
           \/ subject' = taker /\ \E st \in {"rejected", "canceled"} : status' = [status EXCEPT ![taker] = st]
    BY <1>2 DEF StartLimit, CheckLimit, StartMarket, Conclude, ThenWrite, Goto, Sweep
  <2>2. taker \in OrderId
    BY <2>1 DEF WellFormed, CallsAreInOrder, Used
  <2> QED
    BY <2>1, <2>2 DEF Writing, Open, WellFormed, TypeOK
<1>3. CASE Advance
  <2>1. /\ pc = "advance" /\ subject' = Fill.maker /\ UNCHANGED <<taker, fills>>
    BY <1>3 DEF Advance, Conclude
  <2>2. taker # 0 /\ fills # <<>>
    BY <2>1 DEF WellFormed, CallsAreInOrder
  <2>3. Fill.maker # taker
    <3>1. Fill = fills[1] /\ 1 \in DOMAIN fills
      BY <2>2, HeadIsComing
    <3> QED
      BY <3>1 DEF FillsAreFresh
  <2>4. MakerTurn' /\ Fill' = Fill
    BY <2>1, <2>2, <2>3 DEF MakerTurn, Writing, Fill
  <2> QED
    BY <2>1, <2>3, <2>4 DEF Offered
<1>4. CASE Finish
  <2>1. /\ pc = "settle" /\ fills = <<>> /\ pc' \in {"release", "save"} /\ subject' = taker
        /\ status' = [status EXCEPT ![taker] =
                         IF left = 0 THEN "filled"
                         ELSE IF ~Rests(taker) THEN "canceled"
                         ELSE IF left < req[taker].qty THEN "partial" ELSE "new"]
        /\ UNCHANGED <<open, taker, fills>>
    BY <1>4 DEF Finish, Conclude, ThenWrite, Goto
  <2>2. taker \in OrderId /\ taker \in Used
    BY <2>1 DEF WellFormed, CallsAreInOrder, Used
  <2>3. left # 0 /\ Rests(taker)
    BY <2>1, <2>2 DEF WellFormed, TypeOK, Open
  <2>4. Placing /\ Sweeping /\ ~MakerTurn' /\ ~Placing'
    BY <2>1 DEF Placing, Sweeping, Recorded, MakerTurn
  <2>5. left > 0
    BY <2>3, <2>4 DEF CallFits, WellFormed, TypeOK
  <2>6. open[taker] > 0
    BY <2>1, <2>3, <2>4, <2>5 DEF CallFits
  <2>7. Due(subject)' = (open[taker] + 0) - 0
    BY <2>1, <2>4, NothingComes DEF Due, Taken
  <2> QED
    BY <2>2, <2>4, <2>6, <2>7, OfferNumbers DEF Offered
<1>5. CASE ReleaseHold \/ ReserveRest \/ SetKillSwitch \/ UNCHANGED vars
  <2>1. /\ (pc \in {"release", "reserve"} /\ pc' \in {"reserve", "save"}) \/ pc' = pc
        /\ UNCHANGED <<status, open, fills, taker, subject>>
    BY <1>5 DEF ReleaseHold, ReserveRest, SetKillSwitch, Goto, vars
  <2>2. (MakerTurn' <=> MakerTurn) /\ Writing /\ (Placing' <=> Placing)
    BY <2>1 DEF MakerTurn, Writing, Placing, Sweeping, Recorded
  <2>3. Offered(subject)
    BY <2>1, <2>2 DEF OpenTurns
  <2>4. Due(subject)' = Due(subject)
    BY <2>1, <2>2 DEF Due, Coming, Taken, Fill
  <2> QED
    BY <2>1, <2>2, <2>3, <2>4 DEF Offered, Fill
<1>6. ASSUME NEW i \in OrderId, cancel(i)
      PROVE  FALSE
  BY <1>6 DEF cancel, Conclude, Open, WellFormed, TypeOK
<1>7. ASSUME \/ MatchDone \/ RecordTrade \/ Pay \/ PayRaises \/ BookBuyer
             \/ BookSeller \/ ReserveRaises \/ SaveResting \/ SavePlaced \/ SaveAndReturn \/ Quiescent
             \/ \E i \in OrderId : MatchOne(i) \/ Activate(i)
      PROVE  ~Writing'
  <2>1. pc' \in {"idle", "match", "settle", "pay", "book buy", "book sell", "advance", "triggers", "start"}
    BY <1>7 DEF MatchDone, RecordTrade, Pay, PayRaises, BookBuyer, BookSeller,
                ReserveRaises, SaveResting, SavePlaced, SaveAndReturn, Quiescent, MatchOne, Activate,
                EndCall, Goto
  <2> QED
    BY <2>1 DEF Writing
<1> QED
  BY <1>1, <1>2, <1>3, <1>4, <1>5, <1>6, <1>7 DEF Next, place, Step

\* When a sweep ends with something left, nothing on the other side is within its limit:
\* the best of those orders would have been next.
LEMMA NothingReaches ==
    ASSUME WellFormed, ArrivalsFit, MatchDone, left > 0, IsLimit(taker), NEW j \in Opposite(taker)
    PROVE  ~Reaches(taker, j)
<1> SUFFICES ASSUME Reaches(taker, j) PROVE FALSE
  OBVIOUS
<1>1. taker \in Used /\ req[taker].price \in Int /\ req[taker].side \in {"buy", "sell"}
  <2>1. taker \in Used
    BY DEF MatchDone, WellFormed, CallsAreInOrder
  <2> QED
    BY <2>1, UsedIsTicket, OMSAssumption DEF WellFormed, Side
<1>2. \A k \in Opposite(taker) : /\ k \in OrderId /\ open[k] \in Nat /\ open[k] > 0 /\ k \in Used
                                 /\ req[k].price \in Int /\ arrival[k] \in Nat
                                 /\ req[k].side \in {"buy", "sell"} /\ req[k].side # req[taker].side
  <2>1. \A k \in Opposite(taker) : k \in OrderId /\ open[k] \in Nat /\ open[k] > 0 /\ k \in Used /\ arrival[k] \in Nat
    BY DEF Opposite, WellFormed, TypeOK, CallsAreInOrder
  <2> QED
    BY <2>1, UsedIsTicket, OMSAssumption DEF WellFormed, Side, Opposite
<1>3. \A k \in Opposite(taker) : IsBuy(k) <=> ~IsBuy(taker)
  BY <1>1, <1>2 DEF IsBuy
<1>4. IsFiniteSet(Opposite(taker))
  <2>1. IsFiniteSet(OrderId)
    BY OMSAssumption, FS_Interval DEF OrderId
  <2>2. Opposite(taker) \subseteq OrderId
    BY DEF Opposite
  <2> QED
    BY <2>1, <2>2, FS_Subset
<1>5. PICK b \in Opposite(taker) :
          \A k \in Opposite(taker) : IF IsBuy(taker) THEN req[b].price <= req[k].price
                                     ELSE req[b].price >= req[k].price
  <2> DEFINE P == {req[k].price : k \in Opposite(taker)}
  <2>1. IsFiniteSet(P)
    <3> DEFINE f == [k \in Opposite(taker) |-> req[k].price]
    <3>1. IsFiniteSet({f[k] : k \in Opposite(taker)})
      BY <1>4, ImageFinite
    <3>2. {f[k] : k \in Opposite(taker)} = P
      OBVIOUS
    <3> QED
      BY <3>1, <3>2
  <2>2. \A y \in P : y \in Int
    BY <1>2
  <2>3. P # {}
    OBVIOUS
  <2>4. CASE IsBuy(taker)
    <3>1. \E x \in P : \A y \in P : x <= y
      BY <2>1, <2>2, <2>3, SmallestExists
    <3> QED
      BY <2>4, <3>1
  <2>5. CASE ~IsBuy(taker)
    <3>1. \E x \in P : \A y \in P : x >= y
      BY <2>1, <2>2, <2>3, LargestExists
    <3> QED
      BY <2>5, <3>1
  <2> QED
    BY <2>4, <2>5
<1>6. PICK m \in Opposite(taker) :
          /\ req[m].price = req[b].price
          /\ \A k \in Opposite(taker) : req[k].price = req[b].price => arrival[m] <= arrival[k]
  <2> DEFINE T == {k \in Opposite(taker) : req[k].price = req[b].price}
             A == {arrival[k] : k \in T}
  <2>1. IsFiniteSet(T)
    BY <1>4, FS_Subset
  <2>2. IsFiniteSet(A)
    BY <2>1, ImageFinite
  <2>3. A # {} /\ \A y \in A : y \in Int
    BY <1>2
  <2>4. \E x \in A : \A y \in A : x <= y
    BY <2>2, <2>3, SmallestExists
  <2> QED
    BY <2>4
<1>7. ASSUME NEW k \in Opposite(taker) \ {m} PROVE Before(m, k)
  <2>1. arrival[m] # arrival[k]
    BY <1>2 DEF ArrivalsFit
  <2>2. CASE req[k].price = req[b].price
    <3>1. arrival[m] < arrival[k]
      BY <1>2, <1>6, <2>1, <2>2
    <3> QED
      BY <1>6, <2>2, <3>1 DEF Before
  <2>3. CASE req[k].price # req[b].price
    <3>1. IF IsBuy(taker) THEN req[m].price < req[k].price ELSE req[m].price > req[k].price
      BY <1>2, <1>5, <1>6, <2>3
    <3>2. IF IsBuy(m) THEN req[m].price > req[k].price ELSE req[m].price < req[k].price
      BY <1>3, <3>1
    <3> QED
      BY <3>2 DEF Before
  <2> QED
    BY <2>2, <2>3
<1>8. Reaches(taker, m)
  <2>1. IF IsBuy(taker) THEN req[j].price <= req[taker].price ELSE req[j].price >= req[taker].price
    BY DEF Reaches
  <2>2. IF IsBuy(taker) THEN req[m].price <= req[j].price ELSE req[m].price >= req[j].price
    BY <1>5, <1>6
  <2>3. IF IsBuy(taker) THEN req[m].price <= req[taker].price ELSE req[m].price >= req[taker].price
    BY <1>1, <1>2, <2>1, <2>2
  <2> QED
    BY <2>3 DEF Reaches
<1>9. m \in OrderId /\ IsNext(m, taker)
  BY <1>2, <1>7, <1>8 DEF IsNext
<1>10. left \in Int /\ open[m] \in Nat /\ open[m] > 0
  BY <1>2 DEF WellFormed, TypeOK
<1>11. MatchQty(m) = Min({left, open[m]})
  BY DEF MatchQty
<1>12. Min({left, open[m]}) > 0
  <2>1. CASE open[m] <= left
    BY <1>10, <2>1, MinIsSmaller
  <2>2. CASE left <= open[m]
    <3>1. {left, open[m]} = {open[m], left}
      OBVIOUS
    <3> QED
      BY <1>10, <2>2, <3>1, MinIsSmaller
  <2> QED
    BY <1>10, <2>1, <2>2
<1>13. MatchQty(m) <= 0
  BY <1>9 DEF MatchDone
<1>14. MatchQty(m) \in Int
  <2>1. left \in Int /\ open[m] \in Int
    BY <1>10
  <2>2. Min({left, open[m]}) \in Int
    BY <2>1, MinOfTwo
  <2> QED
    BY <1>11, <2>2
<1> QED
  BY <1>11, <1>12, <1>13, <1>14

\* The rows that would reopen: as before, or the one just written.
LEMMA ReopensMove ==
    ASSUME WellFormed, RowsFit, [Next]_vars, NEW i \in OrderId, Reopens(i)'
    PROVE  /\ i \in Used /\ req'[i] = req[i]
           /\ \/ Reopens(i)
              \/ /\ pc = "save" /\ i = subject /\ saved' # saved
                 /\ status[i] \in Open /\ req[i].qty - filled[i] > 0
<1>1. \/ saved' = saved
      \/ /\ pc = "save" /\ subject \in Used
         /\ saved' = [saved EXCEPT ![subject] = [status |-> status[subject], filled |-> filled[subject]]]
  BY RowsMove
<1>2. saved'[i].status \in Open /\ req'[i].qty - saved'[i].filled > 0
  BY DEF Reopens
<1>3. CASE saved'[i] = saved[i]
  <2>1. saved[i].status \in Open
    BY <1>2, <1>3
  <2>2. i \in Used
    BY <2>1, RowsAreRows DEF RowsFit, Open
  <2>3. req'[i] = req[i]
    BY <2>2, RowsMove
  <2> QED
    BY <1>2, <1>3, <2>2, <2>3 DEF Reopens
<1>4. CASE saved'[i] # saved[i]
  <2>1. pc = "save" /\ i = subject /\ subject \in Used
        /\ saved'[i] = [status |-> status[subject], filled |-> filled[subject]]
    BY <1>1, <1>4 DEF WellFormed, TypeOK
  <2>2. req'[i] = req[i]
    BY <2>1, RowsMove
  <2> QED
    BY <1>2, <1>4, <2>1, <2>2
<1> QED
  BY <1>3, <1>4

\* A row that is written and would reopen is of an order that is on offer.
LEMMA WrittenIsDue ==
    ASSUME WellFormed, OffersWhole, OpenTurns, Writing,
           status[subject] \in Open, req[subject].qty - filled[subject] > 0
    PROVE  ~(Placing /\ subject = taker) /\ Due(subject) > 0
<1>1. subject \in Used
  BY DEF Writing, WellFormed, CallsAreInOrder
<1>2. Offered(subject)
  BY DEF OpenTurns
<1>3. Due(subject) + filled[subject] = req[subject].qty
  BY <1>1, <1>2 DEF OffersWhole, Offer
<1>4. Due(subject) > 0
  BY <1>1, <1>3, OfferNumbers
<1> QED
  BY <1>2, <1>4 DEF Offered

\* What is due to an order changes only when it comes to rest or it is its turn.
LEMMA DuesMove ==
    ASSUME WholeCents, RestartForm, OffersWhole, SweepFits, SidesDiffer, HoldsTrack, [Next]_vars, NEW i \in Used
    PROVE  \/ Due(i)' = Due(i)
           \/ MatchDone /\ i = taker
           \/ Writing' /\ subject' = i
<1> USE DEF RestartForm
<1>1. ASSUME NEW r \in Request, PlaceInvalid(r) \/ PlaceStop(r) \/ PlaceNow(r)
      PROVE  Due(i)' = Due(i)
  <2>1. pc = "idle" /\ pc' \in {"save", "start"} /\ UNCHANGED <<open, fills>> /\ (taker' = taker \/ taker' = nextId)
        /\ (pc' = "save" => subject' = nextId)
    BY <1>1 DEF PlaceInvalid, PlaceStop, PlaceNow, Register, Conclude, Goto
  <2>2. taker = 0
    BY <2>1 DEF WellFormed, CallsAreInOrder
  <2>3. ~MakerTurn /\ ~MakerTurn'
    BY <2>1, <2>2 DEF MakerTurn
  <2> QED
    BY <2>1, <2>3, DueKept
<1>3. ASSUME NEW m \in OrderId, MatchOne(m)
      PROVE  Due(i)' = Due(i)
  BY <1>3, MatchingOffers
<1>4. CASE Advance
  <2>1. /\ pc = "advance" /\ pc' \in {"release", "save"} /\ subject' = Fill.maker /\ UNCHANGED <<open, fills>>
    BY <1>4 DEF Advance, Conclude, Goto
  <2>2. ~MakerTurn /\ Writing' /\ Fill' = Fill
    BY <2>1 DEF MakerTurn, Writing, Fill
  <2>3. CASE i # Fill.maker
    BY <2>1, <2>2, <2>3 DEF Due, Coming, Taken
  <2>4. CASE i = Fill.maker
    BY <2>1, <2>2, <2>4
  <2> QED
    BY <2>3, <2>4
<1>5. CASE Finish
  <2>1. /\ pc = "settle" /\ subject' = taker /\ UNCHANGED <<taker, open, fills>>
    BY <1>5 DEF Finish, Conclude
  <2>2. ~MakerTurn /\ ~MakerTurn'
    BY <2>1 DEF MakerTurn
  <2> QED
    BY <2>1, <2>2, DueKept
<1>6. CASE SaveResting
  BY <1>6, NextFillOffers
<1>7. CASE PayRaises
  BY <1>7, PayNeverRaises
<1>8. CASE ReserveRaises
  BY <1>8, RaisingDropsNothing
<1>9. CASE StartLimit \/ CheckLimit \/ StartMarket
  <2>1. /\ pc \in {"start", "risk"} /\ UNCHANGED <<open, fills, taker>>
        /\ pc' \in {"risk", "match"} \/ subject' = taker
    BY <1>9 DEF StartLimit, CheckLimit, StartMarket, Conclude, Goto, Sweep
  <2>2. ~MakerTurn /\ ~MakerTurn'
    BY <2>1 DEF MakerTurn
  <2> QED
    BY <2>1, <2>2, DueKept
<1>10. CASE MatchDone
  <2>1. /\ pc = "match" /\ pc' = "settle" /\ UNCHANGED fills
        /\ open' = open \/ open' = [open EXCEPT ![taker] = left]
    BY <1>10 DEF MatchDone, Goto
  <2>2. ~MakerTurn' /\ ~MakerTurn
    BY <2>1 DEF MakerTurn
  <2>3. CASE i # taker
    <3>1. open'[i] = open[i]
      BY <2>1, <2>3 DEF WellFormed, TypeOK, Used
    <3> QED
      BY <2>1, <2>2, <3>1 DEF Due, Coming, Taken
  <2> QED
    BY <1>10, <2>3
<1>11. CASE RecordTrade \/ Pay \/ BookBuyer \/ BookSeller
  <2>1. /\ pc \in {"settle", "pay", "book buy", "book sell"}
        /\ pc' \in {"pay", "book buy", "book sell", "advance"}
        /\ UNCHANGED <<open, fills>>
    BY <1>11 DEF RecordTrade, Pay, BookBuyer, BookSeller, BookPosition, Goto
  <2>2. ~MakerTurn' /\ ~MakerTurn
    BY <2>1 DEF MakerTurn
  <2> QED
    BY <2>1, <2>2, DueKept
<1>12. CASE ReleaseHold \/ ReserveRest
  <2>1. /\ pc \in {"release", "reserve"} /\ pc' \in {"reserve", "save"}
        /\ UNCHANGED <<open, fills, taker, subject>>
    BY <1>12 DEF ReleaseHold, ReserveRest, Goto
  <2>2. MakerTurn' <=> MakerTurn
    BY <2>1 DEF MakerTurn
  <2> QED
    BY <2>1, <2>2, DueKept
<1>13. CASE SavePlaced \/ SaveAndReturn \/ Quiescent
  <2>1. /\ pc \in {"save", "triggers"} /\ pc' \in {"idle", "triggers"}
        /\ pc = "save" => subject = taker \/ taker = 0
        /\ UNCHANGED open
        /\ fills' = fills \/ fills' = <<>>
    BY <1>13 DEF SavePlaced, SaveAndReturn, Quiescent, WriteRow, EndCall, Goto
  <2>2. ~MakerTurn' /\ ~MakerTurn /\ ~Placing
    BY <2>1 DEF MakerTurn, Placing, Sweeping, Recorded
  <2>3. fills' = fills
    BY <2>1, <2>2 DEF CallFits
  <2> QED
    BY <2>1, <2>2, <2>3, DueKept
<1>14. ASSUME NEW j \in OrderId, Activate(j)
       PROVE  Due(i)' = Due(i)
  <2>1. pc = "triggers" /\ pc' = "start" /\ UNCHANGED <<open, fills>>
    BY <1>14 DEF Activate, Goto
  <2>2. ~MakerTurn' /\ ~MakerTurn
    BY <2>1 DEF MakerTurn
  <2> QED
    BY <2>1, <2>2, DueKept
<1>15. ASSUME NEW j \in OrderId, cancel(j)
       PROVE  Due(i)' = Due(i) \/ (Writing' /\ subject' = i)
  <2>1. /\ pc = "idle" /\ pc' \in {"release", "save"} /\ subject' = j /\ UNCHANGED <<fills, taker>>
        /\ open' = [open EXCEPT ![j] = 0]
    BY <1>15 DEF cancel, Conclude, Goto
  <2>2. taker = 0
    BY <2>1 DEF WellFormed, CallsAreInOrder
  <2>3. ~MakerTurn' /\ ~MakerTurn /\ Writing'
    BY <2>1, <2>2 DEF MakerTurn, Writing
  <2>4. CASE i # j
    <3>1. open'[i] = open[i]
      BY <2>1, <2>4 DEF WellFormed, TypeOK, Used
    <3> QED
      BY <2>1, <2>3, <3>1 DEF Due, Coming, Taken
  <2> QED
    BY <2>1, <2>3, <2>4
<1>16. CASE SetKillSwitch \/ UNCHANGED vars
  <2>1. UNCHANGED <<open, fills, pc, taker, subject>>
    BY <1>16 DEF SetKillSwitch, vars
  <2>2. MakerTurn' <=> MakerTurn
    BY <2>1 DEF MakerTurn
  <2> QED
    BY <2>1, <2>2, DueKept
<1> QED
  BY <1>1, <1>3, <1>4, <1>5, <1>6, <1>7, <1>8, <1>9, <1>10, <1>11, <1>12, <1>13, <1>14, <1>15, <1>16
     DEF Next, place, Step

\* An order starts being placed by its ticket, or by being triggered.
LEMMA PlacingBegins ==
    ASSUME WellFormed, [Next]_vars, Placing'
    PROVE  \/ Placing /\ taker' = taker
           \/ pc = "idle" /\ taker' = nextId /\ nextId \in OrderId /\ nextId \notin Used
           \/ \E j \in OrderId : Activate(j) /\ taker' = j
<1>1. ASSUME NEW r \in Request, PlaceInvalid(r) \/ PlaceStop(r) \/ PlaceNow(r)
      PROVE  pc = "idle" /\ taker' = nextId /\ nextId \in OrderId /\ nextId \notin Used
  <2>1. pc = "idle" /\ nextId \in OrderId /\ (taker' = nextId \/ (taker' = taker /\ pc' = "save"))
    BY <1>1 DEF PlaceInvalid, PlaceStop, PlaceNow, Register, Goto
  <2>2. taker = 0
    BY <2>1 DEF WellFormed, CallsAreInOrder
  <2>3. taker' = nextId
    BY <2>1, <2>2 DEF Placing, Sweeping, Recorded, MakerTurn
  <2>4. nextId \notin Used
    BY <2>1 DEF WellFormed, TypeOK, CallsAreInOrder, OrderId
  <2> QED
    BY <2>1, <2>3, <2>4
<1>2. ASSUME NEW j \in OrderId, Activate(j) PROVE Activate(j) /\ taker' = j
  BY <1>2 DEF Activate
<1>3. ASSUME \/ StartLimit \/ CheckLimit \/ StartMarket \/ MatchDone
             \/ RecordTrade \/ Pay \/ BookBuyer \/ BookSeller \/ Advance \/ Finish
             \/ \E m \in OrderId : MatchOne(m)
      PROVE  Placing /\ taker' = taker
  <2>1. /\ pc \in {"start", "risk", "match", "settle", "pay", "book buy", "book sell", "advance"}
        /\ taker' = taker
    BY <1>3 DEF StartLimit, CheckLimit, StartMarket, MatchDone, RecordTrade, Pay, BookBuyer, BookSeller,
                BookPosition, Advance, Finish, MatchOne
  <2> QED
    BY <2>1 DEF Placing, Sweeping, Recorded
<1>4. CASE ReleaseHold \/ ReserveRest \/ SetKillSwitch \/ UNCHANGED vars
  <2>1. /\ UNCHANGED <<taker, subject>>
        /\ pc' = pc \/ (pc \in {"release", "reserve"} /\ pc' \in {"reserve", "save"})
    BY <1>4 DEF ReleaseHold, ReserveRest, SetKillSwitch, Goto, vars
  <2> QED
    BY <2>1 DEF Placing, Sweeping, Recorded, MakerTurn
<1>5. CASE SaveResting
  <2>1. pc = "save" /\ taker # 0 /\ subject # taker /\ taker' = taker
    BY <1>5 DEF SaveResting, WriteRow
  <2> QED
    BY <2>1 DEF Placing, Sweeping, MakerTurn
<1>6. ASSUME \/ PayRaises \/ ReserveRaises \/ SavePlaced \/ SaveAndReturn \/ Quiescent
             \/ \E i \in OrderId : cancel(i)
      PROVE  FALSE
  <2>1. pc' \in {"idle", "triggers"} \/ (pc = "idle" /\ taker' = taker /\ pc' \in {"release", "save"})
    BY <1>6 DEF PayRaises, ReserveRaises, SavePlaced, SaveAndReturn, Quiescent, cancel, EndCall, Goto
  <2> QED
    BY <2>1 DEF Placing, Sweeping, Recorded, MakerTurn, WellFormed, CallsAreInOrder
<1> QED
  BY <1>1, <1>2, <1>3, <1>4, <1>5, <1>6 DEF Next, place, Step

\* A turn to be written ends with the write, or by raising.
LEMMA TurnsEnd ==
    ASSUME Writing, [Next]_vars
    PROVE  \/ Writing' /\ subject' = subject
           \/ WriteRow
           \/ ReserveRaises
<1>1. CASE SaveResting \/ SavePlaced \/ SaveAndReturn
  BY <1>1 DEF SaveResting, SavePlaced, SaveAndReturn
<1>2. CASE ReleaseHold \/ ReserveRest \/ SetKillSwitch \/ UNCHANGED vars
  <2>1. pc' \in {"reserve", "save"} \/ pc' = pc
    BY <1>2 DEF ReleaseHold, ReserveRest, SetKillSwitch, Goto, vars
  <2>2. subject' = subject
    BY <1>2 DEF ReleaseHold, ReserveRest, SetKillSwitch, vars
  <2> QED
    BY <2>1, <2>2 DEF Writing
<1>3. pc \in {"release", "reserve", "save"}
  BY DEF Writing
<1>4. ~place /\ ~(\E i \in OrderId : cancel(i) \/ Activate(i) \/ MatchOne(i))
  BY <1>3 DEF place, PlaceInvalid, PlaceStop, PlaceNow, Register, cancel, Activate, MatchOne
<1>5. /\ ~StartLimit /\ ~CheckLimit /\ ~StartMarket /\ ~MatchDone /\ ~RecordTrade /\ ~Pay /\ ~PayRaises
      /\ ~BookBuyer /\ ~BookSeller /\ ~Advance /\ ~Finish /\ ~Quiescent
  BY <1>3 DEF StartLimit, CheckLimit, StartMarket, MatchDone, RecordTrade, Pay, PayRaises, BookBuyer,
              BookSeller, Advance, Finish, Quiescent
<1> QED
  BY <1>1, <1>2, <1>4, <1>5 DEF Next, Step

\* An order the table would reopen is one the book still offers, but for the one whose turn
\* it is, which may have just been filled or canceled.
LEMMA ReopensStayFit ==
    ASSUME WholeCents, RestartForm, OffersWhole, SweepFits, SidesDiffer, HoldsTrack, OpenTurns,
           ReopensFit, [Next]_vars
    PROVE  ReopensFit'
<1> USE DEF RestartForm
<1> SUFFICES ASSUME NEW i \in OrderId, Reopens(i)'
             PROVE  /\ ~(Placing' /\ i = taker')
                    /\ Due(i)' > 0 \/ (Writing' /\ i = subject')
  BY DEF ReopensFit
<1>1. i \in Used
  BY ReopensMove
<1>2. CASE ~(Placing /\ i = taker) /\ Due(i) > 0
  <2>1. ~(Placing' /\ i = taker')
    <3>1. ASSUME NEW j \in OrderId, Activate(j) PROVE Due(j) = 0
      <4>1. pc = "triggers" /\ j \in pendingStops
        BY <3>1 DEF Activate, Ready
      <4>2. open[j] = 0 /\ Coming(j) = 0
        BY <4>1 DEF CallFits, Untouched
      <4> QED
        BY <4>1, <4>2 DEF Due, Taken, MakerTurn
    <3> QED
      BY <1>1, <1>2, <3>1, PlacingBegins
  <2>2. Due(i)' > 0 \/ (Writing' /\ i = subject')
    <3>1. ~(MatchDone /\ i = taker)
      BY <1>2 DEF MatchDone, Placing, Sweeping
    <3> QED
      BY <1>1, <1>2, <3>1, DuesMove
  <2> QED
    BY <2>1, <2>2
<1>3. CASE Writing /\ i = subject /\ status[i] \in Open /\ req[i].qty - filled[i] > 0
  BY <1>2, <1>3, WrittenIsDue
<1>4. CASE Reopens(i) /\ Writing /\ i = subject
  <2>1. CASE WriteRow
    <3>1. saved'[i] = [status |-> status[i], filled |-> filled[i]] /\ req' = req
      BY <1>4, <2>1 DEF WriteRow, TypeOK, WellFormed
    <3> QED
      BY <1>3, <1>4, <3>1 DEF Reopens
  <2>2. CASE ReserveRaises
    <3>1. KeepsHold(subject)
      BY <2>2 DEF ReserveRaises, HoldsTrack
    <3> QED
      BY <1>3, <1>4, <3>1 DEF KeepsHold, Remaining
  <2>3. CASE Writing' /\ subject' = subject
    <3>1. pc # "idle" /\ \A j \in OrderId : ~Activate(j)
      BY <1>4 DEF Writing, Activate
    <3>2. ~(Placing' /\ i = taker')
      BY <1>4, <3>1, PlacingBegins DEF ReopensFit
    <3> QED
      BY <1>4, <2>3, <3>2
  <2> QED
    BY <1>4, <2>1, <2>2, <2>3, TurnsEnd
<1>5. \/ Reopens(i)
      \/ pc = "save" /\ i = subject /\ status[i] \in Open /\ req[i].qty - filled[i] > 0
  BY ReopensMove
<1> QED
  BY <1>2, <1>3, <1>4, <1>5 DEF ReopensFit, Writing

\* What is known of the book: an order is never learned of that was not known, but for the
\* one that has just been placed.
LEMMA KnownMoves ==
    ASSUME WholeCents, RestartForm, OffersWhole, SweepFits, SidesDiffer, HoldsTrack, OpenTurns,
           ReopensFit, [Next]_vars, NEW i \in OrderId, Known(i)'
    PROVE  /\ i \in Used
           /\ Known(i) \/ (Finish /\ open[i] > 0)
<1> USE DEF RestartForm
<1>1. ASSUME Reopens(i)' PROVE i \in Used /\ (Known(i) \/ (Finish /\ open[i] > 0))
  <2>1. i \in Used
    BY <1>1, ReopensMove
  <2>2. CASE Reopens(i)
    BY <2>1, <2>2 DEF Known
  <2>3. CASE pc = "save" /\ i = subject /\ status[i] \in Open /\ req[i].qty - filled[i] > 0
    <3>1. Writing
      BY <2>3 DEF Writing
    <3>2. ~(Placing /\ i = taker) /\ Due(i) > 0
      BY <2>3, <3>1, WrittenIsDue
    <3>3. open[i] \in Nat /\ Coming(i) \in Nat /\ Taken(i) \in Nat
      BY <2>1, OfferNumbers
    <3>4. CASE fills = <<>>
      <4>1. Coming(i) = 0
        BY <3>4, NoFillsNoSums DEF Coming
      <4>2. open[i] > 0
        BY <3>2, <3>3, <4>1 DEF Due
      <4> QED
        BY <2>1, <3>2, <4>2 DEF Known
    <3>5. CASE fills # <<>>
      <4>1. Placing
        BY <3>5 DEF CallFits
      <4>2. MakerTurn
        BY <2>3, <4>1 DEF Placing, Sweeping, Recorded
      <4>3. i = fills[1].maker /\ 1 \in DOMAIN fills
        BY <2>3, <3>5, <4>2, HeadIsComing DEF CallFits
      <4> QED
        BY <2>1, <4>3 DEF Known
    <3> QED
      BY <3>4, <3>5
  <2> QED
    BY <1>1, <2>2, <2>3, ReopensMove
<1>2. ASSUME UNCHANGED <<open, fills>>, Placing /\ i = taker => Placing' /\ i = taker'
      PROVE  i \in Used /\ (Known(i) \/ (Finish /\ open[i] > 0))
  <2>1. CASE open[i] > 0 /\ ~(Placing' /\ i = taker')
    BY <1>2, <2>1 DEF Known, WellFormed, CallsAreInOrder
  <2>2. CASE \E n \in DOMAIN fills : fills[n].maker = i
    BY <2>2 DEF Known, WellFormed, CallsAreInOrder
  <2> QED
    BY <1>1, <1>2, <2>1, <2>2 DEF Known
<1>3. ASSUME fills' = <<>>, open'[i] = 0 \/ (open[i] > 0 /\ ~(Placing /\ i = taker))
      PROVE  i \in Used /\ (Known(i) \/ (Finish /\ open[i] > 0))
  <2>1. DOMAIN fills' = {}
    BY <1>3, EmptyHasNoIndex
  <2>2. CASE open[i] > 0 /\ ~(Placing /\ i = taker)
    BY <2>2 DEF Known, WellFormed, CallsAreInOrder
  <2> QED
    BY <1>1, <1>3, <2>1, <2>2 DEF Known
<1>4. CASE place
  <2>1. /\ pc = "idle" /\ UNCHANGED <<open, fills>>
    BY <1>4 DEF place, PlaceInvalid, PlaceStop, PlaceNow, Register
  <2>2. ~Placing
    BY <2>1 DEF Placing, Sweeping, Recorded, MakerTurn
  <2> QED
    BY <1>2, <2>1, <2>2
<1>5. CASE StartLimit \/ CheckLimit \/ StartMarket
  <2>1. /\ pc \in {"start", "risk"} /\ UNCHANGED <<open, fills, taker>>
    BY <1>5 DEF StartLimit, CheckLimit, StartMarket
  <2>2. Placing /\ fills = <<>>
    BY <2>1 DEF Placing, FillsAreFresh
  <2>3. open[taker] = 0
    BY <2>1, <2>2 DEF CallFits
  <2>4. CASE i = taker
    BY <1>3, <2>1, <2>2, <2>3, <2>4
  <2>5. CASE i # taker
    BY <1>2, <2>1, <2>5
  <2> QED
    BY <2>4, <2>5
<1>6. ASSUME NEW m \in OrderId, MatchOne(m)
      PROVE  i \in Used /\ (Known(i) \/ (Finish /\ open[i] > 0))
  <2>1. PICK q : q = MatchQty(m)
    OBVIOUS
  <2>2. /\ pc = "match" /\ q \in Nat \ {0} /\ q <= open[m] /\ open' = [open EXCEPT ![m] = open[m] - q]
        /\ m # taker /\ m \in Used /\ open[m] > 0 /\ UNCHANGED <<pc, taker, subject>>
        /\ DOMAIN fills = 1 .. Len(fills) /\ Len(fills) \in Nat
        /\ DOMAIN fills' = 1 .. Len(fills) + 1
        /\ \A n \in 1 .. Len(fills) : fills'[n] = fills[n]
        /\ fills'[Len(fills) + 1].maker = m
    BY <1>6, <2>1, MatchingMoves
  <2>3. Placing /\ Placing'
    BY <2>2 DEF Placing, Sweeping
  <2>4. open \in [OrderId -> Nat]
    BY DEF WellFormed, TypeOK
  <2>5. CASE i = m
    BY <2>2, <2>5 DEF Known
  <2>6. CASE i # m
    <3>1. open'[i] = open[i]
      BY <2>2, <2>4, <2>6
    <3>2. CASE open[i] > 0 /\ i # taker
      BY <3>2 DEF Known, WellFormed, CallsAreInOrder
    <3>3. CASE \E n \in DOMAIN fills' : fills'[n].maker = i
      <4>1. PICK n \in DOMAIN fills' : fills'[n].maker = i
        BY <3>3
      <4>2. n \in DOMAIN fills
        BY <2>2, <2>6, <4>1
      <4>3. fills[n].maker = i
        BY <2>2, <4>1, <4>2
      <4> QED
        BY <4>2, <4>3 DEF Known, WellFormed, CallsAreInOrder
    <3>4. open'[i] > 0 /\ ~(Placing' /\ i = taker') => open[i] > 0 /\ i # taker
      BY <2>2, <2>3, <3>1
    <3> QED
      BY <1>1, <3>2, <3>3, <3>4 DEF Known
  <2> QED
    BY <2>5, <2>6
<1>7. CASE MatchDone
  <2>1. /\ pc = "match" /\ pc' = "settle" /\ UNCHANGED <<taker, fills>>
        /\ open' = open \/ open' = [open EXCEPT ![taker] = left]
    BY <1>7 DEF MatchDone, Goto
  <2>2. Placing /\ Placing'
    BY <2>1 DEF Placing, Sweeping
  <2>3. i # taker => open'[i] = open[i]
    BY <2>1 DEF WellFormed, TypeOK
  <2>4. CASE open'[i] > 0 /\ ~(Placing' /\ i = taker')
    BY <2>1, <2>2, <2>3, <2>4 DEF Known, WellFormed, CallsAreInOrder
  <2>5. CASE \E n \in DOMAIN fills : fills[n].maker = i
    BY <2>5 DEF Known, WellFormed, CallsAreInOrder
  <2> QED
    BY <1>1, <2>1, <2>4, <2>5 DEF Known
<1>8. CASE RecordTrade \/ Pay \/ BookBuyer \/ BookSeller
  <2>1. /\ pc' \in {"pay", "book buy", "book sell", "advance"}
        /\ UNCHANGED <<open, fills, taker>>
    BY <1>8 DEF RecordTrade, Pay, BookBuyer, BookSeller, BookPosition, Goto
  <2>2. Placing'
    BY <2>1 DEF Placing, Sweeping, Recorded
  <2> QED
    BY <1>2, <2>1, <2>2
<1>9. CASE Advance
  <2>1. /\ pc = "advance" /\ pc' \in {"release", "save"} /\ subject' = Fill.maker /\ UNCHANGED <<open, fills, taker>>
    BY <1>9 DEF Advance, Conclude, Goto
  <2>2. taker # 0 /\ fills # <<>>
    BY <2>1 DEF WellFormed, CallsAreInOrder
  <2>3. Fill.maker # taker
    BY <2>2, HeadIsComing DEF FillsAreFresh
  <2>4. Placing'
    BY <2>1, <2>2, <2>3 DEF Placing, Sweeping, MakerTurn
  <2> QED
    BY <1>2, <2>1, <2>4
<1>10. CASE Finish
  <2>1. pc = "settle" /\ fills = <<>> /\ UNCHANGED <<open, fills>>
    BY <1>10 DEF Finish
  <2>2. DOMAIN fills' = {}
    BY <2>1, EmptyHasNoIndex
  <2>3. CASE open[i] > 0
    BY <1>10, <2>3 DEF WellFormed, CallsAreInOrder
  <2>4. CASE ~(open[i] > 0)
    BY <1>1, <2>1, <2>2, <2>4 DEF Known
  <2> QED
    BY <2>3, <2>4
<1>11. CASE ReleaseHold \/ ReserveRest \/ SetKillSwitch \/ UNCHANGED vars
  <2>1. /\ UNCHANGED <<open, fills, taker, subject>>
        /\ pc' = pc \/ (pc \in {"release", "reserve"} /\ pc' \in {"reserve", "save"})
    BY <1>11 DEF ReleaseHold, ReserveRest, SetKillSwitch, Goto, vars
  <2>2. Placing => Placing'
    BY <2>1 DEF Placing, Sweeping, Recorded, MakerTurn
  <2> QED
    BY <1>2, <2>1, <2>2
<1>12. CASE PayRaises
  BY <1>12, PayNeverRaises
<1>13. CASE ReserveRaises
  <2>1. fills' = <<>> /\ UNCHANGED open
    BY <1>13 DEF ReserveRaises, EndCall
  <2>2. Placing => open[taker] = 0
    BY <1>13, RaisingDropsNothing
  <2>3. open'[i] = 0 \/ (open[i] > 0 /\ ~(Placing /\ i = taker))
    BY <2>1, <2>2 DEF WellFormed, TypeOK
  <2> QED
    BY <1>3, <2>1, <2>3
<1>14. CASE SaveResting
  <2>1. /\ pc = "save" /\ pc' = "settle" /\ taker # 0 /\ subject # taker /\ UNCHANGED <<taker, open>>
        /\ fills' = Tail(fills)
    BY <1>14 DEF SaveResting, WriteRow, Goto
  <2>2. fills # <<>> /\ fills \in Seq(FillRecord)
    BY <2>1 DEF WellFormed, TypeOK, CallsAreInOrder
  <2>3. Placing'
    BY <2>1 DEF Placing, Sweeping
  <2>4. \A n \in DOMAIN fills' : n + 1 \in DOMAIN fills /\ fills'[n] = fills[n + 1]
    BY <2>1, <2>2, TailShifts
  <2>5. CASE open[i] > 0 /\ i # taker
    BY <2>5 DEF Known, WellFormed, CallsAreInOrder
  <2>6. CASE \E n \in DOMAIN fills' : fills'[n].maker = i
    <3>1. \E n \in DOMAIN fills : fills[n].maker = i
      BY <2>4, <2>6
    <3> QED
      BY <3>1 DEF Known, WellFormed, CallsAreInOrder
  <2> QED
    BY <1>1, <2>1, <2>3, <2>5, <2>6 DEF Known
<1>15. CASE SavePlaced \/ SaveAndReturn \/ Quiescent
  <2>1. /\ pc \in {"save", "triggers"}
        /\ pc = "save" => subject = taker \/ taker = 0
        /\ UNCHANGED open
        /\ fills' = fills \/ fills' = <<>>
    BY <1>15 DEF SavePlaced, SaveAndReturn, Quiescent, WriteRow, EndCall
  <2>2. ~Placing
    BY <2>1 DEF MakerTurn, Placing, Sweeping, Recorded
  <2>3. fills' = fills
    BY <2>1, <2>2 DEF CallFits
  <2> QED
    BY <1>2, <2>1, <2>2, <2>3
<1>16. ASSUME NEW j \in OrderId, Activate(j)
       PROVE  i \in Used /\ (Known(i) \/ (Finish /\ open[i] > 0))
  <2>1. pc = "triggers" /\ UNCHANGED <<open, fills>>
    BY <1>16 DEF Activate
  <2>2. ~Placing
    BY <2>1 DEF MakerTurn, Placing, Sweeping, Recorded
  <2> QED
    BY <1>2, <2>1, <2>2
<1>17. ASSUME NEW j \in OrderId, cancel(j)
       PROVE  i \in Used /\ (Known(i) \/ (Finish /\ open[i] > 0))
  <2>1. /\ pc = "idle" /\ open' = [open EXCEPT ![j] = 0] /\ fills' = fills
    BY <1>17 DEF cancel
  <2>2. ~Placing
    BY <2>1 DEF MakerTurn, Placing, Sweeping, Recorded
  <2>3. fills' = <<>>
    BY <2>1 DEF FillsAreFresh
  <2>4. open'[i] = 0 \/ open[i] > 0
    BY <2>1 DEF WellFormed, TypeOK
  <2> QED
    BY <1>3, <2>2, <2>3, <2>4
<1> QED
  BY <1>4, <1>5, <1>6, <1>7, <1>8, <1>9, <1>10, <1>11, <1>12, <1>13, <1>14, <1>15, <1>16, <1>17
     DEF Next, Step

\* Two orders that are apart stay apart as long as their tickets do.
LEMMA ApartKept ==
    ASSUME WellFormed, [Next]_vars, NEW i \in Used, NEW j \in Used, Apart(i, j)
    PROVE  Apart(i, j)'
<1>1. req'[i] = req[i] /\ req'[j] = req[j]
  BY RowsMove
<1> QED
  BY <1>1 DEF Apart, IsBuy

\* Once its sweep has settled, an order that rests is apart from all that are known.
LEMMA KnownStaysApart ==
    ASSUME WholeCents, RestartForm, OffersWhole, SweepFits, SidesDiffer, HoldsTrack, OpenTurns,
           ReopensFit, Uncrossed, KnownApart, [Next]_vars
    PROVE  KnownApart'
<1> USE DEF RestartForm
<1> SUFFICES ASSUME NEW i \in OrderId, NEW j \in OrderId, Known(i)', Known(j)'
             PROVE  Apart(i, j)'
  BY DEF KnownApart
<1>1. ASSUME NEW k \in OrderId, Known(k)'
      PROVE  k \in Used /\ (Known(k) \/ (Finish /\ open[k] > 0))
  BY <1>1, KnownMoves
<1>2. ASSUME Finish, NEW k \in OrderId, Known(k), k \in Used PROVE open[k] > 0
  <2>1. pc = "settle" /\ fills = <<>>
    BY <1>2 DEF Finish
  <2>2. ~Writing /\ DOMAIN fills = {} /\ ~MakerTurn
    BY <2>1, EmptyHasNoIndex DEF Writing, MakerTurn
  <2>3. Due(k) = open[k]
    <3>1. Coming(k) = 0 /\ Taken(k) = 0 /\ open[k] \in Nat
      BY <1>2, <2>1, <2>2, NoFillsNoSums, OfferNumbers DEF Coming, Taken
    <3> QED
      BY <3>1 DEF Due
  <2> QED
    BY <1>2, <2>2, <2>3 DEF Known, ReopensFit
<1>3. Apart(i, j)
  BY <1>1, <1>2 DEF KnownApart, Uncrossed
<1> QED
  BY <1>1, <1>3, ApartKept

\* The book does not cross: an order comes to rest only when nothing it reaches is left.
LEMMA BookStaysUncrossed ==
    ASSUME RestartForm, ArrivalsFit, Uncrossed, [Next]_vars
    PROVE  Uncrossed'
<1> USE DEF RestartForm
<1> SUFFICES ASSUME NEW i \in OrderId, NEW j \in OrderId, open'[i] > 0, open'[j] > 0
             PROVE  Apart(i, j)'
  BY DEF Uncrossed
<1>1. ASSUME open[i] > 0, open[j] > 0 PROVE Apart(i, j)'
  <2>1. i \in Used /\ j \in Used
    BY <1>1 DEF WellFormed, CallsAreInOrder
  <2> QED
    BY <1>1, <2>1, ApartKept DEF Uncrossed
<1>2. CASE \A k \in OrderId : open'[k] > 0 => open[k] > 0
  BY <1>1, <1>2
<1>3. CASE MatchDone /\ left > 0 /\ Rests(taker)
  <2>1. open' = [open EXCEPT ![taker] = left] /\ req' = req
    BY <1>3 DEF MatchDone
  <2>2. IsLimit(taker) /\ taker \in Used
    BY <1>3 DEF Rests, MatchDone, WellFormed, CallsAreInOrder
  <2>3. ASSUME NEW k \in OrderId, open[k] > 0, k # taker
        PROVE  Apart(taker, k) /\ Apart(k, taker)
    <3>1. k \in Used
      BY <2>3 DEF WellFormed, CallsAreInOrder
    <3>2. req[k].price \in Int /\ req[taker].price \in Int
      BY <2>2, <3>1, UsedIsTicket DEF WellFormed
    <3>3. req[k].side \in Side /\ req[taker].side \in Side
      BY <2>2, <3>1, UsedIsTicket, OMSAssumption DEF WellFormed
    <3>4. CASE k \in Opposite(taker)
      <4>1. ~Reaches(taker, k)
        BY <1>3, <2>2, <3>4, NothingReaches
      <4> QED
        BY <2>2, <3>2, <3>4, <4>1 DEF Reaches, Apart, IsBuy, Opposite
    <3>5. CASE k \notin Opposite(taker)
      BY <2>3, <3>3, <3>5 DEF Opposite, Apart, IsBuy, Side
    <3> QED
      BY <3>4, <3>5
  <2>4. \A k \in OrderId : k # taker => open'[k] = open[k]
    BY <2>1 DEF WellFormed, TypeOK
  <2>5. Apart(i, j)
    <3>1. CASE i = taker /\ j = taker
      BY <3>1 DEF Apart
    <3>2. CASE i = taker /\ j # taker
      BY <2>3, <2>4, <3>2
    <3>3. CASE i # taker /\ j = taker
      BY <2>3, <2>4, <3>3
    <3>4. CASE i # taker /\ j # taker
      BY <2>4, <3>4 DEF Uncrossed
    <3> QED
      BY <3>1, <3>2, <3>3, <3>4
  <2> QED
    BY <2>1, <2>5 DEF Apart, IsBuy
<1>4. CASE UNCHANGED bookVars
  BY <1>2, <1>4
<1>5. CASE \/ place \/ StartLimit \/ CheckLimit \/ StartMarket \/ RecordTrade \/ Pay \/ PayRaises
           \/ BookBuyer \/ BookSeller \/ Advance \/ Finish
  <2>1. UNCHANGED bookVars
    BY <1>5 DEF place, PlaceInvalid, PlaceStop, PlaceNow, Register, StartLimit, CheckLimit, StartMarket,
                RecordTrade, Pay, PayRaises, BookBuyer, BookSeller, BookPosition, Advance, Finish
  <2> QED
    BY <1>4, <2>1
<1>6. CASE \/ ReleaseHold \/ ReserveRest \/ ReserveRaises \/ SaveResting \/ SavePlaced \/ SaveAndReturn
           \/ Quiescent \/ SetKillSwitch \/ (\E k \in OrderId : Activate(k)) \/ UNCHANGED vars
  <2>1. UNCHANGED bookVars
    BY <1>6 DEF ReleaseHold, ReserveRest, ReserveRaises, SaveResting, SavePlaced, SaveAndReturn, WriteRow,
                Quiescent, SetKillSwitch, Activate, vars
  <2> QED
    BY <1>4, <2>1
<1>7. ASSUME NEW m \in OrderId, MatchOne(m) PROVE \A k \in OrderId : open'[k] > 0 => open[k] > 0
  <2>1. PICK q : q = MatchQty(m)
    OBVIOUS
  <2>2. q \in Nat \ {0} /\ open[m] > 0 /\ open' = [open EXCEPT ![m] = open[m] - q]
    BY <1>7, <2>1, MatchingMoves
  <2> QED
    BY <2>2 DEF WellFormed, TypeOK
<1>8. ASSUME NEW k \in OrderId, cancel(k) PROVE \A n \in OrderId : open'[n] > 0 => open[n] > 0
  BY <1>8 DEF cancel, WellFormed, TypeOK
<1>9. MatchDone => UNCHANGED bookVars \/ (left > 0 /\ Rests(taker))
  BY DEF MatchDone
<1> QED
  BY <1>2, <1>3, <1>4, <1>5, <1>6, <1>7, <1>8, <1>9 DEF Next, Step

\* What a restart rebuilds was known to be apart.
LEMMA RestoringApart ==
    ASSUME WellFormed, RowsFit, KnownApart, Restore
    PROVE  Uncrossed' /\ KnownApart' /\ ReopensFit'
<1>1. /\ req' = [i \in OrderId |-> IF Row(i) THEN req[i] ELSE NoRequest]
      /\ open' = [i \in OrderId |-> IF Reopens(i) THEN Reopened(i) ELSE 0]
      /\ pc' = "idle" /\ fills' = <<>> /\ saved' = saved
  BY DEF Restore, EndCall, Goto
<1>2. \A i \in OrderId : Reopens(i) => Row(i)
  BY RowsAreRows DEF Reopens, Open
<1>3. \A i \in OrderId : saved[i].status = "none" \/ Row(i)
  BY RowsAreRows
<1>4. \A i \in OrderId : Reopens(i)' => Reopens(i)
  BY <1>1, <1>3 DEF Reopens, Open
<1>5. \A i \in OrderId : open'[i] > 0 => Reopens(i)
  BY <1>1
<1>6. ASSUME NEW i \in OrderId, NEW j \in OrderId, Reopens(i), Reopens(j)
      PROVE  Apart(i, j)'
  <2>1. Apart(i, j)
    BY <1>6 DEF KnownApart, Known
  <2>2. req'[i] = req[i] /\ req'[j] = req[j]
    BY <1>1, <1>2, <1>6
  <2> QED
    BY <2>1, <2>2 DEF Apart, IsBuy
<1>7. DOMAIN fills' = {} /\ ~Placing' /\ ~MakerTurn'
  BY <1>1, EmptyHasNoIndex DEF Placing, Sweeping, Recorded, MakerTurn
<1>8. \A i \in OrderId : Known(i)' => Reopens(i)
  BY <1>4, <1>5, <1>7 DEF Known
<1>9. Uncrossed' /\ KnownApart'
  BY <1>5, <1>6, <1>8 DEF Uncrossed, KnownApart
<1>10. ASSUME NEW i \in OrderId, Reopens(i) PROVE Due(i)' > 0
  <2>1. open'[i] > 0
    BY <1>1, <1>10 DEF Reopens, Reopened
  <2>2. open'[i] \in Nat
    BY RestoringIsWellFormed DEF WellFormed, TypeOK
  <2>3. Due(i)' = (open'[i] + 0) - 0
    BY <1>1, <1>7, NothingComes DEF Due, Taken
  <2> QED
    BY <2>1, <2>2, <2>3
<1> QED
  BY <1>4, <1>7, <1>9, <1>10 DEF ReopensFit

\* The book and the table never cross themselves.
CrossForm ==
    /\ RestartForm /\ OffersFit /\ OffersWhole /\ SweepFits /\ ArrivalsFit
    /\ SidesDiffer /\ HoldsTrack /\ OpenTurns /\ Uncrossed /\ KnownApart /\ ReopensFit

\* At first there is nothing to cross.
LEMMA CrossFormToStart == Init => CrossForm
<1> SUFFICES ASSUME Init PROVE CrossForm
  OBVIOUS
<1>1. /\ pc = "idle" /\ fills = <<>> /\ Used = {}
      /\ \A i \in OrderId : open[i] = 0 /\ hold[i] = NoHold /\ ~Reopens(i)
  BY DEF Init, Used, Reopens, NoRow, Open
<1>2. DOMAIN fills = {} /\ ~Placing /\ ~MakerTurn /\ ~Writing
  BY <1>1, EmptyHasNoIndex DEF Placing, Sweeping, Recorded, MakerTurn, Writing
<1>3. RestartForm
  BY RestartFormToStart
<1>4. OffersFit /\ OffersWhole /\ SweepFits /\ ArrivalsFit
  BY <1>1, <1>2 DEF OffersFit, OffersWhole, SweepFits, ArrivalsFit
<1>5. SidesDiffer /\ HoldsTrack /\ OpenTurns
  BY <1>1, <1>2 DEF SidesDiffer, HoldsTrack, Tracked, OpenTurns
<1>6. Uncrossed /\ KnownApart /\ ReopensFit
  BY <1>1, <1>2 DEF Uncrossed, KnownApart, Known, ReopensFit
<1> QED
  BY <1>3, <1>4, <1>5, <1>6 DEF CrossForm

\* Steps, restarts and crashes keep the book from crossing itself.
LEMMA CrossFormIsKept ==
    ASSUME WholeCents, CrossForm, [Next \/ Restart \/ Crash]_vars
    PROVE  CrossForm'
<1> USE DEF CrossForm
<1>1. RestartForm'
  BY RestartFormIsKept
<1>2. CASE [Next]_vars
  <2>1. OffersFit' /\ OffersWhole' /\ SweepFits' /\ ArrivalsFit'
    BY <1>2, OffersStayFit, OffersStayWhole, SweepStaysFit, ArrivalsStayFit DEF RestartForm
  <2>2. SidesDiffer' /\ HoldsTrack' /\ OpenTurns'
    BY <1>2, SidesStayDifferent, HoldsStayTracked, TurnsStayOpen DEF RestartForm
  <2>3. Uncrossed' /\ KnownApart' /\ ReopensFit'
    BY <1>2, BookStaysUncrossed, KnownStaysApart, ReopensStayFit
  <2> QED
    BY <1>1, <2>1, <2>2, <2>3
<1>3. CASE Restart \/ Crash
  <2>1. Restore
    BY <1>3 DEF Restart, Crash
  <2>2. pc' = "idle" /\ fills' = <<>>
    BY <2>1 DEF Restore, EndCall, Goto
  <2>3. DOMAIN fills' = {} /\ ~Writing'
    BY <2>2, EmptyHasNoIndex DEF Writing
  <2>4. \A i \in Used' : Offered(i)' => Offer(i)' = req'[i].qty
    BY <2>1, RestoringOffers DEF RestartForm
  <2>5. OffersWhole'
    BY <2>4 DEF OffersWhole
  <2>6. OffersFit'
    <3>1. WellFormed'
      BY <1>1 DEF RestartForm
    <3>2. \A i \in Used' : req'[i].qty \in Int
      BY <3>1, OffersNext
    <3> QED
      BY <2>4, <3>2 DEF OffersFit
  <2>7. SweepFits' /\ OpenTurns' /\ ArrivalsFit'
    BY <2>1, <2>3, RestoringArrivals DEF SweepFits, OpenTurns
  <2>8. SidesDiffer' /\ HoldsTrack'
    BY <2>1, RestoringStrays DEF RestartForm
  <2>9. Uncrossed' /\ KnownApart' /\ ReopensFit'
    BY <2>1, RestoringApart DEF RestartForm
  <2> QED
    BY <1>1, <2>5, <2>6, <2>7, <2>8, <2>9
<1> QED
  BY <1>2, <1>3

\* Wherever the process dies, no bid of the book that is rebuilt from the open rows reaches
\* an ask: the book is never crossed, also while an order sweeps it (oms.py, _restore with
\* book.restore; matching.py).
THEOREM RestoredBookIsUncrossed ==
    ASSUME WholeCents
    PROVE  SpecCrash => []RestoredBookUncrossed
<1>1. Init => CrossForm
  BY CrossFormToStart
<1>2. CrossForm /\ [Next \/ Restart \/ Crash]_vars => CrossForm'
  BY CrossFormIsKept
<1>3. CrossForm => RestoredBookUncrossed
  BY DEF CrossForm, Uncrossed, Apart, RestoredBookUncrossed
<1> QED
  BY <1>1, <1>2, <1>3, PTL DEF SpecCrash

-----------------------------------------------------------------------------
(* What a restart gives back, as long as no call was cut short before it. *)

\* The row of an order says what memory says.
RowMatches(i) ==
    saved[i] = IF i \in Used THEN [status |-> status[i], filled |-> filled[i]] ELSE NoRow

\* So do the rows of all orders that are not in flight; ids are given out without gaps.
RowsFollow ==
    /\ \A i \in OrderId \ InFlight : RowMatches(i)
    /\ pc = "triggers" => RowMatches(taker)
    /\ ~Writing => subject = 0
    /\ \A i \in OrderId : i < nextId => i \in Used

\* A pending order is among the stops, or is the one that has just been activated.
StopsFollow ==
    \A i \in Used : status[i] = "pending" => i \in pendingStops \/ (Placing /\ i = taker)

\* The last prices are those of the log, but for the trade whose maker has yet to be written.
TradeNoted == Recorded \/ MakerTurn
PricesFollow ==
    /\ TradeNoted => /\ Len(tape) > 0
                     /\ tape[Len(tape)].symbol = req[taker].symbol
                     /\ tape[Len(tape)].price = Fill.price
    /\ \A s \in Symbol : lastPrice[s] = LastTrade(s) \/ (TradeNoted /\ s = req[taker].symbol)

\* The largest of a set is the element none exceeds.
LEMMA MaxIsLast ==
    ASSUME NEW S, NEW n \in S, \A y \in S : y \in Int /\ y <= n
    PROVE  Max(S) = n
<1>1. \E x \in S : \A y \in S : x >= y
  BY SMT
<1>2. Max(S) \in S /\ \A y \in S : Max(S) >= y
  BY <1>1 DEF Max
<1> QED
  BY <1>2

\* The last trade of the tape is the last of its symbol.
LEMMA LastTradeIsLast ==
    ASSUME WellFormed, Len(tape) > 0
    PROVE  LastTrade(tape[Len(tape)].symbol) = tape[Len(tape)].price
<1>1. tape \in Seq(Trade)
  BY DEF WellFormed, TypeOK
<1>2. DOMAIN tape = 1 .. Len(tape) /\ Len(tape) \in Nat
  BY <1>1
<1> DEFINE S == {n \in DOMAIN tape : tape[n].symbol = tape[Len(tape)].symbol}
<1>3. Len(tape) \in S /\ \A y \in S : y \in Int /\ y <= Len(tape)
  BY <1>2
<1>4. LastTrade(tape[Len(tape)].symbol) = IF S = {} THEN 0 ELSE tape[Max(S)].price
  BY DEF LastTrade
<1> HIDE DEF S
<1>5. Max(S) = Len(tape)
  BY <1>3, MaxIsLast
<1> QED
  BY <1>3, <1>4, <1>5

\* A trade is news only for its own symbol.
LEMMA LastTradeElsewhere ==
    ASSUME WellFormed, RecordTrade, NEW s, s # req[taker].symbol
    PROVE  LastTrade(s)' = LastTrade(s)
<1>1. PICK e : tape' = Append(tape, e) /\ e.symbol = req[taker].symbol
  BY DEF RecordTrade
<1>2. tape \in Seq(Trade)
  BY DEF WellFormed, TypeOK
<1>3. tape \in Seq(Trade \cup {e}) /\ e \in Trade \cup {e}
  BY <1>2
<1>4. /\ DOMAIN tape = 1 .. Len(tape) /\ Len(tape) \in Nat
      /\ DOMAIN tape' = 1 .. Len(tape) + 1 /\ tape'[Len(tape) + 1] = e
      /\ \A n \in 1 .. Len(tape) : tape'[n] = tape[n]
  BY <1>1, <1>3
<1> DEFINE S == {n \in DOMAIN tape : tape[n].symbol = s}
           T == {n \in DOMAIN tape' : tape'[n].symbol = s}
<1>5. T = S
  <2>1. \A n \in DOMAIN tape' : n \in DOMAIN tape \/ n = Len(tape) + 1
    BY <1>4
  <2>2. \A n \in DOMAIN tape : n \in DOMAIN tape' /\ tape'[n] = tape[n]
    BY <1>4
  <2> QED
    BY <1>1, <1>4, <2>1, <2>2
<1>6. \A n \in S : tape'[n] = tape[n]
  BY <1>4
<1>7. LastTrade(s) = IF S = {} THEN 0 ELSE tape[Max(S)].price
  BY DEF LastTrade
<1>8. LastTrade(s)' = IF T = {} THEN 0 ELSE tape'[Max(T)].price
  BY DEF LastTrade
<1>9. S # {} => Max(S) \in S
  <2>1. \A y \in S : y \in Int
    BY <1>4
  <2>2. IsFiniteSet(S)
    <3>1. IsFiniteSet(DOMAIN tape)
      BY <1>4, FS_Interval
    <3> QED
      BY <3>1, FS_Subset
  <2> HIDE DEF S
  <2> SUFFICES ASSUME S # {} PROVE Max(S) \in S
    OBVIOUS
  <2>3. \E x \in S : \A y \in S : x >= y
    BY <2>1, <2>2, LargestExists
  <2> QED
    BY <2>3 DEF Max
<1> HIDE DEF S, T
<1> QED
  BY <1>5, <1>6, <1>7, <1>8, <1>9

\* A row matches its order as long as neither changes.
LEMMA RowKept ==
    ASSUME NEW i, RowMatches(i), saved'[i] = saved[i], status'[i] = status[i],
           filled'[i] = filled[i], i \in Used' <=> i \in Used
    PROVE  RowMatches(i)'
BY DEF RowMatches

\* The rows of the orders that are not in flight stay as they are when the same orders, or
\* more, are in flight.
LEMMA RowsKept ==
    ASSUME RowsFollow, UNCHANGED <<req, saved, nextId>>, pc' # "triggers",
           ~Writing' => subject' = 0,
           \A i \in OrderId : i \in InFlight => i \in InFlight',
           \A i \in OrderId \ InFlight' : status'[i] = status[i] /\ filled'[i] = filled[i]
    PROVE  RowsFollow'
<1>1. Used' = Used
  BY DEF Used
<1>2. ASSUME NEW i \in OrderId \ InFlight' PROVE RowMatches(i)'
  BY <1>1, <1>2, RowKept DEF RowsFollow
<1> QED
  BY <1>1, <1>2 DEF RowsFollow

\* What is in flight between calls, and once a fill is taken up.
LEMMA MakersAreInFlight ==
    ASSUME WellFormed, fills # <<>>
    PROVE  Fill.maker \in InFlight
<1>1. fills \in Seq(FillRecord)
  BY DEF WellFormed, TypeOK
<1>2. Fill = fills[1] /\ 1 \in DOMAIN fills
  BY <1>1, TailShifts DEF Fill
<1> QED
  BY <1>2 DEF InFlight

\* With no order at hand and no fill, nothing is in flight.
LEMMA NobodyIsInFlight ==
    ASSUME fills = <<>>, taker = 0, subject = 0
    PROVE  \A i \in OrderId : i \notin InFlight
<1>1. DOMAIN fills = {}
  BY EmptyHasNoIndex
<1> QED
  BY <1>1 DEF InFlight, OrderId

\* Every step keeps the rows of the orders that are not in flight up to date.
LEMMA RowsStayFollowed ==
    ASSUME RestartForm, RowsFollow, [Next]_vars, ~PayRaises, ~ReserveRaises
    PROVE  RowsFollow'
<1> USE DEF RestartForm
<1>0. DOMAIN req = OrderId /\ DOMAIN status = OrderId /\ DOMAIN filled = OrderId /\ DOMAIN saved = OrderId
      /\ 0 \notin OrderId
  BY DEF WellFormed, TypeOK, OrderId
<1>1. ASSUME NEW r \in Request, PlaceInvalid(r) \/ PlaceStop(r) \/ PlaceNow(r)
      PROVE  RowsFollow'
  <2>1. PICK n : n = nextId
    OBVIOUS
  <2>2. /\ pc = "idle" /\ n \in OrderId /\ req' = [req EXCEPT ![n] = r] /\ nextId' = n + 1
        /\ UNCHANGED <<filled, saved, fills>>
        /\ \A i \in OrderId : i # n => status'[i] = status[i]
        /\ (pc' = "save" /\ subject' = n) \/ (pc' = "start" /\ subject' = subject)
        /\ n \in {taker', subject'}
    <3>1. CASE PlaceInvalid(r)
      BY <1>0, <2>1, <3>1 DEF PlaceInvalid, Register, Conclude, Goto
    <3>2. CASE PlaceStop(r)
      BY <1>0, <2>1, <3>2 DEF PlaceStop, Register, Conclude, Goto
    <3>3. CASE PlaceNow(r)
      BY <1>0, <2>1, <3>3 DEF PlaceNow, Register, Goto
    <3> QED
      BY <1>1, <3>1, <3>2, <3>3
  <2>3. taker = 0 /\ subject = 0 /\ fills = <<>>
    BY <2>2 DEF RowsFollow, Writing, WellFormed, CallsAreInOrder, FillsAreFresh
  <2>4. \A i \in OrderId : i \notin InFlight
    BY <2>3, NobodyIsInFlight
  <2>5. \A i \in OrderId : i # n => /\ i \in Used' <=> i \in Used
                                    /\ status'[i] = status[i]
    BY <1>0, <2>2 DEF Used
  <2>6. n \in InFlight'
    BY <2>2 DEF InFlight
  <2>7. ASSUME NEW i \in OrderId \ InFlight' PROVE RowMatches(i)'
    BY <2>2, <2>4, <2>5, <2>6, RowKept DEF RowsFollow
  <2>8. n \in Used'
    <3>1. r # NoRequest
      BY OMSAssumption DEF NoRequest
    <3> QED
      BY <1>0, <2>2, <3>1 DEF Used
  <2>9. \A i \in OrderId : i < n + 1 => i \in Used'
    <3> SUFFICES ASSUME NEW i \in OrderId, i < n + 1, i # n PROVE i \in Used'
      BY <2>8
    <3>1. i < n
      BY <2>2 DEF OrderId
    <3> QED
      BY <2>1, <2>5, <3>1 DEF RowsFollow
  <2> QED
    BY <2>2, <2>3, <2>7, <2>9 DEF RowsFollow, Writing
<1>2. ASSUME NEW i \in OrderId, cancel(i) PROVE RowsFollow'
  <2>1. /\ pc = "idle" /\ UNCHANGED <<req, saved, nextId, filled, fills, taker>>
        /\ status' = [status EXCEPT ![i] = "canceled"] /\ subject' = i
        /\ pc' \in {"release", "save"}
    BY <1>2 DEF cancel, Conclude, Goto
  <2>2. taker = 0 /\ subject = 0 /\ fills = <<>>
    BY <2>1 DEF RowsFollow, Writing, WellFormed, CallsAreInOrder, FillsAreFresh
  <2>3. \A k \in OrderId : k \notin InFlight
    BY <2>2, NobodyIsInFlight
  <2>4. i \in InFlight'
    BY <2>1 DEF InFlight
  <2> QED
    BY <1>0, <2>1, <2>3, <2>4, RowsKept DEF Writing
<1>3. CASE StartLimit \/ CheckLimit \/ StartMarket
  <2>1. /\ pc \in {"start", "risk"} /\ UNCHANGED <<req, saved, nextId, filled, fills, taker>>
        /\ pc' \in {"risk", "match", "release", "save"}
        /\ \/ UNCHANGED <<status, subject>>
           \/ pc' \in {"release", "save"} /\ subject' = taker /\ \E st : status' = [status EXCEPT ![taker] = st]
    BY <1>3 DEF StartLimit, CheckLimit, StartMarket, Conclude, ThenWrite, Sweep, Goto
  <2>2. subject = 0
    BY <2>1 DEF RowsFollow, Writing
  <2>3. \A i \in OrderId : i \in InFlight => i \in InFlight'
    BY <1>0, <2>1, <2>2 DEF InFlight
  <2>4. \A i \in OrderId \ InFlight' : status'[i] = status[i]
    BY <1>0, <2>1 DEF InFlight
  <2> QED
    BY <2>1, <2>2, <2>3, <2>4, RowsKept DEF Writing
<1>4. ASSUME NEW m \in OrderId, MatchOne(m) PROVE RowsFollow'
  <2>1. /\ pc = "match" /\ UNCHANGED <<req, status, filled, nextId, saved, pc, taker, subject>>
        /\ DOMAIN fills = 1 .. Len(fills) /\ Len(fills) \in Nat
        /\ DOMAIN fills' = 1 .. Len(fills) + 1
        /\ \A n \in 1 .. Len(fills) : fills'[n] = fills[n]
    BY <1>4, MatchingMoves
  <2>2. \A i \in OrderId : i \in InFlight => i \in InFlight'
    <3>1. \A n \in DOMAIN fills : n \in DOMAIN fills' /\ fills'[n] = fills[n]
      BY <2>1
    <3> QED
      BY <2>1, <3>1 DEF InFlight
  <2> QED
    BY <2>1, <2>2, RowsKept DEF RowsFollow, Writing
<1>5. CASE MatchDone \/ RecordTrade \/ Pay \/ BookBuyer \/ BookSeller
  <2>1. /\ UNCHANGED <<req, status, filled, nextId, saved, taker, subject, fills>>
        /\ pc \notin {"release", "reserve", "save"}
        /\ pc' \notin {"release", "reserve", "save", "triggers"}
    BY <1>5 DEF MatchDone, RecordTrade, Pay, BookBuyer, BookSeller, BookPosition, Goto
  <2>2. InFlight' = InFlight
    BY <2>1 DEF InFlight
  <2> QED
    BY <2>1, <2>2, RowsKept DEF RowsFollow, Writing
<1>6. CASE Advance
  <2>1. /\ pc = "advance" /\ UNCHANGED <<req, nextId, saved, taker, fills>>
        /\ subject' = Fill.maker /\ pc' \in {"release", "save"}
        /\ \E st : status' = [status EXCEPT ![Fill.maker] = st]
        /\ \E k : filled' = [filled EXCEPT ![Fill.maker] = k]
    BY <1>6 DEF Advance, Conclude, Goto
  <2>2. subject = 0 /\ fills # <<>>
    BY <2>1 DEF RowsFollow, Writing, WellFormed, CallsAreInOrder
  <2>3. \A i \in OrderId : i \in InFlight => i \in InFlight'
    BY <1>0, <2>1, <2>2 DEF InFlight
  <2>4. \A i \in OrderId \ InFlight' : status'[i] = status[i] /\ filled'[i] = filled[i]
    BY <1>0, <2>1 DEF InFlight
  <2> QED
    BY <2>1, <2>2, <2>3, <2>4, RowsKept DEF Writing
<1>7. CASE Finish
  <2>1. /\ pc = "settle" /\ UNCHANGED <<req, nextId, saved, taker, fills>>
        /\ subject' = taker /\ pc' \in {"release", "save"}
        /\ \E st : status' = [status EXCEPT ![taker] = st]
        /\ \E k : filled' = [filled EXCEPT ![taker] = k]
    BY <1>7 DEF Finish, Conclude, ThenWrite, Goto
  <2>2. subject = 0
    BY <2>1 DEF RowsFollow, Writing
  <2>3. \A i \in OrderId : i \in InFlight => i \in InFlight'
    BY <1>0, <2>1, <2>2 DEF InFlight
  <2>4. \A i \in OrderId \ InFlight' : status'[i] = status[i] /\ filled'[i] = filled[i]
    BY <1>0, <2>1 DEF InFlight
  <2> QED
    BY <2>1, <2>2, <2>3, <2>4, RowsKept DEF Writing
<1>8. CASE ReleaseHold \/ ReserveRest
  <2>1. /\ UNCHANGED <<req, status, filled, nextId, saved, taker, subject, fills>>
        /\ pc' \in {"reserve", "save"}
    BY <1>8 DEF ReleaseHold, ReserveRest, Reserve, Goto
  <2>2. InFlight' = InFlight
    BY <2>1 DEF InFlight
  <2> QED
    BY <2>1, <2>2, RowsKept DEF RowsFollow, Writing
<1>9. CASE SaveResting \/ SavePlaced \/ SaveAndReturn
  <2>1. PICK n : n = subject
    OBVIOUS
  <2>2. /\ pc = "save" /\ UNCHANGED <<req, status, filled, nextId>>
        /\ saved' = [saved EXCEPT ![n] = [status |-> status[n], filled |-> filled[n]]]
    BY <1>9, <2>1 DEF SaveResting, SavePlaced, SaveAndReturn, WriteRow
  <2>3. n \in Used /\ n \in OrderId
    BY <2>1, <2>2 DEF WellFormed, CallsAreInOrder, Used
  <2>4. Used' = Used
    BY <2>2 DEF Used
  <2>5. RowMatches(n)'
    BY <1>0, <2>2, <2>3, <2>4 DEF RowMatches
  <2>6. ASSUME NEW i \in OrderId, i # n, i \notin InFlight PROVE RowMatches(i)'
    BY <1>0, <2>2, <2>4, <2>6, RowKept DEF RowsFollow
  <2>7. CASE SaveResting
    <3>1. taker # 0 /\ n # taker /\ pc' = "settle" /\ subject' = 0 /\ taker' = taker
          /\ fills' = Tail(fills)
      BY <2>1, <2>7 DEF SaveResting, Goto
    <3>2. fills # <<>> /\ n = Fill.maker
      BY <2>1, <2>2, <3>1 DEF WellFormed, CallsAreInOrder, CallFits, MakerTurn
    <3>3. fills \in Seq(FillRecord)
      BY DEF WellFormed, TypeOK
    <3>4. /\ DOMAIN fills = 1 .. Len(fills) /\ Len(fills) \in Nat /\ DOMAIN Tail(fills) = 1 .. Len(fills) - 1
          /\ \A k \in 2 .. Len(fills) : Tail(fills)[k - 1] = fills[k]
      BY <3>2, <3>3
    <3>5. fills[1].maker = n
      BY <3>2, <3>3, TailShifts DEF Fill
    <3>6. ASSUME NEW i \in OrderId \ InFlight', i # n PROVE i \notin InFlight
      <4>1. i # taker /\ i # 0
        BY <1>0, <3>1, <3>6 DEF InFlight
      <4>2. ASSUME NEW k \in DOMAIN fills PROVE fills[k].maker # i
        <5>1. CASE k = 1
          BY <3>5, <3>6, <5>1
        <5>2. CASE k # 1
          <6>1. k \in 2 .. Len(fills) /\ k - 1 \in DOMAIN fills'
            BY <3>1, <3>4, <5>2
          <6>2. fills'[k - 1] = fills[k]
            BY <3>1, <3>4, <6>1
          <6> QED
            BY <3>6, <6>1, <6>2 DEF InFlight
        <5> QED
          BY <5>1, <5>2
      <4> QED
        BY <2>1, <3>6, <4>1, <4>2 DEF InFlight
    <3>7. \A i \in OrderId \ InFlight' : RowMatches(i)'
      BY <2>5, <2>6, <3>6
    <3> QED
      BY <2>2, <2>4, <3>1, <3>7 DEF RowsFollow
  <2>8. CASE SavePlaced
    <3>1. n = taker /\ pc' = "triggers" /\ subject' = 0 /\ taker' = taker /\ fills' = fills
      BY <2>1, <2>8 DEF SavePlaced, Goto
    <3>2. fills = <<>>
      BY <2>1, <2>2, <3>1 DEF FillsAreFresh
    <3>3. DOMAIN fills = {}
      BY <3>2, EmptyHasNoIndex
    <3>4. \A i \in OrderId : RowMatches(i)'
      BY <1>0, <2>1, <2>5, <2>6, <3>1, <3>3 DEF InFlight
    <3>5. RowMatches(taker)'
      <4>1. taker' = n
        BY <3>1
      <4>2. saved'[n] = IF n \in Used' THEN [status |-> status'[n], filled |-> filled'[n]] ELSE NoRow
        BY <2>5 DEF RowMatches
      <4> QED
        BY <4>1, <4>2 DEF RowMatches
    <3> QED
      BY <2>2, <2>4, <3>1, <3>4, <3>5 DEF RowsFollow
  <2>9. CASE SaveAndReturn
    <3>1. taker = 0 /\ pc' = "idle" /\ subject' = 0
      BY <2>9 DEF SaveAndReturn, EndCall, Goto
    <3>2. fills = <<>>
      BY <2>2, <3>1 DEF CallFits, Placing, Sweeping, Recorded, MakerTurn
    <3>3. DOMAIN fills = {}
      BY <3>2, EmptyHasNoIndex
    <3>4. \A i \in OrderId : RowMatches(i)'
      BY <1>0, <2>1, <2>5, <2>6, <3>1, <3>3 DEF InFlight
    <3> QED
      BY <2>2, <2>4, <3>1, <3>4 DEF RowsFollow
  <2> QED
    BY <1>9, <2>7, <2>8, <2>9
<1>10. ASSUME NEW i \in OrderId, Activate(i) PROVE RowsFollow'
  <2>1. /\ pc = "triggers" /\ pc' = "start" /\ UNCHANGED <<req, status, filled, nextId, saved, subject, fills>>
    BY <1>10 DEF Activate, Goto
  <2>2. fills = <<>> /\ subject = 0 /\ RowMatches(taker)
    BY <2>1 DEF RowsFollow, Writing, FillsAreFresh
  <2>3. DOMAIN fills = {}
    BY <2>2, EmptyHasNoIndex
  <2>4. \A k \in OrderId : RowMatches(k)
    BY <1>0, <2>2, <2>3 DEF RowsFollow, InFlight
  <2>5. Used' = Used
    BY <2>1 DEF Used
  <2>6. \A k \in OrderId : RowMatches(k)'
    BY <2>1, <2>4, <2>5, RowKept
  <2> QED
    BY <2>1, <2>2, <2>5, <2>6 DEF RowsFollow, Writing
<1>11. CASE Quiescent
  <2>1. /\ pc = "triggers" /\ pc' = "idle" /\ UNCHANGED <<req, status, filled, nextId, saved>> /\ subject' = 0
    BY <1>11 DEF Quiescent, EndCall, Goto
  <2>2. fills = <<>> /\ subject = 0 /\ RowMatches(taker)
    BY <2>1 DEF RowsFollow, Writing, FillsAreFresh
  <2>3. DOMAIN fills = {}
    BY <2>2, EmptyHasNoIndex
  <2>4. \A k \in OrderId : RowMatches(k)
    BY <1>0, <2>2, <2>3 DEF RowsFollow, InFlight
  <2>5. Used' = Used
    BY <2>1 DEF Used
  <2>6. \A k \in OrderId : RowMatches(k)'
    BY <2>1, <2>4, <2>5, RowKept
  <2> QED
    BY <2>1, <2>5, <2>6 DEF RowsFollow
<1>12. CASE SetKillSwitch \/ UNCHANGED vars
  <2>1. UNCHANGED <<req, status, filled, nextId, saved, taker, subject, fills, pc>>
    BY <1>12 DEF SetKillSwitch, vars
  <2>2. Used' = Used /\ InFlight' = InFlight
    BY <2>1 DEF Used, InFlight
  <2>3. \A k \in OrderId : RowMatches(k) => RowMatches(k)'
    BY <2>1, <2>2, RowKept
  <2>4. pc = "triggers" => taker \in OrderId
    BY DEF WellFormed, CallsAreInOrder, Used
  <2> QED
    BY <2>1, <2>2, <2>3, <2>4 DEF RowsFollow, Writing
<1> QED
  BY <1>1, <1>2, <1>3, <1>4, <1>5, <1>6, <1>7, <1>8, <1>9, <1>10, <1>11, <1>12 DEF Next, place, Step

\* A pending order stays with the stops, or with the call that runs it.
LEMMA StopsKept ==
    ASSUME StopsFollow, UNCHANGED <<req, pendingStops>>,
           \A i \in Used : status'[i] = "pending" => status[i] = "pending",
           Placing => (Placing' /\ taker' = taker) \/ status'[taker] # "pending"
    PROVE  StopsFollow'
<1>1. Used' = Used
  BY DEF Used
<1> QED
  BY <1>1 DEF StopsFollow

\* Every step keeps the pending orders where they are looked for.
LEMMA StopsStayFollowed ==
    ASSUME RestartForm, StopsFollow, [Next]_vars, ~PayRaises, ~ReserveRaises
    PROVE  StopsFollow'
<1> USE DEF RestartForm
<1>0. /\ DOMAIN req = OrderId /\ DOMAIN status = OrderId /\ 0 \notin OrderId
      /\ Used \subseteq OrderId
  BY DEF WellFormed, TypeOK, OrderId, Used
<1>1. ASSUME NEW r \in Request, PlaceInvalid(r) \/ PlaceStop(r) \/ PlaceNow(r)
      PROVE  StopsFollow'
  <2>1. PICK n : n = nextId
    OBVIOUS
  <2>2. /\ pc = "idle" /\ n \in OrderId /\ req' = [req EXCEPT ![n] = r]
        /\ \A i \in OrderId : i # n => status'[i] = status[i]
        /\ pendingStops \subseteq pendingStops'
        /\ status'[n] = "pending" => n \in pendingStops'
    <3>1. CASE PlaceInvalid(r)
      BY <1>0, <2>1, <3>1 DEF PlaceInvalid, Register, Conclude
    <3>2. CASE PlaceStop(r)
      BY <1>0, <2>1, <3>2 DEF PlaceStop, Register, Conclude
    <3>3. CASE PlaceNow(r)
      BY <1>0, <2>1, <3>3 DEF PlaceNow, Register
    <3> QED
      BY <1>1, <3>1, <3>2, <3>3
  <2>3. ~Placing
    BY <2>2 DEF Placing, Sweeping, Recorded, MakerTurn
  <2>4. \A i \in Used' : i # n => i \in Used
    BY <1>0, <2>2 DEF Used
  <2>5. Used' \subseteq OrderId
    BY DEF Used
  <2> QED
    BY <2>2, <2>3, <2>4, <2>5 DEF StopsFollow
<1>2. ASSUME NEW i \in OrderId, cancel(i) PROVE StopsFollow'
  <2>1. /\ pc = "idle" /\ UNCHANGED <<req, pendingStops>>
        /\ status' = [status EXCEPT ![i] = "canceled"]
    BY <1>2 DEF cancel, Conclude
  <2>2. ~Placing
    BY <2>1 DEF Placing, Sweeping, Recorded, MakerTurn
  <2> QED
    BY <1>0, <2>1, <2>2, StopsKept
<1>3. CASE StartLimit \/ CheckLimit \/ StartMarket
  <2>1. /\ pc \in {"start", "risk"} /\ UNCHANGED <<req, pendingStops, taker>>
        /\ \/ pc' \in {"risk", "match"} /\ UNCHANGED status
           \/ \E st \in {"rejected", "canceled"} : status' = [status EXCEPT ![taker] = st]
    BY <1>3 DEF StartLimit, CheckLimit, StartMarket, Conclude, ThenWrite, Sweep, Goto
  <2>2. CASE pc' \in {"risk", "match"} /\ UNCHANGED status
    BY <2>1, <2>2, StopsKept DEF Placing, Sweeping
  <2>3. ASSUME NEW st \in {"rejected", "canceled"}, status' = [status EXCEPT ![taker] = st]
        PROVE  StopsFollow'
    <3>1. taker \in Used
      BY <2>1 DEF WellFormed, CallsAreInOrder
    <3>2. status'[taker] = st /\ \A i \in OrderId : status'[i] = status[i] \/ status'[i] = st
      BY <1>0, <2>3, <3>1
    <3> QED
      BY <1>0, <2>1, <3>2, StopsKept
  <2> QED
    BY <2>1, <2>2, <2>3
<1>4. CASE (\E m \in OrderId : MatchOne(m)) \/ MatchDone \/ RecordTrade \/ Pay \/ BookBuyer \/ BookSeller
  <2>1. /\ UNCHANGED <<req, pendingStops, status, taker>>
        /\ pc' \in {"match", "settle", "pay", "book buy", "book sell", "advance"}
    BY <1>4 DEF MatchOne, MatchDone, RecordTrade, Pay, BookBuyer, BookSeller, BookPosition, Goto
  <2> QED
    BY <2>1, StopsKept DEF Placing, Sweeping, Recorded
<1>5. CASE Advance
  <2>1. /\ pc = "advance" /\ UNCHANGED <<req, pendingStops, taker, fills>>
        /\ subject' = Fill.maker /\ pc' \in {"release", "save"}
        /\ \E st \in {"filled", "partial"} : status' = [status EXCEPT ![Fill.maker] = st]
    BY <1>5 DEF Advance, Conclude, Goto
  <2>2. taker # 0 /\ fills # <<>>
    BY <2>1 DEF WellFormed, CallsAreInOrder
  <2>3. Fill.maker # taker
    <3>1. Fill = fills[1] /\ 1 \in DOMAIN fills
      BY <2>2, HeadIsComing
    <3> QED
      BY <3>1 DEF FillsAreFresh
  <2>4. MakerTurn'
    BY <2>1, <2>2, <2>3 DEF MakerTurn
  <2> QED
    BY <1>0, <2>1, <2>4, StopsKept DEF Placing, Sweeping
<1>6. CASE Finish
  <2>1. /\ pc = "settle" /\ UNCHANGED <<req, pendingStops, taker>>
        /\ \E st \in {"filled", "canceled", "partial", "new"} : status' = [status EXCEPT ![taker] = st]
    BY <1>6 DEF Finish, Conclude
  <2>2. taker \in Used
    BY <2>1 DEF WellFormed, CallsAreInOrder
  <2>3. PICK st \in {"filled", "canceled", "partial", "new"} : status' = [status EXCEPT ![taker] = st]
    BY <2>1
  <2>4. status'[taker] = st /\ \A i \in OrderId : status'[i] = status[i] \/ status'[i] = st
    BY <1>0, <2>2, <2>3
  <2> QED
    BY <1>0, <2>1, <2>4, StopsKept
<1>7. CASE ReleaseHold \/ ReserveRest
  <2>1. /\ UNCHANGED <<req, status, pendingStops, taker, subject>>
        /\ pc \in {"release", "reserve"} /\ pc' \in {"reserve", "save"}
    BY <1>7 DEF ReleaseHold, ReserveRest, Reserve, Goto
  <2>2. Placing => Placing'
    BY <2>1 DEF Placing, Sweeping, Recorded, MakerTurn
  <2> QED
    BY <2>1, <2>2, StopsKept
<1>8. CASE SaveResting
  <2>1. /\ UNCHANGED <<req, status, pendingStops, taker>> /\ pc' = "settle"
    BY <1>8 DEF SaveResting, WriteRow, Goto
  <2> QED
    BY <2>1, StopsKept DEF Placing, Sweeping
<1>9. CASE SavePlaced \/ SaveAndReturn \/ Quiescent
  <2>1. /\ UNCHANGED <<req, status, pendingStops>> /\ ~Placing
    BY <1>9 DEF SavePlaced, SaveAndReturn, WriteRow, Quiescent, Placing, Sweeping,
                Recorded, MakerTurn
  <2> QED
    BY <2>1, StopsKept
<1>10. ASSUME NEW i \in OrderId, Activate(i) PROVE StopsFollow'
  <2>1. /\ pc = "triggers" /\ pc' = "start" /\ UNCHANGED <<req, status>>
        /\ pendingStops' = pendingStops \ {i} /\ taker' = i
    BY <1>10 DEF Activate, Goto
  <2>2. ~Placing /\ Placing' /\ Used' = Used
    BY <2>1 DEF Placing, Sweeping, Recorded, MakerTurn, Used
  <2> QED
    BY <2>1, <2>2 DEF StopsFollow
<1>11. CASE SetKillSwitch \/ UNCHANGED vars
  <2>1. UNCHANGED <<req, status, pendingStops, taker, subject, pc>>
    BY <1>11 DEF SetKillSwitch, vars
  <2>2. Placing' <=> Placing
    BY <2>1 DEF Placing, Sweeping, Recorded, MakerTurn
  <2> QED
    BY <2>1, <2>2, StopsKept
<1> QED
  BY <1>1, <1>2, <1>3, <1>4, <1>5, <1>6, <1>7, <1>8, <1>9, <1>10, <1>11 DEF Next, place, Step

\* Every step keeps the last prices the tape's, but for the trade in hand.
LEMMA PricesStayFollowed ==
    ASSUME RestartForm, PricesFollow, [Next]_vars, ~PayRaises, ~ReserveRaises
    PROVE  PricesFollow'
<1> USE DEF RestartForm
<1>0. UNCHANGED tape => \A s : LastTrade(s)' = LastTrade(s)
  BY DEF LastTrade
<1>1. ASSUME UNCHANGED <<tape, lastPrice, fills, req, taker>>, TradeNoted' <=> TradeNoted
      PROVE  PricesFollow'
  BY <1>0, <1>1 DEF PricesFollow, Fill
<1>2. ASSUME UNCHANGED <<tape, lastPrice>>, ~TradeNoted, ~TradeNoted' PROVE PricesFollow'
  BY <1>0, <1>2 DEF PricesFollow
<1>3. CASE place \/ (\E i \in OrderId : cancel(i))
  <2>1. /\ pc = "idle" /\ UNCHANGED <<tape, lastPrice>> /\ pc' \in {"start", "release", "save"}
        /\ \/ taker' = taker \/ taker' = subject' \/ pc' = "start"
    BY <1>3 DEF place, PlaceInvalid, PlaceStop, PlaceNow, Register, cancel,
                Conclude, Goto
  <2>2. taker = 0
    BY <2>1 DEF WellFormed, CallsAreInOrder
  <2> QED
    BY <1>2, <2>1, <2>2 DEF TradeNoted, Recorded, MakerTurn
<1>4. CASE StartLimit \/ CheckLimit \/ StartMarket \/ Finish
  <2>1. /\ pc \in {"start", "risk", "settle"} /\ UNCHANGED <<tape, lastPrice, taker>>
        /\ pc' \in {"risk", "match", "release", "save"}
        /\ pc' \in {"release", "save"} => subject' = taker
    BY <1>4 DEF StartLimit, CheckLimit, StartMarket, Finish, Conclude, ThenWrite, Sweep, Goto
  <2> QED
    BY <1>2, <2>1 DEF TradeNoted, Recorded, MakerTurn
<1>5. CASE (\E m \in OrderId : MatchOne(m)) \/ MatchDone \/ Quiescent \/ (\E i \in OrderId : Activate(i))
  <2>1. /\ pc \in {"match", "triggers"} /\ UNCHANGED <<tape, lastPrice>>
        /\ pc' \in {"match", "settle", "idle", "start"}
    BY <1>5 DEF MatchOne, MatchDone, Quiescent, Activate, EndCall, Goto
  <2> QED
    BY <1>2, <2>1 DEF TradeNoted, Recorded, MakerTurn
<1>6. CASE RecordTrade
  <2>1. PICK e : /\ tape' = Append(tape, e) /\ e.symbol = req[taker].symbol /\ e.price = Fill.price
                 /\ pc = "settle" /\ pc' = "pay" /\ UNCHANGED <<req, taker, fills, lastPrice>>
    BY <1>6 DEF RecordTrade, Goto
  <2>2. tape \in Seq(Trade)
    BY DEF WellFormed, TypeOK
  <2>3. tape \in Seq(Trade \cup {e}) /\ e \in Trade \cup {e}
    BY <2>2
  <2>4. Len(tape') = Len(tape) + 1 /\ Len(tape) \in Nat /\ tape'[Len(tape) + 1] = e
    BY <2>1, <2>3
  <2>5. TradeNoted' /\ ~TradeNoted /\ Fill' = Fill
    BY <2>1 DEF TradeNoted, Recorded, MakerTurn, Fill
  <2>6. \A s \in Symbol : s # req[taker].symbol => LastTrade(s)' = LastTrade(s)
    BY <1>6, LastTradeElsewhere
  <2>7. Len(tape') > 0 /\ tape'[Len(tape')].symbol = req'[taker'].symbol /\ tape'[Len(tape')].price = Fill'.price
    BY <2>1, <2>4, <2>5
  <2> QED
    BY <2>1, <2>5, <2>6, <2>7 DEF PricesFollow
<1>7. CASE Pay \/ BookBuyer \/ BookSeller \/ ReleaseHold \/ ReserveRest
  <2>1. /\ UNCHANGED <<tape, lastPrice, fills, req, taker, subject>>
        /\ \/ pc \in {"pay", "book buy", "book sell"} /\ pc' \in {"book buy", "book sell", "advance"}
           \/ pc \in {"release", "reserve"} /\ pc' \in {"reserve", "save"}
    BY <1>7 DEF Pay, BookBuyer, BookSeller, BookPosition, ReleaseHold, ReserveRest, Reserve, Goto
  <2> QED
    BY <1>1, <2>1 DEF TradeNoted, Recorded, MakerTurn
<1>8. CASE Advance
  <2>1. /\ pc = "advance" /\ UNCHANGED <<tape, lastPrice, req, taker, fills>>
        /\ subject' = Fill.maker /\ pc' \in {"release", "save"}
    BY <1>8 DEF Advance, Conclude, Goto
  <2>2. taker # 0 /\ fills # <<>>
    BY <2>1 DEF WellFormed, CallsAreInOrder
  <2>3. Fill.maker # taker
    <3>1. Fill = fills[1] /\ 1 \in DOMAIN fills
      BY <2>2, HeadIsComing
    <3> QED
      BY <3>1 DEF FillsAreFresh
  <2> QED
    BY <1>1, <2>1, <2>2, <2>3 DEF TradeNoted, Recorded, MakerTurn
<1>9. CASE SaveResting
  <2>1. /\ pc = "save" /\ taker # 0 /\ subject # taker /\ pc' = "settle" /\ UNCHANGED <<tape, req, taker>>
        /\ lastPrice' = [lastPrice EXCEPT ![req[taker].symbol] = Fill.price]
    BY <1>9 DEF SaveResting, WriteRow, Goto
  <2>2. TradeNoted /\ ~TradeNoted'
    BY <2>1 DEF TradeNoted, Recorded, MakerTurn
  <2>3. /\ Len(tape) > 0 /\ tape[Len(tape)].symbol = req[taker].symbol
        /\ tape[Len(tape)].price = Fill.price
    BY <2>2 DEF PricesFollow
  <2>4. LastTrade(req[taker].symbol) = Fill.price
    BY <2>3, LastTradeIsLast
  <2>5. \A s \in Symbol : lastPrice'[s] = IF s = req[taker].symbol THEN Fill.price ELSE lastPrice[s]
    BY <2>1 DEF WellFormed, TypeOK
  <2>6. \A s \in Symbol : lastPrice'[s] = LastTrade(s)
    BY <2>4, <2>5 DEF PricesFollow
  <2> QED
    BY <1>0, <2>1, <2>2, <2>6 DEF PricesFollow
<1>10. CASE SavePlaced \/ SaveAndReturn
  <2>1. /\ UNCHANGED <<tape, lastPrice>> /\ (taker = 0 \/ subject = taker)
        /\ pc = "save" /\ pc' \in {"triggers", "idle"}
    BY <1>10 DEF SavePlaced, SaveAndReturn, WriteRow, EndCall, Goto
  <2> QED
    BY <1>2, <2>1 DEF TradeNoted, Recorded, MakerTurn
<1>11. CASE SetKillSwitch \/ UNCHANGED vars
  BY <1>1, <1>11 DEF SetKillSwitch, vars, TradeNoted, Recorded, MakerTurn
<1> QED
  BY <1>3, <1>4, <1>5, <1>6, <1>7, <1>8, <1>9, <1>10, <1>11 DEF Next, Step

\* The order being placed is the newest ticket, unless it is a stop that has been activated.
NewestIsPlaced == Placing /\ req[taker].order_type = "limit" => nextId = taker + 1

\* Every step keeps the newest ticket first: only stops are placed later.
LEMMA NewestStaysPlaced ==
    ASSUME RestartForm, Orders, NewestIsPlaced, [Next]_vars
    PROVE  NewestIsPlaced'
<1> USE DEF RestartForm
<1>1. ASSUME NEW r \in Request, PlaceInvalid(r) \/ PlaceStop(r) \/ PlaceNow(r)
      PROVE  NewestIsPlaced'
  <2>1. CASE PlaceNow(r)
    BY <2>1 DEF PlaceNow, Register, NewestIsPlaced
  <2>2. CASE PlaceInvalid(r) \/ PlaceStop(r)
    <3>1. pc = "idle" /\ pc' = "save" /\ (taker' = taker \/ taker' = subject')
      BY <2>2 DEF PlaceInvalid, PlaceStop, Register, Conclude, Goto
    <3>2. taker = 0
      BY <3>1 DEF WellFormed, CallsAreInOrder
    <3> QED
      BY <3>1, <3>2 DEF NewestIsPlaced, Placing, Sweeping, Recorded, MakerTurn
  <2> QED
    BY <1>1, <2>1, <2>2
<1>2. ASSUME UNCHANGED <<req, nextId, taker>>, Placing' => Placing PROVE NewestIsPlaced'
  BY <1>2 DEF NewestIsPlaced
<1>3. ASSUME NEW i \in OrderId, Activate(i) PROVE NewestIsPlaced'
  <2>1. taker' = i /\ UNCHANGED req /\ i \in pendingStops
    BY <1>3 DEF Activate, Ready
  <2>2. req[i].order_type # "limit"
    BY <2>1 DEF Orders, IsStop
  <2> QED
    BY <2>1, <2>2 DEF NewestIsPlaced
<1>4. CASE \E i \in OrderId : cancel(i)
  <2>1. /\ pc = "idle" /\ UNCHANGED <<req, nextId, taker>> /\ pc' \in {"release", "save"}
    BY <1>4 DEF cancel, Goto
  <2>2. taker = 0
    BY <2>1 DEF WellFormed, CallsAreInOrder
  <2> QED
    BY <1>2, <2>1, <2>2 DEF Placing, Sweeping, Recorded, MakerTurn
<1>5. CASE StartLimit \/ CheckLimit \/ StartMarket \/ MatchDone \/ (\E m \in OrderId : MatchOne(m))
           \/ RecordTrade \/ Pay \/ BookBuyer \/ BookSeller \/ Advance \/ Finish
  <2>1. /\ UNCHANGED <<req, nextId, taker>>
        /\ pc \in {"start", "risk", "match", "settle", "pay", "book buy", "book sell", "advance"}
    BY <1>5 DEF StartLimit, CheckLimit, StartMarket, MatchDone, MatchOne, RecordTrade, Pay,
                BookBuyer, BookSeller, BookPosition, Advance, Finish
  <2> QED
    BY <1>2, <2>1 DEF Placing, Sweeping, Recorded
<1>6. CASE ReleaseHold \/ ReserveRest \/ SaveResting \/ SavePlaced \/ SetKillSwitch \/ UNCHANGED vars
  <2>1. UNCHANGED <<req, nextId, taker>>
    BY <1>6 DEF ReleaseHold, ReserveRest, Reserve, SaveResting, SavePlaced, SetKillSwitch, WriteRow, vars
  <2>2. Placing' => Placing
    BY <1>6 DEF ReleaseHold, ReserveRest, SaveResting, SavePlaced, SetKillSwitch, WriteRow, Goto, vars,
                Placing, Sweeping, Recorded, MakerTurn
  <2> QED
    BY <1>2, <2>1, <2>2
<1>7. CASE PayRaises \/ ReserveRaises \/ SaveAndReturn \/ Quiescent
  <2>1. pc' = "idle"
    BY <1>7 DEF PayRaises, ReserveRaises, SaveAndReturn, Quiescent, EndCall, Goto
  <2> QED
    BY <2>1 DEF NewestIsPlaced, Placing, Sweeping, Recorded, MakerTurn
<1> QED
  BY <1>1, <1>3, <1>4, <1>5, <1>6, <1>7 DEF Next, place, Step

\* Limit orders queue in the order of their ids.
QueueFollows ==
    \A i, j \in OrderId :
        /\ open[i] > 0 /\ open[j] > 0 /\ arrival[i] < arrival[j]
        /\ req[i].order_type = "limit" /\ req[j].order_type = "limit"
        => i < j

\* Every step keeps the queue of plain limit orders in the order of their ids.
LEMMA QueueStaysFollowed ==
    ASSUME RestartForm, ArrivalsFit, NewestIsPlaced, QueueFollows, [Next]_vars
    PROVE  QueueFollows'
<1> USE DEF RestartForm
<1>0. /\ DOMAIN req = OrderId /\ DOMAIN open = OrderId /\ DOMAIN arrival = OrderId
      /\ \A i \in OrderId : open[i] \in Nat /\ arrival[i] \in Nat
      /\ arrivals \in Nat /\ OrderId \subseteq Nat
  BY OMSAssumption DEF WellFormed, TypeOK, OrderId
<1>1. ASSUME \A i \in OrderId : open'[i] > 0 => open[i] > 0 /\ arrival'[i] = arrival[i] /\ req'[i] = req[i]
      PROVE  QueueFollows'
  BY <1>1 DEF QueueFollows
<1>2. CASE MatchDone
  <2>1. PICK t : t = taker
    OBVIOUS
  <2>2. /\ pc = "match" /\ UNCHANGED <<req, nextId>>
        /\ \/ UNCHANGED <<open, arrival>>
           \/ /\ open' = [open EXCEPT ![t] = left]
              /\ arrival' = [arrival EXCEPT ![t] = arrivals + 1]
    BY <1>2, <2>1 DEF MatchDone, NextArrival
  <2>3. CASE UNCHANGED <<open, arrival>>
    BY <1>1, <2>2, <2>3
  <2>4. CASE /\ open' = [open EXCEPT ![t] = left]
             /\ arrival' = [arrival EXCEPT ![t] = arrivals + 1]
    <3> SUFFICES ASSUME NEW i \in OrderId, NEW j \in OrderId,
                        open'[i] > 0, open'[j] > 0, arrival'[i] < arrival'[j],
                        req'[i].order_type = "limit", req'[j].order_type = "limit"
                 PROVE  i < j
      BY DEF QueueFollows
    <3>1. t \in OrderId /\ t \in Used
      BY <2>1, <2>2 DEF WellFormed, CallsAreInOrder, Used
    <3>2. CASE i = t
      <4>1. arrival'[i] = arrivals + 1 /\ j # t
        BY <1>0, <2>4, <3>1, <3>2
      <4>2. arrival'[j] = arrival[j] /\ open'[j] = open[j]
        BY <1>0, <2>4, <4>1
      <4>3. arrival[j] <= arrivals
        BY <4>2 DEF ArrivalsFit
      <4> QED
        BY <1>0, <4>1, <4>2, <4>3
    <3>3. CASE i # t /\ j = t
      <4>1. open[i] > 0 /\ req[t].order_type = "limit"
        BY <1>0, <2>2, <2>4, <3>3
      <4>2. nextId = t + 1
        BY <2>1, <2>2, <4>1 DEF NewestIsPlaced, Placing, Sweeping
      <4>3. i < nextId
        BY <4>1 DEF WellFormed, CallsAreInOrder
      <4> QED
        BY <1>0, <3>3, <4>2, <4>3
    <3>4. CASE i # t /\ j # t
      BY <1>0, <2>2, <2>4, <3>4 DEF QueueFollows
    <3> QED
      BY <3>2, <3>3, <3>4
  <2> QED
    BY <2>2, <2>3, <2>4
<1>3. ASSUME NEW m \in OrderId, MatchOne(m) PROVE QueueFollows'
  <2>1. PICK q : q = MatchQty(m)
    OBVIOUS
  <2>2. /\ q \in Nat \ {0} /\ open[m] > 0
        /\ UNCHANGED req /\ open' = [open EXCEPT ![m] = open[m] - q]
    BY <1>3, <2>1, MatchingMoves
  <2>3. arrival' = IF q = open[m] THEN [arrival EXCEPT ![m] = 0] ELSE arrival
    BY <1>3, <2>1 DEF MatchOne
  <2>4. \A i \in OrderId : open'[i] > 0 => open[i] > 0 /\ arrival'[i] = arrival[i]
    <3> SUFFICES ASSUME NEW i \in OrderId, open'[i] > 0 PROVE open[i] > 0 /\ arrival'[i] = arrival[i]
      OBVIOUS
    <3>1. CASE i = m
      BY <1>0, <2>2, <2>3, <3>1
    <3>2. CASE i # m
      BY <1>0, <2>2, <2>3, <3>2
    <3> QED
      BY <3>1, <3>2
  <2> QED
    BY <1>1, <2>2, <2>4
<1>4. ASSUME NEW k \in OrderId, cancel(k) PROVE QueueFollows'
  <2>1. /\ open' = [open EXCEPT ![k] = 0] /\ arrival' = [arrival EXCEPT ![k] = 0] /\ UNCHANGED req
    BY <1>4 DEF cancel
  <2> QED
    BY <1>0, <1>1, <2>1
<1>5. ASSUME NEW r \in Request, PlaceInvalid(r) \/ PlaceStop(r) \/ PlaceNow(r)
      PROVE  QueueFollows'
  <2>1. /\ req' = [req EXCEPT ![nextId] = r] /\ UNCHANGED <<open, arrival>>
    BY <1>5 DEF PlaceInvalid, PlaceStop, PlaceNow, Register
  <2>2. \A i \in OrderId : open[i] > 0 => i < nextId
    BY DEF WellFormed, CallsAreInOrder
  <2>3. \A i \in OrderId : open[i] > 0 => i # nextId
    BY <1>0, <2>2
  <2> QED
    BY <1>0, <1>1, <2>1, <2>3
<1>6. CASE \/ SetKillSwitch \/ StartLimit \/ CheckLimit \/ StartMarket \/ UNCHANGED vars
           \/ RecordTrade \/ Pay \/ PayRaises \/ BookBuyer \/ BookSeller \/ Advance \/ Finish
           \/ ReleaseHold \/ ReserveRest \/ ReserveRaises
           \/ SaveResting \/ SavePlaced \/ SaveAndReturn
           \/ (\E i \in OrderId : Activate(i)) \/ Quiescent
  <2>1. UNCHANGED <<req, open, arrival>>
    BY <1>6 DEF SetKillSwitch, StartLimit, CheckLimit, StartMarket, vars, RecordTrade, Pay, PayRaises,
                BookBuyer, BookSeller, BookPosition, Advance, Finish, ReleaseHold, ReserveRest,
                ReserveRaises, SaveResting, SavePlaced, SaveAndReturn, WriteRow, Activate, Quiescent
  <2> QED
    BY <1>1, <2>1
<1> QED
  BY <1>2, <1>3, <1>4, <1>5, <1>6 DEF Next, place, Step

\* What a restart gives back whole, as long as no call was cut short before it.
LifeForm ==
    /\ Books /\ PaymentsKeepUp /\ RestartForm /\ StopsElsewhere
    /\ RowsFollow /\ StopsFollow /\ PricesFollow
    /\ ArrivalsFit /\ NewestIsPlaced /\ QueueFollows

\* The books agree while no call was cut short.
LEMMA LifeIsWhole ==
    ASSUME LifeForm
    PROVE  Whole /\ Orders /\ HoldsFit /\ CashFits
<1>1. tape \in Seq(Trade)
  BY DEF LifeForm, RestartForm, WellFormed, TypeOK
<1>2. DOMAIN tape = 1 .. Len(tape) /\ Len(tape) \in Nat
  BY <1>1
<1>3. Whole
  BY <1>2 DEF LifeForm, PaymentsKeepUp, Whole
<1> QED
  BY <1>3 DEF LifeForm, Books

\* Then no payment raises, and no reservation.
LEMMA LifeNeverRaises ==
    ASSUME WholeCents, LifeForm, [Next]_vars
    PROVE  PaymentsKeepUp' /\ ~PayRaises /\ ~ReserveRaises
<1>1. Orders /\ HoldsFit /\ CashFits
  BY LifeIsWhole
<1>2. WellFormed /\ FillsAreFresh /\ PositionsFit
  BY DEF LifeForm, Books
<1>3. RestartForm'
  BY StepsKeepRestartForm DEF LifeForm
<1>4. WellFormed'
  BY <1>3 DEF RestartForm
<1>5. PaymentsKeepUp'
  BY <1>2, <1>4, PaymentsStayUp DEF LifeForm
<1>6. Whole'
  <2>1. (tape \in Seq(Trade))'
    BY <1>4 DEF WellFormed, TypeOK
  <2>2. DOMAIN tape' = 1 .. Len(tape') /\ Len(tape') \in Nat
    BY <2>1
  <2> QED
    BY <1>5, <2>2 DEF PaymentsKeepUp, Whole
<1> QED
  BY <1>1, <1>2, <1>5, <1>6, WholeWasWhole, ReservationsNeverRaise

\* Every step keeps tables and memory together.
LEMMA LifeIsKept ==
    ASSUME WholeCents, LifeForm, [Next]_vars
    PROVE  LifeForm'
<1>1. PaymentsKeepUp' /\ ~PayRaises /\ ~ReserveRaises
  BY LifeNeverRaises
<1>2. Orders
  BY LifeIsWhole
<1> USE DEF LifeForm
<1>3. Books' /\ RestartForm'
  BY BooksStayFit, StepsKeepRestartForm
<1>4. RowsFollow' /\ StopsFollow' /\ PricesFollow'
  BY <1>1, RowsStayFollowed, StopsStayFollowed, PricesStayFollowed
<1>5. StopsElsewhere' /\ ArrivalsFit'
  BY <1>1, StopsStayElsewhere, ArrivalsStayFit DEF RestartForm
<1>6. NewestIsPlaced' /\ QueueFollows'
  BY <1>2, NewestStaysPlaced, QueueStaysFollowed
<1> QED
  BY <1>1, <1>3, <1>4, <1>5, <1>6

\* Every order that is not in flight comes back as it was (oms.py, _restore).
LEMMA OthersAreRestored ==
    ASSUME LifeForm, Restore, NEW i \in OrderId, i \notin InFlight
    PROVE  /\ req'[i] = req[i] /\ status'[i] = status[i] /\ filled'[i] = filled[i]
           /\ open'[i] = open[i]
<1> USE DEF LifeForm, RestartForm
<1>1. RowMatches(i)
  BY DEF RowsFollow
<1>2. /\ req'[i] = IF Row(i) THEN req[i] ELSE NoRequest
      /\ status'[i] = saved[i].status /\ filled'[i] = saved[i].filled
      /\ open'[i] = IF Reopens(i) THEN req[i].qty - saved[i].filled ELSE 0
  BY DEF Restore, Reopened
<1>3. CASE i \in Used
  <2>1. saved[i].status = status[i] /\ saved[i].filled = filled[i]
    BY <1>1, <1>3 DEF RowMatches
  <2>2. status[i] # "none"
    BY <1>3 DEF WellFormed, CallsAreInOrder
  <2>3. Row(i)
    BY <2>1, <2>2 DEF Row, NoRow
  <2>4. Order(i)
    <3>1. Orders
      BY LifeIsWhole
    <3>2. ~(Placing /\ i = taker)
      BY DEF InFlight
    <3> QED
      BY <1>3, <3>1, <3>2 DEF Orders
  <2>5. Coming(i) = 0
    <3>1. fills \in Seq(FillRecord)
      BY DEF WellFormed, TypeOK
    <3>2. \A n \in DOMAIN fills : fills[n].maker # i
      BY DEF InFlight
    <3> QED
      BY <3>1, <3>2, NoOneComes DEF Coming
  <2>6. Taken(i) = 0
    <3>1. MakerTurn => fills # <<>>
      BY DEF MakerTurn, WellFormed, CallsAreInOrder
    <3>2. MakerTurn => i # Fill.maker
      BY <3>1, MakersAreInFlight
    <3> QED
      BY <3>2 DEF Taken
  <2>7. /\ open[i] \in Nat /\ filled[i] \in Int /\ req[i].qty \in Int
        /\ Remaining(i) = req[i].qty - filled[i] /\ Remaining(i) \in Int
    BY <1>3, OrderNumbers
  <2>8. open[i] = Expected(i)
    <3>1. open[i] + 0 = Expected(i) + 0
      BY <2>4, <2>5, <2>6 DEF Order
    <3>2. Expected(i) \in Int
      BY <2>7 DEF Expected
    <3> QED
      BY <2>7, <3>1, <3>2
  <2>9. Reopens(i) <=> status[i] \in Open
    BY <2>1, <2>4, <2>7 DEF Reopens, Order
  <2>10. Working(i) <=> status[i] \in Open
    BY <2>4 DEF Order, Working, Rests
  <2>11. open'[i] = open[i]
    BY <1>2, <2>1, <2>7, <2>8, <2>9, <2>10 DEF Expected
  <2> QED
    BY <1>2, <2>1, <2>3, <2>11
<1>4. CASE i \notin Used
  <2>1. saved[i] = NoRow
    BY <1>1, <1>4 DEF RowMatches
  <2>2. status[i] = "none" /\ req[i] = NoRequest /\ filled[i] = 0 /\ open[i] = 0
    BY <1>4 DEF WellFormed, CallsAreInOrder, Used, CallFits, Untouched
  <2>3. ~Row(i) /\ ~Reopens(i)
    BY <2>1 DEF Row, Reopens, NoRow, Open
  <2> QED
    BY <1>2, <2>1, <2>2, <2>3 DEF NoRow
<1> QED
  BY <1>3, <1>4

\* Between calls nothing is in flight.
LEMMA NothingInFlight ==
    ASSUME LifeForm, pc = "idle"
    PROVE  /\ taker = 0 /\ subject = 0 /\ fills = <<>>
           /\ \A i \in OrderId : i \notin InFlight
           /\ ~Placing /\ ~Sweeping /\ ~MakerTurn /\ ~Recorded /\ ~Writing
           /\ posted = DOMAIN tape
<1>1. taker = 0 /\ subject = 0 /\ fills = <<>>
  BY DEF LifeForm, RestartForm, RowsFollow, Writing, WellFormed, CallsAreInOrder, FillsAreFresh
<1>2. \A i \in OrderId : i \notin InFlight
  BY <1>1, NobodyIsInFlight
<1> QED
  BY <1>1, <1>2 DEF Placing, Sweeping, MakerTurn, Recorded, Writing, LifeForm, PaymentsKeepUp

\* A restart between calls gives everything back.
LEMMA EverythingIsRestored ==
    ASSUME LifeForm, Restart
    PROVE  /\ UNCHANGED <<req, status, filled, nextId, pendingStops, lastPrice, open>>
           /\ \A i \in OrderId : open[i] > 0 => arrival'[i] = i
<1>1. pc = "idle" /\ Restore
  BY DEF Restart
<1>2. \A i \in OrderId : i \notin InFlight
  BY <1>1, NothingInFlight
<1>3. \A i \in OrderId : /\ req'[i] = req[i] /\ status'[i] = status[i] /\ filled'[i] = filled[i]
                         /\ open'[i] = open[i]
  BY <1>1, <1>2, OthersAreRestored
<1> USE DEF LifeForm, RestartForm
<1>4. WellFormed' /\ FillsAreFresh'
  BY <1>1, RestoringIsWellFormed
<1>5. UNCHANGED <<req, status, filled, open>>
  <2>1. /\ req = [i \in OrderId |-> req[i]] /\ status = [i \in OrderId |-> status[i]]
        /\ filled = [i \in OrderId |-> filled[i]] /\ open = [i \in OrderId |-> open[i]]
    BY DEF WellFormed, TypeOK
  <2>2. /\ req' = [i \in OrderId |-> req'[i]] /\ status' = [i \in OrderId |-> status'[i]]
        /\ filled' = [i \in OrderId |-> filled'[i]] /\ open' = [i \in OrderId |-> open'[i]]
    BY <1>1 DEF Restore
  <2> QED
    BY <1>3, <2>1, <2>2, Zenon
<1>6. \A i \in OrderId : Row(i) <=> i \in Used
  <2> SUFFICES ASSUME NEW i \in OrderId PROVE Row(i) <=> i \in Used
    OBVIOUS
  <2>1. RowMatches(i)
    BY <1>2 DEF RowsFollow
  <2>2. i \in Used => status[i] # "none"
    BY DEF WellFormed, CallsAreInOrder
  <2> QED
    BY <2>1, <2>2 DEF RowMatches, Row, NoRow
<1>7. nextId' = nextId
  <2>1. nextId \in 1 .. MaxOrders + 1 /\ MaxOrders \in Nat
    BY OMSAssumption DEF WellFormed, TypeOK
  <2>2. /\ LastId \in 0 .. MaxOrders
        /\ \A i \in OrderId : Row(i) => i <= LastId
        /\ LastId = 0 \/ (LastId \in OrderId /\ Row(LastId))
    BY LastIdIsLargest
  <2>3. LastId < nextId
    <3>1. LastId = 0 \/ LastId \in Used
      BY <1>6, <2>2
    <3>2. LastId \in Used => LastId < nextId
      BY DEF WellFormed, CallsAreInOrder
    <3> QED
      BY <2>1, <3>1, <3>2
  <2>4. nextId = 1 \/ nextId - 1 \in OrderId
    BY <2>1 DEF OrderId
  <2>5. nextId - 1 \in OrderId => nextId - 1 <= LastId
    <3> SUFFICES ASSUME nextId - 1 \in OrderId PROVE nextId - 1 <= LastId
      OBVIOUS
    <3>1. nextId - 1 < nextId
      BY <2>1
    <3>2. nextId - 1 \in Used
      BY <3>1 DEF RowsFollow
    <3> QED
      BY <1>6, <2>2, <3>2
  <2>6. nextId' = 1 + LastId
    BY <1>1 DEF Restore
  <2> QED
    BY <2>1, <2>2, <2>3, <2>4, <2>5, <2>6
<1>8. pendingStops' = pendingStops
  <2>1. pendingStops' = {i \in OrderId : saved[i].status = "pending"}
    BY <1>1 DEF Restore
  <2>2. \A i \in OrderId : saved[i].status = status[i]
    BY <1>1, <1>3 DEF Restore
  <2>3. Orders /\ ~Placing
    BY <1>1, LifeIsWhole, NothingInFlight
  <2>4. \A i \in pendingStops : i \in OrderId /\ status[i] = "pending"
    BY <2>3 DEF Orders, WellFormed, TypeOK
  <2>5. \A i \in OrderId : status[i] = "pending" => i \in pendingStops
    BY <2>3 DEF StopsFollow, WellFormed, CallsAreInOrder
  <2> QED
    BY <2>1, <2>2, <2>4, <2>5
<1>9. lastPrice' = lastPrice
  <2>1. lastPrice = [s \in Symbol |-> lastPrice[s]]
    BY DEF WellFormed, TypeOK
  <2>2. ~TradeNoted
    BY <1>1, NothingInFlight DEF TradeNoted
  <2>3. \A s \in Symbol : lastPrice[s] = LastTrade(s)
    BY <2>2 DEF PricesFollow
  <2>4. lastPrice' = [s \in Symbol |-> LastTrade(s)]
    BY <1>1 DEF Restore
  <2> QED
    BY <2>1, <2>3, <2>4
<1>10. \A i \in OrderId : open[i] > 0 => arrival'[i] = i
  <2>1. \A i \in OrderId : /\ open'[i] = IF Reopens(i) THEN Reopened(i) ELSE 0
                           /\ arrival'[i] = IF Reopens(i) THEN i ELSE 0
    BY <1>1 DEF Restore, QueuedAs
  <2> QED
    BY <1>5, <2>1
<1> QED
  BY <1>5, <1>7, <1>8, <1>9, <1>10

\* A restart between calls leaves nothing behind that a later one could lose.
LEMMA RestartKeepsLife ==
    ASSUME LifeForm, Restart
    PROVE  LifeForm'
<1>1. pc = "idle" /\ Restore
  BY DEF Restart
<1>2. /\ UNCHANGED <<req, status, filled, nextId, pendingStops, lastPrice, open>>
      /\ \A i \in OrderId : open[i] > 0 => arrival'[i] = i
  BY EverythingIsRestored
<1>3. /\ taker = 0 /\ subject = 0 /\ fills = <<>>
      /\ ~Placing /\ ~Sweeping /\ ~MakerTurn /\ ~Recorded /\ ~Writing
      /\ posted = DOMAIN tape /\ \A i \in OrderId : i \notin InFlight
  BY <1>1, NothingInFlight
<1>4. /\ pc' = "idle" /\ taker' = 0 /\ subject' = 0 /\ fills' = <<>>
      /\ UNCHANGED <<balance, reserved, hold, posted, tape, position, saved>>
  BY <1>1 DEF Restore, EndCall, Goto
<1>5. ~Placing' /\ ~Sweeping' /\ ~MakerTurn' /\ ~Recorded' /\ ~Writing'
  BY <1>4 DEF Placing, Sweeping, MakerTurn, Recorded, Writing
<1>6. RestartForm'
  BY <1>1, RestartFormIsKept DEF LifeForm
<1>7. WellFormed' /\ FillsAreFresh'
  BY <1>6 DEF RestartForm
<1>8. Books'
  <2>1. Orders /\ HoldsFit /\ CashFits
    BY LifeIsWhole
  <2>2. Orders'
    BY <1>2, <1>3, <1>4, <1>5, <2>1, OrdersKept
  <2>3. HoldsFit'
    BY <1>1, <1>2, <1>3, <1>4, <1>5, <2>1, HoldsKept
  <2>4. \A a \in Account : balance[a] - reserved[a] >= 0
    BY <1>1, <1>3, <2>1, QuietBefore
  <2>5. CashFits'
    BY <1>4, <1>5, <1>7, <2>4, QuietCash
  <2>6. PositionsFit'
    BY <1>1, <1>4, PositionsLeftAlone DEF LifeForm, Books
  <2>7. ReservedIsHeld'
    BY <1>4 DEF LifeForm, Books, ReservedIsHeld, HeldBy
  <2> QED
    BY <1>7, <2>2, <2>3, <2>5, <2>6, <2>7 DEF Books
<1>9. PaymentsKeepUp'
  BY <1>3, <1>4 DEF PaymentsKeepUp
<1>10. StopsElsewhere'
  BY <1>2, <1>3, <1>4, SameStops DEF LifeForm
<1>11. RowsFollow'
  <2>1. \A i \in OrderId : i \in InFlight => i \in InFlight'
    BY <1>3
  <2> QED
    BY <1>2, <1>4, <1>5, <2>1, RowsKept DEF LifeForm
<1>12. StopsFollow'
  BY <1>2, <1>3, StopsKept DEF LifeForm
<1>13. PricesFollow'
  <2>1. ~TradeNoted /\ ~TradeNoted'
    BY <1>3, <1>5 DEF TradeNoted
  <2>2. \A s : LastTrade(s)' = LastTrade(s)
    BY <1>4 DEF LastTrade
  <2> QED
    BY <1>2, <2>1, <2>2 DEF LifeForm, PricesFollow
<1>14. ArrivalsFit'
  BY <1>1, RestoringArrivals
<1>15. NewestIsPlaced'
  BY <1>5 DEF NewestIsPlaced
<1>16. QueueFollows'
  BY <1>2 DEF QueueFollows
<1> QED
  BY <1>6, <1>8, <1>9, <1>10, <1>11, <1>12, <1>13, <1>14, <1>15, <1>16 DEF LifeForm

\* They begin together.
LEMMA LifeToStart == Init => LifeForm
<1> SUFFICES ASSUME Init PROVE LifeForm
  OBVIOUS
<1>1. /\ pc = "idle" /\ fills = <<>> /\ taker = 0 /\ subject = 0 /\ nextId = 1 /\ tape = <<>>
      /\ req = [i \in OrderId |-> NoRequest] /\ open = [i \in OrderId |-> 0]
      /\ saved = [i \in OrderId |-> NoRow] /\ lastPrice = [s \in Symbol |-> 0]
      /\ pendingStops = {} /\ posted = {}
  BY DEF Init
<1>2. /\ ~Placing /\ ~Sweeping /\ ~MakerTurn /\ ~Recorded /\ ~Writing /\ ~TradeNoted
      /\ Used = {} /\ DOMAIN tape = {}
  BY <1>1, EmptyHasNoIndex DEF Placing, Sweeping, MakerTurn, Recorded, Writing, TradeNoted, Used
<1>3. Books /\ RestartForm
  BY BooksToStart, RestartFormToStart
<1>4. PaymentsKeepUp /\ StopsElsewhere
  BY <1>1, <1>2 DEF PaymentsKeepUp, StopsElsewhere, Ready
<1>5. RowsFollow
  BY <1>1, <1>2 DEF RowsFollow, RowMatches, OrderId
<1>6. StopsFollow /\ NewestIsPlaced
  BY <1>2 DEF StopsFollow, NewestIsPlaced
<1>7. PricesFollow
  BY <1>1, <1>2 DEF PricesFollow, LastTrade
<1>8. ArrivalsFit /\ QueueFollows
  BY <1>1 DEF ArrivalsFit, QueueFollows
<1> QED
  BY <1>3, <1>4, <1>5, <1>6, <1>7, <1>8 DEF LifeForm

\* However often the process is stopped between two calls and started again, it goes on as
\* if it had not been (oms.py, _restore).
LEMMA LifeGoesOn ==
    ASSUME WholeCents
    PROVE  SpecRestart => []LifeForm
<1>1. Init => LifeForm
  BY LifeToStart
<1>2. LifeForm /\ [Next \/ Restart]_vars => LifeForm'
  BY LifeIsKept, RestartKeepsLife
<1> QED
  BY <1>1, <1>2, PTL DEF SpecRestart

\* A restart between two calls gives back tickets, statuses, fills, open quantities, stops,
\* last prices and the next id as they were, and the places in the queue of the orders that
\* rested when they came in, whatever restarts came before (oms.py, _restore).
THEOREM RestartsLoseNothing ==
    ASSUME WholeCents
    PROVE  SpecRestart => RestartLosesNothing
<1> DEFINE Same ==
      /\ UNCHANGED <<req, status, filled, nextId, pendingStops, lastPrice, open>>
      /\ \A i, j \in OrderId : SamePlace(i, j) /\ arrival[i] < arrival[j] => arrival'[i] < arrival'[j]
<1>1. LifeForm /\ [Next \/ Restart]_vars => [Restart => Same]_vars
  <2> SUFFICES ASSUME LifeForm, Restart PROVE Same
    OBVIOUS
  <2>1. /\ UNCHANGED <<req, status, filled, nextId, pendingStops, lastPrice, open>>
        /\ \A i \in OrderId : open[i] > 0 => arrival'[i] = i
    BY EverythingIsRestored
  <2>2. \A i, j \in OrderId : SamePlace(i, j) /\ arrival[i] < arrival[j] => i < j
    BY DEF LifeForm, QueueFollows, SamePlace
  <2> QED
    BY <2>1, <2>2 DEF SamePlace
<1>2. RestartLosesNothing <=> [][Restart => Same]_vars
  BY DEF RestartLosesNothing
<1> HIDE DEF Same
<1> QED
  BY <1>1, <1>2, LifeGoesOn, PTL DEF SpecRestart

\* While nothing but restarts between calls stops the process, the whole service keeps its
\* promises across them: orders, book and tape, reservations, cash, positions, payments and
\* stops (oms.py, _restore; ledger.py, TradeLog and portfolio as read back from their tables).
THEOREM RestartsKeepTheBooks ==
    ASSUME WholeCents
    PROVE  SpecRestart => [](/\ BookMatchesOrders /\ HoldsMatchOrders /\ Solvent
                             /\ PositionsFollowTape /\ EveryTradeSettles /\ NoStopLeftBehind)
<1>1. LifeForm => BookMatchesOrders /\ HoldsMatchOrders /\ Solvent
  BY BooksShowOrders, BooksShowHolds, BooksAreSolvent DEF LifeForm
<1>2. LifeForm => PositionsFollowTape
  BY PositionsShowTape DEF LifeForm, Books
<1>3. LifeForm => EveryTradeSettles
  BY DEF LifeForm, PaymentsKeepUp, EveryTradeSettles, Idle
<1>4. LifeForm => NoStopLeftBehind
  BY DEF LifeForm, NoStopLeftBehind, StopsElsewhere, Idle, RestartForm, WellFormed, CallsAreInOrder
<1> QED
  BY <1>1, <1>2, <1>3, <1>4, LifeGoesOn, PTL

\* Until the process first dies or is restarted, nothing stands in the way of giving back
\* all that is not in flight then.
LifeSoFar == RestartForm /\ (restarts = 0 => LifeForm)

\* They stay together until the first restart.
LEMMA LifeUntilCrash ==
    ASSUME WholeCents
    PROVE  SpecCrash => []LifeSoFar
<1>1. Init => LifeSoFar
  BY LifeToStart DEF LifeSoFar, LifeForm
<1>2. LifeSoFar /\ [Next \/ Restart \/ Crash]_vars => LifeSoFar'
  <2> SUFFICES ASSUME LifeSoFar, [Next \/ Restart \/ Crash]_vars PROVE LifeSoFar'
    OBVIOUS
  <2>1. RestartForm /\ RestartForm'
    BY RestartFormIsKept DEF LifeSoFar
  <2>2. CASE [Next]_vars
    <3>1. restarts' = restarts
      BY <2>1, <2>2, RowsMove DEF RestartForm
    <3> QED
      BY <2>1, <2>2, <3>1, LifeIsKept DEF LifeSoFar
  <2>3. CASE Restart \/ Crash
    <3>1. restarts' = restarts + 1
      BY <2>3 DEF Restart, Crash, Restore
    <3>2. restarts \in Nat
      BY <2>1 DEF RestartForm, WellFormed, TypeOK
    <3>3. restarts' # 0
      BY <3>1, <3>2
    <3> QED
      BY <2>1, <3>3 DEF LifeSoFar
  <2> QED
    BY <2>2, <2>3
<1> QED
  BY <1>1, <1>2, PTL DEF SpecCrash

\* What the first restart or crash gives back.
OthersKept ==
    \A i \in OrderId \ InFlight :
        /\ req'[i] = req[i] /\ status'[i] = status[i]
        /\ filled'[i] = filled[i] /\ open'[i] = open[i]

\* So that one gives back all but the call in flight.
LEMMA FirstRestartKeepsOthers ==
    ASSUME LifeSoFar, restarts = 0, [Next \/ Restart \/ Crash]_vars, restarts' # restarts
    PROVE  OthersKept
<1>1. LifeForm /\ WellFormed
  BY DEF LifeSoFar, LifeForm, RestartForm
<1>2. CASE [Next]_vars
  BY <1>1, <1>2, RowsMove
<1>3. CASE Restart \/ Crash
  BY <1>1, <1>3, OthersAreRestored DEF Restart, Crash, OthersKept
<1> QED
  BY <1>2, <1>3

\* The first time the process dies, wherever that is, every order but those of the call in
\* flight comes back with its ticket, status, fill and open quantity: all of it, when it
\* dies once, which is what the run bounds it to.  After that it need not hold: a cancel that
\* dies between the release of its reservation and the write of its row comes back as an
\* open buy without reservation, and if its cash is spent meanwhile, its next fill raises
\* before it is written (oms.py, cancel, _resync_buy_hold and _save_order).
THEOREM OnlyOneCallSuffers ==
    ASSUME WholeCents
    PROVE  /\ SpecCrash => [][restarts = 0 /\ restarts' # restarts => OthersKept]_vars
           /\ MaxRestarts <= 1 => (SpecCrash => OnlyTheCallInFlightSuffers)
<1>1. LifeSoFar /\ [Next \/ Restart \/ Crash]_vars
         => [restarts = 0 /\ restarts' # restarts => OthersKept]_vars
  BY FirstRestartKeepsOthers
<1>2. ASSUME MaxRestarts <= 1
      PROVE  LifeSoFar /\ [Next \/ Restart \/ Crash]_vars => [restarts' # restarts => OthersKept]_vars
  <2> SUFFICES ASSUME LifeSoFar, [Next \/ Restart \/ Crash]_vars, restarts' # restarts
               PROVE  OthersKept
    OBVIOUS
  <2>1. restarts \in Nat /\ WellFormed
    BY DEF LifeSoFar, RestartForm, WellFormed, TypeOK
  <2>2. restarts < MaxRestarts
    BY <2>1, RowsMove DEF Restart, Crash, MayRestart
  <2>3. restarts = 0
    BY <1>2, <2>1, <2>2, MaxRestartsAssumption
  <2> QED
    BY <2>3, FirstRestartKeepsOthers
<1>3. OnlyTheCallInFlightSuffers <=> [][restarts' # restarts => OthersKept]_vars
  BY DEF OnlyTheCallInFlightSuffers, OthersKept
<1>4. SpecCrash => [][restarts = 0 /\ restarts' # restarts => OthersKept]_vars
  BY <1>1, LifeUntilCrash, PTL DEF SpecCrash
<1>5. ASSUME MaxRestarts <= 1
      PROVE  SpecCrash => OnlyTheCallInFlightSuffers
  BY <1>2, <1>3, <1>5, LifeUntilCrash, PTL DEF SpecCrash
<1> QED
  BY <1>4, <1>5
=============================================================================
