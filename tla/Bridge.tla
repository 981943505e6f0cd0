------------------------------- MODULE Bridge -------------------------------
(***************************************************************************)
(* The engine process and the Python processes around it: the API bridge   *)
(* (bridge/main.py) turns POST /order into one order message, the feeder   *)
(* (bridge/feeder.py) turns a market trade into a buy and a sell that      *)
(* match, and another client may send what it likes.  The bridge's         *)
(* listener thread receives the engine's events and hands each that it can *)
(* decode to an event loop for broadcast; nothing ever runs that loop, so  *)
(* what is handed over stays there.                                        *)
(*                                                                         *)
(* Prices and quantities are already scaled; Ticket is the orders people   *)
(* ask for, Foreign the messages of the other client, MaxSends bounds the  *)
(* sends of all clients together.                                          *)
(***************************************************************************)
EXTENDS ChronosEngine

CONSTANTS Ticket, MarketTrade, Foreign, MaxSends,
          FirstId        \* the number each client's order ids start after

Bridge == "bridge_proxy"
Feeder == "market_feeder"
Stranger == "other"

\* The byte in a message may be no OrderSide at all.
AnySide == Side \cup {"unknown"}
OrderMessage == [id : Nat, symbol : STRING, side : AnySide, price : Int, quantity : Int]
Frame == [kind : {"order"}, order : OrderMessage] \cup {Delimiter, WrongSize}
Posting == [symbol : STRING, side : Side, price : Int, quantity : Int]

ASSUME BridgeAssumption ==
    /\ Client = {Bridge, Feeder, Stranger} /\ Bridge \in Subscriber
    /\ Ticket \subseteq Posting
    /\ MarketTrade \subseteq [symbol : STRING, price : Int, quantity : Int]
    /\ Foreign \subseteq Seq(Frame)
    /\ MaxSends \in Nat
    /\ FirstId \in [Client -> Nat]

VARIABLES order_id_counter,    \* per process, its order_id_counter
          sent,                \* history: per client, the orders of its well-formed messages
          sends,               \* history: the number of sends
          scheduled            \* the broadcasts handed to the listener's loop

bridgeVars == <<order_id_counter, sent, sends, scheduled>>
allVars == <<vars, engineVars, bridgeVars>>

BridgeInit ==
    /\ EngineInit
    /\ order_id_counter = FirstId
    /\ sent = [c \in Client |-> <<>>]
    /\ sends = 0
    /\ scheduled = <<>>

\* The messages that read as one order: the payload, perhaps after REQ's empty delimiter.
WellFormed ==
    {frames \in Seq(Frame) :
        \/ Len(frames) = 1 /\ frames[1].kind = "order"
        \/ Len(frames) = 2 /\ frames[1] = Delimiter /\ frames[2].kind = "order"}

\* The members of S in the list s, in their order.
Only(s, S) ==
    LET f[n \in 0 .. Len(s)] ==
            IF n = 0 THEN <<>>
            ELSE IF s[n] \in S THEN Append(f[n - 1], s[n]) ELSE f[n - 1]
    IN  f[Len(s)]

\* The orders of the messages of a list that carry one.
OrdersIn(messages) ==
    LET carriers == Only(messages, WellFormed)
    IN  [n \in DOMAIN carriers |-> Last(carriers[n]).order]

OrderOf(id, ticket, side) ==
    [id |-> id, symbol |-> ticket.symbol, side |-> side,
     price |-> ticket.price, quantity |-> ticket.quantity]

\* A client's socket takes its messages one by one; they arrive in that order.
Send(client, list) ==
    /\ wire' = [wire EXCEPT ![client] = @ \o list]
    /\ sent' = [sent EXCEPT ![client] = @ \o OrdersIn(list)]
    /\ sends < MaxSends /\ sends' = sends + 1
    /\ UNCHANGED <<vars, unread, received, mainVars, loggerVars, eventVars, scheduled>>

\* The counter moves first; a symbol too long for the wire raises and sends nothing.
place_order(ticket) ==
    LET id == order_id_counter[Bridge] + 1
    IN  /\ order_id_counter' = [order_id_counter EXCEPT ![Bridge] = id]
        /\ Send(Bridge, IF ticket.symbol = "too_long" THEN <<>>
                        ELSE << <<Message(OrderOf(id, ticket, ticket.side))>> >>)

\* The pair is sent one message after the other with nothing in between.
synthesize_and_send_orders(trade) ==
    LET id == order_id_counter[Feeder]
        pair == [trade EXCEPT !.quantity = Max({1, @})]
    IN  /\ order_id_counter' = [order_id_counter EXCEPT ![Feeder] = id + 2]
        /\ Send(Feeder, << <<Message(OrderOf(id + 1, pair, "buy"))>>,
                           <<Message(OrderOf(id + 2, pair, "sell"))>> >>)

SendForeign(frames) ==
    /\ Send(Stranger, <<frames>>)
    /\ UNCHANGED order_id_counter

-----------------------------------------------------------------------------
(* zmq_listener *)

ListenerConnect ==
    /\ Join(Bridge)
    /\ UNCHANGED <<vars, gatewayVars, mainVars, loggerVars, bridgeVars>>

\* decode_order raises when the engine repeats a side that is no OrderSide.
Decodes(event) == event.topic = "ORDER" => event.side \in Side

ListenerTake ==
    /\ inbox[Bridge] # <<>>
    /\ TakeFrom(Bridge)
    /\ UNCHANGED <<vars, gatewayVars, mainVars, loggerVars, order_id_counter, sent, sends>>

ListenerReceive ==
    /\ ListenerTake /\ Decodes(published[Head(inbox[Bridge])])
    /\ scheduled' = Append(scheduled, Head(inbox[Bridge]))

\* The event is taken, printed and lost.
ListenerError ==
    /\ ListenerTake /\ ~Decodes(published[Head(inbox[Bridge])])
    /\ UNCHANGED scheduled

-----------------------------------------------------------------------------
Source == Client \cup {Unread}

MainStep ==
    \/ \E source \in Source : DiscardMessage(source) /\ UNCHANGED bridgeVars
    \/ \E source \in Source, s \in Slot : RejectOrder(source, s) /\ UNCHANGED bridgeVars
    \/ \E source \in Source, s \in Slot : DropOrder(source, s) /\ UNCHANGED bridgeVars
    \/ \E source \in Source, s \in Slot : ProcessOrder(source, s) /\ UNCHANGED bridgeVars
    \/ MatchTurn /\ UNCHANGED bridgeVars
    \/ EndOrder /\ UNCHANGED bridgeVars
    \/ OutOfMemory /\ UNCHANGED bridgeVars
    \/ LoopTop /\ UNCHANGED bridgeVars
    \/ NothingReceived /\ UNCHANGED bridgeVars
    \/ StopLogger /\ UNCHANGED bridgeVars
    \/ JoinLogger /\ UNCHANGED bridgeVars

LoggerStep ==
    \/ LoggerConnect /\ UNCHANGED bridgeVars
    \/ LoggerTop /\ UNCHANGED bridgeVars
    \/ LoggerReceive /\ UNCHANGED bridgeVars
    \/ LoggerTimeout /\ UNCHANGED bridgeVars

EngineNext ==
    \/ MainStep
    \/ LoggerStep
    \/ Interrupt /\ UNCHANGED bridgeVars
    \/ \E ticket \in Ticket : place_order(ticket)
    \/ \E trade \in MarketTrade : synthesize_and_send_orders(trade)
    \/ \E frames \in Foreign : SendForeign(frames)
    \/ ListenerConnect
    \/ ListenerReceive
    \/ ListenerError

\* The two threads of the engine are scheduled; nobody has to send, listen or interrupt.
EngineSpec ==
    BridgeInit /\ [][EngineNext]_allVars
        /\ WF_allVars(MainStep) /\ WF_allVars(LoggerStep)

-----------------------------------------------------------------------------
IdsOf(orders) == [n \in DOMAIN orders |-> orders[n].id]
SentIds(c) == {sent[c][n].id : n \in DOMAIN sent[c]}

\* The ids of the orders a client sends in messages that can be read, and the ids that other
\* messages hide.
OwnIds(c) ==
    CASE c = Bridge -> FirstId[c] + 1 .. FirstId[c] + MaxSends
      [] c = Feeder -> FirstId[c] + 1 .. FirstId[c] + 2 * MaxSends
      [] OTHER -> {Last(frames).order.id : frames \in Foreign \cap WellFormed}
OrderIdsIn(frames) == {frames[n].order.id : n \in {m \in DOMAIN frames : frames[m].kind = "order"}}
OddIds == UNION {OrderIdsIn(frames) : frames \in Foreign \ WellFormed}

\* No two clients use one id, as long as the bridge has not counted up to the feeder's
\* first one, and the other client does not repeat an id that could not be read.
IdsAreApart ==
    /\ \A c \in Client : OwnIds(c) \cap OddIds = {}
    /\ \A c, d \in Client : c # d => OwnIds(c) \cap OwnIds(d) = {}

\* The gateway takes every well-formed message exactly once and in the order its client
\* sent it, whatever the other clients send before, between and after: odd frames can cost
\* the orders of their own message only.
ReceivedInOrder ==
    \A c \in Client :
        Only(received, SentIds(c)) \o IdsOf(OrdersIn(wire[c])) = IdsOf(sent[c])

Increasing(s) == \A m, n \in DOMAIN s : m < n => s[m] < s[n]

\* What a subscriber gets is what was published, each event once and in order, and the only
\* gaps after its first event are events published while its queue was full - and, for the
\* bridge, updates it cannot decode.
StreamIsGapFree(got, s, lost) ==
    /\ Increasing(got \o inbox[s])
    /\ got # <<>> =>
          got[1] .. Len(published) \subseteq ToSet(got \o inbox[s]) \cup missed[s] \cup lost
Undecodable == {n \in DOMAIN published : ~Decodes(published[n])}
StreamsKeepOrder ==
    StreamIsGapFree(log, "logger", {}) /\ StreamIsGapFree(scheduled, Bridge, Undecodable)

\* An order that is matched is within the value limit, if its price is one at which the
\* largest quantity allowed still fits a word: only above that can the product wrap.
ValueLimitHolds ==
    main = "match" /\ order[taker].price <= (HalfWord - 1) \div MaxOrderQuantity
        => order[taker].price * asked[taker] <= MaxOrderValue

Answered(id) == \E n \in DOMAIN published : published[n].topic = "ORDER" /\ published[n].id = id

AllAnswered ==
    \A c \in Client : \A n \in DOMAIN sent[c] :
        sent[c][n].symbol \in Listed => Answered(sent[c][n].id)


\* After the signal the process ends: both threads look at their flags for ever.
ShutdownCompletes == ~running ~> main = "ended"

\* A trade is between two orders: nobody uses an id twice here.
TradesAreBetweenTwoOrders == \A n \in DOMAIN tape : tape[n].buy # tape[n].sell
=============================================================================
