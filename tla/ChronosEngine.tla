--------------------------- MODULE ChronosEngine ---------------------------
(***************************************************************************)
(* The C++ engine process (src/main.cpp): the matching thread takes orders *)
(* from the gateway's ROUTER socket, checks them, routes them to the book  *)
(* of their symbol, and publishes what happens; the audit logger's thread  *)
(* subscribes to the publications and writes them to a file.  The threads  *)
(* share two flags and otherwise only messages.                            *)
(*                                                                         *)
(* The book is LimitOrderBook, for one registered symbol; what differs is  *)
(* who owns the Order objects.  main.cpp:80 hands the book the address of  *)
(* the message the loop received into, a local of the loop body.  What the *)
(* book finds there in a later turn is undefined; in practice a build      *)
(* gives the local one place on the stack in every turn, so the book finds *)
(* whatever message was last received into that place.                     *)
(*                                                                         *)
(* ZeroMQ is external: messages of one client arrive in order, the frames  *)
(* of a message arrive together, and a subscriber gets nothing published   *)
(* before it joined or while its queue is full.                            *)
(***************************************************************************)
EXTENDS LimitOrderBook

CONSTANTS Client,          \* the processes that send orders
          Subscriber,      \* the sockets that listen, the audit logger's among them
          Listed,          \* the symbols registered with addSymbol
          MaxOrderQuantity, MaxOrderValue,    \* RiskConfig
          HalfWord,        \* a signed word holds -HalfWord .. HalfWord - 1
          PoolSize,        \* allocations the memory pool can serve
          HighWater        \* events a subscriber's queue can hold

ASSUME ChronosEngineAssumption ==
    /\ "logger" \in Subscriber
    /\ MaxOrderQuantity \in Nat \ {0} /\ MaxOrderValue \in Nat
    /\ HalfWord \in Nat /\ MaxOrderValue < HalfWord
    /\ PoolSize \in Nat /\ HighWater \in Nat

VARIABLES wire,         \* the ROUTER socket: client -> its messages, each a list of frames
          unread,       \* what is left of the message being read
          received,     \* history: the ids of the orders taken from the socket
          running,      \* main's flag
          main,         \* where the matching thread is
          pool,         \* allocations left
          failed,       \* an exception ended the loop
          running_,     \* the audit logger's flag
          logger,       \* where its thread is
          log,          \* its file: numbers of the events written
          published,    \* history: every event published
          joined, inbox,    \* per subscriber: it is connected, its queue of event numbers
          missed        \* history: per subscriber, the events it was never sent

gatewayVars == <<wire, unread, received>>
mainVars == <<running, main, pool, failed>>
loggerVars == <<running_, logger, log>>
eventVars == <<published, joined, inbox, missed>>
engineVars == <<gatewayVars, mainVars, loggerVars, eventVars>>

Message(o) == [kind |-> "order", order |-> o]
Delimiter == [kind |-> "empty"]
WrongSize == [kind |-> "short"]

EngineInit ==
    /\ Init
    /\ wire = [c \in Client |-> <<>>]
    /\ unread = <<>> /\ received = <<>>
    /\ running = TRUE /\ main = "top" /\ pool = PoolSize /\ failed = FALSE
    /\ running_ = TRUE /\ logger = "starting" /\ log = <<>>
    /\ published = <<>>
    /\ joined = [s \in Subscriber |-> FALSE]
    /\ inbox = [s \in Subscriber |-> <<>>]
    /\ missed = [s \in Subscriber |-> {}]

-----------------------------------------------------------------------------
(* EventPublisher: an event is a topic frame and a payload, sent together. *)

OrderEvent(o) == [topic |-> "ORDER", id |-> o.id, side |-> o.side, status |-> o.status]
TradeEvent(t) == [topic |-> "TRADE", buy |-> t.buy, sell |-> t.sell]

\* Each subscriber is sent as many of them as its queue has room for.
Room(s) == IF joined[s] THEN HighWater - Len(inbox[s]) ELSE 0
Taken(s, events) == Min({Len(events), Room(s)})

publishEvents(events) ==
    LET last == Len(published)
    IN  /\ published' = published \o events
        /\ inbox' = [s \in Subscriber |->
                        inbox[s] \o [k \in 1 .. Taken(s, events) |-> last + k]]
        /\ missed' = [s \in Subscriber |->
                        missed[s] \cup (last + Taken(s, events) + 1 .. last + Len(events))]
        /\ UNCHANGED joined

Join(s) ==
    /\ ~joined[s]
    /\ joined' = [joined EXCEPT ![s] = TRUE]
    /\ UNCHANGED <<published, inbox, missed>>

-----------------------------------------------------------------------------
(* ZmqGateway::receiveOrder: an identity frame, perhaps a delimiter, the   *)
(* payload.  Frames that are left are taken for the next message.          *)

Unread == "unread"
HasInput(source) ==
    IF source = Unread THEN unread # <<>> ELSE unread = <<>> /\ wire[source] # <<>>
AfterIdentity(source) == IF source = Unread THEN Tail(unread) ELSE Head(wire[source])

Delimited(frames) == Len(frames) > 1 /\ Head(frames) = Delimiter
FirstFrame(frames) == IF frames = <<>> THEN WrongSize ELSE Head(frames)    \* mutation
Payload(frames) ==
    IF frames = <<>> THEN WrongSize
    ELSE IF Delimited(frames) THEN frames[2] ELSE Head(frames)
Leftover(frames) == SubSeq(frames, IF Delimited(frames) THEN 3 ELSE 2, Len(frames))

receiveOrder(source) ==
    /\ main = "receive" /\ HasInput(source)
    /\ wire' = IF source = Unread THEN wire ELSE [wire EXCEPT ![source] = Tail(@)]
    /\ unread' = Leftover(AfterIdentity(source))

Carries(source) == Payload(AfterIdentity(source)).kind = "order"
Received(source) == Payload(AfterIdentity(source)).order

\* Nothing that can be read as an order: the loop starts over.
DiscardMessage(source) ==
    /\ receiveOrder(source) /\ ~Carries(source)
    /\ main' = "top"
    /\ UNCHANGED <<vars, received, running, pool, failed, loggerVars, eventVars>>

\* The message is now in the loop's local variable, a place on the stack.
Store(s, o, state) ==
    /\ order' = [order EXCEPT ![s] = [id |-> o.id, side |-> o.side, price |-> o.price,
                                      quantity |-> o.quantity, status |-> state]]
    /\ received' = Append(received, o.id)

-----------------------------------------------------------------------------
(* RiskEngine and ShardedMatchingEngine, as main's loop uses them. *)

Signed(n) == ((n + HalfWord) % (2 * HalfWord)) - HalfWord

checkQuantityOnly(o) ==    \* mutation: the value limit is not checked
    o.quantity > 0 /\ o.quantity <= MaxOrderQuantity /\ o.price > 0
checkStaticRules(o) ==
    /\ o.quantity > 0 /\ o.quantity <= MaxOrderQuantity
    /\ o.price > 0
    /\ Signed(o.price * o.quantity) <= MaxOrderValue

PublishRejected(s) == publishEvents(<<OrderEvent(order'[s])>>)

RejectOrder(source, s) ==
    /\ receiveOrder(source) /\ Carries(source) /\ ~checkStaticRules(Received(source))
    /\ Store(s, Received(source), "Rejected")
    /\ PublishRejected(s)
    /\ main' = "top"
    /\ UNCHANGED <<levels, lookup, nodes, taker, trades, feed, tape, asked,
                   running, pool, failed, loggerVars>>

\* No shard for the symbol: nothing is matched and nothing is said.
DropOrder(source, s) ==
    /\ receiveOrder(source) /\ Carries(source) /\ checkStaticRules(Received(source))
    /\ Received(source).symbol \notin Listed
    /\ Store(s, Received(source), "New")
    /\ main' = "top"
    /\ UNCHANGED <<levels, lookup, nodes, taker, trades, feed, tape, asked,
                   running, pool, failed, loggerVars, eventVars>>

\* processOrder begins by reserving room for its trades from the pool, which never gets
\* anything back; when it has none left the exception ends main's loop.
ProcessOrder(source, s) ==
    /\ receiveOrder(source) /\ Carries(source) /\ checkStaticRules(Received(source))
    /\ Received(source).symbol \in Listed
    /\ Store(s, Received(source), "New")
    /\ asked' = [asked EXCEPT ![s] = Received(source).quantity]
    /\ IF pool > 0 THEN pool' = pool - 1 /\ main' = "match" /\ taker' = s /\ UNCHANGED failed
       ELSE main' = "stop" /\ failed' = TRUE /\ UNCHANGED <<pool, taker>>
    /\ UNCHANGED <<levels, lookup, nodes, trades, feed, tape, running, loggerVars, eventVars>>

MatchTurn ==
    /\ main = "match" /\ MatchFront
    /\ LET s == Head(levels[Opposite(order[taker].side)][best(Opposite(order[taker].side))].orders).order
       IN  publishEvents(<<OrderEvent(order'[s])>>)
    /\ UNCHANGED <<gatewayVars, mainVars, loggerVars>>

\* A remainder that comes to rest needs memory too.
Rests == order[taker].quantity > 0

EndOrder ==
    /\ main = "match" /\ Rests => pool > 0
    /\ LET s == taker
       IN  /\ Return
           /\ publishEvents([n \in DOMAIN trades |-> TradeEvent(trades[n])]
                            \o <<OrderEvent(order'[s])>>)
    /\ pool' = IF Rests THEN pool - 1 ELSE pool
    /\ main' = "top"
    /\ UNCHANGED <<gatewayVars, running, failed, loggerVars>>

OutOfMemory ==
    /\ main = "match" /\ Rests /\ ~Marketable /\ pool = 0
    /\ main' = "stop" /\ failed' = TRUE
    /\ UNCHANGED <<vars, gatewayVars, running, pool, loggerVars, eventVars>>

-----------------------------------------------------------------------------
(* main's loop, and the logger's thread. *)

Interrupt ==
    /\ running /\ main # "ended"
    /\ running' = FALSE
    /\ UNCHANGED <<vars, main, pool, failed, gatewayVars, loggerVars, eventVars>>

LoopTop ==
    /\ main = "top"
    /\ main' = IF running THEN "receive" ELSE "stop"
    /\ UNCHANGED <<vars, gatewayVars, running, pool, failed, loggerVars, eventVars>>

NothingReceived ==
    /\ main = "receive" /\ \A source \in Client \cup {Unread} : ~HasInput(source)
    /\ main' = "top"
    /\ UNCHANGED <<vars, gatewayVars, running, pool, failed, loggerVars, eventVars>>

\* logger.stop(), called by main or by the destructor: the flag falls, then join waits.
StopLogger ==
    /\ main = "stop"
    /\ running_' = FALSE
    /\ main' = "join"
    /\ UNCHANGED <<vars, gatewayVars, running, pool, failed, logger, log, eventVars>>

JoinLogger ==
    /\ main = "join" /\ logger = "exited"
    /\ main' = "ended"
    /\ UNCHANGED <<vars, gatewayVars, running, pool, failed, loggerVars, eventVars>>

LoggerConnect ==
    /\ logger = "starting"
    /\ logger' = "top"
    /\ Join("logger")
    /\ UNCHANGED <<vars, gatewayVars, mainVars, running_, log>>

LoggerTop ==
    /\ logger = "top"
    /\ logger' = IF running_ THEN "receive" ELSE "exited"
    /\ UNCHANGED <<vars, gatewayVars, mainVars, running_, log, eventVars>>

TakeFrom(s) == inbox' = [inbox EXCEPT ![s] = Tail(@)] /\ UNCHANGED <<published, joined, missed>>

WriteIfRunning(n) == log' = IF running_ THEN Append(log, n) ELSE log    \* mutation
WriteEvent(n) == log' = Append(log, n)

LoggerReceive ==
    /\ logger = "receive" /\ inbox["logger"] # <<>>
    /\ WriteEvent(Head(inbox["logger"]))
    /\ TakeFrom("logger")
    /\ logger' = "top"
    /\ UNCHANGED <<vars, gatewayVars, mainVars, running_>>

WaitForEvent == logger = "exited"    \* mutation: recv has no timeout
TimedOut == logger = "receive" /\ inbox["logger"] = <<>>

LoggerTimeout ==
    /\ TimedOut
    /\ logger' = "top"
    /\ UNCHANGED <<vars, gatewayVars, mainVars, running_, log, eventVars>>
=============================================================================
