------------------------------ MODULE Gateway ------------------------------
(***************************************************************************)
(* The threads of the HTTP server and what they share: one thread per      *)
(* request, which passes the rate limiter and then trades or arms an       *)
(* alert, and one thread per event stream, fed by the bus.  An order is    *)
(* taken to meet one resting order, at its price; OMS says how it comes to *)
(* that.  It publishes three events: the trade, what has become of the     *)
(* resting order, and what has become of itself.                           *)
(*                                                                         *)
(* A step ends where the interpreter may switch threads and somebody else  *)
(* could notice: the clock is read before the limiter's lock, subscribers  *)
(* are copied under the bus's lock and served after it, the alert table is *)
(* walked without one, and the number of a trade or of an alert is read    *)
(* before it is filed.                                                     *)
(*                                                                         *)
(* Tokens are counted in ticks of the clock: a token is worth RefillTime.  *)
(***************************************************************************)
EXTENDS Integers, SequencesExt

CONSTANTS Worker,          \* threads that serve a request
          Stream,          \* threads that serve /stream, and their clients
          Request,         \* what clients post
          Wanted,          \* the symbols each stream asks for, all of them if none
          Durable,         \* the trades are written to a database
          Capacity, RefillTime,
          QueueSize,       \* of a subscriber: EventBus's maxsize
          MaxRequests,     \* of each kind
          MaxClock

Kind == {"order", "alert"}

ASSUME GatewayAssumption ==
    /\ Capacity \in Nat \ {0} /\ RefillTime \in Nat \ {0}
    /\ QueueSize \in Nat \ {0} /\ Durable \in BOOLEAN
    /\ \A req \in Request : req.kind \in Kind
    /\ MaxRequests \in [Kind -> Nat]

VARIABLES clock,
          reading,         \* per worker, the clock as allow read it
          bucket,          \* the limiter's entry for the client's address
          task,            \* per worker, the request it is at
          next_seq,        \* TradeLog: the next number
          recorded,        \* the numbers of the trades recorded
          published,       \* history: how many events were published
          alerts, next_id, \* AlertEngine: the table in insertion order, the next number
          fired,           \* AlertEngine._fired
          subscribers, queue,
          stream,          \* per stream thread, "off", "on" or "closed"
          client,          \* "here", "left", or "reset" once a write met nobody
          requests,        \* per kind, how many requests came
          granted,         \* history: clock readings of the requests let through
          replaced,        \* history: alerts filed over by another of the same number
          overlooked,      \* history: alerts that complete walks reached and did not fire
          owed             \* history: per stream, the events published since it subscribed
                           \* that were not taken to be written and not dropped

limiter == <<clock, reading, bucket, granted>>
alerting == <<alerts, next_id, fired, replaced, overlooked>>
trades == <<next_seq, recorded>>
bus == <<published, subscribers, queue, owed>>
streaming == <<stream, client>>
vars == <<limiter, task, trades, alerting, bus, streaming, requests>>

NoBucket == [level |-> -1, last |-> -1]
NoEvent == [kind |-> "none", seq |-> 0, symbol |-> "none", tag |-> 0]
NoRequest == [kind |-> "none", symbol |-> "none", price |-> 0, op |-> "none"]
NoTask == [at |-> "idle", req |-> NoRequest, event |-> NoEvent, todo |-> {},
           size |-> 0, pos |-> 0, reached |-> {}]

Init ==
    /\ clock = 0 /\ reading = [w \in Worker |-> 0] /\ bucket = NoBucket /\ granted = <<>>
    /\ task = [w \in Worker |-> NoTask]
    /\ next_seq = 1 /\ recorded = {} /\ published = 0
    /\ alerts = <<>> /\ next_id = 1 /\ fired = <<>>
    /\ replaced = {} /\ overlooked = {}
    /\ subscribers = {}
    /\ queue = [c \in Stream |-> <<>>] /\ owed = [c \in Stream |-> {}]
    /\ stream = [c \in Stream |-> "off"] /\ client = [c \in Stream |-> "here"]
    /\ requests = [kind \in Kind |-> 0]

Tick ==
    /\ clock < MaxClock /\ clock' = clock + 1
    /\ UNCHANGED <<reading, bucket, granted, task, trades, alerting, bus, streaming, requests>>

Goto(w, at) == task' = [task EXCEPT ![w].at = at]
Done(w) == task' = [task EXCEPT ![w] = NoTask]

-----------------------------------------------------------------------------
(* do_POST and RateLimiter.allow *)

do_POST(w, req) ==
    /\ requests[req.kind] < MaxRequests[req.kind]
    /\ requests' = [requests EXCEPT ![req.kind] = @ + 1]
    /\ task[w] = NoTask
    /\ task' = [task EXCEPT ![w] = [NoTask EXCEPT !.at = "limit", !.req = req]]
    /\ reading' = [reading EXCEPT ![w] = clock]
    /\ UNCHANGED <<clock, bucket, granted, trades, alerting, bus, streaming>>

RefilledNeverLess(b, now) ==    \* mutation: time that runs backwards refills nothing
    Min({Capacity * RefillTime, b.level + Max({0, now - b.last})})
Refilled(b, now) == Min({Capacity * RefillTime, b.level + (now - b.last)})

Level(now) == IF bucket = NoBucket THEN Capacity * RefillTime ELSE Refilled(bucket, now)

allow(w) ==
    LET now == reading[w]
        level == Level(now)
    IN  /\ task[w].at = "limit"
        /\ IF level < RefillTime
           THEN /\ bucket' = [level |-> level, last |-> now]
                /\ Done(w)
                /\ UNCHANGED granted
           ELSE /\ bucket' = [level |-> level - RefillTime, last |-> now]
                /\ granted' = Append(granted, now)
                /\ Goto(w, task[w].req.kind)
        /\ UNCHANGED <<clock, reading, trades, alerting, bus, streaming, requests>>

-----------------------------------------------------------------------------
(* TradeLog.record, with OMS._settle around it *)

\* The clock is called between the reading of the number and its increment.
NumberTrade(w) ==
    /\ task[w].at = "order"
    /\ task' = [task EXCEPT ![w].at = "record", ![w].pos = next_seq]
    /\ UNCHANGED <<limiter, trades, alerting, bus, streaming, requests>>

\* A number is the key of its row: a second row of it is refused, in the middle of the
\* order's settlement.
RecordTrade(w) ==
    /\ task[w].at = "record"
    /\ next_seq' = next_seq + 1
    /\ recorded' = recorded \cup {task[w].pos}
    /\ IF Durable /\ task[w].pos \in recorded THEN Done(w) ELSE Goto(w, "settled")
    /\ UNCHANGED <<limiter, alerting, bus, streaming, requests>>

-----------------------------------------------------------------------------
(* EventBus.publish, as OMS._settle and OMS._save use it *)

\* The subscribers are copied under the lock.  History: the event's tag is its own.
publish(w, kind, seq) ==
    LET event == [kind |-> kind, seq |-> seq, symbol |-> task[w].req.symbol,
                  tag |-> published + 1]
    IN  /\ published' = published + 1
        /\ owed' = [c \in Stream |-> IF c \in subscribers THEN owed[c] \cup {event} ELSE owed[c]]
        /\ task' = [task EXCEPT ![w].at = "put", ![w].event = event, ![w].todo = subscribers]
        /\ UNCHANGED <<limiter, trades, alerting, subscribers, queue, streaming, requests>>

HasPut(w, kind) == task[w].at = "put" /\ task[w].todo = {} /\ task[w].event.kind = kind

PublishTrade(w) == task[w].at = "settled" /\ publish(w, "trade", task[w].pos)
SaveResting(w) == HasPut(w, "trade") /\ publish(w, "resting", 0)
SaveIncoming(w) == task[w].at = "save" /\ publish(w, "incoming", 0)

EndOrder(w) ==
    /\ HasPut(w, "incoming")
    /\ Done(w)
    /\ UNCHANGED <<limiter, trades, alerting, bus, streaming, requests>>

Full(c) == Len(queue[c]) >= QueueSize

OldestOut(c, event) ==    \* mutation: a full queue makes room
    [queue EXCEPT ![c] = IF Full(c) THEN Append(Tail(@), event) ELSE Append(@, event)]
\* A full queue loses the new event, not the oldest.
put_nowait(c, event) == IF Full(c) THEN queue ELSE [queue EXCEPT ![c] = Append(@, event)]

PutEvent(w, c) ==
    /\ task[w].at = "put" /\ c \in task[w].todo
    /\ queue' = put_nowait(c, task[w].event)
    /\ owed' = IF Full(c) THEN [owed EXCEPT ![c] = @ \ {task[w].event}] ELSE owed
    /\ task' = [task EXCEPT ![w].todo = @ \ {c}]
    /\ UNCHANGED <<limiter, trades, alerting, published, subscribers, streaming, requests>>

-----------------------------------------------------------------------------
(* AlertEngine *)

Reached(a, symbol, price) ==
    /\ a.symbol = symbol
    /\ IF a.op = "above" THEN price >= a.price ELSE price <= a.price
Triggers(w, a) == a.status = "armed" /\ Reached(a, task[w].req.symbol, task[w].req.price)

\* The walk remembers how many entries there were.
on_trade(w) ==
    /\ HasPut(w, "resting")
    /\ task' = [task EXCEPT
          ![w].at = "walk", ![w].pos = 1, ![w].size = Len(alerts),
          ![w].reached = {alerts[i].tag : i \in {j \in DOMAIN alerts : Triggers(w, alerts[j])}}]
    /\ UNCHANGED <<limiter, trades, alerting, bus, streaming, requests>>

SkipAfterFire(w, fires) ==    \* mutation: a fired alert leaves the list that is walked
    IF fires THEN task[w].pos + 2 ELSE task[w].pos + 1
NextPos(w, fires) == task[w].pos + 1

VisitAlert(w) ==
    /\ task[w].at = "walk" /\ Len(alerts) = task[w].size /\ task[w].pos <= Len(alerts)
    /\ LET a == alerts[task[w].pos]
       IN  /\ task' = [task EXCEPT ![w].pos = NextPos(w, Triggers(w, a))]
           /\ IF Triggers(w, a)
              THEN /\ alerts' = [alerts EXCEPT ![task[w].pos].status = "fired"]
                   /\ fired' = Append(fired, a.tag)
              ELSE UNCHANGED <<alerts, fired>>
    /\ UNCHANGED <<limiter, trades, next_id, replaced, overlooked, bus, streaming,
                   requests>>

\* A table that grew under the walk raises, in the middle of the order's settlement.
EndWalk(w) ==
    /\ task[w].at = "walk"
    /\ Len(alerts) # task[w].size \/ task[w].pos > Len(alerts)
    /\ IF Len(alerts) = task[w].size
       THEN /\ overlooked' = overlooked \cup (task[w].reached \ (ToSet(fired) \cup replaced))
            /\ Goto(w, "save")
       ELSE Done(w) /\ UNCHANGED overlooked
    /\ UNCHANGED <<limiter, trades, alerts, next_id, fired, replaced, bus, streaming, requests>>

NumberAlert(w) ==
    /\ task[w].at = "alert"
    /\ task' = [task EXCEPT ![w].at = "file", ![w].pos = next_id]
    /\ UNCHANGED <<limiter, trades, alerting, bus, streaming, requests>>

FileAlert(w) ==
    LET req == task[w].req
        id == task[w].pos
        a == [id |-> id, tag |-> Len(alerts) + Cardinality(replaced) + 1,
              symbol |-> req.symbol, op |-> req.op, price |-> req.price, status |-> "armed"]
        same == {i \in DOMAIN alerts : alerts[i].id = id}
    IN  /\ task[w].at = "file"
        /\ IF same = {}
           THEN alerts' = Append(alerts, a) /\ UNCHANGED replaced
           ELSE /\ alerts' = [i \in DOMAIN alerts |-> IF i \in same THEN a ELSE alerts[i]]
                /\ replaced' = replaced \cup {alerts[i].tag : i \in same}
        /\ next_id' = next_id + 1
        /\ Done(w)
        /\ UNCHANGED <<limiter, trades, fired, overlooked, bus, streaming, requests>>

-----------------------------------------------------------------------------
(* _stream *)

\* With the greeting: the first write never fails.
subscribe(c) ==
    /\ stream[c] = "off"
    /\ subscribers' = subscribers \cup {c}
    /\ stream' = [stream EXCEPT ![c] = "on"]
    /\ UNCHANGED <<limiter, task, trades, alerting, published, queue, owed, client, requests>>

Passes(c, event) == Wanted[c] = {} \/ event.symbol \in Wanted[c]

\* The first write to a client that has left succeeds; its answer makes the next one fail,
\* and then the thread leaves the bus.
Write(c) ==
    IF client[c] = "reset"
    THEN /\ subscribers' = subscribers \ {c}
         /\ stream' = [stream EXCEPT ![c] = "closed"]
         /\ UNCHANGED client
    ELSE /\ client' = [client EXCEPT ![c] = IF @ = "left" THEN "reset" ELSE @]
         /\ UNCHANGED <<subscribers, stream>>

\* An event of another symbol is taken and nothing is written.
SendEvent(c) ==
    /\ stream[c] = "on" /\ queue[c] # <<>>
    /\ queue' = [queue EXCEPT ![c] = Tail(@)]
    /\ owed' = [owed EXCEPT ![c] = @ \ {Head(queue[c])}]
    /\ IF Passes(c, Head(queue[c])) THEN Write(c) ELSE UNCHANGED <<subscribers, streaming>>
    /\ UNCHANGED <<limiter, task, trades, alerting, published, requests>>

WaitsForEver(c) == FALSE    \* mutation: get without a timeout
TimedOut(c) == stream[c] = "on" /\ queue[c] = <<>>

Heartbeat(c) ==
    /\ TimedOut(c)
    /\ Write(c)
    /\ UNCHANGED <<limiter, task, trades, alerting, published, queue, owed, requests>>

ClientLeaves(c) ==
    /\ client[c] = "here" /\ stream[c] # "off"
    /\ client' = [client EXCEPT ![c] = "left"]
    /\ UNCHANGED <<limiter, task, trades, alerting, bus, stream, requests>>

StreamStep(c) == SendEvent(c) \/ Heartbeat(c)

Next ==
    \/ Tick
    \/ \E w \in Worker, req \in Request : do_POST(w, req)
    \/ \E w \in Worker : allow(w)
    \/ \E w \in Worker : NumberTrade(w)
    \/ \E w \in Worker : RecordTrade(w)
    \/ \E w \in Worker : PublishTrade(w)
    \/ \E w \in Worker : SaveResting(w)
    \/ \E w \in Worker : SaveIncoming(w)
    \/ \E w \in Worker : EndOrder(w)
    \/ \E w \in Worker, c \in Stream : PutEvent(w, c)
    \/ \E w \in Worker : on_trade(w)
    \/ \E w \in Worker : VisitAlert(w)
    \/ \E w \in Worker : EndWalk(w)
    \/ \E w \in Worker : NumberAlert(w)
    \/ \E w \in Worker : FileAlert(w)
    \/ \E c \in Stream : subscribe(c)
    \/ \E c \in Stream : SendEvent(c)
    \/ \E c \in Stream : Heartbeat(c)
    \/ \E c \in Stream : ClientLeaves(c)

\* Threads of streams get their turn, and get gives up after fifteen seconds.
Spec == Init /\ [][Next]_vars /\ \A c \in Stream : WF_vars(StreamStep(c))

-----------------------------------------------------------------------------
\* RateLimiter.allow lets no more requests through, over any stretch of the clock as the
\* requests read it, than a full bucket and what the stretch refills - however late a
\* request that has read the clock gets to the lock.
LimiterBound ==
    \A first, last \in DOMAIN granted :
        first <= last =>
            (last - first + 1) * RefillTime
                <= Capacity * RefillTime + granted[last] - granted[first]

\* publish and _stream: what a stream is owed - every event published since it subscribed
\* that it has not taken, but for those that found its queue full - is waiting in its queue
\* or in a publisher's hands, in one place and once.  So what waits is never dropped to make
\* room, nothing comes twice, and nothing else is lost.
InHand(c) == {task[w].event : w \in {v \in Worker : task[v].at = "put" /\ c \in task[v].todo}}
StreamIsComplete ==
    \A c \in subscribers :
        /\ owed[c] = ToSet(queue[c]) \cup InHand(c)
        /\ IsInjective(queue[c]) /\ ToSet(queue[c]) \cap InHand(c) = {}

\* A stream whose client has gone is unsubscribed, by the heartbeat if nothing else is
\* written, once the events it does not want pause for as long as get waits.
DeadClientsLeave ==
    \A c \in Stream :
        client[c] # "here" /\ c \in subscribers ~> c \notin subscribers

\* on_trade: a walk that is not cut short by a new alert fires every armed alert its trade
\* reached, whatever other trades fire meanwhile; none fires twice.
ReachedAlertsFire == overlooked = {} /\ IsInjective(fired)
=============================================================================
