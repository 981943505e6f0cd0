---------------------------- MODULE EngineProofs ----------------------------
(***************************************************************************)
(* Theorems about the C++ side, each for all values of the constants.      *)
(*                                                                         *)
(* First the book alone: the pointers, lookup table and published events   *)
(* of LimitOrderBook, for any Order objects, ids, prices and quantities,   *)
(* ids used twice included, and that they implement the abstract venue.    *)
(*                                                                         *)
(* Then the process around it: the value limit of the static checks, the   *)
(* streams of published events, and the orders of every client on their    *)
(* way from its socket to the loop.                                        *)
(***************************************************************************)
EXTENDS Bridge, SumTheorems, SequenceTheorems, TLAPS

Status == {"New", "Partial", "Filled"}
Order == [id : OrderId, side : Side, price : Price, quantity : Nat, status : Status]
Node == [iterator : Nat, order : Slot]
Level == [orders : Seq(Node), total : Int, kept : Int]
LookupEntry == [price : Price, iterator : Nat, side : Side]
PublishedTrade == [buy : OrderId, sell : OrderId, quantity : Nat]

Typed ==
    /\ order \in [Slot -> Order \cup {NoOrder}]
    /\ levels \in [Side -> UNION {[D -> Level] : D \in SUBSET Price}]
    /\ \A side \in Side : IsFiniteSet(DOMAIN levels[side])
    /\ lookup \in UNION {[D -> LookupEntry] : D \in SUBSET OrderId}
    /\ nodes \in Nat
    /\ taker \in Slot \cup {0}
    /\ trades \in Seq(PublishedTrade) /\ tape \in Seq(PublishedTrade)
    /\ feed \in [Slot -> Order \cup {NoOrder}]
    /\ asked \in [Slot -> Nat]

Used(s) == order[s] # NoOrder

\* Order objects are used one after the other, and the one being processed is the last.
SlotsInOrder ==
    /\ \A r, s \in Slot : Used(s) /\ r < s => Used(r)
    /\ taker # 0 => Used(taker) /\ \A r \in Slot : Used(r) => r <= taker
    /\ IsFiniteSet({s \in Slot : Used(s)})

Queue(side, price) == IF price \in DOMAIN levels[side] THEN levels[side][price].orders ELSE <<>>
NoEmptyLevels == \A side \in Side : \A p \in DOMAIN levels[side] : Queue(side, p) # <<>>

\* A node points at an open order of its side and price, never at the one being processed.
Points(n, side, p) ==
    /\ Used(n.order) /\ n.order # taker /\ n.iterator <= nodes
    /\ order[n.order].side = side /\ order[n.order].price = p /\ order[n.order].quantity > 0
NodesPointAtOrders ==
    \A side \in Side, p \in Price : \A k \in 1 .. Len(Queue(side, p)) :
        Points(Queue(side, p)[k], side, p)

\* A queue is in the order of submission and of its nodes' numbers.
QueuesInOrder ==
    \A side \in Side, p \in Price : \A j, k \in 1 .. Len(Queue(side, p)) :
        j < k => /\ Queue(side, p)[j].order < Queue(side, p)[k].order
                 /\ Queue(side, p)[j].iterator < Queue(side, p)[k].iterator

OthersAreAnnounced == \A s \in Slot : s # taker => feed[s] = order[s]

BookInv ==
    /\ Typed /\ SlotsInOrder /\ NoEmptyLevels /\ NodesPointAtOrders /\ QueuesInOrder
    /\ LookupIsLive /\ EveryOrderCancelable /\ OthersAreAnnounced

-----------------------------------------------------------------------------
LEMMA Numbers ==
    /\ \A s \in Slot : s \in Int /\ s \in Nat /\ s > 0
    /\ \A id \in OrderId : id \in Nat
    /\ \A p \in Price : p \in Int /\ p \in Nat /\ p > 0
    /\ \A q \in Quantity : q \in Int /\ q \in Nat /\ q > 0
BY LimitOrderBookAssumption

\* The empty map is the empty sequence.
LEMMA EmptyFunction == \A S : \A f \in [{} -> S] : f = <<>>
<1> SUFFICES ASSUME NEW S, NEW f \in [{} -> S] PROVE f = <<>>
  OBVIOUS
<1>1. f \in [1 .. 0 -> S]
  <2>1. 1 .. 0 = {}
    OBVIOUS
  <2> QED
    BY <2>1
<1>2. f \in Seq(S)
  BY <1>1, SeqDef, 0 \in Nat
<1>3. DOMAIN f = 1 .. Len(f)
  BY <1>2, LenProperties
<1>4. Len(f) \notin Nat \ {0}
  <2> SUFFICES ASSUME Len(f) \in Nat \ {0} PROVE FALSE
    OBVIOUS
  <2>1. 1 \in 1 .. Len(f)
    OBVIOUS
  <2> QED
    BY <1>3, <2>1
<1> QED
  BY <1>2, <1>4, EmptySeq

\* best is one of the prices with a level, and none is better.
LEMMA BestIsBest ==
    ASSUME Typed, NEW side \in Side, levels[side] # <<>>
    PROVE  /\ best(side) \in DOMAIN levels[side] /\ best(side) \in Price
           /\ \A p \in DOMAIN levels[side] :
                IF side = "buy" THEN best(side) >= p ELSE best(side) <= p
<1> DEFINE D == DOMAIN levels[side]
<1>1. D \in SUBSET Price /\ IsFiniteSet(D)
  BY DEF Typed
<1>2. D # {}
  <2>1. PICK E \in SUBSET Price : levels[side] \in [E -> Level]
    BY DEF Typed
  <2>2. E # {}
    BY <2>1, EmptyFunction
  <2> QED
    BY <2>1, <2>2
<1> HIDE DEF D
<1>3. \A p \in D : p \in Int
  BY <1>1, LimitOrderBookAssumption
<1>4. \E x \in D : \A y \in D : x >= y
  BY <1>1, <1>2, <1>3, LargestExists
<1>5. \E x \in D : \A y \in D : x <= y
  BY <1>1, <1>2, <1>3, SmallestExists
<1>6. Max(D) \in D /\ \A y \in D : Max(D) >= y
  BY <1>4 DEF Max
<1>7. Min(D) \in D /\ \A y \in D : Min(D) <= y
  BY <1>5 DEF Min
<1>8. best(side) = IF side = "buy" THEN Max(D) ELSE Min(D)
  BY DEF best, Side, D
<1> QED
  BY <1>1, <1>6, <1>7, <1>8 DEF D

\* Writing a level changes one queue and no other, and leaves no level empty.
LEMMA LevelIsSet ==
    ASSUME Typed, NoEmptyLevels, NEW side \in Side, NEW price \in Price, NEW level \in Level,
           levels' = SetLevel(side, price, level)
    PROVE  /\ levels' \in [Side -> UNION {[D -> Level] : D \in SUBSET Price}]
           /\ \A s \in Side : IsFiniteSet(DOMAIN levels'[s])
           /\ NoEmptyLevels'
           /\ Queue(side, price)' = level.orders
           /\ price \in DOMAIN levels'[side] => levels'[side][price] = level
           /\ \A s \in Side, p \in Price : s # side \/ p # price =>
                /\ Queue(s, p)' = Queue(s, p)
                /\ p \in DOMAIN levels'[s] <=> p \in DOMAIN levels[s]
                /\ p \in DOMAIN levels[s] => levels'[s][p] = levels[s][p]
<1> DEFINE old == levels[side]
           new == IF level.orders = <<>> THEN Without(old, price) ELSE With(old, price, level)
<1>1. levels' = [levels EXCEPT ![side] = new]
  BY DEF SetLevel
<1>2. PICK D \in SUBSET Price : old \in [D -> Level] /\ IsFiniteSet(D)
  BY DEF Typed
<1>3. /\ \E E \in SUBSET Price : new \in [E -> Level] /\ IsFiniteSet(E)
      /\ price \in DOMAIN new <=> level.orders # <<>>
      /\ price \in DOMAIN new => new[price] = level
      /\ \A p \in Price : p # price =>
           /\ p \in DOMAIN new <=> p \in DOMAIN old
           /\ p \in DOMAIN old => new[p] = old[p]
  <2>1. CASE level.orders = <<>>
    <3>1. new = [y \in D \ {price} |-> old[y]]
      BY <1>2, <2>1 DEF Without
    <3>2. IsFiniteSet(D \ {price})
      BY <1>2, FS_Subset
    <3> QED
      BY <1>2, <2>1, <3>1, <3>2
  <2>2. CASE level.orders # <<>>
    <3>1. new = [y \in D \cup {price} |-> IF y = price THEN level ELSE old[y]]
      BY <1>2, <2>2 DEF With
    <3>2. IsFiniteSet(D \cup {price})
      BY <1>2, FS_AddElement
    <3> QED
      BY <1>2, <2>2, <3>1, <3>2
  <2> QED
    BY <2>1, <2>2
<1> HIDE DEF new
<1>4. levels'[side] = new /\ \A s \in Side : s # side => levels'[s] = levels[s]
  BY <1>1 DEF Typed
<1>5. levels' \in [Side -> UNION {[D2 -> Level] : D2 \in SUBSET Price}]
  BY <1>1, <1>3 DEF Typed
<1>6. \A s \in Side : IsFiniteSet(DOMAIN levels'[s])
  BY <1>3, <1>4 DEF Typed
<1>7. Queue(side, price)' = level.orders
  BY <1>3, <1>4 DEF Queue
<1>8. \A s \in Side, p \in Price : s # side \/ p # price =>
        /\ Queue(s, p)' = Queue(s, p)
        /\ p \in DOMAIN levels'[s] <=> p \in DOMAIN levels[s]
        /\ p \in DOMAIN levels[s] => levels'[s][p] = levels[s][p]
  BY <1>3, <1>4 DEF Queue
<1>9. NoEmptyLevels'
  <2> SUFFICES ASSUME NEW s \in Side, NEW p \in DOMAIN levels'[s] PROVE Queue(s, p)' # <<>>
    BY DEF NoEmptyLevels
  <2>1. p \in Price
    BY <1>5
  <2>2. CASE s = side /\ p = price
    BY <1>3, <1>4, <1>7, <2>2
  <2>3. CASE ~(s = side /\ p = price)
    BY <1>8, <2>1, <2>3 DEF NoEmptyLevels
  <2> QED
    BY <2>2, <2>3
<1>10. price \in DOMAIN levels'[side] => levels'[side][price] = level
  BY <1>3, <1>4
<1> QED
  BY <1>5, <1>6, <1>7, <1>8, <1>9, <1>10

-----------------------------------------------------------------------------
LEMMA QueueType ==
    ASSUME Typed, NEW side \in Side, NEW p \in Price
    PROVE  /\ Queue(side, p) \in Seq(Node)
           /\ Len(Queue(side, p)) \in Nat
           /\ \A k \in 1 .. Len(Queue(side, p)) :
                /\ Queue(side, p)[k] \in Node
                /\ Queue(side, p)[k].order \in Slot /\ Queue(side, p)[k].iterator \in Nat
           /\ p \notin DOMAIN levels[side] => Len(Queue(side, p)) = 0
           /\ p \in DOMAIN levels[side] =>
                levels[side][p] \in Level /\ Queue(side, p) = levels[side][p].orders
<1>1. PICK E \in SUBSET Price : levels[side] \in [E -> Level]
  BY DEF Typed
<1>2. p \in DOMAIN levels[side] => levels[side][p] \in Level
  BY <1>1
<1>3. Queue(side, p) \in Seq(Node)
  BY <1>2, EmptySeq DEF Queue, Level
<1>4. Len(Queue(side, p)) \in Nat
  BY <1>3, LenProperties
<1>5. \A k \in 1 .. Len(Queue(side, p)) : Queue(side, p)[k] \in Node
  BY <1>3, ElementOfSeq
<1> QED
  BY <1>2, <1>3, <1>4, <1>5, EmptySeq DEF Queue, Node

\* An order that exists is well typed.
LEMMA OrderType ==
    ASSUME Typed, NEW s \in Slot
    PROVE  Used(s) <=> order[s] \in Order
BY LimitOrderBookAssumption DEF Typed, Used, Order, NoOrder

\* The nodes of a queue are its elements.
LEMMA NodesOfQueue ==
    ASSUME Typed, NEW side \in Side, NEW p \in DOMAIN levels[side]
    PROVE  /\ p \in Price
           /\ NodesAt(side, p) = {Queue(side, p)[k] : k \in 1 .. Len(Queue(side, p))}
<1>1. PICK E \in SUBSET Price : levels[side] \in [E -> Level]
  BY DEF Typed
<1>2. p \in Price /\ Queue(side, p) = levels[side][p].orders
  BY <1>1 DEF Queue
<1>3. DOMAIN Queue(side, p) = 1 .. Len(Queue(side, p))
  BY <1>2, QueueType, LenProperties
<1> QED
  BY <1>2, <1>3 DEF NodesAt, ToSet

InQueue(s) == \E side \in Side, p \in Price : \E k \in 1 .. Len(Queue(side, p)) :
                  Queue(side, p)[k].order = s
Live(id) ==
    \E k \in 1 .. Len(Queue(lookup[id].side, lookup[id].price)) :
        LET n == Queue(lookup[id].side, lookup[id].price)[k]
        IN  n.iterator = lookup[id].iterator /\ order[n.order].id = id

LEMMA RestingIsInQueue ==
    ASSUME Typed, NEW s \in Slot
    PROVE  Resting(s) <=> InQueue(s)
<1>1. Resting(s) => InQueue(s)
  BY NodesOfQueue DEF Resting, InQueue
<1>2. InQueue(s) => Resting(s)
  <2> SUFFICES ASSUME NEW side \in Side, NEW p \in Price,
                      NEW k \in 1 .. Len(Queue(side, p)), Queue(side, p)[k].order = s
               PROVE  Resting(s)
    BY DEF InQueue
  <2>1. p \in DOMAIN levels[side]
    BY QueueType
  <2> QED
    BY <2>1, NodesOfQueue DEF Resting
<1> QED
  BY <1>1, <1>2

LEMMA EntryType ==
    ASSUME Typed, NEW id \in DOMAIN lookup
    PROVE  /\ id \in OrderId /\ lookup[id] \in LookupEntry
           /\ lookup[id].side \in Side /\ lookup[id].price \in Price
           /\ lookup[id].iterator \in Nat
<1>1. PICK D \in SUBSET OrderId : lookup \in [D -> LookupEntry]
  BY DEF Typed
<1>2. id \in OrderId /\ lookup[id] \in LookupEntry
  BY <1>1
<1> QED
  BY <1>2 DEF LookupEntry

LEMMA LookupInQueues ==
    ASSUME Typed
    PROVE  LookupIsLive <=> \A id \in DOMAIN lookup : Live(id)
<1>1. ASSUME NEW id \in DOMAIN lookup, Live(id)
      PROVE  /\ lookup[id].price \in DOMAIN levels[lookup[id].side]
             /\ \E n \in NodesAt(lookup[id].side, lookup[id].price) :
                   n.iterator = lookup[id].iterator /\ order[n.order].id = id
  <2>1. lookup[id].price \in DOMAIN levels[lookup[id].side]
    BY <1>1, EntryType, QueueType DEF Live
  <2> QED
    BY <1>1, <2>1, EntryType, NodesOfQueue DEF Live
<1>2. ASSUME NEW id \in DOMAIN lookup, lookup[id].price \in DOMAIN levels[lookup[id].side],
             \E n \in NodesAt(lookup[id].side, lookup[id].price) :
                   n.iterator = lookup[id].iterator /\ order[n.order].id = id
      PROVE  Live(id)
  BY <1>2, EntryType, NodesOfQueue DEF Live
<1> QED
  BY <1>1, <1>2 DEF LookupIsLive

\* The same of the state after a step.
Queues ==
    /\ \A side \in Side, p \in Price : /\ Queue(side, p) \in Seq(Node)
                                       /\ \A k \in 1 .. Len(Queue(side, p)) :
                                             Queue(side, p)[k].order \in Slot
    /\ \A s \in Slot : Resting(s) <=> InQueue(s)
    /\ LookupIsLive <=> \A id \in DOMAIN lookup : Live(id)

LEMMA QueuesNow == Typed => Queues
BY QueueType, RestingIsInQueue, LookupInQueues DEF Queues

LEMMA QueuesNext == Typed' => Queues'
BY QueuesNow, PTL

\* A node is in one place, and so is an order.
LEMMA OnePlace ==
    ASSUME Typed, NodesPointAtOrders, QueuesInOrder,
           NEW a \in Side, NEW p \in Price, NEW j \in 1 .. Len(Queue(a, p)),
           NEW b \in Side, NEW q \in Price, NEW k \in 1 .. Len(Queue(b, q))
    PROVE  /\ Queue(a, p)[j].order = Queue(b, q)[k].order => a = b /\ p = q /\ j = k
           /\ a = b /\ p = q /\ Queue(a, p)[j].iterator = Queue(b, q)[k].iterator => j = k
<1>1. Queue(a, p)[j].order = Queue(b, q)[k].order => a = b /\ p = q
  BY DEF NodesPointAtOrders, Points
<1>2. j \in Int /\ k \in Int /\ (j < k \/ k < j \/ j = k)
  BY QueueType
<1>3. \A m \in 1 .. Len(Queue(a, p)) :
        Queue(a, p)[m].order \in Int /\ Queue(a, p)[m].iterator \in Int
  <2>1. \A m \in 1 .. Len(Queue(a, p)) :
          Queue(a, p)[m].order \in Slot /\ Queue(a, p)[m].iterator \in Nat
    BY QueueType
  <2> QED
    BY <2>1, Numbers
<1> QED
  BY <1>1, <1>2, <1>3 DEF QueuesInOrder

-----------------------------------------------------------------------------
(* What is left of a queue that loses nodes: the front one when it is filled, any one. *)

Subqueue(r, q) ==
    \E f \in [1 .. Len(r) -> 1 .. Len(q)] :
        /\ \A j, k \in 1 .. Len(r) : j < k => f[j] < f[k]
        /\ \A k \in 1 .. Len(r) : r[k] = q[f[k]]

\* The queues keep their nodes in their order, but for those of one order (of none for 0).
QueuesDrop(gone) ==
    \A side \in Side, p \in Price :
        /\ Subqueue(Queue(side, p)', Queue(side, p))
        /\ \A k \in 1 .. Len(Queue(side, p)') : Queue(side, p)'[k].order # gone
        /\ \A j \in 1 .. Len(Queue(side, p)) : Queue(side, p)[j].order # gone =>
              \E k \in 1 .. Len(Queue(side, p)') : Queue(side, p)'[k] = Queue(side, p)[j]

LEMMA SameIsSubqueue ==
    ASSUME NEW q, Len(q) \in Nat
    PROVE  Subqueue(q, q)
<1> DEFINE f == [k \in 1 .. Len(q) |-> k]
<1>1. f \in [1 .. Len(q) -> 1 .. Len(q)]
  OBVIOUS
<1>2. \A k \in 1 .. Len(q) : f[k] = k
  OBVIOUS
<1> HIDE DEF f
<1> QED
  BY <1>1, <1>2 DEF Subqueue

LEMMA RemovedIsSubqueue ==
    ASSUME NEW S, NEW q \in Seq(S), NEW r \in Seq(S), NEW i \in 1 .. Len(q), Removed(q, i, r)
    PROVE  Subqueue(r, q)
<1> DEFINE f == [k \in 1 .. Len(r) |-> IF k < i THEN k ELSE k + 1]
<1>1. Len(q) \in Nat /\ Len(r) \in Nat /\ i \in Int
  BY LenProperties
<1>2. \A k \in 1 .. Len(r) : f[k] = IF k < i THEN k ELSE k + 1
  OBVIOUS
<1>3. f \in [1 .. Len(r) -> 1 .. Len(q)]
  BY RemovedPlaces
<1> HIDE DEF f
<1>4. \A j, k \in 1 .. Len(r) : j < k => f[j] < f[k]
  BY <1>1, <1>2
<1>5. \A k \in 1 .. Len(r) : r[k] = q[f[k]]
  BY <1>2 DEF Removed
<1> QED
  BY <1>3, <1>4, <1>5 DEF Subqueue

LEMMA DropNone ==
    ASSUME Typed, \A side \in Side, p \in Price : Queue(side, p)' = Queue(side, p)
    PROVE  QueuesDrop(0)
<1> SUFFICES ASSUME NEW side \in Side, NEW p \in Price
             PROVE  /\ Subqueue(Queue(side, p), Queue(side, p))
                    /\ \A k \in 1 .. Len(Queue(side, p)) : Queue(side, p)[k].order # 0
  BY DEF QueuesDrop
<1>1. Subqueue(Queue(side, p), Queue(side, p))
  BY QueueType, SameIsSubqueue
<1>2. \A k \in 1 .. Len(Queue(side, p)) : Queue(side, p)[k].order \in Slot
  BY QueueType
<1> QED
  BY <1>1, <1>2, Numbers

LEMMA DropOne ==
    ASSUME Typed, Typed', NodesPointAtOrders, QueuesInOrder,
           NEW side \in Side, NEW price \in Price, NEW i \in 1 .. Len(Queue(side, price)),
           Removed(Queue(side, price), i, Queue(side, price)'),
           \A s \in Side, p \in Price : s # side \/ p # price => Queue(s, p)' = Queue(s, p)
    PROVE  QueuesDrop(Queue(side, price)[i].order)
<1> DEFINE gone == Queue(side, price)[i].order
<1> SUFFICES ASSUME NEW s \in Side, NEW p \in Price
             PROVE  /\ Subqueue(Queue(s, p)', Queue(s, p))
                    /\ \A k \in 1 .. Len(Queue(s, p)') : Queue(s, p)'[k].order # gone
                    /\ \A j \in 1 .. Len(Queue(s, p)) : Queue(s, p)[j].order # gone =>
                          \E k \in 1 .. Len(Queue(s, p)') : Queue(s, p)'[k] = Queue(s, p)[j]
  BY DEF QueuesDrop
<1>1. \A j \in 1 .. Len(Queue(s, p)) :
        Queue(s, p)[j].order = gone => s = side /\ p = price /\ j = i
  BY OnePlace
<1>2. CASE s = side /\ p = price
  <2>1. Queue(side, price) \in Seq(Node)
    BY QueueType
  <2>2. Queue(side, price)' \in Seq(Node)
    BY QueuesNext DEF Queues
  <2>3. Subqueue(Queue(side, price)', Queue(side, price))
    BY <2>1, <2>2, RemovedIsSubqueue
  <2>4. ASSUME NEW k \in 1 .. Len(Queue(side, price)')
        PROVE  Queue(side, price)'[k].order # gone
    <3>1. /\ (IF k < i THEN k ELSE k + 1) \in (1 .. Len(Queue(side, price))) \ {i}
          /\ Queue(side, price)'[k] = Queue(side, price)[IF k < i THEN k ELSE k + 1]
      BY <2>1, <2>2, RemovedPlaces
    <3> QED
      BY <1>1, <1>2, <3>1
  <2>5. ASSUME NEW j \in 1 .. Len(Queue(side, price)), Queue(side, price)[j].order # gone
        PROVE  \E k \in 1 .. Len(Queue(side, price)') :
                  Queue(side, price)'[k] = Queue(side, price)[j]
    <3>1. j \in (1 .. Len(Queue(side, price))) \ {i}
      BY <2>5
    <3> QED
      BY <2>1, <2>2, <3>1, RemovedPlaces
  <2> QED
    BY <1>2, <2>3, <2>4, <2>5
<1>3. CASE ~ (s = side /\ p = price)
  <2>1. Queue(s, p)' = Queue(s, p)
    BY <1>3
  <2>2. Subqueue(Queue(s, p), Queue(s, p))
    BY QueueType, SameIsSubqueue
  <2> QED
    BY <1>1, <1>3, <2>1, <2>2
<1> QED
  BY <1>2, <1>3

\* What a dropped node leaves true of the nodes that stay.
LEMMA DropKeepsQueues ==
    ASSUME Typed, Typed', NodesPointAtOrders, QueuesInOrder,
           NEW gone, QueuesDrop(gone), nodes' = nodes, taker' = taker,
           \A s \in Slot : Used(s) =>
              /\ Used(s)' /\ order'[s].side = order[s].side /\ order'[s].price = order[s].price
              /\ s # gone /\ s # taker /\ order[s].quantity > 0 => order'[s].quantity > 0
    PROVE  NodesPointAtOrders' /\ QueuesInOrder'
<1> SUFFICES ASSUME NEW side \in Side, NEW p \in Price
             PROVE  /\ \A k \in 1 .. Len(Queue(side, p)') : Points(Queue(side, p)[k], side, p)'
                    /\ \A j, k \in 1 .. Len(Queue(side, p)') : j < k =>
                        /\ Queue(side, p)'[j].order < Queue(side, p)'[k].order
                        /\ Queue(side, p)'[j].iterator < Queue(side, p)'[k].iterator
  BY DEF NodesPointAtOrders, QueuesInOrder
<1>1. PICK f \in [1 .. Len(Queue(side, p)') -> 1 .. Len(Queue(side, p))] :
        /\ \A j, k \in 1 .. Len(Queue(side, p)') : j < k => f[j] < f[k]
        /\ \A k \in 1 .. Len(Queue(side, p)') : Queue(side, p)'[k] = Queue(side, p)[f[k]]
  BY DEF QueuesDrop, Subqueue
<1>2. \A k \in 1 .. Len(Queue(side, p)') : f[k] \in 1 .. Len(Queue(side, p))
  BY <1>1
<1>3. ASSUME NEW k \in 1 .. Len(Queue(side, p)')
      PROVE  Points(Queue(side, p)[k], side, p)'
  <2> DEFINE n == Queue(side, p)[f[k]]
  <2>1. Queue(side, p)'[k] = n /\ n.order \in Slot
    BY <1>1, <1>2, QueueType
  <2>2. Points(n, side, p)
    BY <1>2 DEF NodesPointAtOrders
  <2>3. n.order # gone
    BY <2>1 DEF QueuesDrop
  <2> HIDE DEF n
  <2> QED
    BY <2>1, <2>2, <2>3 DEF Points, Used
<1>4. ASSUME NEW j \in 1 .. Len(Queue(side, p)'), NEW k \in 1 .. Len(Queue(side, p)'), j < k
      PROVE  /\ Queue(side, p)'[j].order < Queue(side, p)'[k].order
             /\ Queue(side, p)'[j].iterator < Queue(side, p)'[k].iterator
  <2>1. f[j] < f[k] /\ Queue(side, p)'[j] = Queue(side, p)[f[j]]
        /\ Queue(side, p)'[k] = Queue(side, p)[f[k]]
    BY <1>1, <1>4
  <2> QED
    BY <1>2, <2>1 DEF QueuesInOrder
<1> QED
  BY <1>3, <1>4

\* And what it leaves true of the lookup, when the id of the dropped order leaves it.
LEMMA DropKeepsLookup ==
    ASSUME Typed, Typed', NodesPointAtOrders, QueuesInOrder, LookupIsLive, EveryOrderCancelable,
           NEW gone, QueuesDrop(gone),
           gone # 0 => gone \in Slot,
           lookup' = IF gone = 0 THEN lookup ELSE Without(lookup, order[gone].id),
           \A s \in Slot : order'[s].id = order[s].id
    PROVE  LookupIsLive' /\ EveryOrderCancelable'
<1>1. ASSUME NEW id \in DOMAIN lookup' PROVE Live(id)'
  <2>1. /\ id \in DOMAIN lookup /\ lookup'[id] = lookup[id]
        /\ gone # 0 => id # order[gone].id
    BY DEF Without
  <2>2. PICK side \in Side, p \in Price : side = lookup[id].side /\ p = lookup[id].price
    BY <2>1, EntryType
  <2>3. PICK j \in 1 .. Len(Queue(side, p)) :
           /\ Queue(side, p)[j].iterator = lookup[id].iterator
           /\ order[Queue(side, p)[j].order].id = id
    BY <2>1, <2>2, LookupInQueues DEF Live
  <2>4. Queue(side, p)[j].order \in Slot
    BY <2>2, QueueType
  <2>5. Queue(side, p)[j].order # gone
    BY <2>1, <2>3, <2>4, Numbers
  <2>6. PICK k \in 1 .. Len(Queue(side, p)') : Queue(side, p)'[k] = Queue(side, p)[j]
    BY <2>2, <2>5 DEF QueuesDrop
  <2>7. order'[Queue(side, p)'[k].order].id = id
    BY <2>3, <2>4, <2>6
  <2>8. lookup'[id].side = side /\ lookup'[id].price = p
    BY <2>1, <2>2
  <2> QED
    BY <2>1, <2>3, <2>6, <2>7, <2>8 DEF Live
<1>2. ASSUME NEW s \in Slot, Resting(s)',
             \A r \in Slot \ {s} : order'[r].id # order'[s].id
      PROVE  order'[s].id \in DOMAIN lookup'
  <2>1. InQueue(s)'
    BY <1>2, QueuesNext DEF Queues
  <2>2. PICK side \in Side, p \in Price : \E k \in 1 .. Len(Queue(side, p)') :
           Queue(side, p)'[k].order = s
    BY <2>1 DEF InQueue
  <2>3. s # gone /\ \E j \in 1 .. Len(Queue(side, p)) : Queue(side, p)[j].order = s
    BY <2>2 DEF QueuesDrop, Subqueue
  <2>4. Resting(s)
    BY <2>3, RestingIsInQueue DEF InQueue
  <2>5. order[s].id \in DOMAIN lookup
    BY <1>2, <2>4 DEF EveryOrderCancelable
  <2>6. gone # 0 => order[gone].id # order[s].id
    BY <1>2, <2>3
  <2> QED
    BY <2>5, <2>6 DEF Without
<1>3. LookupIsLive'
  BY <1>1, QueuesNext DEF Queues
<1>4. EveryOrderCancelable'
  BY <1>2 DEF EveryOrderCancelable, Resting
<1> QED
  BY <1>3, <1>4

-----------------------------------------------------------------------------
(* One turn of the loop. *)

Other == Opposite(order[taker].side)
BestPrice == best(Other)
BestLevel == levels[Other][BestPrice]
Maker == Head(BestLevel.orders).order
Qty == MatchQty(Maker)
Fills == order[Maker].quantity = Qty

LEMMA MatchSetup ==
    ASSUME BookInv, MatchFront
    PROVE  /\ taker \in Slot /\ order[taker] \in Order /\ order[taker].quantity > 0
           /\ Other \in Side /\ Other # order[taker].side
           /\ BestPrice \in Price /\ BestPrice \in DOMAIN levels[Other]
           /\ \A p \in DOMAIN levels[Other] :
                IF Other = "buy" THEN BestPrice >= p ELSE BestPrice <= p
           /\ IF order[taker].side = "buy" THEN order[taker].price >= BestPrice
              ELSE order[taker].price <= BestPrice
           /\ BestLevel \in Level /\ BestLevel.orders = Queue(Other, BestPrice) /\ BestLevel.orders # <<>>
           /\ 1 \in 1 .. Len(Queue(Other, BestPrice)) /\ Head(BestLevel.orders) = BestLevel.orders[1]
           /\ Maker \in Slot /\ Maker # taker /\ order[Maker] \in Order
           /\ Maker = Queue(Other, BestPrice)[1].order
           /\ order[Maker].side = Other /\ order[Maker].price = BestPrice
           /\ Qty \in Nat \ {0} /\ Qty <= order[taker].quantity /\ Qty <= order[Maker].quantity
           /\ Qty = order[taker].quantity \/ Qty = order[Maker].quantity
<1>1. /\ taker \in Slot /\ order[taker] \in Order /\ order[taker].quantity \in Nat \ {0}
      /\ order[taker].side \in Side
  <2>1. taker \in Slot /\ Used(taker)
    BY DEF BookInv, Typed, MatchFront, SlotsInOrder
  <2>2. order[taker] \in Order
    BY <2>1, OrderType DEF BookInv
  <2>3. order[taker].side \in Side /\ order[taker].quantity \in Nat
    BY <2>2 DEF Order
  <2>4. order[taker].quantity > 0
    BY DEF MatchFront, Marketable
  <2> QED
    BY <2>1, <2>2, <2>3, <2>4
<1>2. Other \in Side /\ Other # order[taker].side /\ levels[Other] # <<>>
  BY <1>1 DEF Other, Opposite, Side, MatchFront, Marketable
<1>3. IF order[taker].side = "buy" THEN order[taker].price >= BestPrice
      ELSE order[taker].price <= BestPrice
  BY DEF MatchFront, Marketable, Other, BestPrice
<1>4. /\ BestPrice \in Price /\ BestPrice \in DOMAIN levels[Other]
      /\ \A p \in DOMAIN levels[Other] :
           IF Other = "buy" THEN BestPrice >= p ELSE BestPrice <= p
  BY <1>2, BestIsBest DEF BookInv, BestPrice
<1>5. BestLevel \in Level /\ BestLevel.orders = Queue(Other, BestPrice)
  BY <1>2, <1>4, QueueType DEF BookInv, BestLevel
<1>6. BestLevel.orders # <<>> /\ BestLevel.orders \in Seq(Node)
  BY <1>2, <1>4, <1>5 DEF BookInv, NoEmptyLevels, Level
<1>7. 1 \in 1 .. Len(Queue(Other, BestPrice)) /\ Head(BestLevel.orders) = BestLevel.orders[1]
  BY <1>5, <1>6, TailRemoves
<1>8. Points(BestLevel.orders[1], Other, BestPrice)
  BY <1>2, <1>4, <1>5, <1>7 DEF BookInv, NodesPointAtOrders
<1>9. Maker \in Slot /\ Maker = BestLevel.orders[1].order
  BY <1>2, <1>4, <1>5, <1>7, QueueType DEF BookInv, Maker
<1>10. /\ Maker # taker /\ order[Maker] \in Order
       /\ order[Maker].side = Other /\ order[Maker].price = BestPrice
       /\ order[Maker].quantity \in Nat \ {0}
  <2>1. order[Maker] \in Order
    BY <1>8, <1>9, OrderType DEF BookInv, Points
  <2> QED
    BY <1>8, <1>9, <2>1 DEF Points, Order
<1>11. /\ Qty \in Nat \ {0} /\ Qty <= order[taker].quantity /\ Qty <= order[Maker].quantity
       /\ Qty = order[taker].quantity \/ Qty = order[Maker].quantity
  <2> DEFINE a == order[taker].quantity
             b == order[Maker].quantity
  <2>1. a \in Nat \ {0} /\ b \in Nat \ {0}
    BY <1>1, <1>10
  <2>2. Qty = Min({a, b})
    BY DEF Qty, MatchQty
  <2> HIDE DEF a, b
  <2>3. \E x \in {a, b} : \A y \in {a, b} : x <= y
    <3>1. CASE a <= b
      BY <2>1, <3>1
    <3>2. CASE b <= a
      BY <2>1, <3>2
    <3> QED
      BY <2>1, <3>1, <3>2
  <2>4. Qty \in {a, b} /\ Qty <= a /\ Qty <= b
    BY <2>2, <2>3 DEF Min
  <2> QED
    BY <2>1, <2>4 DEF a, b
<1> QED
  BY <1>1, <1>2, <1>3, <1>4, <1>5, <1>6, <1>7, <1>9, <1>10, <1>11

\* An order that trades loses quantity and nothing else but its status.
WithQuantity(o, qty, status) ==
    [id |-> o.id, side |-> o.side, price |-> o.price, quantity |-> qty, status |-> status]

LEMMA Reduced ==
    ASSUME NEW o \in Order, NEW qty \in Nat
    PROVE  /\ [o EXCEPT !.quantity = qty] = WithQuantity(o, qty, o.status)
           /\ WithQuantity(o, qty, o.status) \in Order
           /\ \A status \in Status :
                /\ [o EXCEPT !.quantity = qty, !.status = status] = WithQuantity(o, qty, status)
                /\ WithQuantity(o, qty, status) \in Order
<1>1. [o EXCEPT !.quantity = qty] = WithQuantity(o, qty, o.status)
  BY DEF Order, WithQuantity
<1>2. WithQuantity(o, qty, o.status) \in Order
  BY DEF Order, WithQuantity
<1>3. ASSUME NEW status \in Status
      PROVE  /\ [o EXCEPT !.quantity = qty, !.status = status] = WithQuantity(o, qty, status)
             /\ WithQuantity(o, qty, status) \in Order
  <2>1. [o EXCEPT !.quantity = qty, !.status = status]
          = [[o EXCEPT !.quantity = qty] EXCEPT !.status = status]
    OBVIOUS
  <2>2. [WithQuantity(o, qty, o.status) EXCEPT !.status = status] = WithQuantity(o, qty, status)
    BY DEF WithQuantity
  <2>3. WithQuantity(o, qty, status) \in Order
    BY DEF Order, WithQuantity
  <2> QED
    BY <1>1, <2>1, <2>2, <2>3
<1> QED
  BY <1>1, <1>2, <1>3

\* What the turn does to each part of the state.
LEMMA MatchStep ==
    ASSUME BookInv, MatchFront
    PROVE  /\ order' \in [Slot -> Order \cup {NoOrder}]
           /\ \A s \in Slot \ {taker, Maker} : order'[s] = order[s]
           /\ order'[taker] = WithQuantity(order[taker], order[taker].quantity - Qty,
                                           order[taker].status)
           /\ order'[Maker] = WithQuantity(order[Maker], order[Maker].quantity - Qty,
                                           IF Fills THEN "Filled" ELSE "Partial")
           /\ trades' = Append(trades, TradeOf(Maker, Qty))
           /\ lookup' = IF Fills THEN Without(lookup, order[Maker].id) ELSE lookup
           /\ levels' = SetLevel(Other, BestPrice,
                            IF Fills THEN [orders |-> Tail(BestLevel.orders), total |-> BestLevel.total,
                                           kept |-> BestLevel.kept + Qty]
                            ELSE [orders |-> BestLevel.orders, total |-> BestLevel.total - Qty,
                                  kept |-> BestLevel.kept])
           /\ feed' = [feed EXCEPT ![Maker] = order'[Maker]]
           /\ UNCHANGED <<nodes, taker, tape, asked>>
<1> DEFINE reduced == [order EXCEPT ![taker].quantity = @ - Qty]
           filled == reduced[Maker].quantity = Qty
           memory == [reduced EXCEPT
               ![Maker].quantity = IF filled THEN 0 ELSE @ - Qty,
               ![Maker].status = IF filled THEN "Filled" ELSE "Partial"]
<1>1. /\ order' = memory
      /\ trades' = Append(trades, TradeOf(Maker, Qty))
      /\ lookup' = Forget(Maker, filled)
      /\ levels' = SetLevel(Other, BestPrice,
                       IF filled THEN Keep(popFront(BestLevel, memory[Maker].quantity), Qty)
                       ELSE fillFront(BestLevel, Qty))
      /\ feed' = PublishOrderUpdate(Maker, memory)
      /\ UNCHANGED <<nodes, taker, tape, asked>>
  BY DEF MatchFront, Other, BestPrice, BestLevel, Qty, Maker
<1>2. /\ taker \in Slot /\ Maker \in Slot /\ Maker # taker
      /\ order[taker] \in Order /\ order[Maker] \in Order
      /\ Qty \in Nat \ {0} /\ Qty <= order[taker].quantity /\ Qty <= order[Maker].quantity
      /\ BestLevel \in Level /\ order \in [Slot -> Order \cup {NoOrder}]
  BY MatchSetup DEF BookInv, Typed
<1>3. reduced[Maker] = order[Maker] /\ (filled <=> Fills)
  BY <1>2 DEF Fills
<1>4. /\ \A s \in Slot \ {taker, Maker} : memory[s] = order[s]
      /\ memory[taker] = [order[taker] EXCEPT !.quantity = @ - Qty]
      /\ memory[Maker] = [order[Maker] EXCEPT !.quantity = IF filled THEN 0 ELSE @ - Qty,
                                             !.status = IF filled THEN "Filled" ELSE "Partial"]
      /\ DOMAIN memory = Slot /\ memory = [s \in Slot |-> memory[s]]
  BY <1>2 DEF Order
<1> HIDE DEF memory, reduced
<1>5. /\ order[taker].quantity - Qty \in Nat /\ order[Maker].quantity - Qty \in Nat
      /\ filled => 0 = order[Maker].quantity - Qty
  BY <1>2, <1>3 DEF Order, Fills
<1>6. /\ memory[taker] = WithQuantity(order[taker], order[taker].quantity - Qty, order[taker].status)
      /\ memory[taker] \in Order
  <2>0. PICK o \in Order : o = order[taker]
    BY <1>2
  <2>1. PICK q \in Nat : q = o.quantity - Qty
    BY <1>5, <2>0
  <2>2. memory[taker] = [o EXCEPT !.quantity = q]
    BY <1>4, <2>0, <2>1
  <2>3. memory[taker] = WithQuantity(o, q, o.status) /\ memory[taker] \in Order
    <3>1. [o EXCEPT !.quantity = q] = WithQuantity(o, q, o.status)
      BY Reduced
    <3>2. WithQuantity(o, q, o.status) \in Order
      BY Reduced
    <3> QED
      BY <2>2, <3>1, <3>2
  <2> QED
    BY <2>0, <2>1, <2>3
<1>7. /\ memory[Maker] = WithQuantity(order[Maker], order[Maker].quantity - Qty,
                                      IF Fills THEN "Filled" ELSE "Partial")
      /\ memory[Maker] \in Order
  <2>0. PICK o \in Order : o = order[Maker]
    BY <1>2
  <2>1. PICK q \in Nat : q = o.quantity - Qty
    BY <1>5, <2>0
  <2>2. PICK status \in Status : status = IF Fills THEN "Filled" ELSE "Partial"
    BY DEF Status
  <2>3. memory[Maker] = [o EXCEPT !.quantity = q, !.status = status]
    BY <1>3, <1>4, <1>5, <2>0, <2>1, <2>2
  <2>4. memory[Maker] = WithQuantity(o, q, status) /\ memory[Maker] \in Order
    <3>1. [o EXCEPT !.quantity = q, !.status = status] = WithQuantity(o, q, status)
      BY Reduced
    <3>2. WithQuantity(o, q, status) \in Order
      BY Reduced
    <3> QED
      BY <2>3, <3>1, <3>2
  <2> QED
    BY <2>0, <2>1, <2>2, <2>4
<1>8. memory \in [Slot -> Order \cup {NoOrder}]
  <2>1. \A s \in Slot : memory[s] \in Order \cup {NoOrder}
    BY <1>2, <1>4, <1>6, <1>7
  <2> QED
    BY <1>4, <2>1
<1>9. levels' = SetLevel(Other, BestPrice,
                   IF Fills THEN [orders |-> Tail(BestLevel.orders), total |-> BestLevel.total,
                                  kept |-> BestLevel.kept + Qty]
                   ELSE [orders |-> BestLevel.orders, total |-> BestLevel.total - Qty,
                         kept |-> BestLevel.kept])
  <2>1. Fills => Keep(popFront(BestLevel, memory[Maker].quantity), Qty)
                   = [orders |-> Tail(BestLevel.orders), total |-> BestLevel.total,
                      kept |-> BestLevel.kept + Qty]
    <3> SUFFICES ASSUME Fills
                 PROVE  Keep(popFront(BestLevel, memory[Maker].quantity), Qty)
                          = [orders |-> Tail(BestLevel.orders), total |-> BestLevel.total,
                             kept |-> BestLevel.kept + Qty]
      OBVIOUS
    <3>1. BestLevel.total \in Int /\ memory[Maker].quantity = 0
      BY <1>2, <1>3, <1>5, <1>7 DEF Level, WithQuantity
    <3>2. BestLevel.total - memory[Maker].quantity = BestLevel.total
      BY <3>1
    <3>3. popFront(BestLevel, memory[Maker].quantity)
            = [orders |-> Tail(BestLevel.orders), total |-> BestLevel.total,
               kept |-> BestLevel.kept]
      BY <3>2 DEF popFront
    <3> DEFINE popped == [orders |-> Tail(BestLevel.orders), total |-> BestLevel.total,
                          kept |-> BestLevel.kept]
    <3>4. [popped EXCEPT !.kept = @ + Qty]
            = [orders |-> Tail(BestLevel.orders), total |-> BestLevel.total,
               kept |-> BestLevel.kept + Qty]
      <4>1. \A o, t, k, l : [[orders |-> o, total |-> t, kept |-> k] EXCEPT !.kept = l]
                               = [orders |-> o, total |-> t, kept |-> l]
        OBVIOUS
      <4>2. [popped EXCEPT !.kept = @ + Qty] = [popped EXCEPT !.kept = BestLevel.kept + Qty]
        OBVIOUS
      <4> QED
        BY <4>1, <4>2
    <3>5. Keep(popped, Qty) = [popped EXCEPT !.kept = @ + Qty]
      BY DEF Keep
    <3> QED
      BY <3>3, <3>4, <3>5
  <2>2. fillFront(BestLevel, Qty) = [orders |-> BestLevel.orders, total |-> BestLevel.total - Qty, kept |-> BestLevel.kept]
    BY <1>2 DEF fillFront, Level
  <2> QED
    BY <1>1, <1>3, <2>1, <2>2
<1> QED
  BY <1>1, <1>3, <1>4, <1>6, <1>7, <1>8, <1>9 DEF Forget, PublishOrderUpdate

\* Ids, sides and prices stay; only the two orders of the turn lose quantity.
LEMMA MatchOrders ==
    ASSUME BookInv, MatchFront
    PROVE  \A s \in Slot :
              /\ order'[s].id = order[s].id /\ order'[s].side = order[s].side
              /\ order'[s].price = order[s].price
              /\ Used(s) => Used(s)'
              /\ Used(s)' => Used(s)
              /\ order'[s].quantity = IF s \in {taker, Maker} THEN order[s].quantity - Qty
                                      ELSE order[s].quantity
<1> SUFFICES ASSUME NEW s \in Slot
             PROVE  /\ order'[s].id = order[s].id /\ order'[s].side = order[s].side
                    /\ order'[s].price = order[s].price
                    /\ Used(s) => Used(s)'
                    /\ Used(s)' => Used(s)
                    /\ order'[s].quantity = IF s \in {taker, Maker} THEN order[s].quantity - Qty
                                            ELSE order[s].quantity
  OBVIOUS
<1>1. /\ taker \in Slot /\ Maker \in Slot /\ order[taker] \in Order /\ order[Maker] \in Order
      /\ order[taker].id # -1 /\ order[Maker].id # -1
  BY MatchSetup, Numbers DEF Order
<1>2. CASE s \notin {taker, Maker}
  BY <1>2, MatchStep DEF Used
<1>3. CASE s \in {taker, Maker}
  <2>1. PICK status : order'[s] = WithQuantity(order[s], order[s].quantity - Qty, status)
    BY <1>3, MatchStep
  <2>2. order[s].id # -1
    BY <1>1, <1>3
  <2> QED
    BY <1>3, <2>1, <2>2 DEF WithQuantity, Used, NoOrder
<1> QED
  BY <1>2, <1>3

LEMMA MatchQueues ==
    ASSUME BookInv, MatchFront,
           NEW side \in Side, NEW price \in Price, side = Other, price = BestPrice
    PROVE  /\ levels' \in [Side -> UNION {[D -> Level] : D \in SUBSET Price}]
           /\ \A s \in Side : IsFiniteSet(DOMAIN levels'[s])
           /\ NoEmptyLevels'
           /\ Queue(side, price)' = IF Fills THEN Tail(Queue(side, price)) ELSE Queue(side, price)
           /\ \A s \in Side, p \in Price : s # side \/ p # price => Queue(s, p)' = Queue(s, p)
<1> DEFINE level == IF Fills THEN [orders |-> Tail(BestLevel.orders), total |-> BestLevel.total,
                                   kept |-> BestLevel.kept + Qty]
                    ELSE [orders |-> BestLevel.orders, total |-> BestLevel.total - Qty,
                          kept |-> BestLevel.kept]
<1>1. level \in Level /\ level.orders = IF Fills THEN Tail(Queue(side, price))
                                        ELSE Queue(side, price)
  <2>1. /\ BestLevel.orders \in Seq(Node) /\ BestLevel.orders # <<>>
        /\ BestLevel.total \in Int /\ BestLevel.kept \in Int
        /\ BestLevel.orders = Queue(side, price) /\ Qty \in Int
    BY MatchSetup DEF Level
  <2>2. Tail(BestLevel.orders) \in Seq(Node)
    BY <2>1, TailRemoves
  <2> QED
    BY <2>1, <2>2 DEF Level
<1> HIDE DEF level
<1>2. levels' = SetLevel(side, price, level)
  BY MatchStep DEF level
<1>5. PICK l \in Level : l = level
  BY <1>1
<1>3. Typed /\ NoEmptyLevels
  BY DEF BookInv
<1>4. /\ levels' \in [Side -> UNION {[D -> Level] : D \in SUBSET Price}]
      /\ \A s \in Side : IsFiniteSet(DOMAIN levels'[s])
      /\ NoEmptyLevels'
      /\ Queue(side, price)' = l.orders
      /\ \A s \in Side, p \in Price : s # side \/ p # price => Queue(s, p)' = Queue(s, p)
  <2>1. levels' = SetLevel(side, price, l)
    BY <1>2, <1>5
  <2> QED
    BY <1>3, <2>1, LevelIsSet
<1> QED
  BY <1>1, <1>4, <1>5

\* A turn of the loop keeps the invariant.
\* The front node leaves its queue when its order is filled.
LEMMA MatchDrops ==
    ASSUME BookInv, Typed', MatchFront
    PROVE  QueuesDrop(IF Fills THEN Maker ELSE 0)
<1>1. PICK side \in Side, price \in Price : side = Other /\ price = BestPrice
  BY MatchSetup
<1>2. /\ 1 \in 1 .. Len(Queue(side, price)) /\ Queue(side, price) # <<>>
      /\ Maker = Queue(side, price)[1].order
  BY <1>1, MatchSetup
<1>3. \A s \in Side, p \in Price : s # side \/ p # price => Queue(s, p)' = Queue(s, p)
  BY <1>1, MatchQueues
<1>4. CASE Fills
  <2>1. Queue(side, price)' = Tail(Queue(side, price))
    BY <1>1, <1>4, MatchQueues
  <2>2. Removed(Queue(side, price), 1, Queue(side, price)')
    BY <1>2, <2>1, QueueType, TailRemoves DEF BookInv
  <2> QED
    BY <1>2, <1>3, <1>4, <2>2, DropOne DEF BookInv
<1>5. CASE ~ Fills
  <2>1. Queue(side, price)' = Queue(side, price)
    BY <1>1, <1>5, MatchQueues
  <2> QED
    BY <1>3, <1>5, <2>1, DropNone DEF BookInv
<1> QED
  BY <1>4, <1>5

LEMMA MatchKeepsInv ==
    ASSUME BookInv, MatchFront
    PROVE  BookInv'
<1>1. PICK side \in Side, price \in Price : side = Other /\ price = BestPrice
  BY MatchSetup
<1>2. /\ taker \in Slot /\ Maker \in Slot /\ Maker # taker
      /\ order[taker] \in Order /\ order[Maker] \in Order
      /\ Qty \in Nat \ {0} /\ Qty <= order[taker].quantity /\ Qty <= order[Maker].quantity
      /\ 1 \in 1 .. Len(Queue(side, price)) /\ Queue(side, price) # <<>>
      /\ Maker = Queue(side, price)[1].order
  BY <1>1, MatchSetup
<1>3. Typed'
  <2>1. trades' \in Seq(PublishedTrade)
    <3>1. TradeOf(Maker, Qty) \in PublishedTrade
      BY <1>2 DEF TradeOf, PublishedTrade, Order
    <3>2. trades \in Seq(PublishedTrade) /\ trades' = Append(trades, TradeOf(Maker, Qty))
      BY MatchStep DEF BookInv, Typed
    <3> QED
      BY <3>1, <3>2, AppendProperties
  <2>2. lookup' \in UNION {[D -> LookupEntry] : D \in SUBSET OrderId}
    <3>1. PICK D \in SUBSET OrderId : lookup \in [D -> LookupEntry]
      BY DEF BookInv, Typed
    <3>2. Without(lookup, order[Maker].id) \in [D \ {order[Maker].id} -> LookupEntry]
      BY <3>1 DEF Without
    <3>3. lookup' = Without(lookup, order[Maker].id) \/ lookup' = lookup
      BY MatchStep
    <3> QED
      BY <3>1, <3>2, <3>3
  <2>3. order' \in [Slot -> Order \cup {NoOrder}]
    BY MatchStep
  <2>4. feed' \in [Slot -> Order \cup {NoOrder}]
    BY <1>2, <2>3, MatchStep DEF BookInv, Typed
  <2>5. /\ levels' \in [Side -> UNION {[D -> Level] : D \in SUBSET Price}]
        /\ \A s \in Side : IsFiniteSet(DOMAIN levels'[s])
    BY <1>1, MatchQueues
  <2>6. UNCHANGED <<nodes, taker, tape, asked>>
    BY MatchStep
  <2> QED
    BY <2>1, <2>2, <2>3, <2>4, <2>5, <2>6 DEF BookInv, Typed
<1>4. SlotsInOrder'
  <2>1. taker' = taker /\ \A s \in Slot : Used(s)' <=> Used(s)
    BY MatchStep, MatchOrders
  <2>2. {s \in Slot : Used(s)}' = {s \in Slot : Used(s)}
    BY <2>1
  <2> QED
    <3>1. Used(taker)' <=> Used(taker)
      BY <1>2, <2>1 DEF Used
    <3> QED
      BY <2>1, <2>2, <3>1 DEF BookInv, SlotsInOrder
<1>5. NoEmptyLevels'
  BY <1>1, MatchQueues
<1>6. QueuesDrop(IF Fills THEN Maker ELSE 0)
  BY <1>3, MatchDrops
<1>7. NodesPointAtOrders' /\ QueuesInOrder'
  <2>1. nodes' = nodes /\ taker' = taker
    BY MatchStep
  <2>2. ASSUME NEW s \in Slot, Used(s)
        PROVE  /\ Used(s)' /\ order'[s].side = order[s].side /\ order'[s].price = order[s].price
               /\ s # (IF Fills THEN Maker ELSE 0) /\ s # taker /\ order[s].quantity > 0
                    => order'[s].quantity > 0
    <3>1. s = Maker /\ ~ Fills => order[s].quantity - Qty > 0
      BY <1>2 DEF Order, Fills
    <3> QED
      BY <2>2, <3>1, MatchOrders
  <2> QED
    BY <1>3, <1>6, <2>1, <2>2, DropKeepsQueues DEF BookInv
<1>8. LookupIsLive' /\ EveryOrderCancelable'
  <2> DEFINE gone == IF Fills THEN Maker ELSE 0
  <2>1. Maker # 0
    BY <1>2, Numbers
  <2>2. lookup' = IF gone = 0 THEN lookup ELSE Without(lookup, order[gone].id)
    BY <2>1, MatchStep
  <2>3. gone # 0 => gone \in Slot
    BY <1>2
  <2>4. QueuesDrop(gone)
    BY <1>6
  <2>5. \A s \in Slot : order'[s].id = order[s].id
    BY MatchOrders
  <2> HIDE DEF gone
  <2> QED
    BY <1>3, <2>2, <2>3, <2>4, <2>5, DropKeepsLookup DEF BookInv
<1>9. OthersAreAnnounced'
  BY <1>2, MatchStep DEF BookInv, Typed, OthersAreAnnounced
<1> QED
  BY <1>3, <1>4, <1>5, <1>7, <1>8, <1>9 DEF BookInv

-----------------------------------------------------------------------------
(* The other operations. *)

LEMMA InitBook == Init => BookInv
<1> SUFFICES ASSUME Init PROVE BookInv
  OBVIOUS
<1>1. levels = [side \in Side |-> <<>>] /\ lookup = <<>> /\ <<>> \in [{} -> Level]
      /\ <<>> \in [{} -> LookupEntry]
  <2>1. \A S : <<>> \in [{} -> S]
    <3> SUFFICES ASSUME NEW S PROVE <<>> \in [{} -> S]
      OBVIOUS
    <3>1. [x \in {} |-> x] \in [{} -> S] /\ [x \in {} |-> x] = <<>>
      BY EmptyFunction
    <3> QED
      BY <3>1
  <2> QED
    BY <2>1 DEF Init
<1>2. \A side \in Side : levels[side] = <<>> /\ DOMAIN levels[side] = {}
  BY <1>1
<1>3. DOMAIN lookup = {}
  BY <1>1
<1>4. \A side \in Side, p \in Price : Queue(side, p) = <<>> /\ Len(Queue(side, p)) = 0
  BY <1>2, EmptySeq DEF Queue
<1>5. Typed
  <2>1. levels \in [Side -> UNION {[D -> Level] : D \in SUBSET Price}]
    BY <1>1
  <2>2. \A side \in Side : IsFiniteSet(DOMAIN levels[side])
    BY <1>2, FS_EmptySet
  <2>3. lookup \in UNION {[D -> LookupEntry] : D \in SUBSET OrderId}
    BY <1>1
  <2> QED
    BY <2>1, <2>2, <2>3, EmptySeq DEF Typed, Init
<1>6. \A s \in Slot : ~ Used(s)
  BY DEF Init, Used
<1>7. SlotsInOrder
  <2>1. {s \in Slot : Used(s)} = {}
    BY <1>6
  <2> QED
    BY <1>6, <2>1, FS_EmptySet DEF SlotsInOrder, Init
<1>8. NoEmptyLevels
  BY <1>2 DEF NoEmptyLevels
<1>9. NodesPointAtOrders /\ QueuesInOrder
  BY <1>4 DEF NodesPointAtOrders, QueuesInOrder
<1>10. LookupIsLive
  BY <1>3 DEF LookupIsLive
<1>11. EveryOrderCancelable
  BY <1>2 DEF EveryOrderCancelable, Resting
<1>12. OthersAreAnnounced
  BY DEF Init, OthersAreAnnounced
<1> QED
  BY <1>5, <1>7, <1>8, <1>9, <1>10, <1>11, <1>12 DEF BookInv

LEMMA SubmitKeepsInv ==
    ASSUME BookInv, NEW s \in Slot, NEW id \in OrderId, NEW side \in Side, NEW price \in Price,
           NEW quantity \in Quantity, Submit(s, id, side, price, quantity)
    PROVE  BookInv'
<1> DEFINE new == [id |-> id, side |-> side, price |-> price, quantity |-> quantity,
                   status |-> "New"]
<1>1. /\ order' = [order EXCEPT ![s] = new] /\ asked' = [asked EXCEPT ![s] = quantity]
      /\ taker = 0 /\ taker' = s /\ ~ Used(s) /\ \A r \in Slot : r < s => Used(r)
      /\ UNCHANGED <<levels, lookup, nodes, trades, feed, tape>>
  BY DEF Submit, Used
<1>2. new \in Order /\ new.id # -1
  BY Numbers DEF Order, Status
<1> HIDE DEF new
<1>3. order'[s] = new /\ \A r \in Slot \ {s} : order'[r] = order[r]
  BY <1>1 DEF BookInv, Typed
<1>4. Used(s)' /\ \A r \in Slot \ {s} : Used(r)' <=> Used(r)
  BY <1>2, <1>3 DEF Used, NoOrder
<1>5. Typed'
  <2>1. order' \in [Slot -> Order \cup {NoOrder}]
    BY <1>1, <1>2 DEF BookInv, Typed
  <2>2. asked' \in [Slot -> Nat]
    BY <1>1, Numbers DEF BookInv, Typed
  <2> QED
    BY <1>1, <2>1, <2>2 DEF BookInv, Typed
<1>6. \A a \in Side, p \in Price : Queue(a, p)' = Queue(a, p)
  BY <1>1 DEF Queue
<1>7. \A a \in Side, p \in Price : \A k \in 1 .. Len(Queue(a, p)) :
        Queue(a, p)[k].order \in Slot \ {s}
  BY <1>1, QueueType DEF BookInv, NodesPointAtOrders, Points
<1>8. SlotsInOrder'
  <2>1. \A r, q \in Slot : Used(q)' /\ r < q => Used(r)'
    <3> SUFFICES ASSUME NEW r \in Slot, NEW q \in Slot, Used(q)', r < q, r # s PROVE Used(r)
      BY <1>4
    <3>1. CASE q = s
      BY <1>1, <3>1
    <3>2. CASE q # s
      BY <1>4, <3>2 DEF BookInv, SlotsInOrder
    <3> QED
      BY <3>1, <3>2
  <2>2. \A r \in Slot : Used(r)' => r <= s
    <3> SUFFICES ASSUME NEW r \in Slot, Used(r)', s < r PROVE FALSE
      BY Numbers
    <3>1. Used(r)
      BY <1>4, Numbers
    <3> QED
      BY <1>1, <3>1 DEF BookInv, SlotsInOrder
  <2>3. IsFiniteSet({r \in Slot : Used(r)'})
    <3>1. {r \in Slot : Used(r)'} = {r \in Slot : Used(r)} \cup {s}
      BY <1>4
    <3>2. IsFiniteSet({r \in Slot : Used(r)})
      BY DEF BookInv, SlotsInOrder
    <3> QED
      BY <3>1, <3>2, FS_AddElement
  <2>4. Used(taker)'
    BY <1>1, <1>4 DEF Used
  <2> QED
    BY <1>1, <2>1, <2>2, <2>3, <2>4 DEF SlotsInOrder
<1>9. NoEmptyLevels'
  BY <1>1 DEF BookInv, NoEmptyLevels, Queue
<1>10. NodesPointAtOrders' /\ QueuesInOrder'
  <2>1. ASSUME NEW a \in Side, NEW p \in Price, NEW k \in 1 .. Len(Queue(a, p))
        PROVE  Points(Queue(a, p)[k], a, p)'
    <3>1. Points(Queue(a, p)[k], a, p) /\ Queue(a, p)[k].order \in Slot \ {s}
      BY <1>7 DEF BookInv, NodesPointAtOrders
    <3> QED
      BY <1>1, <1>3, <1>4, <1>6, <3>1 DEF Points, Used
  <2> QED
    BY <1>6, <2>1 DEF BookInv, NodesPointAtOrders, QueuesInOrder
<1>11. LookupIsLive'
  <2>1. ASSUME NEW i \in DOMAIN lookup PROVE Live(i)'
    <3>1. Live(i) /\ lookup[i].side \in Side /\ lookup[i].price \in Price
      BY EntryType, LookupInQueues DEF BookInv
    <3>2. PICK a \in Side, p \in Price : a = lookup[i].side /\ p = lookup[i].price
      BY <3>1
    <3>3. PICK k \in 1 .. Len(Queue(a, p)) :
             /\ Queue(a, p)[k].iterator = lookup[i].iterator
             /\ order[Queue(a, p)[k].order].id = i
      BY <3>1, <3>2 DEF Live
    <3>4. order'[Queue(a, p)[k].order] = order[Queue(a, p)[k].order]
      BY <1>3, <1>7
    <3>5. Queue(a, p)' = Queue(a, p) /\ lookup' = lookup
      BY <1>1, <1>6
    <3> QED
      BY <3>2, <3>3, <3>4, <3>5 DEF Live
  <2> QED
    BY <1>1, <1>5, <2>1, QueuesNext DEF Queues
<1>12. EveryOrderCancelable'
  <2> SUFFICES ASSUME NEW r \in Slot, Resting(r)', \A q \in Slot \ {r} : order'[q].id # order'[r].id
               PROVE  order'[r].id \in DOMAIN lookup'
    BY DEF EveryOrderCancelable
  <2>1. Resting(r)
    BY <1>1 DEF Resting, NodesAt
  <2>2. InQueue(r)
    BY <2>1, RestingIsInQueue DEF BookInv
  <2>3. Used(r) /\ r # s
    BY <1>7, <2>2 DEF BookInv, InQueue, NodesPointAtOrders, Points
  <2>4. order[r] \in Order
    BY <2>3, OrderType DEF BookInv
  <2>5. order[r].id # -1 /\ order[s].id = -1
    BY <1>1, <2>4, Numbers DEF Order, Used, NoOrder
  <2>6. \A q \in Slot \ {r} : order[q].id # order[r].id
    BY <1>3, <2>3, <2>5
  <2> QED
    BY <1>1, <1>3, <2>1, <2>3, <2>6 DEF BookInv, EveryOrderCancelable
<1>13. OthersAreAnnounced'
  BY <1>1, <1>3, Numbers DEF BookInv, OthersAreAnnounced
<1> QED
  BY <1>5, <1>8, <1>9, <1>10, <1>11, <1>12, <1>13 DEF BookInv

\* What the end of a call does when the remainder rests: one queue grows at its end.
LEMMA RestStep ==
    ASSUME BookInv, Return, order[taker].quantity > 0,
           NEW side \in Side, NEW price \in Price,
           side = order[taker].side, price = order[taker].price
    PROVE  /\ levels' \in [Side -> UNION {[D -> Level] : D \in SUBSET Price}]
           /\ \A s \in Side : IsFiniteSet(DOMAIN levels'[s])
           /\ NoEmptyLevels'
           /\ Queue(side, price)' =
                Append(Queue(side, price), [iterator |-> nodes + 1, order |-> taker])
           /\ \A s \in Side, p \in Price : s # side \/ p # price => Queue(s, p)' = Queue(s, p)
           /\ lookup' = With(lookup, order[taker].id,
                             [price |-> price, iterator |-> nodes + 1, side |-> side])
           /\ nodes' = nodes + 1
<1> DEFINE node == [iterator |-> nodes + 1, order |-> taker]
           old == IF price \in DOMAIN levels[side] THEN levels[side][price]
                  ELSE [orders |-> <<>>, total |-> 0, kept |-> 0]
           level == addOrder(old, node, order[taker].quantity)
<1>1. /\ levels' = SetLevel(side, price, level)
      /\ lookup' = With(lookup, order[taker].id,
                        [price |-> price, iterator |-> nodes + 1, side |-> side])
      /\ nodes' = nodes + 1
  BY DEF Return, addToBook, BookSide, Side
<1>2. taker \in Slot /\ order[taker] \in Order /\ order[taker].quantity \in Nat
  <2>1. taker \in Slot /\ Used(taker)
    BY DEF BookInv, Typed, Return, SlotsInOrder
  <2> QED
    BY <2>1, OrderType DEF BookInv, Order
<1>3. /\ old.orders = Queue(side, price) /\ Queue(side, price) \in Seq(Node)
      /\ old.total \in Int /\ old.kept \in Int
  <2>1. /\ Queue(side, price) \in Seq(Node)
        /\ price \in DOMAIN levels[side] =>
             levels[side][price] \in Level /\ Queue(side, price) = levels[side][price].orders
    BY QueueType DEF BookInv
  <2>2. CASE price \in DOMAIN levels[side]
    BY <2>1, <2>2 DEF Level
  <2>3. CASE price \notin DOMAIN levels[side]
    BY <2>1, <2>3 DEF Queue
  <2> QED
    BY <2>2, <2>3
<1>4. node \in Node
  BY <1>2 DEF Node, BookInv, Typed
<1> HIDE DEF node, old
<1>5. level.orders = Append(Queue(side, price), node) /\ level \in Level
  <2>1. Append(Queue(side, price), node) \in Seq(Node)
    BY <1>3, <1>4, AppendProperties
  <2>2. level = [orders |-> Append(Queue(side, price), node),
                 total |-> old.total + order[taker].quantity, kept |-> old.kept]
    BY <1>3 DEF addOrder
  <2>3. old.total + order[taker].quantity \in Int /\ old.kept \in Int
    BY <1>2, <1>3
  <2> HIDE DEF level
  <2> QED
    BY <2>1, <2>2, <2>3 DEF Level
<1> HIDE DEF level
<1>6. PICK l \in Level : l = level
  BY <1>5
<1>7. levels' = SetLevel(side, price, l) /\ Typed /\ NoEmptyLevels
  BY <1>1, <1>6 DEF BookInv
<1>8. /\ levels' \in [Side -> UNION {[D -> Level] : D \in SUBSET Price}]
      /\ \A s \in Side : IsFiniteSet(DOMAIN levels'[s])
      /\ NoEmptyLevels'
      /\ Queue(side, price)' = l.orders
      /\ \A s \in Side, p \in Price : s # side \/ p # price => Queue(s, p)' = Queue(s, p)
  BY <1>7, LevelIsSet
<1> QED
  BY <1>1, <1>5, <1>6, <1>8 DEF node

\* What the end of a call does to the order and to the events.
LEMMA ReturnStep ==
    ASSUME BookInv, Return
    PROVE  /\ taker \in Slot /\ taker # 0 /\ order[taker] \in Order /\ Used(taker)
           /\ order' \in [Slot -> Order \cup {NoOrder}]
           /\ \A s \in Slot \ {taker} : order'[s] = order[s]
           /\ \A s \in Slot :
                /\ order'[s].id = order[s].id /\ order'[s].side = order[s].side
                /\ order'[s].price = order[s].price /\ order'[s].quantity = order[s].quantity
                /\ Used(s) => Used(s)'
                /\ Used(s)' => Used(s)
           /\ tape' = tape \o trades /\ trades' = <<>> /\ taker' = 0
           /\ feed' = [feed EXCEPT ![taker] = order'[taker]]
           /\ asked' = asked
<1>1. taker \in Slot /\ taker # 0 /\ Used(taker)
  BY DEF BookInv, Typed, Return, SlotsInOrder
<1>2. order[taker] \in Order /\ order[taker].id # -1
  BY <1>1, OrderType, Numbers DEF BookInv, Order
<1>3. PICK status \in Status : order' = [order EXCEPT ![taker].status = status]
  BY DEF Return, Status
<1>4. order'[taker] = [order[taker] EXCEPT !.status = status]
      /\ \A s \in Slot \ {taker} : order'[s] = order[s]
  BY <1>1, <1>3 DEF BookInv, Typed
<1>5. PICK o \in Order : o = order[taker]
  BY <1>2
<1>6. [o EXCEPT !.status = status] = WithQuantity(o, o.quantity, status)
  BY DEF Order, WithQuantity
<1>7. WithQuantity(o, o.quantity, status) \in Order
  BY DEF Order, WithQuantity
<1>8. order'[taker] \in Order /\ order'[taker] = WithQuantity(o, o.quantity, status)
  BY <1>4, <1>5, <1>6, <1>7
<1>9. order' \in [Slot -> Order \cup {NoOrder}]
  <2>1. DOMAIN order' = Slot /\ order' = [s \in Slot |-> order'[s]]
    BY <1>3 DEF BookInv, Typed
  <2>2. \A s \in Slot : order'[s] \in Order \cup {NoOrder}
    BY <1>4, <1>8 DEF BookInv, Typed
  <2> QED
    BY <2>1, <2>2
<1>10. ASSUME NEW s \in Slot
       PROVE  /\ order'[s].id = order[s].id /\ order'[s].side = order[s].side
              /\ order'[s].price = order[s].price /\ order'[s].quantity = order[s].quantity
              /\ Used(s) => Used(s)'
              /\ Used(s)' => Used(s)
  <2>1. CASE s = taker
    BY <1>1, <1>2, <1>5, <1>8, <2>1 DEF WithQuantity, Used, NoOrder
  <2>2. CASE s # taker
    BY <1>4, <2>2 DEF Used
  <2> QED
    BY <2>1, <2>2
<1>11. /\ tape' = tape \o trades /\ trades' = <<>> /\ taker' = 0
       /\ feed' = [feed EXCEPT ![taker] = order'[taker]] /\ asked' = asked
  BY DEF Return
<1> QED
  BY <1>1, <1>2, <1>4, <1>9, <1>10, <1>11

\* In either case the nodes that were there stay where they are.
LEMMA ReturnQueues ==
    ASSUME BookInv, Return, NEW side \in Side, NEW p \in Price
    PROVE  /\ Len(Queue(side, p)) \in Nat
           /\ Len(Queue(side, p)') = Len(Queue(side, p))
                \/ /\ Len(Queue(side, p)') = Len(Queue(side, p)) + 1
                   /\ order[taker].quantity > 0
                   /\ side = order[taker].side /\ p = order[taker].price
                   /\ Queue(side, p)'[Len(Queue(side, p)) + 1]
                        = [iterator |-> nodes + 1, order |-> taker]
           /\ \A k \in 1 .. Len(Queue(side, p)) : Queue(side, p)'[k] = Queue(side, p)[k]
<1>1. taker \in Slot /\ order[taker] \in Order /\ order[taker].side \in Side
      /\ order[taker].price \in Price
  BY ReturnStep DEF Order
<1>2. Queue(side, p) \in Seq(Node) /\ Len(Queue(side, p)) \in Nat
  BY QueueType DEF BookInv
<1>3. CASE order[taker].quantity > 0 /\ side = order[taker].side /\ p = order[taker].price
  <2> DEFINE node == [iterator |-> nodes + 1, order |-> taker]
  <2>1. node \in Node
    BY <1>1 DEF Node, BookInv, Typed
  <2>2. Queue(side, p)' = Append(Queue(side, p), node)
    BY <1>3, RestStep
  <2> HIDE DEF node
  <2>3. /\ Len(Append(Queue(side, p), node)) = Len(Queue(side, p)) + 1
        /\ \A k \in 1 .. Len(Queue(side, p)) : Append(Queue(side, p), node)[k] = Queue(side, p)[k]
        /\ Append(Queue(side, p), node)[Len(Queue(side, p)) + 1] = node
    BY <1>2, <2>1, AppendProperties
  <2> QED
    BY <1>2, <1>3, <2>2, <2>3 DEF node
<1>4. CASE order[taker].quantity > 0 /\ ~ (side = order[taker].side /\ p = order[taker].price)
  <2>1. Queue(side, p)' = Queue(side, p)
    BY <1>1, <1>4, RestStep
  <2> QED
    BY <1>2, <2>1
<1>5. CASE ~ (order[taker].quantity > 0)
  <2>1. levels' = levels
    BY <1>5 DEF Return
  <2>2. Queue(side, p)' = Queue(side, p)
    BY <2>1 DEF Queue
  <2> QED
    BY <1>2, <2>2
<1> QED
  BY <1>3, <1>4, <1>5

LEMMA ReturnKeepsInv ==
    ASSUME BookInv, Return
    PROVE  BookInv'
<1>1. /\ taker \in Slot /\ taker # 0 /\ order[taker] \in Order /\ Used(taker) /\ taker' = 0
      /\ order[taker].id \in OrderId /\ order[taker].side \in Side /\ order[taker].price \in Price
      /\ order[taker].quantity \in Nat /\ nodes \in Nat
  BY ReturnStep DEF Order, BookInv, Typed
<1>2. order[taker].quantity > 0 =>
        /\ lookup' = With(lookup, order[taker].id, [price |-> order[taker].price,
                              iterator |-> nodes + 1, side |-> order[taker].side])
        /\ nodes' = nodes + 1
  BY <1>1, RestStep
<1>3. ~ (order[taker].quantity > 0) => UNCHANGED <<levels, lookup, nodes>>
  BY DEF Return
<1>4. Typed'
  <2>1. lookup' \in UNION {[D -> LookupEntry] : D \in SUBSET OrderId}
    <3>1. PICK D \in SUBSET OrderId : lookup \in [D -> LookupEntry]
      BY DEF BookInv, Typed
    <3>2. [price |-> order[taker].price, iterator |-> nodes + 1, side |-> order[taker].side]
            \in LookupEntry
      BY <1>1 DEF LookupEntry
    <3>3. \A v \in LookupEntry :
            With(lookup, order[taker].id, v) \in [D \cup {order[taker].id} -> LookupEntry]
      BY <3>1 DEF With
    <3>4. D \cup {order[taker].id} \in SUBSET OrderId
      BY <1>1
    <3> QED
      BY <1>2, <1>3, <3>1, <3>2, <3>3, <3>4
  <2>2. nodes' \in Nat
    BY <1>1, <1>2, <1>3
  <2>3. trades' \in Seq(PublishedTrade) /\ tape' \in Seq(PublishedTrade)
    <3>1. trades \in Seq(PublishedTrade) /\ tape \in Seq(PublishedTrade)
      BY DEF BookInv, Typed
    <3>2. trades' = <<>> /\ tape' = tape \o trades
      BY ReturnStep
    <3>3. tape \o trades \in Seq(PublishedTrade)
      BY <3>1, ConcatProperties
    <3> QED
      BY <3>2, <3>3, EmptySeq
  <2>4. order' \in [Slot -> Order \cup {NoOrder}]
    BY ReturnStep
  <2>5. feed' \in [Slot -> Order \cup {NoOrder}]
    BY <1>1, <2>4, ReturnStep DEF BookInv, Typed
  <2>6. /\ levels' \in [Side -> UNION {[D -> Level] : D \in SUBSET Price}]
        /\ \A s \in Side : IsFiniteSet(DOMAIN levels'[s])
    BY <1>1, <1>3, RestStep DEF BookInv, Typed
  <2>7. taker' \in Slot \cup {0} /\ asked' \in [Slot -> Nat]
    BY ReturnStep DEF BookInv, Typed
  <2> QED
    BY <2>1, <2>2, <2>3, <2>4, <2>5, <2>6, <2>7 DEF Typed
<1>5. SlotsInOrder'
  <2>1. {s \in Slot : Used(s)}' = {s \in Slot : Used(s)}
    BY ReturnStep
  <2> QED
    BY <1>1, <2>1, ReturnStep DEF BookInv, SlotsInOrder
<1>6. NoEmptyLevels'
  <2>1. ~ (order[taker].quantity > 0) => NoEmptyLevels'
    BY <1>3 DEF BookInv, NoEmptyLevels, Queue
  <2> QED
    BY <1>1, <2>1, RestStep
<1>7. ASSUME NEW side \in Side, NEW p \in Price, NEW k \in 1 .. Len(Queue(side, p)'),
             k \notin 1 .. Len(Queue(side, p))
      PROVE  /\ k = Len(Queue(side, p)) + 1 /\ order[taker].quantity > 0
             /\ side = order[taker].side /\ p = order[taker].price
             /\ Queue(side, p)'[k] = [iterator |-> nodes + 1, order |-> taker]
  BY <1>7, ReturnQueues
<1>8. \A side \in Side, p \in Price : \A k \in 1 .. Len(Queue(side, p)) :
        /\ Queue(side, p)'[k] = Queue(side, p)[k] /\ k \in 1 .. Len(Queue(side, p)')
        /\ Queue(side, p)[k].order \in Slot
  BY ReturnQueues, QueueType DEF BookInv
<1>9. ASSUME NEW side \in Side, NEW p \in Price, NEW k \in 1 .. Len(Queue(side, p))
      PROVE  /\ Points(Queue(side, p)[k], side, p)
             /\ Queue(side, p)[k].order \in Slot /\ Queue(side, p)[k].order < taker
             /\ Queue(side, p)[k].iterator <= nodes /\ Queue(side, p)[k].iterator \in Nat
  <2>1. Points(Queue(side, p)[k], side, p) /\ Queue(side, p)[k].order \in Slot
        /\ Queue(side, p)[k].iterator \in Nat
    BY QueueType DEF BookInv, NodesPointAtOrders
  <2>2. Used(Queue(side, p)[k].order) /\ Queue(side, p)[k].order # taker
        /\ Queue(side, p)[k].iterator <= nodes
    BY <2>1 DEF Points
  <2>3. Queue(side, p)[k].order <= taker
    BY <1>1, <2>1, <2>2 DEF BookInv, SlotsInOrder
  <2>4. Queue(side, p)[k].order < taker
    BY <1>1, <2>1, <2>2, <2>3, Numbers
  <2> QED
    BY <2>1, <2>2, <2>4
<1>10. NodesPointAtOrders'
  <2> SUFFICES ASSUME NEW side \in Side, NEW p \in Price, NEW k \in 1 .. Len(Queue(side, p)')
               PROVE  Points(Queue(side, p)[k], side, p)'
    BY DEF NodesPointAtOrders
  <2>1. CASE k \in 1 .. Len(Queue(side, p))
    <3> DEFINE n == Queue(side, p)[k]
    <3>1. Points(n, side, p) /\ n.order \in Slot /\ Queue(side, p)'[k] = n /\ n.iterator \in Nat
      BY <1>8, <1>9, <2>1
    <3>2. n.iterator <= nodes'
      BY <1>1, <1>2, <1>3, <3>1 DEF Points
    <3>3. n.order # 0
      BY <3>1, Numbers
    <3> HIDE DEF n
    <3> QED
      BY <1>1, <3>1, <3>2, <3>3, ReturnStep DEF Points, Used
  <2>2. CASE k \notin 1 .. Len(Queue(side, p))
    <3>1. /\ order[taker].quantity > 0 /\ side = order[taker].side /\ p = order[taker].price
          /\ Queue(side, p)'[k] = [iterator |-> nodes + 1, order |-> taker]
      BY <1>7, <2>2
    <3> QED
      BY <1>1, <1>2, <3>1, ReturnStep DEF Points, Used
  <2> QED
    BY <2>1, <2>2
<1>11. QueuesInOrder'
  <2> SUFFICES ASSUME NEW side \in Side, NEW p \in Price, NEW j \in 1 .. Len(Queue(side, p)'),
                      NEW k \in 1 .. Len(Queue(side, p)'), j < k
               PROVE  /\ Queue(side, p)'[j].order < Queue(side, p)'[k].order
                      /\ Queue(side, p)'[j].iterator < Queue(side, p)'[k].iterator
    BY DEF QueuesInOrder
  <2>1. CASE k \in 1 .. Len(Queue(side, p))
    <3>1. j \in 1 .. Len(Queue(side, p))
      BY <2>1, ReturnQueues
    <3> QED
      BY <1>8, <2>1, <3>1 DEF BookInv, QueuesInOrder
  <2>2. CASE k \notin 1 .. Len(Queue(side, p))
    <3>1. k = Len(Queue(side, p)) + 1 /\ Queue(side, p)'[k] = [iterator |-> nodes + 1, order |-> taker]
      BY <1>7, <2>2
    <3>2. j \in 1 .. Len(Queue(side, p))
      BY <3>1, ReturnQueues
    <3>3. Queue(side, p)'[j] = Queue(side, p)[j]
      BY <1>8, <3>2
    <3>4. Queue(side, p)[j].order < taker /\ Queue(side, p)[j].iterator < nodes + 1
      BY <1>1, <1>9, <3>2
    <3> QED
      BY <3>1, <3>3, <3>4
  <2> QED
    BY <2>1, <2>2
<1>12. LookupIsLive'
  <2>1. ASSUME NEW id \in DOMAIN lookup' PROVE Live(id)'
    <3>1. CASE order[taker].quantity > 0 /\ id = order[taker].id
      <4>1. PICK side \in Side, p \in Price : side = order[taker].side /\ p = order[taker].price
        BY <1>1
      <4>2. lookup'[id] = [price |-> p, iterator |-> nodes + 1, side |-> side]
        BY <1>2, <3>1, <4>1 DEF With
      <4>3. Queue(side, p)' = Append(Queue(side, p), [iterator |-> nodes + 1, order |-> taker])
        BY <3>1, <4>1, RestStep
      <4>4. [iterator |-> nodes + 1, order |-> taker] \in Node
        BY <1>1 DEF Node
      <4>5. PICK k \in 1 .. Len(Queue(side, p)') :
              Queue(side, p)'[k] = [iterator |-> nodes + 1, order |-> taker]
        BY <4>3, <4>4, QueueType, AppendProperties DEF BookInv
      <4>6. order'[taker].id = id
        BY <1>1, <3>1, ReturnStep
      <4> QED
        BY <4>2, <4>5, <4>6 DEF Live
    <3>2. CASE ~ (order[taker].quantity > 0 /\ id = order[taker].id)
      <4>1. id \in DOMAIN lookup /\ lookup'[id] = lookup[id]
        BY <1>2, <1>3, <3>2 DEF With
      <4>2. PICK side \in Side, p \in Price : side = lookup[id].side /\ p = lookup[id].price
        BY <4>1, EntryType DEF BookInv
      <4>3. PICK k \in 1 .. Len(Queue(side, p)) :
               /\ Queue(side, p)[k].iterator = lookup[id].iterator
               /\ order[Queue(side, p)[k].order].id = id
        BY <4>1, <4>2, LookupInQueues DEF Live, BookInv
      <4>4. /\ Queue(side, p)'[k] = Queue(side, p)[k] /\ k \in 1 .. Len(Queue(side, p)')
            /\ order'[Queue(side, p)[k].order].id = id
        BY <1>8, <4>3, ReturnStep
      <4> QED
        BY <4>1, <4>2, <4>3, <4>4 DEF Live
    <3> QED
      BY <3>1, <3>2
  <2> QED
    BY <1>4, <2>1, QueuesNext DEF Queues
<1>13. EveryOrderCancelable'
  <2> SUFFICES ASSUME NEW s \in Slot, Resting(s)', \A r \in Slot \ {s} : order'[r].id # order'[s].id
               PROVE  order'[s].id \in DOMAIN lookup'
    BY DEF EveryOrderCancelable
  <2>1. InQueue(s)'
    BY <1>4, QueuesNext DEF Queues
  <2>2. PICK side \in Side, p \in Price : \E k \in 1 .. Len(Queue(side, p)') :
           Queue(side, p)'[k].order = s
    BY <2>1 DEF InQueue
  <2>3. PICK k \in 1 .. Len(Queue(side, p)') : Queue(side, p)'[k].order = s
    BY <2>2
  <2>4. CASE k \in 1 .. Len(Queue(side, p))
    <3>1. InQueue(s)
      BY <1>8, <2>3, <2>4 DEF InQueue
    <3>2. Resting(s)
      BY <3>1, RestingIsInQueue DEF BookInv
    <3>3. order[s].id \in DOMAIN lookup /\ order'[s].id = order[s].id
      BY <3>2, ReturnStep DEF BookInv, EveryOrderCancelable
    <3> QED
      BY <1>2, <1>3, <3>3 DEF With
  <2>5. CASE k \notin 1 .. Len(Queue(side, p))
    <3>1. order[taker].quantity > 0 /\ Queue(side, p)'[k] = [iterator |-> nodes + 1, order |-> taker]
      BY <1>7, <2>5
    <3>2. s = taker
      BY <2>3, <3>1
    <3> QED
      BY <1>2, <3>1, <3>2, ReturnStep DEF With
  <2> QED
    BY <2>4, <2>5
<1>14. OthersAreAnnounced'
  BY <1>1, ReturnStep DEF BookInv, Typed, OthersAreAnnounced
<1> QED
  BY <1>4, <1>5, <1>6, <1>10, <1>11, <1>12, <1>13, <1>14 DEF BookInv

\* What a cancel takes out of the book.
LEMMA CancelStep ==
    ASSUME BookInv, NEW id \in OrderId, cancelOrder(id)
    PROVE  /\ id \in DOMAIN lookup /\ taker = 0 /\ lookup' = Without(lookup, id)
           /\ UNCHANGED <<order, nodes, taker, trades, feed, tape, asked>>
           /\ \E side \in Side, price \in Price : \E i \in 1 .. Len(Queue(side, price)) :
                LET n == Queue(side, price)[i]
                    level == levels[side][price]
                IN  /\ price \in DOMAIN levels[side] /\ level \in Level
                    /\ order[n.order].id = id /\ n.order \in Slot
                    /\ RemoveAt(Queue(side, price), i) \in Seq(Node)
                    /\ Removed(Queue(side, price), i, RemoveAt(Queue(side, price), i))
                    /\ levels' = SetLevel(side, price,
                          [orders |-> RemoveAt(Queue(side, price), i),
                           total |-> level.total - order[n.order].quantity, kept |-> level.kept])
<1>1. id \in DOMAIN lookup
  BY DEF cancelOrder
<1>2. PICK side \in Side, price \in Price : side = lookup[id].side /\ price = lookup[id].price
  BY <1>1, EntryType DEF BookInv
<1>3. PICK j \in 1 .. Len(Queue(side, price)) :
        /\ Queue(side, price)[j].iterator = lookup[id].iterator
        /\ order[Queue(side, price)[j].order].id = id
  BY <1>1, <1>2, LookupInQueues DEF BookInv, Live
<1>4. /\ Queue(side, price) \in Seq(Node) /\ price \in DOMAIN levels[side]
      /\ levels[side][price] \in Level /\ Queue(side, price) = levels[side][price].orders
      /\ DOMAIN Queue(side, price) = 1 .. Len(Queue(side, price))
  BY <1>3, QueueType, LenProperties DEF BookInv
<1>5. PICK i \in 1 .. Len(Queue(side, price)) :
        /\ i = Index(levels[side][price], lookup[id].iterator)
        /\ Queue(side, price)[i].iterator = lookup[id].iterator
  BY <1>3, <1>4 DEF Index
<1>6. i = j
  BY <1>3, <1>5, OnePlace DEF BookInv
<1>7. levels' = SetLevel(side, price, removeOrder(levels[side][price], lookup[id].iterator,
                             order[levels[side][price].orders[i].order].quantity))
  BY <1>2, <1>4, <1>5 DEF cancelOrder
<1>8. levels' = SetLevel(side, price,
                   [orders |-> RemoveAt(Queue(side, price), i),
                    total |-> levels[side][price].total
                                - order[Queue(side, price)[i].order].quantity,
                    kept |-> levels[side][price].kept])
  BY <1>4, <1>5, <1>7 DEF removeOrder
<1>9. RemoveAt(Queue(side, price), i) \in Seq(Node)
      /\ Removed(Queue(side, price), i, RemoveAt(Queue(side, price), i))
  BY <1>4, RemoveAtRemoves
<1>10. Queue(side, price)[i].order \in Slot
  BY QueueType DEF BookInv
<1>11. /\ id \in DOMAIN lookup /\ taker = 0 /\ lookup' = Without(lookup, id)
       /\ UNCHANGED <<order, nodes, taker, trades, feed, tape, asked>>
  BY DEF cancelOrder
<1> QED
  BY <1>3, <1>4, <1>6, <1>8, <1>9, <1>10, <1>11

LEMMA CancelKeepsInv ==
    ASSUME BookInv, NEW id \in OrderId, cancelOrder(id)
    PROVE  BookInv'
<1>1. PICK side \in Side, price \in Price : \E i \in 1 .. Len(Queue(side, price)) :
        LET n == Queue(side, price)[i]
            level == levels[side][price]
        IN  /\ price \in DOMAIN levels[side] /\ level \in Level
            /\ order[n.order].id = id /\ n.order \in Slot
            /\ RemoveAt(Queue(side, price), i) \in Seq(Node)
            /\ Removed(Queue(side, price), i, RemoveAt(Queue(side, price), i))
            /\ levels' = SetLevel(side, price,
                  [orders |-> RemoveAt(Queue(side, price), i),
                   total |-> level.total - order[n.order].quantity, kept |-> level.kept])
  BY CancelStep
<1>2. PICK i \in 1 .. Len(Queue(side, price)) :
        LET n == Queue(side, price)[i]
            level == levels[side][price]
        IN  /\ price \in DOMAIN levels[side] /\ level \in Level
            /\ order[n.order].id = id /\ n.order \in Slot
            /\ RemoveAt(Queue(side, price), i) \in Seq(Node)
            /\ Removed(Queue(side, price), i, RemoveAt(Queue(side, price), i))
            /\ levels' = SetLevel(side, price,
                  [orders |-> RemoveAt(Queue(side, price), i),
                   total |-> level.total - order[n.order].quantity, kept |-> level.kept])
  BY <1>1
<1> DEFINE gone == Queue(side, price)[i].order
<1>3. gone \in Slot /\ order[gone].id = id /\ order[gone].quantity \in Int
  <2>1. Used(gone)
    BY DEF BookInv, NodesPointAtOrders, Points
  <2>2. order[gone] \in Order
    BY <1>2, <2>1, OrderType DEF BookInv
  <2> QED
    BY <1>2, <2>2 DEF Order
<1>4. /\ lookup' = Without(lookup, id) /\ taker = 0
      /\ UNCHANGED <<order, nodes, taker, trades, feed, tape, asked>>
  BY CancelStep
<1>5. /\ levels' \in [Side -> UNION {[D -> Level] : D \in SUBSET Price}]
      /\ \A s \in Side : IsFiniteSet(DOMAIN levels'[s])
      /\ NoEmptyLevels'
      /\ Queue(side, price)' = RemoveAt(Queue(side, price), i)
      /\ \A s \in Side, p \in Price : s # side \/ p # price => Queue(s, p)' = Queue(s, p)
  <2>1. PICK l \in Level : l = [orders |-> RemoveAt(Queue(side, price), i),
                              total |-> levels[side][price].total - order[gone].quantity,
                              kept |-> levels[side][price].kept]
    BY <1>2, <1>3 DEF Level
  <2>2. levels' = SetLevel(side, price, l) /\ Typed /\ NoEmptyLevels
    BY <1>2, <2>1 DEF BookInv
  <2>3. /\ levels' \in [Side -> UNION {[D -> Level] : D \in SUBSET Price}]
        /\ \A s \in Side : IsFiniteSet(DOMAIN levels'[s])
        /\ NoEmptyLevels'
        /\ Queue(side, price)' = l.orders
        /\ \A s \in Side, p \in Price : s # side \/ p # price => Queue(s, p)' = Queue(s, p)
    BY <2>2, LevelIsSet
  <2> QED
    BY <2>1, <2>3
<1>6. Typed'
  <2>1. lookup' \in UNION {[D -> LookupEntry] : D \in SUBSET OrderId}
    <3>1. PICK D \in SUBSET OrderId : lookup \in [D -> LookupEntry]
      BY DEF BookInv, Typed
    <3>2. Without(lookup, id) \in [D \ {id} -> LookupEntry]
      BY <3>1 DEF Without
    <3> QED
      BY <1>4, <3>1, <3>2
  <2> QED
    BY <1>4, <1>5, <2>1 DEF BookInv, Typed
<1>7. QueuesDrop(gone)
  BY <1>2, <1>5, <1>6, DropOne DEF BookInv
<1>8. NodesPointAtOrders' /\ QueuesInOrder'
  <2>1. \A s \in Slot : Used(s) =>
          /\ Used(s)' /\ order'[s].side = order[s].side /\ order'[s].price = order[s].price
          /\ s # gone /\ s # taker /\ order[s].quantity > 0 => order'[s].quantity > 0
    BY <1>4 DEF Used
  <2> HIDE DEF gone
  <2> QED
    BY <1>4, <1>6, <1>7, <2>1, DropKeepsQueues DEF BookInv
<1>9. LookupIsLive' /\ EveryOrderCancelable'
  <2>1. gone # 0
    BY <1>3, Numbers
  <2>2. lookup' = IF gone = 0 THEN lookup ELSE Without(lookup, order[gone].id)
    BY <1>3, <1>4, <2>1
  <2>3. \A s \in Slot : order'[s].id = order[s].id
    BY <1>4
  <2> HIDE DEF gone
  <2> QED
    BY <1>3, <1>6, <1>7, <2>2, <2>3, DropKeepsLookup DEF BookInv
<1>10. SlotsInOrder'
  BY <1>4 DEF BookInv, SlotsInOrder, Used
<1>11. OthersAreAnnounced'
  BY <1>4 DEF BookInv, OthersAreAnnounced
<1> QED
  BY <1>5, <1>6, <1>8, <1>9, <1>10, <1>11 DEF BookInv

LEMMA StutterKeepsInv ==
    ASSUME BookInv, UNCHANGED vars
    PROVE  BookInv'
BY DEF vars, BookInv, Typed, SlotsInOrder, Used, NoEmptyLevels, Queue, NodesPointAtOrders, Points,
       QueuesInOrder, LookupIsLive, NodesAt, EveryOrderCancelable, Resting, OthersAreAnnounced

LEMMA StepKeepsInv == BookInv /\ [Next]_vars => BookInv'
BY SubmitKeepsInv, MatchKeepsInv, ReturnKeepsInv, CancelKeepsInv, StutterKeepsInv DEF Next

LEMMA AlwaysInv == Spec => []BookInv
BY InitBook, StepKeepsInv, PTL DEF Spec

\* Every entry of the lookup names a node that is in its level and points at an order of its id.
THEOREM NoDeadIterator == Spec => []LookupIsLive
<1>1. BookInv => LookupIsLive
  BY DEF BookInv
<1> QED
  BY <1>1, AlwaysInv, PTL

\* Whoever rests under an id of its own can be cancelled.
THEOREM RestingIsCancelable == Spec => []EveryOrderCancelable
<1>1. BookInv => EveryOrderCancelable
  BY DEF BookInv
<1> QED
  BY <1>1, AlwaysInv, PTL

\* Between calls the last published state of every order is its state in memory.
THEOREM SubscribersAreCurrent == Spec => []FeedIsCurrent
<1>1. BookInv => FeedIsCurrent
  <2> SUFFICES ASSUME BookInv, taker = 0 PROVE feed = order
    BY DEF FeedIsCurrent, Idle
  <2>1. \A s \in Slot : feed[s] = order[s]
    BY Numbers DEF BookInv, OthersAreAnnounced
  <2>2. feed = [s \in Slot |-> feed[s]] /\ order = [s \in Slot |-> order[s]]
    BY DEF BookInv, Typed
  <2> QED
    BY <2>1, <2>2
<1> QED
  BY <1>1, AlwaysInv, PTL

-----------------------------------------------------------------------------
(* Book depth. *)

\* A level's total without the last fills it keeps.
Total(side, p) ==
    IF p \in DOMAIN levels[side] THEN levels[side][p].total - levels[side][p].kept ELSE 0
Nodes(side, p) == {Queue(side, p)[k] : k \in 1 .. Len(Queue(side, p))}
Open(side, p) == [n \in Nodes(side, p) |-> order[n.order].quantity]
Depth(side, p) == SumFunctionOnSet(Open(side, p), Nodes(side, p))
Counted(side, p) == Total(side, p) = Depth(side, p)
AllCounted == \A side \in Side, p \in Price : Counted(side, p)

\* The sums are of finitely many quantities.
NodeFacts ==
    \A side \in Side, p \in Price :
        /\ IsFiniteSet(Nodes(side, p)) /\ Total(side, p) \in Int
        /\ \A n \in Nodes(side, p) :
              /\ n \in Node /\ n.order \in Slot /\ n.order # taker /\ n.iterator <= nodes
              /\ order[n.order] \in Order /\ order[n.order].side = side
              /\ order[n.order].price = p /\ order[n.order].quantity \in Nat \ {0}
              /\ Open(side, p)[n] = order[n.order].quantity

LEMMA NodesNow == BookInv => NodeFacts
<1> SUFFICES ASSUME BookInv, NEW side \in Side, NEW p \in Price
             PROVE  /\ IsFiniteSet(Nodes(side, p)) /\ Total(side, p) \in Int
                    /\ \A n \in Nodes(side, p) :
                          /\ n \in Node /\ n.order \in Slot /\ n.order # taker
                          /\ n.iterator <= nodes
                          /\ order[n.order] \in Order /\ order[n.order].side = side
                          /\ order[n.order].price = p /\ order[n.order].quantity \in Nat \ {0}
                          /\ Open(side, p)[n] = order[n.order].quantity
  BY DEF NodeFacts
<1>1. IsFiniteSet(Nodes(side, p))
  BY QueueType, ElementsFinite DEF BookInv, Nodes
<1>2. Total(side, p) \in Int
  BY QueueType DEF BookInv, Total, Level
<1>3. ASSUME NEW n \in Nodes(side, p)
      PROVE  /\ n \in Node /\ n.order \in Slot /\ n.order # taker /\ n.iterator <= nodes
             /\ order[n.order] \in Order /\ order[n.order].side = side
             /\ order[n.order].price = p /\ order[n.order].quantity \in Nat \ {0}
             /\ Open(side, p)[n] = order[n.order].quantity
  <2>1. n \in Node /\ n.order \in Slot /\ Points(n, side, p)
    BY QueueType DEF BookInv, Nodes, NodesPointAtOrders
  <2>2. order[n.order] \in Order
    BY <2>1, OrderType DEF BookInv, Points
  <2>3. order[n.order].quantity \in Nat \ {0}
    BY <2>1, <2>2 DEF Order, Points
  <2> QED
    BY <2>1, <2>2, <2>3 DEF Points, Open
<1> QED
  BY <1>1, <1>2, <1>3

LEMMA NodesNext == BookInv' => NodeFacts'
BY NodesNow, PTL

LEMMA DepthIsCounted == BookInv /\ AllCounted => DepthIsOffByLastFills
<1> SUFFICES ASSUME BookInv, AllCounted, NEW side \in Side, NEW p \in DOMAIN levels[side]
             PROVE  levels[side][p].total =
                      SumFunction([n \in NodesAt(side, p) |-> order[n.order].quantity])
                        + levels[side][p].kept
  BY DEF DepthIsOffByLastFills
<1>1. p \in Price /\ NodesAt(side, p) = Nodes(side, p)
  BY NodesOfQueue DEF BookInv, Nodes
<1>2. /\ Total(side, p) = levels[side][p].total - levels[side][p].kept
      /\ levels[side][p].total \in Int /\ levels[side][p].kept \in Int
  BY <1>1, QueueType DEF BookInv, Total, Level
<1>3. SumFunction([n \in NodesAt(side, p) |-> order[n.order].quantity]) = Depth(side, p)
  BY <1>1 DEF SumFunction, Depth, Open
<1> QED
  BY <1>1, <1>2, <1>3 DEF AllCounted, Counted

\* Nothing changes for a queue whose nodes and quantities stay.
LEMMA SameDepth ==
    ASSUME BookInv, NEW side \in Side, NEW p \in Price,
           Queue(side, p)' = Queue(side, p), Total(side, p)' = Total(side, p),
           \A n \in Nodes(side, p) : order'[n.order].quantity = order[n.order].quantity
    PROVE  Nodes(side, p)' = Nodes(side, p) /\ Depth(side, p)' = Depth(side, p)
<1>1. Nodes(side, p)' = Nodes(side, p)
  BY DEF Nodes
<1>2. Open(side, p)' = Open(side, p)
  BY <1>1 DEF Open
<1> QED
  BY <1>1, <1>2 DEF Depth

\* Writing a level replaces one total and no other.
LEMMA TotalIsSet ==
    ASSUME BookInv, NEW side \in Side, NEW price \in Price, NEW level \in Level,
           levels' = SetLevel(side, price, level)
    PROVE  /\ Queue(side, price)' = level.orders
           /\ level.orders # <<>> => Total(side, price)' = level.total - level.kept
           /\ level.orders = <<>> => Total(side, price)' = 0
           /\ \A s \in Side, p \in Price : s # side \/ p # price =>
                Queue(s, p)' = Queue(s, p) /\ Total(s, p)' = Total(s, p)
<1>1. Typed /\ NoEmptyLevels
  BY DEF BookInv
<1>2. /\ Queue(side, price)' = level.orders
      /\ price \in DOMAIN levels'[side] => levels'[side][price] = level
      /\ NoEmptyLevels'
      /\ \A s \in Side, p \in Price : s # side \/ p # price =>
           /\ Queue(s, p)' = Queue(s, p)
           /\ p \in DOMAIN levels'[s] <=> p \in DOMAIN levels[s]
           /\ p \in DOMAIN levels[s] => levels'[s][p] = levels[s][p]
  BY <1>1, LevelIsSet
<1>3. level.orders # <<>> <=> price \in DOMAIN levels'[side]
  <2>1. Queue(side, price)' = IF price \in DOMAIN levels'[side] THEN levels'[side][price].orders
                              ELSE <<>>
    BY DEF Queue
  <2> QED
    BY <1>2, <2>1 DEF NoEmptyLevels
<1>4. /\ level.orders # <<>> => Total(side, price)' = level.total - level.kept
      /\ level.orders = <<>> => Total(side, price)' = 0
  BY <1>2, <1>3 DEF Total
<1>5. \A s \in Side, p \in Price : s # side \/ p # price => Total(s, p)' = Total(s, p)
  BY <1>2 DEF Total
<1> QED
  BY <1>2, <1>4, <1>5

\* A queue that loses a node loses its quantity.
LEMMA DropDepth ==
    ASSUME BookInv, BookInv', NEW side \in Side, NEW p \in Price, NEW i \in 1 .. Len(Queue(side, p)),
           Removed(Queue(side, p), i, Queue(side, p)'),
           \A n \in Nodes(side, p) \ {Queue(side, p)[i]} :
              order'[n.order].quantity = order[n.order].quantity
    PROVE  /\ Queue(side, p)[i] \in Nodes(side, p)
           /\ Nodes(side, p)' = Nodes(side, p) \ {Queue(side, p)[i]}
           /\ Depth(side, p)' = Depth(side, p) - order[Queue(side, p)[i].order].quantity
<1> DEFINE gone == Queue(side, p)[i]
<1>1. Queue(side, p) \in Seq(Node) /\ Queue(side, p)' \in Seq(Node)
  BY QueueType, QueuesNext DEF BookInv, Queues
<1>2. gone \in Nodes(side, p)
  BY DEF Nodes
<1>3. Nodes(side, p)' = Nodes(side, p) \ {gone}
  <2>1. ASSUME NEW k \in 1 .. Len(Queue(side, p)')
        PROVE  Queue(side, p)'[k] \in Nodes(side, p) \ {gone}
    <3>1. PICK j \in (1 .. Len(Queue(side, p))) \ {i} : Queue(side, p)'[k] = Queue(side, p)[j]
      BY <1>1, RemovedPlaces
    <3>2. Queue(side, p)[j] # gone
      BY OnePlace DEF BookInv
    <3> QED
      BY <3>1, <3>2 DEF Nodes
  <2>2. ASSUME NEW n \in Nodes(side, p) \ {gone}
        PROVE  \E k \in 1 .. Len(Queue(side, p)') : Queue(side, p)'[k] = n
    <3>1. PICK j \in (1 .. Len(Queue(side, p))) \ {i} : n = Queue(side, p)[j]
      BY DEF Nodes
    <3> QED
      BY <1>1, <3>1, RemovedPlaces
  <2> QED
    BY <2>1, <2>2 DEF Nodes
<1> HIDE DEF gone
<1>4. \A n \in Nodes(side, p) \ {gone} : Open(side, p)'[n] = Open(side, p)[n]
  <2> SUFFICES ASSUME NEW n \in Nodes(side, p) \ {gone}
               PROVE  Open(side, p)'[n] = Open(side, p)[n]
    OBVIOUS
  <2>1. Open(side, p)[n] = order[n.order].quantity /\ Open(side, p)'[n] = order'[n.order].quantity
    BY <1>3, NodesNow, NodesNext DEF NodeFacts
  <2> QED
    BY <2>1 DEF gone
<1>5. /\ IsFiniteSet(Nodes(side, p)) /\ \A n \in Nodes(side, p) : Open(side, p)[n] \in Int
      /\ Open(side, p)[gone] = order[gone.order].quantity
  BY <1>2, NodesNow DEF NodeFacts
<1>6. SumFunctionOnSet(Open(side, p)', Nodes(side, p) \ {gone})
        = SumFunctionOnSet(Open(side, p), Nodes(side, p)) - Open(side, p)[gone]
  <2>1. PICK S, f, g, y : /\ S = Nodes(side, p) /\ f = Open(side, p) /\ g = Open(side, p)'
                          /\ y = gone
    OBVIOUS
  <2>2. IsFiniteSet(S) /\ y \in S /\ (\A x \in S : f[x] \in Int) /\ \A x \in S : x # y => g[x] = f[x]
    BY <1>2, <1>4, <1>5, <2>1
  <2>3. f[y] \in Int /\ SumFunctionOnSet(f, S) \in Int
    BY <2>2, SumType
  <2>4. SumFunctionOnSet(g, S \ {y}) = SumFunctionOnSet(f, S) - f[y]
    BY <2>2, <2>3, SumWithout
  <2> QED
    BY <2>1, <2>4
<1> QED
  BY <1>2, <1>3, <1>5, <1>6 DEF Depth, gone

LEMMA MatchCounts ==
    ASSUME BookInv, BookInv', AllCounted, MatchFront
    PROVE  AllCounted'
<1>1. PICK side \in Side, price \in Price : side = Other /\ price = BestPrice
  BY MatchSetup
<1>2. /\ taker \in Slot /\ Maker \in Slot /\ Maker # taker
      /\ Qty \in Nat \ {0} /\ Qty <= order[Maker].quantity /\ order[Maker].quantity \in Nat
      /\ 1 \in 1 .. Len(Queue(side, price)) /\ Queue(side, price) # <<>>
      /\ Maker = Queue(side, price)[1].order /\ price \in DOMAIN levels[side]
      /\ BestLevel \in Level /\ BestLevel.orders = Queue(side, price)
      /\ Total(side, price) = BestLevel.total - BestLevel.kept
  BY <1>1, MatchSetup DEF Order, BestLevel, Total
<1> DEFINE head == Queue(side, price)[1]
<1>3. head \in Nodes(side, price)
  BY <1>2 DEF Nodes
<1>4. \A s \in Side, p \in Price : \A n \in Nodes(s, p) :
        n # head => n.order \in Slot /\ n.order # taker /\ n.order # Maker
  <2>1. \A s \in Side, p \in Price : \A n \in Nodes(s, p) : n.order \in Slot /\ n.order # taker
    BY NodesNow DEF NodeFacts
  <2>2. ASSUME NEW s \in Side, NEW p \in Price, NEW k \in 1 .. Len(Queue(s, p)),
               Queue(s, p)[k] # head
        PROVE  Queue(s, p)[k].order # Maker
    BY <1>2, <2>2, OnePlace DEF BookInv
  <2> QED
    BY <2>1, <2>2 DEF Nodes
<1>5. \A s \in Side, p \in Price : \A n \in Nodes(s, p) :
        n # head => order'[n.order].quantity = order[n.order].quantity
  BY <1>4, MatchOrders
<1>6. \A s \in Side, p \in Price : s # side \/ p # price => \A n \in Nodes(s, p) : n # head
  BY <1>3, NodesNow DEF NodeFacts
<1>7. PICK level \in Level : level = IF Fills THEN [orders |-> Tail(BestLevel.orders), total |-> BestLevel.total,
                                                    kept |-> BestLevel.kept + Qty]
                                     ELSE [orders |-> BestLevel.orders, total |-> BestLevel.total - Qty,
                                           kept |-> BestLevel.kept]
  <2>1. /\ BestLevel.orders \in Seq(Node) /\ Tail(BestLevel.orders) \in Seq(Node)
        /\ BestLevel.total \in Int /\ BestLevel.kept \in Int
    BY <1>2, TailRemoves DEF Level
  <2>2. BestLevel.total - Qty \in Int /\ BestLevel.kept + Qty \in Int
    BY <1>2, <2>1
  <2>3. /\ [orders |-> Tail(BestLevel.orders), total |-> BestLevel.total, kept |-> BestLevel.kept + Qty] \in Level
        /\ [orders |-> BestLevel.orders, total |-> BestLevel.total - Qty, kept |-> BestLevel.kept] \in Level
    BY <2>1, <2>2 DEF Level
  <2> QED
    BY <2>3
<1>8. levels' = SetLevel(side, price, level)
  BY <1>1, <1>7, MatchStep
<1>9. \A s \in Side, p \in Price : s # side \/ p # price =>
        Queue(s, p)' = Queue(s, p) /\ Total(s, p)' = Total(s, p)
  BY <1>8, TotalIsSet
<1>10. ASSUME NEW s \in Side, NEW p \in Price, s # side \/ p # price PROVE Counted(s, p)'
  <2>1. Depth(s, p)' = Depth(s, p)
    BY <1>5, <1>6, <1>9, <1>10, SameDepth
  <2> QED
    BY <1>9, <1>10, <2>1 DEF AllCounted, Counted
<1>11. Counted(side, price)'
  <2>1. /\ IsFiniteSet(Nodes(side, price)) /\ Total(side, price) \in Int
        /\ \A n \in Nodes(side, price) : Open(side, price)[n] = order[n.order].quantity
                                      /\ Open(side, price)[n] \in Int
    BY NodesNow DEF NodeFacts
  <2>2. Total(side, price) = Depth(side, price) /\ Depth(side, price) \in Int
    BY <2>1, SumType DEF AllCounted, Counted, Depth
  <2>3. CASE Fills
    <3>1. /\ level.orders = Tail(Queue(side, price))
          /\ level.total - level.kept = Total(side, price) - Qty
      BY <1>2, <1>7, <2>3 DEF Level
    <3>2. Queue(side, price)' = Tail(Queue(side, price))
      BY <1>8, <3>1, TotalIsSet
    <3>3. Removed(Queue(side, price), 1, Queue(side, price)')
      BY <1>2, <3>2, TailRemoves, QueueType DEF BookInv
    <3>4. Depth(side, price)' = Depth(side, price) - order[Maker].quantity
      BY <1>2, <1>5, <3>3, DropDepth
    <3>5. CASE level.orders # <<>>
      <4>1. Total(side, price)' = Total(side, price) - Qty
        BY <1>8, <3>1, <3>5, TotalIsSet
      <4>2. Qty = order[Maker].quantity
        BY <2>3 DEF Fills
      <4> QED
        BY <1>2, <4>2, <2>1, <2>2, <3>4, <4>1 DEF Counted
    <3>6. CASE level.orders = <<>>
      <4>1. Total(side, price)' = 0 /\ Queue(side, price)' = <<>>
        BY <1>8, <3>6, TotalIsSet
      <4>2. Nodes(side, price)' = {}
        BY <4>1, EmptySeq DEF Nodes
      <4>3. Depth(side, price)' = 0
        BY <4>2, SumEmpty DEF Depth
      <4> QED
        BY <4>1, <4>3 DEF Counted
    <3> QED
      BY <3>5, <3>6
  <2>4. CASE ~ Fills
    <3>1. /\ level.orders = Queue(side, price)
          /\ level.total - level.kept = Total(side, price) - Qty
      BY <1>2, <1>7, <2>4 DEF Level
    <3>2. Queue(side, price)' = Queue(side, price) /\ Total(side, price)' = Total(side, price) - Qty
      BY <1>2, <1>8, <3>1, TotalIsSet
    <3>3. Nodes(side, price)' = Nodes(side, price)
      BY <3>2 DEF Nodes
    <3>4. \A n \in Nodes(side, price) : Open(side, price)'[n] = order'[n.order].quantity
      BY <3>3 DEF Open
    <3>5. order'[Maker].quantity = order[Maker].quantity - Qty
      BY <1>2, MatchOrders
    <3>6. /\ Open(side, price)'[head] = Open(side, price)[head] - Qty
          /\ \A n \in Nodes(side, price) : n # head => Open(side, price)'[n] = Open(side, price)[n]
      BY <1>2, <1>3, <1>5, <2>1, <3>4, <3>5
    <3>7. \A n \in Nodes(side, price) : Open(side, price)'[n] \in Int
      BY <1>2, <2>1, <3>6
    <3>8. SumFunctionOnSet(Open(side, price)', Nodes(side, price))
            = Depth(side, price) + Open(side, price)'[head] - Open(side, price)[head]
      <4>1. PICK S, f, g, y : /\ S = Nodes(side, price) /\ f = Open(side, price)
                              /\ g = Open(side, price)' /\ y = head
        OBVIOUS
      <4>2. /\ IsFiniteSet(S) /\ y \in S /\ \A x \in S : f[x] \in Int /\ g[x] \in Int
            /\ \A x \in S : x # y => g[x] = f[x]
        BY <1>3, <2>1, <3>6, <3>7, <4>1
      <4>3. SumFunctionOnSet(g, S) = SumFunctionOnSet(f, S) + g[y] - f[y]
        BY <4>2, SumUpdate
      <4> QED
        BY <4>1, <4>3 DEF Depth
    <3>9. Depth(side, price)' = Depth(side, price) - Qty
      BY <1>2, <1>3, <2>1, <2>2, <3>3, <3>6, <3>8 DEF Depth
    <3> QED
      BY <1>2, <2>1, <2>2, <3>2, <3>9 DEF Counted
  <2> QED
    BY <2>3, <2>4
<1> QED
  BY <1>10, <1>11 DEF AllCounted

\* A remainder that comes to rest is counted in full.
LEMMA ReturnCounts ==
    ASSUME BookInv, BookInv', AllCounted, Return
    PROVE  AllCounted'
<1>1. /\ taker \in Slot /\ order[taker] \in Order /\ order[taker].side \in Side
      /\ order[taker].price \in Price /\ order[taker].quantity \in Nat /\ nodes \in Nat
  BY ReturnStep DEF Order, BookInv, Typed
<1>2. \A s \in Side, p \in Price : \A n \in Nodes(s, p) :
        order'[n.order].quantity = order[n.order].quantity
  BY NodesNow, ReturnStep DEF NodeFacts
<1>3. ASSUME NEW s \in Side, NEW p \in Price, Queue(s, p)' = Queue(s, p),
             Total(s, p)' = Total(s, p)
      PROVE  Counted(s, p)'
  BY <1>2, <1>3, SameDepth DEF AllCounted, Counted
<1>4. CASE ~ (order[taker].quantity > 0)
  <2>1. levels' = levels
    BY <1>4 DEF Return
  <2>2. \A s \in Side, p \in Price : Queue(s, p)' = Queue(s, p) /\ Total(s, p)' = Total(s, p)
    BY <2>1 DEF Queue, Total
  <2> QED
    BY <1>3, <2>2 DEF AllCounted
<1>5. CASE order[taker].quantity > 0
  <2>1. PICK side \in Side, price \in Price : side = order[taker].side /\ price = order[taker].price
    BY <1>1
  <2> DEFINE node == [iterator |-> nodes + 1, order |-> taker]
  <2>2. node \in Node /\ node.iterator = nodes + 1 /\ node.order = taker
    BY <1>1 DEF Node
  <2>3. Queue(side, price) \in Seq(Node) /\ Total(side, price) \in Int
    BY QueueType, NodesNow DEF BookInv, NodeFacts
  <2>4. PICK level \in Level :
          /\ levels' = SetLevel(side, price, level)
          /\ level.orders = Append(Queue(side, price), node)
          /\ level.total - level.kept = Total(side, price) + order[taker].quantity
    <3> DEFINE old == IF price \in DOMAIN levels[side] THEN levels[side][price]
                      ELSE [orders |-> <<>>, total |-> 0, kept |-> 0]
               new == addOrder(old, node, order[taker].quantity)
    <3>1. levels' = SetLevel(side, price, new)
      BY <1>5, <2>1 DEF Return, addToBook, BookSide, Side
    <3>2. /\ old.orders = Queue(side, price) /\ old.total \in Int /\ old.kept \in Int
          /\ old.total - old.kept = Total(side, price)
      BY QueueType DEF Queue, Total, BookInv, Level
    <3> HIDE DEF old, node
    <3>3. new = [orders |-> Append(Queue(side, price), node),
                 total |-> old.total + order[taker].quantity, kept |-> old.kept]
      BY <3>2 DEF addOrder
    <3>4. Append(Queue(side, price), node) \in Seq(Node)
      BY <2>2, <2>3, AppendProperties
    <3>5. /\ old.total + order[taker].quantity \in Int /\ old.kept \in Int
          /\ (old.total + order[taker].quantity) - old.kept
               = Total(side, price) + order[taker].quantity
      BY <1>1, <3>2
    <3> HIDE DEF new
    <3>6. new \in Level
      BY <3>3, <3>4, <3>5 DEF Level
    <3>7. /\ new.orders = Append(Queue(side, price), node)
          /\ new.total - new.kept = Total(side, price) + order[taker].quantity
      BY <3>3, <3>5
    <3> QED
      BY <3>1, <3>6, <3>7
  <2> HIDE DEF node
  <2>5. /\ Len(Append(Queue(side, price), node)) = Len(Queue(side, price)) + 1
        /\ \A i \in 1 .. Len(Queue(side, price)) :
             Append(Queue(side, price), node)[i] = Queue(side, price)[i]
        /\ Append(Queue(side, price), node)[Len(Queue(side, price)) + 1] = node
        /\ Append(Queue(side, price), node) # <<>>
        /\ Len(Queue(side, price)) \in Nat
    BY <2>2, <2>3, AppendProperties, LenProperties
  <2>6. /\ Queue(side, price)' = Append(Queue(side, price), node)
        /\ Total(side, price)' = Total(side, price) + order[taker].quantity
        /\ \A s \in Side, p \in Price : s # side \/ p # price =>
             Queue(s, p)' = Queue(s, p) /\ Total(s, p)' = Total(s, p)
    BY <2>4, <2>5, TotalIsSet
  <2>7. Counted(side, price)'
    <3>1. Nodes(side, price)' = Nodes(side, price) \cup {node}
      <4>1. \A k \in 1 .. Len(Queue(side, price)) + 1 :
              k \in 1 .. Len(Queue(side, price)) \/ k = Len(Queue(side, price)) + 1
        BY <2>5
      <4>2. \A k \in 1 .. Len(Queue(side, price)) : k \in 1 .. Len(Queue(side, price)) + 1
        BY <2>5
      <4>3. Len(Queue(side, price)) + 1 \in 1 .. Len(Queue(side, price)) + 1
        BY <2>5
      <4>4. Nodes(side, price)' = {Append(Queue(side, price), node)[k] :
                                    k \in 1 .. Len(Queue(side, price)) + 1}
        BY <2>5, <2>6 DEF Nodes
      <4> QED
        BY <2>5, <4>1, <4>2, <4>3, <4>4 DEF Nodes
    <3>2. /\ IsFiniteSet(Nodes(side, price)) /\ node \notin Nodes(side, price)
          /\ \A n \in Nodes(side, price) : Open(side, price)[n] = order[n.order].quantity
                                        /\ Open(side, price)[n] \in Int
      BY <1>1, <2>2, NodesNow DEF NodeFacts
    <3>3. \A n \in Nodes(side, price) \cup {node} :
            Open(side, price)'[n] = order'[n.order].quantity
      BY <3>1 DEF Open
    <3>4. Open(side, price)'[node] = order[taker].quantity
      BY <1>1, <2>2, <3>3, ReturnStep
    <3>5. \A n \in Nodes(side, price) : Open(side, price)'[n] = Open(side, price)[n]
      BY <1>2, <3>2, <3>3
    <3>6. Depth(side, price)' = Depth(side, price) + order[taker].quantity
          /\ Depth(side, price) \in Int
      <4>1. PICK S, f, g, y : /\ S = Nodes(side, price) \cup {node} /\ f = Open(side, price)
                              /\ g = Open(side, price)' /\ y = node
        OBVIOUS
      <4>2. /\ IsFiniteSet(S) /\ y \in S /\ \A x \in S : g[x] \in Int
            /\ \A x \in S : x # y => g[x] = f[x]
        BY <1>1, <3>2, <3>4, <3>5, <4>1, FS_AddElement
      <4>3. S \ {y} = Nodes(side, price) /\ SumFunctionOnSet(f, S \ {y}) \in Int
        BY <3>2, <4>1, SumType
      <4>4. SumFunctionOnSet(g, S) = SumFunctionOnSet(f, S \ {y}) + g[y]
        BY <4>2, SumWith
      <4> QED
        BY <3>1, <3>4, <4>1, <4>3, <4>4 DEF Depth
    <3> QED
      BY <1>1, <2>3, <2>6, <3>6 DEF AllCounted, Counted
  <2>8. \A s \in Side, p \in Price : s # side \/ p # price => Counted(s, p)'
    BY <1>3, <2>6
  <2> QED
    BY <2>7, <2>8 DEF AllCounted
<1> QED
  BY <1>4, <1>5

LEMMA CancelCounts ==
    ASSUME BookInv, BookInv', AllCounted, NEW id \in OrderId, cancelOrder(id)
    PROVE  AllCounted'
<1>1. PICK side \in Side, price \in Price : \E i \in 1 .. Len(Queue(side, price)) :
        LET n == Queue(side, price)[i]
            level == levels[side][price]
        IN  /\ price \in DOMAIN levels[side] /\ level \in Level
            /\ order[n.order].id = id /\ n.order \in Slot
            /\ RemoveAt(Queue(side, price), i) \in Seq(Node)
            /\ Removed(Queue(side, price), i, RemoveAt(Queue(side, price), i))
            /\ levels' = SetLevel(side, price,
                  [orders |-> RemoveAt(Queue(side, price), i),
                   total |-> level.total - order[n.order].quantity, kept |-> level.kept])
  BY CancelStep
<1>2. PICK i \in 1 .. Len(Queue(side, price)) :
        LET n == Queue(side, price)[i]
            level == levels[side][price]
        IN  /\ price \in DOMAIN levels[side] /\ level \in Level
            /\ order[n.order].id = id /\ n.order \in Slot
            /\ RemoveAt(Queue(side, price), i) \in Seq(Node)
            /\ Removed(Queue(side, price), i, RemoveAt(Queue(side, price), i))
            /\ levels' = SetLevel(side, price,
                  [orders |-> RemoveAt(Queue(side, price), i),
                   total |-> level.total - order[n.order].quantity, kept |-> level.kept])
  BY <1>1
<1> DEFINE qty == order[Queue(side, price)[i].order].quantity
<1>3. order' = order
  BY CancelStep
<1>4. /\ Total(side, price) = levels[side][price].total - levels[side][price].kept
      /\ levels[side][price].total \in Int /\ levels[side][price].kept \in Int
      /\ Total(side, price) \in Int /\ qty \in Int
  <2>1. Queue(side, price)[i] \in Nodes(side, price)
    BY DEF Nodes
  <2>2. Total(side, price) \in Int
        /\ \A n \in Nodes(side, price) : order[n.order].quantity \in Nat \ {0}
    BY NodesNow DEF NodeFacts
  <2> QED
    BY <1>2, <2>1, <2>2 DEF Total, Level
<1>5. PICK level \in Level : level = [orders |-> RemoveAt(Queue(side, price), i),
                                      total |-> levels[side][price].total - qty,
                                      kept |-> levels[side][price].kept]
  BY <1>2, <1>4 DEF Level
<1>6. levels' = SetLevel(side, price, level)
  BY <1>2, <1>4, <1>5
<1>7. /\ Queue(side, price)' = RemoveAt(Queue(side, price), i)
      /\ level.orders # <<>> => Total(side, price)' = Total(side, price) - qty
      /\ level.orders = <<>> => Total(side, price)' = 0
      /\ \A s \in Side, p \in Price : s # side \/ p # price =>
           Queue(s, p)' = Queue(s, p) /\ Total(s, p)' = Total(s, p)
  <2>1. level.orders = RemoveAt(Queue(side, price), i)
        /\ level.total - level.kept = Total(side, price) - qty
    BY <1>4, <1>5
  <2> QED
    BY <1>6, <2>1, TotalIsSet
<1>8. \A s \in Side, p \in Price : s # side \/ p # price => Counted(s, p)'
  BY <1>3, <1>7, SameDepth DEF AllCounted, Counted
<1>9. Counted(side, price)'
  <2>1. Removed(Queue(side, price), i, Queue(side, price)')
    BY <1>2, <1>7
  <2>2. Depth(side, price)' = Depth(side, price) - qty
    BY <1>3, <2>1, DropDepth
  <2>3. Depth(side, price) \in Int
    BY NodesNow, SumType DEF NodeFacts, Depth
  <2>4. CASE level.orders # <<>>
    BY <1>4, <1>7, <2>2, <2>3, <2>4 DEF AllCounted, Counted
  <2>5. CASE level.orders = <<>>
    <3>1. Queue(side, price)' = <<>>
      BY <1>5, <1>7, <2>5
    <3>2. Nodes(side, price)' = {}
      BY <3>1, EmptySeq DEF Nodes
    <3>3. Depth(side, price)' = 0
      BY <3>2, SumEmpty DEF Depth
    <3> QED
      BY <1>7, <2>5, <3>3 DEF Counted
  <2> QED
    BY <2>4, <2>5
<1> QED
  BY <1>8, <1>9 DEF AllCounted

LEMMA SubmitCounts ==
    ASSUME BookInv, AllCounted, NEW s \in Slot, NEW id \in OrderId, NEW side \in Side,
           NEW price \in Price, NEW quantity \in Quantity, Submit(s, id, side, price, quantity)
    PROVE  AllCounted'
<1>1. levels' = levels /\ \A r \in Slot : Used(r) => order'[r] = order[r]
  BY DEF Submit, BookInv, Typed, Used
<1>2. \A a \in Side, p \in Price : Queue(a, p)' = Queue(a, p) /\ Total(a, p)' = Total(a, p)
  BY <1>1 DEF Queue, Total
<1>3. \A a \in Side, p \in Price : \A n \in Nodes(a, p) :
        order'[n.order].quantity = order[n.order].quantity
  BY <1>1, QueueType DEF BookInv, Nodes, NodesPointAtOrders, Points
<1> QED
  BY <1>2, <1>3, SameDepth DEF AllCounted, Counted

LEMMA InitCounts == Init => AllCounted
<1> SUFFICES ASSUME Init, NEW side \in Side, NEW p \in Price PROVE Counted(side, p)
  BY DEF AllCounted
<1>1. levels[side] = <<>> /\ DOMAIN levels[side] = {}
  BY DEF Init
<1>2. Total(side, p) = 0 /\ Queue(side, p) = <<>>
  BY <1>1 DEF Total, Queue
<1>3. Nodes(side, p) = {}
  BY <1>2, EmptySeq DEF Nodes
<1> QED
  BY <1>2, <1>3, SumEmpty DEF Counted, Depth

\* A level's running total is the open quantity of its orders and the last fills of the makers
\* filled whole there, which popFront leaves in it.
THEOREM DepthIsOff == Spec => []DepthIsOffByLastFills
<1>1. ASSUME BookInv, BookInv', AllCounted, [Next]_vars PROVE AllCounted'
  <2>1. CASE UNCHANGED vars
    BY <1>1, <2>1 DEF vars, AllCounted, Counted, Total, Depth, Open, Nodes, Queue
  <2> QED
    BY <1>1, <2>1, MatchCounts, ReturnCounts, CancelCounts, SubmitCounts DEF Next
<1>2. BookInv /\ AllCounted => DepthIsOffByLastFills
  BY DepthIsCounted
<1> QED
  BY <1>1, <1>2, InitCounts, AlwaysInv, PTL DEF Spec

-----------------------------------------------------------------------------
(* The published volume.  During a call the trades not yet published are counted too. *)

Published == tape \o trades
VolumeAgrees ==
    \A id \in OrderId : /\ Executed(id, "buy") = Bought(id, Published)
                        /\ Executed(id, "sell") = Sold(id, Published)
NothingPending == Idle => trades = <<>>

Ids(id, side) == {s \in Slot : order[s].id = id /\ order[s].side = side}
Lost(id, side) == [s \in Ids(id, side) |-> asked[s] - order[s].quantity]

\* A submitted order asks for what it has.
LEMMA ExecutedIsSum ==
    ASSUME BookInv, NEW id \in OrderId, NEW side \in Side
    PROVE  /\ IsFiniteSet(Ids(id, side))
           /\ \A s \in Ids(id, side) : /\ order[s] \in Order /\ Lost(id, side)[s] \in Int
                                       /\ Lost(id, side)[s] = asked[s] - order[s].quantity
           /\ Executed(id, side) = SumFunctionOnSet(Lost(id, side), Ids(id, side))
<1>1. \A s \in Ids(id, side) : Used(s)
  BY Numbers DEF Ids, Used, NoOrder
<1>2. IsFiniteSet(Ids(id, side))
  <2>1. Ids(id, side) \subseteq {s \in Slot : Used(s)}
    BY <1>1 DEF Ids
  <2> QED
    BY <2>1, FS_Subset DEF BookInv, SlotsInOrder
<1>3. ASSUME NEW s \in Ids(id, side)
      PROVE  /\ order[s] \in Order /\ Lost(id, side)[s] \in Int
             /\ Lost(id, side)[s] = asked[s] - order[s].quantity
  <2>1. s \in Slot /\ order[s] \in Order
    BY <1>1, OrderType DEF BookInv, Ids
  <2>2. asked[s] \in Nat /\ order[s].quantity \in Nat
    BY <2>1 DEF BookInv, Typed, Order
  <2>3. Lost(id, side)[s] = asked[s] - order[s].quantity
    BY DEF Lost
  <2> QED
    BY <2>1, <2>2, <2>3
<1>4. Executed(id, side) = SumFunctionOnSet(Lost(id, side), Ids(id, side))
  BY DEF Executed, SumFunction, Lost, Ids
<1> QED
  BY <1>2, <1>3, <1>4

Volume(events, S) == SumFunction([n \in S |-> events[n].quantity])

\* What one more trade adds to what an id has bought or sold.
LEMMA TradeIsCounted ==
    ASSUME NEW events \in Seq(PublishedTrade), NEW event \in PublishedTrade, NEW id
    PROVE  /\ Bought(id, events) \in Int /\ Sold(id, events) \in Int
           /\ Bought(id, Append(events, event))
                = Bought(id, events) + IF event.buy = id THEN event.quantity ELSE 0
           /\ Sold(id, Append(events, event))
                = Sold(id, events) + IF event.sell = id THEN event.quantity ELSE 0
<1> DEFINE last == Len(events) + 1
           longer == Append(events, event)
<1>1. /\ Len(events) \in Nat /\ DOMAIN events = 1 .. Len(events)
      /\ longer \in Seq(PublishedTrade) /\ Len(longer) = last
      /\ \A k \in 1 .. Len(events) : longer[k] = events[k] /\ events[k] \in PublishedTrade
      /\ longer[last] = event
  BY AppendProperties, LenProperties, ElementOfSeq
<1>2. DOMAIN longer = 1 .. last
  BY <1>1, LenProperties
<1>3. last \notin 1 .. Len(events) /\ 1 .. last = (1 .. Len(events)) \cup {last}
  BY <1>1
<1> HIDE DEF last, longer
<1>4. \A k \in 1 .. Len(events) : events[k].quantity \in Int
  BY <1>1 DEF PublishedTrade
<1>5. event.quantity \in Int
  BY DEF PublishedTrade
<1>6. ASSUME NEW S \in SUBSET (1 .. Len(events))
      PROVE  /\ Volume(events, S) \in Int
             /\ Volume(longer, S) = Volume(events, S)
             /\ Volume(longer, S \cup {last}) = Volume(events, S) + event.quantity
  <2> DEFINE T == S \cup {last}
             f == [n \in S |-> events[n].quantity]
             g == [n \in S |-> longer[n].quantity]
             h == [n \in T |-> longer[n].quantity]
  <2>1. IsFiniteSet(1 .. Len(events))
    BY <1>1, FS_Interval
  <2>2. IsFiniteSet(S) /\ last \notin S
    BY <1>3, <2>1, FS_Subset
  <2>3. IsFiniteSet(T) /\ last \in T /\ T \ {last} = S
    BY <2>2, FS_AddElement
  <2>4. /\ \A x \in S : f[x] \in Int /\ g[x] = f[x] /\ h[x] = f[x]
        /\ h[last] = event.quantity
        /\ DOMAIN f = S /\ DOMAIN g = S /\ DOMAIN h = T
    BY <1>1, <1>4
  <2>5. /\ Volume(events, S) = SumFunctionOnSet(f, S) /\ Volume(longer, S) = SumFunctionOnSet(g, S)
        /\ Volume(longer, T) = SumFunctionOnSet(h, T)
    BY <2>4 DEF Volume, SumFunction
  <2>6. \A x \in T : x \in S \/ x = last
    OBVIOUS
  <2> HIDE DEF f, g, h, T
  <2>7. SumFunctionOnSet(f, S) \in Int
    BY <2>2, <2>4, SumType
  <2>8. SumFunctionOnSet(g, S) = SumFunctionOnSet(f, S)
    BY <2>2, <2>4, SumEqual
  <2>9. (\A x \in T : h[x] \in Int) /\ \A x \in T : x # last => h[x] = f[x]
    BY <1>5, <2>4, <2>6
  <2>10. SumFunctionOnSet(h, T) = SumFunctionOnSet(f, T \ {last}) + h[last]
    BY <2>3, <2>9, SumWith
  <2> QED
    BY <2>3, <2>4, <2>5, <2>7, <2>8, <2>10 DEF T
<1>7. /\ Bought(id, events) \in Int
      /\ Bought(id, longer) = Bought(id, events) + IF event.buy = id THEN event.quantity ELSE 0
  <2> DEFINE S == {k \in DOMAIN events : events[k].buy = id}
             T == {k \in DOMAIN longer : longer[k].buy = id}
  <2>1. S \in SUBSET (1 .. Len(events)) /\ T = IF event.buy = id THEN S \cup {last} ELSE S
    BY <1>1, <1>2, <1>3
  <2>2. Bought(id, events) = Volume(events, S) /\ Bought(id, longer) = Volume(longer, T)
    BY DEF Bought, Volume
  <2> HIDE DEF S, T
  <2>3. /\ Volume(events, S) \in Int /\ Volume(longer, S) = Volume(events, S)
        /\ Volume(longer, S \cup {last}) = Volume(events, S) + event.quantity
    BY <1>6, <2>1
  <2>4. CASE event.buy = id
    BY <2>1, <2>2, <2>3, <2>4
  <2>5. CASE event.buy # id
    BY <2>1, <2>2, <2>3, <2>5
  <2> QED
    BY <2>4, <2>5
<1>8. /\ Sold(id, events) \in Int
      /\ Sold(id, longer) = Sold(id, events) + IF event.sell = id THEN event.quantity ELSE 0
  <2> DEFINE S == {k \in DOMAIN events : events[k].sell = id}
             T == {k \in DOMAIN longer : longer[k].sell = id}
  <2>1. S \in SUBSET (1 .. Len(events)) /\ T = IF event.sell = id THEN S \cup {last} ELSE S
    BY <1>1, <1>2, <1>3
  <2>2. Sold(id, events) = Volume(events, S) /\ Sold(id, longer) = Volume(longer, T)
    BY DEF Sold, Volume
  <2> HIDE DEF S, T
  <2>3. /\ Volume(events, S) \in Int /\ Volume(longer, S) = Volume(events, S)
        /\ Volume(longer, S \cup {last}) = Volume(events, S) + event.quantity
    BY <1>6, <2>1
  <2>4. CASE event.sell = id
    BY <2>1, <2>2, <2>3, <2>4
  <2>5. CASE event.sell # id
    BY <2>1, <2>2, <2>3, <2>5
  <2> QED
    BY <2>4, <2>5
<1> QED
  BY <1>7, <1>8 DEF longer

LEMMA ExecutedNext ==
    ASSUME BookInv', NEW id \in OrderId, NEW side \in Side
    PROVE  Executed(id, side)' = SumFunctionOnSet(Lost(id, side)', Ids(id, side)')
BY DEF Executed, SumFunction, Lost, Ids

\* Nothing was executed where no quantity was lost; one more order does not matter.
LEMMA SameExecuted ==
    ASSUME BookInv, BookInv', NEW new, NEW id \in OrderId, NEW side \in Side,
           \A s \in Slot \ {new} :
              /\ order'[s].id = order[s].id /\ order'[s].side = order[s].side
              /\ order'[s].quantity = order[s].quantity /\ asked'[s] = asked[s],
           new \in Slot => ~ Used(new) /\ asked'[new] = order'[new].quantity
    PROVE  Executed(id, side)' = Executed(id, side)
<1> DEFINE S == Ids(id, side)
           T == Ids(id, side)'
           f == Lost(id, side)
           g == Lost(id, side)'
<1>1. IsFiniteSet(S) /\ (\A s \in S : f[s] \in Int)
      /\ Executed(id, side) = SumFunctionOnSet(f, S)
  BY ExecutedIsSum
<1>2. Executed(id, side)' = SumFunctionOnSet(g, T)
  BY ExecutedNext
<1>3. new \notin S
  BY Numbers DEF Ids, Used, NoOrder
<1>4. T = S \/ (new \in Slot /\ T = S \cup {new})
  BY <1>3 DEF Ids
<1>5. \A s \in S : g[s] = f[s]
  BY <1>3, <1>4 DEF Ids, Lost
<1>6. new \in T => new \in Slot /\ g[new] = asked'[new] - order'[new].quantity
                   /\ order'[new].quantity \in Int
  BY OrderType, Numbers DEF BookInv, Typed, Ids, Lost, Order, NoOrder
<1>7. new \in T => g[new] = 0
  BY <1>6
<1> HIDE DEF S, T, f, g
<1>8. SumFunctionOnSet(f, S) \in Int
  BY <1>1, SumType
<1>9. CASE T = S
  <2>1. SumFunctionOnSet(g, S) = SumFunctionOnSet(f, S)
    BY <1>1, <1>5, SumEqual
  <2> QED
    BY <1>1, <1>2, <1>9, <2>1
<1>10. CASE T = S \cup {new}
  <2>1. IsFiniteSet(T) /\ new \in T /\ T \ {new} = S
    BY <1>1, <1>3, <1>10, FS_AddElement
  <2>2. (\A s \in T : g[s] \in Int) /\ \A s \in T : s # new => g[s] = f[s]
    BY <1>1, <1>5, <1>7, <1>10
  <2>3. SumFunctionOnSet(g, T) = SumFunctionOnSet(f, T \ {new}) + g[new]
    BY <2>1, <2>2, SumWith
  <2>4. g[new] = 0
    BY <1>7, <2>1
  <2>5. SumFunctionOnSet(g, T) = SumFunctionOnSet(f, S)
    <3>1. SumFunctionOnSet(f, T \ {new}) = SumFunctionOnSet(f, S)
      BY <2>1
    <3>2. SumFunctionOnSet(g, T) = SumFunctionOnSet(f, S) + 0
      BY <2>3, <2>4, <3>1
    <3> QED
      BY <1>8, <3>2
  <2> QED
    BY <1>1, <1>2, <2>5
<1> QED
  BY <1>4, <1>9, <1>10

\* A turn of the loop executes its quantity for the one buyer and the one seller.
LEMMA MatchExecutes ==
    ASSUME BookInv, BookInv', MatchFront, NEW id \in OrderId, NEW side \in Side
    PROVE  LET s == IF side = order[taker].side THEN taker ELSE Maker
           IN  Executed(id, side)' = Executed(id, side) + IF order[s].id = id THEN Qty ELSE 0
<1> DEFINE who == IF side = order[taker].side THEN taker ELSE Maker
           S == Ids(id, side)
           f == Lost(id, side)
           g == Lost(id, side)'
<1>1. /\ taker \in Slot /\ Maker \in Slot /\ Maker # taker /\ Qty \in Nat \ {0}
      /\ order[Maker].side # order[taker].side
      /\ order[taker].side \in Side /\ order[Maker].side \in Side
  BY MatchSetup DEF Order
<1>2. IsFiniteSet(S) /\ (\A s \in S : f[s] \in Int)
      /\ Executed(id, side) = SumFunctionOnSet(f, S)
  BY ExecutedIsSum
<1>3. Executed(id, side)' = SumFunctionOnSet(Lost(id, side)', Ids(id, side)')
  BY ExecutedNext
<1>4. Ids(id, side)' = S
  BY MatchOrders DEF Ids
<1>5. asked' = asked
  BY MatchStep
<1>6. ASSUME NEW s \in S
      PROVE  /\ s # who => g[s] = f[s]
             /\ s = who => g[s] = f[s] + Qty
  <2>1. s \in Slot /\ order[s].side = side /\ order[s] \in Order /\ f[s] = asked[s] - order[s].quantity
    BY ExecutedIsSum DEF Ids
  <2>2. g[s] = asked[s] - order'[s].quantity
    BY <1>4, <1>5 DEF Lost
  <2>3. order[s].quantity \in Int /\ asked[s] \in Int
    BY <2>1 DEF Order, BookInv, Typed
  <2>4. order'[s].quantity = IF s \in {taker, Maker} THEN order[s].quantity - Qty
                             ELSE order[s].quantity
    BY <2>1, MatchOrders
  <2>5. s \in {taker, Maker} <=> s = who
    BY <1>1, <2>1 DEF Side
  <2> HIDE DEF who, f, g, S
  <2> QED
    BY <1>1, <2>1, <2>2, <2>3, <2>4, <2>5
<1>7. who \in S <=> order[who].id = id
  BY <1>1 DEF Ids, Side
<1> HIDE DEF who, f, g, S
<1>8. SumFunctionOnSet(f, S) \in Int
  BY <1>2, SumType
<1>9. CASE order[who].id = id
  <2>1. who \in S /\ \A s \in S : g[s] \in Int
    BY <1>1, <1>2, <1>6, <1>7, <1>9
  <2>2. SumFunctionOnSet(g, S) = SumFunctionOnSet(f, S) + g[who] - f[who]
    BY <1>2, <1>6, <2>1, SumUpdate
  <2>3. Executed(id, side)' = Executed(id, side) + Qty
    BY <1>1, <1>2, <1>3, <1>4, <1>6, <1>8, <2>1, <2>2 DEF g
  <2> QED
    BY <1>9, <2>3 DEF who
<1>10. CASE order[who].id # id
  <2>1. SumFunctionOnSet(g, S) = SumFunctionOnSet(f, S)
    BY <1>2, <1>6, <1>7, <1>10, SumEqual
  <2> QED
    BY <1>2, <1>3, <1>4, <1>8, <1>10, <2>1 DEF g, who
<1> QED
  BY <1>9, <1>10

\* A trade's record, appended to what was published and is to be published.
LEMMA MatchPublishes ==
    ASSUME BookInv, MatchFront
    PROVE  /\ Published \in Seq(PublishedTrade) /\ TradeOf(Maker, Qty) \in PublishedTrade
           /\ Published' = Append(Published, TradeOf(Maker, Qty))
<1> DEFINE event == TradeOf(Maker, Qty)
<1>1. /\ order[taker] \in Order /\ order[Maker] \in Order /\ Qty \in Nat
  BY MatchSetup
<1>2. event \in PublishedTrade
  BY <1>1 DEF TradeOf, PublishedTrade, Order
<1> HIDE DEF event
<1>3. tape \in Seq(PublishedTrade) /\ trades \in Seq(PublishedTrade)
  BY DEF BookInv, Typed
<1>4. Published \in Seq(PublishedTrade)
  BY <1>3, ConcatProperties DEF Published
<1>5. trades' = Append(trades, event) /\ tape' = tape
  BY MatchStep DEF event
<1>6. /\ Append(trades, event) = trades \o <<event>>
      /\ Append(tape \o trades, event) = (tape \o trades) \o <<event>>
      /\ <<event>> \in Seq(PublishedTrade)
  BY <1>2, <1>3, <1>4, AppendIsConcat DEF Published
<1>7. tape \o (trades \o <<event>>) = (tape \o trades) \o <<event>>
  BY <1>3, <1>6, ConcatAssociative
<1>8. Published' = tape \o Append(trades, event)
  BY <1>5 DEF Published
<1> QED
  BY <1>2, <1>4, <1>6, <1>7, <1>8 DEF Published, event

LEMMA MatchVolume ==
    ASSUME BookInv, BookInv', VolumeAgrees, MatchFront, NEW id \in OrderId
    PROVE  /\ Executed(id, "buy")' = Bought(id, Published')
           /\ Executed(id, "sell")' = Sold(id, Published')
<1> DEFINE event == TradeOf(Maker, Qty)
           buyer == IF order[taker].side = "buy" THEN taker ELSE Maker
           seller == IF order[taker].side = "sell" THEN taker ELSE Maker
<1>1. /\ Published \in Seq(PublishedTrade) /\ event \in PublishedTrade
      /\ Published' = Append(Published, event)
  BY MatchPublishes
<1>2. order[taker].side \in Side
  BY MatchSetup DEF Order
<1>3. event.buy = order[buyer].id /\ event.sell = order[seller].id /\ event.quantity = Qty
  BY <1>2 DEF TradeOf, Side
<1>4. "buy" \in Side /\ "sell" \in Side
  BY DEF Side
<1>5. /\ Executed(id, "buy")' = Executed(id, "buy") + IF order[buyer].id = id THEN Qty ELSE 0
      /\ Executed(id, "sell")' = Executed(id, "sell") + IF order[seller].id = id THEN Qty ELSE 0
  <2>1. Executed(id, "buy")' = Executed(id, "buy") + IF order[buyer].id = id THEN Qty ELSE 0
    BY <1>4, MatchExecutes
  <2>2. Executed(id, "sell")' = Executed(id, "sell") + IF order[seller].id = id THEN Qty ELSE 0
    BY <1>4, MatchExecutes
  <2> QED
    BY <2>1, <2>2
<1> HIDE DEF event, buyer, seller
<1>6. /\ Bought(id, Append(Published, event))
           = Bought(id, Published) + IF event.buy = id THEN event.quantity ELSE 0
      /\ Sold(id, Append(Published, event))
           = Sold(id, Published) + IF event.sell = id THEN event.quantity ELSE 0
  BY <1>1, TradeIsCounted
<1> QED
  BY <1>1, <1>3, <1>5, <1>6 DEF VolumeAgrees

\* Where no order loses quantity and nothing is traded, the volume stays what it was.
LEMMA VolumeStays ==
    ASSUME BookInv, BookInv', VolumeAgrees, Published' = Published, NEW new,
           \A s \in Slot \ {new} :
              /\ order'[s].id = order[s].id /\ order'[s].side = order[s].side
              /\ order'[s].quantity = order[s].quantity /\ asked'[s] = asked[s],
           new \in Slot => ~ Used(new) /\ asked'[new] = order'[new].quantity
    PROVE  VolumeAgrees'
<1> SUFFICES ASSUME NEW id \in OrderId
             PROVE  /\ Executed(id, "buy")' = Bought(id, Published)'
                    /\ Executed(id, "sell")' = Sold(id, Published)'
  BY DEF VolumeAgrees
<1>1. "buy" \in Side /\ "sell" \in Side
  BY DEF Side
<1>2. Executed(id, "buy")' = Executed(id, "buy")
  BY <1>1, SameExecuted
<1>3. Executed(id, "sell")' = Executed(id, "sell")
  BY <1>1, SameExecuted
<1>4. Bought(id, Published)' = Bought(id, Published) /\ Sold(id, Published)' = Sold(id, Published)
  BY DEF Bought, Sold
<1> QED
  BY <1>2, <1>3, <1>4 DEF VolumeAgrees

LEMMA VolumeStep ==
    ASSUME BookInv, BookInv', VolumeAgrees, NothingPending, [Next]_vars
    PROVE  VolumeAgrees' /\ NothingPending'
<1>1. ASSUME NEW s \in Slot, NEW id \in OrderId, NEW side \in Side, NEW price \in Price,
             NEW quantity \in Quantity, Submit(s, id, side, price, quantity)
      PROVE  VolumeAgrees' /\ NothingPending'
  <2>1. /\ Published' = Published /\ taker' = s /\ s # 0 /\ ~ Used(s)
        /\ order' = [order EXCEPT ![s] = [id |-> id, side |-> side, price |-> price,
                                          quantity |-> quantity, status |-> "New"]]
        /\ asked' = [asked EXCEPT ![s] = quantity]
    BY <1>1, Numbers DEF Submit, Published, Used
  <2>2. order'[s].quantity = quantity /\ asked'[s] = quantity
    BY <2>1 DEF BookInv, Typed
  <2>3. \A r \in Slot \ {s} : order'[r] = order[r] /\ asked'[r] = asked[r]
    BY <2>1 DEF BookInv, Typed
  <2>4. VolumeAgrees'
    BY <2>1, <2>2, <2>3, VolumeStays
  <2> QED
    BY <2>1, <2>4 DEF NothingPending, Idle
<1>2. CASE MatchFront
  <2>1. taker' # 0
    BY <1>2, MatchStep DEF MatchFront
  <2>2. VolumeAgrees'
    <3> SUFFICES ASSUME NEW id \in OrderId
                 PROVE  /\ Executed(id, "buy")' = Bought(id, Published)'
                        /\ Executed(id, "sell")' = Sold(id, Published)'
      BY DEF VolumeAgrees
    <3>1. /\ Executed(id, "buy")' = Bought(id, Published')
          /\ Executed(id, "sell")' = Sold(id, Published')
      BY <1>2, MatchVolume
    <3> QED
      BY <3>1 DEF Bought, Sold
  <2> QED
    BY <2>1, <2>2 DEF NothingPending, Idle
<1>3. CASE Return
  <2>1. /\ tape' = tape \o trades /\ trades' = <<>> /\ asked' = asked
        /\ \A s \in Slot : /\ order'[s].id = order[s].id /\ order'[s].side = order[s].side
                           /\ order'[s].quantity = order[s].quantity
    BY <1>3, ReturnStep
  <2>2. tape' \in Seq(PublishedTrade)
    BY DEF BookInv, Typed
  <2>3. Published' = Published
    BY <2>1, <2>2, ConcatEmptySeq DEF Published
  <2>4. 0 \notin Slot
    BY Numbers
  <2>5. VolumeAgrees'
    BY <2>1, <2>3, <2>4, VolumeStays
  <2> QED
    BY <2>1, <2>5 DEF NothingPending
<1>4. ASSUME NEW id \in OrderId, cancelOrder(id)
      PROVE  VolumeAgrees' /\ NothingPending'
  <2>1. UNCHANGED <<order, taker, trades, tape, asked>>
    BY <1>4 DEF cancelOrder
  <2> QED
    BY <2>1 DEF VolumeAgrees, NothingPending, Idle, Published, Executed, Bought, Sold
<1>5. CASE UNCHANGED vars
  BY <1>5 DEF vars, VolumeAgrees, NothingPending, Idle, Published, Executed, Bought, Sold
<1> QED
  BY <1>1, <1>2, <1>3, <1>4, <1>5 DEF Next

LEMMA InitVolume == Init => VolumeAgrees /\ NothingPending
<1> SUFFICES ASSUME Init, NEW id \in OrderId, NEW side \in Side
             PROVE  /\ trades = <<>>
                    /\ Executed(id, side) = 0
                    /\ Bought(id, Published) = 0 /\ Sold(id, Published) = 0
  BY DEF VolumeAgrees, NothingPending, Side, Init
<1>1. tape = <<>> /\ trades = <<>> /\ \A s \in Slot : order[s].id = -1
  BY DEF Init, NoOrder
<1>2. Published = <<>> /\ DOMAIN <<>> = {}
  BY <1>1 DEF Published
<1>3. Ids(id, side) = {}
  BY <1>1, Numbers DEF Ids
<1>4. Executed(id, side) = SumFunctionOnSet(Lost(id, side), {})
  BY <1>3 DEF Executed, SumFunction, Lost, Ids
<1>5. \A S : S = {} => Volume(<<>>, S) = 0
  BY SumEmpty DEF Volume, SumFunction
<1>6. Bought(id, Published) = 0
  <2> DEFINE S == {k \in DOMAIN <<>> : <<>>[k].buy = id}
  <2>1. S = {} /\ Bought(id, Published) = Volume(<<>>, S)
    BY <1>2 DEF Bought, Volume
  <2> QED
    BY <1>5, <2>1
<1>7. Sold(id, Published) = 0
  <2> DEFINE S == {k \in DOMAIN <<>> : <<>>[k].sell = id}
  <2>1. S = {} /\ Sold(id, Published) = Volume(<<>>, S)
    BY <1>2 DEF Sold, Volume
  <2> QED
    BY <1>5, <2>1
<1> QED
  BY <1>1, <1>4, <1>6, <1>7, SumEmpty

\* Between calls the tape says of every id what its orders have lost.
THEOREM TapeShowsTheVolume == Spec => []VolumeIsPublished
<1>1. VolumeAgrees /\ NothingPending /\ BookInv => VolumeIsPublished
  <2> SUFFICES ASSUME VolumeAgrees, NothingPending, BookInv, Idle, NEW id \in OrderId
               PROVE  Executed(id, "buy") = Bought(id, tape) /\ Executed(id, "sell") = Sold(id, tape)
    BY DEF VolumeIsPublished
  <2>1. Published = tape
    BY ConcatEmptySeq DEF NothingPending, Published, BookInv, Typed
  <2> QED
    BY <2>1 DEF VolumeAgrees
<1> QED
  BY <1>1, InitVolume, VolumeStep, AlwaysInv, PTL DEF Spec


-----------------------------------------------------------------------------
(* The maps of lists of pointers implement PriceTimePriority, step by step. *)

AsEntry(s) == [side |-> order[s].side, price |-> order[s].price, qty |-> order[s].quantity,
               arrival |-> s]
Nobody == [side |-> "none", price |-> 0, qty |-> 0, arrival |-> 0]

LEMMA RestingOrdersAre ==
    /\ RestingOrders = [s \in Slot |-> IF Resting(s) THEN AsEntry(s) ELSE Nobody]
    /\ Priority!NotResting = Nobody
    /\ Priority!NoTaker = [id |-> 0, side |-> "none", limit |-> 0, left |-> 0]
    /\ taker = 0 => Incoming = Priority!NoTaker
    /\ taker # 0 => Incoming = [id |-> taker, side |-> order[taker].side,
                                limit |-> order[taker].price, left |-> order[taker].quantity]
BY DEF RestingOrders, AsEntry, Nobody, Incoming, Idle, Priority!NotResting, Priority!NoTaker,
       Priority!NoLimit

LEMMA RestingOrdersNext ==
    /\ RestingOrders' = [s \in Slot |-> IF Resting(s)' THEN AsEntry(s)' ELSE Nobody]
    /\ taker' = 0 => Incoming' = Priority!NoTaker
    /\ taker' # 0 => Incoming' = [id |-> taker', side |-> order'[taker'].side,
                                  limit |-> order'[taker'].price, left |-> order'[taker'].quantity]
BY DEF RestingOrders, AsEntry, Nobody, Incoming, Idle, Priority!NoTaker, Priority!NoLimit

\* What an order in the book is.
LEMMA RestingFacts ==
    ASSUME BookInv, NEW s \in Slot, Resting(s)
    PROVE  /\ Used(s) /\ s # taker /\ order[s] \in Order /\ order[s].quantity > 0
           /\ order[s].side \in Side /\ order[s].price \in Price
           /\ order[s].price \in DOMAIN levels[order[s].side]
           /\ \E k \in 1 .. Len(Queue(order[s].side, order[s].price)) :
                 Queue(order[s].side, order[s].price)[k].order = s
<1>1. PICK side \in Side, p \in Price : \E k \in 1 .. Len(Queue(side, p)) :
         Queue(side, p)[k].order = s
  BY RestingIsInQueue DEF BookInv, InQueue
<1>2. PICK k \in 1 .. Len(Queue(side, p)) : Queue(side, p)[k].order = s
  BY <1>1
<1>3. Points(Queue(side, p)[k], side, p)
  BY DEF BookInv, NodesPointAtOrders
<1>4. /\ Used(s) /\ s # taker /\ order[s].quantity > 0
      /\ order[s].side = side /\ order[s].price = p
  BY <1>2, <1>3 DEF Points
<1>5. p \in DOMAIN levels[side]
  BY QueueType DEF BookInv
<1>6. order[s] \in Order
  BY <1>4, OrderType DEF BookInv
<1> QED
  BY <1>2, <1>4, <1>5, <1>6

LEMMA RestingAfterDrop ==
    ASSUME Typed, Typed', NEW gone, QueuesDrop(gone)
    PROVE  \A s \in Slot : Resting(s)' <=> Resting(s) /\ s # gone
<1> SUFFICES ASSUME NEW s \in Slot PROVE InQueue(s)' <=> InQueue(s) /\ s # gone
  BY RestingIsInQueue, QueuesNext DEF Queues
<1>1. ASSUME InQueue(s)' PROVE InQueue(s) /\ s # gone
  <2>1. PICK side \in Side, p \in Price : \E k \in 1 .. Len(Queue(side, p)') :
           Queue(side, p)'[k].order = s
    BY <1>1 DEF InQueue
  <2>2. s # gone /\ \E j \in 1 .. Len(Queue(side, p)) : Queue(side, p)[j].order = s
    BY <2>1 DEF QueuesDrop, Subqueue
  <2> QED
    BY <2>2 DEF InQueue
<1>2. ASSUME InQueue(s), s # gone PROVE InQueue(s)'
  <2>1. PICK side \in Side, p \in Price : \E k \in 1 .. Len(Queue(side, p)) :
           Queue(side, p)[k].order = s
    BY <1>2 DEF InQueue
  <2>2. \E j \in 1 .. Len(Queue(side, p)') : Queue(side, p)'[j].order = s
    BY <1>2, <2>1 DEF QueuesDrop
  <2> QED
    BY <2>2 DEF InQueue
<1> QED
  BY <1>1, <1>2

LEMMA SubmitIsArrive ==
    ASSUME BookInv, NEW s \in Slot, NEW id \in OrderId, NEW side \in Side, NEW price \in Price,
           NEW quantity \in Quantity, Submit(s, id, side, price, quantity)
    PROVE  Priority!Arrive(s, side, price, quantity)
<1>1. /\ order' = [order EXCEPT ![s] = [id |-> id, side |-> side, price |-> price,
                                        quantity |-> quantity, status |-> "New"]]
      /\ taker = 0 /\ taker' = s /\ ~ Used(s) /\ levels' = levels /\ s # 0
  BY Numbers DEF Submit, Used
<1>2. /\ order'[s].side = side /\ order'[s].price = price /\ order'[s].quantity = quantity
      /\ \A r \in Slot \ {s} : order'[r] = order[r]
  BY <1>1 DEF BookInv, Typed
<1>3. ~ Resting(s)
  BY <1>1, RestingFacts
<1>4. \A r \in Slot : Resting(r)' <=> Resting(r)
  BY <1>1 DEF Resting, NodesAt
<1>5. \A r \in Slot : Resting(r) => AsEntry(r)' = AsEntry(r)
  BY <1>2, <1>3 DEF AsEntry
<1>6. RestingOrders' = RestingOrders
  BY <1>4, <1>5, RestingOrdersAre, RestingOrdersNext
<1>7. RestingOrders[s] = Nobody
  BY <1>3, RestingOrdersAre
<1>8. Incoming' = [id |-> s, side |-> side, limit |-> price, left |-> quantity]
  BY <1>1, <1>2, RestingOrdersNext
<1>9. Incoming = Priority!NoTaker
  BY <1>1, RestingOrdersAre
<1> QED
  BY <1>6, <1>7, <1>8, <1>9, RestingOrdersAre DEF Priority!Arrive

\* The front of the best level is the first in line.
LEMMA FrontIsFirst ==
    ASSUME BookInv, MatchFront
    PROVE  /\ Resting(Maker)
           /\ Maker \in Priority!First(Other)
<1>1. PICK side \in Side, price \in Price : side = Other /\ price = BestPrice
  BY MatchSetup
<1>2. /\ 1 \in 1 .. Len(Queue(side, price)) /\ Maker = Queue(side, price)[1].order
      /\ Maker \in Slot /\ order[Maker].side = side /\ order[Maker].price = price
      /\ \A p \in DOMAIN levels[side] : IF side = "buy" THEN price >= p ELSE price <= p
  BY <1>1, MatchSetup
<1>3. Resting(Maker)
  BY <1>2, RestingIsInQueue DEF BookInv, InQueue
<1>4. RestingOrders[Maker] = AsEntry(Maker)
  BY <1>2, <1>3, RestingOrdersAre
<1>5. ASSUME NEW j \in Slot \ {Maker}, RestingOrders[j].side = side
      PROVE  Priority!Before(Maker, j)
  <2>1. Resting(j) /\ RestingOrders[j] = AsEntry(j) /\ order[j].side = side
    BY <1>5, RestingOrdersAre DEF AsEntry, Nobody, Side
  <2>2. PICK p \in Price : p = order[j].price
    BY <2>1, RestingFacts
  <2>3. p \in DOMAIN levels[side]
    BY <2>1, <2>2, RestingFacts
  <2>4. price \in Int /\ p \in Int
    BY Numbers
  <2>5. CASE p # price
    BY <1>2, <1>4, <2>1, <2>2, <2>3, <2>4, <2>5 DEF Priority!Before, AsEntry, Side
  <2>6. CASE p = price
    <3>1. PICK k \in 1 .. Len(Queue(side, price)) : Queue(side, price)[k].order = j
      BY <2>1, <2>2, <2>6, RestingFacts
    <3>2. k # 1 /\ k \in Int
      BY <1>2, <3>1, QueueType DEF BookInv
    <3>3. Maker < j
      BY <1>2, <3>1, <3>2 DEF BookInv, QueuesInOrder
    <3> QED
      BY <1>2, <1>4, <2>1, <2>2, <2>6, <3>3 DEF Priority!Before, AsEntry
  <2> QED
    BY <2>5, <2>6
<1>6. RestingOrders[Maker].side = side
  BY <1>2, <1>4 DEF AsEntry
<1> QED
  BY <1>1, <1>2, <1>3, <1>5, <1>6 DEF Priority!First, Priority!Makers

LEMMA MatchIsTrade ==
    ASSUME BookInv, BookInv', MatchFront
    PROVE  Qty \in 1 .. Incoming.left /\ Priority!Trade(Maker, Qty)
<1>1. /\ taker \in Slot /\ Maker \in Slot /\ Maker # taker /\ taker # 0
      /\ order[taker] \in Order /\ order[Maker] \in Order
      /\ Qty \in Nat \ {0} /\ Qty <= order[taker].quantity /\ Qty <= order[Maker].quantity
      /\ order[Maker].side = Other /\ order[Maker].price = BestPrice
      /\ IF order[taker].side = "buy" THEN order[taker].price >= BestPrice
         ELSE order[taker].price <= BestPrice
      /\ order[taker].quantity \in Nat /\ order[Maker].quantity \in Nat
      /\ order[taker].price \in Nat /\ order[taker].price > 0 /\ order[taker].side \in Side
  BY MatchSetup, Numbers DEF Order
<1>2. Resting(Maker) /\ Maker \in Priority!First(Other)
  BY FrontIsFirst
<1>3. QueuesDrop(IF Fills THEN Maker ELSE 0)
  BY MatchDrops DEF BookInv
<1>4. \A s \in Slot : Resting(s)' <=> Resting(s) /\ s # IF Fills THEN Maker ELSE 0
  <2>1. PICK gone : gone = IF Fills THEN Maker ELSE 0
    OBVIOUS
  <2>2. QueuesDrop(gone)
    BY <1>3, <2>1
  <2>3. \A s \in Slot : Resting(s)' <=> Resting(s) /\ s # gone
    BY <2>2, RestingAfterDrop DEF BookInv
  <2> QED
    BY <2>1, <2>3
<1>5. \A s \in Slot : /\ order'[s].side = order[s].side /\ order'[s].price = order[s].price
                      /\ order'[s].quantity = IF s \in {taker, Maker} THEN order[s].quantity - Qty
                                              ELSE order[s].quantity
  BY MatchOrders
<1>6. ~ Resting(taker)
  BY <1>1, RestingFacts
<1>7. RestingOrders[Maker] = AsEntry(Maker)
  BY <1>1, <1>2, RestingOrdersAre
<1>8. Incoming = [id |-> taker, side |-> order[taker].side, limit |-> order[taker].price,
                  left |-> order[taker].quantity]
  BY <1>1, RestingOrdersAre
<1>9. Incoming' = [Incoming EXCEPT !.left = @ - Qty]
  <2>1. taker' = taker
    BY MatchStep
  <2>2. Incoming' = [id |-> taker, side |-> order[taker].side, limit |-> order[taker].price,
                     left |-> order[taker].quantity - Qty]
    BY <1>1, <1>5, <2>1, RestingOrdersNext
  <2> QED
    BY <1>8, <2>2
<1>10. RestingOrders' = [RestingOrders EXCEPT ![Maker] =
                            IF Qty = RestingOrders[Maker].qty THEN Nobody
                            ELSE [RestingOrders[Maker] EXCEPT !.qty = RestingOrders[Maker].qty - Qty]]
  <2> PICK m \in Slot : m = Maker
    BY <1>1
  <2>1. m # 0 /\ \A s \in Slot : s # 0
    BY <1>1, Numbers
  <2>2. \A s \in Slot \ {m} : Resting(s) => AsEntry(s)' = AsEntry(s)
    BY <1>5, <1>6 DEF AsEntry
  <2>3. AsEntry(m)' = [AsEntry(m) EXCEPT !.qty = order[m].quantity - Qty]
    BY <1>1, <1>5 DEF AsEntry
  <2>4. RestingOrders[Maker].qty = order[m].quantity
    BY <1>7 DEF AsEntry
  <2>5. ASSUME NEW s \in Slot
        PROVE  RestingOrders'[s] =
                  IF s = m
                  THEN IF Qty = order[m].quantity THEN Nobody
                       ELSE [AsEntry(m) EXCEPT !.qty = order[m].quantity - Qty]
                  ELSE RestingOrders[s]
    <3>1. CASE s = m /\ Fills
      BY <1>4, <3>1, RestingOrdersNext DEF Fills
    <3>2. CASE s = m /\ ~ Fills
      <4>1. Resting(s)' /\ AsEntry(s)' = [AsEntry(m) EXCEPT !.qty = order[m].quantity - Qty]
        BY <1>1, <1>2, <1>4, <2>1, <2>3, <3>2
      <4> QED
        BY <3>2, <4>1, RestingOrdersNext DEF Fills
    <3>3. CASE s # m
      <4>1. Resting(s)' <=> Resting(s)
        BY <1>4, <2>1, <3>3
      <4>2. RestingOrders'[s] = IF Resting(s)' THEN AsEntry(s)' ELSE Nobody
        BY RestingOrdersNext
      <4>3. RestingOrders[s] = IF Resting(s) THEN AsEntry(s) ELSE Nobody
        BY RestingOrdersAre
      <4> QED
        BY <2>2, <3>3, <4>1, <4>2, <4>3
    <3> QED
      BY <3>1, <3>2, <3>3
  <2>6. DOMAIN RestingOrders = Slot /\ DOMAIN RestingOrders' = Slot
        /\ RestingOrders = [s \in Slot |-> RestingOrders[s]]
        /\ RestingOrders' = [s \in Slot |-> RestingOrders'[s]]
    BY RestingOrdersAre, RestingOrdersNext
  <2> QED
    BY <1>1, <1>7, <2>4, <2>5, <2>6
<1>11. Maker \in Priority!Crossing(Incoming)
  <2>1. RestingOrders[Maker].side = Priority!Opposite(Incoming.side)
    BY <1>1, <1>7, <1>8 DEF AsEntry, Other, Opposite, Priority!Opposite
  <2>2. Priority!Within(Incoming.limit, Incoming.side, RestingOrders[Maker].price)
    BY <1>1, <1>7, <1>8 DEF Priority!Within, AsEntry, Side
  <2> QED
    BY <1>1, <2>1, <2>2 DEF Priority!Crossing, Priority!Makers
<1>12. Priority!Opposite(Incoming.side) = Other
  BY <1>8 DEF Other, Opposite, Priority!Opposite
<1>13. Incoming # Priority!NoTaker
  BY <1>1, <1>8, RestingOrdersAre
<1>14. Incoming.left = order[taker].quantity /\ RestingOrders[Maker].qty = order[Maker].quantity
  BY <1>7, <1>8 DEF AsEntry
<1>15. Qty \in 1 .. Incoming.left
  BY <1>1, <1>14
<1> QED
  BY <1>1, <1>2, <1>9, <1>10, <1>11, <1>12, <1>13, <1>14, <1>15, RestingOrdersAre DEF Priority!Trade


\* What comes back from a return rests behind everybody, and crosses nobody.
LEMMA ReturnRests ==
    ASSUME BookInv, Return
    PROVE  \A s \in Slot : Resting(s)' <=> Resting(s) \/ (s = taker /\ order[taker].quantity > 0)
<1>1. /\ taker \in Slot /\ order[taker] \in Order /\ order[taker].side \in Side
      /\ order[taker].price \in Price
  BY ReturnStep DEF Order
<1>2. Typed'
  BY ReturnKeepsInv DEF BookInv
<1> SUFFICES ASSUME NEW s \in Slot
             PROVE  InQueue(s)' <=> InQueue(s) \/ (s = taker /\ order[taker].quantity > 0)
  BY <1>2, RestingIsInQueue, QueuesNext DEF Queues, BookInv
<1>3. ASSUME InQueue(s)' PROVE InQueue(s) \/ (s = taker /\ order[taker].quantity > 0)
  <2>1. PICK side \in Side, p \in Price : \E k \in 1 .. Len(Queue(side, p)') :
           Queue(side, p)'[k].order = s
    BY <1>3 DEF InQueue
  <2>2. PICK k \in 1 .. Len(Queue(side, p)') : Queue(side, p)'[k].order = s
    BY <2>1
  <2>3. CASE k \in 1 .. Len(Queue(side, p))
    BY <2>2, <2>3, ReturnQueues DEF InQueue
  <2>4. CASE k \notin 1 .. Len(Queue(side, p))
    <3>1. /\ Len(Queue(side, p)) \in Nat
          /\ Len(Queue(side, p)') = Len(Queue(side, p))
                \/ /\ Len(Queue(side, p)') = Len(Queue(side, p)) + 1
                   /\ order[taker].quantity > 0
                   /\ Queue(side, p)'[Len(Queue(side, p)) + 1]
                        = [iterator |-> nodes + 1, order |-> taker]
      BY ReturnQueues
    <3>2. k = Len(Queue(side, p)) + 1 /\ order[taker].quantity > 0
          /\ Queue(side, p)'[k] = [iterator |-> nodes + 1, order |-> taker]
      BY <2>4, <3>1
    <3> QED
      BY <2>2, <3>2
  <2> QED
    BY <2>3, <2>4
<1>4. ASSUME InQueue(s) PROVE InQueue(s)'
  <2>1. PICK side \in Side, p \in Price : \E k \in 1 .. Len(Queue(side, p)) :
           Queue(side, p)[k].order = s
    BY <1>4 DEF InQueue
  <2>2. \A k \in 1 .. Len(Queue(side, p)) :
           Queue(side, p)'[k] = Queue(side, p)[k] /\ k \in 1 .. Len(Queue(side, p)')
    BY ReturnQueues
  <2> QED
    BY <2>1, <2>2 DEF InQueue
<1>5. ASSUME s = taker, order[taker].quantity > 0 PROVE InQueue(s)'
  <2>1. PICK side \in Side, p \in Price : side = order[taker].side /\ p = order[taker].price
    BY <1>1
  <2>2. Queue(side, p)' = Append(Queue(side, p), [iterator |-> nodes + 1, order |-> taker])
    BY <1>5, <2>1, RestStep
  <2>3. Queue(side, p) \in Seq(Node) /\ [iterator |-> nodes + 1, order |-> taker] \in Node
    <3>1. Queue(side, p) \in Seq(Node)
      BY QueueType DEF BookInv
    <3>2. nodes + 1 \in Nat
      BY DEF BookInv, Typed
    <3> QED
      BY <1>1, <3>1, <3>2 DEF Node
  <2>4. /\ Len(Queue(side, p)') = Len(Queue(side, p)) + 1 /\ Len(Queue(side, p)) \in Nat
        /\ Queue(side, p)'[Len(Queue(side, p)) + 1] = [iterator |-> nodes + 1, order |-> taker]
    BY <2>2, <2>3, AppendProperties, LenProperties
  <2>5. Len(Queue(side, p)) + 1 \in 1 .. Len(Queue(side, p)')
    BY <2>4
  <2>6. Queue(side, p)'[Len(Queue(side, p)) + 1].order = s
    BY <1>5, <2>4
  <2> QED
    BY <2>5, <2>6 DEF InQueue
<1> QED
  BY <1>3, <1>4, <1>5

LEMMA RemainderCrossesNobody ==
    ASSUME BookInv, Return, order[taker].quantity > 0
    PROVE  Priority!Crossing([side |-> order[taker].side, limit |-> order[taker].price]) = {}
<1> DEFINE other == Opposite(order[taker].side)
<1>1. /\ taker \in Slot /\ order[taker] \in Order /\ order[taker].side \in Side
      /\ order[taker].price \in Price /\ other \in Side
  BY ReturnStep DEF Order, Opposite, Side
<1>2. ~ Marketable
  BY DEF Return
<1> SUFFICES ASSUME NEW i \in Slot, RestingOrders[i].side = other,
                    Priority!Within(order[taker].price, order[taker].side, RestingOrders[i].price)
             PROVE  FALSE
  BY DEF Priority!Crossing, Priority!Makers, Opposite, Priority!Opposite
<1>3. Resting(i) /\ RestingOrders[i] = AsEntry(i)
  BY <1>1, RestingOrdersAre DEF Nobody, Side
<1>4. PICK side \in Side, p \in Price : side = other /\ p = order[i].price
  BY <1>1, <1>3, RestingFacts
<1>5. order[i].side = side /\ p \in DOMAIN levels[side]
  BY <1>3, <1>4, RestingFacts DEF AsEntry
<1>6. levels[side] # <<>>
  BY <1>5
<1>7. /\ best(side) \in Price
      /\ IF side = "buy" THEN best(side) >= p ELSE best(side) <= p
  BY <1>5, <1>6, BestIsBest DEF BookInv
<1>8. PICK b \in Int : b = best(side)
  BY <1>7, Numbers
<1>9. /\ p \in Int /\ order[taker].price \in Int /\ order[taker].price # 0
      /\ order[taker].side = "buy" => p <= order[taker].price /\ side = "sell"
      /\ order[taker].side = "sell" => p >= order[taker].price /\ side = "buy"
  BY <1>1, <1>3, <1>4, Numbers DEF AsEntry, Priority!Within, Priority!NoLimit, Opposite, Side
<1>10. ~ IF order[taker].side = "buy" THEN order[taker].price >= b ELSE order[taker].price <= b
  BY <1>2, <1>4, <1>6, <1>8 DEF Marketable
<1> QED
  BY <1>1, <1>7, <1>8, <1>9, <1>10 DEF Side

LEMMA ReturnIsRestOrLeave ==
    ASSUME BookInv, Return
    PROVE  Priority!Rest(taker) \/ Priority!Leave
<1>1. /\ taker \in Slot /\ taker # 0 /\ order[taker] \in Order /\ taker' = 0
      /\ \A s \in Slot : /\ order'[s].side = order[s].side /\ order'[s].price = order[s].price
                         /\ order'[s].quantity = order[s].quantity
      /\ order[taker].price \in Price /\ order[taker].quantity \in Nat
  BY ReturnStep DEF Order
<1>2. /\ Incoming = [id |-> taker, side |-> order[taker].side, limit |-> order[taker].price,
                     left |-> order[taker].quantity]
      /\ Incoming' = Priority!NoTaker /\ Incoming # Priority!NoTaker
  BY <1>1, RestingOrdersAre, RestingOrdersNext
<1>3. \A s \in Slot : AsEntry(s)' = AsEntry(s)
  BY <1>1 DEF AsEntry
<1>4. ~ Resting(taker)
  BY <1>1, RestingFacts
<1>5. \A s \in Slot : RestingOrders'[s] =
         IF Resting(s) \/ (s = taker /\ order[taker].quantity > 0) THEN AsEntry(s) ELSE Nobody
  BY <1>3, ReturnRests, RestingOrdersNext
<1>6. /\ RestingOrders = [s \in Slot |-> RestingOrders[s]]
      /\ RestingOrders' = [s \in Slot |-> RestingOrders'[s]]
      /\ \A s \in Slot : RestingOrders[s] = IF Resting(s) THEN AsEntry(s) ELSE Nobody
  BY RestingOrdersAre, RestingOrdersNext
<1>7. CASE order[taker].quantity > 0
  <2>1. RestingOrders' = [RestingOrders EXCEPT ![taker] = AsEntry(taker)]
    BY <1>1, <1>5, <1>6, <1>7
  <2>2. \A j \in Slot : RestingOrders[j].arrival < taker
    <3> SUFFICES ASSUME NEW j \in Slot PROVE RestingOrders[j].arrival < taker
      OBVIOUS
    <3>1. CASE Resting(j)
      <4>1. Used(j) /\ j # taker
        BY <3>1, RestingFacts
      <4>2. j <= taker
        BY <1>1, <4>1 DEF BookInv, SlotsInOrder
      <4> QED
        BY <1>1, <1>6, <3>1, <4>1, <4>2, Numbers DEF AsEntry
    <3>2. CASE ~ Resting(j)
      BY <1>1, <1>6, <3>2, Numbers DEF Nobody
    <3> QED
      BY <3>1, <3>2
  <2>3. Priority!Crossing([side |-> order[taker].side, limit |-> order[taker].price]) = {}
    BY <1>7, RemainderCrossesNobody
  <2>4. order[taker].price # 0
    BY <1>1, Numbers
  <2> QED
    BY <1>2, <1>7, <2>1, <2>2, <2>3, <2>4
       DEF Priority!Rest, Priority!RestAs, Priority!NoLimit, AsEntry
<1>8. CASE ~ (order[taker].quantity > 0)
  <2>1. RestingOrders' = RestingOrders
    BY <1>5, <1>6, <1>8
  <2> QED
    BY <1>2, <2>1 DEF Priority!Leave
<1> QED
  BY <1>7, <1>8

\* A cancel takes one order of its id out of the book.
LEMMA CancelDrops ==
    ASSUME BookInv, Typed', NEW id \in OrderId, cancelOrder(id)
    PROVE  \E gone \in Slot : order[gone].id = id /\ QueuesDrop(gone)
<1>1. PICK side \in Side, price \in Price : \E i \in 1 .. Len(Queue(side, price)) :
        LET n == Queue(side, price)[i]
            level == levels[side][price]
        IN  /\ price \in DOMAIN levels[side] /\ level \in Level
            /\ order[n.order].id = id /\ n.order \in Slot
            /\ RemoveAt(Queue(side, price), i) \in Seq(Node)
            /\ Removed(Queue(side, price), i, RemoveAt(Queue(side, price), i))
            /\ levels' = SetLevel(side, price,
                  [orders |-> RemoveAt(Queue(side, price), i),
                   total |-> level.total - order[n.order].quantity, kept |-> level.kept])
  BY CancelStep
<1>2. PICK i \in 1 .. Len(Queue(side, price)) :
        LET n == Queue(side, price)[i]
            level == levels[side][price]
        IN  /\ price \in DOMAIN levels[side] /\ level \in Level
            /\ order[n.order].id = id /\ n.order \in Slot
            /\ RemoveAt(Queue(side, price), i) \in Seq(Node)
            /\ Removed(Queue(side, price), i, RemoveAt(Queue(side, price), i))
            /\ levels' = SetLevel(side, price,
                  [orders |-> RemoveAt(Queue(side, price), i),
                   total |-> level.total - order[n.order].quantity, kept |-> level.kept])
  BY <1>1
<1> DEFINE gone == Queue(side, price)[i].order
<1>3. order[gone] \in Order
  BY <1>2, OrderType DEF BookInv, NodesPointAtOrders, Points
<1>4. PICK l \in Level : l = [orders |-> RemoveAt(Queue(side, price), i),
                              total |-> levels[side][price].total - order[gone].quantity,
                              kept |-> levels[side][price].kept]
  BY <1>2, <1>3 DEF Level, Order
<1>5. levels' = SetLevel(side, price, l) /\ Typed /\ NoEmptyLevels
  BY <1>2, <1>4 DEF BookInv
<1>6. /\ Queue(side, price)' = l.orders
      /\ \A s \in Side, p \in Price : s # side \/ p # price => Queue(s, p)' = Queue(s, p)
  BY <1>5, LevelIsSet
<1>7. QueuesDrop(gone)
  BY <1>2, <1>4, <1>6, DropOne DEF BookInv
<1> QED
  BY <1>2, <1>7

LEMMA CancelIsWithdraw ==
    ASSUME BookInv, BookInv', NEW id \in OrderId, cancelOrder(id)
    PROVE  \E s \in Slot : Priority!Withdraw(s)
<1>1. PICK gone \in Slot : QueuesDrop(gone)
  BY CancelDrops DEF BookInv
<1>2. taker = 0 /\ taker' = 0 /\ order' = order
  BY CancelStep
<1>3. \A s \in Slot : Resting(s)' <=> Resting(s) /\ s # gone
  BY <1>1, RestingAfterDrop DEF BookInv
<1>4. \A s \in Slot : AsEntry(s)' = AsEntry(s)
  BY <1>2 DEF AsEntry
<1>5. RestingOrders' = [RestingOrders EXCEPT ![gone] = Nobody]
  BY <1>3, <1>4, RestingOrdersAre, RestingOrdersNext
<1>6. Incoming = Priority!NoTaker /\ Incoming' = Priority!NoTaker
  BY <1>2, RestingOrdersAre, RestingOrdersNext
<1> QED
  BY <1>5, <1>6, RestingOrdersAre DEF Priority!Withdraw

LEMMA StepIsPriority == BookInv /\ BookInv' /\ [Next]_vars => [Priority!Next]_(Priority!vars)
<1> SUFFICES ASSUME BookInv, BookInv', [Next]_vars PROVE [Priority!Next]_(Priority!vars)
  OBVIOUS
<1>1. ASSUME NEW s \in Slot, NEW id \in OrderId, NEW side \in Side, NEW price \in Price,
             NEW quantity \in Quantity, Submit(s, id, side, price, quantity)
      PROVE  Priority!Next
  BY <1>1, SubmitIsArrive DEF Priority!Next, Side, Priority!Side
<1>2. CASE MatchFront
  BY <1>2, MatchIsTrade, MatchSetup DEF Priority!Next
<1>3. CASE Return
  BY <1>3, ReturnIsRestOrLeave, ReturnStep DEF Priority!Next
<1>4. ASSUME NEW id \in OrderId, cancelOrder(id)
      PROVE  Priority!Next
  BY <1>4, CancelIsWithdraw DEF Priority!Next
<1>5. CASE UNCHANGED vars
  <2>1. RestingOrders' = RestingOrders /\ Incoming' = Incoming
    BY <1>5 DEF vars, RestingOrders, Incoming, Resting, NodesAt, Idle
  <2> QED
    BY <2>1 DEF Priority!vars
<1> QED
  BY <1>1, <1>2, <1>3, <1>4, <1>5 DEF Next

LEMMA InitIsPriority == Init => Priority!Init
<1> SUFFICES ASSUME Init PROVE Priority!Init
  OBVIOUS
<1>1. taker = 0 /\ \A side \in Side : DOMAIN levels[side] = {}
  BY DEF Init
<1>2. \A s \in Slot : ~ Resting(s)
  BY <1>1 DEF Resting
<1> QED
  BY <1>1, <1>2, RestingOrdersAre DEF Priority!Init

\* The engine's book keeps the venue's promise: each step is one of PriceTimePriority.
THEOREM ImplementsPriceTimePriority == Spec => KeepsPriority
BY InitIsPriority, StepIsPriority, AlwaysInv, PTL DEF Spec, KeepsPriority, Priority!Spec

-----------------------------------------------------------------------------
(* The value limit. *)

Record(V) == [id : V, side : V, price : V, quantity : V, status : V]

\* What the variables are, as far as the argument needs it: what is on its way to the
\* engine reads as orders or as nothing, and the loop's messages have their fields.
Shapes ==
    /\ order_id_counter \in [Client -> Nat]
    /\ wire \in [Client -> Seq(Seq(Frame))]
    /\ unread \in Seq(Frame)
    /\ \E V : order \in [Slot -> Record(V)]
    /\ asked \in [Slot -> Int]

\* The order being matched passed the checks with the price it still has and the quantity
\* it came with.
TakerPassed ==
    main = "match" =>
        /\ taker \in Slot
        /\ order[taker].price \in Int /\ order[taker].price > 0
        /\ asked[taker] > 0 /\ asked[taker] <= MaxOrderQuantity
        /\ Signed(order[taker].price * asked[taker]) <= MaxOrderValue

Inv == Shapes /\ TakerPassed

-----------------------------------------------------------------------------
\* Multiplication by a natural number keeps the order.
LEMMA ProductGrows ==
    ASSUME NEW a \in Nat, NEW b \in Nat, NEW c \in Nat, a <= b
    PROVE  a * c <= b * c
<1>1. b * c = a * c + (b - a) * c
  OBVIOUS
<1>2. (b - a) * c >= 0
  OBVIOUS
<1> QED
  BY <1>1, <1>2

\* A product of a small enough price and an allowed quantity fits the word.
LEMMA ProductFits ==
    ASSUME NEW price \in Nat, NEW quantity \in Nat, quantity <= MaxOrderQuantity,
           price <= (HalfWord - 1) \div MaxOrderQuantity
    PROVE  Signed(price * quantity) = price * quantity
<1> DEFINE most == (HalfWord - 1) \div MaxOrderQuantity
           value == price * quantity
<1>1. MaxOrderQuantity \in Nat \ {0} /\ HalfWord \in Nat \ {0}
  BY ChronosEngineAssumption
<1>2. most \in Nat /\ most * MaxOrderQuantity <= HalfWord - 1
  BY <1>1
<1>3. value <= price * MaxOrderQuantity
  BY <1>1, ProductGrows
<1>4. price * MaxOrderQuantity <= most * MaxOrderQuantity
  BY <1>1, <1>2, ProductGrows
<1>5. price * MaxOrderQuantity \in Nat /\ most * MaxOrderQuantity \in Nat /\ value \in Nat
  BY <1>1, <1>2
<1>6. value <= HalfWord - 1
  BY <1>1, <1>2, <1>3, <1>4, <1>5
<1> HIDE DEF value
<1>7. Signed(value) = value
  BY <1>1, <1>5, <1>6 DEF Signed
<1> QED
  BY <1>7 DEF value

-----------------------------------------------------------------------------
\* What can be read is made of frames, and what it carries is an order.
LEMMA FramesAreTyped ==
    ASSUME Shapes, NEW source \in Source, HasInput(source)
    PROVE  /\ AfterIdentity(source) \in Seq(Frame)
           /\ Leftover(AfterIdentity(source)) \in Seq(Frame)
           /\ Carries(source) => Received(source) \in OrderMessage
<1> DEFINE frames == AfterIdentity(source)
<1>1. frames \in Seq(Frame)
  <2>1. CASE source = Unread
    BY <2>1 DEF Shapes, HasInput, AfterIdentity
  <2>2. CASE source # Unread
    <3>1. source \in Client /\ wire[source] \in Seq(Seq(Frame)) /\ wire[source] # <<>>
      BY <2>2 DEF Shapes, HasInput, Source
    <3> QED
      BY <2>2, <3>1 DEF AfterIdentity
  <2> QED
    BY <2>1, <2>2
<1> HIDE DEF frames
<1>2. Leftover(frames) \in Seq(Frame)
  BY <1>1 DEF Leftover
<1>3. Payload(frames) \in Frame
  BY <1>1 DEF Payload, Delimited, Frame, WrongSize
<1>4. ASSUME NEW f \in Frame, f.kind = "order" PROVE f.order \in OrderMessage
  BY <1>4 DEF Frame, Delimiter, WrongSize
<1> QED
  BY <1>1, <1>2, <1>3, <1>4 DEF frames, Carries, Received

\* Reading takes from the socket and leaves frames.
LEMMA ReadingIsTyped ==
    ASSUME Shapes, NEW source \in Source, receiveOrder(source)
    PROVE  wire' \in [Client -> Seq(Seq(Frame))] /\ unread' \in Seq(Frame)
<1>1. HasInput(source) /\ unread' = Leftover(AfterIdentity(source))
  BY DEF receiveOrder
<1>2. unread' \in Seq(Frame)
  BY <1>1, FramesAreTyped
<1>3. CASE source = Unread
  BY <1>2, <1>3 DEF receiveOrder, Shapes
<1>4. CASE source # Unread
  <2>1. source \in Client /\ wire[source] \in Seq(Seq(Frame)) /\ wire[source] # <<>>
    BY <1>1, <1>4 DEF Shapes, HasInput, Source
  <2>2. Tail(wire[source]) \in Seq(Seq(Frame))
    BY <2>1
  <2>3. wire' = [wire EXCEPT ![source] = Tail(@)]
    BY <1>4 DEF receiveOrder
  <2> QED
    BY <1>2, <2>1, <2>2, <2>3 DEF Shapes
<1> QED
  BY <1>3, <1>4

\* A message stored in the loop's local has the fields of an order.
LEMMA StoringIsTyped ==
    ASSUME Shapes, NEW s \in Slot, NEW o, NEW state, Store(s, o, state)
    PROVE  /\ \E V : order' \in [Slot -> Record(V)]
           /\ order'[s].price = o.price
<1>1. PICK V : order \in [Slot -> Record(V)]
  BY DEF Shapes
<1> DEFINE W == V \cup {o.id, o.side, o.price, o.quantity, state}
           r == [id |-> o.id, side |-> o.side, price |-> o.price, quantity |-> o.quantity,
                 status |-> state]
<1>2. order' = [order EXCEPT ![s] = r]
  BY DEF Store
<1>3. r \in Record(W) /\ r.price = o.price
  BY DEF Record
<1>4. \A t \in Slot : order[t] \in Record(W)
  BY <1>1 DEF Record
<1> HIDE DEF r, W
<1>5. order' \in [Slot -> Record(W)] /\ order'[s] = r
  BY <1>1, <1>2, <1>3, <1>4
<1> QED
  BY <1>3, <1>5

-----------------------------------------------------------------------------
LEMMA InitInv == BridgeInit => Inv
<1> SUFFICES ASSUME BridgeInit PROVE Inv
  OBVIOUS
<1> USE DEF BridgeInit, EngineInit, Init
<1>1. order_id_counter \in [Client -> Nat]
  BY BridgeAssumption
<1>2. wire \in [Client -> Seq(Seq(Frame))] /\ unread \in Seq(Frame) /\ asked \in [Slot -> Int]
  OBVIOUS
<1>3. order \in [Slot -> Record({-1, "none", 0})]
  BY DEF NoOrder, Record
<1> QED
  BY <1>1, <1>2, <1>3 DEF Inv, Shapes, TakerPassed

\* A message that is not matched leaves the loop elsewhere than in a match.
LEMMA UnmatchedInv ==
    ASSUME Inv, NEW source \in Source, receiveOrder(source), main' # "match",
           \E V : order' \in [Slot -> Record(V)],
           asked' \in [Slot -> Int], UNCHANGED order_id_counter
    PROVE  Inv'
BY ReadingIsTyped DEF Inv, Shapes, TakerPassed

LEMMA ProcessOrderInv ==
    ASSUME Inv, NEW source \in Source, NEW s \in Slot, ProcessOrder(source, s),
           UNCHANGED bridgeVars
    PROVE  Inv'
<1> DEFINE o == Received(source)
<1>1. o \in OrderMessage
  BY FramesAreTyped DEF Inv, ProcessOrder, receiveOrder
<1>2. o.price \in Int /\ o.quantity \in Int
  BY <1>1 DEF OrderMessage
<1>3. checkStaticRules(o) /\ Store(s, o, "New") /\ asked' = [asked EXCEPT ![s] = o.quantity]
  BY DEF ProcessOrder
<1> HIDE DEF o
<1>4. (\E V : order' \in [Slot -> Record(V)]) /\ order'[s].price = o.price
  BY <1>3, StoringIsTyped DEF Inv
<1>5. asked' \in [Slot -> Int] /\ asked'[s] = o.quantity
  BY <1>2, <1>3 DEF Inv, Shapes
<1>6. wire' \in [Client -> Seq(Seq(Frame))] /\ unread' \in Seq(Frame)
  BY ReadingIsTyped DEF Inv, ProcessOrder
<1>7. order_id_counter' = order_id_counter
  BY DEF bridgeVars
<1>8. main' = "match" => taker' = s
  BY DEF ProcessOrder
<1>9. Shapes'
  BY <1>4, <1>5, <1>6, <1>7 DEF Inv, Shapes
<1>10. TakerPassed'
  BY <1>2, <1>3, <1>4, <1>5, <1>8 DEF TakerPassed, checkStaticRules, Signed
<1> QED
  BY <1>9, <1>10 DEF Inv

LEMMA MatchTurnInv ==
    ASSUME Inv, MatchTurn, UNCHANGED bridgeVars
    PROVE  Inv'
<1>1. PICK V : order \in [Slot -> Record(V)]
  BY DEF Inv, Shapes
<1> DEFINE other == Opposite(order[taker].side)
           maker == Head(levels[other][best(other)].orders).order
           qty == MatchQty(maker)
           q == order[taker].quantity - qty
           reduced == [order EXCEPT ![taker].quantity = q]
           filled == reduced[maker].quantity = qty
           r == IF filled THEN 0 ELSE reduced[maker].quantity - qty
           st == IF filled THEN "Filled" ELSE "Partial"
<1>2. order' = [reduced EXCEPT ![maker].quantity = r, ![maker].status = st]
  BY DEF MatchTurn, MatchFront
<1>3. /\ UNCHANGED <<wire, unread, order_id_counter, asked, taker, main>>
      /\ main = "match"
  BY DEF MatchTurn, MatchFront, gatewayVars, mainVars, bridgeVars
<1> DEFINE W == V \cup {q, r, st}
<1> HIDE DEF maker, q, r, st
<1>4. (\E X : order' \in [Slot -> Record(X)]) /\ \A s \in Slot : order'[s].price = order[s].price
  <2>1. reduced \in [Slot -> Record(W)] /\ \A s \in Slot : reduced[s].price = order[s].price
    BY <1>1 DEF Record
  <2> HIDE DEF reduced, W
  <2>2. order' = [reduced EXCEPT ![maker].quantity = r, ![maker].status = st]
    BY <1>2
  <2>3. q \in W /\ r \in W /\ st \in W
    BY DEF W
  <2>4. order' \in [Slot -> Record(W)] /\ \A s \in Slot : order'[s].price = reduced[s].price
    BY <2>1, <2>2, <2>3 DEF Record
  <2> QED
    BY <2>1, <2>4
<1>5. Shapes'
  BY <1>3, <1>4 DEF Inv, Shapes
<1>6. TakerPassed'
  BY <1>3, <1>4 DEF Inv, TakerPassed
<1> QED
  BY <1>5, <1>6 DEF Inv

LEMMA EndOrderInv ==
    ASSUME Inv, EndOrder, UNCHANGED bridgeVars
    PROVE  Inv'
<1>1. PICK V : order \in [Slot -> Record(V)]
  BY DEF Inv, Shapes
<1>2. PICK st : order' = [order EXCEPT ![taker].status = st]
  BY DEF EndOrder, Return
<1>3. order' \in [Slot -> Record(V \cup {st})]
  BY <1>1, <1>2 DEF Record
<1>4. UNCHANGED <<wire, unread, order_id_counter, asked>> /\ main' = "top"
  BY DEF EndOrder, Return, gatewayVars, bridgeVars
<1> QED
  BY <1>3, <1>4 DEF Inv, Shapes, TakerPassed

\* What the clients send reads as orders or as nothing.
LEMMA SendInv ==
    ASSUME Inv, NEW client \in Client, NEW list \in Seq(Seq(Frame)), Send(client, list),
           order_id_counter' \in [Client -> Nat]
    PROVE  Inv'
<1>1. wire' = [wire EXCEPT ![client] = @ \o list]
  BY DEF Send
<1>2. wire[client] \o list \in Seq(Seq(Frame))
  BY DEF Inv, Shapes
<1>3. wire' \in [Client -> Seq(Seq(Frame))]
  BY <1>1, <1>2 DEF Inv, Shapes
<1>4. UNCHANGED <<unread, order, asked, taker, main>>
  BY DEF Send, vars, mainVars
<1> QED
  BY <1>3, <1>4 DEF Inv, Shapes, TakerPassed

\* The feeder trades at least one unit.
LEMMA PairIsTyped ==
    ASSUME NEW trade \in MarketTrade
    PROVE  [trade EXCEPT !.quantity = Max({1, @})] \in [symbol : STRING, price : Int, quantity : Int]
<1>1. trade \in [symbol : STRING, price : Int, quantity : Int]
  BY BridgeAssumption
<1>2. Max({1, trade.quantity}) \in Int
  <2>1. \E x \in {1, trade.quantity} : \A y \in {1, trade.quantity} : x >= y
    <3>1. CASE trade.quantity >= 1
      BY <1>1, <3>1
    <3>2. CASE ~(trade.quantity >= 1)
      BY <1>1, <3>2
    <3> QED
      BY <3>1, <3>2
  <2> QED
    BY <1>1, <2>1 DEF Max
<1> QED
  BY <1>1, <1>2

LEMMA ClientsInv ==
    ASSUME Inv,
           \/ \E ticket \in Ticket : place_order(ticket)
           \/ \E trade \in MarketTrade : synthesize_and_send_orders(trade)
           \/ \E frames \in Foreign : SendForeign(frames)
    PROVE  Inv'
<1> order_id_counter \in [Client -> Nat] /\ Bridge \in Client /\ Feeder \in Client
    /\ Stranger \in Client
  BY BridgeAssumption DEF Inv, Shapes
<1>1. ASSUME NEW o \in OrderMessage PROVE <<Message(o)>> \in Seq(Frame)
  BY DEF Message, Frame
<1>2. ASSUME NEW ticket \in Ticket, place_order(ticket) PROVE Inv'
  <2> DEFINE id == order_id_counter[Bridge] + 1
             o == OrderOf(id, ticket, ticket.side)
             list == IF ticket.symbol = "too_long" THEN <<>> ELSE << <<Message(o)>> >>
  <2>1. ticket \in Posting
    BY BridgeAssumption
  <2>2. o \in OrderMessage
    BY <2>1 DEF OrderOf, OrderMessage, AnySide, Posting
  <2>3. list \in Seq(Seq(Frame))
    <3> HIDE DEF o
    <3>1. <<Message(o)>> \in Seq(Frame)
      BY <1>1, <2>2
    <3> QED
      BY <3>1
  <2>4. Send(Bridge, list) /\ order_id_counter' = [order_id_counter EXCEPT ![Bridge] = id]
    BY <1>2 DEF place_order
  <2> HIDE DEF list
  <2> QED
    BY <2>3, <2>4, SendInv
<1>3. ASSUME NEW trade \in MarketTrade, synthesize_and_send_orders(trade) PROVE Inv'
  <2> DEFINE id == order_id_counter[Feeder]
             pair == [trade EXCEPT !.quantity = Max({1, @})]
             buy == OrderOf(id + 1, pair, "buy")
             sell == OrderOf(id + 2, pair, "sell")
             list == << <<Message(buy)>>, <<Message(sell)>> >>
  <2>1. pair \in [symbol : STRING, price : Int, quantity : Int]
    BY PairIsTyped
  <2> HIDE DEF pair
  <2>4. buy \in OrderMessage /\ sell \in OrderMessage
    BY <2>1 DEF OrderOf, OrderMessage, AnySide, Side
  <2>5. list \in Seq(Seq(Frame))
    <3> HIDE DEF buy, sell
    <3>1. <<Message(buy)>> \in Seq(Frame) /\ <<Message(sell)>> \in Seq(Frame)
      BY <1>1, <2>4
    <3> QED
      BY <3>1
  <2>6. Send(Feeder, list) /\ order_id_counter' = [order_id_counter EXCEPT ![Feeder] = id + 2]
    BY <1>3 DEF synthesize_and_send_orders, pair
  <2> HIDE DEF list
  <2> QED
    BY <2>5, <2>6, SendInv
<1>4. ASSUME NEW frames \in Foreign, SendForeign(frames) PROVE Inv'
  <2>1. frames \in Seq(Frame)
    BY BridgeAssumption
  <2>2. <<frames>> \in Seq(Seq(Frame))
    BY <2>1
  <2> QED
    BY <1>4, <2>2, SendInv DEF SendForeign
<1> QED
  BY <1>2, <1>3, <1>4

\* The steps that move no message and no order.
LEMMA QuietInv ==
    ASSUME Inv, UNCHANGED <<wire, unread, order, asked, taker, order_id_counter>>,
           main' = "match" => main = "match"
    PROVE  Inv'
BY DEF Inv, Shapes, TakerPassed

LEMMA NextInv == Inv /\ [EngineNext]_allVars => Inv'
<1> SUFFICES ASSUME Inv, [EngineNext]_allVars PROVE Inv'
  OBVIOUS
<1> USE DEF vars, engineVars, bridgeVars, gatewayVars, mainVars
<1>1. CASE UNCHANGED allVars
  BY <1>1, QuietInv DEF allVars
<1>2. ASSUME NEW source \in Source, DiscardMessage(source), UNCHANGED bridgeVars PROVE Inv'
  <2>1. receiveOrder(source) /\ main' # "match" /\ UNCHANGED <<order, asked, order_id_counter>>
    BY <1>2 DEF DiscardMessage
  <2>2. (\E V : order' \in [Slot -> Record(V)]) /\ asked' \in [Slot -> Int]
    BY <2>1 DEF Inv, Shapes
  <2> QED
    BY <2>1, <2>2, UnmatchedInv
<1>3. ASSUME NEW source \in Source, NEW s \in Slot, UNCHANGED bridgeVars,
             RejectOrder(source, s) \/ DropOrder(source, s)
      PROVE  Inv'
  <2>1. receiveOrder(source) /\ main' # "match" /\ UNCHANGED <<asked, order_id_counter>>
    BY <1>3 DEF RejectOrder, DropOrder
  <2>2. PICK o, state : Store(s, o, state)
    BY <1>3 DEF RejectOrder, DropOrder
  <2>3. \E V : order' \in [Slot -> Record(V)]
    BY <2>2, StoringIsTyped DEF Inv
  <2>4. asked' \in [Slot -> Int]
    BY <2>1 DEF Inv, Shapes
  <2> QED
    BY <2>1, <2>3, <2>4, UnmatchedInv
<1>4. ASSUME NEW source \in Source, NEW s \in Slot, ProcessOrder(source, s), UNCHANGED bridgeVars
      PROVE  Inv'
  BY <1>4, ProcessOrderInv
<1>5. CASE MatchTurn /\ UNCHANGED bridgeVars
  BY <1>5, MatchTurnInv
<1>6. CASE EndOrder /\ UNCHANGED bridgeVars
  BY <1>6, EndOrderInv
<1>7. CASE (OutOfMemory \/ LoopTop \/ NothingReceived \/ StopLogger \/ JoinLogger)
           /\ UNCHANGED bridgeVars
  BY <1>7, QuietInv DEF OutOfMemory, LoopTop, NothingReceived, StopLogger, JoinLogger
<1>8. CASE LoggerStep
  BY <1>8, QuietInv DEF LoggerStep, LoggerConnect, LoggerTop, LoggerReceive, LoggerTimeout
<1>9. CASE (Interrupt /\ UNCHANGED bridgeVars) \/ ListenerConnect \/ ListenerReceive \/ ListenerError
  BY <1>9, QuietInv DEF Interrupt, ListenerConnect, ListenerReceive, ListenerError, ListenerTake
<1> QED
  BY <1>1, <1>2, <1>3, <1>4, <1>5, <1>6, <1>7, <1>8, <1>9, ClientsInv DEF EngineNext, MainStep

\* risk_engine.hpp's limit is kept for every order that is matched, unless its price is so
\* high that the product of 64-bit numbers can wrap.
THEOREM ValueLimitIsKept == EngineSpec => []ValueLimitHolds
<1>1. Inv => ValueLimitHolds
  <2> SUFFICES ASSUME Inv, main = "match",
                      order[taker].price <= (HalfWord - 1) \div MaxOrderQuantity
               PROVE  order[taker].price * asked[taker] <= MaxOrderValue
    BY DEF ValueLimitHolds
  <2>1. /\ order[taker].price \in Nat /\ asked[taker] \in Nat
        /\ asked[taker] <= MaxOrderQuantity
        /\ Signed(order[taker].price * asked[taker]) <= MaxOrderValue
    BY DEF Inv, Shapes, TakerPassed
  <2> QED
    BY <2>1, ProductFits
<1> QED
  BY <1>1, InitInv, NextInv, PTL DEF EngineSpec

-----------------------------------------------------------------------------
(* The streams of published events. *)

\* What a subscriber was sent of the first n events, and what it missed, leaves no other gap.
Complete(stream, n, gaps) ==
    /\ stream \in Seq(Nat) /\ Increasing(stream)
    /\ \A k \in DOMAIN stream : stream[k] \in 1 .. n
    /\ stream # <<>> => stream[1] .. n \subseteq ToSet(stream) \cup gaps

\* A queue never holds more than it can, and what was written or handed over goes on with
\* what is still in the queue.
Streams ==
    /\ \E S : published \in Seq(S)
    /\ \E S : trades \in Seq(S)
    /\ joined \in [Subscriber -> BOOLEAN]
    /\ inbox \in [Subscriber -> Seq(Nat)]
    /\ \A s \in Subscriber : Len(inbox[s]) <= HighWater
    /\ missed = [s \in Subscriber |-> missed[s]]
    /\ log \in Seq(Nat) /\ scheduled \in Seq(Nat)
    /\ Complete(log \o inbox["logger"], Len(published), missed["logger"])
    /\ Complete(scheduled \o inbox[Bridge], Len(published), missed[Bridge] \cup Undecodable)

\* Of k more events a stream is sent the first d, and misses the others.
LEMMA StreamGoesOn ==
    ASSUME NEW n \in Nat, NEW k \in Nat, NEW d \in 0 .. k, NEW stream, NEW gaps,
           Complete(stream, n, gaps)
    PROVE  Complete(stream \o [i \in 1 .. d |-> n + i], n + k, gaps \cup (n + d + 1 .. n + k))
<1> DEFINE new == [i \in 1 .. d |-> n + i]
           all == stream \o new
           len == Len(stream)
<1>1. stream \in Seq(Nat) /\ len \in Nat /\ DOMAIN stream = 1 .. len
  BY DEF Complete
<1>2. new \in Seq(Nat) /\ Len(new) = d /\ \A i \in 1 .. d : new[i] = n + i
  OBVIOUS
<1> HIDE DEF new, len
<1>3. /\ all \in Seq(Nat) /\ Len(all) = len + d /\ DOMAIN all = 1 .. len + d
      /\ \A i \in 1 .. len : all[i] = stream[i]
      /\ \A i \in len + 1 .. len + d : all[i] = n + (i - len)
  <2>1. /\ all \in Seq(Nat) /\ Len(all) = len + d
        /\ \A i \in 1 .. len + d : all[i] = IF i <= len THEN stream[i] ELSE new[i - len]
    BY <1>1, <1>2, ConcatProperties DEF len
  <2> HIDE DEF all
  <2>2. \A i \in len + 1 .. len + d : i - len \in 1 .. d /\ ~(i <= len) /\ i \in 1 .. len + d
    BY <1>1
  <2>3. \A i \in 1 .. len : i \in 1 .. len + d /\ i <= len
    BY <1>1
  <2> QED
    BY <1>1, <1>2, <2>1, <2>2, <2>3
<1> HIDE DEF all
<1>4. \A i \in 1 .. len : stream[i] \in 1 .. n
  BY <1>1 DEF Complete
<1>5. \A i \in DOMAIN all : all[i] \in 1 .. n + k
  <2> SUFFICES ASSUME NEW i \in 1 .. len + d PROVE all[i] \in 1 .. n + k
    BY <1>3
  <2>1. CASE i <= len
    BY <1>1, <1>3, <1>4, <2>1
  <2>2. CASE i > len
    BY <1>1, <1>3, <2>2
  <2> QED
    BY <1>1, <2>1, <2>2
<1>6. Increasing(all)
  <2> SUFFICES ASSUME NEW a \in 1 .. len + d, NEW b \in 1 .. len + d, a < b
               PROVE  all[a] < all[b]
    BY <1>3 DEF Increasing
  <2>1. CASE b <= len
    <3>1. a \in 1 .. len /\ b \in 1 .. len
      BY <1>1, <2>1
    <3>2. stream[a] < stream[b]
      BY <1>1, <3>1 DEF Complete, Increasing
    <3> QED
      BY <1>3, <3>1, <3>2
  <2>2. CASE a <= len /\ b > len
    <3>1. a \in 1 .. len /\ b \in len + 1 .. len + d
      BY <1>1, <2>2
    <3>2. all[a] \in 1 .. n /\ all[b] = n + (b - len)
      BY <1>3, <1>4, <3>1
    <3> QED
      BY <1>1, <3>1, <3>2
  <2>3. CASE a > len
    <3>1. a \in len + 1 .. len + d /\ b \in len + 1 .. len + d
      BY <1>1, <2>3
    <3>2. all[a] = n + (a - len) /\ all[b] = n + (b - len)
      BY <1>3, <3>1
    <3> QED
      BY <1>1, <3>1, <3>2
  <2> QED
    BY <1>1, <2>1, <2>2, <2>3
<1>7. \A x \in n + 1 .. n + d : x \in ToSet(all)
  <2> SUFFICES ASSUME NEW x \in n + 1 .. n + d PROVE x \in ToSet(all)
    OBVIOUS
  <2>1. len + (x - n) \in len + 1 .. len + d /\ len + (x - n) \in 1 .. len + d
    BY <1>1
  <2>2. all[len + (x - n)] = n + ((len + (x - n)) - len)
    BY <1>3, <2>1
  <2>3. all[len + (x - n)] = x
    BY <1>1, <2>2
  <2> QED
    BY <1>3, <2>1, <2>3 DEF ToSet
<1>8. ASSUME all # <<>>, NEW x \in all[1] .. n + k
      PROVE  x \in ToSet(all) \cup (gaps \cup (n + d + 1 .. n + k))
  <2>1. all[1] \in Nat
    <3>1. Len(all) # 0
      BY <1>3, <1>8, EmptySeq
    <3> QED
      BY <1>1, <1>3, <3>1
  <2>2. x \in Nat
    BY <2>1
  <2>3. CASE x > n + d
    BY <2>2, <2>3
  <2>4. CASE x > n /\ x <= n + d
    <3>1. x \in n + 1 .. n + d
      BY <2>2, <2>4
    <3> QED
      BY <1>7, <3>1
  <2>5. CASE x <= n
    <3>1. len # 0
      <4> SUFFICES ASSUME len = 0 PROVE FALSE
        OBVIOUS
      <4>1. Len(all) # 0
        BY <1>3, <1>8, EmptySeq
      <4>2. 1 \in len + 1 .. len + d
        BY <1>1, <1>3, <4>1
      <4>3. all[1] = n + 1
        BY <1>3, <4>2
      <4> QED
        BY <2>2, <2>5, <4>3
    <3>2. stream # <<>> /\ 1 \in 1 .. len
      BY <1>1, <3>1, EmptySeq DEF len
    <3>3. x \in stream[1] .. n
      BY <1>1, <1>3, <2>1, <2>2, <2>5, <3>2
    <3>4. x \in ToSet(stream) \cup gaps
      BY <3>2, <3>3 DEF Complete
    <3>5. ToSet(stream) \subseteq ToSet(all)
      <4> SUFFICES ASSUME NEW i \in 1 .. len PROVE stream[i] \in ToSet(all)
        BY <1>1 DEF ToSet
      <4>1. i \in DOMAIN all /\ all[i] = stream[i]
        BY <1>1, <1>3
      <4> QED
        BY <4>1 DEF ToSet
    <3> QED
      BY <3>4, <3>5
  <2> QED
    BY <2>2, <2>3, <2>4, <2>5
<1> QED
  BY <1>3, <1>5, <1>6, <1>8 DEF Complete, all, new

LEMMA StreamsJoin ==
    \A x, y, z \in Seq(Nat) : (x \o y) \o z = x \o (y \o z)
BY ConcatAssociative

\* Taking the front of the queue and appending it to what was taken leaves the stream as it is.
LEMMA FrontMovesOver ==
    ASSUME NEW done \in Seq(Nat), NEW queue \in Seq(Nat), queue # <<>>
    PROVE  /\ Append(done, Head(queue)) \in Seq(Nat) /\ Tail(queue) \in Seq(Nat)
           /\ Len(Tail(queue)) <= Len(queue)
           /\ Append(done, Head(queue)) \o Tail(queue) = done \o queue
<1>1. Head(queue) \in Nat /\ Tail(queue) \in Seq(Nat) /\ queue = <<Head(queue)>> \o Tail(queue)
  BY SMTT(30)
<1>2. <<Head(queue)>> \in Seq(Nat) /\ Append(done, Head(queue)) = done \o <<Head(queue)>>
  BY <1>1
<1>3. (done \o <<Head(queue)>>) \o Tail(queue) = done \o (<<Head(queue)>> \o Tail(queue))
  BY <1>1, <1>2, ConcatAssociative
<1>4. Append(done, Head(queue)) \in Seq(Nat) /\ Len(Tail(queue)) <= Len(queue)
  BY <1>1
<1> QED
  BY <1>1, <1>2, <1>3, <1>4

\* More gaps leave a stream complete, and so does losing an event that counts as a gap.
LEMMA MoreGaps ==
    ASSUME NEW n \in Nat, NEW stream, NEW few, NEW many, few \subseteq many,
           Complete(stream, n, few)
    PROVE  Complete(stream, n, many)
BY DEF Complete

LEMMA FrontIsLost ==
    ASSUME NEW n \in Nat, NEW done \in Seq(Nat), NEW queue \in Seq(Nat), NEW gaps,
           queue # <<>>, Head(queue) \in gaps, Complete(done \o queue, n, gaps)
    PROVE  Complete(done \o Tail(queue), n, gaps)
<1> DEFINE d == Len(done)
           q == Len(queue)
           rest == Tail(queue)
           old == done \o queue
           left == done \o rest
           At(k) == IF k <= d THEN k ELSE k + 1
<1>1. d \in Nat /\ q \in Nat \ {0} /\ Head(queue) = queue[1]
  BY EmptySeq, HeadTailProperties
<1>2. rest \in Seq(Nat) /\ Len(rest) = q - 1 /\ \A k \in 1 .. q - 1 : rest[k] = queue[k + 1]
  BY EmptySeq, HeadTailProperties
<1>3. /\ old \in Seq(Nat) /\ Len(old) = d + q
      /\ \A k \in 1 .. d + q : old[k] = IF k <= d THEN done[k] ELSE queue[k - d]
  BY ConcatProperties
<1> HIDE DEF rest
<1>4. /\ left \in Seq(Nat) /\ Len(left) = d + Len(rest)
      /\ \A k \in 1 .. d + Len(rest) : left[k] = IF k <= d THEN done[k] ELSE rest[k - d]
  BY <1>2, ConcatProperties
<1> HIDE DEF d, q, old, left
<1>5. DOMAIN old = 1 .. d + q /\ DOMAIN left = 1 .. d + (q - 1)
  BY <1>1, <1>2, <1>3, <1>4
<1>6. \A k \in 1 .. d : left[k] = done[k] /\ old[k] = done[k]
  <2> SUFFICES ASSUME NEW k \in 1 .. d PROVE left[k] = done[k] /\ old[k] = done[k]
    OBVIOUS
  <2>1. k \in 1 .. d + q /\ k \in 1 .. d + Len(rest) /\ k <= d
    BY <1>1, <1>2
  <2> QED
    BY <1>3, <1>4, <2>1
<1>7. \A k \in 1 .. q - 1 : left[d + k] = queue[k + 1] /\ old[d + (k + 1)] = queue[k + 1]
  <2> SUFFICES ASSUME NEW k \in 1 .. q - 1
               PROVE  left[d + k] = queue[k + 1] /\ old[d + (k + 1)] = queue[k + 1]
    OBVIOUS
  <2>1. d + k \in 1 .. d + Len(rest) /\ d + (k + 1) \in 1 .. d + q
        /\ ~(d + k <= d) /\ ~(d + (k + 1) <= d) /\ (d + k) - d = k /\ (d + (k + 1)) - d = k + 1
    BY <1>1, <1>2
  <2>2. left[d + k] = rest[k] /\ old[d + (k + 1)] = queue[k + 1]
    BY <1>3, <1>4, <2>1
  <2> QED
    BY <1>2, <2>2
<1>8. ASSUME NEW k \in DOMAIN left
      PROVE  k \in Nat /\ At(k) \in DOMAIN old /\ left[k] = old[At(k)]
  <2>1. CASE k <= d
    <3>1. k \in 1 .. d /\ k \in 1 .. d + q
      BY <1>1, <1>5, <2>1
    <3> QED
      BY <1>5, <1>6, <2>1, <3>1
  <2>2. CASE ~(k <= d)
    <3>1. PICK m \in 1 .. q - 1 : k = d + m /\ k + 1 = d + (m + 1)
      <4>1. k \in Int /\ k - d \in 1 .. q - 1 /\ k = d + (k - d) /\ k + 1 = d + ((k - d) + 1)
        BY <1>1, <1>5, <2>2
      <4> QED
        BY <4>1
    <3>2. left[k] = old[k + 1]
      BY <1>7, <3>1
    <3>3. k \in Nat /\ k + 1 \in 1 .. d + q
      BY <1>1, <3>1
    <3> QED
      BY <1>5, <2>2, <3>2, <3>3
  <2> QED
    BY <2>1, <2>2
<1>9. Increasing(old) /\ (\A k \in DOMAIN old : old[k] \in 1 .. n)
      /\ (old # <<>> => old[1] .. n \subseteq ToSet(old) \cup gaps)
  BY DEF Complete, old
<1>10. Increasing(left)
  <2> SUFFICES ASSUME NEW k \in DOMAIN left, NEW m \in DOMAIN left, k < m PROVE left[k] < left[m]
    BY DEF Increasing
  <2>1. At(k) < At(m) /\ At(k) \in DOMAIN old /\ At(m) \in DOMAIN old
    BY <1>1, <1>8
  <2> HIDE DEF At
  <2>2. old[At(k)] < old[At(m)]
    BY <1>9, <2>1 DEF Increasing
  <2> QED
    BY <1>8, <2>2
<1>11. ASSUME NEW k \in DOMAIN left PROVE left[k] \in 1 .. n
  <2> HIDE DEF At
  <2> QED
    BY <1>8, <1>9
<1>12. ASSUME left # <<>> PROVE left[1] .. n \subseteq ToSet(left) \cup gaps
  <2>1. 1 \in DOMAIN left /\ 1 \in DOMAIN old /\ old # <<>>
    <3>1. Len(left) # 0
      BY <1>4, <1>12, EmptySeq
    <3>2. Len(left) = d + (q - 1) /\ Len(old) # 0
      BY <1>1, <1>2, <1>3, <1>4
    <3> QED
      BY <1>1, <1>5, <3>1, <3>2
  <2>2. left[1] \in Nat /\ old[1] \in Nat /\ old[1] <= left[1]
    <3>1. left[1] = old[At(1)] /\ At(1) \in DOMAIN old /\ (At(1) = 1 \/ 1 < At(1))
      BY <1>1, <1>8, <2>1
    <3>2. left[1] \in Nat /\ old[1] \in Nat
      BY <1>9, <1>11, <2>1
    <3> HIDE DEF At
    <3>3. At(1) = 1 \/ old[1] < old[At(1)]
      BY <1>9, <2>1, <3>1 DEF Increasing
    <3> QED
      BY <3>1, <3>2, <3>3
  <2> SUFFICES ASSUME NEW e \in left[1] .. n, e \notin gaps PROVE e \in ToSet(left)
    OBVIOUS
  <2>3. e \in ToSet(old)
    <3>1. e \in old[1] .. n
      BY <2>2
    <3> QED
      BY <1>9, <2>1, <3>1
  <2>4. PICK k \in DOMAIN old : old[k] = e
    BY <2>3 DEF ToSet
  <2>5. k # d + 1
    <3>1. d + 1 \in 1 .. d + q /\ ~(d + 1 <= d) /\ (d + 1) - d = 1
      BY <1>1
    <3>2. old[d + 1] = queue[1]
      BY <1>3, <3>1
    <3> QED
      BY <1>1, <2>4, <3>2
  <2> DEFINE m == IF k <= d THEN k ELSE k - 1
  <2>6. m \in DOMAIN left /\ At(m) = k
    BY <1>1, <1>5, <2>5
  <2> HIDE DEF At, m
  <2>7. left[m] = e
    BY <1>8, <2>4, <2>6
  <2> QED
    BY <2>6, <2>7 DEF ToSet
<1>13. Complete(left, n, gaps)
  BY <1>4, <1>10, <1>11, <1>12 DEF Complete
<1> QED
  BY <1>13 DEF left, rest

\* What cannot be decoded stays so.
LEMMA UndecodableGrows ==
    ASSUME NEW S, NEW E, published \in Seq(S), NEW events \in Seq(E),
           published' = published \o events
    PROVE  Undecodable \subseteq Undecodable'
<1> SUFFICES ASSUME NEW n \in Undecodable PROVE n \in Undecodable'
  OBVIOUS
<1>1. n \in DOMAIN published /\ ~Decodes(published[n])
  BY DEF Undecodable
<1>2. n \in DOMAIN published' /\ published'[n] = published[n]
  <2>1. published \in Seq(S \cup E) /\ events \in Seq(S \cup E)
    OBVIOUS
  <2>2. /\ Len(published') = Len(published) + Len(events) /\ published' \in Seq(S \cup E)
        /\ \A m \in 1 .. Len(published) + Len(events) :
              published'[m] = IF m <= Len(published) THEN published[m]
                              ELSE events[m - Len(published)]
    BY <2>1, ConcatProperties
  <2>3. n \in 1 .. Len(published) /\ Len(published) \in Nat /\ Len(events) \in Nat
    BY <1>1
  <2>4. n \in 1 .. Len(published) + Len(events) /\ n <= Len(published)
    BY <2>3
  <2> QED
    BY <2>2, <2>4
<1> QED
  BY <1>1, <1>2 DEF Undecodable, Decodes

\* What is published is sent to each as far as its queue has room, and missed beyond.
LEMMA PublishKeepsStreams ==
    ASSUME Streams, NEW E, NEW events \in Seq(E), publishEvents(events),
           UNCHANGED <<log, scheduled>>, \E S : trades' \in Seq(S)
    PROVE  Streams'
<1> DEFINE n == Len(published)
           k == Len(events)
<1>1. PICK S : published \in Seq(S)
  BY DEF Streams
<1>2. n \in Nat /\ k \in Nat
  BY <1>1
<1>3. published' \in Seq(S \cup E) /\ Len(published') = n + k
  BY <1>1 DEF publishEvents
<1>4. ASSUME NEW s \in Subscriber
      PROVE  /\ Taken(s, events) \in 0 .. k
             /\ Taken(s, events) <= HighWater - Len(inbox[s]) \/ Taken(s, events) = 0
  <2>1. Room(s) \in Nat /\ (Room(s) = 0 \/ Room(s) = HighWater - Len(inbox[s]))
    BY ChronosEngineAssumption DEF Room, Streams
  <2>2. \E x \in {k, Room(s)} : \A y \in {k, Room(s)} : x <= y
    <3>1. CASE k <= Room(s)
      BY <1>2, <2>1, <3>1
    <3>2. CASE ~(k <= Room(s))
      BY <1>2, <2>1, <3>2
    <3> QED
      BY <3>1, <3>2
  <2>3. Taken(s, events) \in {k, Room(s)} /\ Taken(s, events) <= k /\ Taken(s, events) <= Room(s)
    BY <2>2 DEF Taken, Min
  <2> QED
    BY <1>2, <2>1, <2>3
<1>5. ASSUME NEW s \in Subscriber
      PROVE  /\ inbox'[s] = inbox[s] \o [i \in 1 .. Taken(s, events) |-> n + i]
             /\ missed'[s] = missed[s] \cup (n + Taken(s, events) + 1 .. n + k)
             /\ inbox'[s] \in Seq(Nat) /\ Len(inbox'[s]) <= HighWater
             /\ [i \in 1 .. Taken(s, events) |-> n + i] \in Seq(Nat)
  <2> DEFINE d == Taken(s, events)
             new == [i \in 1 .. d |-> n + i]
  <2>1. d \in 0 .. k /\ (d <= HighWater - Len(inbox[s]) \/ d = 0)
    BY <1>4
  <2> HIDE DEF d
  <2>2. new \in Seq(Nat) /\ Len(new) = d
    BY <1>2, <2>1
  <2>3. inbox[s] \in Seq(Nat) /\ Len(inbox[s]) <= HighWater /\ Len(inbox[s]) \in Nat
    BY DEF Streams
  <2>4. inbox'[s] = inbox[s] \o new /\ missed'[s] = missed[s] \cup (n + d + 1 .. n + k)
    BY DEF publishEvents, d
  <2> HIDE DEF new, n, k
  <2>5. inbox'[s] \in Seq(Nat) /\ Len(inbox'[s]) = Len(inbox[s]) + d
    <3>1. inbox[s] \o new \in Seq(Nat) /\ Len(inbox[s] \o new) = Len(inbox[s]) + Len(new)
      BY <2>2, <2>3, ConcatProperties
    <3> QED
      BY <2>2, <2>4, <3>1
  <2>6. Len(inbox'[s]) <= HighWater
    BY <2>1, <2>3, <2>5, ChronosEngineAssumption
  <2> QED
    BY <2>2, <2>4, <2>5, <2>6 DEF d, new
<1>6. ASSUME NEW s \in Subscriber, NEW done \in Seq(Nat), NEW lost,
             Complete(done \o inbox[s], n, missed[s] \cup lost)
      PROVE  Complete(done \o inbox'[s], n + k, missed'[s] \cup lost)
  <2> DEFINE d == Taken(s, events)
             new == [i \in 1 .. d |-> n + i]
  <2>1. d \in 0 .. k /\ missed'[s] = missed[s] \cup (n + d + 1 .. n + k)
        /\ inbox'[s] = inbox[s] \o new /\ new \in Seq(Nat)
    BY <1>4, <1>5
  <2> HIDE DEF d, n, k
  <2>2. Complete((done \o inbox[s]) \o new, n + k,
                 (missed[s] \cup lost) \cup (n + d + 1 .. n + k))
    BY <1>2, <1>6, <2>1, StreamGoesOn
  <2>3. inbox[s] \in Seq(Nat)
    BY DEF Streams
  <2> HIDE DEF new
  <2>4. (done \o inbox[s]) \o new = done \o (inbox[s] \o new)
    BY <1>6, <2>1, <2>3, StreamsJoin
  <2>5. (missed[s] \cup lost) \cup (n + d + 1 .. n + k) = missed'[s] \cup lost
    BY <2>1
  <2> QED
    BY <2>1, <2>2, <2>4, <2>5
<1>7. "logger" \in Subscriber /\ Bridge \in Subscriber
  BY ChronosEngineAssumption, BridgeAssumption
<1>8. log' = log /\ scheduled' = scheduled /\ joined' = joined
  BY DEF publishEvents
<1>9. /\ Complete(log' \o inbox'["logger"], Len(published'), missed'["logger"])
      /\ Complete(scheduled' \o inbox'[Bridge], Len(published'), missed'[Bridge] \cup Undecodable')
  <2>1. Complete(log \o inbox'["logger"], n + k, missed'["logger"] \cup {})
    <3>1. log \in Seq(Nat) /\ Complete(log \o inbox["logger"], n, missed["logger"] \cup {})
      BY DEF Streams
    <3> QED
      BY <1>6, <1>7, <3>1
  <2>2. Complete(scheduled \o inbox'[Bridge], n + k, missed'[Bridge] \cup Undecodable)
    BY <1>6, <1>7 DEF Streams
  <2>3. Undecodable \subseteq Undecodable'
    BY <1>1, UndecodableGrows DEF publishEvents
  <2>4. Complete(scheduled \o inbox'[Bridge], n + k, missed'[Bridge] \cup Undecodable')
    <3>1. n + k \in Nat /\ missed'[Bridge] \cup Undecodable \subseteq missed'[Bridge] \cup Undecodable'
      BY <1>2, <2>3
    <3> QED
      BY <2>2, <3>1, MoreGaps
  <2> QED
    BY <1>3, <1>8, <2>1, <2>4
<1>10. inbox' \in [Subscriber -> Seq(Nat)] /\ missed' = [s \in Subscriber |-> missed'[s]]
  <2>1. inbox' = [s \in Subscriber |-> inbox'[s]] /\ missed' = [s \in Subscriber |-> missed'[s]]
    BY DEF publishEvents
  <2> QED
    BY <1>5, <2>1
<1> QED
  BY <1>3, <1>5, <1>8, <1>9, <1>10 DEF Streams

LEMMA InitStreams == BridgeInit => Streams
<1> SUFFICES ASSUME BridgeInit PROVE Streams
  OBVIOUS
<1> USE DEF BridgeInit, EngineInit, Init
<1>1. "logger" \in Subscriber /\ Bridge \in Subscriber /\ HighWater \in Nat
  BY ChronosEngineAssumption, BridgeAssumption
<1>2. published = <<>> /\ trades = <<>> /\ log = <<>> /\ scheduled = <<>>
      /\ joined = [s \in Subscriber |-> FALSE] /\ inbox = [s \in Subscriber |-> <<>>]
      /\ missed = [s \in Subscriber |-> {}]
  OBVIOUS
<1>3. <<>> \in Seq(Nat) /\ Len(<<>>) = 0 /\ <<>> \o <<>> = <<>>
  BY ConcatEmptySeq
<1>4. Complete(<<>>, 0, {}) /\ Undecodable = {}
  BY <1>2, <1>3 DEF Complete, Increasing, Undecodable
<1> QED
  BY <1>1, <1>2, <1>3, <1>4 DEF Streams

\* Between two events of a stream nothing is sent or missed.
LEMMA QuietStreams ==
    ASSUME Streams, UNCHANGED <<published, inbox, missed, log, scheduled>>,
           joined' \in [Subscriber -> BOOLEAN], \E S : trades' \in Seq(S)
    PROVE  Streams'
<1>1. Undecodable' = Undecodable
  BY DEF Undecodable, Decodes
<1> QED
  BY <1>1 DEF Streams

\* What is waiting in the bridge's queue was published.
LEMMA HeadIsPublished ==
    ASSUME Streams, inbox[Bridge] \in Seq(Nat), inbox[Bridge] # <<>>
    PROVE  Head(inbox[Bridge]) \in 1 .. Len(published)
<1> DEFINE queue == inbox[Bridge]
           stream == scheduled \o queue
<1>1. scheduled \in Seq(Nat) /\ queue \in Seq(Nat) /\ queue # <<>>
  BY DEF Streams
<1>2. \A k \in DOMAIN stream : stream[k] \in 1 .. Len(published)
  BY DEF Streams, Complete
<1> HIDE DEF queue
<1>3. /\ Len(scheduled) \in Nat /\ Len(queue) \in Nat \ {0} /\ Head(queue) = queue[1]
  BY <1>1, EmptySeq, HeadTailProperties
<1>4. /\ stream \in Seq(Nat) /\ Len(stream) = Len(scheduled) + Len(queue)
      /\ \A k \in 1 .. Len(scheduled) + Len(queue) :
            stream[k] = IF k <= Len(scheduled) THEN scheduled[k] ELSE queue[k - Len(scheduled)]
  BY <1>1, ConcatProperties
<1> HIDE DEF stream
<1>5. Len(scheduled) + 1 \in DOMAIN stream /\ stream[Len(scheduled) + 1] = queue[1]
  BY <1>3, <1>4
<1> QED
  BY <1>2, <1>3, <1>5 DEF queue

LEMMA NextStreams == Streams /\ [EngineNext]_allVars => Streams'
<1> SUFFICES ASSUME Streams, [EngineNext]_allVars PROVE Streams'
  OBVIOUS
<1> USE DEF vars, engineVars, bridgeVars, gatewayVars, mainVars, loggerVars, eventVars
<1>0. (\E S : trades \in Seq(S)) /\ joined \in [Subscriber -> BOOLEAN]
  BY DEF Streams
<1>1. CASE UNCHANGED allVars
  BY <1>0, <1>1, QuietStreams DEF allVars
<1>2. ASSUME NEW source \in Source, DiscardMessage(source), UNCHANGED bridgeVars PROVE Streams'
  BY <1>0, <1>2, QuietStreams DEF DiscardMessage
<1>3. ASSUME NEW source \in Source, NEW s \in Slot, RejectOrder(source, s), UNCHANGED bridgeVars
      PROVE  Streams'
  <2>1. publishEvents(<<OrderEvent(order'[s])>>) /\ UNCHANGED <<log, scheduled, trades>>
    BY <1>3 DEF RejectOrder, PublishRejected
  <2>2. <<OrderEvent(order'[s])>> \in Seq({OrderEvent(order'[s])})
    OBVIOUS
  <2> QED
    BY <1>0, <2>1, <2>2, PublishKeepsStreams
<1>4. ASSUME NEW source \in Source, NEW s \in Slot, UNCHANGED bridgeVars,
             DropOrder(source, s) \/ ProcessOrder(source, s)
      PROVE  Streams'
  BY <1>0, <1>4, QuietStreams DEF DropOrder, ProcessOrder
<1>5. CASE MatchTurn /\ UNCHANGED bridgeVars
  <2>1. PICK s : publishEvents(<<OrderEvent(order'[s])>>)
    BY <1>5 DEF MatchTurn
  <2>2. <<OrderEvent(order'[s])>> \in Seq({OrderEvent(order'[s])})
    OBVIOUS
  <2>3. PICK t : trades' = Append(trades, t)
    BY <1>5 DEF MatchTurn, MatchFront
  <2>4. \E S : trades' \in Seq(S)
    <3>1. PICK S : trades \in Seq(S)
      BY <1>0
    <3>2. Append(trades, t) \in Seq(S \cup {t})
      BY <3>1
    <3> QED
      BY <2>3, <3>2
  <2>5. UNCHANGED <<log, scheduled>>
    BY <1>5 DEF MatchTurn
  <2> QED
    BY <2>1, <2>2, <2>4, <2>5, PublishKeepsStreams
<1>6. CASE EndOrder /\ UNCHANGED bridgeVars
  <2>1. PICK S : trades \in Seq(S)
    BY <1>0
  <2> DEFINE told == [n \in DOMAIN trades |-> TradeEvent(trades[n])]
             last == <<OrderEvent(order'[taker])>>
             E == {TradeEvent(t) : t \in S} \cup {OrderEvent(order'[taker])}
  <2>2. publishEvents(told \o last) /\ trades' = <<>> /\ UNCHANGED <<log, scheduled>>
    BY <1>6 DEF EndOrder, Return
  <2>3. told \in Seq(E)
    <3>1. DOMAIN trades = 1 .. Len(trades) /\ Len(trades) \in Nat /\ \A n \in DOMAIN trades : trades[n] \in S
      BY <2>1
    <3>2. \A n \in 1 .. Len(trades) : TradeEvent(trades[n]) \in E
      BY <3>1
    <3> HIDE DEF E
    <3> QED
      BY <3>1, <3>2
  <2>4. last \in Seq(E)
    <3>1. OrderEvent(order'[taker]) \in E
      OBVIOUS
    <3> HIDE DEF E
    <3> QED
      BY <3>1
  <2> HIDE DEF told, last, E
  <2>5. told \o last \in Seq(E)
    BY <2>3, <2>4
  <2>6. \E T : trades' \in Seq(T)
    BY <2>1, <2>2
  <2> QED
    BY <2>2, <2>5, <2>6, PublishKeepsStreams
<1>7. CASE (OutOfMemory \/ LoopTop \/ NothingReceived \/ StopLogger \/ JoinLogger
              \/ LoggerTop \/ LoggerTimeout \/ Interrupt) /\ UNCHANGED bridgeVars
  BY <1>0, <1>7, QuietStreams DEF OutOfMemory, LoopTop, NothingReceived, StopLogger, JoinLogger,
     LoggerTop, LoggerTimeout, Interrupt
<1>8. CASE (LoggerConnect /\ UNCHANGED bridgeVars) \/ ListenerConnect
  <2>1. UNCHANGED <<published, inbox, missed, log, scheduled, trades>>
    BY <1>8 DEF LoggerConnect, ListenerConnect, Join
  <2>2. joined' \in [Subscriber -> BOOLEAN]
    BY <1>0, <1>8 DEF LoggerConnect, ListenerConnect, Join
  <2> QED
    BY <1>0, <2>1, <2>2, QuietStreams
<1>9. ASSUME NEW s \in {"logger", Bridge}, inbox[s] # <<>>,
             inbox' = [inbox EXCEPT ![s] = Tail(@)],
             UNCHANGED <<published, joined, missed, trades>>,
             log' = IF s = "logger" THEN Append(log, Head(inbox[s])) ELSE log,
             \/ scheduled' = IF s = Bridge THEN Append(scheduled, Head(inbox[s])) ELSE scheduled
             \/ s = Bridge /\ Head(inbox[s]) \in Undecodable /\ scheduled' = scheduled
      PROVE  Streams'
  <2>1. "logger" \in Subscriber /\ Bridge \in Subscriber /\ "logger" # Bridge
    BY ChronosEngineAssumption, BridgeAssumption DEF Bridge
  <2>2. /\ inbox \in [Subscriber -> Seq(Nat)] /\ log \in Seq(Nat) /\ scheduled \in Seq(Nat)
        /\ \A t \in Subscriber : Len(inbox[t]) <= HighWater
    BY DEF Streams
  <2> HIDE DEF Bridge
  <2>3. /\ Tail(inbox[s]) \in Seq(Nat) /\ Len(Tail(inbox[s])) <= Len(inbox[s])
        /\ Append(log, Head(inbox[s])) \in Seq(Nat)
        /\ Append(scheduled, Head(inbox[s])) \in Seq(Nat)
        /\ Append(log, Head(inbox[s])) \o Tail(inbox[s]) = log \o inbox[s]
        /\ Append(scheduled, Head(inbox[s])) \o Tail(inbox[s]) = scheduled \o inbox[s]
    <3>1. inbox[s] \in Seq(Nat) /\ inbox[s] # <<>>
      BY <1>9, <2>1, <2>2
    <3> QED
      BY <2>2, <3>1, FrontMovesOver
  <2>4. /\ inbox' \in [Subscriber -> Seq(Nat)] /\ inbox'[s] = Tail(inbox[s])
        /\ \A t \in Subscriber \ {s} : inbox'[t] = inbox[t]
    BY <1>9, <2>1, <2>2, <2>3
  <2>5. \A t \in Subscriber : Len(inbox'[t]) <= HighWater
    <3> SUFFICES ASSUME NEW t \in Subscriber PROVE Len(inbox'[t]) <= HighWater
      OBVIOUS
    <3>1. CASE t = s
      <4>1. Len(inbox'[s]) <= Len(inbox[s]) /\ Len(inbox[s]) <= HighWater
        BY <2>1, <2>2, <2>3, <2>4
      <4>2. Len(inbox'[s]) \in Nat /\ Len(inbox[s]) \in Nat
        BY <1>9, <2>1, <2>2, <2>4
      <4> QED
        BY <3>1, <4>1, <4>2, ChronosEngineAssumption
    <3>2. CASE t # s
      BY <2>2, <2>4, <3>2
    <3> QED
      BY <3>1, <3>2
  <2>6. log' \in Seq(Nat) /\ scheduled' \in Seq(Nat)
    BY <1>9, <2>2, <2>3
  <2>7. log' \o inbox'["logger"] = log \o inbox["logger"]
    BY <1>9, <2>1, <2>3, <2>4
  <2>8. Complete(scheduled' \o inbox'[Bridge], Len(published), missed[Bridge] \cup Undecodable)
    <3>1. Complete(scheduled \o inbox[Bridge], Len(published), missed[Bridge] \cup Undecodable)
          /\ Len(published) \in Nat
      BY DEF Streams
    <3>2. CASE scheduled' = IF s = Bridge THEN Append(scheduled, Head(inbox[s])) ELSE scheduled
      <4>1. scheduled' \o inbox'[Bridge] = scheduled \o inbox[Bridge]
        BY <2>1, <2>3, <2>4, <3>2
      <4> QED
        BY <3>1, <4>1
    <3>3. CASE s = Bridge /\ Head(inbox[s]) \in Undecodable /\ scheduled' = scheduled
      <4>1. inbox[Bridge] \in Seq(Nat) /\ inbox[Bridge] # <<>> /\ inbox'[Bridge] = Tail(inbox[Bridge])
            /\ Head(inbox[Bridge]) \in missed[Bridge] \cup Undecodable
        BY <1>9, <2>1, <2>2, <2>4, <3>3
      <4> QED
        BY <2>2, <3>1, <3>3, <4>1, FrontIsLost
    <3> QED
      BY <1>9, <3>2, <3>3
  <2>9. Undecodable' = Undecodable
    BY <1>9 DEF Undecodable, Decodes
  <2> QED
    BY <1>9, <2>4, <2>5, <2>6, <2>7, <2>8, <2>9 DEF Streams
<1>10. CASE (LoggerReceive /\ UNCHANGED bridgeVars) \/ ListenerReceive \/ ListenerError
  <2>1. "logger" # Bridge
    BY DEF Bridge
  <2>2. CASE LoggerReceive /\ UNCHANGED bridgeVars
    BY <1>9, <2>1, <2>2 DEF LoggerReceive, WriteEvent, TakeFrom
  <2>3. CASE ListenerReceive
    BY <1>9, <2>1, <2>3 DEF ListenerReceive, ListenerTake, TakeFrom
  <2>4. CASE ListenerError
    <3>1. Head(inbox[Bridge]) \in Undecodable
      <4>1. inbox[Bridge] # <<>> /\ inbox[Bridge] \in Seq(Nat)
        BY <2>4, BridgeAssumption DEF ListenerError, ListenerTake, Streams
      <4>2. Head(inbox[Bridge]) \in 1 .. Len(published)
        BY <4>1, HeadIsPublished
      <4>3. DOMAIN published = 1 .. Len(published)
        BY DEF Streams
      <4> QED
        BY <2>4, <4>2, <4>3 DEF ListenerError, Undecodable
    <3> QED
      BY <1>9, <2>1, <2>4, <3>1 DEF ListenerError, ListenerTake, TakeFrom
  <2> QED
    BY <1>10, <2>2, <2>3, <2>4
<1>11. ASSUME NEW client, NEW list, Send(client, list) PROVE Streams'
  BY <1>0, <1>11, QuietStreams DEF Send
<1>12. CASE (\E ticket \in Ticket : place_order(ticket))
            \/ (\E trade \in MarketTrade : synthesize_and_send_orders(trade))
            \/ (\E frames \in Foreign : SendForeign(frames))
  BY <1>11, <1>12 DEF place_order, synthesize_and_send_orders, SendForeign
<1> QED
  BY <1>1, <1>2, <1>3, <1>4, <1>5, <1>6, <1>7, <1>8, <1>10, <1>12 DEF EngineNext, MainStep, LoggerStep

\* The audit logger and the bridge's listener get every event once and in order; the logger
\* misses only what was published while its queue was full, and the listener besides that
\* only updates with a side it cannot decode (event_publisher.hpp, audit_logger.hpp,
\* bridge/main.py).
THEOREM StreamsAreOrdered == EngineSpec => []StreamsKeepOrder
<1>1. ASSUME NEW got \in Seq(Nat), NEW s \in Subscriber, NEW lost, Streams,
             Complete(got \o inbox[s], Len(published), missed[s] \cup lost)
      PROVE  StreamIsGapFree(got, s, lost)
  <2>1. Increasing(got \o inbox[s])
    BY <1>1 DEF Complete
  <2>2. ASSUME got # <<>>
        PROVE  got \o inbox[s] # <<>> /\ (got \o inbox[s])[1] = got[1]
    <3>1. inbox[s] \in Seq(Nat)
      BY <1>1 DEF Streams
    <3>2. Len(got) \in Nat /\ Len(got) # 0 /\ Len(inbox[s]) \in Nat
      BY <1>1, <2>2, <3>1, EmptySeq
    <3>3. /\ got \o inbox[s] \in Seq(Nat) /\ Len(got \o inbox[s]) = Len(got) + Len(inbox[s])
          /\ \A i \in 1 .. Len(got) + Len(inbox[s]) :
                (got \o inbox[s])[i] = IF i <= Len(got) THEN got[i] ELSE inbox[s][i - Len(got)]
      BY <1>1, <3>1, ConcatProperties
    <3>4. 1 \in 1 .. Len(got) + Len(inbox[s]) /\ 1 <= Len(got)
      BY <3>2
    <3>5. (got \o inbox[s])[1] = got[1]
      BY <3>3, <3>4
    <3>6. Len(got \o inbox[s]) # 0
      BY <3>2, <3>3
    <3> QED
      BY <3>5, <3>6
  <2> QED
    BY <1>1, <2>1, <2>2 DEF Complete, StreamIsGapFree
<1>2. Streams => StreamsKeepOrder
  <2>1. "logger" \in Subscriber /\ Bridge \in Subscriber
    BY ChronosEngineAssumption, BridgeAssumption
  <2>2. ASSUME Streams PROVE Complete(log \o inbox["logger"], Len(published), missed["logger"] \cup {})
    BY <2>2 DEF Streams
  <2> QED
    BY <1>1, <2>1, <2>2 DEF Streams, StreamsKeepOrder
<1> QED
  BY <1>2, InitStreams, NextStreams, PTL DEF EngineSpec

-----------------------------------------------------------------------------
(* Only(s, S), the members of S in a list, where tests and clients share nothing else. *)

\* The equation by which the list is built, up to the n-th element.
Selects(f, s, S, n) ==
    f = [k \in 0 .. n |-> IF k = 0 THEN <<>>
                          ELSE IF s[k] \in S THEN Append(f[k - 1], s[k]) ELSE f[k - 1]]

\* What the equation says of one step.
LEMMA SelectStep ==
    ASSUME NEW s, NEW S, NEW n \in Nat, NEW f, Selects(f, s, S, n)
    PROVE  /\ f[0] = <<>>
           /\ \A k \in 1 .. n : f[k] = IF s[k] \in S THEN Append(f[k - 1], s[k]) ELSE f[k - 1]
<1>1. \A k \in 0 .. n : f[k] = IF k = 0 THEN <<>>
                               ELSE IF s[k] \in S THEN Append(f[k - 1], s[k]) ELSE f[k - 1]
  BY DEF Selects
<1> QED
  BY <1>1

\* A property of a finite number of steps that is lost is lost first somewhere.
LEMMA FirstFailure ==
    ASSUME NEW n \in Nat, NEW C \in SUBSET (0 .. n), C # {}
    PROVE  \E k \in C : \A j \in C : k <= j
<1>1. IsFiniteSet(0 .. n)
  BY FS_Interval
<1>2. IsFiniteSet(C)
  BY <1>1, FS_Subset
<1>3. \A y \in C : y \in Int
  OBVIOUS
<1> QED
  BY <1>2, <1>3, SmallestExists

LEMMA SelectionExists ==
    ASSUME NEW s, NEW S, NEW n \in Nat
    PROVE  \E f : Selects(f, s, S, n)
<1> DEFINE C == {k \in 0 .. n : ~ \E f : Selects(f, s, S, k)}
<1>1. SUFFICES ASSUME C # {} PROVE FALSE
  OBVIOUS
<1>2. PICK k \in C : \A j \in C : k <= j
  <2>1. C \in SUBSET (0 .. n)
    OBVIOUS
  <2> HIDE DEF C
  <2> QED
    BY <1>1, <2>1, FirstFailure
<1>3. k # 0
  <2> DEFINE f == [j \in 0 .. 0 |-> <<>>]
  <2>1. Selects(f, s, S, 0)
    BY DEF Selects
  <2> QED
    BY <1>2, <2>1
<1>4. k \in Nat /\ k - 1 \in 0 .. n /\ k - 1 \in Nat
  BY <1>2, <1>3
<1>5. PICK g : Selects(g, s, S, k - 1)
  BY <1>2, <1>4
<1> DEFINE top == IF s[k] \in S THEN Append(g[k - 1], s[k]) ELSE g[k - 1]
           f == [j \in 0 .. k |-> IF j = k THEN top ELSE g[j]]
<1>6. g[0] = <<>> /\ \A j \in 1 .. k - 1 :
         g[j] = IF s[j] \in S THEN Append(g[j - 1], s[j]) ELSE g[j - 1]
  BY <1>4, <1>5, SelectStep
<1>9. f[0] = <<>> /\ f[k] = top /\ \A j \in 0 .. k - 1 : f[j] = g[j]
  BY <1>3, <1>4, <1>6
<1>7. f = [j \in 0 .. k |-> f[j]]
  OBVIOUS
<1> HIDE DEF f
<1>10. ASSUME NEW j \in 0 .. k
       PROVE  f[j] = IF j = 0 THEN <<>> ELSE IF s[j] \in S THEN Append(f[j - 1], s[j]) ELSE f[j - 1]
  <2>1. CASE j = 0
    BY <1>9, <2>1
  <2>2. CASE j = k
    BY <1>3, <1>4, <1>9, <2>2
  <2>3. CASE j \in 1 .. k - 1
    BY <1>4, <1>6, <1>9, <2>3
  <2> QED
    BY <1>4, <2>1, <2>2, <2>3
<1>8. Selects(f, s, S, k)
  BY <1>7, <1>10 DEF Selects
<1> QED
  BY <1>2, <1>8

\* The list is what a solution of the equation has at its end.
LEMMA OnlyIsSelected ==
    ASSUME NEW V, NEW s \in Seq(V), NEW S
    PROVE  \E f : Selects(f, s, S, Len(s)) /\ Only(s, S) = f[Len(s)]
<1> DEFINE f == CHOOSE f : Selects(f, s, S, Len(s))
<1>1. Selects(f, s, S, Len(s))
  BY SelectionExists
<1>2. Only(s, S) = f[Len(s)]
  BY DEF Only, Selects
<1> QED
  BY <1>1, <1>2

\* A list of members of V selects one, and what it selects are members of S.
LEMMA OnlyIsTyped ==
    ASSUME NEW V, NEW s \in Seq(V), NEW S
    PROVE  Only(s, S) \in Seq(V \cap S)
<1>1. PICK f : Selects(f, s, S, Len(s)) /\ Only(s, S) = f[Len(s)]
  BY OnlyIsSelected
<1> DEFINE n == Len(s)
           C == {k \in 0 .. n : f[k] \notin Seq(V \cap S)}
<1>2. n \in Nat
  OBVIOUS
<1>3. C # {} => FALSE
  <2> SUFFICES ASSUME C # {} PROVE FALSE
    OBVIOUS
  <2>1. PICK k \in C : \A j \in C : k <= j
    <3>1. C \in SUBSET (0 .. n)
      OBVIOUS
    <3> HIDE DEF C
    <3> QED
      BY <1>2, <2>1, <3>1, FirstFailure
  <2>2. f[0] = <<>> /\ \A j \in 1 .. n : f[j] = IF s[j] \in S THEN Append(f[j - 1], s[j]) ELSE f[j - 1]
    BY <1>1, <1>2, SelectStep
  <2>6. <<>> \in Seq(V \cap S)
    OBVIOUS
  <2>7. k \in 0 .. n /\ f[k] \notin Seq(V \cap S)
    BY <2>1
  <2>8. k # 0
    BY <2>2, <2>6, <2>7
  <2>3. k \in 1 .. n /\ k - 1 \in 0 .. n
    BY <1>2, <2>7, <2>8
  <2>4. f[k - 1] \in Seq(V \cap S)
    BY <2>1, <2>3
  <2>5. s[k] \in S => Append(f[k - 1], s[k]) \in Seq(V \cap S)
    BY <2>3, <2>4
  <2> QED
    BY <2>1, <2>2, <2>3, <2>4, <2>5
<1> QED
  BY <1>1, <1>2, <1>3

\* Two selections agree as long as lists and tests do.
LEMMA OnlyAgrees ==
    ASSUME NEW V, NEW s \in Seq(V), NEW S, NEW T, \A k \in DOMAIN s : s[k] \in S <=> s[k] \in T
    PROVE  Only(s, S) = Only(s, T)
<1>1. PICK f : Selects(f, s, S, Len(s)) /\ Only(s, S) = f[Len(s)]
  BY OnlyIsSelected
<1>2. PICK g : Selects(g, s, T, Len(s)) /\ Only(s, T) = g[Len(s)]
  BY OnlyIsSelected
<1> DEFINE n == Len(s)
           C == {k \in 0 .. n : f[k] # g[k]}
<1>3. n \in Nat
  OBVIOUS
<1>4. C # {} => FALSE
  <2> SUFFICES ASSUME C # {} PROVE FALSE
    OBVIOUS
  <2>1. PICK k \in C : \A j \in C : k <= j
    <3>1. C \in SUBSET (0 .. n)
      OBVIOUS
    <3> HIDE DEF C
    <3> QED
      BY <1>3, <2>1, <3>1, FirstFailure
  <2>2. f[0] = <<>> /\ \A j \in 1 .. n : f[j] = IF s[j] \in S THEN Append(f[j - 1], s[j]) ELSE f[j - 1]
    BY <1>1, <1>3, SelectStep
  <2>3. g[0] = <<>> /\ \A j \in 1 .. n : g[j] = IF s[j] \in T THEN Append(g[j - 1], s[j]) ELSE g[j - 1]
    BY <1>2, <1>3, SelectStep
  <2>4. k \in 1 .. n /\ k - 1 \in 0 .. n
    BY <2>1, <2>2, <2>3
  <2>5. f[k - 1] = g[k - 1]
    BY <2>1, <2>4
  <2> QED
    BY <2>1, <2>2, <2>3, <2>4, <2>5
<1> QED
  BY <1>1, <1>2, <1>3, <1>4

\* A list of one element.
LEMMA OnlyOfOne ==
    ASSUME NEW V, NEW x \in V, NEW S
    PROVE  Only(<<x>>, S) = IF x \in S THEN <<x>> ELSE <<>>
<1>4. <<x>> \in Seq(V) /\ Len(<<x>>) = 1
  OBVIOUS
<1>1. PICK f : Selects(f, <<x>>, S, 1) /\ Only(<<x>>, S) = f[1]
  BY <1>4, OnlyIsSelected
<1>2. f[0] = <<>> /\ \A k \in 1 .. 1 : f[k] = IF <<x>>[k] \in S THEN Append(f[k - 1], <<x>>[k]) ELSE f[k - 1]
  BY <1>1, SelectStep
<1>5. f[1] = IF <<x>>[1] \in S THEN Append(f[1 - 1], <<x>>[1]) ELSE f[1 - 1]
  <2>1. 1 \in 1 .. 1
    OBVIOUS
  <2> QED
    BY <1>2, <2>1
<1>7. <<x>>[1] = x /\ 1 - 1 = 0
  OBVIOUS
<1>6. f[1] = IF x \in S THEN Append(<<>>, x) ELSE <<>>
  BY <1>2, <1>5, <1>7
<1>3. f[1] = IF x \in S THEN <<x>> ELSE <<>>
  BY <1>6
<1> QED
  BY <1>1, <1>3

\* Lists one after the other select one after the other.
LEMMA OnlyOfBoth ==
    ASSUME NEW V, NEW s \in Seq(V), NEW t \in Seq(V), NEW S
    PROVE  Only(s \o t, S) = Only(s, S) \o Only(t, S)
<1> DEFINE m == Len(s)
           n == Len(t)
           u == s \o t
<1>1. PICK f : Selects(f, s, S, m) /\ Only(s, S) = f[m]
  BY OnlyIsSelected
<1>2. PICK g : Selects(g, t, S, n) /\ Only(t, S) = g[n]
  BY OnlyIsSelected
<1>3. u \in Seq(V) /\ Len(u) = m + n /\ m \in Nat /\ n \in Nat
      /\ (\A k \in 1 .. m : u[k] = s[k]) /\ \A k \in 1 .. n : u[m + k] = t[k]
  OBVIOUS
<1>4. PICK h : Selects(h, u, S, Len(u)) /\ Only(u, S) = h[Len(u)]
  BY <1>3, OnlyIsSelected
<1>12. m \in Nat /\ n \in Nat
  OBVIOUS
<1>15. Selects(f, s, S, m)
  BY <1>1
<1>16. Selects(g, t, S, n)
  BY <1>2
<1> HIDE DEF m, n, u
<1>5. f[0] = <<>> /\ \A j \in 1 .. m : f[j] = IF s[j] \in S THEN Append(f[j - 1], s[j]) ELSE f[j - 1]
  BY <1>12, <1>15, SelectStep
<1>6. g[0] = <<>> /\ \A j \in 1 .. n : g[j] = IF t[j] \in S THEN Append(g[j - 1], t[j]) ELSE g[j - 1]
  BY <1>12, <1>16, SelectStep
<1>7. h[0] = <<>> /\ \A j \in 1 .. m + n : h[j] = IF u[j] \in S THEN Append(h[j - 1], u[j]) ELSE h[j - 1]
  BY <1>3, <1>4, SelectStep
<1>8. f[m] = h[m]
  <2> DEFINE C == {k \in 0 .. m : f[k] # h[k]}
  <2> SUFFICES ASSUME C # {} PROVE FALSE
    BY <1>3
  <2>1. PICK k \in C : \A j \in C : k <= j
    <3>1. C \in SUBSET (0 .. m)
      OBVIOUS
    <3> HIDE DEF C
    <3> QED
      BY <1>3, <3>1, FirstFailure
  <2>2. k \in 1 .. m /\ k - 1 \in 0 .. m /\ k \in 1 .. m + n
    BY <1>3, <1>5, <1>7, <2>1
  <2>3. f[k - 1] = h[k - 1]
    BY <2>1, <2>2
  <2> QED
    BY <1>3, <1>5, <1>7, <2>1, <2>2, <2>3
<1> DEFINE W == V \cap S
<1>10. f[m] \in Seq(W)
  BY <1>1, OnlyIsTyped
<1> DEFINE P(k) == g[k] \in Seq(W) /\ h[m + k] = f[m] \o g[k]
<1>13. P(0)
  <2>1. <<>> \in Seq(W) /\ f[m] \o <<>> = f[m] /\ m + 0 = m
    BY <1>10, <1>12
  <2> QED
    BY <1>6, <1>8, <2>1
<1>11. \A k \in 0 .. n : P(k)
  <2> DEFINE C == {k \in 0 .. n : ~P(k)}
  <2> HIDE DEF W, P
  <2> SUFFICES ASSUME C # {} PROVE FALSE
    OBVIOUS
  <2>1. PICK k \in C : \A j \in C : k <= j
    <3>1. C \in SUBSET (0 .. n)
      OBVIOUS
    <3> HIDE DEF C
    <3> QED
      BY <1>12, <3>1, FirstFailure
  <2>2. k \in 0 .. n /\ ~P(k) /\ k # 0
    BY <1>13, <2>1
  <2>3. k \in 1 .. n /\ k - 1 \in 0 .. n /\ m + k \in 1 .. m + n /\ (m + k) - 1 = m + (k - 1)
    BY <1>12, <2>2
  <2>8. P(k - 1)
    BY <1>12, <2>1, <2>3
  <2>4. g[k - 1] \in Seq(W) /\ h[(m + k) - 1] = f[m] \o g[k - 1]
    BY <2>3, <2>8 DEF P
  <2>5. u[m + k] = t[k]
    BY <1>3, <2>3
  <2>6. CASE t[k] \in S
    <3>1. t[k] \in W
      BY <2>3, <2>6 DEF n, W
    <3>2. g[k] = Append(g[k - 1], t[k]) /\ h[m + k] = Append(f[m] \o g[k - 1], t[k])
      BY <1>6, <1>7, <2>3, <2>4, <2>5, <2>6
    <3>3. ASSUME NEW a \in Seq(W), NEW b \in Seq(W), NEW x \in W
          PROVE  Append(b, x) \in Seq(W) /\ Append(a \o b, x) = a \o Append(b, x)
      <4>1. a \o b \in Seq(W) /\ <<x>> \in Seq(W) /\ Append(b, x) \in Seq(W)
        OBVIOUS
      <4>2. Append(a \o b, x) = (a \o b) \o <<x>> /\ Append(b, x) = b \o <<x>>
        BY <4>1, AppendIsConcat
      <4> QED
        BY <4>1, <4>2, ConcatAssociative
    <3>4. g[k] \in Seq(W) /\ h[m + k] = f[m] \o g[k]
      BY <1>10, <2>4, <3>1, <3>2, <3>3
    <3> QED
      BY <2>2, <3>4 DEF P
  <2>7. CASE t[k] \notin S
    <3>1. g[k] = g[k - 1] /\ h[m + k] = h[(m + k) - 1]
      BY <1>6, <1>7, <2>3, <2>5, <2>7
    <3> QED
      BY <2>2, <2>4, <3>1 DEF P
  <2> QED
    BY <2>6, <2>7
<1>14. P(n)
  <2> HIDE DEF P
  <2> QED
    BY <1>11, <1>12
<1> QED
  BY <1>1, <1>2, <1>3, <1>4, <1>14 DEF u

-----------------------------------------------------------------------------
(* The orders of every client, from its socket to the loop. *)

IdsIn(messages) == IdsOf(OrdersIn(messages))

\* A message of client c: an order with an id of its own, or one that can be read as none
\* of its orders.
Fitting(c) ==
    {m \in Seq(Frame) : IF m \in WellFormed THEN Last(m).order.id \in OwnIds(c)
                        ELSE OrderIdsIn(m) \subseteq OddIds}

\* The ids that come from clients stay apart, and what was received of a client and what
\* waits in its socket is what it sent.
Deliveries ==
    /\ received \in Seq(Nat)
    /\ sent \in [Client -> Seq(OrderMessage)]
    /\ sends \in Nat /\ sends <= MaxSends
    /\ order_id_counter[Bridge] \in FirstId[Bridge] .. FirstId[Bridge] + sends
    /\ order_id_counter[Feeder] \in FirstId[Feeder] .. FirstId[Feeder] + 2 * sends
    /\ wire \in [Client -> Seq(Seq(Frame))]
    /\ \A c \in Client : wire[c] \in Seq(Fitting(c)) /\ SentIds(c) \subseteq OwnIds(c)
    /\ unread \in Seq(Frame) /\ OrderIdsIn(unread) \subseteq OddIds
    /\ \A c \in Client : \A n \in DOMAIN received : received[n] \in OwnIds(c) => received[n] \in SentIds(c)
    /\ \A c \in Client : Only(received, OwnIds(c)) \o IdsIn(wire[c]) = IdsOf(sent[c])

\* Nothing is selected from nothing.
LEMMA OnlyOfNone ==
    ASSUME NEW S
    PROVE  Only(<<>>, S) = <<>>
<1>1. <<>> \in Seq({})
  OBVIOUS
<1>2. Only(<<>>, S) \in Seq({} \cap S)
  BY <1>1, OnlyIsTyped
<1> QED
  BY <1>2

\* The last frame of a message that can be read is an order.
LEMMA WellFormedEndsInOrder ==
    ASSUME NEW m \in WellFormed
    PROVE  /\ Last(m) \in Frame /\ Last(m).kind = "order"
           /\ Last(m).order \in OrderMessage
<1>1. m \in Seq(Frame) /\ Len(m) \in {1, 2} /\ m[Len(m)].kind = "order"
  BY DEF WellFormed
<1>2. m[Len(m)] \in Frame
  BY <1>1
<1>3. Last(m) = m[Len(m)]
  BY DEF Last
<1>4. ASSUME NEW f \in Frame, f.kind = "order" PROVE f.order \in OrderMessage
  BY <1>4 DEF Frame, Delimiter, WrongSize
<1> QED
  BY <1>1, <1>2, <1>3, <1>4

LEMMA OrdersInIsTyped ==
    ASSUME NEW V, V \subseteq Seq(Frame), NEW s \in Seq(V)
    PROVE  /\ OrdersIn(s) \in Seq(OrderMessage)
           /\ IdsIn(s) \in Seq(Nat)
           /\ \A n \in DOMAIN OrdersIn(s) : \E m \in V \cap WellFormed : OrdersIn(s)[n] = Last(m).order
<1> DEFINE carriers == Only(s, WellFormed)
<1>1. carriers \in Seq(V \cap WellFormed)
  BY OnlyIsTyped
<1> HIDE DEF carriers
<1>2. \A n \in DOMAIN carriers : carriers[n] \in V \cap WellFormed
  BY <1>1
<1>3. OrdersIn(s) = [n \in DOMAIN carriers |-> Last(carriers[n]).order]
  BY DEF OrdersIn, carriers
<1>4. DOMAIN carriers = 1 .. Len(carriers) /\ Len(carriers) \in Nat
  BY <1>1
<1>5. \A n \in DOMAIN carriers : Last(carriers[n]).order \in OrderMessage
  BY <1>2, WellFormedEndsInOrder
<1>6. OrdersIn(s) \in Seq(OrderMessage)
  BY <1>3, <1>4, <1>5
<1>7. ASSUME NEW orders \in Seq(OrderMessage) PROVE IdsOf(orders) \in Seq(Nat)
  <2>2. \A o \in OrderMessage : o.id \in Nat
    BY DEF OrderMessage
  <2>3. \A n \in DOMAIN orders : orders[n] \in OrderMessage
    OBVIOUS
  <2>1. \A n \in DOMAIN orders : orders[n].id \in Nat
    BY <2>2, <2>3
  <2> QED
    BY <2>1 DEF IdsOf
<1> QED
  BY <1>2, <1>3, <1>6, <1>7 DEF IdsIn

\* Messages one after the other carry orders one after the other.
LEMMA OrdersInBoth ==
    ASSUME NEW s \in Seq(Seq(Frame)), NEW t \in Seq(Seq(Frame))
    PROVE  OrdersIn(s \o t) = OrdersIn(s) \o OrdersIn(t)
<1> DEFINE a == Only(s, WellFormed)
           b == Only(t, WellFormed)
           M == Seq(Frame) \cap WellFormed
<1>1. a \in Seq(M) /\ b \in Seq(M) /\ Only(s \o t, WellFormed) = a \o b
  BY OnlyIsTyped, OnlyOfBoth
<1> HIDE DEF a, b, M
<1>2. OrdersIn(s) = [n \in DOMAIN a |-> Last(a[n]).order]
  BY DEF OrdersIn, a
<1>3. OrdersIn(t) = [n \in DOMAIN b |-> Last(b[n]).order]
  BY DEF OrdersIn, b
<1>4. OrdersIn(s \o t) = [n \in DOMAIN (a \o b) |-> Last((a \o b)[n]).order]
  BY <1>1 DEF OrdersIn
<1> DEFINE G(m) == Last(m).order
<1> HIDE DEF G
<1>5. [n \in DOMAIN (a \o b) |-> G((a \o b)[n])] = [n \in DOMAIN a |-> G(a[n])] \o [n \in DOMAIN b |-> G(b[n])]
  BY <1>1
<1> QED
  BY <1>2, <1>3, <1>4, <1>5 DEF G

LEMMA IdsOfBoth ==
    ASSUME NEW a \in Seq(OrderMessage), NEW b \in Seq(OrderMessage)
    PROVE  IdsOf(a \o b) = IdsOf(a) \o IdsOf(b)
<1> DEFINE G(o) == o.id
           O == OrderMessage
<1> HIDE DEF G, O
<1>1. a \in Seq(O) /\ b \in Seq(O)
  BY DEF O
<1>2. [n \in DOMAIN (a \o b) |-> G((a \o b)[n])] = [n \in DOMAIN a |-> G(a[n])] \o [n \in DOMAIN b |-> G(b[n])]
  <2>1. a \o b \in Seq(O) /\ Len(a \o b) = Len(a) + Len(b)
    BY <1>1
  <2>2. \A n \in 1 .. Len(a) + Len(b) : (a \o b)[n] = IF n <= Len(a) THEN a[n] ELSE b[n - Len(a)]
    BY <1>1
  <2> DEFINE A == [n \in DOMAIN a |-> G(a[n])]
             B == [n \in DOMAIN b |-> G(b[n])]
             AB == [n \in DOMAIN (a \o b) |-> G((a \o b)[n])]
             R == {G(o) : o \in O}
  <2>3. A \in Seq(R) /\ Len(A) = Len(a) /\ \A n \in 1 .. Len(a) : A[n] = G(a[n])
    BY <1>1
  <2>4. B \in Seq(R) /\ Len(B) = Len(b) /\ \A n \in 1 .. Len(b) : B[n] = G(b[n])
    BY <1>1
  <2>5. AB \in Seq(R) /\ Len(AB) = Len(a) + Len(b)
        /\ \A n \in 1 .. Len(a) + Len(b) : AB[n] = G((a \o b)[n])
    BY <2>1
  <2>6. Len(a) \in Nat /\ Len(b) \in Nat
    BY <1>1
  <2> HIDE DEF A, B, AB, R
  <2>7. \A n \in 1 .. Len(a) + Len(b) : AB[n] = IF n <= Len(a) THEN A[n] ELSE B[n - Len(a)]
    <3> SUFFICES ASSUME NEW n \in 1 .. Len(a) + Len(b)
                 PROVE  AB[n] = IF n <= Len(a) THEN A[n] ELSE B[n - Len(a)]
      OBVIOUS
    <3>1. AB[n] = G((a \o b)[n]) /\ (a \o b)[n] = IF n <= Len(a) THEN a[n] ELSE b[n - Len(a)]
      BY <2>2, <2>5
    <3>2. CASE n <= Len(a)
      BY <2>3, <2>6, <3>1, <3>2
    <3>3. CASE ~(n <= Len(a))
      <4>1. n - Len(a) \in 1 .. Len(b)
        BY <2>6, <3>3
      <4> QED
        BY <2>4, <3>1, <3>3, <4>1
    <3> QED
      BY <3>2, <3>3
  <2>8. A \o B \in Seq(R) /\ Len(A \o B) = Len(a) + Len(b)
        /\ \A n \in 1 .. Len(a) + Len(b) : (A \o B)[n] = IF n <= Len(a) THEN A[n] ELSE B[n - Len(a)]
    <3>1. A \in Seq(R) /\ B \in Seq(R)
      BY <2>3, <2>4
    <3>2. /\ A \o B \in Seq(R) /\ Len(A \o B) = Len(A) + Len(B)
          /\ \A n \in 1 .. Len(A) + Len(B) : (A \o B)[n] = IF n <= Len(A) THEN A[n] ELSE B[n - Len(A)]
      BY <3>1, ConcatProperties
    <3> QED
      BY <2>3, <2>4, <3>2
  <2>9. AB = A \o B
    BY <2>5, <2>7, <2>8, SeqEqual
  <2> QED
    BY <2>9 DEF A, B, AB
<1> QED
  BY <1>2 DEF IdsOf, G

LEMMA IdsInBoth ==
    ASSUME NEW s \in Seq(Seq(Frame)), NEW t \in Seq(Seq(Frame))
    PROVE  IdsIn(s \o t) = IdsIn(s) \o IdsIn(t)
<1>1. OrdersIn(s) \in Seq(OrderMessage) /\ OrdersIn(t) \in Seq(OrderMessage)
  BY OrdersInIsTyped
<1> QED
  BY <1>1, OrdersInBoth, IdsOfBoth DEF IdsIn

\* What one message carries.
LEMMA OrdersInOne ==
    ASSUME NEW m \in Seq(Frame)
    PROVE  /\ m \in WellFormed => OrdersIn(<<m>>) = <<Last(m).order>> /\ IdsIn(<<m>>) = <<Last(m).order.id>>
           /\ m \notin WellFormed => OrdersIn(<<m>>) = <<>> /\ IdsIn(<<m>>) = <<>>
<1>1. Only(<<m>>, WellFormed) = IF m \in WellFormed THEN <<m>> ELSE <<>>
  BY OnlyOfOne
<1>2. OrdersIn(<<m>>) = [n \in DOMAIN Only(<<m>>, WellFormed) |-> Last(Only(<<m>>, WellFormed)[n]).order]
  BY DEF OrdersIn
<1>3. CASE m \in WellFormed
  <2>1. OrdersIn(<<m>>) = [n \in DOMAIN <<m>> |-> Last(<<m>>[n]).order]
    BY <1>1, <1>2, <1>3
  <2> DEFINE o == Last(m).order
  <2>2. OrdersIn(<<m>>) = <<o>>
    <3>1. DOMAIN <<m>> = 1 .. 1 /\ \A n \in 1 .. 1 : <<m>>[n] = m
      OBVIOUS
    <3>2. OrdersIn(<<m>>) = [n \in 1 .. 1 |-> o]
      BY <2>1, <3>1
    <3> HIDE DEF o
    <3> QED
      BY <3>2
  <2> HIDE DEF o
  <2>3. IdsOf(<<o>>) = <<o.id>>
    BY DEF IdsOf
  <2> QED
    BY <1>3, <2>2, <2>3 DEF IdsIn, o
<1>4. CASE m \notin WellFormed
  <2>1. OrdersIn(<<m>>) = <<>>
    BY <1>1, <1>2, <1>4
  <2> QED
    BY <1>4, <2>1 DEF IdsIn, IdsOf
<1> QED
  BY <1>3, <1>4

\* A client's ids are neither another one's nor hidden in messages that cannot be read.
LEMMA ApartIds ==
    ASSUME IdsAreApart, NEW c \in Client, NEW id \in OwnIds(c)
    PROVE  id \notin OddIds /\ \A d \in Client : id \in OwnIds(d) => d = c
BY DEF IdsAreApart

\* What is read next.
LEMMA ReadingFrames ==
    ASSUME NEW m \in Seq(Frame)
    PROVE  /\ Leftover(m) \in Seq(Frame) /\ OrderIdsIn(Leftover(m)) \subseteq OrderIdsIn(m)
           /\ Payload(m).kind = "order" => Payload(m).order.id \in OrderIdsIn(m)
           /\ m \in WellFormed => /\ Payload(m) = Last(m) /\ Payload(m).kind = "order"
                                  /\ Leftover(m) = <<>>
<1> USE DEF Payload, Leftover, Delimited, OrderIdsIn
<1>1. Leftover(m) \in Seq(Frame)
  OBVIOUS
<1>2. ASSUME NEW n \in DOMAIN Leftover(m) PROVE \E k \in DOMAIN m : Leftover(m)[n] = m[k]
  <2> DEFINE from == IF Delimited(m) THEN 3 ELSE 2
  <2>1. from \in 1 .. Len(m) + 2 /\ Leftover(m) = SubSeq(m, from, Len(m))
    OBVIOUS
  <2> HIDE DEF from
  <2>2. from + n - 1 \in DOMAIN m /\ SubSeq(m, from, Len(m))[n] = m[from + n - 1]
    BY <1>2, <2>1
  <2> QED
    BY <2>1, <2>2
<1>3. OrderIdsIn(Leftover(m)) \subseteq OrderIdsIn(m)
  <2> SUFFICES ASSUME NEW n \in DOMAIN Leftover(m), Leftover(m)[n].kind = "order"
               PROVE  Leftover(m)[n].order.id \in OrderIdsIn(m)
    OBVIOUS
  <2>1. PICK k \in DOMAIN m : Leftover(m)[n] = m[k]
    BY <1>2
  <2> HIDE DEF Leftover
  <2> QED
    BY <2>1
<1>4. ASSUME Payload(m).kind = "order" PROVE Payload(m).order.id \in OrderIdsIn(m)
  <2>1. \E k \in DOMAIN m : Payload(m) = m[k]
    <3>1. m # <<>>
      BY <1>4 DEF WrongSize
    <3>2. CASE Delimited(m)
      BY <3>1, <3>2
    <3>3. CASE ~Delimited(m)
      BY <3>1, <3>3
    <3> QED
      BY <3>2, <3>3
  <2> HIDE DEF Payload
  <2> QED
    BY <1>4, <2>1
<1>5. ASSUME m \in WellFormed PROVE Payload(m) = Last(m) /\ Payload(m).kind = "order" /\ Leftover(m) = <<>>
  <2>1. CASE Len(m) = 1 /\ m[1].kind = "order"
    <3>3. Last(m) = m[1]
      BY <2>1 DEF Last
    <3>5. Len(m) = 1
      BY <2>1
    <3>6. m # <<>>
      BY <3>5
    <3>4. Head(m) = m[1] /\ m # <<>>
      BY <3>6
    <3>1. Head(m) = m[1] /\ m # <<>> /\ ~Delimited(m) /\ Last(m) = m[1]
      BY <2>1, <3>3, <3>4
    <3>2. SubSeq(m, 2, 1) = <<>>
      OBVIOUS
    <3> QED
      BY <2>1, <3>1, <3>2
  <2>2. CASE Len(m) = 2 /\ m[1] = Delimiter /\ m[2].kind = "order"
    <3>3. Last(m) = m[2]
      BY <2>2 DEF Last
    <3>5. Len(m) = 2
      BY <2>2
    <3>6. m # <<>>
      BY <3>5
    <3>4. Head(m) = m[1] /\ m # <<>>
      BY <3>6
    <3>1. Head(m) = m[1] /\ m # <<>> /\ Delimited(m) /\ Last(m) = m[2]
      BY <2>2, <3>3, <3>4
    <3>2. SubSeq(m, 3, 2) = <<>>
      OBVIOUS
    <3> QED
      BY <2>2, <3>1, <3>2
  <2> QED
    BY <1>5, <2>1, <2>2 DEF WellFormed
<1> QED
  BY <1>1, <1>3, <1>4, <1>5

LEMMA OnlyOfNumbers ==
    ASSUME NEW s \in Seq(Nat), NEW S
    PROVE  Only(s, S) \in Seq(Nat)
<1>1. Only(s, S) \in Seq(Nat \cap S)
  BY OnlyIsTyped
<1> QED
  BY <1>1, SeqMonotonic

\* What an id that is not the client's adds to what was received of it.
LEMMA OthersReceived ==
    ASSUME NEW s \in Seq(Nat), NEW id \in Nat, NEW S
    PROVE  /\ id \notin S => Only(Append(s, id), S) = Only(s, S)
           /\ id \in S => Only(Append(s, id), S) = Only(s, S) \o <<id>>
<1>1. Append(s, id) = s \o <<id>> /\ <<id>> \in Seq(Nat)
  BY AppendIsConcat
<1>2. Only(Append(s, id), S) = Only(s, S) \o Only(<<id>>, S)
  <2>1. Only(s \o <<id>>, S) = Only(s, S) \o Only(<<id>>, S)
    <3> DEFINE t == <<id>>
    <3>1. t \in Seq(Nat)
      BY <1>1
    <3> HIDE DEF t
    <3>2. Only(s \o t, S) = Only(s, S) \o Only(t, S)
      BY <3>1, OnlyOfBoth
    <3> QED
      BY <3>2 DEF t
  <2> QED
    BY <1>1, <2>1
<1>3. Only(<<id>>, S) = IF id \in S THEN <<id>> ELSE <<>>
  BY OnlyOfOne
<1>4. Only(s, S) \in Seq(Nat \cap S)
  BY OnlyIsTyped
<1>5. Only(s, S) \o <<>> = Only(s, S)
  BY <1>4
<1> QED
  BY <1>2, <1>3, <1>5

\* What the loop does with the history of what it received.
Takes(source) ==
    received' = IF Carries(source) THEN Append(received, Received(source).id) ELSE received

\* Frames left over from a message that could not be read hide no order of anybody.
LEMMA ReadingLeftovers ==
    ASSUME IdsAreApart, Deliveries, HasInput(Unread), wire' = wire, Takes(Unread),
           unread' = Leftover(AfterIdentity(Unread)),
           UNCHANGED <<sent, sends, order_id_counter>>
    PROVE  Deliveries'
<1> DEFINE m == Tail(unread)
<1>1. unread \in Seq(Frame) /\ unread # <<>> /\ OrderIdsIn(unread) \subseteq OddIds
  BY DEF HasInput, Deliveries
<1>2. m \in Seq(Frame) /\ AfterIdentity(Unread) = m
  BY <1>1 DEF AfterIdentity
<1>3. OrderIdsIn(m) \subseteq OrderIdsIn(unread)
  <2>1. \A n \in DOMAIN m : n + 1 \in DOMAIN unread /\ m[n] = unread[n + 1]
    BY <1>1
  <2> HIDE DEF m
  <2> QED
    BY <2>1 DEF OrderIdsIn
<1> HIDE DEF m
<1>4. unread' \in Seq(Frame) /\ OrderIdsIn(unread') \subseteq OddIds
  BY <1>1, <1>2, <1>3, ReadingFrames
<1>5. Carries(Unread) => Received(Unread).id \in OddIds /\ Received(Unread).id \in Nat
  <2> SUFFICES ASSUME Carries(Unread) PROVE Received(Unread).id \in OddIds /\ Received(Unread).id \in Nat
    OBVIOUS
  <2>1. Payload(m).kind = "order" /\ Received(Unread) = Payload(m).order
    BY <1>2 DEF Carries, Received
  <2>2. Payload(m).order.id \in OddIds
    BY <1>1, <1>2, <1>3, <2>1, ReadingFrames
  <2>3. Payload(m) \in Frame
    BY <1>2 DEF Payload, Delimited, Frame, WrongSize
  <2>4. Payload(m).order \in OrderMessage
    BY <2>1, <2>3 DEF Frame, Delimiter, WrongSize
  <2> QED
    BY <2>1, <2>2, <2>4 DEF OrderMessage
<1>6. received' \in Seq(Nat) /\ \A c \in Client : Only(received', OwnIds(c)) = Only(received, OwnIds(c))
  <2>1. CASE Carries(Unread)
    <3>1. \A c \in Client : Received(Unread).id \notin OwnIds(c)
      BY <1>5, <2>1, ApartIds
    <3>2. received \in Seq(Nat) /\ received' = Append(received, Received(Unread).id)
      BY <2>1 DEF Takes, Deliveries
    <3>3. Append(received, Received(Unread).id) \in Seq(Nat)
      BY <1>5, <2>1, <3>2
    <3>4. ASSUME NEW c \in Client PROVE Only(received', OwnIds(c)) = Only(received, OwnIds(c))
      BY <1>5, <2>1, <3>1, <3>2, OthersReceived
    <3> QED
      BY <3>2, <3>3, <3>4
  <2>2. CASE ~Carries(Unread)
    BY <2>2 DEF Takes, Deliveries
  <2> QED
    BY <2>1, <2>2
<1>7. \A c \in Client : \A n \in DOMAIN received' : received'[n] \in OwnIds(c) => received'[n] \in SentIds(c)
  <2>1. CASE Carries(Unread)
    <3> SUFFICES ASSUME NEW c \in Client, NEW n \in DOMAIN received', received'[n] \in OwnIds(c)
                 PROVE  received'[n] \in SentIds(c)
      OBVIOUS
    <3>1. received' = Append(received, Received(Unread).id) /\ received \in Seq(Nat)
      BY <2>1 DEF Takes, Deliveries
    <3>2. received'[n] # Received(Unread).id
      BY <1>5, <2>1, ApartIds
    <3>3. n \in DOMAIN received /\ received'[n] = received[n]
      BY <3>1, <3>2
    <3> QED
      BY <3>3 DEF Deliveries
  <2>2. CASE ~Carries(Unread)
    BY <2>2 DEF Takes, Deliveries
  <2> QED
    BY <2>1, <2>2
<1>8. \A c \in Client : SentIds(c)' = SentIds(c)
  BY DEF SentIds
<1>9. \A c \in Client : wire'[c] = wire[c] /\ IdsOf(sent'[c]) = IdsOf(sent[c])
  OBVIOUS
<1> QED
  BY <1>4, <1>6, <1>7, <1>8, <1>9 DEF Deliveries

\* A client's message that is taken from its socket is received, if it can be read.
LEMMA ReadingMessage ==
    ASSUME IdsAreApart, Deliveries, NEW c \in Client, HasInput(c), c # Unread, Takes(c),
           wire' = [wire EXCEPT ![c] = Tail(@)], unread' = Leftover(AfterIdentity(c)),
           UNCHANGED <<sent, sends, order_id_counter>>
    PROVE  Deliveries'
<1> DEFINE m == Head(wire[c])
           rest == Tail(wire[c])
           id == Received(c).id
<1>1. /\ wire \in [Client -> Seq(Seq(Frame))] /\ wire[c] \in Seq(Fitting(c)) /\ wire[c] # <<>>
      /\ wire[c] \in Seq(Seq(Frame)) /\ received \in Seq(Nat)
  BY DEF HasInput, Deliveries
<1>2. m \in Fitting(c) /\ rest \in Seq(Fitting(c)) /\ rest \in Seq(Seq(Frame))
  BY <1>1
<1>3. wire[c] = <<m>> \o rest
  BY <1>1
<1>4. wire'[c] = rest /\ (\A d \in Client : d # c => wire'[d] = wire[d]) /\ wire' \in [Client -> Seq(Seq(Frame))]
  BY <1>1, <1>2
<1>5. AfterIdentity(c) = m
  BY DEF AfterIdentity
<1> HIDE DEF m, rest
<1>6. m \in Seq(Frame)
  BY <1>2 DEF Fitting
<1>7. IdsIn(wire[c]) = IdsIn(<<m>>) \o IdsIn(rest)
  <2>1. <<m>> \in Seq(Seq(Frame))
    BY <1>6
  <2> QED
    BY <1>2, <1>3, <2>1, IdsInBoth
<1>8. unread' \in Seq(Frame)
  BY <1>5, <1>6, ReadingFrames
<1>9. Carries(c) <=> Payload(m).kind = "order"
  BY <1>5 DEF Carries
<1>10. Carries(c) => id = Payload(m).order.id /\ id \in Nat
  <2> SUFFICES ASSUME Carries(c) PROVE id = Payload(m).order.id /\ id \in Nat
    OBVIOUS
  <2>1. Payload(m) \in Frame
    BY <1>6 DEF Payload, Delimited, Frame, WrongSize
  <2>2. Payload(m).order \in OrderMessage
    BY <1>9, <2>1 DEF Frame, Delimiter, WrongSize
  <2> QED
    BY <1>5, <2>2 DEF OrderMessage, Received
<1> HIDE DEF id
<1>11. /\ \A d \in Client : SentIds(d)' = SentIds(d)
       /\ \A d \in Client : IdsOf(sent'[d]) = IdsOf(sent[d])
  BY DEF SentIds
<1>12. \A d \in Client : wire'[d] \in Seq(Fitting(d)) /\ SentIds(d)' \subseteq OwnIds(d)
  <2> SUFFICES ASSUME NEW d \in Client PROVE wire'[d] \in Seq(Fitting(d)) /\ SentIds(d)' \subseteq OwnIds(d)
    OBVIOUS
  <2>1. wire[d] \in Seq(Fitting(d)) /\ SentIds(d) \subseteq OwnIds(d)
    BY DEF Deliveries
  <2> QED
    BY <1>2, <1>4, <1>11, <2>1
<1>13. \A d \in Client : Only(received, OwnIds(d)) \o IdsIn(wire[d]) = IdsOf(sent[d])
  BY DEF Deliveries
<1>14. ASSUME m \in WellFormed
       PROVE  /\ received' = Append(received, id) /\ id \in OwnIds(c)
              /\ IdsIn(<<m>>) = <<id>> /\ unread' = <<>> /\ id \in Nat
  <2>1. Payload(m) = Last(m) /\ Payload(m).kind = "order" /\ Leftover(m) = <<>>
    BY <1>6, <1>14, ReadingFrames
  <2>2. Last(m).order.id \in OwnIds(c)
    BY <1>2, <1>14 DEF Fitting
  <2>3. IdsIn(<<m>>) = <<Last(m).order.id>>
    BY <1>6, <1>14, OrdersInOne
  <2> QED
    BY <1>5, <1>9, <1>10, <2>1, <2>2, <2>3 DEF Takes, id
<1>15. ASSUME m \notin WellFormed
       PROVE  /\ OrderIdsIn(unread') \subseteq OddIds /\ IdsIn(<<m>>) = <<>>
              /\ Carries(c) => id \in OddIds
  <2>1. OrderIdsIn(m) \subseteq OddIds
    BY <1>2, <1>15 DEF Fitting
  <2>2. OrderIdsIn(unread') \subseteq OddIds
    BY <1>5, <1>6, <2>1, ReadingFrames
  <2>3. IdsIn(<<m>>) = <<>>
    BY <1>6, <1>15, OrdersInOne
  <2> QED
    BY <1>6, <1>9, <1>10, <2>1, <2>2, <2>3, ReadingFrames
<1>16. OrderIdsIn(unread') \subseteq OddIds
  <2>1. OrderIdsIn(<<>>) = {}
    BY DEF OrderIdsIn
  <2> QED
    BY <1>14, <1>15, <2>1
<1>17. ASSUME NEW d \in Client
       PROVE  Only(received', OwnIds(d)) \o IdsIn(wire'[d]) = IdsOf(sent'[d])
  <2> DEFINE before == Only(received, OwnIds(d))
  <2>1. before \in Seq(Nat)
    BY <1>1, OnlyOfNumbers
  <2>2. IdsIn(rest) \in Seq(Nat)
    BY <1>2, OrdersInIsTyped
  <2>3. before \o IdsIn(wire[d]) = IdsOf(sent[d]) /\ IdsOf(sent'[d]) = IdsOf(sent[d])
    BY <1>11, <1>13
  <2>4. CASE m \in WellFormed /\ d = c
    <3>1. Only(received', OwnIds(c)) = before \o <<id>>
      BY <1>1, <1>14, <2>4, OthersReceived
    <3>2. (before \o <<id>>) \o IdsIn(rest) = before \o (<<id>> \o IdsIn(rest))
      <4>1. <<id>> \in Seq(Nat)
        BY <1>14, <2>4
      <4> HIDE DEF before
      <4> QED
        BY <2>1, <2>2, <4>1, ConcatAssociative
    <3>3. IdsIn(wire[c]) = <<id>> \o IdsIn(rest)
      BY <1>7, <1>14, <2>4
    <3> HIDE DEF before
    <3> QED
      BY <1>4, <2>3, <2>4, <3>1, <3>2, <3>3
  <2>5. CASE m \in WellFormed /\ d # c
    <3>1. id \notin OwnIds(d)
      BY <1>14, <2>5, ApartIds
    <3>2. Only(received', OwnIds(d)) = before
      BY <1>1, <1>14, <2>5, <3>1, OthersReceived
    <3> QED
      BY <1>4, <2>3, <2>5, <3>2
  <2>6. CASE m \notin WellFormed
    <3>1. Only(received', OwnIds(d)) = before
      <4>1. CASE Carries(c)
        <5>1. id \notin OwnIds(d) /\ received' = Append(received, id) /\ id \in Nat
          BY <1>10, <1>15, <2>6, <4>1, ApartIds DEF Takes, id
        <5> QED
          BY <1>1, <5>1, OthersReceived
      <4>2. CASE ~Carries(c)
        BY <4>2 DEF Takes
      <4> QED
        BY <4>1, <4>2
    <3>2. IdsIn(wire[c]) = IdsIn(rest)
      <4>1. <<>> \o IdsIn(rest) = IdsIn(rest)
        BY <2>2
      <4> QED
        BY <1>7, <1>15, <2>6, <4>1
    <3> HIDE DEF before
    <3> QED
      BY <1>4, <2>3, <3>1, <3>2
  <2> QED
    BY <2>4, <2>5, <2>6
<1>18. received' \in Seq(Nat)
  <2>1. CASE Carries(c)
    <3>1. received' = Append(received, id) /\ id \in Nat
      BY <1>10, <2>1 DEF Takes, id
    <3> QED
      BY <1>1, <3>1
  <2>2. CASE ~Carries(c)
    BY <1>1, <2>2 DEF Takes
  <2> QED
    BY <2>1, <2>2
<1>19. ASSUME m \in WellFormed PROVE id \in SentIds(c)
  <2> DEFINE before == Only(received, OwnIds(c))
             all == IdsOf(sent[c])
  <2>1. before \in Seq(Nat) /\ IdsIn(rest) \in Seq(Nat) /\ <<id>> \in Seq(Nat)
    <3>1. IdsIn(rest) \in Seq(Nat)
      BY <1>2, OrdersInIsTyped
    <3> QED
      BY <1>1, <1>14, <1>19, <3>1, OnlyOfNumbers
  <2>2. all = before \o (<<id>> \o IdsIn(rest))
    BY <1>7, <1>13, <1>14, <1>19
  <2> HIDE DEF before, all
  <2>3. Len(before) + 1 \in DOMAIN all /\ all[Len(before) + 1] = id
    <3>1. <<id>> \o IdsIn(rest) \in Seq(Nat) /\ (<<id>> \o IdsIn(rest))[1] = id /\ Len(<<id>> \o IdsIn(rest)) >= 1
          /\ Len(before) \in Nat
      BY <2>1
    <3> DEFINE after == <<id>> \o IdsIn(rest)
    <3> HIDE DEF after
    <3>2. after \in Seq(Nat) /\ after[1] = id /\ Len(after) >= 1 /\ all = before \o after
      BY <2>2, <3>1 DEF after
    <3>3. DOMAIN all = 1 .. Len(before) + Len(after) /\ Len(after) \in Nat
      BY <2>1, <3>2
    <3>4. all[Len(before) + 1] = after[1]
      BY <2>1, <3>1, <3>2, <3>3
    <3> QED
      BY <3>1, <3>2, <3>3, <3>4
  <2>4. DOMAIN all = DOMAIN sent[c] /\ \A n \in DOMAIN sent[c] : all[n] = sent[c][n].id
    BY DEF all, IdsOf
  <2> QED
    BY <2>3, <2>4 DEF SentIds
<1>20. ASSUME NEW d \in Client, NEW n \in DOMAIN received', received'[n] \in OwnIds(d)
       PROVE  received'[n] \in SentIds(d)
  <2>0. \A k \in DOMAIN received : received[k] \in OwnIds(d) => received[k] \in SentIds(d)
    BY DEF Deliveries
  <2>1. CASE Carries(c)
    <3>1. received' = Append(received, id) /\ id \in Nat
      BY <1>10, <2>1 DEF Takes, id
    <3>2. (n \in DOMAIN received /\ received'[n] = received[n]) \/ received'[n] = id
      BY <1>1, <3>1
    <3>3. CASE received'[n] = id
      <4>1. m \in WellFormed
        BY <1>15, <1>20, <2>1, <3>3, ApartIds
      <4>2. d = c
        BY <1>14, <1>20, <3>3, <4>1, ApartIds
      <4> QED
        BY <1>19, <3>3, <4>1, <4>2
    <3> QED
      BY <1>20, <2>0, <3>2, <3>3
  <2>2. CASE ~Carries(c)
    <3>1. received' = received
      BY <2>2 DEF Takes
    <3> QED
      BY <1>20, <2>0, <3>1
  <2> QED
    BY <2>1, <2>2
<1> QED
  BY <1>4, <1>8, <1>11, <1>12, <1>16, <1>17, <1>18, <1>20 DEF Deliveries

\* What is sent waits in the socket.
LEMMA SendingKeeps ==
    ASSUME Deliveries, NEW c \in Client, NEW list \in Seq(Fitting(c)), Send(c, list),
           order_id_counter'[Bridge] \in FirstId[Bridge] .. FirstId[Bridge] + sends + 1,
           order_id_counter'[Feeder] \in FirstId[Feeder] .. FirstId[Feeder] + 2 * (sends + 1)
    PROVE  Deliveries'
<1>1. /\ wire \in [Client -> Seq(Seq(Frame))] /\ wire[c] \in Seq(Fitting(c))
      /\ sent \in [Client -> Seq(OrderMessage)] /\ received \in Seq(Nat)
  BY DEF Deliveries
<1>2. /\ wire' = [wire EXCEPT ![c] = @ \o list] /\ sent' = [sent EXCEPT ![c] = @ \o OrdersIn(list)]
      /\ sends < MaxSends /\ sends' = sends + 1 /\ unread' = unread /\ received' = received
  BY DEF Send
<1>3. Fitting(c) \subseteq Seq(Frame)
  BY DEF Fitting
<1>4. list \in Seq(Seq(Frame))
  BY <1>3, SeqMonotonic
<1>5. OrdersIn(list) \in Seq(OrderMessage)
      /\ \A n \in DOMAIN OrdersIn(list) : OrdersIn(list)[n].id \in OwnIds(c)
  <2>1. \A m \in Fitting(c) \cap WellFormed : Last(m).order.id \in OwnIds(c)
    BY DEF Fitting
  <2> QED
    BY <1>3, <2>1, OrdersInIsTyped
<1>6. wire'[c] = wire[c] \o list /\ sent'[c] = sent[c] \o OrdersIn(list)
      /\ \A d \in Client \ {c} : wire'[d] = wire[d] /\ sent'[d] = sent[d]
  BY <1>1, <1>2
<1>7. wire' \in [Client -> Seq(Seq(Frame))] /\ sent' \in [Client -> Seq(OrderMessage)]
  <2>1. wire[c] \o list \in Seq(Seq(Frame)) /\ sent[c] \o OrdersIn(list) \in Seq(OrderMessage)
    BY <1>1, <1>4, <1>5
  <2> QED
    BY <1>1, <1>2, <2>1
<1>8. ASSUME NEW d \in Client
      PROVE  /\ SentIds(d) \subseteq SentIds(d)'
             /\ SentIds(d)' \subseteq OwnIds(d)
             /\ wire'[d] \in Seq(Fitting(d))
  <2>1. SentIds(d) \subseteq OwnIds(d) /\ wire[d] \in Seq(Fitting(d))
    BY DEF Deliveries
  <2>2. CASE d # c
    BY <1>6, <2>1, <2>2 DEF SentIds
  <2>3. CASE d = c
    <3> DEFINE a == sent[c]
               b == OrdersIn(list)
    <3>1. a \in Seq(OrderMessage) /\ b \in Seq(OrderMessage)
      BY <1>1, <1>5
    <3>0. sent'[c] = a \o b /\ sent[c] = a /\ \A n \in DOMAIN b : b[n].id \in OwnIds(c)
      BY <1>5, <1>6
    <3> HIDE DEF a, b
    <3>2. \A n \in DOMAIN a : n \in DOMAIN (a \o b) /\ (a \o b)[n] = a[n]
      BY <3>1
    <3>3. \A n \in DOMAIN (a \o b) : (n \in DOMAIN a /\ (a \o b)[n] = a[n])
                                     \/ (\E k \in DOMAIN b : (a \o b)[n] = b[k])
      <4> SUFFICES ASSUME NEW n \in DOMAIN (a \o b), n \notin DOMAIN a
                   PROVE  \E k \in DOMAIN b : (a \o b)[n] = b[k]
        BY <3>2
      <4>1. n - Len(a) \in DOMAIN b /\ (a \o b)[n] = b[n - Len(a)]
        BY <3>1
      <4> QED
        BY <4>1
    <3>4. SentIds(c)' = {(a \o b)[n].id : n \in DOMAIN (a \o b)} /\ SentIds(c) = {a[n].id : n \in DOMAIN a}
      BY <3>0 DEF SentIds
    <3>5. SentIds(c) \subseteq SentIds(c)' /\ SentIds(c)' \subseteq OwnIds(c)
      BY <2>1, <2>3, <3>0, <3>2, <3>3, <3>4
    <3>6. wire'[c] \in Seq(Fitting(c))
      BY <1>1, <1>6
    <3> QED
      BY <2>3, <3>5, <3>6
  <2> QED
    BY <2>2, <2>3
<1>9. ASSUME NEW d \in Client
      PROVE  Only(received, OwnIds(d)) \o IdsIn(wire'[d]) = IdsOf(sent'[d])
  <2>1. Only(received, OwnIds(d)) \o IdsIn(wire[d]) = IdsOf(sent[d])
    BY DEF Deliveries
  <2>2. CASE d # c
    BY <1>6, <2>1, <2>2
  <2>3. CASE d = c
    <3> DEFINE before == Only(received, OwnIds(c))
               waiting == IdsIn(wire[c])
               new == IdsIn(list)
    <3>1. before \in Seq(Nat) /\ waiting \in Seq(Nat) /\ new \in Seq(Nat)
      <4>1. wire[c] \in Seq(Seq(Frame))
        BY <1>1
      <4>2. waiting \in Seq(Nat) /\ new \in Seq(Nat)
        BY <1>4, <4>1, OrdersInIsTyped
      <4> QED
        BY <1>1, <4>2, OnlyOfNumbers
    <3>2. IdsIn(wire'[c]) = waiting \o new
      BY <1>1, <1>4, <1>6, IdsInBoth
    <3>3. IdsOf(sent'[c]) = IdsOf(sent[c]) \o new
      BY <1>1, <1>5, <1>6, IdsOfBoth DEF IdsIn
    <3>4. before \o waiting = IdsOf(sent[c])
      BY <2>1, <2>3
    <3> HIDE DEF before, waiting, new
    <3>5. (before \o waiting) \o new = before \o (waiting \o new)
      BY <3>1, ConcatAssociative
    <3> QED
      BY <2>3, <3>2, <3>3, <3>4, <3>5 DEF before
  <2> QED
    BY <2>2, <2>3
<1>10. /\ sends' \in Nat /\ sends' <= MaxSends
       /\ order_id_counter'[Bridge] \in FirstId[Bridge] .. FirstId[Bridge] + sends'
       /\ order_id_counter'[Feeder] \in FirstId[Feeder] .. FirstId[Feeder] + 2 * sends'
  <2>1. sends \in Nat /\ MaxSends \in Nat /\ FirstId[Bridge] \in Nat /\ FirstId[Feeder] \in Nat
    BY BridgeAssumption DEF Deliveries
  <2> QED
    BY <1>2, <2>1
<1>11. unread' \in Seq(Frame) /\ OrderIdsIn(unread') \subseteq OddIds
       /\ \A d \in Client : \A n \in DOMAIN received : received[n] \in OwnIds(d) => received[n] \in SentIds(d)
  BY <1>2 DEF Deliveries
<1>12. \A d \in Client : \A n \in DOMAIN received' : received'[n] \in OwnIds(d) => received'[n] \in SentIds(d)'
  BY <1>2, <1>8, <1>11
<1>13. \A d \in Client : Only(received', OwnIds(d)) \o IdsIn(wire'[d]) = IdsOf(sent'[d])
  BY <1>2, <1>9
<1> QED
  BY <1>1, <1>2, <1>7, <1>8, <1>10, <1>11, <1>12, <1>13 DEF Deliveries

\* The ids that the bridge and the feeder give out are their own.
LEMMA GivenIds ==
    /\ OwnIds(Bridge) = FirstId[Bridge] + 1 .. FirstId[Bridge] + MaxSends
    /\ OwnIds(Feeder) = FirstId[Feeder] + 1 .. FirstId[Feeder] + 2 * MaxSends
    /\ OwnIds(Stranger) = {Last(frames).order.id : frames \in Foreign \cap WellFormed}
BY DEF OwnIds, Bridge, Feeder, Stranger

\* One order in one frame can be read.
LEMMA OneFrameFits ==
    ASSUME NEW c \in Client, NEW o \in OrderMessage, o.id \in OwnIds(c)
    PROVE  <<Message(o)>> \in Fitting(c)
<1> DEFINE f == Message(o)
           m == <<f>>
<1>1. f \in Frame /\ f.kind = "order" /\ f.order = o
  BY DEF Message, Frame
<1> HIDE DEF f
<1>2. m \in Seq(Frame) /\ Len(m) = 1 /\ m[1] = f
  BY <1>1
<1>3. Last(m) = f
  BY <1>2 DEF Last
<1> HIDE DEF m
<1>4. m \in WellFormed
  BY <1>1, <1>2 DEF WellFormed
<1> QED
  BY <1>1, <1>2, <1>3, <1>4 DEF Fitting, m, f

LEMMA BridgeSends ==
    ASSUME Deliveries, NEW ticket \in Ticket, place_order(ticket)
    PROVE  Deliveries'
<1> DEFINE id == order_id_counter[Bridge] + 1
           o == OrderOf(id, ticket, ticket.side)
           list == IF ticket.symbol = "too_long" THEN <<>> ELSE << <<Message(o)>> >>
<1>0. /\ Bridge \in Client /\ Feeder \in Client /\ MaxSends \in Nat /\ sends \in Nat /\ sends <= MaxSends
      /\ FirstId[Bridge] \in Nat /\ FirstId[Feeder] \in Nat
  BY BridgeAssumption DEF Deliveries
<1>1. order_id_counter[Bridge] \in FirstId[Bridge] .. FirstId[Bridge] + sends
      /\ order_id_counter[Feeder] \in FirstId[Feeder] .. FirstId[Feeder] + 2 * sends
  BY DEF Deliveries
<1>2. Send(Bridge, list) /\ order_id_counter' = [order_id_counter EXCEPT ![Bridge] = id]
  BY DEF place_order
<1>3. sends < MaxSends
  BY <1>2 DEF Send
<1>4. id \in Nat /\ id \in OwnIds(Bridge)
  <2>1. id \in Nat /\ id \in FirstId[Bridge] + 1 .. FirstId[Bridge] + MaxSends
    BY <1>0, <1>1, <1>3
  <2> HIDE DEF id
  <2> QED
    BY <2>1, GivenIds
<1>5. ticket \in Posting
  BY BridgeAssumption
<1>6. o \in OrderMessage /\ o.id = id
  BY <1>4, <1>5 DEF OrderOf, OrderMessage, AnySide, Posting
<1> HIDE DEF o, id
<1>7. <<Message(o)>> \in Fitting(Bridge)
  BY <1>0, <1>4, <1>6, OneFrameFits
<1>8. list \in Seq(Fitting(Bridge))
  BY <1>7
<1> HIDE DEF list
<1>9. order_id_counter'[Feeder] = order_id_counter[Feeder]
  BY <1>2 DEF Bridge, Feeder
<1>10. order_id_counter'[Bridge] = id \/ order_id_counter'[Bridge] = order_id_counter[Bridge]
  BY <1>2
<1>11. order_id_counter'[Bridge] \in FirstId[Bridge] .. FirstId[Bridge] + sends + 1
       /\ order_id_counter'[Feeder] \in FirstId[Feeder] .. FirstId[Feeder] + 2 * (sends + 1)
  BY <1>0, <1>1, <1>9, <1>10 DEF id
<1> QED
  BY <1>0, <1>2, <1>8, <1>11, SendingKeeps

LEMMA FeederSends ==
    ASSUME Deliveries, NEW trade \in MarketTrade, synthesize_and_send_orders(trade)
    PROVE  Deliveries'
<1> DEFINE id == order_id_counter[Feeder]
           pair == [trade EXCEPT !.quantity = Max({1, @})]
           buy == OrderOf(id + 1, pair, "buy")
           sell == OrderOf(id + 2, pair, "sell")
           list == << <<Message(buy)>>, <<Message(sell)>> >>
<1>0. /\ Bridge \in Client /\ Feeder \in Client /\ MaxSends \in Nat /\ sends \in Nat /\ sends <= MaxSends
      /\ FirstId[Bridge] \in Nat /\ FirstId[Feeder] \in Nat
  BY BridgeAssumption DEF Deliveries
<1>1. order_id_counter[Bridge] \in FirstId[Bridge] .. FirstId[Bridge] + sends
      /\ order_id_counter[Feeder] \in FirstId[Feeder] .. FirstId[Feeder] + 2 * sends
  BY DEF Deliveries
<1>2. Send(Feeder, list) /\ order_id_counter' = [order_id_counter EXCEPT ![Feeder] = id + 2]
  BY DEF synthesize_and_send_orders
<1>3. sends < MaxSends
  BY <1>2 DEF Send
<1>4. id \in Nat /\ id + 1 \in OwnIds(Feeder) /\ id + 2 \in OwnIds(Feeder)
  <2>1. id \in Nat /\ id + 1 \in FirstId[Feeder] + 1 .. FirstId[Feeder] + 2 * MaxSends
        /\ id + 2 \in FirstId[Feeder] + 1 .. FirstId[Feeder] + 2 * MaxSends
    BY <1>0, <1>1, <1>3
  <2> HIDE DEF id
  <2> QED
    BY <2>1, GivenIds
<1>5. pair \in [symbol : STRING, price : Int, quantity : Int]
  BY PairIsTyped
<1> HIDE DEF pair
<1>6. buy \in OrderMessage /\ buy.id = id + 1 /\ sell \in OrderMessage /\ sell.id = id + 2
  BY <1>4, <1>5 DEF OrderOf, OrderMessage, AnySide, Side
<1> HIDE DEF buy, sell, id
<1>7. <<Message(buy)>> \in Fitting(Feeder) /\ <<Message(sell)>> \in Fitting(Feeder)
  BY <1>0, <1>4, <1>6, OneFrameFits
<1>8. list \in Seq(Fitting(Feeder))
  BY <1>7
<1> HIDE DEF list
<1>9. order_id_counter'[Bridge] = order_id_counter[Bridge]
  BY <1>2 DEF Bridge, Feeder
<1>10. order_id_counter'[Feeder] = id + 2 \/ order_id_counter'[Feeder] = order_id_counter[Feeder]
  BY <1>2
<1>11. order_id_counter'[Bridge] \in FirstId[Bridge] .. FirstId[Bridge] + sends + 1
       /\ order_id_counter'[Feeder] \in FirstId[Feeder] .. FirstId[Feeder] + 2 * (sends + 1)
  BY <1>0, <1>1, <1>9, <1>10 DEF id
<1> QED
  BY <1>0, <1>2, <1>8, <1>11, SendingKeeps

LEMMA StrangerSends ==
    ASSUME Deliveries, NEW frames \in Foreign, SendForeign(frames)
    PROVE  Deliveries'
<1>0. /\ Stranger \in Client /\ sends \in Nat
      /\ FirstId[Bridge] \in Nat /\ FirstId[Feeder] \in Nat
  BY BridgeAssumption DEF Deliveries
<1>1. frames \in Seq(Frame)
  BY BridgeAssumption
<1>2. frames \in Fitting(Stranger)
  BY <1>1, GivenIds DEF Fitting, OddIds
<1>3. <<frames>> \in Seq(Fitting(Stranger))
  BY <1>2
<1>4. Send(Stranger, <<frames>>) /\ order_id_counter' = order_id_counter
  BY DEF SendForeign
<1>5. order_id_counter'[Bridge] \in FirstId[Bridge] .. FirstId[Bridge] + sends + 1
      /\ order_id_counter'[Feeder] \in FirstId[Feeder] .. FirstId[Feeder] + 2 * (sends + 1)
  BY <1>0, <1>4 DEF Deliveries
<1> QED
  BY <1>0, <1>3, <1>4, <1>5, SendingKeeps

LEMMA InitDeliveries == BridgeInit => Deliveries
<1> SUFFICES ASSUME BridgeInit PROVE Deliveries
  OBVIOUS
<1>1. /\ received = <<>> /\ sent = [c \in Client |-> <<>>] /\ sends = 0 /\ order_id_counter = FirstId
      /\ wire = [c \in Client |-> <<>>] /\ unread = <<>>
  BY DEF BridgeInit, EngineInit
<1>2. \A c \in Client : SentIds(c) = {}
  BY <1>1 DEF SentIds
<1>3. OrderIdsIn(unread) = {}
  BY <1>1 DEF OrderIdsIn
<1>4. ASSUME NEW c \in Client PROVE Only(received, OwnIds(c)) \o IdsIn(wire[c]) = IdsOf(sent[c])
  <2>1. Only(<<>>, OwnIds(c)) = <<>> /\ Only(<<>>, WellFormed) = <<>>
    BY OnlyOfNone
  <2>2. OrdersIn(<<>>) = <<>> /\ IdsOf(<<>>) = <<>>
    BY <2>1 DEF OrdersIn, IdsOf
  <2>3. <<>> \o <<>> = <<>>
    OBVIOUS
  <2> QED
    BY <1>1, <2>1, <2>2, <2>3 DEF IdsIn
<1>5. MaxSends \in Nat /\ FirstId[Bridge] \in Nat /\ FirstId[Feeder] \in Nat
  BY BridgeAssumption
<1>6. /\ received \in Seq(Nat) /\ sent \in [Client -> Seq(OrderMessage)]
      /\ wire \in [Client -> Seq(Seq(Frame))] /\ unread \in Seq(Frame)
      /\ \A c \in Client : wire[c] \in Seq(Fitting(c))
  BY <1>1
<1>7. \A n \in DOMAIN received : FALSE
  BY <1>1
<1> QED
  BY <1>1, <1>2, <1>3, <1>4, <1>5, <1>6, <1>7 DEF Deliveries

\* The steps that take nothing from a socket and send nothing.
LEMMA QuietDeliveries ==
    ASSUME Deliveries, UNCHANGED <<received, sent, sends, order_id_counter, wire, unread>>
    PROVE  Deliveries'
<1>1. \A c \in Client : SentIds(c)' = SentIds(c)
  BY DEF SentIds
<1> QED
  BY <1>1 DEF Deliveries

LEMMA ReadingDeliveries ==
    ASSUME IdsAreApart, Deliveries, NEW source \in Source, receiveOrder(source), Takes(source),
           UNCHANGED <<sent, sends, order_id_counter>>
    PROVE  Deliveries'
<1>1. HasInput(source) /\ unread' = Leftover(AfterIdentity(source))
  BY DEF receiveOrder
<1>2. CASE source = Unread
  BY <1>1, <1>2, ReadingLeftovers DEF receiveOrder
<1>3. CASE source # Unread
  <2>1. source \in Client /\ wire' = [wire EXCEPT ![source] = Tail(@)]
    BY <1>3 DEF Source, receiveOrder
  <2> QED
    BY <1>1, <1>3, <2>1, ReadingMessage
<1> QED
  BY <1>2, <1>3

LEMMA NextDeliveries == IdsAreApart /\ Deliveries /\ [EngineNext]_allVars => Deliveries'
<1> SUFFICES ASSUME IdsAreApart, Deliveries, [EngineNext]_allVars PROVE Deliveries'
  OBVIOUS
<1> USE DEF vars, engineVars, bridgeVars, gatewayVars, mainVars
<1>1. CASE UNCHANGED allVars
  BY <1>1, QuietDeliveries DEF allVars
<1>2. ASSUME NEW source \in Source, DiscardMessage(source), UNCHANGED bridgeVars PROVE Deliveries'
  <2>1. Takes(source)
    BY <1>2 DEF DiscardMessage, Takes
  <2> QED
    BY <1>2, <2>1, ReadingDeliveries DEF DiscardMessage
<1>3. ASSUME NEW source \in Source, NEW s \in Slot, UNCHANGED bridgeVars,
             RejectOrder(source, s) \/ DropOrder(source, s) \/ ProcessOrder(source, s)
      PROVE  Deliveries'
  <2>1. Takes(source)
    BY <1>3 DEF RejectOrder, DropOrder, ProcessOrder, Store, Takes
  <2>2. receiveOrder(source)
    BY <1>3 DEF RejectOrder, DropOrder, ProcessOrder
  <2> QED
    BY <1>3, <2>1, <2>2, ReadingDeliveries
<1>4. CASE (MatchTurn \/ EndOrder \/ OutOfMemory \/ LoopTop \/ NothingReceived \/ StopLogger \/ JoinLogger)
           /\ UNCHANGED bridgeVars
  BY <1>4, QuietDeliveries
     DEF MatchTurn, EndOrder, OutOfMemory, LoopTop, NothingReceived, StopLogger, JoinLogger
<1>5. CASE LoggerStep
  BY <1>5, QuietDeliveries DEF LoggerStep, LoggerConnect, LoggerTop, LoggerReceive, LoggerTimeout
<1>6. CASE (Interrupt /\ UNCHANGED bridgeVars) \/ ListenerConnect \/ ListenerReceive \/ ListenerError
  BY <1>6, QuietDeliveries DEF Interrupt, ListenerConnect, ListenerReceive, ListenerError, ListenerTake
<1>7. CASE \/ \E ticket \in Ticket : place_order(ticket)
           \/ \E trade \in MarketTrade : synthesize_and_send_orders(trade)
           \/ \E frames \in Foreign : SendForeign(frames)
  BY <1>7, BridgeSends, FeederSends, StrangerSends
<1> QED
  BY <1>1, <1>2, <1>3, <1>4, <1>5, <1>6, <1>7 DEF EngineNext, MainStep

\* Of every client whose ids are its own, zmq_gateway.hpp's receiveOrder takes each message
\* that can be read once and in the order it was sent, whatever frames the other clients
\* send between them, and what waits in the socket is the rest.
THEOREM OrdersAreReceived ==
    ASSUME IdsAreApart
    PROVE  EngineSpec => []ReceivedInOrder
<1>1. Deliveries => ReceivedInOrder
  <2> SUFFICES ASSUME Deliveries, NEW c \in Client
               PROVE  Only(received, SentIds(c)) \o IdsOf(OrdersIn(wire[c])) = IdsOf(sent[c])
    BY DEF ReceivedInOrder
  <2>1. \A n \in DOMAIN received : received[n] \in SentIds(c) <=> received[n] \in OwnIds(c)
    BY DEF Deliveries
  <2>2. Only(received, SentIds(c)) = Only(received, OwnIds(c))
    BY <2>1, OnlyAgrees DEF Deliveries
  <2> QED
    BY <2>2 DEF Deliveries, IdsIn
<1>2. Deliveries /\ [EngineNext]_allVars => Deliveries'
  BY NextDeliveries
<1> QED
  BY <1>1, <1>2, InitDeliveries, PTL DEF EngineSpec
=============================================================================
