---------------------- MODULE PriceTimePriorityProofs ----------------------
(***************************************************************************)
(* For every set of order ids, prices, quantities and arrival numbers that *)
(* are positive integers, the abstract venue never crosses its book and    *)
(* nobody jumps the queue.                                                 *)
(***************************************************************************)
EXTENDS PriceTimePriority, TLAPS

\* Every variable keeps its type, whatever the constants: the typing of the abstract venue
\* of limit_order_book.hpp and matching.py.
THEOREM Typing ==
    ASSUME VenueAssumption
    PROVE  Spec => []TypeOK
<1>1. Init => TypeOK
  BY DEF Init, TypeOK
<1>2. TypeOK /\ [Next]_vars => TypeOK'
  <2> SUFFICES ASSUME TypeOK, [Next]_vars PROVE TypeOK'
    OBVIOUS
  <2> USE DEF VenueAssumption, TypeOK, Entry, Taker, NotResting, NoTaker, NoLimit, Side
  <2>1. CASE \E i \in OrderId, side \in Side, limit \in Price \cup {NoLimit}, qty \in Quantity :
                Arrive(i, side, limit, qty)
    BY <2>1 DEF Arrive
  <2>2. CASE \E m \in OrderId, qty \in 1 .. taker.left : Trade(m, qty)
    <3> PICK m \in OrderId, qty \in 1 .. taker.left : Trade(m, qty)
      BY <2>2
    <3>1. taker \in Taker /\ resting[m] \in Entry
      BY DEF Trade, First, Makers, Opposite
    <3>2. taker' \in Taker
      BY <3>1 DEF Trade
    <3>3. qty # resting[m].qty => [resting[m] EXCEPT !.qty = resting[m].qty - qty] \in Entry
      BY <3>1 DEF Trade
    <3>4. resting' \in [OrderId -> Entry \cup {NotResting}]
      BY <3>3 DEF Trade
    <3> QED BY <3>2, <3>4
  <2>3. CASE \E arrival \in Arrival : Rest(arrival)
    BY <2>3 DEF Rest, RestAs
  <2>4. CASE Leave
    BY <2>4 DEF Leave
  <2>5. CASE \E i \in OrderId, side \in Side, price \in Price, qty \in Quantity,
                arrival \in Arrival : Restore(i, side, price, qty, arrival)
    BY <2>5 DEF Restore, RestAs
  <2>6. CASE \E i \in OrderId : Withdraw(i)
    BY <2>6 DEF Withdraw
  <2>7. CASE UNCHANGED vars
    BY <2>7 DEF vars
  <2> QED BY <2>1, <2>2, <2>3, <2>4, <2>5, <2>6, <2>7 DEF Next
<1> QED BY <1>1, <1>2, PTL DEF Spec

\* An order that rests where nothing crosses it leaves the book uncrossed.
LEMMA RestingKeepsUncrossed ==
  ASSUME VenueAssumption, TypeOK, Uncrossed,
         NEW i \in OrderId, NEW side \in Side, NEW price \in Price,
         NEW qty \in Nat \ {0}, NEW arrival \in Arrival,
         RestAs(i, side, price, qty, arrival)
  PROVE  Uncrossed'
<1> DEFINE new == [side |-> side, price |-> price, qty |-> qty, arrival |-> arrival]
<1>1. resting' = [resting EXCEPT ![i] = new]
  BY DEF RestAs
<1>2. \A j \in OrderId : resting[j].side = Opposite(side) => ~Within(price, side, resting[j].price)
  BY DEF RestAs, Crossing, Makers
<1>3. \A j \in OrderId : resting[j].side \in Side => resting[j].price \in Nat /\ resting[j].price > 0
  <2> SUFFICES ASSUME NEW j \in OrderId, resting[j].side \in Side
               PROVE  resting[j].price \in Nat /\ resting[j].price > 0
    OBVIOUS
  <2>1. resting[j] \in Entry
    BY DEF TypeOK, NotResting, Side
  <2>2. resting[j].price \in Price
    BY <2>1 DEF Entry
  <2>3. \A p \in Price : p \in Nat /\ p > 0
    BY DEF VenueAssumption
  <2> QED BY <2>2, <2>3
<1>4. price \in Nat /\ price > 0
  BY DEF VenueAssumption
<1> SUFFICES ASSUME NEW b \in OrderId, NEW s \in OrderId,
                    resting'[b].side = "buy", resting'[s].side = "sell"
             PROVE  resting'[b].price < resting'[s].price
  BY DEF Uncrossed, Makers
<1>5. CASE b # i /\ s # i
  BY <1>1, <1>5 DEF Uncrossed, Makers, TypeOK
<1>6. CASE b = i
  <2>1. side = "buy" /\ s # i /\ resting[s].side = "sell"
    BY <1>1, <1>6 DEF TypeOK
  <2> QED BY <1>1, <1>2, <1>3, <1>4, <1>6, <2>1 DEF TypeOK, Opposite, Within, Side, NoLimit
<1>7. CASE s = i /\ b # i
  <2>1. side = "sell" /\ resting[b].side = "buy"
    BY <1>1, <1>7 DEF TypeOK
  <2> QED BY <1>1, <1>2, <1>3, <1>4, <1>7, <2>1 DEF TypeOK, Opposite, Within, Side, NoLimit
<1> QED BY <1>5, <1>6, <1>7

\* No resting bid ever reaches a resting ask: what a sweep leaves behind, and what restarts
\* and cancels leave, cannot trade with itself.
THEOREM BookStaysUncrossed ==
    ASSUME VenueAssumption
    PROVE  Spec => []Uncrossed
<1>1. Init => Uncrossed
  BY DEF Init, Uncrossed, Makers, NotResting
<1>2. TypeOK /\ Uncrossed /\ [Next]_vars => Uncrossed'
  <2> SUFFICES ASSUME TypeOK, Uncrossed, [Next]_vars PROVE Uncrossed'
    OBVIOUS
  <2>1. CASE \E i \in OrderId, side \in Side, limit \in Price \cup {NoLimit}, qty \in Quantity :
                Arrive(i, side, limit, qty)
    BY <2>1 DEF Arrive, Uncrossed, Makers
  <2>2. CASE \E m \in OrderId, qty \in 1 .. taker.left : Trade(m, qty)
    <3> PICK m \in OrderId, qty \in 1 .. taker.left : Trade(m, qty)
      BY <2>2
    <3>1. \A j \in OrderId : resting'[j] = resting[j] \/ resting'[j] = NotResting
             \/ (resting'[j].side = resting[j].side /\ resting'[j].price = resting[j].price)
      BY DEF Trade, TypeOK, Entry, NotResting
    <3> QED BY <3>1 DEF Uncrossed, Makers, NotResting
  <2>3. CASE \E arrival \in Arrival : Rest(arrival)
    <3> PICK arrival \in Arrival : Rest(arrival)
      BY <2>3
    <3>1. taker.id \in OrderId /\ taker.side \in Side /\ taker.limit \in Price
          /\ taker.left \in Nat \ {0}
      BY DEF Rest, TypeOK, Taker, NoTaker, NoLimit
    <3> QED BY <3>1, RestingKeepsUncrossed DEF Rest
  <2>4. CASE Leave
    BY <2>4 DEF Leave, Uncrossed, Makers
  <2>5. CASE \E i \in OrderId, side \in Side, price \in Price, qty \in Quantity,
                arrival \in Arrival : Restore(i, side, price, qty, arrival)
    BY <2>5, RestingKeepsUncrossed DEF Restore, VenueAssumption
  <2>6. CASE \E i \in OrderId : Withdraw(i)
    <3>1. \A j \in OrderId : resting'[j] = resting[j] \/ resting'[j] = NotResting
      BY <2>6 DEF Withdraw, TypeOK
    <3> QED BY <3>1 DEF Uncrossed, Makers, NotResting
  <2>7. CASE UNCHANGED vars
    BY <2>7 DEF vars, Uncrossed, Makers
  <2> QED BY <2>1, <2>2, <2>3, <2>4, <2>5, <2>6, <2>7 DEF Next
<1> QED BY <1>1, <1>2, Typing, PTL DEF Spec

\* The incoming order is not in the book while it is being matched.
TakerIsNew == taker # NoTaker => resting[taker.id] = NotResting

LEMMA TakerStaysNew ==
    ASSUME VenueAssumption
    PROVE  Spec => []TakerIsNew
<1>1. Init => TakerIsNew
  BY DEF Init, TakerIsNew
<1>2. TypeOK /\ TakerIsNew /\ [Next]_vars => TakerIsNew'
  <2> SUFFICES ASSUME TypeOK, TakerIsNew, [Next]_vars PROVE TakerIsNew'
    OBVIOUS
  <2>1. CASE \E i \in OrderId, side \in Side, limit \in Price \cup {NoLimit}, qty \in Quantity :
                Arrive(i, side, limit, qty)
    BY <2>1 DEF Arrive, TakerIsNew
  <2>2. CASE \E m \in OrderId, qty \in 1 .. taker.left : Trade(m, qty)
    <3> PICK m \in OrderId, qty \in 1 .. taker.left : Trade(m, qty)
      BY <2>2
    <3>1. m # taker.id
      BY DEF Trade, TakerIsNew, First, Makers, Opposite, NotResting
    <3>2. taker \in Taker /\ taker' = [taker EXCEPT !.left = @ - qty]
      BY DEF Trade, TypeOK
    <3>3. taker'.id = taker.id
      BY <3>2 DEF Taker
    <3>4. resting'[taker.id] = resting[taker.id]
      BY <3>1, <3>2 DEF Trade, TypeOK, Taker
    <3> QED BY <3>3, <3>4 DEF Trade, TakerIsNew
  <2>3. CASE \E arrival \in Arrival : Rest(arrival)
    BY <2>3 DEF Rest, TakerIsNew
  <2>4. CASE Leave
    BY <2>4 DEF Leave, TakerIsNew
  <2>5. CASE \E i \in OrderId, side \in Side, price \in Price, qty \in Quantity,
                arrival \in Arrival : Restore(i, side, price, qty, arrival)
    BY <2>5 DEF Restore, TakerIsNew
  <2>6. CASE \E i \in OrderId : Withdraw(i)
    BY <2>6 DEF Withdraw, TakerIsNew
  <2>7. CASE UNCHANGED vars
    BY <2>7 DEF vars, TakerIsNew
  <2> QED BY <2>1, <2>2, <2>3, <2>4, <2>5, <2>6, <2>7 DEF Next
<1> QED BY <1>1, <1>2, Typing, PTL DEF Spec

\* While an earlier order at a price keeps its quantity, no trade touches a later one there.
THEOREM QueueIsRespected ==
    ASSUME VenueAssumption
    PROVE  Spec => NoQueueJump
<1>1. TypeOK /\ TakerIsNew /\ [Next]_vars =>
        [\A i, j \in OrderId :
          /\ resting[i] # NotResting /\ resting[j] # NotResting
          /\ resting[i].side = resting[j].side /\ resting[i].price = resting[j].price
          /\ resting[i].arrival < resting[j].arrival
          /\ resting'[j] # resting[j] /\ resting'[i] = resting[i]
          => taker = NoTaker]_vars
  <2> SUFFICES ASSUME TypeOK, TakerIsNew, Next,
                      NEW i \in OrderId, NEW j \in OrderId,
                      resting[i] # NotResting, resting[j] # NotResting,
                      resting[i].side = resting[j].side, resting[i].price = resting[j].price,
                      resting[i].arrival < resting[j].arrival,
                      resting'[j] # resting[j], resting'[i] = resting[i]
               PROVE  taker = NoTaker
    BY DEF vars
  <2>1. CASE \E m \in OrderId, qty \in 1 .. taker.left : Trade(m, qty)
    <3> PICK m \in OrderId, qty \in 1 .. taker.left : Trade(m, qty)
      BY <2>1
    <3>1. m = j
      BY DEF Trade, TypeOK
    <3>2. i # j /\ i \in Makers(Opposite(taker.side)) /\ j \in First(Opposite(taker.side))
      BY <3>1 DEF VenueAssumption, Trade, First, Makers, TypeOK, Entry, NotResting
    <3>3. Before(j, i)
      BY <3>2 DEF First
    <3>4. resting[i] \in Entry /\ resting[j] \in Entry
      BY DEF TypeOK
    <3>5. /\ resting[i].price \in Nat /\ resting[j].price \in Nat
          /\ resting[i].arrival \in Nat /\ resting[j].arrival \in Nat
      BY <3>4 DEF VenueAssumption, Entry
    <3>6. ~Before(j, i)
      BY <3>5 DEF Before
    <3> QED BY <3>3, <3>6
  <2>2. CASE \E arrival \in Arrival : Rest(arrival)
    <3> PICK arrival \in Arrival : Rest(arrival)
      BY <2>2
    <3>1. taker.id = j
      BY DEF Rest, RestAs, TypeOK
    <3> QED BY <3>1 DEF TakerIsNew
  <2> QED BY <2>1, <2>2 DEF Next, Arrive, Leave, Restore, Withdraw
<1> QED BY <1>1, Typing, TakerStaysNew, PTL DEF Spec, NoQueueJump
=============================================================================
