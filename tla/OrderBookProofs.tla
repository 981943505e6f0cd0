-------------------------- MODULE OrderBookProofs --------------------------
(***************************************************************************)
(* The Python venue for any ids, prices, quantities, budgets, multiplier   *)
(* and scale: a fill-or-kill that begins completes, a market buy keeps to  *)
(* its budget, and the dictionaries of lists keep price-time priority.     *)
(***************************************************************************)
EXTENDS OrderBook, SumTheorems, SequenceTheorems

Node == [id : OrderId, qty : Nat \ {0}]
Call == [id : OrderId, side : Side, kind : Kind, price : Price \cup {0}, qty : Quantity,
         remaining : Nat, budget : Nat]

Typed ==
    /\ levels \in [Side -> [Price -> Seq(Node)]]
    /\ arrived \in Seq(OrderId)
    /\ call \in Call \cup {NoCall}
    /\ spent \in Nat

LEMMA Numbers ==
    /\ \A id \in OrderId : id \in Nat /\ id > 0
    /\ \A p \in Price : p \in Nat /\ p \in Int /\ p > 0
    /\ \A q \in Quantity : q \in Nat /\ q > 0
    /\ \A b \in Budget : b \in Nat
BY OrderBookAssumption

LEMMA Sides ==
    \A side \in Side : Opposite(side) \in Side /\ Opposite(side) # side
                       /\ Opposite(Opposite(side)) = side
BY DEF Side, Opposite

LEMMA RowType ==
    ASSUME NEW side \in Side, NEW p \in Price, levels \in [Side -> [Price -> Seq(Node)]]
    PROVE  /\ levels[side][p] \in Seq(Node) /\ Len(levels[side][p]) \in Nat
           /\ DOMAIN levels[side][p] = 1 .. Len(levels[side][p])
           /\ \A k \in 1 .. Len(levels[side][p]) :
                 /\ levels[side][p][k] \in Node
                 /\ levels[side][p][k].id \in OrderId /\ levels[side][p][k].id \in Nat
                 /\ levels[side][p][k].qty \in Nat \ {0}
<1>1. levels[side][p] \in Seq(Node)
  OBVIOUS
<1>2. \A k \in 1 .. Len(levels[side][p]) : levels[side][p][k] \in Node
  BY <1>1, ElementOfSeq
<1> QED
  BY <1>1, <1>2, LenProperties, Numbers DEF Node

LEMMA RowTypeNext ==
    ASSUME NEW side \in Side, NEW p \in Price, levels' \in [Side -> [Price -> Seq(Node)]]
    PROVE  /\ levels'[side][p] \in Seq(Node) /\ Len(levels'[side][p]) \in Nat
           /\ DOMAIN levels'[side][p] = 1 .. Len(levels'[side][p])
           /\ \A k \in 1 .. Len(levels'[side][p]) :
                 /\ levels'[side][p][k] \in Node
                 /\ levels'[side][p][k].id \in OrderId /\ levels'[side][p][k].id \in Nat
                 /\ levels'[side][p][k].qty \in Nat \ {0}
<1>1. levels'[side][p] \in Seq(Node)
  OBVIOUS
<1>2. \A k \in 1 .. Len(levels'[side][p]) : levels'[side][p][k] \in Node
  BY <1>1, ElementOfSeq
<1> QED
  BY <1>1, <1>2, LenProperties, Numbers DEF Node

LEMMA HistoryType ==
    ASSUME NEW S, NEW q \in Seq(S)
    PROVE  Len(q) \in Nat /\ DOMAIN q = 1 .. Len(q) /\ \A n \in 1 .. Len(q) : q[n] \in S
BY LenProperties, ElementOfSeq

\* best is one of the prices with a level, and none is better.
LEMMA BestIsBest ==
    ASSUME NEW side \in Side, IsFiniteSet(Prices(side)), Prices(side) # {}
    PROVE  /\ best(side) \in Prices(side) /\ best(side) \in Price /\ best(side) \in Nat
           /\ \A p \in Prices(side) : IF side = "buy" THEN best(side) >= p ELSE best(side) <= p
<1> DEFINE D == Prices(side)
<1>1. D \in SUBSET Price /\ IsFiniteSet(D) /\ D # {}
  BY DEF Prices
<1> HIDE DEF D
<1>2. \A p \in D : p \in Int
  BY <1>1, Numbers
<1>3. \E x \in D : \A y \in D : x >= y
  BY <1>1, <1>2, LargestExists
<1>4. \E x \in D : \A y \in D : x <= y
  BY <1>1, <1>2, SmallestExists
<1>5. Max(D) \in D /\ \A y \in D : Max(D) >= y
  BY <1>3 DEF Max
<1>6. Min(D) \in D /\ \A y \in D : Min(D) <= y
  BY <1>4 DEF Min
<1>7. best(side) = IF side = "buy" THEN Max(D) ELSE Min(D)
  BY DEF best, D
<1> QED
  BY <1>1, <1>5, <1>6, <1>7, Numbers DEF D

-----------------------------------------------------------------------------
(* The shape of the book. *)

\* An order stands at one place.
OnePlace ==
    \A s, t \in Side, p, q \in Price :
        \A j \in 1 .. Len(levels[s][p]), k \in 1 .. Len(levels[t][q]) :
            levels[s][p][j].id = levels[t][q][k].id => s = t /\ p = q /\ j = k

\* Everybody in the book has arrived, once, and the lists are in the order of arrival.
AllArrived ==
    \A s \in Side, p \in Price : \A k \in 1 .. Len(levels[s][p]) :
        \E n \in 1 .. Len(arrived) : arrived[n] = levels[s][p][k].id
ArrivedOnce == \A m, n \in 1 .. Len(arrived) : arrived[m] = arrived[n] => m = n
InOrder ==
    \A s \in Side, p \in Price : \A j, k \in 1 .. Len(levels[s][p]) : j < k =>
        \A m, n \in 1 .. Len(arrived) :
            arrived[m] = levels[s][p][j].id /\ arrived[n] = levels[s][p][k].id => m < n

Uncrossed == \A b \in Prices("buy"), a \in Prices("sell") : b < a
FinitelyMany == \A s \in Side : IsFiniteSet(Prices(s))

Shape == OnePlace /\ AllArrived /\ ArrivedOnce /\ InOrder /\ Uncrossed /\ FinitelyMany

\* What is left of a list when orders are taken out of it or filled in part.
Thinned(r, q) ==
    \E f \in [1 .. Len(r) -> 1 .. Len(q)] :
        /\ \A j, k \in 1 .. Len(r) : j < k => f[j] < f[k]
        /\ \A k \in 1 .. Len(r) : r[k].id = q[f[k]].id

LEMMA SameIsThinned == ASSUME NEW q, Len(q) \in Nat PROVE Thinned(q, q)
<1> DEFINE f == [k \in 1 .. Len(q) |-> k]
<1>1. f \in [1 .. Len(q) -> 1 .. Len(q)]
  OBVIOUS
<1>2. \A k \in 1 .. Len(q) : f[k] = k
  OBVIOUS
<1> HIDE DEF f
<1> QED
  BY <1>1, <1>2 DEF Thinned

LEMMA PricesAre ==
    ASSUME levels \in [Side -> [Price -> Seq(Node)]], NEW s \in Side
    PROVE  \A p \in Price : p \in Prices(s) <=> Len(levels[s][p]) > 0
<1> SUFFICES ASSUME NEW p \in Price PROVE levels[s][p] # <<>> <=> Len(levels[s][p]) > 0
  BY DEF Prices
<1>1. levels[s][p] \in Seq(Node) /\ Len(levels[s][p]) \in Nat
  BY RowType
<1> QED
  BY <1>1, EmptySeq

LEMMA PricesAreNext ==
    ASSUME levels' \in [Side -> [Price -> Seq(Node)]], NEW s \in Side
    PROVE  \A p \in Price : p \in Prices(s)' <=> Len(levels'[s][p]) > 0
<1> SUFFICES ASSUME NEW p \in Price PROVE levels'[s][p] # <<>> <=> Len(levels'[s][p]) > 0
  BY DEF Prices
<1>1. levels'[s][p] \in Seq(Node) /\ Len(levels'[s][p]) \in Nat
  BY RowTypeNext
<1> QED
  BY <1>1, EmptySeq

\* Taking orders out, or filling them in part, spoils nothing.
LEMMA ThinnedKeepsShape ==
    ASSUME Shape, levels \in [Side -> [Price -> Seq(Node)]],
           levels' \in [Side -> [Price -> Seq(Node)]], arrived' = arrived,
           \A s \in Side, p \in Price : Thinned(levels'[s][p], levels[s][p])
    PROVE  Shape' /\ \A s \in Side : Prices(s)' \subseteq Prices(s)
<1>1. \A s \in Side, p \in Price :
        \E f \in [1 .. Len(levels'[s][p]) -> 1 .. Len(levels[s][p])] :
          /\ \A j, k \in 1 .. Len(levels'[s][p]) : j < k => f[j] < f[k]
          /\ \A k \in 1 .. Len(levels'[s][p]) : levels'[s][p][k].id = levels[s][p][f[k]].id
  BY DEF Thinned
<1>2. ASSUME NEW s \in Side, NEW p \in Price, p \in Prices(s)' PROVE p \in Prices(s)
  <2>1. Len(levels'[s][p]) > 0 /\ Len(levels'[s][p]) \in Nat /\ Len(levels[s][p]) \in Nat
    BY <1>2, PricesAreNext, RowType, RowTypeNext
  <2>2. 1 \in 1 .. Len(levels'[s][p])
    BY <2>1
  <2>3. \E n : n \in 1 .. Len(levels[s][p])
    BY <1>1, <2>2
  <2>4. Len(levels[s][p]) > 0
    BY <2>1, <2>3
  <2> QED
    BY <2>4, PricesAre
<1>3. \A s \in Side : Prices(s)' \subseteq Prices(s)
  BY <1>2 DEF Prices
<1>4. FinitelyMany'
  BY <1>3, FS_Subset DEF FinitelyMany, Shape
<1>5. Uncrossed'
  BY <1>3 DEF Uncrossed, Shape, Side
<1>6. AllArrived'
  <2> SUFFICES ASSUME NEW s \in Side, NEW p \in Price, NEW k \in 1 .. Len(levels'[s][p])
               PROVE  \E n \in 1 .. Len(arrived) : arrived[n] = levels'[s][p][k].id
    BY DEF AllArrived
  <2>1. PICK f \in [1 .. Len(levels'[s][p]) -> 1 .. Len(levels[s][p])] :
          \A i \in 1 .. Len(levels'[s][p]) : levels'[s][p][i].id = levels[s][p][f[i]].id
    BY <1>1
  <2>2. f[k] \in 1 .. Len(levels[s][p])
    BY <2>1
  <2> QED
    BY <2>1, <2>2 DEF AllArrived, Shape
<1>7. OnePlace'
  <2> SUFFICES ASSUME NEW s \in Side, NEW t \in Side, NEW p \in Price, NEW q \in Price,
                      NEW j \in 1 .. Len(levels'[s][p]), NEW k \in 1 .. Len(levels'[t][q]),
                      levels'[s][p][j].id = levels'[t][q][k].id
               PROVE  s = t /\ p = q /\ j = k
    BY DEF OnePlace
  <2>1. PICK f \in [1 .. Len(levels'[s][p]) -> 1 .. Len(levels[s][p])] :
          /\ \A i, n \in 1 .. Len(levels'[s][p]) : i < n => f[i] < f[n]
          /\ \A i \in 1 .. Len(levels'[s][p]) : levels'[s][p][i].id = levels[s][p][f[i]].id
    BY <1>1
  <2>2. PICK g \in [1 .. Len(levels'[t][q]) -> 1 .. Len(levels[t][q])] :
          \A i \in 1 .. Len(levels'[t][q]) : levels'[t][q][i].id = levels[t][q][g[i]].id
    BY <1>1
  <2>3. s = t /\ p = q
    <3>1. f[j] \in 1 .. Len(levels[s][p]) /\ g[k] \in 1 .. Len(levels[t][q])
          /\ levels[s][p][f[j]].id = levels[t][q][g[k]].id
      BY <2>1, <2>2
    <3> QED
      BY <3>1 DEF Shape, OnePlace
  <2>4. levels[s][p][f[j]].id = levels[s][p][f[k]].id /\ f[j] \in 1 .. Len(levels[s][p])
        /\ f[k] \in 1 .. Len(levels[s][p])
    BY <2>1, <2>3
  <2>5. f[j] = f[k]
    BY <2>4 DEF Shape, OnePlace
  <2>6. ~ (j < k) /\ ~ (k < j)
    BY <2>1, <2>3, <2>4, <2>5
  <2>7. Len(levels'[s][p]) \in Nat
    BY RowTypeNext
  <2> QED
    BY <2>3, <2>6, <2>7
<1>8. InOrder'
  <2> SUFFICES ASSUME NEW s \in Side, NEW p \in Price,
                      NEW j \in 1 .. Len(levels'[s][p]), NEW k \in 1 .. Len(levels'[s][p]), j < k,
                      NEW m \in 1 .. Len(arrived), NEW n \in 1 .. Len(arrived),
                      arrived[m] = levels'[s][p][j].id, arrived[n] = levels'[s][p][k].id
               PROVE  m < n
    BY DEF InOrder
  <2>1. PICK f \in [1 .. Len(levels'[s][p]) -> 1 .. Len(levels[s][p])] :
          /\ \A i, l \in 1 .. Len(levels'[s][p]) : i < l => f[i] < f[l]
          /\ \A i \in 1 .. Len(levels'[s][p]) : levels'[s][p][i].id = levels[s][p][f[i]].id
    BY <1>1
  <2>2. /\ f[j] \in 1 .. Len(levels[s][p]) /\ f[k] \in 1 .. Len(levels[s][p]) /\ f[j] < f[k]
        /\ arrived[m] = levels[s][p][f[j]].id /\ arrived[n] = levels[s][p][f[k]].id
    BY <2>1
  <2> QED
    BY <2>2 DEF Shape, InOrder
<1>9. ArrivedOnce'
  BY DEF ArrivedOnce, Shape
<1> QED
  BY <1>3, <1>4, <1>5, <1>6, <1>7, <1>8, <1>9 DEF Shape

\* An order joins the end of its list, and the history.
LEMMA PushRows ==
    ASSUME levels \in [Side -> [Price -> Seq(Node)]], arrived \in Seq(OrderId),
           NEW side \in Side, NEW price \in Price, NEW id \in OrderId, NEW qty \in Nat \ {0},
           Push(side, price, id, qty)
    PROVE  /\ levels' \in [Side -> [Price -> Seq(Node)]] /\ arrived' \in Seq(OrderId)
           /\ Len(arrived') = Len(arrived) + 1 /\ arrived'[Len(arrived) + 1] = id
           /\ \A n \in 1 .. Len(arrived) : arrived'[n] = arrived[n]
           /\ \A s \in Side, p \in Price :
                 /\ \A k \in 1 .. Len(levels[s][p]) :
                       k \in 1 .. Len(levels'[s][p]) /\ levels'[s][p][k] = levels[s][p][k]
                 /\ \A k \in 1 .. Len(levels'[s][p]) :
                       \/ k \in 1 .. Len(levels[s][p])
                       \/ /\ s = side /\ p = price /\ k = Len(levels[s][p]) + 1
                          /\ levels'[s][p][k].id = id /\ levels'[s][p][k].qty = qty
           /\ Len(levels'[side][price]) = Len(levels[side][price]) + 1
<1>1. PICK e \in Node : e = [id |-> id, qty |-> qty]
  BY DEF Node
<1>2. levels' = [levels EXCEPT ![side][price] = Append(levels[side][price], e)]
  BY <1>1 DEF Push
<1>3. levels[side][price] \in Seq(Node) /\ Len(levels[side][price]) \in Nat
  BY RowType
<1>4. PICK q \in Seq(Node) : q = Append(levels[side][price], e)
  BY <1>3, AppendProperties
<1>5. /\ Len(q) = Len(levels[side][price]) + 1 /\ q[Len(levels[side][price]) + 1] = e
      /\ \A k \in 1 .. Len(levels[side][price]) : q[k] = levels[side][price][k]
  BY <1>3, <1>4, AppendProperties
<1>6. levels' \in [Side -> [Price -> Seq(Node)]]
  BY <1>2, <1>4
<1>7. \A s \in Side, p \in Price :
         levels'[s][p] = IF s = side /\ p = price THEN q ELSE levels[s][p]
  BY <1>2, <1>4
<1>8. arrived' = Append(arrived, id) /\ Len(arrived) \in Nat
  BY HistoryType DEF Push
<1>9. /\ arrived' \in Seq(OrderId) /\ Len(arrived') = Len(arrived) + 1
      /\ arrived'[Len(arrived) + 1] = id
      /\ \A n \in 1 .. Len(arrived) : arrived'[n] = arrived[n]
  BY <1>8, AppendProperties
<1>10. ASSUME NEW s \in Side, NEW p \in Price
       PROVE  /\ \A k \in 1 .. Len(levels[s][p]) :
                    k \in 1 .. Len(levels'[s][p]) /\ levels'[s][p][k] = levels[s][p][k]
              /\ \A k \in 1 .. Len(levels'[s][p]) :
                    \/ k \in 1 .. Len(levels[s][p])
                    \/ /\ s = side /\ p = price /\ k = Len(levels[s][p]) + 1
                       /\ levels'[s][p][k].id = id /\ levels'[s][p][k].qty = qty
  <2>1. CASE s = side /\ p = price
    <3>1. levels'[s][p] = q
      BY <1>7, <2>1
    <3> QED
      BY <1>1, <1>3, <1>5, <2>1, <3>1
  <2>2. CASE ~ (s = side /\ p = price)
    BY <1>7, <2>2
  <2> QED
    BY <2>1, <2>2
<1> QED
  BY <1>5, <1>6, <1>7, <1>9, <1>10

\* The new arrival spoils nothing where it crosses nobody.
LEMMA PushKeepsShape ==
    ASSUME Shape, levels \in [Side -> [Price -> Seq(Node)]], arrived \in Seq(OrderId),
           NEW side \in Side, NEW price \in Price, NEW id \in OrderId, NEW qty \in Nat \ {0},
           Push(side, price, id, qty),
           \A n \in 1 .. Len(arrived) : arrived[n] # id,
           \A p \in Prices(Opposite(side)) : ~ Reaches(side, price, p)
    PROVE  Shape'
<1>1. /\ levels' \in [Side -> [Price -> Seq(Node)]] /\ arrived' \in Seq(OrderId)
      /\ Len(arrived') = Len(arrived) + 1 /\ arrived'[Len(arrived) + 1] = id
      /\ \A n \in 1 .. Len(arrived) : arrived'[n] = arrived[n]
  BY PushRows
<1>2. \A s \in Side, p \in Price :
        /\ \A k \in 1 .. Len(levels[s][p]) :
              k \in 1 .. Len(levels'[s][p]) /\ levels'[s][p][k] = levels[s][p][k]
        /\ \A k \in 1 .. Len(levels'[s][p]) :
              \/ k \in 1 .. Len(levels[s][p])
              \/ /\ s = side /\ p = price /\ k = Len(levels[s][p]) + 1
                 /\ levels'[s][p][k].id = id
  BY PushRows
<1>3. Len(arrived) \in Nat /\ \A s \in Side, p \in Price : Len(levels[s][p]) \in Nat
  BY HistoryType, RowType
<1>4. \A s \in Side, p \in Price : \A k \in 1 .. Len(levels[s][p]) : levels[s][p][k].id # id
  BY DEF Shape, AllArrived
<1>5. \A s \in Side : Prices(s)' \subseteq IF s = side THEN Prices(s) \cup {price} ELSE Prices(s)
  <2> SUFFICES ASSUME NEW s \in Side, NEW p \in Price, p \in Prices(s)', p \notin Prices(s)
               PROVE  s = side /\ p = price
    BY DEF Prices
  <2>1. Len(levels'[s][p]) > 0 /\ Len(levels'[s][p]) \in Nat
    BY <1>1, PricesAreNext, RowTypeNext
  <2>2. ~ (Len(levels[s][p]) > 0)
    BY PricesAre
  <2>3. 1 \in 1 .. Len(levels'[s][p]) /\ 1 \notin 1 .. Len(levels[s][p])
    BY <1>3, <2>1, <2>2
  <2> QED
    BY <1>2, <2>3
<1>6. FinitelyMany'
  <2> SUFFICES ASSUME NEW s \in Side PROVE IsFiniteSet(Prices(s)')
    BY DEF FinitelyMany
  <2>1. IsFiniteSet(Prices(s)) /\ IsFiniteSet(Prices(s) \cup {price})
    BY FS_AddElement DEF Shape, FinitelyMany
  <2>2. Prices(s)' \subseteq Prices(s) \cup {price}
    BY <1>5
  <2> QED
    BY <2>1, <2>2, FS_Subset
<1>7. Uncrossed'
  <2> SUFFICES ASSUME NEW b \in Prices("buy")', NEW a \in Prices("sell")' PROVE b < a
    BY DEF Uncrossed
  <2>1. b \in Price /\ a \in Price /\ price # 0
    BY Numbers DEF Prices
  <2>2. CASE side = "buy"
    <3>1. a \in Prices("sell") /\ (b \in Prices("buy") \/ b = price)
      BY <1>5, <2>2 DEF Side
    <3>2. ~ Reaches("buy", price, a)
      BY <2>2, <3>1 DEF Opposite
    <3> QED
      BY <2>1, <3>1, <3>2, Numbers DEF Shape, Uncrossed, Reaches
  <2>3. CASE side = "sell"
    <3>1. b \in Prices("buy") /\ (a \in Prices("sell") \/ a = price)
      BY <1>5, <2>3 DEF Side
    <3>2. ~ Reaches("sell", price, b)
      BY <2>3, <3>1 DEF Opposite
    <3> QED
      BY <2>1, <3>1, <3>2, Numbers DEF Shape, Uncrossed, Reaches
  <2> QED
    BY <2>2, <2>3 DEF Side
<1>8. ArrivedOnce'
  <2> SUFFICES ASSUME NEW m \in 1 .. Len(arrived'), NEW n \in 1 .. Len(arrived'),
                      arrived'[m] = arrived'[n]
               PROVE  m = n
    BY DEF ArrivedOnce
  <2>1. /\ m \in 1 .. Len(arrived) \/ m = Len(arrived) + 1
        /\ n \in 1 .. Len(arrived) \/ n = Len(arrived) + 1
    BY <1>1, <1>3
  <2> QED
    BY <1>1, <1>3, <2>1 DEF Shape, ArrivedOnce
<1>9. AllArrived'
  <2> SUFFICES ASSUME NEW s \in Side, NEW p \in Price, NEW k \in 1 .. Len(levels'[s][p])
               PROVE  \E n \in 1 .. Len(arrived') : arrived'[n] = levels'[s][p][k].id
    BY DEF AllArrived
  <2>1. CASE k \in 1 .. Len(levels[s][p])
    <3>1. PICK n \in 1 .. Len(arrived) : arrived[n] = levels[s][p][k].id
      BY <2>1 DEF Shape, AllArrived
    <3>2. n \in 1 .. Len(arrived') /\ arrived'[n] = arrived[n]
      BY <1>1, <1>3
    <3> QED
      BY <1>2, <2>1, <3>1, <3>2
  <2>2. CASE k \notin 1 .. Len(levels[s][p])
    <3>1. levels'[s][p][k].id = id
      BY <1>2, <2>2
    <3>2. Len(arrived) + 1 \in 1 .. Len(arrived')
      BY <1>1, <1>3
    <3> QED
      BY <1>1, <3>1, <3>2
  <2> QED
    BY <2>1, <2>2
<1>10. OnePlace'
  <2> SUFFICES ASSUME NEW s \in Side, NEW t \in Side, NEW p \in Price, NEW q \in Price,
                      NEW j \in 1 .. Len(levels'[s][p]), NEW k \in 1 .. Len(levels'[t][q]),
                      levels'[s][p][j].id = levels'[t][q][k].id
               PROVE  s = t /\ p = q /\ j = k
    BY DEF OnePlace
  <2>1. CASE j \in 1 .. Len(levels[s][p]) /\ k \in 1 .. Len(levels[t][q])
    <3>1. levels[s][p][j].id = levels[t][q][k].id
      BY <1>2, <2>1
    <3> QED
      BY <2>1, <3>1 DEF Shape, OnePlace
  <2>2. CASE j \in 1 .. Len(levels[s][p]) /\ k \notin 1 .. Len(levels[t][q])
    <3>1. levels'[s][p][j] = levels[s][p][j] /\ levels'[t][q][k].id = id
      BY <1>2, <2>2
    <3> QED
      BY <1>4, <2>2, <3>1
  <2>3. CASE j \notin 1 .. Len(levels[s][p]) /\ k \in 1 .. Len(levels[t][q])
    <3>1. levels'[t][q][k] = levels[t][q][k]
      BY <1>2, <2>3
    <3>2. levels'[s][p][j].id = id
      BY <1>2, <2>3
    <3> QED
      BY <1>4, <2>3, <3>1, <3>2
  <2>4. CASE j \notin 1 .. Len(levels[s][p]) /\ k \notin 1 .. Len(levels[t][q])
    BY <1>2, <2>4
  <2> QED
    BY <2>1, <2>2, <2>3, <2>4
<1>11. InOrder'
  <2> SUFFICES ASSUME NEW s \in Side, NEW p \in Price,
                      NEW j \in 1 .. Len(levels'[s][p]), NEW k \in 1 .. Len(levels'[s][p]), j < k,
                      NEW m \in 1 .. Len(arrived'), NEW n \in 1 .. Len(arrived'),
                      arrived'[m] = levels'[s][p][j].id, arrived'[n] = levels'[s][p][k].id
               PROVE  m < n
    BY DEF InOrder
  <2>1. j \in 1 .. Len(levels[s][p]) /\ levels'[s][p][j] = levels[s][p][j]
    <3>1. Len(levels'[s][p]) \in Nat /\ k \in Nat /\ j \in Nat
      BY <1>1, RowTypeNext
    <3>2. k \in 1 .. Len(levels[s][p]) \/ k = Len(levels[s][p]) + 1
      BY <1>2
    <3>3. j \in 1 .. Len(levels[s][p])
      BY <1>3, <3>1, <3>2
    <3> QED
      BY <1>2, <3>3
  <2>2. m \in 1 .. Len(arrived)
    <3>1. arrived'[m] # id
      BY <1>4, <2>1
    <3>2. m # Len(arrived) + 1
      BY <1>1, <3>1
    <3> QED
      BY <1>1, <1>3, <3>2
  <2>3. CASE k \in 1 .. Len(levels[s][p])
    <3>1. levels'[s][p][k] = levels[s][p][k]
      BY <1>2, <2>3
    <3>2. arrived'[n] # id
      BY <1>4, <2>3, <3>1
    <3>3. n # Len(arrived) + 1
      BY <1>1, <3>2
    <3>4. n \in 1 .. Len(arrived)
      BY <1>1, <1>3, <3>3
    <3>5. arrived[m] = levels[s][p][j].id /\ arrived[n] = levels[s][p][k].id
      BY <1>1, <2>1, <2>2, <3>1, <3>4
    <3> QED
      BY <2>1, <2>2, <2>3, <3>4, <3>5 DEF Shape, InOrder
  <2>4. CASE k \notin 1 .. Len(levels[s][p])
    <3>1. arrived'[n] = id
      BY <1>2, <2>4
    <3>2. n \notin 1 .. Len(arrived)
      BY <1>1, <3>1
    <3> QED
      BY <1>1, <1>3, <2>2, <3>2
  <2> QED
    BY <2>3, <2>4
<1> QED
  BY <1>6, <1>7, <1>8, <1>9, <1>10, <1>11 DEF Shape

-----------------------------------------------------------------------------
(* One turn of the inner loop. *)

LEMMA TotalIs ==
    ASSUME NEW q \in Seq(Node)
    PROVE  /\ Total(q) = SumFunctionOnSet([k \in 1 .. Len(q) |-> q[k].qty], 1 .. Len(q))
           /\ Total(q) \in Nat
<1>1. Len(q) \in Nat /\ DOMAIN q = 1 .. Len(q) /\ \A k \in 1 .. Len(q) : q[k] \in Node
  BY HistoryType
<1> DEFINE f == [k \in 1 .. Len(q) |-> q[k].qty]
<1>2. \A k \in 1 .. Len(q) : f[k] \in Nat
  BY <1>1 DEF Node
<1>3. DOMAIN f = 1 .. Len(q)
  OBVIOUS
<1>4. Total(q) = SumFunctionOnSet(f, DOMAIN f)
  BY <1>1 DEF Total, SumFunction
<1>5. IsFiniteSet(1 .. Len(q))
  BY <1>1, FS_Interval
<1> HIDE DEF f
<1>6. SumFunctionOnSet(f, 1 .. Len(q)) \in Nat
  BY <1>2, <1>5, SumNatural
<1> QED
  BY <1>3, <1>4, <1>6 DEF f

LEMMA TotalType == \A q \in Seq(Node) : Total(q) \in Nat /\ Total(q) \in Int
<1> SUFFICES ASSUME NEW q \in Seq(Node) PROVE Total(q) \in Nat
  OBVIOUS
<1> QED
  BY TotalIs

\* Filling the front of a list takes that quantity, and nothing else, out of it.
LEMMA FrontIsConsumed ==
    ASSUME NEW q \in Seq(Node), q # <<>>, NEW m \in Nat \ {0}, m <= q[1].qty
    PROVE  /\ Consume(q, m) \in Seq(Node) /\ Thinned(Consume(q, m), q)
           /\ Total(Consume(q, m)) = Total(q) - m
           /\ IF m = q[1].qty
              THEN /\ Len(Consume(q, m)) = Len(q) - 1
                   /\ \A k \in 1 .. Len(q) - 1 : Consume(q, m)[k] = q[k + 1]
              ELSE /\ Len(Consume(q, m)) = Len(q)
                   /\ Consume(q, m)[1].id = q[1].id
                   /\ Consume(q, m)[1].qty = q[1].qty - m
                   /\ \A k \in 2 .. Len(q) : Consume(q, m)[k] = q[k]
<1>1. /\ Len(q) \in Nat \ {0} /\ DOMAIN q = 1 .. Len(q) /\ 1 \in 1 .. Len(q)
      /\ Head(q) = q[1] /\ \A k \in 1 .. Len(q) : q[k] \in Node
  <2>1. Len(q) \in Nat /\ DOMAIN q = 1 .. Len(q) /\ \A k \in 1 .. Len(q) : q[k] \in Node
    BY HistoryType
  <2>2. Len(q) # 0
    BY EmptySeq
  <2> QED
    BY <2>1, <2>2
<1>2. \A k \in 1 .. Len(q) : q[k].id \in OrderId /\ q[k].qty \in Nat \ {0}
  BY <1>1 DEF Node
<1> DEFINE n == Len(q)
           f == [k \in 1 .. n |-> q[k].qty]
<1>3. Total(q) = SumFunctionOnSet(f, 1 .. n)
  BY TotalIs
<1>4. \A k \in 1 .. n : f[k] = q[k].qty /\ f[k] \in Int
  BY <1>2
<1>5. CASE m = q[1].qty
  <2>1. Consume(q, m) = Tail(q)
    BY <1>1, <1>5 DEF Consume
  <2>2. /\ Tail(q) \in Seq(Node) /\ Len(Tail(q)) = n - 1
        /\ \A k \in 1 .. n - 1 : Tail(q)[k] = q[k + 1]
    BY HeadTailProperties
  <2> DEFINE r == Tail(q)
             g == [k \in 1 .. Len(r) |-> r[k].qty]
             h == [k \in 1 .. Len(r) |-> k + 1]
  <2>3. Total(r) = SumFunctionOnSet(g, 1 .. n - 1)
    BY <2>2, TotalIs
  <2>4. \A k \in 1 .. n - 1 : g[k] = f[k + 1]
    BY <1>1, <2>2
  <2>5. h \in [1 .. Len(r) -> 1 .. Len(q)] /\ \A k \in 1 .. Len(r) : h[k] = k + 1
    BY <1>1, <2>2
  <2> HIDE DEF r, g, f, h
  <2>6. Total(r) = Total(q) - m
    <3>1. SumFunctionOnSet(g, 1 .. n - 1) = SumFunctionOnSet(f, 1 .. n) - f[1]
      <4>1. n \in Nat /\ n > 0 /\ \A k \in 1 .. n : f[k] \in Int
        BY <1>1, <1>4
      <4> HIDE DEF n
      <4> QED
        BY ONLY <2>4, <4>1, SumShift
    <3>2. f[1] = m
      BY <1>1, <1>4, <1>5
    <3> QED
      BY <1>3, <2>3, <3>1, <3>2
  <2>7. \A j, k \in 1 .. Len(r) : j < k => h[j] < h[k]
    BY <2>5
  <2>8. \A k \in 1 .. Len(r) : r[k].id = q[h[k]].id
    BY <2>2, <2>5 DEF r
  <2>9. Thinned(r, q)
    BY <2>5, <2>7, <2>8 DEF Thinned
  <2> QED
    BY <1>5, <2>1, <2>2, <2>6, <2>9 DEF r
<1>6. CASE m # q[1].qty
  <2>1. q[1].qty - m \in Nat \ {0} /\ q[1].id \in OrderId
    BY <1>1, <1>2, <1>6
  <2>2. PICK e \in Node : e = [id |-> q[1].id, qty |-> q[1].qty - m]
    BY <2>1 DEF Node
  <2>3. [q[1] EXCEPT !.qty = @ - m] = e
    BY <1>1, <2>2 DEF Node
  <2>4. Consume(q, m) = [q EXCEPT ![1] = e]
    <3>1. Consume(q, m) = [q EXCEPT ![1] = [q[1] EXCEPT !.qty = @ - m]]
      BY <1>1, <1>6 DEF Consume
    <3> QED
      BY <2>3, <3>1
  <2>5. PICK r : r = [q EXCEPT ![1] = e]
    OBVIOUS
  <2>6. /\ r \in Seq(Node) /\ Len(r) = n
        /\ \A k \in 1 .. n : r[k] = IF k = 1 THEN e ELSE q[k]
    BY <1>1, <2>5, ExceptSeq
  <2> DEFINE g == [k \in 1 .. Len(r) |-> r[k].qty]
             h == [k \in 1 .. Len(r) |-> k]
  <2>7. Total(r) = SumFunctionOnSet(g, 1 .. n)
    BY <2>6, TotalIs
  <2>8. \A k \in 1 .. n : g[k] = IF k = 1 THEN q[1].qty - m ELSE f[k]
    BY <2>2, <2>6
  <2>9. h \in [1 .. Len(r) -> 1 .. Len(q)] /\ \A k \in 1 .. Len(r) : h[k] = k
    BY <2>6
  <2> HIDE DEF g, f, h
  <2>10. Total(r) = Total(q) - m
    <3>1. IsFiniteSet(1 .. n) /\ \A k \in 1 .. n : g[k] \in Int
      <4>1. IsFiniteSet(1 .. n)
        BY <1>1, FS_Interval
      <4>2. q[1].qty - m \in Int
        BY <2>1
      <4> QED
        BY <1>4, <2>8, <4>1, <4>2
    <3>2. SumFunctionOnSet(g, 1 .. n) = SumFunctionOnSet(f, 1 .. n) + g[1] - f[1]
      <4>1. \A k \in 1 .. n : f[k] \in Int /\ g[k] \in Int
        BY <1>4, <3>1
      <4>2. \A k \in 1 .. n : k # 1 => g[k] = f[k]
        BY <2>8
      <4>3. PICK S : S = 1 .. n
        OBVIOUS
      <4>4. IsFiniteSet(S) /\ 1 \in S /\ (\A k \in S : f[k] \in Int /\ g[k] \in Int)
            /\ \A k \in S : k # 1 => g[k] = f[k]
        BY <1>1, <3>1, <4>1, <4>2, <4>3
      <4>5. SumFunctionOnSet(g, S) = SumFunctionOnSet(f, S) + g[1] - f[1]
        BY ONLY <4>4, SumUpdate
      <4> QED
        BY <4>3, <4>5
    <3>3. SumFunctionOnSet(f, 1 .. n) \in Int /\ g[1] = q[1].qty - m /\ f[1] = q[1].qty
      <4>1. Total(q) \in Nat
        BY TotalIs
      <4> QED
        BY <1>1, <1>3, <1>4, <2>8, <4>1
    <3> QED
      BY <1>1, <1>2, <1>3, <2>7, <3>2, <3>3
  <2>11. \A j, k \in 1 .. Len(r) : j < k => h[j] < h[k]
    BY <2>9
  <2>12. \A k \in 1 .. Len(r) : r[k].id = q[h[k]].id
    BY <2>2, <2>6, <2>9
  <2>13. Thinned(r, q)
    BY <2>9, <2>11, <2>12 DEF Thinned
  <2>14. /\ r[1].id = q[1].id /\ r[1].qty = q[1].qty - m
         /\ \A k \in 2 .. n : r[k] = q[k]
    BY <1>1, <2>2, <2>6
  <2> QED
    BY <1>6, <2>4, <2>5, <2>6, <2>10, <2>13, <2>14
<1> QED
  BY <1>5, <1>6

-----------------------------------------------------------------------------
(* The invariant. *)

CallIsNew == call # NoCall => \A n \in 1 .. Len(arrived) : arrived[n] # call.id
LimitIsKnown == call.kind = "gtc" => call.price \in Price
TradingHasBegun == ~ trading => call = NoCall
FillOrKillCan == call.kind = "fok" => fillable_qty(call.side, call.price) >= call.remaining
SpendIsOfCall == call = NoCall => spent = 0

Inv ==
    /\ Typed /\ Shape /\ CallIsNew /\ LimitIsKnown /\ TradingHasBegun
    /\ FillOrKillCan /\ SpendIsOfCall /\ BudgetIsKept

LEMMA CallFacts ==
    ASSUME Typed, call # NoCall
    PROVE  /\ call \in Call /\ call.id \in OrderId /\ call.id # 0 /\ call.side \in Side
           /\ Opposite(call.side) \in Side /\ Opposite(call.side) # call.side
           /\ call.kind \in Kind /\ call.price \in Price \cup {0} /\ call.price \in Nat
           /\ call.remaining \in Nat /\ call.budget \in Nat
<1>1. call \in Call
  BY DEF Typed
<1> QED
  BY <1>1, Numbers, Sides DEF Call

LEMMA CentsRoundDown ==
    ASSUME NEW c \in Int, NEW n \in Nat \ {0}
    PROVE  c \div n \in Int /\ (c \div n) * n <= c /\ c < (c \div n) * n + n
OBVIOUS

LEMMA ProductIsMonotone ==
    ASSUME NEW a \in Int, NEW b \in Int, NEW n \in Nat, a <= b
    PROVE  a * n <= b * n
<1>1. (b - a) * n >= 0
  OBVIOUS
<1>2. (b - a) * n = b * n - a * n
  OBVIOUS
<1> QED
  BY <1>1, <1>2

\* A market buy takes no more than the rest of its budget pays for, whatever is rounded.
LEMMA AffordableIsPaid ==
    ASSUME NEW cash \in Int, NEW price \in Nat \ {0}, NEW qty \in Nat,
           qty <= (cash * QuantityScale) \div (price * Multiplier)
    PROVE  /\ notional_cents(price, qty, Multiplier) \in Nat
           /\ notional_cents(price, qty, Multiplier) <= cash
<1>1. QuantityScale \in Nat \ {0} /\ Multiplier \in Nat \ {0}
  BY QuantityScaleAssumption, OrderBookAssumption
<1>2. PICK unit \in Nat \ {0} : unit = price * Multiplier
  <2>1. price * Multiplier \in Nat /\ price * Multiplier # 0
    BY <1>1
  <2> QED
    BY <2>1
<1>3. PICK scaled \in Int : scaled = cash * QuantityScale
  BY <1>1
<1>4. PICK most \in Int : most = scaled \div unit /\ most * unit <= scaled
  BY CentsRoundDown
<1>5. qty * unit <= scaled
  <2>1. qty <= most
    BY <1>2, <1>3, <1>4
  <2>2. qty * unit <= most * unit
    BY <2>1, ProductIsMonotone
  <2>3. qty * unit \in Int /\ most * unit \in Int
    OBVIOUS
  <2> QED
    BY <1>4, <2>2, <2>3
<1>6. PICK worth \in Nat : worth = price * qty * Multiplier /\ worth = qty * unit
  <2>1. price * qty * Multiplier = qty * unit
    BY <1>1, <1>2
  <2>2. qty * unit \in Nat
    OBVIOUS
  <2> QED
    BY <2>1, <2>2
<1>7. PICK cents \in Int : /\ cents = worth \div QuantityScale
                           /\ cents * QuantityScale <= worth
                           /\ worth < cents * QuantityScale + QuantityScale
  BY <1>1, CentsRoundDown
<1>8. cents = notional_cents(price, qty, Multiplier)
  BY <1>6, <1>7 DEF notional_cents
<1>9. cents <= cash
  <2> SUFFICES ASSUME cash + 1 <= cents PROVE FALSE
    OBVIOUS
  <2>1. (cash + 1) * QuantityScale <= cents * QuantityScale
    BY <1>1, ProductIsMonotone
  <2>2. (cash + 1) * QuantityScale = cash * QuantityScale + QuantityScale
    BY <1>1
  <2>3. cash * QuantityScale \in Int /\ cents * QuantityScale \in Int
    BY <1>1
  <2> QED
    BY <1>1, <1>3, <1>5, <1>6, <1>7, <2>1, <2>2, <2>3
<1>10. cents >= 0
  <2> SUFFICES ASSUME cents <= -1 PROVE FALSE
    OBVIOUS
  <2>1. cents * QuantityScale <= (-1) * QuantityScale
    BY <1>1, ProductIsMonotone
  <2>2. cents * QuantityScale \in Int
    BY <1>1
  <2> QED
    BY <1>1, <1>7, <2>1, <2>2
<1> QED
  BY <1>8, <1>9, <1>10

\* What a turn of the loop is about.
LEMMA FillSetup ==
    ASSUME Typed, Shape, FillFront
    PROVE  \E side \in Side, price \in Price, m \in Nat \ {0} :
              /\ call \in Call /\ call # NoCall
              /\ side = Opposite(call.side) /\ price = MakerPrice /\ m = MatchQty
              /\ price \in Prices(side) /\ Reaches(call.side, call.price, price)
              /\ \A p \in Prices(side) : IF side = "buy" THEN price >= p ELSE price <= p
              /\ levels[side][price] \in Seq(Node) /\ levels[side][price] # <<>>
              /\ 1 \in 1 .. Len(levels[side][price]) /\ Maker = levels[side][price][1]
              /\ Maker \in Node /\ m <= call.remaining /\ m <= Maker.qty
              /\ call.kind = "market" /\ call.side = "buy" => m <= Affordable
              /\ call' = [call EXCEPT !.remaining = call.remaining - m]
              /\ spent' = spent + Cost(m)
              /\ levels' = [levels EXCEPT ![side][price] = Consume(levels[side][price], m)]
              /\ trading' = trading /\ arrived' = arrived
<1>1. call # NoCall /\ call.remaining > 0 /\ Prices(Opposite(call.side)) # {}
      /\ Reaches(call.side, call.price, MakerPrice) /\ MatchQty > 0
  BY DEF FillFront, Marketable, MakerPrice
<1>2. PICK side \in Side : side = Opposite(call.side)
  BY <1>1, CallFacts
<1>3. IsFiniteSet(Prices(side))
  BY DEF Shape, FinitelyMany
<1>4. /\ MakerPrice \in Prices(side) /\ MakerPrice \in Price
      /\ \A p \in Prices(side) : IF side = "buy" THEN MakerPrice >= p ELSE MakerPrice <= p
  BY <1>1, <1>2, <1>3, BestIsBest DEF MakerPrice
<1>5. PICK price \in Price : price = MakerPrice
  BY <1>4
<1>6. levels[side][price] # <<>> /\ levels[side][price] \in Seq(Node)
      /\ Len(levels[side][price]) \in Nat
      /\ \A k \in 1 .. Len(levels[side][price]) : levels[side][price][k] \in Node
  BY <1>4, <1>5, RowType DEF Prices, Typed
<1>7. 1 \in 1 .. Len(levels[side][price])
  BY <1>6, EmptySeq
<1>8. Maker = levels[side][price][1]
  BY <1>2, <1>5, <1>6 DEF Maker
<1>9. Maker \in Node /\ Maker.qty \in Nat
  BY <1>6, <1>7, <1>8 DEF Node
<1>10. \A x, y \in Int : Min({x, y}) = IF x <= y THEN x ELSE y
  <2> SUFFICES ASSUME NEW x \in Int, NEW y \in Int PROVE Min({x, y}) = IF x <= y THEN x ELSE y
    OBVIOUS
  <2>1. \E z \in {x, y} : \A u \in {x, y} : z <= u
    OBVIOUS
  <2>2. Min({x, y}) \in {x, y} /\ \A u \in {x, y} : Min({x, y}) <= u
    BY <2>1 DEF Min
  <2> QED
    BY <2>2
<1>11. Affordable \in Int
  <2>1. call.budget \in Int /\ spent \in Int /\ QuantityScale \in Int
    BY <1>1, CallFacts, QuantityScaleAssumption DEF Typed
  <2>2. MakerPrice * Multiplier \in Nat \ {0}
    <3>1. MakerPrice \in Nat \ {0} /\ Multiplier \in Nat \ {0}
      BY <1>4, Numbers, OrderBookAssumption
    <3>2. MakerPrice * Multiplier \in Nat /\ MakerPrice * Multiplier # 0
      BY <3>1
    <3> QED
      BY <3>2
  <2>3. (call.budget - spent) * QuantityScale \in Int
    BY <2>1
  <2> QED
    BY <2>2, <2>3, CentsRoundDown DEF Affordable
<1>12. /\ MatchQty \in Int /\ MatchQty <= call.remaining /\ MatchQty <= Maker.qty
       /\ call.kind = "market" /\ call.side = "buy" => MatchQty <= Affordable
  <2>1. call.remaining \in Int /\ Maker.qty \in Int
    BY <1>1, <1>9, CallFacts
  <2>2. PICK m \in Int : m = Min({call.remaining, Maker.qty})
    BY <1>10, <2>1
  <2>3. m <= call.remaining /\ m <= Maker.qty
    BY <1>10, <2>1, <2>2
  <2>4. MatchQty = IF call.kind = "market" /\ call.side = "buy" THEN Min({m, Affordable}) ELSE m
    BY <2>2 DEF MatchQty
  <2>5. Min({m, Affordable}) = IF m <= Affordable THEN m ELSE Affordable
    BY <1>10, <1>11
  <2> QED
    BY <1>11, <2>1, <2>3, <2>4, <2>5
<1>13. PICK m \in Nat \ {0} : m = MatchQty
  BY <1>1, <1>12
<1>14. /\ call' = [call EXCEPT !.remaining = call.remaining - m]
       /\ spent' = spent + Cost(m)
       /\ levels' = [levels EXCEPT ![side][price] = Consume(levels[side][price], m)]
       /\ trading' = trading /\ arrived' = arrived
  BY <1>2, <1>5, <1>13 DEF FillFront
<1>15. call \in Call
  BY <1>1, CallFacts
<1> QED
  BY <1>1, <1>2, <1>4, <1>5, <1>6, <1>7, <1>8, <1>9, <1>12, <1>13, <1>14, <1>15

\* What a turn leaves of the lists.
LEMMA FillRows ==
    ASSUME Typed, NEW side \in Side, NEW price \in Price, NEW m \in Nat \ {0},
           levels[side][price] # <<>>, m <= levels[side][price][1].qty,
           levels' = [levels EXCEPT ![side][price] = Consume(levels[side][price], m)]
    PROVE  /\ levels' \in [Side -> [Price -> Seq(Node)]]
           /\ levels'[side][price] = Consume(levels[side][price], m)
           /\ \A s \in Side, p \in Price : s # side \/ p # price => levels'[s][p] = levels[s][p]
           /\ \A s \in Side, p \in Price : Thinned(levels'[s][p], levels[s][p])
<1>1. levels \in [Side -> [Price -> Seq(Node)]] /\ levels[side][price] \in Seq(Node)
  BY RowType DEF Typed
<1>2. PICK r \in Seq(Node) : r = Consume(levels[side][price], m) /\ Thinned(r, levels[side][price])
  BY <1>1, FrontIsConsumed
<1>3. levels' = [levels EXCEPT ![side][price] = r]
  BY <1>2
<1>4. /\ levels' \in [Side -> [Price -> Seq(Node)]] /\ levels'[side][price] = r
      /\ \A s \in Side, p \in Price : s # side \/ p # price => levels'[s][p] = levels[s][p]
  BY <1>1, <1>3
<1>5. \A s \in Side, p \in Price : Thinned(levels[s][p], levels[s][p])
  BY <1>1, RowType, SameIsThinned
<1>6. \A s \in Side, p \in Price : Thinned(levels'[s][p], levels[s][p])
  <2> SUFFICES ASSUME NEW s \in Side, NEW p \in Price PROVE Thinned(levels'[s][p], levels[s][p])
    OBVIOUS
  <2>1. CASE s = side /\ p = price
    BY <1>2, <1>4, <2>1
  <2>2. CASE ~ (s = side /\ p = price)
    BY <1>4, <1>5, <2>2
  <2> QED
    BY <2>1, <2>2
<1> QED
  BY <1>2, <1>4, <1>6

\* A sum of which one summand has become less, or has gone.
LEMMA SumDrops ==
    ASSUME NEW T, NEW U, IsFiniteSet(T), NEW f, NEW g, DOMAIN f = T, DOMAIN g = U,
           NEW y \in T, NEW m \in Int,
           \A x \in T : f[x] \in Int, \A x \in U : g[x] \in Int,
           \A x \in U : x # y => g[x] = f[x],
           (U = T /\ g[y] = f[y] - m) \/ (U = T \ {y} /\ f[y] = m)
    PROVE  SumFunction(g) = SumFunction(f) - m
<1>1. SumFunction(f) = SumFunctionOnSet(f, T) /\ SumFunction(g) = SumFunctionOnSet(g, U)
  BY DEF SumFunction
<1>2. CASE U = T /\ g[y] = f[y] - m
  <2>1. (\A x \in T : f[x] \in Int /\ g[x] \in Int) /\ (\A x \in T : x # y => g[x] = f[x])
    BY <1>2
  <2>2. SumFunctionOnSet(g, T) = SumFunctionOnSet(f, T) + g[y] - f[y]
    BY <2>1, SumUpdate
  <2>3. SumFunctionOnSet(f, T) \in Int
    BY SumType
  <2> QED
    BY <1>1, <1>2, <2>1, <2>2, <2>3
<1>3. CASE U = T \ {y} /\ f[y] = m
  <2>1. \A x \in T : x # y => g[x] = f[x]
    BY <1>3
  <2>2. SumFunctionOnSet(g, T \ {y}) = SumFunctionOnSet(f, T) - f[y]
    BY <2>1, SumWithout
  <2> QED
    BY <1>1, <1>3, <2>2
<1> QED
  BY <1>2, <1>3

LEMMA FillKeepsInv ==
    ASSUME Inv, FillFront
    PROVE  Inv'
<1>1. PICK side \in Side, price \in Price, m \in Nat \ {0} :
        /\ call \in Call /\ call # NoCall
        /\ side = Opposite(call.side) /\ price = MakerPrice /\ m = MatchQty
        /\ price \in Prices(side) /\ Reaches(call.side, call.price, price)
        /\ levels[side][price] \in Seq(Node) /\ levels[side][price] # <<>>
        /\ 1 \in 1 .. Len(levels[side][price]) /\ Maker = levels[side][price][1]
        /\ m <= call.remaining /\ m <= Maker.qty
        /\ call.kind = "market" /\ call.side = "buy" => m <= Affordable
        /\ call' = [call EXCEPT !.remaining = call.remaining - m]
        /\ spent' = spent + Cost(m)
        /\ levels' = [levels EXCEPT ![side][price] = Consume(levels[side][price], m)]
        /\ trading' = trading /\ arrived' = arrived
  BY FillSetup DEF Inv
<1>2. /\ levels \in [Side -> [Price -> Seq(Node)]] /\ arrived \in Seq(OrderId) /\ spent \in Nat
      /\ Shape
  BY DEF Inv, Typed
<1>3. /\ levels' \in [Side -> [Price -> Seq(Node)]]
      /\ levels'[side][price] = Consume(levels[side][price], m)
      /\ \A s \in Side, p \in Price : s # side \/ p # price => levels'[s][p] = levels[s][p]
      /\ \A s \in Side, p \in Price : Thinned(levels'[s][p], levels[s][p])
  <2>1. m <= levels[side][price][1].qty /\ levels[side][price] # <<>>
    BY <1>1
  <2>2. levels' = [levels EXCEPT ![side][price] = Consume(levels[side][price], m)] /\ Typed
    BY <1>1 DEF Inv
  <2> QED
    BY ONLY <2>1, <2>2, FillRows, side \in Side, price \in Price, m \in Nat \ {0}
<1>4. Shape' /\ \A s \in Side : Prices(s)' \subseteq Prices(s)
  BY <1>1, <1>2, <1>3, ThinnedKeepsShape
<1>5. call.remaining - m \in Nat /\ call.price \in Nat
  BY <1>1, CallFacts DEF Inv
<1>6. call' \in Call /\ call' # NoCall
      /\ call'.id = call.id /\ call'.side = call.side /\ call'.kind = call.kind
      /\ call'.price = call.price /\ call'.budget = call.budget
      /\ call'.remaining = call.remaining - m
  <2>1. /\ call' \in Call
        /\ call'.id = call.id /\ call'.side = call.side /\ call'.kind = call.kind
        /\ call'.price = call.price /\ call'.budget = call.budget
        /\ call'.remaining = call.remaining - m
    BY <1>1, <1>5 DEF Call
  <2>2. call.id # 0
    BY <1>1, Numbers DEF Call
  <2> QED
    BY <2>1, <2>2 DEF NoCall
<1>7. /\ Cost(m) \in Nat
      /\ call.kind = "market" /\ call.side = "buy" => Cost(m) <= call.budget - spent
  <2>1. price \in Nat \ {0} /\ MakerPrice = price
    BY <1>1, Numbers
  <2>2. CASE call.kind = "market" /\ call.side = "buy"
    <3>1. call.budget - spent \in Int
      BY <1>1, <1>2, CallFacts DEF Inv
    <3>2. m <= ((call.budget - spent) * QuantityScale) \div (price * Multiplier)
      BY <1>1, <2>1, <2>2 DEF Affordable
    <3>3. Cost(m) = notional_cents(price, m, Multiplier)
      BY <2>1, <2>2 DEF Cost
    <3>4. notional_cents(price, m, Multiplier) \in Nat
          /\ notional_cents(price, m, Multiplier) <= call.budget - spent
      BY <2>1, <3>1, <3>2, AffordableIsPaid
    <3> QED
      BY <3>3, <3>4
  <2>3. CASE call.kind = "market" /\ call.side # "buy"
    <3>1. Cost(m) = (price * m * 1) \div QuantityScale
      BY <2>1, <2>3 DEF Cost, notional_cents
    <3>2. price * m * 1 \in Nat /\ QuantityScale \in Nat \ {0}
      BY <2>1, QuantityScaleAssumption
    <3> QED
      BY <2>3, <3>1, <3>2
  <2>4. CASE call.kind # "market"
    BY <2>4 DEF Cost
  <2> QED
    BY <2>2, <2>3, <2>4
<1>8. Typed'
  BY <1>1, <1>2, <1>3, <1>6, <1>7 DEF Typed
<1>9. CallIsNew' /\ LimitIsKnown' /\ TradingHasBegun' /\ SpendIsOfCall'
  BY <1>1, <1>6 DEF Inv, CallIsNew, LimitIsKnown, TradingHasBegun, SpendIsOfCall
<1>10. BudgetIsKept'
  <2>1. call.budget \in Nat
    BY <1>1, CallFacts DEF Inv
  <2> QED
    BY <1>1, <1>2, <1>6, <1>7, <2>1 DEF Inv, BudgetIsKept
<1>11. FillOrKillCan'
  <2> DEFINE T == {p \in Prices(side) : Reaches(call.side, call.price, p)}
             U == {p \in Prices(side)' : Reaches(call.side, call.price, p)}
  <2>1. price \in T /\ T \subseteq Price /\ IsFiniteSet(T)
    <3>1. IsFiniteSet(Prices(side)) /\ T \subseteq Prices(side)
      BY <1>2 DEF Shape, FinitelyMany
    <3> QED
      BY <1>1, <3>1, FS_Subset DEF Prices
  <2>2. m <= levels[side][price][1].qty
    BY <1>1
  <2>3. Total(levels'[side][price]) = Total(levels[side][price]) - m
    BY <1>1, <1>3, <2>2, FrontIsConsumed
  <2>4. \A p \in Price : p # price => (p \in U <=> p \in T)
    BY <1>3 DEF Prices
  <2>5. U \subseteq T
    BY <1>4
  <2>6. U = T \/ (U = T \ {price} /\ price \notin U)
    BY <2>1, <2>4, <2>5
  <2>7. price \notin U => Total(levels'[side][price]) = 0
    <3> SUFFICES ASSUME price \notin U PROVE Total(levels'[side][price]) = 0
      OBVIOUS
    <3>1. price \notin Prices(side)'
      BY <1>1
    <3>2. levels'[side][price] = <<>>
      BY <3>1 DEF Prices
    <3>3. Total(<<>>) = 0
      BY SumEmpty DEF Total, SumFunction
    <3> QED
      BY <3>2, <3>3
  <2>8. fillable_qty(call.side, call.price) = SumFunction([p \in T |-> Total(levels[side][p])])
    BY <1>1 DEF fillable_qty, fillable_among
  <2>9. fillable_qty(call.side, call.price)' = SumFunction([p \in U |-> Total(levels'[side][p])])
    BY <1>1, <1>6 DEF fillable_qty, fillable_among
  <2> HIDE DEF T, U
  <2>10. SumFunction([p \in U |-> Total(levels'[side][p])])
            = SumFunction([p \in T |-> Total(levels[side][p])]) - m
    <3>1. U = T \/ (U = T \ {price} /\ Total(levels'[side][price]) = 0)
      BY <2>6, <2>7
    <3>2. \A p \in Price : p # price => levels'[side][p] = levels[side][p]
      BY <1>3
    <3>3. levels \in [Side -> [Price -> Seq(Node)]] /\ levels' \in [Side -> [Price -> Seq(Node)]]
      BY <1>2, <1>3
    <3>4. /\ \A p \in Price : Total(levels[side][p]) \in Int
          /\ \A p \in Price : Total(levels'[side][p]) \in Int
      <4>1. \A p \in Price : levels[side][p] \in Seq(Node) /\ levels'[side][p] \in Seq(Node)
        BY <3>3
      <4> QED
        BY <4>1, TotalType
    <3>5. PICK A, B, f, g : /\ A = T /\ B = U
                            /\ f = [p \in T |-> Total(levels[side][p])]
                            /\ g = [p \in U |-> Total(levels'[side][p])]
      OBVIOUS
    <3>6. /\ price \in A /\ A \subseteq Price /\ IsFiniteSet(A) /\ B \subseteq A
          /\ B = A \/ (B = A \ {price} /\ Total(levels'[side][price]) = 0)
      BY <2>1, <3>1, <3>5
    <3>7. /\ DOMAIN f = A /\ \A p \in A : f[p] = Total(levels[side][p])
          /\ DOMAIN g = B /\ \A p \in B : g[p] = Total(levels'[side][p])
      BY <3>5
    <3>8. /\ \A p \in A : f[p] \in Int
          /\ \A p \in B : g[p] \in Int
          /\ \A p \in B : p # price => g[p] = f[p]
      BY <3>2, <3>4, <3>6, <3>7
    <3>9. (B = A /\ g[price] = f[price] - m) \/ (B = A \ {price} /\ f[price] = m)
      <4>1. CASE B = A
        BY <2>3, <3>6, <3>7, <4>1
      <4>2. CASE B = A \ {price} /\ Total(levels'[side][price]) = 0
        <5>1. f[price] = Total(levels[side][price]) /\ f[price] \in Int
          BY <3>6, <3>7, <3>8
        <5>2. 0 = f[price] - m
          BY <2>3, <4>2, <5>1
        <5> QED
          BY <4>2, <5>1, <5>2
      <4> QED
        BY <3>6, <4>1, <4>2
    <3>10. SumFunction(g) = SumFunction(f) - m
      <4>1. m \in Int /\ price \in A /\ IsFiniteSet(A) /\ DOMAIN f = A /\ DOMAIN g = B
        BY <3>6, <3>7
      <4> QED
        BY ONLY <3>8, <3>9, <4>1, SumDrops
    <3> QED
      BY <3>5, <3>10
  <2>11. SumFunction([p \in T |-> Total(levels[side][p])]) \in Int
    <3> DEFINE f == [p \in T |-> Total(levels[side][p])]
    <3>1. \A p \in T : f[p] \in Int
      <4>1. \A p \in T : levels[side][p] \in Seq(Node)
        BY <1>2, <2>1
      <4>2. \A p \in T : Total(levels[side][p]) \in Int
        BY <4>1, TotalType
      <4> QED
        BY <4>2
    <3>2. DOMAIN f = T
      OBVIOUS
    <3> HIDE DEF f
    <3>3. SumFunctionOnSet(f, T) \in Int
      BY <2>1, <3>1, SumType
    <3> QED
      BY <3>2, <3>3 DEF SumFunction, f
  <2>12. call.kind = "fok" => fillable_qty(call.side, call.price) >= call.remaining
    BY DEF Inv, FillOrKillCan
  <2> QED
    BY <1>1, <1>5, <1>6, <2>8, <2>9, <2>10, <2>11, <2>12, CallFacts DEF FillOrKillCan, Inv
<1> QED
  BY <1>4, <1>8, <1>9, <1>10, <1>11 DEF Inv

-----------------------------------------------------------------------------
(* The other steps. *)

LEMMA InitInv == Init => Inv
<1> SUFFICES ASSUME Init PROVE Inv
  OBVIOUS
<1>1. /\ \A s \in Side, p \in Price : levels[s][p] = <<>>
      /\ levels \in [Side -> [Price -> Seq(Node)]]
      /\ arrived = <<>> /\ arrived \in Seq(OrderId) /\ call = NoCall /\ spent = 0
  BY DEF Init
<1>2. \A s \in Side : Prices(s) = {}
  BY <1>1 DEF Prices
<1>3. Typed
  BY <1>1 DEF Typed
<1>4. FinitelyMany /\ Uncrossed
  BY <1>2, FS_EmptySet DEF FinitelyMany, Uncrossed, Side
<1>5. OnePlace /\ AllArrived /\ ArrivedOnce /\ InOrder
  BY <1>1 DEF OnePlace, AllArrived, ArrivedOnce, InOrder
<1> QED
  BY <1>1, <1>3, <1>4, <1>5
     DEF Inv, Shape, CallIsNew, LimitIsKnown, TradingHasBegun, FillOrKillCan, SpendIsOfCall,
         BudgetIsKept, NoCall

LEMMA SameShape == Shape /\ levels' = levels /\ arrived' = arrived => Shape'
BY DEF Shape, OnePlace, AllArrived, ArrivedOnce, InOrder, Uncrossed, FinitelyMany, Prices

LEMMA SubmitKeepsInv ==
    ASSUME Inv, NEW id \in OrderId, NEW side \in Side, NEW kind \in Kind,
           NEW price \in Price \cup {0}, NEW qty \in Quantity, NEW budget \in Nat,
           kind = "gtc" => price \in Price,
           kind = "fok" => fillable_qty(side, price) >= qty,
           Submit(id, side, kind, price, qty, budget)
    PROVE  Inv'
<1>1. /\ call = NoCall /\ trading' = TRUE /\ levels' = levels /\ arrived' = arrived /\ spent' = spent
      /\ \A n \in 1 .. Len(arrived) : arrived[n] # id
  <2>1. arrived \in Seq(OrderId) /\ id \notin ToSet(arrived)
    BY DEF Submit, Inv, Typed
  <2>2. \A n \in 1 .. Len(arrived) : arrived[n] # id
    BY <2>1, HistoryType DEF ToSet
  <2> QED
    BY <2>2 DEF Submit
<1>2. /\ call' \in Call /\ call' # NoCall /\ call'.id = id /\ call'.side = side /\ call'.kind = kind
      /\ call'.price = price /\ call'.remaining = qty /\ call'.budget = budget
  <2>1. call' = [id |-> id, side |-> side, kind |-> kind, price |-> price, qty |-> qty,
                 remaining |-> qty, budget |-> budget]
    BY DEF Submit
  <2>2. call'.id # 0 /\ qty \in Nat
    BY <2>1, Numbers
  <2> QED
    BY <2>1, <2>2 DEF Call, NoCall
<1>3. Typed'
  BY <1>1, <1>2 DEF Inv, Typed
<1>4. Shape'
  BY <1>1, SameShape DEF Inv
<1>5. CallIsNew' /\ LimitIsKnown' /\ TradingHasBegun' /\ SpendIsOfCall'
  BY <1>1, <1>2 DEF CallIsNew, LimitIsKnown, TradingHasBegun, SpendIsOfCall
<1>6. BudgetIsKept'
  BY <1>1, <1>2 DEF Inv, SpendIsOfCall, BudgetIsKept
<1>7. FillOrKillCan'
  <2>1. fillable_qty(side, price)' = fillable_qty(side, price)
    BY <1>1 DEF fillable_qty, fillable_among, Prices
  <2> QED
    BY <1>2, <2>1 DEF FillOrKillCan
<1> QED
  BY <1>3, <1>4, <1>5, <1>6, <1>7 DEF Inv

\* Between calls nothing is being filled.
LEMMA BetweenCalls ==
    ASSUME call' = NoCall, spent' = 0
    PROVE  CallIsNew' /\ LimitIsKnown' /\ TradingHasBegun' /\ FillOrKillCan' /\ SpendIsOfCall'
           /\ BudgetIsKept'
BY DEF CallIsNew, LimitIsKnown, TradingHasBegun, FillOrKillCan, SpendIsOfCall, BudgetIsKept, NoCall

LEMMA RestKeepsInv ==
    ASSUME Inv, NEW id \in OrderId, NEW side \in Side, NEW price \in Price, NEW qty \in Quantity,
           rest(id, side, price, qty)
    PROVE  Inv'
<1>1. /\ call = NoCall /\ call' = call /\ spent' = spent /\ spent = 0
      /\ Push(side, price, id, qty) /\ qty \in Nat \ {0}
      /\ \A p \in Prices(Opposite(side)) : ~ Reaches(side, price, p)
  BY Numbers DEF rest, Inv, TradingHasBegun, SpendIsOfCall
<1>2. \A n \in 1 .. Len(arrived) : arrived[n] # id
  <2>1. arrived \in Seq(OrderId) /\ (\A i \in ToSet(arrived) : i < id)
    BY DEF rest, Inv, Typed
  <2>2. \A n \in 1 .. Len(arrived) : arrived[n] < id /\ arrived[n] \in Nat
    BY <2>1, HistoryType, Numbers DEF ToSet
  <2> QED
    BY <2>2, Numbers
<1>3. levels \in [Side -> [Price -> Seq(Node)]] /\ arrived \in Seq(OrderId) /\ Shape
  BY DEF Inv, Typed
<1>4. Shape'
  BY <1>1, <1>2, <1>3, PushKeepsShape
<1>5. levels' \in [Side -> [Price -> Seq(Node)]] /\ arrived' \in Seq(OrderId)
  BY <1>1, <1>3, PushRows
<1>6. Typed'
  BY <1>1, <1>5 DEF Inv, Typed
<1> QED
  BY <1>1, <1>4, <1>6, BetweenCalls DEF Inv

\* A cancel takes one entry out of one list.
LEMMA RemoveRows ==
    ASSUME Typed, NEW id \in OrderId, NEW side \in Side, NEW price \in Price,
           remove(id, side, price)
    PROVE  \E k \in 1 .. Len(levels[side][price]) :
              /\ levels[side][price][k].id = id
              /\ levels' \in [Side -> [Price -> Seq(Node)]]
              /\ Removed(levels[side][price], k, levels'[side][price])
              /\ \A s \in Side, p \in Price : s # side \/ p # price => levels'[s][p] = levels[s][p]
              /\ \A s \in Side, p \in Price : Thinned(levels'[s][p], levels[s][p])
<1>1. levels \in [Side -> [Price -> Seq(Node)]] /\ levels[side][price] \in Seq(Node)
      /\ Len(levels[side][price]) \in Nat /\ DOMAIN levels[side][price] = 1 .. Len(levels[side][price])
  BY RowType DEF Typed
<1>2. PICK k \in 1 .. Len(levels[side][price]) :
         /\ levels[side][price][k].id = id
         /\ levels' = [levels EXCEPT ![side][price] = RemoveAt(levels[side][price], k)]
  BY <1>1 DEF remove
<1>3. PICK r \in Seq(Node) : r = RemoveAt(levels[side][price], k) /\ Removed(levels[side][price], k, r)
  BY <1>1, RemoveAtRemoves
<1>4. /\ levels' \in [Side -> [Price -> Seq(Node)]] /\ levels'[side][price] = r
      /\ \A s \in Side, p \in Price : s # side \/ p # price => levels'[s][p] = levels[s][p]
  <2>1. levels' = [levels EXCEPT ![side][price] = r]
    BY <1>2, <1>3
  <2> QED
    BY <1>1, <2>1
<1>5. Thinned(r, levels[side][price])
  <2> DEFINE q == levels[side][price]
             f == [n \in 1 .. Len(r) |-> IF n < k THEN n ELSE n + 1]
  <2>1. Len(r) = Len(q) - 1 /\ Len(q) \in Nat /\ Len(r) \in Nat
        /\ \A n \in 1 .. Len(r) : r[n] = q[IF n < k THEN n ELSE n + 1]
    BY <1>1, <1>3, LenProperties DEF Removed
  <2>2. f \in [1 .. Len(r) -> 1 .. Len(q)] /\ \A n \in 1 .. Len(r) : f[n] = IF n < k THEN n ELSE n + 1
    BY <2>1
  <2> HIDE DEF f, q
  <2>3. \A i, j \in 1 .. Len(r) : i < j => f[i] < f[j]
    BY <2>1, <2>2
  <2>4. \A n \in 1 .. Len(r) : r[n].id = q[f[n]].id
    BY <2>1, <2>2
  <2>5. Thinned(r, q)
    BY <2>2, <2>3, <2>4 DEF Thinned
  <2> QED
    BY <2>5 DEF q
<1>6. \A s \in Side, p \in Price : Thinned(levels[s][p], levels[s][p])
  BY <1>1, RowType, SameIsThinned
<1>7. \A s \in Side, p \in Price : Thinned(levels'[s][p], levels[s][p])
  <2> SUFFICES ASSUME NEW s \in Side, NEW p \in Price PROVE Thinned(levels'[s][p], levels[s][p])
    OBVIOUS
  <2>1. CASE s = side /\ p = price
    BY <1>4, <1>5, <2>1
  <2>2. CASE ~ (s = side /\ p = price)
    BY <1>4, <1>6, <2>2
  <2> QED
    BY <2>1, <2>2
<1> QED
  BY <1>2, <1>3, <1>4, <1>7

LEMMA RemoveKeepsInv ==
    ASSUME Inv, NEW id \in OrderId, NEW side \in Side, NEW price \in Price,
           remove(id, side, price)
    PROVE  Inv'
<1>1. /\ levels' \in [Side -> [Price -> Seq(Node)]]
      /\ \A s \in Side, p \in Price : Thinned(levels'[s][p], levels[s][p])
  BY RemoveRows DEF Inv
<1>2. call = NoCall /\ call' = NoCall /\ spent' = spent /\ spent = 0 /\ arrived' = arrived
  BY DEF remove, Inv, SpendIsOfCall
<1>3. levels \in [Side -> [Price -> Seq(Node)]] /\ Shape
  BY DEF Inv, Typed
<1>4. Shape'
  BY <1>1, <1>2, <1>3, ThinnedKeepsShape
<1>5. Typed'
  BY <1>1, <1>2 DEF Inv, Typed
<1> QED
  BY <1>2, <1>4, <1>5, BetweenCalls DEF Inv

\* A remainder that rests could have taken something, had anybody been in reach.
LEMMA NothingInReach ==
    ASSUME Inv, Finish, call.remaining > 0, call.kind = "gtc"
    PROVE  \A p \in Prices(Opposite(call.side)) : ~ Reaches(call.side, call.price, p)
<1> SUFFICES ASSUME NEW p \in Prices(Opposite(call.side)), Reaches(call.side, call.price, p)
             PROVE  FALSE
  OBVIOUS
<1>1. call # NoCall /\ (Marketable => MatchQty <= 0)
  BY DEF Finish, Exhausted
<1>2. PICK side \in Side : side = Opposite(call.side)
  BY <1>1, CallFacts DEF Inv
<1>3. IsFiniteSet(Prices(side)) /\ Prices(side) # {} /\ p \in Price /\ p \in Int
  BY <1>2, Numbers DEF Inv, Shape, FinitelyMany, Prices
<1>4. /\ best(side) \in Prices(side) /\ best(side) \in Price /\ best(side) \in Nat
      /\ IF side = "buy" THEN best(side) >= p ELSE best(side) <= p
  BY <1>2, <1>3, BestIsBest
<1>5. Reaches(call.side, call.price, best(side))
  <2>1. call.price \in Nat /\ call.side \in Side
    BY <1>1, CallFacts DEF Inv
  <2> QED
    BY <1>2, <1>3, <1>4, <2>1 DEF Reaches, Side, Opposite
<1>6. Marketable
  BY <1>1, <1>2, <1>3, <1>5 DEF Marketable
<1>7. levels[side][best(side)] \in Seq(Node) /\ levels[side][best(side)] # <<>>
  BY <1>4, RowType DEF Inv, Typed, Prices
<1>8. Maker \in Node
  <2>1. Head(levels[side][best(side)]) \in Node
    BY <1>7
  <2> QED
    BY <1>2, <2>1 DEF Maker, MakerPrice
<1>9. Maker.qty \in Nat \ {0} /\ call.remaining \in Nat
  BY <1>1, <1>8, CallFacts DEF Node, Inv
<1>10. MatchQty = Min({call.remaining, Maker.qty})
  BY DEF MatchQty
<1>11. Min({call.remaining, Maker.qty}) \in {call.remaining, Maker.qty}
  <2>1. \E z \in {call.remaining, Maker.qty} : \A u \in {call.remaining, Maker.qty} : z <= u
    BY <1>9
  <2> QED
    BY <2>1 DEF Min
<1>12. MatchQty > 0
  BY <1>9, <1>10, <1>11
<1> QED
  BY <1>1, <1>6, <1>9, <1>10, <1>11, <1>12

LEMMA FinishKeepsInv ==
    ASSUME Inv, Finish
    PROVE  Inv'
<1>1. call # NoCall /\ call' = NoCall /\ spent' = 0
  BY DEF Finish
<1>2. levels \in [Side -> [Price -> Seq(Node)]] /\ arrived \in Seq(OrderId) /\ Shape
  BY DEF Inv, Typed
<1>3. Shape' /\ levels' \in [Side -> [Price -> Seq(Node)]] /\ arrived' \in Seq(OrderId)
  <2>1. CASE call.remaining > 0 /\ call.kind = "gtc"
    <3>1. PICK side \in Side, price \in Price, id \in OrderId, qty \in Nat \ {0} :
             side = call.side /\ price = call.price /\ id = call.id /\ qty = call.remaining
      BY <1>1, <2>1, CallFacts DEF Inv, LimitIsKnown
    <3>2. Push(side, price, id, qty)
      BY <2>1, <3>1 DEF Finish
    <3>3. \A n \in 1 .. Len(arrived) : arrived[n] # id
      BY <1>1, <3>1 DEF Inv, CallIsNew
    <3>4. \A p \in Prices(Opposite(side)) : ~ Reaches(side, price, p)
      BY <2>1, <3>1, NothingInReach
    <3>5. Shape'
      BY <1>2, <3>2, <3>3, <3>4, PushKeepsShape
    <3>6. levels' \in [Side -> [Price -> Seq(Node)]] /\ arrived' \in Seq(OrderId)
      BY <1>2, <3>2, PushRows
    <3> QED
      BY <3>5, <3>6
  <2>2. CASE ~ (call.remaining > 0 /\ call.kind = "gtc")
    <3>1. levels' = levels /\ arrived' = arrived
      BY <2>2 DEF Finish
    <3> QED
      BY <1>2, <3>1, SameShape
  <2> QED
    BY <2>1, <2>2
<1>4. Typed'
  BY <1>1, <1>3 DEF Typed
<1> QED
  BY <1>1, <1>3, <1>4, BetweenCalls DEF Inv

LEMMA StutterKeepsInv == Inv /\ UNCHANGED vars => Inv'
<1> SUFFICES ASSUME Inv, UNCHANGED vars PROVE Inv'
  OBVIOUS
<1>1. /\ levels' = levels /\ call' = call /\ spent' = spent /\ trading' = trading
      /\ arrived' = arrived
  BY DEF vars
<1>2. Typed' /\ Shape'
  BY <1>1, SameShape DEF Inv, Typed
<1>3. fillable_qty(call.side, call.price)' = fillable_qty(call.side, call.price)
  BY <1>1 DEF fillable_qty, fillable_among, Prices
<1> QED
  BY <1>1, <1>2, <1>3 DEF Inv, CallIsNew, LimitIsKnown, TradingHasBegun, FillOrKillCan,
                          SpendIsOfCall, BudgetIsKept

LEMMA StepKeepsInv == Inv /\ [Next]_vars => Inv'
<1> SUFFICES ASSUME Inv, [Next]_vars PROVE Inv'
  OBVIOUS
<1>1. ASSUME NEW id \in OrderId, NEW side \in Side, NEW price \in Price, NEW qty \in Quantity,
             rest(id, side, price, qty)
      PROVE  Inv'
  BY <1>1, RestKeepsInv
<1>2. ASSUME NEW id \in OrderId, NEW side \in Side, NEW price \in Price, remove(id, side, price)
      PROVE  Inv'
  BY <1>2, RemoveKeepsInv
<1>3. ASSUME NEW id \in OrderId, NEW side \in Side, NEW price \in Price, NEW qty \in Quantity,
             NEW kind \in Kind \ {"market"}, add_limit(id, side, kind, price, qty)
      PROVE  Inv'
  <2>1. Submit(id, side, kind, price, qty, 0) /\ (kind = "fok" => fillable_qty(side, price) >= qty)
    BY <1>3 DEF add_limit
  <2> QED
    BY <2>1, SubmitKeepsInv
<1>4. ASSUME NEW id \in OrderId, NEW side \in Side, NEW qty \in Quantity, NEW budget \in Nat,
             match_market(id, side, qty, budget)
      PROVE  Inv'
  <2>1. Submit(id, side, "market", 0, qty, budget) /\ "market" \in Kind
    BY <1>4 DEF match_market, Kind
  <2>2. 0 \in Price \cup {0}
    OBVIOUS
  <2> QED
    BY <2>1, <2>2, SubmitKeepsInv
<1>5. CASE FillFront
  BY <1>5, FillKeepsInv
<1>6. CASE Finish
  BY <1>6, FinishKeepsInv
<1>7. CASE UNCHANGED vars
  BY <1>7, StutterKeepsInv
<1> QED
  BY <1>1, <1>2, <1>3, <1>4, <1>5, <1>6, <1>7, Numbers DEF Next, Side

LEMMA AlwaysInv == Spec => []Inv
BY InitInv, StepKeepsInv, PTL DEF Spec

\* A fill-or-kill order that passed the check up front ends with nothing left (oms.py
\* asks fillable_qty, then calls add_limit).
THEOREM FillOrKillIsWhole == Spec => []FillOrKillCompletes
<1>1. Inv => FillOrKillCompletes
  <2> SUFFICES ASSUME Inv, call.kind = "fok", ~ Marketable, call.remaining # 0 PROVE FALSE
    BY DEF FillOrKillCompletes
  <2>1. call # NoCall /\ call.remaining \in Nat
    <3>1. call # NoCall
      BY DEF NoCall
    <3> QED
      BY <3>1, CallFacts DEF Inv
  <2>2. PICK side \in Side : side = Opposite(call.side)
    BY <2>1, CallFacts DEF Inv
  <2> DEFINE T == {p \in Prices(side) : Reaches(call.side, call.price, p)}
  <2>3. fillable_qty(call.side, call.price) = SumFunction([p \in T |-> Total(levels[side][p])])
    BY <2>2 DEF fillable_qty, fillable_among
  <2>4. T # {}
    <3> SUFFICES ASSUME T = {} PROVE FALSE
      OBVIOUS
    <3>1. SumFunction([p \in T |-> Total(levels[side][p])]) = 0
      BY SumEmpty DEF SumFunction
    <3> QED
      BY <2>1, <2>3, <3>1 DEF Inv, FillOrKillCan
  <2>5. PICK p \in Prices(side) : Reaches(call.side, call.price, p)
    BY <2>4
  <2>6. IsFiniteSet(Prices(side)) /\ p \in Price /\ p \in Int
    BY Numbers DEF Inv, Shape, FinitelyMany, Prices
  <2>7. /\ best(side) \in Nat
        /\ IF side = "buy" THEN best(side) >= p ELSE best(side) <= p
    BY <2>5, <2>6, BestIsBest
  <2>8. Reaches(call.side, call.price, best(side))
    <3>1. call.price \in Nat /\ call.side \in Side
      BY <2>1, CallFacts DEF Inv
    <3> QED
      BY <2>2, <2>5, <2>6, <2>7, <3>1 DEF Reaches, Side, Opposite
  <2> QED
    BY <2>1, <2>2, <2>5, <2>8 DEF Marketable
<1> QED
  BY <1>1, AlwaysInv, PTL

\* However often its fills are rounded, a market buy spends no more than its budget.
THEOREM MarketBuysArePaid == Spec => []BudgetIsKept
<1>1. Inv => BudgetIsKept
  BY DEF Inv
<1> QED
  BY <1>1, AlwaysInv, PTL

-----------------------------------------------------------------------------
(* The dictionaries of lists implement PriceTimePriority, step by step. *)

EntryOf(s, p, qty, n) == [side |-> s, price |-> p, qty |-> qty, arrival |-> n]
Nobody == [side |-> "none", price |-> 0, qty |-> 0, arrival |-> 0]

BookFacts ==
    /\ \A i \in OrderId, s \in Side, p \in Price : \A k \in 1 .. Len(levels[s][p]) :
          levels[s][p][k].id = i
             => RestingOrders[i] = EntryOf(s, p, levels[s][p][k].qty, Position(i))
    /\ \A i \in OrderId :
          (\A s \in Side, p \in Price : \A k \in 1 .. Len(levels[s][p]) : levels[s][p][k].id # i)
             => RestingOrders[i] = Nobody
    /\ \A n \in 1 .. Len(arrived) : Position(arrived[n]) = n
    /\ RestingOrders = [i \in OrderId |-> RestingOrders[i]]

LEMMA StandsAtIs ==
    ASSUME levels \in [Side -> [Price -> Seq(Node)]], NEW s \in Side, NEW p \in Price
    PROVE  /\ Level(s, p) = {levels[s][p][k] : k \in 1 .. Len(levels[s][p])}
           /\ \A i : StandsAt(i, s, p) <=> \E k \in 1 .. Len(levels[s][p]) : levels[s][p][k].id = i
<1>1. DOMAIN levels[s][p] = 1 .. Len(levels[s][p])
  BY RowType
<1>2. Level(s, p) = {levels[s][p][k] : k \in 1 .. Len(levels[s][p])}
  BY <1>1 DEF Level, ToSet
<1> QED
  BY <1>2 DEF StandsAt

LEMMA BookNow == Typed /\ Shape => BookFacts
<1> SUFFICES ASSUME Typed, Shape PROVE BookFacts
  OBVIOUS
<1>1. levels \in [Side -> [Price -> Seq(Node)]] /\ arrived \in Seq(OrderId)
  BY DEF Typed
<1>2. ASSUME NEW i \in OrderId, NEW s \in Side, NEW p \in Price, NEW k \in 1 .. Len(levels[s][p]),
             levels[s][p][k].id = i
      PROVE  RestingOrders[i] = EntryOf(s, p, levels[s][p][k].qty, Position(i))
  <2>1. StandsAt(i, s, p)
    BY <1>1, <1>2, StandsAtIs
  <2>2. \A t \in Side, q \in Price : StandsAt(i, t, q) => t = s /\ q = p
    <3> SUFFICES ASSUME NEW t \in Side, NEW q \in Price, StandsAt(i, t, q) PROVE t = s /\ q = p
      OBVIOUS
    <3>1. PICK j \in 1 .. Len(levels[t][q]) : levels[t][q][j].id = i
      BY <1>1, StandsAtIs
    <3> QED
      BY <1>2, <3>1 DEF Shape, OnePlace
  <2> DEFINE x == CHOOSE x \in Side \X Price : StandsAt(i, x[1], x[2])
             e == CHOOSE e \in Level(x[1], x[2]) : e.id = i
  <2>3. x \in Side \X Price /\ StandsAt(i, x[1], x[2])
    <3>1. <<s, p>> \in Side \X Price /\ StandsAt(i, <<s, p>>[1], <<s, p>>[2])
      BY <2>1
    <3> QED
      BY <3>1
  <2>4. x[1] = s /\ x[2] = p
    BY <2>2, <2>3
  <2>5. RestingOrders[i] = [side |-> x[1], price |-> x[2], qty |-> e.qty, arrival |-> Position(i)]
    BY <2>1 DEF RestingOrders
  <2> HIDE DEF x
  <2>6. e = levels[s][p][k]
    <3>1. levels[s][p][k] \in Level(s, p)
      BY <1>1, StandsAtIs
    <3>2. \A d \in Level(s, p) : d.id = i => d = levels[s][p][k]
      <4> SUFFICES ASSUME NEW j \in 1 .. Len(levels[s][p]), levels[s][p][j].id = i
                   PROVE  levels[s][p][j] = levels[s][p][k]
        BY <1>1, StandsAtIs
      <4>1. j = k
        BY <1>2 DEF Shape, OnePlace
      <4> QED
        BY <4>1
    <3>3. e = CHOOSE d \in Level(s, p) : d.id = i
      BY <2>4
    <3> QED
      BY <1>2, <3>1, <3>2, <3>3
  <2> HIDE DEF e
  <2> QED
    BY <2>4, <2>5, <2>6 DEF EntryOf
<1>3. ASSUME NEW i \in OrderId,
             \A s \in Side, p \in Price : \A k \in 1 .. Len(levels[s][p]) : levels[s][p][k].id # i
      PROVE  RestingOrders[i] = Nobody
  <2>1. \A s \in Side, p \in Price : ~ StandsAt(i, s, p)
    BY <1>1, <1>3, StandsAtIs
  <2> QED
    BY <2>1 DEF RestingOrders, Nobody
<1>4. ASSUME NEW n \in 1 .. Len(arrived) PROVE Position(arrived[n]) = n
  <2>1. DOMAIN arrived = 1 .. Len(arrived)
    BY <1>1, HistoryType
  <2>2. \A m \in 1 .. Len(arrived) : arrived[m] = arrived[n] => m = n
    BY DEF Shape, ArrivedOnce
  <2> QED
    BY <2>1, <2>2 DEF Position
<1>5. RestingOrders = [i \in OrderId |-> RestingOrders[i]]
  BY DEF RestingOrders
<1> QED
  BY <1>2, <1>3, <1>4, <1>5 DEF BookFacts

LEMMA BookNext == Typed' /\ Shape' => BookFacts'
BY BookNow, PTL

\* Who is in the book, and where.
LEMMA RestingIs ==
    ASSUME Typed, Shape, NEW i \in OrderId
    PROVE  \/ /\ RestingOrders[i] = Nobody
              /\ \A s \in Side, p \in Price : \A k \in 1 .. Len(levels[s][p]) : levels[s][p][k].id # i
           \/ \E s \in Side, p \in Price : \E k \in 1 .. Len(levels[s][p]), n \in 1 .. Len(arrived) :
                 /\ levels[s][p][k].id = i /\ arrived[n] = i /\ Position(i) = n
                 /\ RestingOrders[i] = EntryOf(s, p, levels[s][p][k].qty, n)
                 /\ p \in Prices(s)
<1>1. BookFacts
  BY BookNow
<1>2. CASE \A s \in Side, p \in Price : \A k \in 1 .. Len(levels[s][p]) : levels[s][p][k].id # i
  BY <1>1, <1>2 DEF BookFacts
<1>3. ASSUME NEW s \in Side, NEW p \in Price, NEW k \in 1 .. Len(levels[s][p]),
             levels[s][p][k].id = i
      PROVE  \E n \in 1 .. Len(arrived) :
                /\ arrived[n] = i /\ Position(i) = n
                /\ RestingOrders[i] = EntryOf(s, p, levels[s][p][k].qty, n)
                /\ p \in Prices(s)
  <2>1. PICK n \in 1 .. Len(arrived) : arrived[n] = i
    BY <1>3 DEF Shape, AllArrived
  <2>2. Position(i) = n
    BY <1>1, <2>1 DEF BookFacts
  <2>3. RestingOrders[i] = EntryOf(s, p, levels[s][p][k].qty, n)
    BY <1>1, <1>3, <2>2 DEF BookFacts
  <2>4. p \in Prices(s)
    <3>1. levels \in [Side -> [Price -> Seq(Node)]] /\ Len(levels[s][p]) \in Nat
      BY RowType DEF Typed
    <3>2. Len(levels[s][p]) > 0
      BY <3>1
    <3> QED
      BY <3>1, <3>2, PricesAre
  <2> QED
    BY <2>1, <2>2, <2>3, <2>4
<1> QED
  BY <1>2, <1>3

\* An order that keeps its place and its quantity looks the same.
LEMMA SameOrder ==
    ASSUME Typed, Shape, Typed', Shape', NEW i \in OrderId,
           \A n \in 1 .. Len(arrived) : n \in 1 .. Len(arrived') /\ arrived'[n] = arrived[n],
           \A s \in Side, p \in Price : \A k \in 1 .. Len(levels[s][p]) :
              levels[s][p][k].id = i =>
                 \E j \in 1 .. Len(levels'[s][p]) : levels'[s][p][j] = levels[s][p][k],
           \A s \in Side, p \in Price : \A j \in 1 .. Len(levels'[s][p]) :
              levels'[s][p][j].id = i => \E k \in 1 .. Len(levels[s][p]) : levels[s][p][k].id = i
    PROVE  RestingOrders'[i] = RestingOrders[i]
<1>1. BookFacts'
  BY BookNext
<1>2. CASE \A s \in Side, p \in Price : \A k \in 1 .. Len(levels[s][p]) : levels[s][p][k].id # i
  <2>1. RestingOrders[i] = Nobody
    BY <1>2, BookNow DEF BookFacts
  <2>2. \A s \in Side, p \in Price : \A j \in 1 .. Len(levels'[s][p]) : levels'[s][p][j].id # i
    BY <1>2
  <2>3. RestingOrders'[i] = Nobody
    BY <1>1, <2>2 DEF BookFacts
  <2> QED
    BY <2>1, <2>3
<1>3. ASSUME NEW s \in Side, NEW p \in Price, NEW k \in 1 .. Len(levels[s][p]),
             levels[s][p][k].id = i
      PROVE  RestingOrders'[i] = RestingOrders[i]
  <2>1. PICK j \in 1 .. Len(levels'[s][p]) : levels'[s][p][j] = levels[s][p][k]
    BY <1>3
  <2>2. PICK n \in 1 .. Len(arrived) : arrived[n] = i
    BY <1>3 DEF Shape, AllArrived
  <2>3. Position(i) = n /\ Position(i)' = n
    <3>1. Position(arrived[n]) = n
      BY BookNow DEF BookFacts
    <3>2. n \in 1 .. Len(arrived') /\ arrived'[n] = i
      BY <2>2
    <3>3. Position(i)' = n
      BY <1>1, <3>2 DEF BookFacts
    <3> QED
      BY <2>2, <3>1, <3>3
  <2>4. RestingOrders[i] = EntryOf(s, p, levels[s][p][k].qty, n)
    BY <1>3, <2>3, BookNow DEF BookFacts
  <2>5. RestingOrders'[i] = EntryOf(s, p, levels'[s][p][j].qty, n)
    BY <1>1, <1>3, <2>1, <2>3 DEF BookFacts
  <2> QED
    BY <2>1, <2>4, <2>5
<1> QED
  BY <1>2, <1>3

LEMMA IncomingIs ==
    /\ Priority!NotResting = Nobody
    /\ Priority!NoTaker = [id |-> 0, side |-> "none", limit |-> 0, left |-> 0]
    /\ call = NoCall => Incoming = Priority!NoTaker
    /\ Incoming = [id |-> call.id, side |-> call.side, limit |-> call.price, left |-> call.remaining]
    /\ call \in Call => Incoming # Priority!NoTaker
<1>1. call \in Call => call.id # 0
  BY Numbers DEF Call
<1> QED
  BY <1>1 DEF Priority!NotResting, Priority!NoTaker, Priority!NoLimit, Nobody, Incoming, NoCall

LEMMA IncomingNext ==
    /\ call' = NoCall => Incoming' = Priority!NoTaker
    /\ Incoming' = [id |-> call'.id, side |-> call'.side, limit |-> call'.price,
                    left |-> call'.remaining]
BY DEF Priority!NoTaker, Priority!NoLimit, Incoming, NoCall

LEMMA SubmitIsArrive ==
    ASSUME Inv, NEW id \in OrderId, NEW side \in Side, NEW kind, NEW price, NEW qty, NEW budget,
           Submit(id, side, kind, price, qty, budget)
    PROVE  Priority!Arrive(id, side, price, qty)
<1>1. /\ call = NoCall /\ levels' = levels /\ arrived' = arrived
      /\ call' = [id |-> id, side |-> side, kind |-> kind, price |-> price, qty |-> qty,
                  remaining |-> qty, budget |-> budget]
  BY DEF Submit
<1>2. \A n \in 1 .. Len(arrived) : arrived[n] # id
  <2>1. arrived \in Seq(OrderId) /\ id \notin ToSet(arrived)
    BY DEF Submit, Inv, Typed
  <2> QED
    BY <2>1, HistoryType DEF ToSet
<1>3. RestingOrders[id] = Nobody
  BY <1>2, RestingIs DEF Inv
<1>4. RestingOrders' = RestingOrders
  BY <1>1 DEF RestingOrders, StandsAt, Level, Position
<1>5. Incoming' = [id |-> id, side |-> side, limit |-> price, left |-> qty]
  BY <1>1, IncomingNext
<1>6. Incoming = Priority!NoTaker
  BY <1>1, IncomingIs
<1> QED
  BY <1>3, <1>4, <1>5, <1>6, IncomingIs DEF Priority!Arrive

\* The front of the best list is the first in line.
LEMMA FrontIsFirst ==
    ASSUME Typed, Shape, NEW side \in Side, NEW price \in Price,
           1 \in 1 .. Len(levels[side][price]),
           \A p \in Prices(side) : IF side = "buy" THEN price >= p ELSE price <= p
    PROVE  levels[side][price][1].id \in Priority!First(side)
<1> DEFINE i == levels[side][price][1].id
<1>1. i \in OrderId
  BY RowType DEF Typed
<1>2. PICK n \in 1 .. Len(arrived) :
         arrived[n] = i /\ RestingOrders[i] = EntryOf(side, price, levels[side][price][1].qty, n)
  <2>1. PICK s \in Side, p \in Price : \E k \in 1 .. Len(levels[s][p]), n \in 1 .. Len(arrived) :
           /\ levels[s][p][k].id = i /\ arrived[n] = i
           /\ RestingOrders[i] = EntryOf(s, p, levels[s][p][k].qty, n)
    BY <1>1, RestingIs
  <2>2. PICK k \in 1 .. Len(levels[s][p]), n \in 1 .. Len(arrived) :
           /\ levels[s][p][k].id = i /\ arrived[n] = i
           /\ RestingOrders[i] = EntryOf(s, p, levels[s][p][k].qty, n)
    BY <2>1
  <2>3. s = side /\ p = price /\ k = 1
    BY <2>2 DEF Shape, OnePlace
  <2> QED
    BY <2>2, <2>3
<1>3. ASSUME NEW j \in OrderId \ {i}, RestingOrders[j].side = side
      PROVE  Priority!Before(i, j)
  <2>1. RestingOrders[j] # Nobody
    BY <1>3 DEF Nobody, Side
  <2>2. PICK s \in Side, p \in Price : \E k \in 1 .. Len(levels[s][p]), l \in 1 .. Len(arrived) :
           /\ levels[s][p][k].id = j /\ arrived[l] = j
           /\ RestingOrders[j] = EntryOf(s, p, levels[s][p][k].qty, l) /\ p \in Prices(s)
    BY <2>1, RestingIs
  <2>3. PICK k \in 1 .. Len(levels[s][p]), l \in 1 .. Len(arrived) :
           /\ levels[s][p][k].id = j /\ arrived[l] = j
           /\ RestingOrders[j] = EntryOf(s, p, levels[s][p][k].qty, l) /\ p \in Prices(s)
    BY <2>2
  <2>4. s = side
    BY <1>3, <2>3 DEF EntryOf
  <2>5. price \in Int /\ p \in Int
    BY Numbers
  <2>6. CASE p # price
    BY <1>2, <2>3, <2>4, <2>5, <2>6 DEF Priority!Before, EntryOf, Side
  <2>7. CASE p = price
    <3>1. k # 1 /\ 1 < k
      <4>1. k # 1
        BY <2>3, <2>4, <2>7
      <4>2. Len(levels[s][p]) \in Nat
        BY RowType DEF Typed
      <4> QED
        BY <4>1, <4>2
    <3>2. arrived[n] = levels[side][price][1].id /\ arrived[l] = levels[side][price][k].id
          /\ k \in 1 .. Len(levels[side][price])
      BY <1>2, <2>3, <2>4, <2>7
    <3>3. n < l
      BY <3>1, <3>2 DEF Shape, InOrder
    <3> QED
      BY <1>2, <2>3, <2>4, <2>7, <3>3 DEF Priority!Before, EntryOf
  <2> QED
    BY <2>6, <2>7
<1>4. RestingOrders[i].side = side
  BY <1>2 DEF EntryOf
<1> QED
  BY <1>1, <1>3, <1>4 DEF Priority!First, Priority!Makers

LEMMA FillIsTrade ==
    ASSUME Inv, Inv', FillFront
    PROVE  \E i \in OrderId, m \in 1 .. Incoming.left : Priority!Trade(i, m)
<1>1. PICK side \in Side, price \in Price, m \in Nat \ {0} :
        /\ call \in Call /\ call # NoCall
        /\ side = Opposite(call.side)
        /\ price \in Prices(side) /\ Reaches(call.side, call.price, price)
        /\ \A p \in Prices(side) : IF side = "buy" THEN price >= p ELSE price <= p
        /\ levels[side][price] \in Seq(Node) /\ levels[side][price] # <<>>
        /\ 1 \in 1 .. Len(levels[side][price]) /\ Maker = levels[side][price][1]
        /\ Maker \in Node /\ m <= call.remaining /\ m <= Maker.qty
        /\ call' = [call EXCEPT !.remaining = call.remaining - m]
        /\ levels' = [levels EXCEPT ![side][price] = Consume(levels[side][price], m)]
        /\ arrived' = arrived
  BY FillSetup DEF Inv
<1>2. Typed /\ Shape /\ Typed' /\ Shape'
  BY DEF Inv
<1>3. PICK i \in OrderId, q \in Nat \ {0} : i = levels[side][price][1].id /\ q = levels[side][price][1].qty
  BY <1>1 DEF Node
<1>4. m <= q /\ Maker.id = i
  BY <1>1, <1>3
<1>5. /\ levels'[side][price] = Consume(levels[side][price], m)
      /\ \A s \in Side, p \in Price : s # side \/ p # price => levels'[s][p] = levels[s][p]
      /\ \A s \in Side, p \in Price : Thinned(levels'[s][p], levels[s][p])
  <2>1. m <= levels[side][price][1].qty /\ levels[side][price] # <<>>
    BY <1>1
  <2>2. levels' = [levels EXCEPT ![side][price] = Consume(levels[side][price], m)]
    BY <1>1
  <2> QED
    BY ONLY <1>2, <2>1, <2>2, FillRows, side \in Side, price \in Price, m \in Nat \ {0}
<1>6. IF m = q
      THEN /\ Len(levels'[side][price]) = Len(levels[side][price]) - 1
           /\ \A k \in 1 .. Len(levels[side][price]) - 1 :
                 levels'[side][price][k] = levels[side][price][k + 1]
      ELSE /\ Len(levels'[side][price]) = Len(levels[side][price])
           /\ levels'[side][price][1].id = i /\ levels'[side][price][1].qty = q - m
           /\ \A k \in 2 .. Len(levels[side][price]) :
                 levels'[side][price][k] = levels[side][price][k]
  BY <1>1, <1>3, <1>4, <1>5, FrontIsConsumed
<1>7. Len(levels[side][price]) \in Nat /\ Len(levels'[side][price]) \in Nat
  BY <1>2, RowType, RowTypeNext DEF Typed
<1>8. \A s \in Side, p \in Price : \A j \in 1 .. Len(levels'[s][p]) :
         \E k \in 1 .. Len(levels[s][p]) : levels[s][p][k].id = levels'[s][p][j].id
  <2> SUFFICES ASSUME NEW s \in Side, NEW p \in Price, NEW j \in 1 .. Len(levels'[s][p])
               PROVE  \E k \in 1 .. Len(levels[s][p]) : levels[s][p][k].id = levels'[s][p][j].id
    OBVIOUS
  <2>1. PICK f \in [1 .. Len(levels'[s][p]) -> 1 .. Len(levels[s][p])] :
           \A k \in 1 .. Len(levels'[s][p]) : levels'[s][p][k].id = levels[s][p][f[k]].id
    BY <1>5 DEF Thinned
  <2>2. f[j] \in 1 .. Len(levels[s][p])
    BY <2>1
  <2> QED
    BY <2>1, <2>2
<1>9. ASSUME NEW r \in OrderId \ {i} PROVE RestingOrders'[r] = RestingOrders[r]
  <2>1. ASSUME NEW s \in Side, NEW p \in Price, NEW k \in 1 .. Len(levels[s][p]),
               levels[s][p][k].id = r
        PROVE  \E j \in 1 .. Len(levels'[s][p]) : levels'[s][p][j] = levels[s][p][k]
    <3>1. CASE ~ (s = side /\ p = price)
      BY <1>5, <3>1
    <3>2. CASE s = side /\ p = price
      <4>1. k # 1
        BY <1>3, <2>1, <3>2
      <4>2. CASE m = q
        <5>1. k - 1 \in 1 .. Len(levels[side][price]) - 1 /\ (k - 1) + 1 = k
          BY <1>7, <3>2, <4>1
        <5>2. levels'[side][price][k - 1] = levels[side][price][k]
          BY <1>6, <4>2, <5>1
        <5> QED
          BY <1>6, <3>2, <4>2, <5>1, <5>2
      <4>3. CASE m # q
        <5>1. k \in 2 .. Len(levels[side][price])
          BY <1>7, <3>2, <4>1
        <5> QED
          BY <1>6, <3>2, <4>3, <5>1
      <4> QED
        BY <4>2, <4>3
    <3> QED
      BY <3>1, <3>2
  <2> QED
    <3>1. \A s \in Side, p \in Price : \A k \in 1 .. Len(levels[s][p]) :
             levels[s][p][k].id = r =>
                \E j \in 1 .. Len(levels'[s][p]) : levels'[s][p][j] = levels[s][p][k]
      BY <2>1
    <3>2. \A s \in Side, p \in Price : \A j \in 1 .. Len(levels'[s][p]) :
             levels'[s][p][j].id = r => \E k \in 1 .. Len(levels[s][p]) : levels[s][p][k].id = r
      BY <1>8
    <3>3. \A n \in 1 .. Len(arrived) : n \in 1 .. Len(arrived') /\ arrived'[n] = arrived[n]
      BY <1>1
    <3> QED
      BY ONLY <1>2, <3>1, <3>2, <3>3, SameOrder, r \in OrderId
<1>10. PICK n \in 1 .. Len(arrived) :
          arrived[n] = i /\ Position(i) = n /\ RestingOrders[i] = EntryOf(side, price, q, n)
  <2>1. PICK n \in 1 .. Len(arrived) : arrived[n] = i
    BY <1>2, <1>1, <1>3 DEF Shape, AllArrived
  <2>2. Position(i) = n
    BY <1>2, <2>1, BookNow DEF BookFacts
  <2>3. RestingOrders[i] = EntryOf(side, price, levels[side][price][1].qty, Position(i))
    BY <1>1, <1>2, <1>3, BookNow DEF BookFacts
  <2> QED
    BY <1>3, <2>1, <2>2, <2>3
<1>11. RestingOrders'[i] = IF m = q THEN Nobody ELSE EntryOf(side, price, q - m, n)
  <2>1. BookFacts'
    BY <1>2, BookNext
  <2>2. CASE m = q
    <3>1. ASSUME NEW s \in Side, NEW p \in Price, NEW j \in 1 .. Len(levels'[s][p]),
                 levels'[s][p][j].id = i
          PROVE  FALSE
      <4>1. PICK k \in 1 .. Len(levels[s][p]) : levels[s][p][k].id = i
        BY <1>8, <3>1
      <4>2. s = side /\ p = price
        BY <1>1, <1>2, <1>3, <4>1 DEF Shape, OnePlace
      <4>3. j \in 1 .. Len(levels[side][price]) - 1
        BY <1>6, <2>2, <4>2
      <4>4. j + 1 \in 1 .. Len(levels[side][price]) /\ j + 1 # 1
        BY <1>7, <4>3
      <4>5. levels[side][price][j + 1].id = levels[side][price][1].id
        BY <1>3, <1>6, <2>2, <3>1, <4>2, <4>3
      <4> QED
        BY <1>1, <1>2, <4>4, <4>5 DEF Shape, OnePlace
    <3> QED
      BY <2>1, <2>2, <3>1 DEF BookFacts
  <2>3. CASE m # q
    <3>1. 1 \in 1 .. Len(levels'[side][price]) /\ levels'[side][price][1].id = i
          /\ levels'[side][price][1].qty = q - m
      BY <1>1, <1>6, <2>3
    <3>2. Position(i)' = n
      <4>1. n \in 1 .. Len(arrived') /\ arrived'[n] = i
        BY <1>1, <1>10
      <4> QED
        BY <2>1, <4>1 DEF BookFacts
    <3>3. RestingOrders'[i] = EntryOf(side, price, levels'[side][price][1].qty, Position(i)')
      BY <2>1, <3>1 DEF BookFacts
    <3> QED
      BY <2>3, <3>1, <3>2, <3>3
  <2> QED
    BY <2>2, <2>3
<1>12. RestingOrders' = [RestingOrders EXCEPT ![i] =
                            IF m = RestingOrders[i].qty THEN Nobody
                            ELSE [RestingOrders[i] EXCEPT !.qty = RestingOrders[i].qty - m]]
  <2>1. /\ RestingOrders = [r \in OrderId |-> RestingOrders[r]]
        /\ RestingOrders' = [r \in OrderId |-> RestingOrders'[r]]
    BY <1>2, BookNow, BookNext DEF BookFacts
  <2>2. RestingOrders[i].qty = q
        /\ [RestingOrders[i] EXCEPT !.qty = q - m] = EntryOf(side, price, q - m, n)
    BY <1>10 DEF EntryOf
  <2> QED
    BY <1>9, <1>11, <2>1, <2>2
<1>13. i \in Priority!First(side)
  BY <1>1, <1>2, <1>3, FrontIsFirst
<1>14. /\ call.side \in Side /\ call.price \in Nat /\ call.remaining \in Nat
       /\ Incoming = [id |-> call.id, side |-> call.side, limit |-> call.price,
                      left |-> call.remaining]
       /\ Incoming # Priority!NoTaker
  BY <1>1, <1>2, CallFacts, IncomingIs
<1>15. Priority!Opposite(Incoming.side) = side
  BY <1>1, <1>14 DEF Opposite, Priority!Opposite
<1>16. i \in Priority!Crossing(Incoming)
  <2>1. RestingOrders[i].side = side /\ RestingOrders[i].price = price
    BY <1>10 DEF EntryOf
  <2>2. Priority!Within(Incoming.limit, Incoming.side, price)
    BY <1>1, <1>14 DEF Reaches, Priority!Within, Priority!NoLimit, Side
  <2> QED
    BY <1>15, <2>1, <2>2 DEF Priority!Crossing, Priority!Makers
<1>17. Incoming' = [Incoming EXCEPT !.left = @ - m]
  <2>1. /\ call'.id = call.id /\ call'.side = call.side /\ call'.price = call.price
        /\ call'.remaining = call.remaining - m
    BY <1>1 DEF Call
  <2>2. Incoming' = [id |-> call.id, side |-> call.side, limit |-> call.price,
                     left |-> call.remaining - m]
    BY <2>1, IncomingNext
  <2> QED
    BY <1>14, <2>2
<1>18. m \in 1 .. Incoming.left /\ m <= Incoming.left /\ m <= RestingOrders[i].qty
  BY <1>1, <1>4, <1>10, <1>14 DEF EntryOf
<1>19. Priority!Trade(i, m)
  BY <1>12, <1>13, <1>14, <1>15, <1>16, <1>17, <1>18, IncomingIs DEF Priority!Trade
<1> QED
  BY <1>18, <1>19

\* Whoever joins the book rests behind everybody and crosses nobody.
LEMMA PushIsRestAs ==
    ASSUME Inv, Inv', NEW side \in Side, NEW price \in Price, NEW id \in OrderId,
           NEW qty \in Nat \ {0}, Push(side, price, id, qty),
           \A n \in 1 .. Len(arrived) : arrived[n] # id,
           \A p \in Prices(Opposite(side)) : ~ Reaches(side, price, p)
    PROVE  /\ RestingOrders[id] = Nobody
           /\ \E arrival \in 1 .. Cardinality(OrderId) :
                 Priority!RestAs(id, side, price, qty, arrival)
<1>1. Typed /\ Shape /\ Typed' /\ Shape'
  BY DEF Inv
<1>2. /\ Len(arrived') = Len(arrived) + 1 /\ arrived'[Len(arrived) + 1] = id
      /\ \A n \in 1 .. Len(arrived) : arrived'[n] = arrived[n]
      /\ Len(levels'[side][price]) = Len(levels[side][price]) + 1
  BY <1>1, PushRows DEF Typed
<1>3. \A s \in Side, p \in Price :
        /\ \A k \in 1 .. Len(levels[s][p]) :
              k \in 1 .. Len(levels'[s][p]) /\ levels'[s][p][k] = levels[s][p][k]
        /\ \A k \in 1 .. Len(levels'[s][p]) :
              \/ k \in 1 .. Len(levels[s][p])
              \/ /\ s = side /\ p = price /\ k = Len(levels[s][p]) + 1
                 /\ levels'[s][p][k].id = id /\ levels'[s][p][k].qty = qty
  BY <1>1, PushRows DEF Typed
<1>4. Len(arrived) \in Nat /\ Len(levels[side][price]) \in Nat
  BY <1>1, HistoryType, RowType DEF Typed
<1> DEFINE N == Len(arrived) + 1
<1>5. N \in 1 .. Cardinality(OrderId)
  <2>1. IsFiniteSet(OrderId)
    BY OrderBookAssumption
  <2>2. arrived' \in [1 .. N -> OrderId] /\ \A m, n \in 1 .. N : arrived'[m] = arrived'[n] => m = n
    <3>1. arrived' \in Seq(OrderId) /\ Len(arrived') = N
      BY <1>1, <1>2 DEF Typed
    <3>2. arrived' \in [1 .. N -> OrderId]
      BY <3>1, LenProperties
    <3> QED
      BY <1>1, <3>1, <3>2 DEF Shape, ArrivedOnce
  <2>3. arrived' \in Injection(1 .. N, OrderId)
    BY <2>2 DEF Injection, IsInjective
  <2>4. Cardinality(1 .. N) <= Cardinality(OrderId)
    BY <2>1, <2>3, FS_Injection
  <2>5. N \in Nat /\ 1 <= N
    BY <1>4
  <2>6. Cardinality(1 .. N) = N
    BY <2>5, FS_Interval
  <2>7. Cardinality(OrderId) \in Nat
    BY <2>1, FS_CardinalityType
  <2> QED
    BY <2>4, <2>5, <2>6, <2>7
<1>6. RestingOrders[id] = Nobody
  BY <1>1, RestingIs
<1>7. ASSUME NEW r \in OrderId \ {id} PROVE RestingOrders'[r] = RestingOrders[r]
  <2>1. \A s \in Side, p \in Price : \A k \in 1 .. Len(levels[s][p]) :
           levels[s][p][k].id = r =>
              \E j \in 1 .. Len(levels'[s][p]) : levels'[s][p][j] = levels[s][p][k]
    BY <1>3
  <2>2. \A s \in Side, p \in Price : \A j \in 1 .. Len(levels'[s][p]) :
           levels'[s][p][j].id = r => \E k \in 1 .. Len(levels[s][p]) : levels[s][p][k].id = r
    <3> SUFFICES ASSUME NEW s \in Side, NEW p \in Price, NEW j \in 1 .. Len(levels'[s][p]),
                        levels'[s][p][j].id = r
                 PROVE  \E k \in 1 .. Len(levels[s][p]) : levels[s][p][k].id = r
      OBVIOUS
    <3>1. j \in 1 .. Len(levels[s][p])
      BY <1>3
    <3> QED
      BY <1>3, <3>1
  <2>3. \A n \in 1 .. Len(arrived) : n \in 1 .. Len(arrived') /\ arrived'[n] = arrived[n]
    BY <1>2, <1>4
  <2> QED
    BY ONLY <1>1, <2>1, <2>2, <2>3, SameOrder, r \in OrderId
<1>8. RestingOrders'[id] = EntryOf(side, price, qty, N)
  <2>1. BookFacts'
    BY <1>1, BookNext
  <2> DEFINE K == Len(levels[side][price]) + 1
  <2>2. K \in 1 .. Len(levels'[side][price]) /\ K \notin 1 .. Len(levels[side][price])
    BY <1>2, <1>4
  <2>3. levels'[side][price][K].id = id /\ levels'[side][price][K].qty = qty
    BY <1>3, <2>2
  <2>4. N \in 1 .. Len(arrived') /\ arrived'[N] = id
    BY <1>2, <1>4
  <2>5. Position(id)' = N
    BY <2>1, <2>4 DEF BookFacts
  <2> HIDE DEF N, K
  <2>6. RestingOrders'[id] = EntryOf(side, price, levels'[side][price][K].qty, Position(id)')
    BY <2>1, <2>2, <2>3 DEF BookFacts
  <2> QED
    BY <2>3, <2>5, <2>6
<1>9. RestingOrders' = [RestingOrders EXCEPT ![id] = EntryOf(side, price, qty, N)]
  <2>1. /\ RestingOrders = [r \in OrderId |-> RestingOrders[r]]
        /\ RestingOrders' = [r \in OrderId |-> RestingOrders'[r]]
    BY <1>1, BookNow, BookNext DEF BookFacts
  <2> QED
    BY <1>7, <1>8, <2>1
<1>10. ASSUME NEW j \in OrderId PROVE RestingOrders[j].arrival < N
  <2>1. CASE RestingOrders[j] = Nobody
    BY <1>4, <2>1 DEF Nobody
  <2>2. CASE RestingOrders[j] # Nobody
    <3>1. \E s, p, q : \E n \in 1 .. Len(arrived) : RestingOrders[j] = EntryOf(s, p, q, n)
      BY <1>1, <2>2, RestingIs
    <3> QED
      BY <1>4, <3>1 DEF EntryOf
  <2> QED
    BY <2>1, <2>2
<1>11. Priority!Crossing([side |-> side, limit |-> price]) = {}
  <2> SUFFICES ASSUME NEW j \in OrderId, RestingOrders[j].side = Opposite(side),
                      Priority!Within(price, side, RestingOrders[j].price)
               PROVE  FALSE
    BY DEF Priority!Crossing, Priority!Makers, Opposite, Priority!Opposite
  <2>1. RestingOrders[j] # Nobody
    BY Sides DEF Nobody, Side
  <2>2. PICK s \in Side, p \in Price : /\ \E q, n : RestingOrders[j] = EntryOf(s, p, q, n)
                                       /\ p \in Prices(s)
    BY <1>1, <2>1, RestingIs
  <2>3. s = Opposite(side) /\ RestingOrders[j].price = p
    BY <2>2 DEF EntryOf
  <2>4. ~ Reaches(side, price, p)
    BY <2>2, <2>3
  <2>5. p \in Int /\ price \in Int /\ price # 0
    BY Numbers
  <2> QED
    BY <2>3, <2>4, <2>5 DEF Reaches, Priority!Within, Priority!NoLimit, Side
<1>12. Priority!RestAs(id, side, price, qty, N)
  BY <1>9, <1>10, <1>11 DEF Priority!RestAs, EntryOf
<1> HIDE DEF N
<1> QED
  BY <1>5, <1>6, <1>12

LEMMA RestIsRestore ==
    ASSUME Inv, Inv', NEW id \in OrderId, NEW side \in Side, NEW price \in Price,
           NEW qty \in Quantity, rest(id, side, price, qty)
    PROVE  \E arrival \in 1 .. Cardinality(OrderId) :
              Priority!Restore(id, side, price, qty, arrival)
<1>1. /\ call = NoCall /\ call' = call /\ Push(side, price, id, qty) /\ qty \in Nat \ {0}
      /\ \A p \in Prices(Opposite(side)) : ~ Reaches(side, price, p)
  BY Numbers DEF rest, Inv, TradingHasBegun
<1>2. \A n \in 1 .. Len(arrived) : arrived[n] # id
  <2>1. arrived \in Seq(OrderId) /\ (\A i \in ToSet(arrived) : i < id)
    BY DEF rest, Inv, Typed
  <2>2. \A n \in 1 .. Len(arrived) : arrived[n] < id /\ arrived[n] \in Nat
    BY <2>1, HistoryType, Numbers DEF ToSet
  <2> QED
    BY <2>2, Numbers
<1>3. PICK arrival \in 1 .. Cardinality(OrderId) : Priority!RestAs(id, side, price, qty, arrival)
  BY <1>1, <1>2, PushIsRestAs
<1>4. RestingOrders[id] = Nobody
  BY <1>1, <1>2, PushIsRestAs
<1>5. Incoming = Priority!NoTaker /\ Incoming' = Incoming
  BY <1>1, IncomingIs, IncomingNext
<1>6. Priority!Restore(id, side, price, qty, arrival)
  BY <1>3, <1>4, <1>5, IncomingIs DEF Priority!Restore
<1> QED
  BY <1>6

LEMMA FinishIsRestOrLeave ==
    ASSUME Inv, Inv', Finish
    PROVE  (\E arrival \in 1 .. Cardinality(OrderId) : Priority!Rest(arrival)) \/ Priority!Leave
<1>1. /\ call # NoCall /\ call \in Call /\ call' = NoCall
      /\ call.id \in OrderId /\ call.side \in Side /\ call.remaining \in Nat
  BY CallFacts DEF Finish, Inv
<1>2. /\ Incoming = [id |-> call.id, side |-> call.side, limit |-> call.price,
                     left |-> call.remaining]
      /\ Incoming # Priority!NoTaker /\ Incoming' = Priority!NoTaker
  BY <1>1, IncomingIs, IncomingNext
<1>3. CASE call.remaining > 0 /\ call.kind = "gtc"
  <2>1. PICK side \in Side, price \in Price, id \in OrderId, qty \in Nat \ {0} :
           side = call.side /\ price = call.price /\ id = call.id /\ qty = call.remaining
    BY <1>1, <1>3 DEF Inv, LimitIsKnown
  <2>2. Push(side, price, id, qty)
    BY <1>3, <2>1 DEF Finish
  <2>3. \A n \in 1 .. Len(arrived) : arrived[n] # id
    BY <1>1, <2>1 DEF Inv, CallIsNew
  <2>4. \A p \in Prices(Opposite(side)) : ~ Reaches(side, price, p)
    BY <1>3, <2>1, NothingInReach
  <2>5. PICK arrival \in 1 .. Cardinality(OrderId) :
           Priority!RestAs(id, side, price, qty, arrival)
    BY <2>2, <2>3, <2>4, PushIsRestAs
  <2>6. price # 0
    BY Numbers
  <2>7. Priority!Rest(arrival)
    BY <1>2, <1>3, <2>1, <2>5, <2>6 DEF Priority!Rest, Priority!NoLimit
  <2> QED
    BY <2>7
<1>4. CASE ~ (call.remaining > 0 /\ call.kind = "gtc")
  <2>1. levels' = levels /\ arrived' = arrived
    BY <1>4 DEF Finish
  <2>2. RestingOrders' = RestingOrders
    BY <2>1 DEF RestingOrders, StandsAt, Level, Position
  <2> QED
    BY <1>2, <2>2 DEF Priority!Leave
<1> QED
  BY <1>3, <1>4

LEMMA RemoveIsWithdraw ==
    ASSUME Inv, Inv', NEW id \in OrderId, NEW side \in Side, NEW price \in Price,
           remove(id, side, price)
    PROVE  Priority!Withdraw(id)
<1>1. Typed /\ Shape /\ Typed' /\ Shape'
  BY DEF Inv
<1>2. call = NoCall /\ call' = NoCall /\ arrived' = arrived
  BY DEF remove
<1>3. PICK k \in 1 .. Len(levels[side][price]) :
         /\ levels[side][price][k].id = id
         /\ Removed(levels[side][price], k, levels'[side][price])
         /\ \A s \in Side, p \in Price : s # side \/ p # price => levels'[s][p] = levels[s][p]
  BY <1>1, RemoveRows
<1>4. /\ \A j \in 1 .. Len(levels'[side][price]) :
            \E l \in (1 .. Len(levels[side][price])) \ {k} :
               levels'[side][price][j] = levels[side][price][l]
      /\ \A l \in (1 .. Len(levels[side][price])) \ {k} : \E j \in 1 .. Len(levels'[side][price]) :
            levels'[side][price][j] = levels[side][price][l]
  <2>1. levels[side][price] \in Seq(Node) /\ levels'[side][price] \in Seq(Node)
    BY <1>1, RowType, RowTypeNext DEF Typed
  <2>2. PICK q \in Seq(Node), r \in Seq(Node) : q = levels[side][price] /\ r = levels'[side][price]
    BY <2>1
  <2>3. k \in 1 .. Len(q) /\ Removed(q, k, r)
    BY <1>3, <2>2
  <2>4. /\ Len(q) \in Nat /\ Len(r) \in Nat /\ Len(r) = Len(q) - 1
        /\ \A j \in 1 .. Len(r) : r[j] = q[IF j < k THEN j ELSE j + 1]
    BY <2>3, LenProperties DEF Removed
  <2>5. ASSUME NEW l \in (1 .. Len(q)) \ {k} PROVE \E j \in 1 .. Len(r) : r[j] = q[l]
    <3>1. CASE l < k
      BY <2>3, <2>4, <3>1
    <3>2. CASE l > k
      <4>1. l - 1 \in 1 .. Len(r) /\ ~ (l - 1 < k) /\ (l - 1) + 1 = l
        BY <2>3, <2>4, <3>2
      <4> QED
        BY <2>4, <4>1
    <3> QED
      BY <2>3, <2>4, <3>1, <3>2
  <2>6. ASSUME NEW j \in 1 .. Len(r) PROVE \E l \in (1 .. Len(q)) \ {k} : r[j] = q[l]
    <3>1. (IF j < k THEN j ELSE j + 1) \in (1 .. Len(q)) \ {k}
      BY <2>3, <2>4
    <3> QED
      BY <2>4, <3>1
  <2> QED
    BY <2>2, <2>5, <2>6
<1>5. ASSUME NEW s \in Side, NEW p \in Price, NEW j \in 1 .. Len(levels'[s][p])
      PROVE  /\ levels'[s][p][j].id # id
             /\ \E l \in 1 .. Len(levels[s][p]) : levels[s][p][l].id = levels'[s][p][j].id
  <2>1. CASE s = side /\ p = price
    <3>1. PICK l \in (1 .. Len(levels[side][price])) \ {k} :
             levels'[side][price][j] = levels[side][price][l]
      BY <1>4, <2>1
    <3>2. levels[side][price][l].id # levels[side][price][k].id
      BY <1>1, <3>1 DEF Shape, OnePlace
    <3> QED
      BY <1>3, <2>1, <3>1, <3>2
  <2>2. CASE ~ (s = side /\ p = price)
    <3>1. levels'[s][p] = levels[s][p]
      BY <1>3, <2>2
    <3>2. levels[s][p][j].id # levels[side][price][k].id
      BY <1>1, <2>2, <3>1 DEF Shape, OnePlace
    <3> QED
      BY <1>3, <3>1, <3>2
  <2> QED
    BY <2>1, <2>2
<1>6. RestingOrders'[id] = Nobody
  <2>1. BookFacts'
    BY <1>1, BookNext
  <2> QED
    BY <1>5, <2>1 DEF BookFacts
<1>7. ASSUME NEW r \in OrderId \ {id} PROVE RestingOrders'[r] = RestingOrders[r]
  <2>1. \A s \in Side, p \in Price : \A l \in 1 .. Len(levels[s][p]) :
           levels[s][p][l].id = r =>
              \E j \in 1 .. Len(levels'[s][p]) : levels'[s][p][j] = levels[s][p][l]
    <3> SUFFICES ASSUME NEW s \in Side, NEW p \in Price, NEW l \in 1 .. Len(levels[s][p]),
                        levels[s][p][l].id = r
                 PROVE  \E j \in 1 .. Len(levels'[s][p]) : levels'[s][p][j] = levels[s][p][l]
      OBVIOUS
    <3>1. CASE s = side /\ p = price
      <4>1. l # k
        BY <1>3, <3>1
      <4> QED
        BY <1>4, <3>1, <4>1
    <3>2. CASE ~ (s = side /\ p = price)
      BY <1>3, <3>2
    <3> QED
      BY <3>1, <3>2
  <2>2. \A s \in Side, p \in Price : \A j \in 1 .. Len(levels'[s][p]) :
           levels'[s][p][j].id = r => \E l \in 1 .. Len(levels[s][p]) : levels[s][p][l].id = r
    <3> SUFFICES ASSUME NEW s \in Side, NEW p \in Price, NEW j \in 1 .. Len(levels'[s][p]),
                        levels'[s][p][j].id = r
                 PROVE  \E l \in 1 .. Len(levels[s][p]) : levels[s][p][l].id = r
      OBVIOUS
    <3>1. PICK l \in 1 .. Len(levels[s][p]) : levels[s][p][l].id = levels'[s][p][j].id
      BY <1>5
    <3> QED
      BY ONLY <3>1, levels'[s][p][j].id = r
  <2>3. \A n \in 1 .. Len(arrived) : n \in 1 .. Len(arrived') /\ arrived'[n] = arrived[n]
    BY <1>2
  <2> QED
    BY ONLY <1>1, <2>1, <2>2, <2>3, SameOrder, r \in OrderId
<1>8. RestingOrders' = [RestingOrders EXCEPT ![id] = Nobody]
  <2>1. /\ RestingOrders = [r \in OrderId |-> RestingOrders[r]]
        /\ RestingOrders' = [r \in OrderId |-> RestingOrders'[r]]
    BY <1>1, BookNow, BookNext DEF BookFacts
  <2> QED
    BY <1>6, <1>7, <2>1
<1>9. Incoming = Priority!NoTaker /\ Incoming' = Priority!NoTaker
  BY <1>2, IncomingIs, IncomingNext
<1> QED
  BY <1>8, <1>9, IncomingIs DEF Priority!Withdraw

LEMMA StepIsPriority == Inv /\ Inv' /\ [Next]_vars => [Priority!Next]_(Priority!vars)
<1> SUFFICES ASSUME Inv, Inv', [Next]_vars PROVE [Priority!Next]_(Priority!vars)
  OBVIOUS
<1>1. ASSUME NEW id \in OrderId, NEW side \in Side, NEW price \in Price, NEW qty \in Quantity,
             rest(id, side, price, qty)
      PROVE  Priority!Next
  BY <1>1, RestIsRestore DEF Priority!Next, Side, Priority!Side
<1>2. ASSUME NEW id \in OrderId, NEW side \in Side, NEW price \in Price, remove(id, side, price)
      PROVE  Priority!Next
  BY <1>2, RemoveIsWithdraw DEF Priority!Next
<1>3. ASSUME NEW id \in OrderId, NEW side \in Side, NEW price \in Price, NEW qty \in Quantity,
             NEW kind \in Kind \ {"market"}, add_limit(id, side, kind, price, qty)
      PROVE  Priority!Next
  <2>1. Priority!Arrive(id, side, price, qty)
    BY <1>3, SubmitIsArrive DEF add_limit
  <2> QED
    BY <2>1 DEF Priority!Next, Side, Priority!Side
<1>4. ASSUME NEW id \in OrderId, NEW side \in Side, NEW qty \in Quantity, NEW budget,
             match_market(id, side, qty, budget)
      PROVE  Priority!Next
  <2>1. Priority!Arrive(id, side, 0, qty)
    BY <1>4, SubmitIsArrive DEF match_market
  <2>2. 0 \in Price \cup {Priority!NoLimit}
    BY DEF Priority!NoLimit
  <2> QED
    BY <2>1, <2>2 DEF Priority!Next, Side, Priority!Side
<1>5. CASE FillFront
  BY <1>5, FillIsTrade DEF Priority!Next
<1>6. CASE Finish
  BY <1>6, FinishIsRestOrLeave DEF Priority!Next
<1>7. CASE UNCHANGED vars
  <2>1. RestingOrders' = RestingOrders /\ Incoming' = Incoming
    BY <1>7 DEF vars, RestingOrders, StandsAt, Level, Position, Incoming
  <2> QED
    BY <2>1 DEF Priority!vars
<1> QED
  BY <1>1, <1>2, <1>3, <1>4, <1>5, <1>6, <1>7 DEF Next, Side

LEMMA InitIsPriority == Init => Priority!Init
<1> SUFFICES ASSUME Init PROVE Priority!Init
  OBVIOUS
<1>1. Typed /\ Shape /\ call = NoCall
  BY InitInv DEF Inv, Init
<1>2. \A s \in Side, p \in Price : levels[s][p] = <<>>
  BY DEF Init
<1>3. \A i \in OrderId : RestingOrders[i] = Nobody
  BY <1>1, <1>2, BookNow DEF BookFacts
<1>4. RestingOrders = [i \in OrderId |-> RestingOrders[i]]
  BY <1>1, BookNow DEF BookFacts
<1> QED
  BY <1>1, <1>3, <1>4, IncomingIs DEF Priority!Init

\* The Python venue keeps the venue's promise: every step of its loops is one of
\* PriceTimePriority.
THEOREM ImplementsPriceTimePriority == Spec => KeepsPriority
BY InitIsPriority, StepIsPriority, AlwaysInv, PTL DEF Spec, KeepsPriority, Priority!Spec
=============================================================================
