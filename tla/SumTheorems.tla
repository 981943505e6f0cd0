---------------------------- MODULE SumTheorems ----------------------------
(***************************************************************************)
(* What the totals of the models are: Functions!SumFunctionOnSet over a    *)
(* finite set, which chooses the elements in an order nobody knows.  The   *)
(* theorems say that the order does not matter and how a sum follows       *)
(* changes of the set and of the function.  At the end, extremes and       *)
(* images of finite sets, and lists that lose one element.                 *)
(*                                                                         *)
(* Induction here is over the finite subsets, by a smallest                *)
(* counterexample (WFMin), as the library's induction theorems have an     *)
(* operator for a parameter.                                               *)
(***************************************************************************)
EXTENDS Integers, SequencesExt, FiniteSetTheorems, SequenceTheorems, TLAPS

\* The equation by which a fold over the subsets of S is defined.
Folds(g, f, S) ==
    g = [s \in SUBSET S |->
            IF s = {} THEN 0
            ELSE LET x == CHOOSE x \in s : TRUE IN f[x] + g[s \ {x}]]

\* A smallest member of a set of finite sets.
LEMMA SmallestSet ==
    ASSUME NEW S, IsFiniteSet(S), NEW C \in SUBSET SUBSET S, C # {}
    PROVE  \E s \in C : \A t \in C : t \subseteq s => t = s
<1>1. IsWellFoundedOn(StrictSubsetOrdering(S), FiniteSubsetsOf(S))
  BY FS_StrictSubsetOrderingWellFounded
<1>2. FiniteSubsetsOf(S) = SUBSET S
  BY FS_FiniteSubsetsOfFinite
<1>3. PICK s \in C : \A t \in C : ~ (<<t, s>> \in StrictSubsetOrdering(S))
  BY <1>1, <1>2, WFMin
<1>4. \A t \in C : t \subseteq s => t = s
  BY <1>3 DEF StrictSubsetOrdering
<1> QED
  BY <1>4

\* What the equation says of one set.
LEMMA FoldStep ==
    ASSUME NEW S, NEW f, NEW g, Folds(g, f, S), NEW s \in SUBSET S
    PROVE  LET x == CHOOSE x \in s : TRUE
           IN  /\ s = {} => g[s] = 0
               /\ s # {} => x \in s /\ g[s] = f[x] + g[s \ {x}]
<1>1. g[s] = IF s = {} THEN 0 ELSE LET x == CHOOSE x \in s : TRUE IN f[x] + g[s \ {x}]
  BY DEF Folds
<1> QED
  BY <1>1

\* Two folds agree where both are defined.
LEMMA FoldsAgree ==
    ASSUME NEW S, NEW T, NEW f, NEW g, NEW h, Folds(g, f, S), Folds(h, f, T),
           NEW s \in SUBSET (S \cap T), IsFiniteSet(s)
    PROVE  g[s] = h[s]
<1> DEFINE C == {t \in SUBSET s : g[t] # h[t]}
<1>1. SUFFICES ASSUME C # {} PROVE FALSE
  OBVIOUS
<1>2. PICK t \in C : \A u \in C : u \subseteq t => u = t
  <2>1. C \in SUBSET SUBSET s
    OBVIOUS
  <2> HIDE DEF C
  <2> QED
    BY <1>1, <2>1, SmallestSet
<1> DEFINE x == CHOOSE x \in t : TRUE
<1>3. t \in SUBSET S /\ t \in SUBSET T
  OBVIOUS
<1>4. t # {}
  BY <1>3, FoldStep
<1>5. x \in t /\ g[t] = f[x] + g[t \ {x}] /\ h[t] = f[x] + h[t \ {x}]
  BY <1>3, <1>4, FoldStep
<1>6. g[t \ {x}] = h[t \ {x}]
  BY <1>2, <1>5
<1> QED
  BY <1>2, <1>5, <1>6

\* The equation has a solution: the value at a set is that of a solution for its subsets.
LEMMA FoldExists ==
    ASSUME NEW S, IsFiniteSet(S), NEW f
    PROVE  \E g : Folds(g, f, S)
<1> DEFINE C == {T \in SUBSET S : ~ \E g : Folds(g, f, T)}
           G(s) == CHOOSE g : Folds(g, f, s)
<1>1. SUFFICES ASSUME C # {} PROVE FALSE
  OBVIOUS
<1>2. PICK T \in C : \A U \in C : U \subseteq T => U = T
  <2>1. C \in SUBSET SUBSET S
    OBVIOUS
  <2> HIDE DEF C
  <2> QED
    BY <1>1, <2>1, SmallestSet
<1>3. \A U \in SUBSET T : U # T => Folds(G(U), f, U) /\ IsFiniteSet(U)
  BY <1>2, FS_Subset
<1> DEFINE x(s) == CHOOSE y \in s : TRUE
           V(s) == IF s = {} THEN 0 ELSE f[x(s)] + G(s \ {x(s)})[s \ {x(s)}]
           h == [s \in SUBSET T |-> V(s)]
<1>4. \A s \in SUBSET T : s # {} => x(s) \in s /\ s \ {x(s)} \in SUBSET T /\ s \ {x(s)} # T
  OBVIOUS
<1> HIDE DEF x, G
<1>5. ASSUME NEW u \in SUBSET T, u # T PROVE h[u] = G(u)[u]
  <2>1. Folds(G(u), f, u)
    BY <1>3, <1>5
  <2>2. CASE u = {}
    BY <2>1, <2>2, FoldStep
  <2>3. CASE u # {}
    <3>1. x(u) \in u /\ G(u)[u] = f[x(u)] + G(u)[u \ {x(u)}]
      BY <2>1, <2>3, FoldStep DEF x
    <3>2. Folds(G(u \ {x(u)}), f, u \ {x(u)}) /\ IsFiniteSet(u \ {x(u)})
      BY <1>3, <1>4, <2>3
    <3>3. G(u)[u \ {x(u)}] = G(u \ {x(u)})[u \ {x(u)}]
      BY <2>1, <3>1, <3>2, FoldsAgree
    <3> QED
      BY <2>3, <3>1, <3>3
  <2> QED
    BY <2>2, <2>3
<1>6. \A s \in SUBSET T : s # {} => h[s] = f[x(s)] + h[s \ {x(s)}]
  BY <1>4, <1>5
<1>7. \A s \in SUBSET T : s = {} => h[s] = 0
  OBVIOUS
<1>8. \A s \in SUBSET T : h[s] = IF s = {} THEN 0 ELSE f[x(s)] + h[s \ {x(s)}]
  BY <1>6, <1>7
<1>9. h = [s \in SUBSET T |-> IF s = {} THEN 0 ELSE f[x(s)] + h[s \ {x(s)}]]
  <2>1. DOMAIN h = SUBSET T /\ h = [s \in SUBSET T |-> h[s]]
    OBVIOUS
  <2> HIDE DEF h
  <2> QED
    BY <1>8, <2>1
<1>10. Folds(h, f, T)
  BY <1>9 DEF Folds, x
<1> QED
  BY <1>2, <1>10

-----------------------------------------------------------------------------
\* The library's sum is a fold; everything below rests on this and on nothing else of it.
LEMMA SumIsFold ==
    ASSUME NEW S, IsFiniteSet(S), NEW f
    PROVE  \E g : Folds(g, f, S) /\ SumFunctionOnSet(f, S) = g[S]
<1> DEFINE g == CHOOSE g : Folds(g, f, S)
<1>1. Folds(g, f, S)
  BY FoldExists
<1>2. SumFunctionOnSet(f, S) = g[S]
  BY DEF SumFunctionOnSet, FoldFunctionOnSet, MapThenFoldSet, Folds
<1> QED
  BY <1>1, <1>2

\* The sum of nothing.
THEOREM SumEmpty == \A f : SumFunctionOnSet(f, {}) = 0
<1> SUFFICES ASSUME NEW f PROVE SumFunctionOnSet(f, {}) = 0
  OBVIOUS
<1>1. IsFiniteSet({})
  BY FS_EmptySet
<1>2. PICK g : Folds(g, f, {}) /\ SumFunctionOnSet(f, {}) = g[{}]
  BY <1>1, SumIsFold
<1> QED
  BY <1>2, FoldStep

\* The element that is chosen first can be taken out.
LEMMA SumOfChosen ==
    ASSUME NEW S, IsFiniteSet(S), NEW f, S # {}
    PROVE  \E x \in S : SumFunctionOnSet(f, S) = f[x] + SumFunctionOnSet(f, S \ {x})
<1> DEFINE x == CHOOSE x \in S : TRUE
<1>1. PICK g : Folds(g, f, S) /\ SumFunctionOnSet(f, S) = g[S]
  BY SumIsFold
<1>2. x \in S /\ g[S] = f[x] + g[S \ {x}]
  BY <1>1, FoldStep
<1>3. IsFiniteSet(S \ {x})
  BY FS_Subset
<1> HIDE DEF x
<1>4. PICK h : Folds(h, f, S \ {x}) /\ SumFunctionOnSet(f, S \ {x}) = h[S \ {x}]
  BY <1>3, SumIsFold
<1>5. g[S \ {x}] = h[S \ {x}]
  BY <1>1, <1>3, <1>4, FoldsAgree
<1> QED
  BY <1>1, <1>2, <1>4, <1>5

\* Sums of integers are integers.
THEOREM SumType ==
    ASSUME NEW S, IsFiniteSet(S), NEW f, \A x \in S : f[x] \in Int
    PROVE  SumFunctionOnSet(f, S) \in Int
<1> DEFINE C == {T \in SUBSET S : SumFunctionOnSet(f, T) \notin Int}
<1>1. SUFFICES ASSUME C # {} PROVE FALSE
  OBVIOUS
<1>2. PICK T \in C : \A U \in C : U \subseteq T => U = T
  <2>1. C \in SUBSET SUBSET S
    OBVIOUS
  <2> HIDE DEF C
  <2> QED
    BY <1>1, <2>1, SmallestSet
<1>3. IsFiniteSet(T) /\ T # {}
  <2>1. IsFiniteSet(T)
    BY FS_Subset
  <2>2. T # {}
    BY SumEmpty
  <2> QED
    BY <2>1, <2>2
<1>4. PICK x \in T : SumFunctionOnSet(f, T) = f[x] + SumFunctionOnSet(f, T \ {x})
  BY <1>3, SumOfChosen
<1>5. SumFunctionOnSet(f, T \ {x}) \in Int
  BY <1>2
<1> QED
  BY <1>4, <1>5

\* Any element can be taken out: the order of the summands does not matter.
THEOREM SumRemove ==
    ASSUME NEW S, IsFiniteSet(S), NEW f, \A x \in S : f[x] \in Int, NEW y \in S
    PROVE  SumFunctionOnSet(f, S) = f[y] + SumFunctionOnSet(f, S \ {y})
<1> DEFINE C == {T \in SUBSET S :
                    \E z \in T : SumFunctionOnSet(f, T) # f[z] + SumFunctionOnSet(f, T \ {z})}
<1>1. SUFFICES ASSUME C # {} PROVE FALSE
  OBVIOUS
<1>2. PICK T \in C : \A U \in C : U \subseteq T => U = T
  <2>1. C \in SUBSET SUBSET S
    OBVIOUS
  <2> HIDE DEF C
  <2> QED
    BY <1>1, <2>1, SmallestSet
<1>3. PICK z \in T : SumFunctionOnSet(f, T) # f[z] + SumFunctionOnSet(f, T \ {z})
  OBVIOUS
<1>4. IsFiniteSet(T) /\ T # {}
  BY FS_Subset
<1>5. PICK x \in T : SumFunctionOnSet(f, T) = f[x] + SumFunctionOnSet(f, T \ {x})
  BY <1>4, SumOfChosen
<1>6. x # z
  BY <1>3, <1>5
<1>7. \A U \in SUBSET T : U # T =>
         \A u \in U : SumFunctionOnSet(f, U) = f[u] + SumFunctionOnSet(f, U \ {u})
  BY <1>2
<1>13. \A u \in T : f[u] \in Int
  OBVIOUS
<1> HIDE DEF C
<1>8. SumFunctionOnSet(f, T \ {x}) = f[z] + SumFunctionOnSet(f, (T \ {x}) \ {z})
  BY <1>6, <1>7
<1>9. SumFunctionOnSet(f, T \ {z}) = f[x] + SumFunctionOnSet(f, (T \ {z}) \ {x})
  BY <1>6, <1>7
<1>10. (T \ {x}) \ {z} = (T \ {z}) \ {x}
  OBVIOUS
<1>11. SumFunctionOnSet(f, (T \ {x}) \ {z}) \in Int
  <2>1. IsFiniteSet((T \ {x}) \ {z})
    BY <1>4, FS_Subset
  <2> QED
    BY <1>13, <2>1, SumType
<1>12. f[x] \in Int /\ f[z] \in Int
  BY <1>13
<1> DEFINE rest == SumFunctionOnSet(f, (T \ {x}) \ {z})
<1>14. SumFunctionOnSet(f, T) = f[x] + (f[z] + rest)
  BY <1>5, <1>8
<1>15. SumFunctionOnSet(f, T \ {z}) = f[x] + rest
  BY <1>9, <1>10
<1>16. f[x] + (f[z] + rest) = f[z] + (f[x] + rest)
  BY <1>11, <1>12
<1> QED
  BY <1>3, <1>14, <1>15, <1>16

\* An element more.
THEOREM SumAdd ==
    ASSUME NEW S, IsFiniteSet(S), NEW f, NEW y, \A x \in S \cup {y} : f[x] \in Int, y \notin S
    PROVE  SumFunctionOnSet(f, S \cup {y}) = SumFunctionOnSet(f, S) + f[y]
<1>1. IsFiniteSet(S \cup {y}) /\ (S \cup {y}) \ {y} = S
  BY FS_AddElement
<1>2. SumFunctionOnSet(f, S \cup {y}) = f[y] + SumFunctionOnSet(f, S)
  BY <1>1, SumRemove
<1>3. SumFunctionOnSet(f, S) \in Int /\ f[y] \in Int
  BY SumType
<1> QED
  BY <1>2, <1>3

\* Functions that agree on the set have the same sum.
THEOREM SumEqual ==
    ASSUME NEW S, IsFiniteSet(S), NEW f, NEW g, \A x \in S : f[x] \in Int /\ g[x] = f[x]
    PROVE  SumFunctionOnSet(g, S) = SumFunctionOnSet(f, S)
<1> DEFINE C == {T \in SUBSET S : SumFunctionOnSet(g, T) # SumFunctionOnSet(f, T)}
<1>1. SUFFICES ASSUME C # {} PROVE FALSE
  OBVIOUS
<1>2. PICK T \in C : \A U \in C : U \subseteq T => U = T
  <2>1. C \in SUBSET SUBSET S
    OBVIOUS
  <2> HIDE DEF C
  <2> QED
    BY <1>1, <2>1, SmallestSet
<1>3. IsFiniteSet(T) /\ T # {}
  BY FS_Subset, SumEmpty
<1>4. PICK x \in T : SumFunctionOnSet(f, T) = f[x] + SumFunctionOnSet(f, T \ {x})
  BY <1>3, SumOfChosen
<1>5. SumFunctionOnSet(g, T) = g[x] + SumFunctionOnSet(g, T \ {x})
  BY <1>3, SumRemove
<1>6. SumFunctionOnSet(g, T \ {x}) = SumFunctionOnSet(f, T \ {x})
  BY <1>2
<1> QED
  BY <1>2, <1>4, <1>5, <1>6

\* One summand changes.
THEOREM SumUpdate ==
    ASSUME NEW S, IsFiniteSet(S), NEW f, NEW g, NEW y \in S,
           \A x \in S : f[x] \in Int /\ g[x] \in Int,
           \A x \in S : x # y => g[x] = f[x]
    PROVE  SumFunctionOnSet(g, S) = SumFunctionOnSet(f, S) + g[y] - f[y]
<1>1. IsFiniteSet(S \ {y})
  BY FS_Subset
<1>2. SumFunctionOnSet(g, S \ {y}) = SumFunctionOnSet(f, S \ {y})
  BY <1>1, SumEqual
<1>3. SumFunctionOnSet(f, S) = f[y] + SumFunctionOnSet(f, S \ {y})
  BY SumRemove
<1>4. SumFunctionOnSet(g, S) = g[y] + SumFunctionOnSet(g, S \ {y})
  BY SumRemove
<1>5. SumFunctionOnSet(f, S \ {y}) \in Int
  BY <1>1, SumType
<1> QED
  BY <1>2, <1>3, <1>4, <1>5

\* A sum after its set has lost an element, or gained one, and its function has been rebuilt.
THEOREM SumWithout ==
    ASSUME NEW S, IsFiniteSet(S), NEW f, NEW g, NEW y \in S, \A x \in S : f[x] \in Int,
           \A x \in S : x # y => g[x] = f[x]
    PROVE  SumFunctionOnSet(g, S \ {y}) = SumFunctionOnSet(f, S) - f[y]
<1>1. IsFiniteSet(S \ {y})
  BY FS_Subset
<1>2. SumFunctionOnSet(g, S \ {y}) = SumFunctionOnSet(f, S \ {y})
  BY <1>1, SumEqual
<1>3. SumFunctionOnSet(f, S) = f[y] + SumFunctionOnSet(f, S \ {y})
  BY SumRemove
<1>4. SumFunctionOnSet(f, S \ {y}) \in Int
  BY <1>1, SumType
<1> QED
  BY <1>2, <1>3, <1>4

THEOREM SumWith ==
    ASSUME NEW S, IsFiniteSet(S), NEW f, NEW g, NEW y \in S, \A x \in S : g[x] \in Int,
           \A x \in S : x # y => g[x] = f[x]
    PROVE  SumFunctionOnSet(g, S) = SumFunctionOnSet(f, S \ {y}) + g[y]
<1>1. SumFunctionOnSet(g, S) = g[y] + SumFunctionOnSet(g, S \ {y})
  BY SumRemove
<1>2. IsFiniteSet(S \ {y}) /\ \A x \in S \ {y} : g[x] \in Int /\ f[x] = g[x]
  BY FS_Subset
<1>3. SumFunctionOnSet(f, S \ {y}) = SumFunctionOnSet(g, S \ {y})
  BY <1>2, SumEqual
<1>4. SumFunctionOnSet(g, S \ {y}) \in Int
  BY <1>2, SumType
<1> QED
  BY <1>1, <1>3, <1>4

\* Sums of smaller summands are smaller.
THEOREM SumBounded ==
    ASSUME NEW S, IsFiniteSet(S), NEW f, NEW g,
           \A x \in S : f[x] \in Int /\ g[x] \in Int /\ f[x] <= g[x]
    PROVE  SumFunctionOnSet(f, S) <= SumFunctionOnSet(g, S)
<1> DEFINE C == {T \in SUBSET S : ~(SumFunctionOnSet(f, T) <= SumFunctionOnSet(g, T))}
<1>1. SUFFICES ASSUME C # {} PROVE FALSE
  OBVIOUS
<1>2. PICK T \in C : \A U \in C : U \subseteq T => U = T
  <2>1. C \in SUBSET SUBSET S
    OBVIOUS
  <2> HIDE DEF C
  <2> QED
    BY <1>1, <2>1, SmallestSet
<1>3. IsFiniteSet(T) /\ T # {}
  <2>1. IsFiniteSet(T)
    BY FS_Subset
  <2>2. T # {}
    BY SumEmpty
  <2> QED
    BY <2>1, <2>2
<1>4. PICK x \in T : SumFunctionOnSet(f, T) = f[x] + SumFunctionOnSet(f, T \ {x})
  BY <1>3, SumOfChosen
<1>5. SumFunctionOnSet(g, T) = g[x] + SumFunctionOnSet(g, T \ {x})
  BY <1>3, SumRemove
<1>6. SumFunctionOnSet(f, T \ {x}) <= SumFunctionOnSet(g, T \ {x})
  BY <1>2
<1>7. SumFunctionOnSet(f, T \ {x}) \in Int /\ SumFunctionOnSet(g, T \ {x}) \in Int
  <2>1. IsFiniteSet(T \ {x})
    BY <1>3, FS_Subset
  <2> QED
    BY <2>1, SumType
<1>8. f[x] \in Int /\ g[x] \in Int /\ f[x] <= g[x]
  OBVIOUS
<1>9. ~(SumFunctionOnSet(f, T) <= SumFunctionOnSet(g, T))
  OBVIOUS
<1> QED
  BY <1>4, <1>5, <1>6, <1>7, <1>8, <1>9

-----------------------------------------------------------------------------
\* A finite set of integers has a largest and a smallest element.
THEOREM LargestExists ==
    ASSUME NEW S, \A y \in S : y \in Int, IsFiniteSet(S), S # {}
    PROVE  \E x \in S : \A y \in S : x >= y
<1> DEFINE Above(x) == {y \in S : y >= x}
           C == {Above(x) : x \in S}
<1>1. PICK T \in C : \A U \in C : U \subseteq T => U = T
  <2>1. C \in SUBSET SUBSET S
    OBVIOUS
  <2>2. C # {}
    OBVIOUS
  <2> HIDE DEF C
  <2> QED
    BY <2>1, <2>2, SmallestSet
<1>2. PICK x \in S : T = Above(x)
  OBVIOUS
<1>3. ASSUME NEW y \in S, ~(x >= y) PROVE FALSE
  <2>0. \A z \in S : z \in Int
    OBVIOUS
  <2>1. Above(y) \subseteq Above(x)
    BY <1>3, <2>0
  <2>2. x \notin Above(y) /\ x \in Above(x)
    BY <1>3, <2>0
  <2>3. Above(y) \in C
    OBVIOUS
  <2> QED
    BY <1>1, <1>2, <2>1, <2>2, <2>3
<1> QED
  BY <1>3

THEOREM SmallestExists ==
    ASSUME NEW S, \A y \in S : y \in Int, IsFiniteSet(S), S # {}
    PROVE  \E x \in S : \A y \in S : x <= y
<1> DEFINE Below(x) == {y \in S : y <= x}
           C == {Below(x) : x \in S}
<1>1. PICK T \in C : \A U \in C : U \subseteq T => U = T
  <2>1. C \in SUBSET SUBSET S
    OBVIOUS
  <2>2. C # {}
    OBVIOUS
  <2> HIDE DEF C
  <2> QED
    BY <2>1, <2>2, SmallestSet
<1>2. PICK x \in S : T = Below(x)
  OBVIOUS
<1>3. ASSUME NEW y \in S, ~(x <= y) PROVE FALSE
  <2>0. \A z \in S : z \in Int
    OBVIOUS
  <2>1. Below(y) \subseteq Below(x)
    BY <1>3, <2>0
  <2>2. x \notin Below(y) /\ x \in Below(x)
    BY <1>3, <2>0
  <2>3. Below(y) \in C
    OBVIOUS
  <2> QED
    BY <1>1, <1>2, <2>1, <2>2, <2>3
<1> QED
  BY <1>3

\* The values of a function on a finite set are finitely many.
THEOREM ImageFinite ==
    ASSUME NEW S, IsFiniteSet(S), NEW f
    PROVE  IsFiniteSet({f[x] : x \in S})
<1> DEFINE T == {f[x] : x \in S}
           g == [x \in S |-> f[x]]
<1>1. g \in Surjection(S, T)
  BY DEF Surjection
<1> HIDE DEF g, T
<1>2. IsFiniteSet(T)
  BY <1>1, FS_Surjection
<1> QED
  BY <1>2 DEF T

\* So a sequence has finitely many elements.
THEOREM ElementsFinite ==
    ASSUME NEW q, Len(q) \in Nat
    PROVE  IsFiniteSet({q[k] : k \in 1 .. Len(q)})
<1>1. IsFiniteSet(1 .. Len(q))
  BY FS_Interval
<1> QED
  BY <1>1, ImageFinite

-----------------------------------------------------------------------------
\* Renaming the elements one to one does not change a sum.
THEOREM SumRenamed ==
    ASSUME NEW S, IsFiniteSet(S), NEW f, NEW g, NEW h,
           \A x \in S : g[x] \in Int /\ g[x] = f[h[x]],
           \A x, y \in S : h[x] = h[y] => x = y
    PROVE  SumFunctionOnSet(g, S) = SumFunctionOnSet(f, {h[x] : x \in S})
<1> DEFINE C == {T \in SUBSET S : SumFunctionOnSet(g, T) # SumFunctionOnSet(f, {h[x] : x \in T})}
<1>1. SUFFICES ASSUME C # {} PROVE FALSE
  OBVIOUS
<1>2. PICK T \in C : \A U \in C : U \subseteq T => U = T
  <2>1. C \in SUBSET SUBSET S
    OBVIOUS
  <2> HIDE DEF C
  <2> QED
    BY <1>1, <2>1, SmallestSet
<1>3. IsFiniteSet(T) /\ T # {}
  <2>1. IsFiniteSet(T)
    BY FS_Subset
  <2>2. T # {}
    <3>1. {h[x] : x \in {}} = {}
      OBVIOUS
    <3> QED
      BY <3>1, SumEmpty
  <2> QED
    BY <2>1, <2>2
<1>4. PICK y \in T : SumFunctionOnSet(g, T) = g[y] + SumFunctionOnSet(g, T \ {y})
  BY <1>3, SumOfChosen
<1> DEFINE I == {h[x] : x \in T}
<1>5. {h[x] : x \in T \ {y}} = I \ {h[y]}
  OBVIOUS
<1>6. SumFunctionOnSet(g, T \ {y}) = SumFunctionOnSet(f, I \ {h[y]})
  <2>1. T \ {y} \notin C
    BY <1>2
  <2> QED
    BY <1>5, <2>1
<1>7. IsFiniteSet(I)
  BY <1>3, ImageFinite
<1>8. \A z \in I : f[z] \in Int
  OBVIOUS
<1>9. SumFunctionOnSet(f, I) = f[h[y]] + SumFunctionOnSet(f, I \ {h[y]})
  <2>1. h[y] \in I
    OBVIOUS
  <2> HIDE DEF I
  <2> QED
    BY <1>7, <1>8, <2>1, SumRemove
<1>10. SumFunctionOnSet(g, T) # SumFunctionOnSet(f, I)
  OBVIOUS
<1>11. g[y] = f[h[y]]
  OBVIOUS
<1> QED
  BY <1>4, <1>6, <1>9, <1>10, <1>11

\* A sum over a sequence without its first element.
THEOREM SumShift ==
    ASSUME NEW n \in Nat, n > 0, NEW f, NEW g,
           \A k \in 1 .. n : f[k] \in Int,
           \A k \in 1 .. n - 1 : g[k] = f[k + 1]
    PROVE  SumFunctionOnSet(g, 1 .. n - 1) = SumFunctionOnSet(f, 1 .. n) - f[1]
<1> DEFINE S == 1 .. n - 1
           h == [k \in S |-> k + 1]
<1>1. IsFiniteSet(S) /\ IsFiniteSet(1 .. n)
  BY FS_Interval
<1>2. /\ \A k \in S : g[k] \in Int /\ g[k] = f[h[k]]
      /\ \A j, k \in S : h[j] = h[k] => j = k
  OBVIOUS
<1>3. {h[k] : k \in S} = (1 .. n) \ {1}
  <2>1. \A k \in (1 .. n) \ {1} : k - 1 \in S /\ h[k - 1] = k
    OBVIOUS
  <2>2. \A k \in S : h[k] \in (1 .. n) \ {1}
    OBVIOUS
  <2> QED
    BY <2>1, <2>2
<1> HIDE DEF h, S
<1>4. SumFunctionOnSet(g, S) = SumFunctionOnSet(f, (1 .. n) \ {1})
  <2>1. SumFunctionOnSet(g, S) = SumFunctionOnSet(f, {h[k] : k \in S})
    BY <1>1, <1>2, SumRenamed
  <2> QED
    BY <1>3, <2>1
<1>5. SumFunctionOnSet(f, 1 .. n) = f[1] + SumFunctionOnSet(f, (1 .. n) \ {1})
  <2>1. 1 \in 1 .. n
    OBVIOUS
  <2> QED
    BY <1>1, <2>1, SumRemove
<1>6. SumFunctionOnSet(f, (1 .. n) \ {1}) \in Int
  <2>1. IsFiniteSet((1 .. n) \ {1})
    BY <1>1, FS_Subset
  <2> QED
    BY <2>1, SumType
<1>7. f[1] \in Int
  OBVIOUS
<1> QED
  BY <1>4, <1>5, <1>6, <1>7 DEF S

\* A sum over a sequence with one element more.
THEOREM SumAppended ==
    ASSUME NEW n \in Nat, NEW f, NEW g,
           \A k \in 1 .. n : f[k] \in Int /\ g[k] = f[k], g[n + 1] \in Int
    PROVE  SumFunctionOnSet(g, 1 .. n + 1) = SumFunctionOnSet(f, 1 .. n) + g[n + 1]
<1> DEFINE S == 1 .. n + 1
           y == n + 1
<1>1. IsFiniteSet(S) /\ y \in S /\ S \ {y} = 1 .. n
  <2>1. IsFiniteSet(S)
    BY FS_Interval
  <2>2. y \in S /\ S \ {y} = 1 .. n
    OBVIOUS
  <2> QED
    BY <2>1, <2>2
<1>2. (\A x \in S : g[x] \in Int) /\ (\A x \in S : x # y => g[x] = f[x]) /\ g[y] \in Int
  OBVIOUS
<1> HIDE DEF S, y
<1>3. SumFunctionOnSet(g, S) = SumFunctionOnSet(f, S \ {y}) + g[y]
  BY <1>1, <1>2, SumWith
<1> QED
  BY <1>1, <1>3 DEF S, y

\* Nothing negative adds up to anything negative.
THEOREM SumNatural ==
    ASSUME NEW S, IsFiniteSet(S), NEW f, \A x \in S : f[x] \in Nat
    PROVE  SumFunctionOnSet(f, S) \in Nat
<1> DEFINE C == {T \in SUBSET S : SumFunctionOnSet(f, T) \notin Nat}
<1>1. SUFFICES ASSUME C # {} PROVE FALSE
  OBVIOUS
<1>2. PICK T \in C : \A U \in C : U \subseteq T => U = T
  <2>1. C \in SUBSET SUBSET S
    OBVIOUS
  <2> HIDE DEF C
  <2> QED
    BY <1>1, <2>1, SmallestSet
<1>3. IsFiniteSet(T) /\ T # {}
  <2>1. IsFiniteSet(T)
    BY FS_Subset
  <2>2. T # {}
    BY SumEmpty
  <2> QED
    BY <2>1, <2>2
<1>4. PICK x \in T : SumFunctionOnSet(f, T) = f[x] + SumFunctionOnSet(f, T \ {x})
  BY <1>3, SumOfChosen
<1>5. SumFunctionOnSet(f, T \ {x}) \in Nat
  BY <1>2
<1>6. f[x] \in Nat /\ SumFunctionOnSet(f, T) \notin Nat
  OBVIOUS
<1> QED
  BY <1>4, <1>5, <1>6

\* A sum of nothing but zeroes.
THEOREM SumZero ==
    ASSUME NEW S, IsFiniteSet(S), NEW f, \A x \in S : f[x] = 0
    PROVE  SumFunctionOnSet(f, S) = 0
<1> DEFINE C == {T \in SUBSET S : SumFunctionOnSet(f, T) # 0}
<1>1. SUFFICES ASSUME C # {} PROVE FALSE
  OBVIOUS
<1>2. PICK T \in C : \A U \in C : U \subseteq T => U = T
  <2>1. C \in SUBSET SUBSET S
    OBVIOUS
  <2> HIDE DEF C
  <2> QED
    BY <1>1, <2>1, SmallestSet
<1>3. IsFiniteSet(T) /\ T # {}
  <2>1. IsFiniteSet(T)
    BY FS_Subset
  <2> QED
    BY <2>1, SumEmpty
<1>4. PICK y : y \in T
  BY <1>3
<1>5. SumFunctionOnSet(f, T) = f[y] + SumFunctionOnSet(f, T \ {y})
  <2>1. \A x \in T : f[x] \in Int
    OBVIOUS
  <2> QED
    BY <1>3, <1>4, <2>1, SumRemove
<1>6. SumFunctionOnSet(f, T \ {y}) = 0
  BY <1>2, <1>4
<1> QED
  BY <1>4, <1>5, <1>6

-----------------------------------------------------------------------------
(* A list loses one element: the front one, or any one. *)

Removed(q, i, r) ==
    /\ Len(r) = Len(q) - 1
    /\ \A k \in 1 .. Len(r) : r[k] = q[IF k < i THEN k ELSE k + 1]

LEMMA TailRemoves ==
    ASSUME NEW S, NEW q \in Seq(S), q # <<>>
    PROVE  Tail(q) \in Seq(S) /\ Removed(q, 1, Tail(q)) /\ 1 \in 1 .. Len(q) /\ Head(q) = q[1]
<1>1. Len(q) \in Nat \ {0}
  BY EmptySeq
<1>2. Tail(q) \in Seq(S) /\ Len(Tail(q)) = Len(q) - 1
      /\ \A i \in 1 .. Len(Tail(q)) : Tail(q)[i] = q[i + 1]
  BY HeadTailProperties
<1>3. Head(q) = q[1]
  OBVIOUS
<1> QED
  BY <1>1, <1>2, <1>3 DEF Removed

LEMMA RemoveAtRemoves ==
    ASSUME NEW S, NEW q \in Seq(S), NEW i \in 1 .. Len(q)
    PROVE  RemoveAt(q, i) \in Seq(S) /\ Removed(q, i, RemoveAt(q, i))
<1> DEFINE a == SubSeq(q, 1, i - 1)
           b == SubSeq(q, i + 1, Len(q))
<1>1. Len(q) \in Nat /\ \A j \in 1 .. Len(q) : q[j] \in S
  BY LenProperties, ElementOfSeq
<1>2. /\ a \in Seq(S) /\ Len(a) = i - 1
      /\ \A j \in 1 .. i - 1 : a[j] = q[j]
  <2>1. 1 \in Int /\ i - 1 \in Int /\ \A j \in 1 .. i - 1 : q[j] \in S
    BY <1>1
  <2>2. /\ a \in Seq(S) /\ Len(a) = IF 1 <= i - 1 THEN i - 1 - 1 + 1 ELSE 0
        /\ \A j \in 1 .. i - 1 - 1 + 1 : a[j] = q[1 + j - 1]
    BY <2>1, SubSeqProperties
  <2> QED
    BY <1>1, <2>2
<1>3. /\ b \in Seq(S) /\ Len(b) = Len(q) - i
      /\ \A j \in 1 .. Len(q) - i : b[j] = q[i + j]
  <2>1. i + 1 \in Int /\ Len(q) \in Int /\ \A j \in i + 1 .. Len(q) : q[j] \in S
    BY <1>1
  <2>2. /\ b \in Seq(S)
        /\ Len(b) = IF i + 1 <= Len(q) THEN Len(q) - (i + 1) + 1 ELSE 0
        /\ \A j \in 1 .. Len(q) - (i + 1) + 1 : b[j] = q[i + 1 + j - 1]
    BY <2>1, SubSeqProperties
  <2> QED
    BY <1>1, <2>2
<1> HIDE DEF a, b
<1>4. /\ a \o b \in Seq(S) /\ Len(a \o b) = Len(a) + Len(b)
      /\ \A j \in 1 .. Len(a) + Len(b) : (a \o b)[j] = IF j <= Len(a) THEN a[j] ELSE b[j - Len(a)]
  BY <1>2, <1>3, ConcatProperties
<1>5. ASSUME NEW j \in 1 .. Len(q) - 1
      PROVE  (a \o b)[j] = q[IF j < i THEN j ELSE j + 1]
  <2>1. CASE j < i
    BY <1>1, <1>2, <1>3, <1>4, <2>1
  <2>2. CASE j >= i
    <3>1. j - (i - 1) \in 1 .. Len(q) - i /\ i + (j - (i - 1)) = j + 1
      BY <1>1, <2>2
    <3>2. (a \o b)[j] = b[j - (i - 1)]
      BY <1>1, <1>2, <1>3, <1>4, <2>2
    <3>3. b[j - (i - 1)] = q[i + (j - (i - 1))]
      BY <1>3, <3>1
    <3> QED
      BY <1>1, <2>2, <3>1, <3>2, <3>3
  <2>3. j < i \/ j >= i
    BY <1>1
  <2> QED
    BY <2>1, <2>2, <2>3
<1>6. Len(a \o b) = Len(q) - 1
  BY <1>1, <1>2, <1>3, <1>4
<1> QED
  BY <1>4, <1>5, <1>6 DEF RemoveAt, Removed, a, b

\* Where the nodes of the shorter queue come from, and where the others go.
LEMMA RemovedPlaces ==
    ASSUME NEW S, NEW q \in Seq(S), NEW r \in Seq(S), NEW i \in 1 .. Len(q), Removed(q, i, r)
    PROVE  /\ \A k \in 1 .. Len(r) : /\ (IF k < i THEN k ELSE k + 1) \in (1 .. Len(q)) \ {i}
                                     /\ r[k] = q[IF k < i THEN k ELSE k + 1]
           /\ \A j \in (1 .. Len(q)) \ {i} : \E k \in 1 .. Len(r) : r[k] = q[j]
<1>1. Len(q) \in Nat /\ Len(r) = Len(q) - 1
  BY LenProperties DEF Removed
<1>2. ASSUME NEW j \in (1 .. Len(q)) \ {i} PROVE \E k \in 1 .. Len(r) : r[k] = q[j]
  <2>1. CASE j < i
    BY <1>1, <2>1 DEF Removed
  <2>2. CASE j > i
    <3>1. j - 1 \in 1 .. Len(r) /\ ~ (j - 1 < i) /\ j - 1 + 1 = j
      BY <1>1, <2>2
    <3> QED
      BY <3>1 DEF Removed
  <2> QED
    BY <1>1, <2>1, <2>2
<1> QED
  BY <1>1, <1>2 DEF Removed
=============================================================================
