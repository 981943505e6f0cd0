--------------------------- MODULE GatewayProofs ---------------------------
(***************************************************************************)
(* The promises of the server's threads to each other, for any number of   *)
(* them.  The limiter's, for any capacity and rate: the bucket can be run  *)
(* back in time by a late reader of the clock, but what it holds never     *)
(* exceeds what the requests let through since any one of them leave of a  *)
(* full bucket and its refill.  The alert table's: a walk over it misses   *)
(* nothing, whatever others fire and file.  The bus's: what a stream is    *)
(* owed waits for it or is on its way, and once.                           *)
(***************************************************************************)
EXTENDS Gateway, FiniteSetTheorems, SequenceTheorems, TLAPS

Shapes ==
    /\ clock \in Nat /\ reading \in [Worker -> Nat]
    /\ granted \in Seq(Int)
    /\ bucket = NoBucket => granted = <<>>
    /\ bucket.level \in Int /\ bucket.last \in Int

\* What the requests from i to j cost.
CostOf(i, j) == (j - i + 1) * RefillTime

\* What is left, with what was spent since any grant, fits a full bucket and the refill.
Potential ==
    \A i \in DOMAIN granted :
        bucket.level + CostOf(i, Len(granted))
            <= Capacity * RefillTime + bucket.last - granted[i]

Bound ==
    \A i, j \in DOMAIN granted :
        i <= j => CostOf(i, j) <= Capacity * RefillTime + granted[j] - granted[i]

Inv == Shapes /\ Potential /\ Bound

\* Multiplication by the price of a token, as far as the arithmetic needs it.
LEMMA Costs ==
    /\ RefillTime \in Nat \ {0} /\ Capacity * RefillTime \in Int
    /\ \A i, j \in Int : CostOf(i, j) \in Int
    /\ \A i, j \in Int : CostOf(i, j + 1) = CostOf(i, j) + RefillTime
    /\ \A i \in Int : CostOf(i, i) = RefillTime
BY GatewayAssumption DEF CostOf

LEMMA MinOfTwo ==
    ASSUME NEW a \in Int, NEW b \in Int
    PROVE  Min({a, b}) \in Int /\ Min({a, b}) <= a /\ Min({a, b}) <= b
<1>1. \E x \in {a, b} : \A y \in {a, b} : x <= y
  <2>1. CASE a <= b
    BY <2>1
  <2>2. CASE ~(a <= b)
    BY <2>2
  <2> QED
    BY <2>1, <2>2
<1> QED
  BY <1>1 DEF Min

LEMMA AllowInv ==
    ASSUME Inv, NEW w \in Worker, allow(w)
    PROVE  Inv'
<1> DEFINE now == reading[w]
           level == Level(now)
           n == Len(granted)
           full == Capacity * RefillTime
<1>1. now \in Nat /\ n \in Nat /\ DOMAIN granted = 1 .. n /\ full \in Int
      /\ clock' = clock /\ reading' = reading /\ granted \in Seq(Int)
      /\ \A i \in DOMAIN granted : granted[i] \in Int
  <2>1. now \in Nat /\ granted \in Seq(Int)
    BY DEF Inv, Shapes
  <2>2. n \in Nat /\ DOMAIN granted = 1 .. n /\ \A i \in DOMAIN granted : granted[i] \in Int
    BY ONLY <2>1
  <2>3. clock' = clock /\ reading' = reading
    BY DEF allow
  <2> QED
    BY ONLY <2>1, <2>2, <2>3, Costs
<1>2. level \in Int /\ level <= full
      /\ (bucket # NoBucket => level <= bucket.level + (now - bucket.last))
  <2>1. CASE bucket = NoBucket
    BY <1>1, <2>1 DEF Level
  <2>2. CASE bucket # NoBucket
    <3>1. bucket.level + (now - bucket.last) \in Int
      BY <1>1 DEF Inv, Shapes
    <3>2. level = Min({full, bucket.level + (now - bucket.last)})
      BY <2>2 DEF Level, Refilled
    <3> QED
      BY ONLY <1>1, <3>1, <3>2, MinOfTwo
  <2> QED
    BY <2>1, <2>2
\* As Potential, with the bucket brought up to the reading.
<1>3. \A i \in DOMAIN granted : level + CostOf(i, n) <= full + now - granted[i]
  <2> SUFFICES ASSUME NEW i \in DOMAIN granted
               PROVE  level + CostOf(i, n) <= full + now - granted[i]
    OBVIOUS
  <2>1. bucket # NoBucket
    BY <1>1 DEF Inv, Shapes
  <2>2. bucket.level + CostOf(i, n) <= full + bucket.last - granted[i]
    BY DEF Inv, Potential
  <2>3. CostOf(i, n) \in Int /\ granted[i] \in Int /\ bucket.level \in Int
        /\ bucket.last \in Int
    BY <1>1, Costs DEF Inv, Shapes
  <2> HIDE DEF level, now, n, full
  <2> QED
    BY <1>1, <1>2, <2>1, <2>2, <2>3
<1>4. CASE level < RefillTime
  <2>1. bucket' = [level |-> level, last |-> now] /\ granted' = granted
    BY <1>4 DEF allow
  <2>2. bucket'.level = level /\ bucket'.last = now /\ bucket' # NoBucket
    BY <1>1, <2>1 DEF NoBucket
  <2>3. Shapes'
    BY <1>1, <1>2, <2>1, <2>2 DEF Inv, Shapes
  <2>4. Potential'
    BY <1>3, <2>1, <2>2 DEF Potential
  <2> QED
    BY <2>1, <2>3, <2>4 DEF Inv, Bound
<1>5. CASE ~(level < RefillTime)
  <2>1. bucket' = [level |-> level - RefillTime, last |-> now]
        /\ granted' = Append(granted, now)
    BY <1>5 DEF allow
  <2>2. bucket'.level = level - RefillTime /\ bucket'.last = now /\ bucket' # NoBucket
    BY <1>1, <2>1 DEF NoBucket
  <2>3. granted' \in Seq(Int) /\ Len(granted') = n + 1 /\ DOMAIN granted' = 1 .. n + 1
        /\ granted'[n + 1] = now /\ \A i \in DOMAIN granted : granted'[i] = granted[i]
    BY <1>1, <2>1
  <2>4. Shapes'
    <3>1. level - RefillTime \in Int
      BY <1>2, Costs
    <3> QED
      BY <1>1, <2>2, <2>3, <3>1 DEF Inv, Shapes
  \* Since the first of them, one more token was spent.
  <2>5. \A i \in DOMAIN granted' :
           level - RefillTime + CostOf(i, n + 1) <= full + now - granted'[i]
    <3> SUFFICES ASSUME NEW i \in DOMAIN granted'
                 PROVE  level - RefillTime + CostOf(i, n + 1) <= full + now - granted'[i]
      OBVIOUS
    <3>1. CASE i \in DOMAIN granted
      <4>1. level + CostOf(i, n) <= full + now - granted'[i]
        BY <1>3, <2>3, <3>1
      <4>2. CostOf(i, n + 1) = CostOf(i, n) + RefillTime /\ CostOf(i, n) \in Int
        BY <1>1, <3>1, Costs
      <4>3. granted'[i] \in Int
        BY <1>1, <2>3, <3>1
      <4> HIDE DEF level, now, n, full
      <4> QED
        BY <1>1, <1>2, <4>1, <4>2, <4>3, Costs
    <3>2. CASE i = n + 1
      <4>1. CostOf(i, n + 1) = RefillTime /\ granted'[i] = now
        BY <1>1, <2>3, <3>2, Costs
      <4> HIDE DEF level, now, n, full
      <4> QED
        BY <1>1, <1>2, <4>1, Costs
    <3> QED
      BY <1>1, <2>3, <3>1, <3>2
  <2>6. Potential'
    BY <2>2, <2>3, <2>5 DEF Potential
  <2>7. Bound'
    <3> SUFFICES ASSUME NEW i \in DOMAIN granted', NEW j \in DOMAIN granted', i <= j
                 PROVE  CostOf(i, j) <= full + granted'[j] - granted'[i]
      BY DEF Bound
    <3>1. CASE j \in DOMAIN granted
      BY <1>1, <2>3, <3>1 DEF Inv, Bound
    <3>2. CASE j = n + 1
      <4>1. level - RefillTime + CostOf(i, j) <= full + granted'[j] - granted'[i]
        BY <2>3, <2>5, <3>2
      <4>2. i \in Int /\ j \in Int
        BY <1>1, <2>3
      <4>3. CostOf(i, j) \in Int
        BY <4>2, Costs
      <4>4. granted'[i] \in Int /\ granted'[j] \in Int
        BY ONLY <2>3
      <4> HIDE DEF level, now, n, full
      <4>5. level - RefillTime >= 0 /\ level - RefillTime \in Int
        BY ONLY <1>2, <1>5, Costs
      <4> QED
        BY ONLY <1>1, <4>1, <4>3, <4>4, <4>5
    <3> QED
      BY <1>1, <2>3, <3>1, <3>2
  <2> QED
    BY <2>4, <2>6, <2>7 DEF Inv
<1> QED
  BY <1>4, <1>5

LEMMA NextInv == Inv /\ [Next]_vars => Inv'
<1> SUFFICES ASSUME Inv, [Next]_vars PROVE Inv'
  OBVIOUS
<1>1. ASSUME UNCHANGED <<bucket, granted>>, clock' \in Nat, reading' \in [Worker -> Nat]
      PROVE  Inv'
  BY <1>1 DEF Inv, Shapes, Potential, Bound
<1>2. ASSUME UNCHANGED limiter PROVE Inv'
  BY <1>1, <1>2 DEF limiter, Inv, Shapes
<1>3. CASE Tick
  BY <1>1, <1>3 DEF Tick, Inv, Shapes
<1>4. ASSUME NEW w \in Worker, NEW req \in Request, do_POST(w, req) PROVE Inv'
  BY <1>1, <1>4 DEF do_POST, Inv, Shapes
<1>5. CASE \E w \in Worker : allow(w)
  BY <1>5, AllowInv
<1>6. CASE \E w \in Worker :
              \/ NumberTrade(w) \/ RecordTrade(w) \/ PublishTrade(w) \/ SaveResting(w)
              \/ SaveIncoming(w) \/ EndOrder(w) \/ on_trade(w) \/ VisitAlert(w)
              \/ EndWalk(w) \/ NumberAlert(w) \/ FileAlert(w)
  BY <1>2, <1>6 DEF NumberTrade, RecordTrade, PublishTrade, SaveResting, SaveIncoming,
                    publish, EndOrder, on_trade, VisitAlert, EndWalk, NumberAlert, FileAlert
<1>7. CASE \E w \in Worker, c \in Stream : PutEvent(w, c)
  BY <1>2, <1>7 DEF PutEvent
<1>8. CASE \E c \in Stream : subscribe(c) \/ SendEvent(c) \/ Heartbeat(c) \/ ClientLeaves(c)
  BY <1>2, <1>8 DEF subscribe, SendEvent, Heartbeat, ClientLeaves
<1>9. CASE UNCHANGED vars
  BY <1>2, <1>9 DEF vars
<1> QED
  BY <1>3, <1>4, <1>5, <1>6, <1>7, <1>8, <1>9 DEF Next

\* RateLimiter.allow: over any stretch of the clock as the requests read it, no more pass
\* than a full bucket holds and the stretch refills.
THEOREM LimiterIsSound == Spec => []LimiterBound
<1>1. Init => Inv
  BY DEF Init, Inv, Shapes, Potential, Bound, NoBucket
<1>2. Inv => LimiterBound
  BY DEF Inv, Bound, CostOf, LimiterBound
<1> QED
  BY <1>1, <1>2, NextInv, PTL DEF Spec

-----------------------------------------------------------------------------
(* The alert table and the walks over it. *)

Alert(V) == [id : V, tag : V, symbol : V, op : V, price : V, status : V]
Task(V) == [at : V, req : V, event : V, todo : V, size : V, pos : V, reached : V]

TasksHaveTheirFields ==
    /\ \E V : task \in [Worker -> Task(V)]
    /\ \A w \in Worker : task[w].at = "limit" => task[w].req \in Request
TableHasItsFields ==
    /\ \E V : alerts \in Seq(Alert(V))
    /\ fired \in Seq(Int) /\ IsFiniteSet(replaced)

\* Every alert ever filed was given the next tag.
Tags == 1 .. Len(alerts) + Cardinality(replaced)

\* An alert's tag is its own, and so is its number; the table and the replaced ones are all
\* there is, and what is armed has not fired.
AlertsAreDistinct ==
    /\ \A i \in DOMAIN alerts : alerts[i].tag \in Tags \ replaced
    /\ \A i, j \in DOMAIN alerts : i # j =>
          alerts[i].tag # alerts[j].tag /\ alerts[i].id # alerts[j].id
    /\ replaced \subseteq Tags /\ ToSet(fired) \subseteq Tags
    /\ IsInjective(fired)
    /\ \A i \in DOMAIN alerts :
          alerts[i].status = "armed" => alerts[i].tag \notin ToSet(fired)

\* What a walk is to fire and has not come to is still ahead of it.
Ahead(w, g) ==
    \E i \in DOMAIN alerts :
        i >= task[w].pos /\ alerts[i].tag = g /\ Triggers(w, alerts[i])
WalkIsSound(w) ==
    task[w].at = "walk" =>
        /\ task[w].size \in Nat /\ task[w].size <= Len(alerts)
        /\ task[w].pos \in Nat \ {0}
        /\ Len(alerts) = task[w].size =>
              \A g \in task[w].reached : g \in ToSet(fired) \cup replaced \/ Ahead(w, g)

Alerting ==
    /\ TasksHaveTheirFields /\ TableHasItsFields /\ AlertsAreDistinct
    /\ \A w \in Worker : WalkIsSound(w)
    /\ overlooked = {}

LEMMA InitAlerting == Init => Alerting
<1> SUFFICES ASSUME Init PROVE Alerting
  OBVIOUS
<1>1. task = [w \in Worker |-> NoTask] /\ alerts = <<>> /\ fired = <<>> /\ replaced = {}
      /\ overlooked = {}
  BY DEF Init
<1>2. TasksHaveTheirFields
  <2> DEFINE V == {"idle", NoRequest, NoEvent, {}, 0}
  <2>1. NoTask \in Task(V)
    BY DEF NoTask, Task
  <2> QED
    BY <1>1, <2>1 DEF TasksHaveTheirFields, NoTask
<1>3. TableHasItsFields
  BY <1>1, FS_EmptySet DEF TableHasItsFields
<1>4. AlertsAreDistinct
  BY <1>1 DEF AlertsAreDistinct, ToSet, IsInjective
<1>5. \A w \in Worker : WalkIsSound(w)
  BY <1>1 DEF WalkIsSound, NoTask
<1> QED
  BY <1>1, <1>2, <1>3, <1>4, <1>5 DEF Alerting

\* What one thread does to itself leaves the others' walks as they are.
LEMMA TaskSteps ==
    ASSUME TasksHaveTheirFields, NEW w \in Worker, NEW t, NEW W, t \in Task(W),
           t.at = "limit" => t.req \in Request,
           task' = [task EXCEPT ![w] = t]
    PROVE  /\ TasksHaveTheirFields'
           /\ task'[w] = t
           /\ \A v \in Worker \ {w} : task'[v] = task[v]
<1>1. PICK V : task \in [Worker -> Task(V)]
  BY DEF TasksHaveTheirFields
<1>2. t \in Task(V \cup W) /\ \A v \in Worker : task[v] \in Task(V \cup W)
  BY <1>1 DEF Task
<1>3. task' \in [Worker -> Task(V \cup W)] /\ task'[w] = t
      /\ \A v \in Worker \ {w} : task'[v] = task[v]
  BY <1>1, <1>2
<1> QED
  BY <1>3 DEF TasksHaveTheirFields

\* A step of a thread that is not at the table.
LEMMA AwayFromTheTable ==
    ASSUME Alerting, NEW w \in Worker, NEW t, NEW W, t \in Task(W),
           task' = [task EXCEPT ![w] = t], UNCHANGED alerting,
           t.at # "walk", t.at = "limit" => t.req \in Request
    PROVE  Alerting'
<1>1. UNCHANGED <<alerts, fired, replaced, overlooked>>
  BY DEF alerting
<1>2. TasksHaveTheirFields' /\ task'[w] = t /\ \A v \in Worker \ {w} : task'[v] = task[v]
  BY TaskSteps DEF Alerting
<1>3. TableHasItsFields' /\ AlertsAreDistinct'
  BY <1>1 DEF Alerting, TableHasItsFields, AlertsAreDistinct, Tags
<1>4. ASSUME NEW v \in Worker PROVE WalkIsSound(v)'
  <2>1. CASE v = w
    BY <1>2, <2>1 DEF WalkIsSound
  <2>2. CASE v # w
    <3>1. task'[v] = task[v] /\ WalkIsSound(v)
      BY <1>2, <2>2 DEF Alerting
    <3> QED
      BY <1>1, <3>1 DEF WalkIsSound, Ahead, Triggers
  <2> QED
    BY <2>1, <2>2
<1> QED
  BY <1>1, <1>2, <1>3, <1>4 DEF Alerting

\* The walk begins with everything ahead of it.
LEMMA BeginWalk ==
    ASSUME Alerting, NEW w \in Worker, on_trade(w)
    PROVE  Alerting'
<1> DEFINE hits == {alerts[i].tag : i \in {j \in DOMAIN alerts : Triggers(w, alerts[j])}}
           t == [task[w] EXCEPT !.at = "walk", !.pos = 1, !.size = Len(alerts),
                                !.reached = hits]
<1>1. UNCHANGED <<alerts, fired, replaced, overlooked>> /\ task' = [task EXCEPT ![w] = t]
  BY DEF on_trade, alerting
<1>2. PICK V : task[w] \in Task(V)
  BY DEF Alerting, TasksHaveTheirFields
<1>3. /\ t \in Task(V \cup {"walk", 1, Len(alerts), hits})
      /\ t.at = "walk" /\ t.pos = 1 /\ t.size = Len(alerts) /\ t.reached = hits
      /\ t.req = task[w].req
  <2> HIDE DEF hits
  <2> QED
    BY <1>2 DEF Task
<1>4. TasksHaveTheirFields' /\ task'[w] = t /\ \A v \in Worker \ {w} : task'[v] = task[v]
  <2> HIDE DEF t
  <2> QED
    BY <1>1, <1>3, TaskSteps DEF Alerting
<1>5. TableHasItsFields' /\ AlertsAreDistinct'
  BY <1>1 DEF Alerting, TableHasItsFields, AlertsAreDistinct, Tags
<1>6. ASSUME NEW v \in Worker PROVE WalkIsSound(v)'
  <2>1. CASE v = w
    <3>1. Len(alerts) \in Nat /\ DOMAIN alerts = 1 .. Len(alerts)
      BY DEF Alerting, TableHasItsFields
    <3>2. ASSUME NEW g \in hits PROVE Ahead(w, g)'
      <4>1. PICK i \in DOMAIN alerts : Triggers(w, alerts[i]) /\ alerts[i].tag = g
        OBVIOUS
      <4>2. Triggers(w, alerts[i])'
        <5> HIDE DEF t
        <5> QED
          BY <1>1, <1>3, <1>4, <4>1 DEF Triggers
      <4>3. i >= 1
        BY <3>1
      <4> HIDE DEF t
      <4> QED
        BY <1>1, <1>3, <1>4, <4>1, <4>2, <4>3 DEF Ahead
    <3> HIDE DEF t, hits
    <3> QED
      BY <1>1, <1>3, <1>4, <2>1, <3>1, <3>2 DEF WalkIsSound
  <2>2. CASE v # w
    <3>1. task'[v] = task[v] /\ WalkIsSound(v)
      BY <1>4, <2>2 DEF Alerting
    <3> QED
      BY <1>1, <3>1 DEF WalkIsSound, Ahead, Triggers
  <2> QED
    BY <2>1, <2>2
<1> QED
  BY <1>1, <1>4, <1>5, <1>6 DEF Alerting

LEMMA AppendedSet ==
    ASSUME NEW S, NEW s \in Seq(S), NEW e \in S
    PROVE  ToSet(Append(s, e)) = ToSet(s) \cup {e}
<1>1. Append(s, e) \in Seq(S) /\ DOMAIN Append(s, e) = 1 .. Len(s) + 1 /\ DOMAIN s = 1 .. Len(s)
      /\ Len(s) \in Nat /\ Append(s, e)[Len(s) + 1] = e
      /\ \A i \in 1 .. Len(s) : Append(s, e)[i] = s[i]
  OBVIOUS
<1> QED
  BY <1>1 DEF ToSet

LEMMA AppendedInjective ==
    ASSUME NEW S, NEW s \in Seq(S), NEW e \in S, IsInjective(s), e \notin ToSet(s)
    PROVE  IsInjective(Append(s, e))
<1>1. Append(s, e) \in Seq(S) /\ DOMAIN Append(s, e) = 1 .. Len(s) + 1 /\ DOMAIN s = 1 .. Len(s)
      /\ Len(s) \in Nat /\ Append(s, e)[Len(s) + 1] = e
      /\ \A i \in 1 .. Len(s) : Append(s, e)[i] = s[i]
  OBVIOUS
<1>2. \A i \in 1 .. Len(s) : s[i] # e
  BY <1>1 DEF ToSet
<1> QED
  BY <1>1, <1>2 DEF IsInjective

\* An alert that fires leaves the table as it is but for its status.
LEMMA FireAlert ==
    ASSUME Alerting, NEW p \in DOMAIN alerts, alerts[p].status = "armed",
           alerts' = [alerts EXCEPT ![p].status = "fired"],
           fired' = Append(fired, alerts[p].tag),
           UNCHANGED replaced
    PROVE  /\ TableHasItsFields' /\ AlertsAreDistinct'
           /\ Len(alerts') = Len(alerts) /\ DOMAIN alerts' = DOMAIN alerts
           /\ \A i \in DOMAIN alerts \ {p} : alerts'[i] = alerts[i]
           /\ ToSet(fired') = ToSet(fired) \cup {alerts[p].tag}
<1>1. PICK V : alerts \in Seq(Alert(V))
  BY DEF Alerting, TableHasItsFields
<1> DEFINE a == [alerts[p] EXCEPT !.status = "fired"]
<1>2. /\ alerts' \in Seq(Alert(V \cup {"fired"}))
      /\ Len(alerts') = Len(alerts) /\ DOMAIN alerts' = DOMAIN alerts
      /\ \A i \in DOMAIN alerts \ {p} : alerts'[i] = alerts[i]
      /\ alerts'[p] = a
  <2>1. /\ p \in 1 .. Len(alerts) /\ alerts[p] \in Alert(V)
    BY <1>1
  <2>2. a \in Alert(V \cup {"fired"})
    BY ONLY <2>1 DEF Alert, a
  <2>3. Alert(V) \subseteq Alert(V \cup {"fired"})
    BY DEF Alert
  <2>4. alerts \in Seq(Alert(V \cup {"fired"}))
    BY <1>1, <2>3, SeqMonotonic
  <2>5. alerts' = [alerts EXCEPT ![p] = a] /\ DOMAIN alerts = 1 .. Len(alerts)
    BY <1>1
  <2> HIDE DEF a
  <2>6. alerts' \in Seq(Alert(V \cup {"fired"})) /\ Len(alerts') = Len(alerts)
    BY <2>1, <2>2, <2>4, <2>5, ExceptSeq
  <2> QED
    BY <2>1, <2>5, <2>6
<1>3. a.tag = alerts[p].tag /\ a.id = alerts[p].id /\ a.status = "fired"
  BY <1>1 DEF Alert
<1> HIDE DEF a
<1>4. Cardinality(replaced) \in Nat /\ Len(alerts) \in Nat /\ DOMAIN alerts = 1 .. Len(alerts)
      /\ alerts[p].tag \in Tags
  BY <1>1, FS_CardinalityType DEF Alerting, TableHasItsFields, AlertsAreDistinct
<1>5. alerts[p].tag \in Int /\ fired \in Seq(Int)
  BY <1>4 DEF Tags, Alerting, TableHasItsFields
<1>6. fired' \in Seq(Int) /\ ToSet(fired') = ToSet(fired) \cup {alerts[p].tag}
  BY <1>5, AppendedSet
<1>7. IsInjective(fired')
  BY <1>5, AppendedInjective DEF Alerting, AlertsAreDistinct
<1>8. TableHasItsFields'
  BY <1>2, <1>6 DEF Alerting, TableHasItsFields
<1>9. \A i \in DOMAIN alerts : alerts'[i].tag = alerts[i].tag /\ alerts'[i].id = alerts[i].id
  BY <1>2, <1>3
<1>10. Tags' = Tags
  BY <1>2 DEF Tags
<1>11. ASSUME NEW i \in DOMAIN alerts, alerts'[i].status = "armed"
       PROVE  alerts'[i].tag \notin ToSet(fired')
  <2>1. i # p
    BY <1>2, <1>3, <1>11
  <2>2. alerts'[i] = alerts[i]
    BY <1>2, <2>1
  <2> QED
    BY <1>6, <1>11, <2>1, <2>2 DEF Alerting, AlertsAreDistinct
<1>12. AlertsAreDistinct'
  BY <1>2, <1>4, <1>6, <1>7, <1>9, <1>10, <1>11 DEF Alerting, AlertsAreDistinct
<1> QED
  BY <1>2, <1>6, <1>8, <1>12

LEMMA VisitKeepsAlerting ==
    ASSUME Alerting, NEW w \in Worker, VisitAlert(w)
    PROVE  Alerting'
<1> DEFINE p == task[w].pos
           t == [task[w] EXCEPT !.pos = p + 1]
<1>1. /\ task[w].at = "walk" /\ Len(alerts) = task[w].size /\ p <= Len(alerts)
      /\ task' = [task EXCEPT ![w] = t] /\ UNCHANGED <<replaced, overlooked>>
  BY DEF VisitAlert, NextPos
<1>2. /\ p \in Nat \ {0} /\ task[w].size \in Nat
      /\ \A g \in task[w].reached : g \in ToSet(fired) \cup replaced \/ Ahead(w, g)
  BY <1>1 DEF Alerting, WalkIsSound
<1>3. /\ t.at = "walk" /\ t.pos = p + 1 /\ t.size = task[w].size
      /\ t.reached = task[w].reached /\ t.req = task[w].req
      /\ TasksHaveTheirFields' /\ task'[w] = t /\ \A v \in Worker \ {w} : task'[v] = task[v]
  <2>1. PICK V : task[w] \in Task(V)
    BY DEF Alerting, TasksHaveTheirFields
  <2>2. /\ t.at = "walk" /\ t.pos = p + 1 /\ t.size = task[w].size
        /\ t.reached = task[w].reached /\ t.req = task[w].req
        /\ t \in Task(V \cup {p + 1})
    <3> HIDE DEF p
    <3> QED
      BY <1>1, <2>1 DEF Task
  <2> HIDE DEF t
  <2> QED
    BY <1>1, <2>2, TaskSteps DEF Alerting
<1>4. Len(alerts) \in Nat /\ DOMAIN alerts = 1 .. Len(alerts) /\ p \in DOMAIN alerts
  BY <1>1, <1>2 DEF Alerting, TableHasItsFields
<1> HIDE DEF t
<1>5. CASE Triggers(w, alerts[p])
  <2>1. alerts[p].status = "armed" /\ alerts' = [alerts EXCEPT ![p].status = "fired"]
        /\ fired' = Append(fired, alerts[p].tag)
    BY <1>5 DEF VisitAlert, Triggers
  <2> HIDE DEF p
  <2>2. /\ TableHasItsFields' /\ AlertsAreDistinct'
        /\ Len(alerts') = Len(alerts) /\ DOMAIN alerts' = DOMAIN alerts
        /\ \A i \in DOMAIN alerts \ {p} : alerts'[i] = alerts[i]
        /\ ToSet(fired') = ToSet(fired) \cup {alerts[p].tag}
    BY <1>1, <1>4, <2>1, FireAlert
  <2>3. ASSUME NEW v \in Worker PROVE WalkIsSound(v)'
    <3> SUFFICES ASSUME task[v].at = "walk" PROVE WalkIsSound(v)'
      BY <1>1, <1>3 DEF WalkIsSound
    <3>1. WalkIsSound(v) /\ task'[v].size = task[v].size /\ task'[v].reached = task[v].reached
          /\ task'[v].req = task[v].req /\ task'[v].at = "walk"
      BY <1>1, <1>3 DEF Alerting
    <3>2. task'[v].pos \in Nat \ {0}
      <4>1. CASE v = w
        BY <1>2, <1>3, <4>1
      <4>2. CASE v # w
        BY <1>3, <3>1, <4>2 DEF WalkIsSound
      <4> QED
        BY <4>1, <4>2
    <3>3. ASSUME NEW g \in task[v].reached, Ahead(v, g), g # alerts[p].tag
          PROVE  Ahead(v, g)'
      <4>1. PICK i \in DOMAIN alerts :
                   i >= task[v].pos /\ alerts[i].tag = g /\ Triggers(v, alerts[i])
        BY <3>3 DEF Ahead
      <4>2. i # p /\ alerts'[i] = alerts[i]
        BY <2>2, <3>3, <4>1
      <4>3. i >= task'[v].pos
        <5>1. CASE v = w
          BY <1>2, <1>3, <1>4, <4>1, <4>2, <5>1 DEF p
        <5>2. CASE v # w
          BY <1>3, <4>1, <5>2
        <5> QED
          BY <5>1, <5>2
      <4>4. Triggers(v, alerts[i])'
        BY <3>1, <4>1, <4>2 DEF Triggers
      <4> QED
        BY <2>2, <4>1, <4>2, <4>3, <4>4 DEF Ahead
    <3> QED
      BY <1>1, <2>2, <3>1, <3>2, <3>3 DEF WalkIsSound
  <2> QED
    BY <1>1, <1>3, <2>2, <2>3 DEF Alerting
<1>6. CASE ~Triggers(w, alerts[p])
  <2>1. UNCHANGED <<alerts, fired>>
    BY <1>6 DEF VisitAlert
  <2>2. TableHasItsFields' /\ AlertsAreDistinct'
    BY <1>1, <2>1 DEF Alerting, TableHasItsFields, AlertsAreDistinct, Tags
  <2>3. ASSUME NEW v \in Worker PROVE WalkIsSound(v)'
    <3>1. CASE v = w
      <4>1. ASSUME NEW g, Ahead(w, g) PROVE Ahead(w, g)'
        <5>1. PICK i \in DOMAIN alerts :
                     i >= p /\ alerts[i].tag = g /\ Triggers(w, alerts[i])
          BY <4>1 DEF Ahead
        <5>2. i # p /\ i >= p + 1
          BY <1>2, <1>4, <1>6, <5>1
        <5>3. Triggers(w, alerts[i])'
          BY <1>3, <2>1, <5>1 DEF Triggers
        <5> QED
          BY <1>3, <2>1, <5>1, <5>2, <5>3 DEF Ahead
      <4> HIDE DEF p
      <4> QED
        BY <1>1, <1>2, <1>3, <2>1, <3>1, <4>1 DEF WalkIsSound
    <3>2. CASE v # w
      <4>1. task'[v] = task[v] /\ WalkIsSound(v)
        BY <1>3, <3>2 DEF Alerting
      <4> QED
        BY <1>1, <2>1, <4>1 DEF WalkIsSound, Ahead, Triggers
    <3> QED
      BY <3>1, <3>2
  <2> QED
    BY <1>1, <1>3, <2>1, <2>2, <2>3 DEF Alerting
<1> QED
  BY <1>5, <1>6

\* A walk that comes to the end of a table that has not grown has nothing left to fire.
LEMMA EndKeepsAlerting ==
    ASSUME Alerting, NEW w \in Worker, EndWalk(w)
    PROVE  Alerting'
<1>1. task[w].at = "walk" /\ UNCHANGED <<alerts, fired, replaced>>
      /\ (Len(alerts) # task[w].size \/ task[w].pos > Len(alerts))
      /\ (task' = [task EXCEPT ![w] = NoTask] \/ task' = [task EXCEPT ![w].at = "save"])
  BY DEF EndWalk, Done, Goto
<1>2. overlooked' = {}
  <2>1. CASE Len(alerts) # task[w].size
    BY <2>1 DEF EndWalk, Alerting
  <2>2. CASE Len(alerts) = task[w].size
    <3>1. task[w].pos > Len(alerts) /\ task[w].pos \in Nat /\ Len(alerts) \in Nat
          /\ DOMAIN alerts = 1 .. Len(alerts)
      BY <1>1, <2>2 DEF Alerting, WalkIsSound, TableHasItsFields
    <3>2. \A g : ~Ahead(w, g)
      BY <3>1 DEF Ahead
    <3>3. task[w].reached \subseteq ToSet(fired) \cup replaced
      BY <1>1, <2>2, <3>2 DEF Alerting, WalkIsSound
    <3>4. overlooked' = overlooked \cup (task[w].reached \ (ToSet(fired) \cup replaced))
      BY <2>2 DEF EndWalk
    <3> QED
      BY <3>3, <3>4 DEF Alerting
  <2> QED
    BY <2>1, <2>2
<1>3. PICK t, W : t \in Task(W) /\ t.at \in {"idle", "save"} /\ task' = [task EXCEPT ![w] = t]
  <2>1. NoTask \in Task({"idle", NoRequest, NoEvent, {}, 0}) /\ NoTask.at = "idle"
    BY DEF NoTask, Task
  <2>2. PICK V : task[w] \in Task(V)
    BY DEF Alerting, TasksHaveTheirFields
  <2> DEFINE t == [task[w] EXCEPT !.at = "save"]
  <2>3. t \in Task(V \cup {"save"}) /\ t.at = "save"
    BY ONLY <2>2 DEF Task
  <2>4. task' = [task EXCEPT ![w] = NoTask] \/ task' = [task EXCEPT ![w] = t]
    BY <1>1
  <2> HIDE DEF t
  <2> QED
    BY <2>1, <2>3, <2>4
<1>4. TasksHaveTheirFields' /\ task'[w] = t /\ \A v \in Worker \ {w} : task'[v] = task[v]
  BY <1>3, TaskSteps DEF Alerting
<1>5. TableHasItsFields' /\ AlertsAreDistinct'
  BY <1>1 DEF Alerting, TableHasItsFields, AlertsAreDistinct, Tags
<1>6. ASSUME NEW v \in Worker PROVE WalkIsSound(v)'
  <2>1. CASE v = w
    BY <1>3, <1>4, <2>1 DEF WalkIsSound
  <2>2. CASE v # w
    <3>1. task'[v] = task[v] /\ WalkIsSound(v)
      BY <1>4, <2>2 DEF Alerting
    <3> QED
      BY <1>1, <3>1 DEF WalkIsSound, Ahead, Triggers
  <2> QED
    BY <2>1, <2>2
<1> QED
  BY <1>2, <1>4, <1>5, <1>6 DEF Alerting

\* A filed alert gets a tag nobody had, and the place of the one that had its number.
LEMMA FileKeepsAlerting ==
    ASSUME Alerting, NEW w \in Worker, FileAlert(w)
    PROVE  Alerting'
<1> DEFINE n == Len(alerts)
           c == Cardinality(replaced)
           req == task[w].req
           id == task[w].pos
           a == [id |-> id, tag |-> n + c + 1, symbol |-> req.symbol, op |-> req.op,
                 price |-> req.price, status |-> "armed"]
           same == {i \in DOMAIN alerts : alerts[i].id = id}
<1>1. /\ task[w].at = "file" /\ task' = [task EXCEPT ![w] = NoTask]
      /\ UNCHANGED <<fired, overlooked>>
      /\ IF same = {}
         THEN alerts' = Append(alerts, a) /\ UNCHANGED replaced
         ELSE /\ alerts' = [i \in DOMAIN alerts |-> IF i \in same THEN a ELSE alerts[i]]
              /\ replaced' = replaced \cup {alerts[i].tag : i \in same}
  BY DEF FileAlert, Done
<1>2. PICK V : alerts \in Seq(Alert(V))
  BY DEF Alerting, TableHasItsFields
<1>3. n \in Nat /\ c \in Nat /\ DOMAIN alerts = 1 .. n /\ \A i \in 1 .. n : alerts[i] \in Alert(V)
  BY <1>2, FS_CardinalityType DEF Alerting, TableHasItsFields
<1> DEFINE W == V \cup {id, n + c + 1, req.symbol, req.op, req.price, "armed"}
<1>4. /\ a \in Alert(W) /\ alerts \in Seq(Alert(W))
      /\ a.id = id /\ a.tag = n + c + 1 /\ a.status = "armed"
  <2> HIDE DEF id, req, n, c
  <2>1. a \in Alert(W)
    BY DEF Alert
  <2>2. Alert(V) \subseteq Alert(W)
    BY DEF Alert
  <2> QED
    BY <1>2, <2>1, <2>2, SeqMonotonic
<1>5. NoTask \in Task({"idle", NoRequest, NoEvent, {}, 0}) /\ NoTask.at = "idle"
  BY DEF NoTask, Task
<1>6. TasksHaveTheirFields' /\ task'[w] = NoTask /\ \A v \in Worker \ {w} : task'[v] = task[v]
  BY <1>1, <1>5, TaskSteps DEF Alerting
<1>7. Tags = 1 .. n + c /\ n + c + 1 \notin Tags
  BY <1>3 DEF Tags
<1> HIDE DEF a, W
<1>8. CASE same = {}
  <2>1. /\ alerts' \in Seq(Alert(W)) /\ Len(alerts') = n + 1 /\ DOMAIN alerts' = 1 .. n + 1
        /\ alerts'[n + 1] = a /\ \A i \in 1 .. n : alerts'[i] = alerts[i]
    <3>1. alerts' = Append(alerts, a)
      BY <1>1, <1>8
    <3> QED
      BY <1>3, <1>4, <3>1, AppendProperties
  <2>2. UNCHANGED replaced
    BY <1>1, <1>8
  <2>3. TableHasItsFields'
    BY <1>1, <2>1, <2>2 DEF Alerting, TableHasItsFields
  <2>4. Tags' = 1 .. n + c + 1
    BY <1>3, <2>1, <2>2 DEF Tags
  <2> HIDE DEF n, c, id
  <2>5. \A i \in 1 .. n : alerts[i].id # id /\ alerts[i].tag # a.tag
    BY <1>3, <1>4, <1>7, <1>8 DEF Alerting, AlertsAreDistinct
  <2>6. \A i, j \in 1 .. n + 1 : i # j =>
           alerts'[i].tag # alerts'[j].tag /\ alerts'[i].id # alerts'[j].id
    BY <1>3, <1>4, <2>1, <2>5 DEF Alerting, AlertsAreDistinct
  <2>7. \A i \in 1 .. n + 1 : alerts'[i].tag \in Tags' \ replaced'
    BY <1>3, <1>4, <1>7, <2>1, <2>2, <2>4 DEF Alerting, AlertsAreDistinct
  <2>8. replaced' \subseteq Tags' /\ ToSet(fired') \subseteq Tags' /\ IsInjective(fired')
    BY <1>1, <1>3, <1>7, <2>2, <2>4 DEF Alerting, AlertsAreDistinct
  <2>9. \A i \in 1 .. n + 1 : alerts'[i].status = "armed" => alerts'[i].tag \notin ToSet(fired')
    BY <1>1, <1>3, <1>4, <1>7, <2>1 DEF Alerting, AlertsAreDistinct
  <2>10. AlertsAreDistinct'
    BY <2>1, <2>6, <2>7, <2>8, <2>9 DEF AlertsAreDistinct
  <2>11. ASSUME NEW v \in Worker PROVE WalkIsSound(v)'
    <3>1. CASE v = w
      BY <1>5, <1>6, <3>1 DEF WalkIsSound
    <3>2. CASE v # w
      <4>1. task'[v] = task[v] /\ WalkIsSound(v)
        BY <1>6, <3>2 DEF Alerting
      <4> QED
        BY <1>3, <2>1, <4>1 DEF WalkIsSound, n
    <3> QED
      BY <3>1, <3>2
  <2> QED
    BY <1>1, <1>6, <2>3, <2>10, <2>11 DEF Alerting
<1>9. CASE same # {}
  <2>1. PICK k : k \in same
    BY <1>9
  <2>2. k \in 1 .. n /\ alerts[k].id = id /\ \A i \in 1 .. n : i \in same <=> i = k
    BY <1>3, <2>1 DEF Alerting, AlertsAreDistinct
  <2>3. /\ alerts' = [i \in DOMAIN alerts |-> IF i \in same THEN a ELSE alerts[i]]
        /\ replaced' = replaced \cup {alerts[i].tag : i \in same}
    BY <1>1, <1>9
  <2>4. same = {k}
    BY <1>3, <2>2
  <2>5. replaced' = replaced \cup {alerts[k].tag}
    BY <2>3, <2>4
  <2>6. alerts' = [alerts EXCEPT ![k] = a]
    BY <1>3, <2>2, <2>3, <1>2
  <2> HIDE DEF same
  <2>7. /\ alerts' \in Seq(Alert(W)) /\ Len(alerts') = n /\ DOMAIN alerts' = 1 .. n
        /\ alerts'[k] = a /\ \A i \in 1 .. n : i # k => alerts'[i] = alerts[i]
    <3>1. alerts' \in Seq(Alert(W)) /\ Len(alerts') = Len(alerts)
      BY <1>3, <1>4, <2>2, <2>6, ExceptSeq
    <3> QED
      BY <1>3, <2>2, <2>6, <3>1
  <2>8. IsFiniteSet(replaced') /\ Cardinality(replaced') = c + 1
    <3>1. alerts[k].tag \notin replaced /\ IsFiniteSet(replaced)
      BY <1>3, <2>2 DEF Alerting, AlertsAreDistinct, TableHasItsFields
    <3> QED
      BY <2>5, <3>1, FS_AddElement
  <2>9. TableHasItsFields'
    BY <1>1, <2>7, <2>8 DEF Alerting, TableHasItsFields
  <2>10. Tags' = 1 .. n + c + 1
    BY <1>3, <2>7, <2>8 DEF Tags
  <2> HIDE DEF n, c, id
  <2>11. \A i \in 1 .. n : i # k => alerts[i].id # id /\ alerts[i].tag # a.tag
                                    /\ alerts[i].tag # alerts[k].tag
    BY <1>3, <1>4, <1>7, <2>2 DEF Alerting, AlertsAreDistinct
  <2>12. \A i, j \in 1 .. n : i # j =>
           alerts'[i].tag # alerts'[j].tag /\ alerts'[i].id # alerts'[j].id
    BY <1>3, <1>4, <2>2, <2>7, <2>11 DEF Alerting, AlertsAreDistinct
  <2>13. \A i \in 1 .. n : alerts[i].tag \in Tags /\ alerts[i].tag \notin replaced
    BY <1>3 DEF Alerting, AlertsAreDistinct
  <2>14. Tags \subseteq Tags' /\ n + c + 1 \in Tags' /\ replaced \subseteq Tags
    BY <1>3, <1>7, <2>10 DEF Alerting, AlertsAreDistinct
  <2>15. n + c + 1 \notin replaced' /\ replaced' \subseteq Tags'
    BY <1>7, <2>2, <2>5, <2>13, <2>14
  <2>16. \A i \in 1 .. n : alerts'[i].tag \in Tags' \ replaced'
    <3> TAKE i \in 1 .. n
    <3>1. CASE i = k
      BY <1>4, <2>7, <2>14, <2>15, <3>1
    <3>2. CASE i # k
      BY <2>5, <2>7, <2>11, <2>13, <2>14, <3>2
    <3> QED
      BY <3>1, <3>2
  <2>17. ToSet(fired') \subseteq Tags' /\ IsInjective(fired')
    BY <1>1, <2>14 DEF Alerting, AlertsAreDistinct
  <2>18. \A i \in 1 .. n : alerts'[i].status = "armed" => alerts'[i].tag \notin ToSet(fired')
    BY <1>1, <1>3, <1>4, <1>7, <2>7 DEF Alerting, AlertsAreDistinct
  <2>19. AlertsAreDistinct'
    BY <2>7, <2>12, <2>15, <2>16, <2>17, <2>18 DEF AlertsAreDistinct
  <2>20. ASSUME NEW v \in Worker PROVE WalkIsSound(v)'
    <3>1. CASE v = w
      BY <1>5, <1>6, <3>1 DEF WalkIsSound
    <3>2. CASE v # w
      <4>1. task'[v] = task[v] /\ WalkIsSound(v) /\ Len(alerts') = Len(alerts)
        BY <1>6, <2>7, <3>2 DEF Alerting, n
      <4>2. ASSUME NEW g, Ahead(v, g) PROVE g \in replaced' \/ Ahead(v, g)'
        <5>1. PICK i \in 1 .. n :
                     i >= task[v].pos /\ alerts[i].tag = g /\ Triggers(v, alerts[i])
          BY <1>3, <4>2 DEF Ahead
        <5>2. CASE i = k
          BY <2>5, <5>1, <5>2
        <5>3. CASE i # k
          <6>1. alerts'[i] = alerts[i]
            BY <2>7, <5>3
          <6>2. Triggers(v, alerts[i])'
            BY <4>1, <5>1, <6>1 DEF Triggers
          <6> QED
            BY <2>7, <4>1, <5>1, <6>1, <6>2 DEF Ahead
        <5> QED
          BY <5>2, <5>3
      <4>3. replaced \subseteq replaced'
        BY <2>5
      <4> QED
        BY <1>1, <4>1, <4>2, <4>3 DEF WalkIsSound
    <3> QED
      BY <3>1, <3>2
  <2> QED
    BY <1>1, <1>6, <2>9, <2>19, <2>20 DEF Alerting
<1> QED
  BY <1>8, <1>9

LEMMA QuietAlerting ==
    ASSUME Alerting, UNCHANGED <<task, alerting>>
    PROVE  Alerting'
BY DEF Alerting, alerting, TasksHaveTheirFields, TableHasItsFields, AlertsAreDistinct, Tags,
       WalkIsSound, Ahead, Triggers

LEMMA NextAlerting == Alerting /\ [Next]_vars => Alerting'
<1> SUFFICES ASSUME Alerting, [Next]_vars PROVE Alerting'
  OBVIOUS
<1>1. NoTask.at = "idle" /\ NoTask \in Task({"idle", NoRequest, NoEvent, {}, 0})
  BY DEF NoTask, Task
<1>2. ASSUME NEW w \in Worker, task' = [task EXCEPT ![w] = NoTask], UNCHANGED alerting
      PROVE  Alerting'
  BY <1>1, <1>2, AwayFromTheTable
<1>3. \A w \in Worker : \E V : task[w] \in Task(V)
  BY DEF Alerting, TasksHaveTheirFields
<1>4. ASSUME NEW w \in Worker, NEW at, at \notin {"walk", "limit"},
             task' = [task EXCEPT ![w].at = at], UNCHANGED alerting
      PROVE  Alerting'
  <2> DEFINE t == [task[w] EXCEPT !.at = at]
  <2>1. PICK V : task[w] \in Task(V)
    BY <1>3
  <2>2. t \in Task(V \cup {at}) /\ t.at = at
    BY ONLY <2>1 DEF Task
  <2>3. task' = [task EXCEPT ![w] = t]
    BY <1>4
  <2> HIDE DEF t
  <2> QED
    BY <1>4, <2>2, <2>3, AwayFromTheTable
<1>5. ASSUME NEW w \in Worker, NEW req \in Request, do_POST(w, req) PROVE Alerting'
  <2> DEFINE t == [NoTask EXCEPT !.at = "limit", !.req = req]
  <2>1. t.at = "limit" /\ t.req = req
        /\ t \in Task({"idle", NoRequest, NoEvent, {}, 0} \cup {"limit", req})
    BY ONLY <1>1 DEF Task
  <2>2. task' = [task EXCEPT ![w] = t] /\ UNCHANGED alerting
    BY <1>5 DEF do_POST
  <2> HIDE DEF t
  <2> QED
    BY <2>1, <2>2, AwayFromTheTable
<1>6. ASSUME NEW w \in Worker, allow(w) PROVE Alerting'
  <2>1. UNCHANGED alerting /\ task[w].at = "limit"
        /\ (Done(w) \/ Goto(w, task[w].req.kind))
    BY <1>6 DEF allow
  <2>2. task[w].req.kind \in {"order", "alert"}
    BY <2>1, GatewayAssumption DEF Kind, Alerting, TasksHaveTheirFields
  <2> QED
    BY <1>2, <1>4, <2>1, <2>2 DEF Done, Goto
<1>7. ASSUME NEW w \in Worker, NumberTrade(w) PROVE Alerting'
  <2> DEFINE t == [task[w] EXCEPT !.at = "record", !.pos = next_seq]
  <2>1. PICK V : task[w] \in Task(V)
    BY <1>3
  <2>2. t \in Task(V \cup {"record", next_seq}) /\ t.at = "record"
    BY ONLY <2>1 DEF Task
  <2>3. task' = [task EXCEPT ![w] = t] /\ UNCHANGED alerting
    BY <1>7 DEF NumberTrade
  <2> HIDE DEF t
  <2> QED
    BY <2>2, <2>3, AwayFromTheTable
<1>8. ASSUME NEW w \in Worker, NEW kind, NEW seq, publish(w, kind, seq) PROVE Alerting'
  <2> DEFINE e == [kind |-> kind, seq |-> seq, symbol |-> task[w].req.symbol,
                   tag |-> published + 1]
             t == [task[w] EXCEPT !.at = "put", !.event = e, !.todo = subscribers]
  <2>1. PICK V : task[w] \in Task(V)
    BY <1>3
  <2>2. task' = [task EXCEPT ![w] = t] /\ UNCHANGED alerting
    BY <1>8 DEF publish
  <2> HIDE DEF e
  <2>3. t \in Task(V \cup {"put", e, subscribers}) /\ t.at = "put"
    BY ONLY <2>1 DEF Task
  <2> HIDE DEF t
  <2> QED
    BY <2>2, <2>3, AwayFromTheTable
<1>9. ASSUME NEW w \in Worker, NEW c \in Stream, PutEvent(w, c) PROVE Alerting'
  <2> DEFINE todo == task[w].todo \ {c}
             t == [task[w] EXCEPT !.todo = todo]
  <2>1. PICK V : task[w] \in Task(V)
    BY <1>3
  <2>2. task[w].at = "put" /\ task' = [task EXCEPT ![w] = t] /\ UNCHANGED alerting
    BY <1>9 DEF PutEvent
  <2> HIDE DEF todo
  <2>3. t \in Task(V \cup {todo}) /\ t.at = "put"
    BY <2>1, <2>2 DEF Task
  <2> HIDE DEF t
  <2> QED
    BY <2>2, <2>3, AwayFromTheTable
<1>10. ASSUME NEW w \in Worker, NumberAlert(w) PROVE Alerting'
  <2> DEFINE t == [task[w] EXCEPT !.at = "file", !.pos = next_id]
  <2>1. PICK V : task[w] \in Task(V)
    BY <1>3
  <2>2. t \in Task(V \cup {"file", next_id}) /\ t.at = "file"
    BY ONLY <2>1 DEF Task
  <2>3. task' = [task EXCEPT ![w] = t] /\ UNCHANGED alerting
    BY <1>10 DEF NumberAlert
  <2> HIDE DEF t
  <2> QED
    BY <2>2, <2>3, AwayFromTheTable
<1>11. CASE \E w \in Worker : on_trade(w) \/ VisitAlert(w) \/ EndWalk(w) \/ FileAlert(w)
  BY <1>11, BeginWalk, VisitKeepsAlerting, EndKeepsAlerting, FileKeepsAlerting
<1>13. CASE \E w \in Worker : RecordTrade(w) \/ EndOrder(w)
  BY <1>2, <1>4, <1>13 DEF RecordTrade, EndOrder, Done, Goto
<1>14. CASE \E w \in Worker : PublishTrade(w) \/ SaveResting(w) \/ SaveIncoming(w)
  BY <1>8, <1>14 DEF PublishTrade, SaveResting, SaveIncoming
<1>12. CASE \/ Tick \/ UNCHANGED vars
            \/ \E c \in Stream : subscribe(c) \/ SendEvent(c) \/ Heartbeat(c) \/ ClientLeaves(c)
  <2>1. UNCHANGED <<task, alerting>>
    BY <1>12 DEF Tick, vars, subscribe, SendEvent, Heartbeat, ClientLeaves
  <2> QED
    BY <2>1, QuietAlerting
<1> QED
  BY <1>5, <1>6, <1>7, <1>9, <1>10, <1>11, <1>12, <1>13, <1>14 DEF Next

\* AlertEngine.on_trade: a walk that no new alert cuts short fires every armed alert its trade
\* reached, whatever other walks fire and whatever is filed over others meanwhile; no alert
\* fires twice.
THEOREM AlertsFireOnce == Spec => []ReachedAlertsFire
<1>1. Alerting => ReachedAlertsFire
  BY DEF Alerting, AlertsAreDistinct, ReachedAlertsFire
<1> QED
  BY <1>1, InitAlerting, NextAlerting, PTL DEF Spec

-----------------------------------------------------------------------------
(* The bus and the streams. *)

Event(V) == [kind : V, seq : V, symbol : V, tag : 1 .. published]

\* A publisher that has an event for the stream; one that has one for any.
Holds(w, c) == task[w].at = "put" /\ c \in task[w].todo
Puts(w) == task[w].at = "put"

EventsAreTyped(V) ==
    /\ published \in Nat
    /\ queue \in [Stream -> Seq(Event(V))]
    /\ \A w \in Worker : Puts(w) => task[w].event \in Event(V)

BusIsTyped ==
    /\ \E V : EventsAreTyped(V)
    /\ \E S : owed \in [Stream -> S]
    /\ \E S : stream \in [Stream -> S]
    /\ subscribers \subseteq Stream

\* A stream that has not begun has nothing to come.
NothingBefore ==
    \A c \in Stream : stream[c] = "off" =>
        /\ c \notin subscribers /\ owed[c] = {} /\ queue[c] = <<>>
        /\ \A w \in Worker : ~Holds(w, c)

\* Every publisher has another event, whatever the numbers of the trades.
EventsDiffer ==
    \A v, w \in Worker : v # w /\ Puts(v) /\ Puts(w) => task[v].event # task[w].event

\* What a publisher still holds for a stream has not come to it yet.
NothingTwice ==
    \A c \in Stream :
        /\ IsInjective(queue[c])
        /\ \A w \in Worker : Holds(w, c) => task[w].event \notin ToSet(queue[c])

NothingLost == \A c \in subscribers : owed[c] = ToSet(queue[c]) \cup InHand(c)

Streaming == BusIsTyped /\ NothingBefore /\ EventsDiffer /\ NothingTwice /\ NothingLost

LEMMA Hands == \A c : InHand(c) = {task[w].event : w \in {v \in Worker : Holds(v, c)}}
BY DEF InHand, Holds

LEMMA InitStreaming == Init => Streaming
<1> SUFFICES ASSUME Init PROVE Streaming
  OBVIOUS
<1>1. /\ task = [w \in Worker |-> NoTask] /\ published = 0 /\ subscribers = {}
      /\ queue = [c \in Stream |-> <<>>] /\ owed = [c \in Stream |-> {}]
      /\ stream = [c \in Stream |-> "off"]
  BY DEF Init
<1>2. \A w \in Worker : task[w].at = "idle"
  BY <1>1 DEF NoTask
<1>3. EventsAreTyped({})
  <2>1. <<>> \in Seq(Event({}))
    OBVIOUS
  <2> QED
    BY <1>1, <1>2, <2>1 DEF EventsAreTyped, Puts
<1>4. BusIsTyped
  <2>1. owed \in [Stream -> {{}}] /\ stream \in [Stream -> {"off"}]
    BY <1>1
  <2> QED
    BY <1>1, <1>3, <2>1 DEF BusIsTyped
<1>5. NothingBefore /\ NothingLost
  BY <1>1, <1>2 DEF NothingBefore, NothingLost, Holds
<1>6. EventsDiffer
  BY <1>2 DEF EventsDiffer, Puts
<1>7. NothingTwice
  BY <1>1, <1>2 DEF NothingTwice, Holds, IsInjective
<1> QED
  BY <1>4, <1>5, <1>6, <1>7 DEF Streaming

\* What is left of a queue without its head.
LEMMA HeadTaken ==
    ASSUME NEW S, NEW q \in Seq(S), q # <<>>, IsInjective(q)
    PROVE  /\ Tail(q) \in Seq(S) /\ Head(q) \in ToSet(q)
           /\ IsInjective(Tail(q)) /\ ToSet(Tail(q)) = ToSet(q) \ {Head(q)}
<1>1. /\ Tail(q) \in Seq(S) /\ Len(q) \in Nat \ {0} /\ Head(q) = q[1]
      /\ DOMAIN q = 1 .. Len(q) /\ DOMAIN Tail(q) = 1 .. Len(q) - 1
      /\ \A i \in 1 .. Len(q) - 1 : Tail(q)[i] = q[i + 1]
  BY HeadTailProperties, LenProperties
<1>2. \A i, j \in 1 .. Len(q) : q[i] = q[j] => i = j
  BY <1>1 DEF IsInjective
<1>3. IsInjective(Tail(q))
  BY <1>1, <1>2 DEF IsInjective
<1>4. \A i \in 1 .. Len(q) : i # 1 => i - 1 \in 1 .. Len(q) - 1 /\ Tail(q)[i - 1] = q[i]
  BY <1>1
<1>5. ToSet(Tail(q)) = ToSet(q) \ {Head(q)}
  <2>1. ToSet(Tail(q)) \subseteq ToSet(q) \ {Head(q)}
    <3> SUFFICES ASSUME NEW i \in 1 .. Len(q) - 1
                 PROVE  Tail(q)[i] \in ToSet(q) \ {Head(q)}
      BY <1>1 DEF ToSet
    <3>1. i + 1 \in 1 .. Len(q) /\ i + 1 # 1 /\ 1 \in 1 .. Len(q)
      BY <1>1
    <3> QED
      BY <1>1, <1>2, <3>1 DEF ToSet
  <2>2. ToSet(q) \ {Head(q)} \subseteq ToSet(Tail(q))
    <3> SUFFICES ASSUME NEW i \in 1 .. Len(q), q[i] # Head(q)
                 PROVE  q[i] \in ToSet(Tail(q))
      BY <1>1 DEF ToSet
    <3>1. i # 1
      BY <1>1
    <3> QED
      BY <1>1, <1>4, <3>1 DEF ToSet
  <2> QED
    BY <2>1, <2>2
<1>6. Head(q) \in ToSet(q)
  BY <1>1 DEF ToSet
<1> QED
  BY <1>1, <1>3, <1>5, <1>6

\* Threads that move and put nothing.
LEMMA HandsMove ==
    ASSUME Streaming, UNCHANGED <<bus, stream>>,
           \A w \in Worker : Puts(w)' => Puts(w) /\ task'[w].event = task[w].event,
           \A w \in Worker, c \in Stream : Holds(w, c)' <=> Holds(w, c)
    PROVE  Streaming'
<1>1. UNCHANGED <<published, subscribers, queue, owed, stream>>
  BY DEF bus
<1>2. BusIsTyped'
  <2>1. PICK V : EventsAreTyped(V)
    BY DEF Streaming, BusIsTyped
  <2>2. EventsAreTyped(V)'
    BY <1>1, <2>1 DEF EventsAreTyped, Event
  <2> QED
    BY <1>1, <2>2 DEF Streaming, BusIsTyped
<1>3. NothingBefore'
  BY <1>1 DEF Streaming, NothingBefore
<1>4. EventsDiffer'
  BY DEF Streaming, EventsDiffer
<1>5. \A w \in Worker, c \in Stream : Holds(w, c) => task'[w].event = task[w].event
  BY DEF Holds, Puts
<1>6. NothingTwice'
  BY <1>1, <1>5 DEF Streaming, NothingTwice
<1>7. \A c \in Stream : InHand(c)' = InHand(c)
  <2> TAKE c \in Stream
  <2>1. InHand(c)' = {task'[w].event : w \in {v \in Worker : Holds(v, c)'}}
    BY DEF InHand, Holds
  <2> QED
    BY <1>5, <2>1, Hands
<1>8. NothingLost'
  BY <1>1, <1>7 DEF Streaming, NothingLost, BusIsTyped
<1> QED
  BY <1>2, <1>3, <1>4, <1>6, <1>8 DEF Streaming

\* A published event is one that nobody has seen, and every subscriber is owed it.
LEMMA PublishKeepsStreaming ==
    ASSUME Streaming, Alerting, NEW w \in Worker, NEW kind, NEW seq,
           publish(w, kind, seq), \A c \in Stream : ~Holds(w, c)
    PROVE  Streaming'
<1> DEFINE event == [kind |-> kind, seq |-> seq, symbol |-> task[w].req.symbol,
                     tag |-> published + 1]
<1>1. /\ published' = published + 1 /\ UNCHANGED <<subscribers, queue, stream>>
      /\ owed' = [c \in Stream |-> IF c \in subscribers THEN owed[c] \cup {event} ELSE owed[c]]
      /\ task' = [task EXCEPT ![w].at = "put", ![w].event = event, ![w].todo = subscribers]
  BY DEF publish, streaming
<1> HIDE DEF event
<1>2. /\ task'[w].at = "put" /\ task'[w].event = event /\ task'[w].todo = subscribers
      /\ \A v \in Worker \ {w} : task'[v] = task[v]
  <2>1. PICK V : task \in [Worker -> Task(V)]
    BY DEF Alerting, TasksHaveTheirFields
  <2>2. task[w] \in Task(V)
    BY <2>1
  <2> QED
    BY <1>1, <2>1, <2>2 DEF Task
<1>3. /\ \A c \in Stream : Holds(w, c)' <=> c \in subscribers
      /\ \A v \in Worker \ {w}, c \in Stream : Holds(v, c)' <=> Holds(v, c)
  BY <1>2 DEF Holds
<1>4. PICK V : EventsAreTyped(V)
  BY DEF Streaming, BusIsTyped
<1>13. PICK symbol : symbol = task[w].req.symbol
  OBVIOUS
<1> DEFINE W == V \cup {kind, seq, symbol}
           New == [kind : W, seq : W, symbol : W, tag : 1 .. published + 1]
<1>5. event \in New /\ Event(V) \subseteq New /\ New = Event(W)'
      /\ \A e \in Event(V) : e # event
  <2>1. published \in Nat /\ published' = published + 1
    BY <1>1, <1>4 DEF EventsAreTyped
  <2>2. event \in New
    BY ONLY <1>13, <2>1 DEF event
  <2>3. Event(V) \subseteq New
    BY ONLY <2>1 DEF Event
  <2>4. New = Event(W)'
    BY ONLY <2>1 DEF Event
  <2>5. \A e \in Event(V) : e # event
    BY ONLY <2>1 DEF Event, event
  <2> QED
    BY <2>2, <2>3, <2>4, <2>5
<1> HIDE DEF W, New
<1>6. EventsAreTyped(W)'
  <2>1. \A c \in Stream : queue[c] \in Seq(New)
    <3>1. \A c \in Stream : queue[c] \in Seq(Event(V))
      BY <1>4 DEF EventsAreTyped
    <3> QED
      BY <1>5, <3>1, SeqMonotonic
  <2>2. queue' \in [Stream -> Seq(New)]
    BY <1>1, <1>4, <2>1 DEF EventsAreTyped
  <2>3. \A v \in Worker : Puts(v)' => task'[v].event \in New
    BY <1>2, <1>4, <1>5 DEF EventsAreTyped, Puts
  <2>4. published' \in Nat
    BY <1>1, <1>4 DEF EventsAreTyped
  <2> QED
    BY <1>5, <2>2, <2>3, <2>4 DEF EventsAreTyped
<1>7. BusIsTyped'
  <2>1. \E S : owed' \in [Stream -> S]
    <3> DEFINE S == {owed'[c] : c \in Stream}
    <3>1. owed' \in [Stream -> S]
      BY <1>1
    <3> QED
      BY <3>1
  <2> QED
    BY <1>1, <1>6, <2>1 DEF Streaming, BusIsTyped
<1>8. NothingBefore'
  <2> SUFFICES ASSUME NEW c \in Stream, stream[c] = "off"
               PROVE  /\ c \notin subscribers /\ owed'[c] = {} /\ queue[c] = <<>>
                      /\ \A v \in Worker : ~Holds(v, c)'
    BY <1>1 DEF NothingBefore
  <2>1. /\ c \notin subscribers /\ owed[c] = {} /\ queue[c] = <<>>
        /\ \A v \in Worker : ~Holds(v, c)
    BY DEF Streaming, NothingBefore
  <2> QED
    BY <1>1, <1>3, <2>1
<1>9. EventsDiffer'
  BY <1>2, <1>4, <1>5 DEF Streaming, EventsDiffer, EventsAreTyped, Puts
<1>10. \A c \in Stream : event \notin ToSet(queue[c])
  <2> TAKE c \in Stream
  <2>1. queue[c] \in Seq(Event(V))
    BY <1>4 DEF EventsAreTyped
  <2>2. \A i \in DOMAIN queue[c] : queue[c][i] \in Event(V)
    BY <2>1
  <2> QED
    BY <1>5, <2>2 DEF ToSet
<1>11. NothingTwice'
  BY <1>1, <1>2, <1>3, <1>10 DEF Streaming, NothingTwice
<1>12. NothingLost'
  <2> SUFFICES ASSUME NEW c \in subscribers
               PROVE  owed'[c] = ToSet(queue[c]) \cup InHand(c)'
    BY <1>1 DEF NothingLost
  <2>1. c \in Stream /\ owed'[c] = owed[c] \cup {event}
    BY <1>1 DEF Streaming, BusIsTyped
  <2>2. InHand(c)' = {task'[v].event : v \in {u \in Worker : Holds(u, c)'}}
    BY DEF InHand, Holds
  <2>3. {u \in Worker : Holds(u, c)'} = {u \in Worker : Holds(u, c)} \cup {w}
    BY <1>3, <2>1
  <2>4. \A v \in Worker : Holds(v, c) => task'[v].event = task[v].event
    BY <1>2, <2>1
  <2>5. InHand(c)' = InHand(c) \cup {event}
    BY <1>2, <2>2, <2>3, <2>4, Hands
  <2> QED
    BY <2>1, <2>5 DEF Streaming, NothingLost
<1> QED
  BY <1>7, <1>8, <1>9, <1>11, <1>12 DEF Streaming

\* The event goes to the end of the queue, or is dropped because the queue is full.
LEMMA PutKeepsStreaming ==
    ASSUME Streaming, Alerting, NEW w \in Worker, NEW c \in Stream, PutEvent(w, c)
    PROVE  Streaming'
<1> DEFINE event == task[w].event
<1>1. /\ task[w].at = "put" /\ c \in task[w].todo
      /\ queue' = IF Full(c) THEN queue ELSE [queue EXCEPT ![c] = Append(@, event)]
      /\ owed' = IF Full(c) THEN [owed EXCEPT ![c] = @ \ {event}] ELSE owed
      /\ task' = [task EXCEPT ![w].todo = @ \ {c}]
      /\ UNCHANGED <<published, subscribers, stream>>
  BY DEF PutEvent, put_nowait, streaming
<1> HIDE DEF event
<1>2. /\ task'[w].at = "put" /\ task'[w].event = event /\ task'[w].todo = task[w].todo \ {c}
      /\ \A v \in Worker \ {w} : task'[v] = task[v]
  <2>1. PICK V : task \in [Worker -> Task(V)]
    BY DEF Alerting, TasksHaveTheirFields
  <2>2. task[w] \in Task(V)
    BY <2>1
  <2> QED
    BY <1>1, <2>1, <2>2 DEF Task, event
<1>3. /\ Holds(w, c) /\ ~Holds(w, c)' /\ Puts(w) /\ Puts(w)'
      /\ \A d \in Stream \ {c} : Holds(w, d)' <=> Holds(w, d)
      /\ \A v \in Worker \ {w} : Puts(v)' <=> Puts(v)
      /\ \A v \in Worker \ {w}, d \in Stream : Holds(v, d)' <=> Holds(v, d)
      /\ \A v \in Worker : task'[v].event = task[v].event
  BY <1>1, <1>2 DEF Holds, Puts, event
<1>4. PICK V : EventsAreTyped(V)
  BY DEF Streaming, BusIsTyped
<1>5. event \in Event(V) /\ queue[c] \in Seq(Event(V)) /\ queue \in [Stream -> Seq(Event(V))]
  BY <1>3, <1>4 DEF EventsAreTyped, event
<1>6. /\ queue' \in [Stream -> Seq(Event(V))]
      /\ \A d \in Stream \ {c} : queue'[d] = queue[d] /\ owed'[d] = owed[d]
      /\ \E S : owed' \in [Stream -> S]
      /\ \/ queue'[c] = queue[c] /\ owed'[c] = owed[c] \ {event}
         \/ queue'[c] = Append(queue[c], event) /\ owed'[c] = owed[c]
  <2>1. PICK S : owed \in [Stream -> S]
    BY DEF Streaming, BusIsTyped
  <2>2. CASE Full(c)
    <3>1. /\ queue' = queue /\ owed' \in [Stream -> S \cup {owed[c] \ {event}}]
          /\ owed'[c] = owed[c] \ {event} /\ \A d \in Stream \ {c} : owed'[d] = owed[d]
      BY <1>1, <2>1, <2>2
    <3>2. \E R : owed' \in [Stream -> R]
      BY ONLY <3>1
    <3> QED
      BY <1>5, <3>1, <3>2
  <2>3. CASE ~Full(c)
    <3> DEFINE q == Append(queue[c], event)
    <3>1. q \in Seq(Event(V))
      BY <1>5, AppendProperties
    <3>2. queue' = [queue EXCEPT ![c] = q] /\ owed' = owed
      BY <1>1, <2>3
    <3> HIDE DEF q
    <3>3. queue' \in [Stream -> Seq(Event(V))] /\ queue'[c] = q
          /\ \A d \in Stream \ {c} : queue'[d] = queue[d]
      BY <1>5, <3>1, <3>2
    <3> QED
      BY <2>1, <3>2, <3>3 DEF q
  <2> QED
    BY <2>2, <2>3
<1>7. BusIsTyped'
  <2>1. EventsAreTyped(V)'
    BY <1>1, <1>3, <1>4, <1>6 DEF EventsAreTyped, Event, Puts
  <2> QED
    BY <1>1, <1>6, <2>1 DEF Streaming, BusIsTyped
<1>8. NothingBefore'
  <2>1. stream[c] # "off"
    BY <1>3 DEF Streaming, NothingBefore
  <2>2. \A v \in Worker, d \in Stream : Holds(v, d)' => Holds(v, d)
    BY <1>3
  <2> QED
    BY <1>1, <1>6, <2>1, <2>2 DEF Streaming, NothingBefore
<1>9. EventsDiffer'
  BY <1>3 DEF Streaming, EventsDiffer
<1>10. event \notin ToSet(queue[c]) /\ IsInjective(queue[c])
  BY <1>3 DEF Streaming, NothingTwice, event
<1>11. \A v \in Worker \ {w} : Puts(v) => task[v].event # event
  BY <1>3 DEF Streaming, EventsDiffer, event
<1>12. /\ IsInjective(queue'[c])
       /\ ToSet(queue'[c]) \in {ToSet(queue[c]), ToSet(queue[c]) \cup {event}}
       /\ \/ ToSet(queue'[c]) = ToSet(queue[c]) /\ owed'[c] = owed[c] \ {event}
          \/ ToSet(queue'[c]) = ToSet(queue[c]) \cup {event} /\ owed'[c] = owed[c]
  <2>1. IsInjective(Append(queue[c], event))
    BY <1>5, <1>10, AppendedInjective
  <2>2. ToSet(Append(queue[c], event)) = ToSet(queue[c]) \cup {event}
    BY <1>5, AppendedSet
  <2> QED
    BY <1>6, <1>10, <2>1, <2>2
<1>13. NothingTwice'
  <2> SUFFICES ASSUME NEW d \in Stream
               PROVE  /\ IsInjective(queue'[d])
                      /\ \A v \in Worker : Holds(v, d)' => task'[v].event \notin ToSet(queue'[d])
    BY DEF NothingTwice
  <2>1. CASE d # c
    <3>1. \A v \in Worker : Holds(v, d)' => Holds(v, d)
      BY <1>3
    <3> QED
      BY <1>3, <1>6, <2>1, <3>1 DEF Streaming, NothingTwice
  <2>2. CASE d = c
    <3>1. ASSUME NEW v \in Worker, Holds(v, c)' PROVE task'[v].event \notin ToSet(queue'[c])
      <4>1. v # w /\ Holds(v, c)
        BY <1>3, <3>1
      <4>2. task[v].event # event /\ task[v].event \notin ToSet(queue[c])
        BY <1>11, <4>1 DEF Streaming, NothingTwice, Holds, Puts
      <4> QED
        BY <1>3, <1>12, <4>2
    <3> QED
      BY <1>12, <2>2, <3>1
  <2> QED
    BY <2>1, <2>2
<1>14. InHand(c)' = InHand(c) \ {event} /\ event \in InHand(c)
  <2>1. InHand(c)' = {task'[v].event : v \in {u \in Worker : Holds(u, c)'}}
    BY DEF InHand, Holds
  <2>2. {u \in Worker : Holds(u, c)'} = {u \in Worker : Holds(u, c)} \ {w}
    BY <1>3
  <2>3. InHand(c)' = {task[v].event : v \in {u \in Worker : Holds(u, c)} \ {w}}
    BY <1>3, <2>1, <2>2
  <2>4. \A v \in Worker \ {w} : Holds(v, c) => task[v].event # event
    BY <1>11 DEF Holds, Puts
  <2> QED
    BY <1>3, <2>3, <2>4, Hands DEF event
<1>15. \A d \in Stream \ {c} : InHand(d)' = InHand(d)
  <2> TAKE d \in Stream \ {c}
  <2>1. InHand(d)' = {task'[v].event : v \in {u \in Worker : Holds(u, d)'}}
    BY DEF InHand, Holds
  <2>2. {u \in Worker : Holds(u, d)'} = {u \in Worker : Holds(u, d)}
    BY <1>3
  <2> QED
    BY <1>3, <2>1, <2>2, Hands
<1>16. NothingLost'
  <2> SUFFICES ASSUME NEW d \in subscribers
               PROVE  owed'[d] = ToSet(queue'[d]) \cup InHand(d)'
    BY <1>1 DEF NothingLost
  <2>1. d \in Stream /\ owed[d] = ToSet(queue[d]) \cup InHand(d)
    BY DEF Streaming, BusIsTyped, NothingLost
  <2>2. CASE d # c
    BY <1>6, <1>15, <2>1, <2>2
  <2>3. CASE d = c
    BY <1>10, <1>12, <1>14, <2>1, <2>3
  <2> QED
    BY <2>2, <2>3
<1> QED
  BY <1>7, <1>8, <1>9, <1>13, <1>16 DEF Streaming

\* A stream's thread takes what it has done with from its queue and from what it is owed.
LEMMA StreamMoves ==
    ASSUME Streaming, NEW c \in Stream, UNCHANGED <<task, published>>,
           BusIsTyped', stream'[c] # "off",
           \A d \in Stream \ {c} : /\ queue'[d] = queue[d] /\ owed'[d] = owed[d]
                                   /\ stream'[d] = stream[d]
                                   /\ d \in subscribers' <=> d \in subscribers,
           IsInjective(queue'[c]), ToSet(queue'[c]) \subseteq ToSet(queue[c]),
           c \in subscribers' => owed'[c] = ToSet(queue'[c]) \cup InHand(c)
    PROVE  Streaming'
<1>1. \A w \in Worker, d \in Stream : Holds(w, d)' <=> Holds(w, d)
  BY DEF Holds
<1>2. \A d \in Stream : InHand(d)' = InHand(d)
  BY DEF InHand
<1>3. NothingBefore'
  BY <1>1 DEF Streaming, NothingBefore
<1>4. EventsDiffer'
  BY DEF Streaming, EventsDiffer, Puts
<1>5. NothingTwice'
  BY <1>1 DEF Streaming, NothingTwice
<1>6. NothingLost'
  BY <1>2 DEF Streaming, NothingLost, BusIsTyped
<1> QED
  BY <1>3, <1>4, <1>5, <1>6 DEF Streaming

LEMMA SubscribeKeepsStreaming ==
    ASSUME Streaming, UNCHANGED task, NEW c \in Stream, subscribe(c)
    PROVE  Streaming'
<1>1. /\ stream[c] = "off" /\ stream' = [stream EXCEPT ![c] = "on"]
      /\ subscribers' = subscribers \cup {c} /\ UNCHANGED <<published, queue, owed>>
  BY DEF subscribe
<1>2. PICK S : stream \in [Stream -> S]
  BY DEF Streaming, BusIsTyped
<1>3. /\ stream' \in [Stream -> S \cup {"on"}] /\ stream'[c] = "on"
      /\ \A d \in Stream \ {c} : stream'[d] = stream[d]
  BY <1>1, <1>2
<1>4. BusIsTyped'
  <2>1. PICK V : EventsAreTyped(V)
    BY DEF Streaming, BusIsTyped
  <2>2. EventsAreTyped(V)'
    BY <1>1, <2>1 DEF EventsAreTyped, Event, Puts
  <2> QED
    BY <1>1, <1>3, <2>2 DEF Streaming, BusIsTyped
<1>5. owed[c] = {} /\ queue[c] = <<>> /\ IsInjective(queue[c])
      /\ \A w \in Worker : ~Holds(w, c)
  BY <1>1 DEF Streaming, NothingBefore, NothingTwice
<1>6. owed[c] = ToSet(queue[c]) \cup InHand(c)
  <2>1. ToSet(queue[c]) = {}
    BY <1>5 DEF ToSet
  <2>2. InHand(c) = {}
    BY <1>5, Hands
  <2> QED
    BY <1>5, <2>1, <2>2
<1> QED
  BY <1>1, <1>3, <1>4, <1>5, <1>6, StreamMoves

\* What a write changes, of a thread that has begun.
LEMMA WriteMoves ==
    ASSUME Streaming, NEW c \in Stream, stream[c] = "on", Write(c)
    PROVE  /\ \E S : stream' \in [Stream -> S]
           /\ stream'[c] # "off" /\ \A d \in Stream \ {c} : stream'[d] = stream[d]
           /\ subscribers' \subseteq subscribers
           /\ \A d \in Stream \ {c} : d \in subscribers' <=> d \in subscribers
<1>1. PICK S : stream \in [Stream -> S]
  BY DEF Streaming, BusIsTyped
<1>2. CASE client[c] = "reset"
  <2>1. subscribers' = subscribers \ {c} /\ stream' = [stream EXCEPT ![c] = "closed"]
    BY <1>2 DEF Write
  <2>2. stream' \in [Stream -> S \cup {"closed"}] /\ stream'[c] = "closed"
        /\ \A d \in Stream \ {c} : stream'[d] = stream[d]
    BY <1>1, <2>1
  <2> QED
    BY <2>1, <2>2
<1>3. CASE client[c] # "reset"
  BY <1>1, <1>3 DEF Write
<1> QED
  BY <1>2, <1>3

LEMMA HeartbeatKeepsStreaming ==
    ASSUME Streaming, UNCHANGED task, NEW c \in Stream, Heartbeat(c)
    PROVE  Streaming'
<1>1. stream[c] = "on" /\ Write(c) /\ UNCHANGED <<published, queue, owed>>
  BY DEF Heartbeat, TimedOut
<1>2. /\ \E S : stream' \in [Stream -> S]
      /\ stream'[c] # "off" /\ \A d \in Stream \ {c} : stream'[d] = stream[d]
      /\ subscribers' \subseteq subscribers
      /\ \A d \in Stream \ {c} : d \in subscribers' <=> d \in subscribers
  BY <1>1, WriteMoves
<1>3. BusIsTyped'
  <2>1. PICK V : EventsAreTyped(V)
    BY DEF Streaming, BusIsTyped
  <2>2. EventsAreTyped(V)'
    BY <1>1, <2>1 DEF EventsAreTyped, Event, Puts
  <2> QED
    BY <1>1, <1>2, <2>2 DEF Streaming, BusIsTyped
<1>4. IsInjective(queue[c]) /\ (c \in subscribers' => owed[c] = ToSet(queue[c]) \cup InHand(c))
  BY <1>2 DEF Streaming, NothingTwice, NothingLost
<1> QED
  BY <1>1, <1>2, <1>3, <1>4, StreamMoves

LEMMA SendKeepsStreaming ==
    ASSUME Streaming, UNCHANGED task, NEW c \in Stream, SendEvent(c)
    PROVE  Streaming'
<1> DEFINE event == Head(queue[c])
           q == Tail(queue[c])
<1>1. /\ stream[c] = "on" /\ queue[c] # <<>> /\ queue' = [queue EXCEPT ![c] = q]
      /\ owed' = [owed EXCEPT ![c] = @ \ {event}]
      /\ (Write(c) \/ UNCHANGED <<subscribers, stream>>) /\ UNCHANGED published
  BY DEF SendEvent, streaming
<1>2. PICK V : EventsAreTyped(V)
  BY DEF Streaming, BusIsTyped
<1>3. /\ queue[c] \in Seq(Event(V)) /\ IsInjective(queue[c])
      /\ \A w \in Worker : Holds(w, c) => task[w].event \notin ToSet(queue[c])
  BY <1>2 DEF EventsAreTyped, Streaming, NothingTwice
<1>4. /\ q \in Seq(Event(V)) /\ event \in ToSet(queue[c])
      /\ IsInjective(q) /\ ToSet(q) = ToSet(queue[c]) \ {event}
  <2> DEFINE s == queue[c]
             S == Event(V)
  <2>1. s \in Seq(S) /\ s # <<>> /\ IsInjective(s)
    BY <1>1, <1>3
  <2> HIDE DEF s, S
  <2>2. /\ Tail(s) \in Seq(S) /\ Head(s) \in ToSet(s)
        /\ IsInjective(Tail(s)) /\ ToSet(Tail(s)) = ToSet(s) \ {Head(s)}
    BY ONLY <2>1, HeadTaken
  <2> QED
    BY <2>2 DEF s, S
<1> HIDE DEF event, q
<1>5. event \notin InHand(c)
  BY <1>3, <1>4, Hands
<1>6. /\ queue' \in [Stream -> Seq(Event(V))] /\ queue'[c] = q
      /\ \A d \in Stream \ {c} : queue'[d] = queue[d]
  BY <1>1, <1>2, <1>4 DEF EventsAreTyped
<1>7. PICK S : owed \in [Stream -> S]
  BY DEF Streaming, BusIsTyped
<1>8. /\ owed' \in [Stream -> S \cup {owed[c] \ {event}}] /\ owed'[c] = owed[c] \ {event}
      /\ \A d \in Stream \ {c} : owed'[d] = owed[d]
  BY <1>1, <1>7
<1>9. /\ \E R : stream' \in [Stream -> R]
      /\ stream'[c] # "off" /\ \A d \in Stream \ {c} : stream'[d] = stream[d]
      /\ subscribers' \subseteq subscribers
      /\ \A d \in Stream \ {c} : d \in subscribers' <=> d \in subscribers
  <2>1. CASE Write(c)
    BY <1>1, <2>1, WriteMoves
  <2>2. CASE UNCHANGED <<subscribers, stream>>
    BY <1>1, <2>2 DEF Streaming, BusIsTyped
  <2> QED
    BY <1>1, <2>1, <2>2
<1>10. BusIsTyped'
  <2>1. EventsAreTyped(V)'
    BY <1>1, <1>2, <1>6 DEF EventsAreTyped, Event, Puts
  <2>2. \E R : owed' \in [Stream -> R]
    BY <1>8
  <2>3. subscribers' \subseteq Stream
    BY <1>9 DEF Streaming, BusIsTyped
  <2> QED
    BY <1>9, <2>1, <2>2, <2>3 DEF BusIsTyped
<1>11. c \in subscribers' => owed'[c] = ToSet(queue'[c]) \cup InHand(c)
  <2>1. c \in subscribers' => owed[c] = ToSet(queue[c]) \cup InHand(c)
    BY <1>9 DEF Streaming, NothingLost
  <2> QED
    BY <1>4, <1>5, <1>6, <1>8, <2>1
<1> QED
  BY <1>1, <1>4, <1>6, <1>8, <1>9, <1>10, <1>11, StreamMoves

LEMMA NextStreaming == Streaming /\ Alerting /\ [Next]_vars => Streaming'
<1> SUFFICES ASSUME Streaming, Alerting, [Next]_vars PROVE Streaming'
  OBVIOUS
<1>1. PICK V : task \in [Worker -> Task(V)]
  BY DEF Alerting, TasksHaveTheirFields
\* A thread that holds nothing before, and puts nothing after.
<1>2. ASSUME NEW w \in Worker, NEW t, task' = [task EXCEPT ![w] = t], t.at # "put",
             \A c \in Stream : ~Holds(w, c), UNCHANGED <<bus, stream>>
      PROVE  Streaming'
  <2>1. task'[w] = t /\ \A v \in Worker \ {w} : task'[v] = task[v]
    BY <1>1, <1>2
  <2>2. ~Puts(w)' /\ \A c \in Stream : ~Holds(w, c)'
    BY <1>2, <2>1 DEF Puts, Holds
  <2>3. \A v \in Worker \ {w} : /\ Puts(v)' <=> Puts(v)
                                /\ \A c \in Stream : Holds(v, c)' <=> Holds(v, c)
    BY <2>1 DEF Puts, Holds
  <2> QED
    BY <1>2, <2>1, <2>2, <2>3, HandsMove
<1>3. ASSUME NEW w \in Worker, NEW at, task' = [task EXCEPT ![w].at = at],
             at # "put", \A c \in Stream : ~Holds(w, c), UNCHANGED <<bus, stream>>
      PROVE  Streaming'
  <2> DEFINE t == [task[w] EXCEPT !.at = at]
  <2>1. task[w] \in Task(V)
    BY <1>1
  <2>2. t.at = at
    BY <2>1 DEF Task
  <2>3. task' = [task EXCEPT ![w] = t]
    BY <1>3
  <2> HIDE DEF t
  <2> QED
    BY <1>2, <1>3, <2>2, <2>3
<1>4. NoTask.at = "idle"
  BY DEF NoTask
<1>5. ASSUME UNCHANGED <<task, bus, stream>> PROVE Streaming'
  BY <1>5, HandsMove DEF Holds, Puts
\* A thread that has handed its event to everybody holds it for nobody.
<1>6. ASSUME NEW w \in Worker, task[w].at # "put" \/ task[w].todo = {}
      PROVE  \A c \in Stream : ~Holds(w, c)
  BY <1>6 DEF Holds
<1>7. ASSUME NEW w \in Worker, NEW req \in Request, do_POST(w, req) PROVE Streaming'
  <2> DEFINE t == [NoTask EXCEPT !.at = "limit", !.req = req]
  <2>1. t.at = "limit"
    BY DEF NoTask
  <2>2. task' = [task EXCEPT ![w] = t] /\ task[w].at = "idle" /\ UNCHANGED <<bus, stream>>
    BY <1>4, <1>7 DEF do_POST, streaming
  <2> HIDE DEF t
  <2> QED
    BY <1>2, <1>6, <2>1, <2>2
<1>8. ASSUME NEW w \in Worker, allow(w) PROVE Streaming'
  <2>1. UNCHANGED <<bus, stream>> /\ task[w].at = "limit"
        /\ (Done(w) \/ Goto(w, task[w].req.kind))
    BY <1>8 DEF allow, streaming
  <2>2. task[w].req.kind \in {"order", "alert"}
    BY <2>1, GatewayAssumption DEF Kind, Alerting, TasksHaveTheirFields
  <2> QED
    BY <1>2, <1>3, <1>4, <1>6, <2>1, <2>2 DEF Done, Goto
<1>9. ASSUME NEW w \in Worker, RecordTrade(w) \/ EndOrder(w) \/ EndWalk(w) \/ FileAlert(w)
      PROVE  Streaming'
  <2>1. /\ UNCHANGED <<bus, stream>> /\ (task[w].at # "put" \/ task[w].todo = {})
        /\ (Done(w) \/ Goto(w, "settled") \/ Goto(w, "save"))
    BY <1>9 DEF RecordTrade, EndOrder, HasPut, EndWalk, FileAlert, Done, streaming
  <2> QED
    BY <1>2, <1>3, <1>4, <1>6, <2>1 DEF Done, Goto
<1>10. ASSUME NEW w \in Worker,
              PublishTrade(w) \/ SaveResting(w) \/ SaveIncoming(w)
       PROVE  Streaming'
  <2>1. \A c \in Stream : ~Holds(w, c)
    BY <1>6, <1>10 DEF PublishTrade, SaveResting, SaveIncoming, HasPut
  <2> QED
    BY <1>10, <2>1, PublishKeepsStreaming DEF PublishTrade, SaveResting, SaveIncoming
<1>11. CASE \E w \in Worker, c \in Stream : PutEvent(w, c)
  BY <1>11, PutKeepsStreaming
<1>12. ASSUME NEW w \in Worker, NEW stage, task[w].at # "put" \/ task[w].todo = {},
              stage # "put", UNCHANGED <<bus, stream>>,
              task'[w].at = stage, \A v \in Worker \ {w} : task'[v] = task[v]
       PROVE  Streaming'
  <2>1. ~Puts(w)' /\ \A c \in Stream : ~Holds(w, c) /\ ~Holds(w, c)'
    BY <1>12 DEF Puts, Holds
  <2>2. \A v \in Worker \ {w} : /\ Puts(v)' <=> Puts(v)
                                /\ \A c \in Stream : Holds(v, c)' <=> Holds(v, c)
    BY <1>12 DEF Puts, Holds
  <2> QED
    BY <1>12, <2>1, <2>2, HandsMove
<1>13. ASSUME NEW w \in Worker, on_trade(w) PROVE Streaming'
  <2> DEFINE hits == {alerts[i].tag : i \in {j \in DOMAIN alerts : Triggers(w, alerts[j])}}
  <2>1. task[w] \in Task(V)
    BY <1>1
  <2>2. /\ task[w].todo = {} /\ UNCHANGED <<bus, stream>>
        /\ task' = [task EXCEPT ![w].at = "walk", ![w].pos = 1, ![w].size = Len(alerts),
                                ![w].reached = hits]
    BY <1>13 DEF on_trade, HasPut, streaming
  <2> HIDE DEF hits
  <2>3. task'[w].at = "walk" /\ \A v \in Worker \ {w} : task'[v] = task[v]
    BY <1>1, <2>1, <2>2 DEF Task
  <2> QED
    BY <1>12, <2>2, <2>3
<1>14. ASSUME NEW w \in Worker, VisitAlert(w) PROVE Streaming'
  <2>1. task[w] \in Task(V)
    BY <1>1
  <2>2. /\ task[w].at = "walk" /\ UNCHANGED <<bus, stream>>
        /\ task' = [task EXCEPT ![w].pos = task[w].pos + 1]
    BY <1>14 DEF VisitAlert, NextPos, streaming
  <2>3. task'[w].at = "walk" /\ \A v \in Worker \ {w} : task'[v] = task[v]
    BY <1>1, <2>1, <2>2 DEF Task
  <2> QED
    BY <1>12, <2>2, <2>3
<1>15. ASSUME NEW w \in Worker, NumberAlert(w) PROVE Streaming'
  <2>1. task[w] \in Task(V)
    BY <1>1
  <2>2. /\ task[w].at = "alert" /\ UNCHANGED <<bus, stream>>
        /\ task' = [task EXCEPT ![w].at = "file", ![w].pos = next_id]
    BY <1>15 DEF NumberAlert, streaming
  <2>3. task'[w].at = "file" /\ \A v \in Worker \ {w} : task'[v] = task[v]
    BY <1>1, <2>1, <2>2 DEF Task
  <2> QED
    BY <1>12, <2>2, <2>3
<1>16. ASSUME NEW w \in Worker, NumberTrade(w) PROVE Streaming'
  <2>1. task[w] \in Task(V)
    BY <1>1
  <2>2. /\ task[w].at = "order" /\ UNCHANGED <<bus, stream>>
        /\ task' = [task EXCEPT ![w].at = "record", ![w].pos = next_seq]
    BY <1>16 DEF NumberTrade, streaming
  <2>3. task'[w].at = "record" /\ \A v \in Worker \ {w} : task'[v] = task[v]
    BY <1>1, <2>1, <2>2 DEF Task
  <2> QED
    BY <1>12, <2>2, <2>3
<1>17. ASSUME NEW c \in Stream, subscribe(c) \/ SendEvent(c) \/ Heartbeat(c) PROVE Streaming'
  <2>1. UNCHANGED task
    BY <1>17 DEF subscribe, SendEvent, Heartbeat
  <2> QED
    BY <1>17, <2>1, SubscribeKeepsStreaming, SendKeepsStreaming, HeartbeatKeepsStreaming
<1>18. CASE Tick \/ UNCHANGED vars \/ \E c \in Stream : ClientLeaves(c)
  <2>1. UNCHANGED <<task, bus, stream>>
    BY <1>18 DEF Tick, vars, ClientLeaves, streaming
  <2> QED
    BY <1>5, <2>1
<1> QED
  BY <1>7, <1>8, <1>9, <1>10, <1>11, <1>13, <1>14, <1>15, <1>16, <1>17, <1>18 DEF Next

\* EventBus.publish and _stream: however the steps of threads that publish, subscribe and
\* leave fall, and whichever numbers their trades share, what a subscriber is owed is waiting
\* in its queue or in a publisher's hands, in one place and once.
THEOREM StreamsAreComplete == Spec => []StreamIsComplete
<1>1. Streaming => StreamIsComplete
  <2> SUFFICES ASSUME Streaming, NEW c \in subscribers
               PROVE  /\ owed[c] = ToSet(queue[c]) \cup InHand(c)
                      /\ IsInjective(queue[c]) /\ ToSet(queue[c]) \cap InHand(c) = {}
    BY DEF StreamIsComplete
  <2>1. c \in Stream
    BY DEF Streaming, BusIsTyped
  <2>2. \A w \in Worker : Holds(w, c) => task[w].event \notin ToSet(queue[c])
    BY <2>1 DEF Streaming, NothingTwice
  <2> QED
    BY <2>1, <2>2, Hands DEF Streaming, NothingTwice, NothingLost
<1> QED
  BY <1>1, InitAlerting, NextAlerting, InitStreaming, NextStreaming, PTL DEF Spec
=============================================================================
