--------------------------- MODULE AccountsProofs ---------------------------
(***************************************************************************)
(* The accounts, for any accounts, threads, amounts and restarts: which    *)
(* deposits can be taken for earlier ones, that cost basis stays sound,    *)
(* what the balances in memory differ from the journal by, that of the     *)
(* money from outside included, and that no dividend is paid twice.        *)
(***************************************************************************)
EXTENDS Accounts, SumTheorems, SequenceTheorems

Posting == {"post", "read_out", "store_out", "read_in", "store_in", "write"}
Applying == {"read_out", "store_out", "read_in", "store_in"}

\* The names of the journal's rows, and of those that were there when the process started.
Rows == {journal[n].txn : n \in 1 .. Len(journal)}
Earlier == {journal[n].txn : n \in 1 .. boot}

\* What kind of thing the variables are, as far as the argument needs it.
Shapes ==
    /\ \E S : journal \in Seq(S)
    /\ \E S : task \in [Thread -> S]
    /\ fund_seq \in Nat /\ boot \in 0 .. Len(journal) /\ boot <= fund_seq
    /\ met \subseteq Clerk

RowsAreApplied == Rows \subseteq applied

\* No deposit applied since the process started has a number that is still to come.
NumbersAreTaken ==
    \A x \in applied : x.kind = "fund" =>
        x.seq \in Nat /\ (x \in Earlier \/ x.seq <= fund_seq)

\* Where each thread is, and what it has at hand there.
TasksAreInOrder ==
    /\ \A t \in Thread : task[t].at \in {"idle", "number"} \cup Posting
    /\ \A t \in Thread : task[t].at = "write" => task[t].txn \in applied
    /\ \A t \in Clerk : task[t].at \in Posting =>
          /\ task[t].txn.kind = "fund" /\ task[t].txn.account = task[t].account
          /\ task[t].txn.seq \in Nat /\ boot < task[t].txn.seq /\ task[t].txn.seq <= fund_seq
    /\ \A t \in Clerk : task[t].at = "number" => boot < fund_seq
    /\ task[Admin].at # "number"
    /\ task[Admin].at \in Posting => task[Admin].txn.kind = "div"

Numbering(t, a) == task[t].at = "number" /\ task[t].account = a
PostingAt(t, a) == task[t].at \in Posting /\ task[t].account = a

\* Two deposits of one account between counter and number are noticed.
OverlapsAreNoticed ==
    \A t, u \in Clerk :
        t # u /\ Numbering(t, task[u].account) /\ Numbering(u, task[u].account) => t \in met

\* The number such a deposit is about to read, unnoticed, is above those of its account.
NumbersAreNew ==
    \A t \in Clerk : Numbering(t, task[t].account) /\ t \notin met =>
        /\ \A x \in applied : x.kind = "fund" /\ x.account = task[t].account =>
              x \in Earlier \/ x.seq < fund_seq
        /\ \A u \in Clerk : PostingAt(u, task[t].account) => task[u].txn.seq < fund_seq
NumbersAreLeft ==
    \A t, u \in Clerk :
        PostingAt(t, task[u].account) /\ Numbering(u, task[u].account) /\ t \notin met =>
            task[t].txn.seq < fund_seq

\* A posting that met no other has a name to itself.
Apart(t) ==
    /\ \A u \in Thread : u # t /\ task[u].at \in Posting => task[u].txn # task[t].txn
    /\ t \in Clerk /\ task[t].at = "post" => task[t].txn \notin applied \/ task[t].txn \in Earlier
    /\ task[t].at \in Applying => task[t].txn \notin applied
    /\ task[t].at = "write" => task[t].txn \notin Rows
PostingsAreApart == \A t \in Thread \ met : task[t].at \in Posting => Apart(t)

Inv ==
    /\ Shapes /\ RowsAreApplied /\ NumbersAreTaken /\ TasksAreInOrder
    /\ OverlapsAreNoticed /\ NumbersAreNew /\ NumbersAreLeft /\ PostingsAreApart

-----------------------------------------------------------------------------
LEMMA InitInv == Init => Inv
<1> SUFFICES ASSUME Init PROVE Inv
  OBVIOUS
<1>1. /\ journal = <<>> /\ applied = {} /\ fund_seq = 0 /\ boot = 0 /\ met = {}
      /\ task = [t \in Thread |-> NoTask]
  BY DEF Init
<1>2. Shapes
  <2>1. journal \in Seq({}) /\ Len(journal) = 0
    BY <1>1
  <2>2. task \in [Thread -> {NoTask}]
    BY <1>1
  <2>3. (\E S : journal \in Seq(S)) /\ (\E S : task \in [Thread -> S])
    BY ONLY <2>1, <2>2, Zenon
  <2>4. fund_seq \in Nat /\ boot \in 0 .. Len(journal) /\ boot <= fund_seq /\ met \subseteq Clerk
    BY <1>1, <2>1
  <2> QED
    BY ONLY <2>3, <2>4 DEF Shapes
<1>3. RowsAreApplied /\ NumbersAreTaken
  BY <1>1 DEF RowsAreApplied, NumbersAreTaken, Rows
<1>4. \A t \in Thread : task[t].at = "idle"
  BY <1>1 DEF NoTask
<1>5. /\ TasksAreInOrder /\ OverlapsAreNoticed /\ NumbersAreNew /\ NumbersAreLeft
      /\ PostingsAreApart
  BY <1>4 DEF TasksAreInOrder, OverlapsAreNoticed, NumbersAreNew, NumbersAreLeft,
              PostingsAreApart, Numbering, Posting, Thread
<1> QED
  BY <1>2, <1>3, <1>5 DEF Inv

\* A step after which the thread is still a function of the threads.
LEMMA TaskStep ==
    ASSUME Shapes, NEW t \in Thread, NEW r, task' = [task EXCEPT ![t] = r]
    PROVE  /\ \E S : task' \in [Thread -> S]
           /\ task'[t] = r
           /\ \A u \in Thread \ {t} : task'[u] = task[u]
<1>1. PICK S : task \in [Thread -> S]
  BY DEF Shapes
<1>2. task' \in [Thread -> S \cup {r}]
  BY <1>1
<1> QED
  BY <1>1, <1>2

LEMMA JournalStep ==
    ASSUME Shapes, NEW row, journal' = Append(journal, row)
    PROVE  /\ \E S : journal' \in Seq(S)
           /\ Len(journal) \in Nat /\ Len(journal') = Len(journal) + 1
           /\ \A n \in 1 .. Len(journal) : journal'[n] = journal[n]
           /\ journal'[Len(journal) + 1] = row
<1>1. PICK S : journal \in Seq(S)
  BY DEF Shapes
<1>2. journal \in Seq(S \cup {row})
  BY <1>1
<1>3. journal' \in Seq(S \cup {row})
  BY <1>2
<1> QED
  BY <1>2, <1>3

\* The names in the journal, when a row is added or none.
LEMMA RowsStep ==
    ASSUME Shapes, NEW row, journal' = journal \/ journal' = Append(journal, row), boot' = boot
    PROVE  /\ \E S : journal' \in Seq(S)
           /\ boot' \in 0 .. Len(journal')
           /\ Earlier' = Earlier
           /\ Rows' = IF journal' = journal THEN Rows ELSE Rows \cup {row.txn}
<1>1. CASE journal' = journal
  BY <1>1 DEF Shapes, Earlier, Rows
<1>2. CASE journal' = Append(journal, row)
  <2>1. /\ \E S : journal' \in Seq(S)
        /\ Len(journal) \in Nat /\ Len(journal') = Len(journal) + 1
        /\ \A n \in 1 .. Len(journal) : journal'[n] = journal[n]
        /\ journal'[Len(journal) + 1] = row
    BY <1>2, JournalStep
  <2>2. boot \in Nat /\ boot <= Len(journal)
    BY <2>1 DEF Shapes
  <2>3. boot' \in 0 .. Len(journal')
    BY <2>1, <2>2
  <2>4. Earlier' = Earlier
    <3>1. \A n \in 1 .. boot : n \in 1 .. Len(journal)
      BY <2>1, <2>2
    <3> QED
      BY <2>1, <3>1 DEF Earlier
  <2>5. Rows' = Rows \cup {row.txn}
    <3>1. 1 .. Len(journal') = (1 .. Len(journal)) \cup {Len(journal) + 1}
      BY <2>1
    <3> QED
      BY <2>1, <3>1 DEF Rows
  <2>6. journal' # journal
    BY <2>1
  <2> QED
    BY <2>1, <2>3, <2>4, <2>5, <2>6
<1> QED
  BY <1>1, <1>2

LEMMA WrittenIsRow ==
    ASSUME Shapes, NEW x
    PROVE  Written(x) <=> x \in Rows
<1>1. DOMAIN journal = 1 .. Len(journal)
  BY DEF Shapes
<1> QED
  BY <1>1 DEF Written, Rows

-----------------------------------------------------------------------------
(* One lemma per action that touches what the invariant speaks of. *)

LEMMA StartDepositInv ==
    ASSUME Inv, NEW t \in Clerk, NEW a \in Account, NEW amount \in Amount,
           StartDeposit(t, a, amount)
    PROVE  Inv'
<1> DEFINE r == [at |-> "number", account |-> a, amount |-> amount, txn |-> NoTxn, base |-> 0]
           others == {u \in Clerk \ {t} : task[u].at = "number" /\ task[u].account = a}
<1>1. t \in Thread /\ t # Admin /\ Admin \in Thread /\ \A u \in Clerk : u \in Thread
  BY AccountsAssumption DEF Thread
<1>2. /\ task' = [task EXCEPT ![t] = r] /\ fund_seq' = fund_seq + 1
      /\ met' = IF others = {} THEN met \ {t} ELSE met \cup others \cup {t}
      /\ UNCHANGED <<journal, applied, boot>>
  BY DEF StartDeposit, tables
<1>3. /\ \E S : task' \in [Thread -> S]
      /\ task'[t] = r
      /\ \A u \in Thread \ {t} : task'[u] = task[u]
  BY <1>1, <1>2, TaskStep DEF Inv
<1>r. r.at = "number" /\ r.account = a
  OBVIOUS
<1>o. /\ \A u \in Clerk \ {t} : u \in others => u \in met' /\ t \in met'
      /\ \A u \in Clerk \ {t} : u \in others <=> task[u].at = "number" /\ task[u].account = a
      /\ \A u \in Clerk \ {t} : u \in met => u \in met'
      /\ met' \subseteq Clerk
  BY <1>2 DEF Inv, Shapes
<1> HIDE DEF r, others
<1>4. fund_seq \in Nat /\ Len(journal) \in Nat /\ boot \in 0 .. Len(journal) /\ boot <= fund_seq
  BY DEF Inv, Shapes
<1>5. Shapes'
  <2>1. \E S : journal' \in Seq(S)
    BY <1>2 DEF Inv, Shapes
  <2>2. fund_seq' \in Nat /\ boot' \in 0 .. Len(journal') /\ boot' <= fund_seq'
    BY <1>2, <1>4
  <2> QED
    BY ONLY <1>3, <1>o, <2>1, <2>2 DEF Shapes
<1>6. Earlier' = Earlier /\ Rows' = Rows
  BY <1>2 DEF Earlier, Rows
<1>7. RowsAreApplied' /\ NumbersAreTaken'
  BY <1>2, <1>4, <1>6 DEF Inv, RowsAreApplied, NumbersAreTaken
<1>8. TasksAreInOrder'
  BY <1>1, <1>2, <1>3, <1>4, <1>r DEF Inv, TasksAreInOrder, Posting, Thread
<1>9. OverlapsAreNoticed'
  BY <1>1, <1>3, <1>r, <1>o DEF Inv, OverlapsAreNoticed, Numbering
<1>10. \A u \in Clerk : task[u].at \in Posting => task[u].txn.seq \in Nat /\ task[u].txn.seq <= fund_seq
  BY DEF Inv, TasksAreInOrder
<1>11. \A u \in Clerk : task'[u].at \in Posting => task'[u] = task[u]
  BY <1>1, <1>3, <1>r DEF Posting
<1>12. NumbersAreNew' /\ NumbersAreLeft'
  BY <1>2, <1>4, <1>6, <1>10, <1>11
     DEF Inv, NumbersAreTaken, NumbersAreNew, NumbersAreLeft, PostingAt
<1>13. PostingsAreApart'
  <2> SUFFICES ASSUME NEW u \in Thread \ met', task'[u].at \in Posting PROVE Apart(u)'
    BY DEF PostingsAreApart
  <2>1. u # t /\ u \notin met /\ task'[u] = task[u]
    BY <1>1, <1>3, <1>r, <1>o DEF Posting, Inv, Shapes
  <2>2. Apart(u)
    BY <2>1 DEF Inv, PostingsAreApart
  <2>3. \A v \in Thread : task'[v].at \in Posting => task'[v] = task[v]
    BY <1>3, <1>r DEF Posting
  <2> QED
    BY <1>2, <1>6, <2>1, <2>2, <2>3 DEF Apart
<1> QED
  BY <1>5, <1>7, <1>8, <1>9, <1>12, <1>13 DEF Inv

LEMMA NumberDepositInv ==
    ASSUME Inv, NEW t \in Clerk, NumberDeposit(t)
    PROVE  Inv'
<1> DEFINE r == IF task[t].amount <= 0 THEN NoTask
                ELSE Stage(t, "post", Txn("fund", task[t].account, fund_seq), 0)
           a == task[t].account
<1>1. t \in Thread /\ t # Admin /\ \A u \in Clerk : u \in Thread
  BY AccountsAssumption DEF Thread
<1>2. /\ task[t].at = "number" /\ task' = [task EXCEPT ![t] = r]
      /\ UNCHANGED <<journal, applied, fund_seq, boot, met>>
  BY DEF NumberDeposit, tables, memory, deposits
<1>3. /\ \E S : task' \in [Thread -> S]
      /\ task'[t] = r
      /\ \A u \in Thread \ {t} : task'[u] = task[u]
  BY <1>1, <1>2, TaskStep DEF Inv
<1>4. \/ r.at = "idle"
      \/ /\ r.at = "post" /\ r.account = a
         /\ r.txn.kind = "fund" /\ r.txn.account = a /\ r.txn.seq = fund_seq
  BY DEF NoTask, Stage, Txn
<1> HIDE DEF r
<1>5. fund_seq \in Nat /\ boot < fund_seq
  BY <1>2 DEF Inv, Shapes, TasksAreInOrder
<1>6. Shapes' /\ Earlier' = Earlier /\ Rows' = Rows
  <2>1. Earlier' = Earlier /\ Rows' = Rows
    BY <1>2 DEF Earlier, Rows
  <2>2. (\E S : journal' \in Seq(S)) /\ fund_seq' \in Nat /\ boot' \in 0 .. Len(journal')
        /\ boot' <= fund_seq' /\ met' \subseteq Clerk
    BY <1>2 DEF Inv, Shapes
  <2> QED
    BY ONLY <1>3, <2>1, <2>2 DEF Shapes
<1>7. RowsAreApplied' /\ NumbersAreTaken'
  BY <1>2, <1>6 DEF Inv, RowsAreApplied, NumbersAreTaken
<1>8. TasksAreInOrder'
  BY <1>1, <1>2, <1>3, <1>4, <1>5 DEF Inv, TasksAreInOrder, Posting, Thread
<1>9. OverlapsAreNoticed'
  BY <1>1, <1>2, <1>3, <1>4 DEF Inv, OverlapsAreNoticed, Numbering
<1>n. ASSUME NEW u \in Clerk \ {t}, Numbering(u, a) PROVE u \in met /\ t \in met
  BY <1>2, <1>n DEF Inv, OverlapsAreNoticed, Numbering
<1>10. NumbersAreNew'
  <2> SUFFICES ASSUME NEW u \in Clerk, Numbering(u, task[u].account)', u \notin met'
               PROVE  /\ \A x \in applied' : x.kind = "fund" /\ x.account = task'[u].account =>
                            x \in Earlier' \/ x.seq < fund_seq'
                      /\ \A v \in Clerk : PostingAt(v, task[u].account)' =>
                            task'[v].txn.seq < fund_seq'
    BY DEF NumbersAreNew
  <2>1. u # t /\ task'[u] = task[u] /\ Numbering(u, task[u].account) /\ u \notin met
    BY <1>1, <1>2, <1>3, <1>4 DEF Numbering
  <2>2. task[u].account # a
    BY <1>n, <2>1 DEF Numbering
  <2>3. ASSUME NEW v \in Clerk, PostingAt(v, task[u].account)'
        PROVE  v # t /\ task'[v] = task[v]
    BY <1>1, <1>3, <1>4, <2>1, <2>2, <2>3 DEF PostingAt, Posting
  <2> QED
    BY <1>2, <1>6, <2>1, <2>3 DEF Inv, NumbersAreNew, PostingAt
<1>11. NumbersAreLeft'
  <2> SUFFICES ASSUME NEW v \in Clerk, NEW u \in Clerk, PostingAt(v, task[u].account)',
                      Numbering(u, task[u].account)', v \notin met'
               PROVE  task'[v].txn.seq < fund_seq'
    BY DEF NumbersAreLeft
  <2>1. u # t /\ task'[u] = task[u] /\ Numbering(u, task[u].account)
    BY <1>1, <1>2, <1>3, <1>4 DEF Numbering
  <2>2. CASE v = t
    <3>1. Numbering(u, a)
      BY <1>3, <1>4, <2>1, <2>2 DEF PostingAt, Posting, Numbering
    <3> QED
      BY <1>2, <1>n, <2>1, <2>2, <3>1
  <2>3. CASE v # t
    BY <1>1, <1>2, <1>3, <2>1, <2>3 DEF Inv, NumbersAreLeft, PostingAt
  <2> QED
    BY <2>2, <2>3
<1>12. PostingsAreApart'
  <2> SUFFICES ASSUME NEW v \in Thread \ met', task'[v].at \in Posting PROVE Apart(v)'
    BY DEF PostingsAreApart
  <2>f. \A u \in Clerk : task[u].at \in Posting =>
           task[u].txn.kind = "fund" /\ task[u].txn.account = task[u].account
    BY DEF Inv, TasksAreInOrder
  <2>d. task[Admin].at \in Posting => task[Admin].txn.kind = "div"
    BY DEF Inv, TasksAreInOrder
  <2>1. CASE v = t
    <3>1. /\ r.at = "post" /\ r.txn.kind = "fund" /\ r.txn.account = a /\ r.txn.seq = fund_seq
          /\ t \notin met
      BY <1>2, <1>3, <1>4, <2>1 DEF Posting
    <3>2. /\ \A x \in applied : x.kind = "fund" /\ x.account = a => x \in Earlier \/ x.seq < fund_seq
          /\ \A u \in Clerk : PostingAt(u, a) => task[u].txn.seq < fund_seq
      BY <1>2, <3>1 DEF Inv, NumbersAreNew, Numbering
    <3>3. \A u \in Thread : u # t /\ task'[u].at \in Posting => task'[u].txn # r.txn
      <4> SUFFICES ASSUME NEW u \in Thread \ {t}, task[u].at \in Posting
                   PROVE  task[u].txn # r.txn
        BY <1>3
      <4>1. CASE u \in Clerk
        BY <1>5, <2>f, <3>1, <3>2, <4>1 DEF PostingAt
      <4>2. CASE u = Admin
        BY <2>d, <3>1, <4>2
      <4> QED
        BY <4>1, <4>2 DEF Thread
    <3>4. r.txn \notin applied \/ r.txn \in Earlier
      BY <1>5, <3>1, <3>2
    <3> QED
      BY <1>2, <1>3, <1>6, <2>1, <3>1, <3>3, <3>4 DEF Apart, Applying
  <2>2. CASE v # t
    <3>1. task'[v] = task[v] /\ v \notin met /\ Apart(v)
      BY <1>2, <1>3, <2>2 DEF Inv, PostingsAreApart
    <3>2. task'[t].at \in Posting => task'[t].txn # task[v].txn
      <4> SUFFICES ASSUME r.at \in Posting, r.txn = task[v].txn PROVE FALSE
        BY <1>3
      <4>1. r.txn.kind = "fund" /\ r.txn.account = a /\ r.txn.seq = fund_seq
        BY <1>4 DEF Posting
      <4>2. v \in Clerk /\ task[v].account = a
        BY <2>d, <2>f, <3>1, <4>1 DEF Thread
      <4>3. PostingAt(v, task[t].account) /\ Numbering(t, task[t].account)
        BY <1>2, <3>1, <4>2 DEF PostingAt, Numbering
      <4>4. task[v].txn.seq < fund_seq
        BY <3>1, <4>2, <4>3 DEF Inv, NumbersAreLeft
      <4> QED
        BY <1>5, <4>1, <4>4
    <3> QED
      BY <1>2, <1>3, <1>6, <2>2, <3>1, <3>2 DEF Apart
  <2> QED
    BY <2>1, <2>2
<1> QED
  BY <1>6, <1>7, <1>8, <1>9, <1>10, <1>11, <1>12 DEF Inv

\* A thread that goes on with its posting, or ends it, and touches nothing else.
LEMMA TaskMoves ==
    ASSUME Inv, NEW t \in Thread, NEW r, task' = [task EXCEPT ![t] = r],
           UNCHANGED <<journal, applied, fund_seq, boot, met>>,
           task[t].at \in Posting,
           \/ r.at = "idle"
           \/ /\ r.at \in Applying /\ r.account = task[t].account /\ r.txn = task[t].txn
              /\ t \notin met => r.txn \notin applied
    PROVE  Inv'
<1>1. /\ \E S : task' \in [Thread -> S]
      /\ task'[t] = r
      /\ \A u \in Thread \ {t} : task'[u] = task[u]
  BY TaskStep DEF Inv
<1>2. \A u \in Clerk : u \in Thread
  BY DEF Thread
<1>3. Shapes'
  <2>1. (\E S : journal' \in Seq(S)) /\ fund_seq' \in Nat /\ boot' \in 0 .. Len(journal')
        /\ boot' <= fund_seq' /\ met' \subseteq Clerk
    BY DEF Inv, Shapes
  <2> QED
    BY ONLY <1>1, <2>1 DEF Shapes
<1>4. Earlier' = Earlier /\ Rows' = Rows
  BY DEF Earlier, Rows
<1>5. RowsAreApplied' /\ NumbersAreTaken'
  BY <1>4 DEF Inv, RowsAreApplied, NumbersAreTaken
<1>6. r.at \in {"idle"} \cup Posting /\ r.at # "write" /\ r.at # "number" /\ r.at # "post"
  BY DEF Applying, Posting
<1>7. TasksAreInOrder'
  BY <1>1, <1>2, <1>6 DEF Inv, TasksAreInOrder, Posting, Thread
<1>8. \A u \in Thread : /\ task'[u].at = "number" => task'[u] = task[u]
                        /\ task'[u].at \in Posting =>
                              /\ task[u].at \in Posting /\ task'[u].txn = task[u].txn
                              /\ task'[u].account = task[u].account
  BY <1>1, <1>6 DEF Posting
<1>9. OverlapsAreNoticed' /\ NumbersAreNew' /\ NumbersAreLeft'
  BY <1>2, <1>4, <1>8
     DEF Inv, OverlapsAreNoticed, NumbersAreNew, NumbersAreLeft, Numbering, PostingAt
<1>10. PostingsAreApart'
  <2> SUFFICES ASSUME NEW v \in Thread \ met, task'[v].at \in Posting PROVE Apart(v)'
    BY DEF PostingsAreApart
  <2>1. Apart(v)
    BY <1>8 DEF Inv, PostingsAreApart
  <2>2. \A u \in Thread : u # v /\ task'[u].at \in Posting => task'[u].txn # task'[v].txn
    BY <1>8, <2>1 DEF Apart
  <2>3. CASE v = t
    BY <1>1, <1>6, <2>2, <2>3 DEF Apart, Posting
  <2>4. CASE v # t
    BY <1>1, <1>4, <2>1, <2>2, <2>4 DEF Apart
  <2> QED
    BY <2>3, <2>4
<1> QED
  BY <1>3, <1>5, <1>7, <1>9, <1>10 DEF Inv

LEMMA LookForDuplicateInv ==
    ASSUME Inv, NEW t \in Thread, LookForDuplicate(t)
    PROVE  Inv'
<1> DEFINE r == IF Swallowed(task[t].txn) THEN NoTask ELSE Stage(t, "read_out", task[t].txn, 0)
<1>1. /\ task[t].at = "post" /\ task' = [task EXCEPT ![t] = r]
      /\ UNCHANGED <<journal, applied, fund_seq, boot, met>>
  BY DEF LookForDuplicate, tables, memory, deposits
<1>2. \/ r.at = "idle"
      \/ /\ r.at = "read_out" /\ r.account = task[t].account /\ r.txn = task[t].txn
         /\ r.txn \notin applied
  BY DEF NoTask, Stage, Swallowed
<1> HIDE DEF r
<1> QED
  BY <1>1, <1>2, TaskMoves DEF Posting, Applying

LEMMA ReadBalanceInv ==
    ASSUME Inv, NEW t \in Thread, ReadBalance(t)
    PROVE  Inv'
<1> DEFINE r == Stage(t, IF PayingOut(t) THEN "store_out" ELSE "store_in", task[t].txn,
                      balance[Leg(t)])
<1>1. /\ task[t].at \in {"read_out", "read_in"} /\ task' = [task EXCEPT ![t] = r]
      /\ UNCHANGED <<journal, applied, fund_seq, boot, met>>
  BY DEF ReadBalance, tables, memory, deposits
<1>2. r.at \in {"store_out", "store_in"} /\ r.account = task[t].account /\ r.txn = task[t].txn
  BY DEF Stage
<1> HIDE DEF r
<1>3. task[t].at \in Posting /\ task[t].at \in Applying /\ r.at \in Applying
  BY <1>1, <1>2 DEF Posting, Applying
<1>4. t \notin met => r.txn \notin applied
  BY <1>2, <1>3 DEF Inv, PostingsAreApart, Apart
<1> QED
  BY <1>1, <1>2, <1>3, <1>4, TaskMoves

LEMMA StoreBalanceInv ==
    ASSUME Inv, NEW t \in Thread, StoreBalance(t)
    PROVE  Inv'
<1> DEFINE r == Stage(t, IF PayingOut(t) THEN "read_in" ELSE "write", task[t].txn, 0)
<1>1. /\ task[t].at \in {"store_out", "store_in"} /\ task' = [task EXCEPT ![t] = r]
      /\ applied' = IF PayingOut(t) THEN applied ELSE applied \cup {task[t].txn}
      /\ UNCHANGED <<journal, fund_seq, boot, met>>
  BY DEF StoreBalance, tables
<1>2. /\ r.at = IF PayingOut(t) THEN "read_in" ELSE "write"
      /\ r.account = task[t].account /\ r.txn = task[t].txn
  BY DEF Stage
<1> HIDE DEF r
<1>3. task[t].at \in Posting /\ task[t].at \in Applying
  BY <1>1 DEF Posting, Applying
<1>4. t \notin met => task[t].txn \notin applied /\ Apart(t)
  BY <1>3 DEF Inv, PostingsAreApart, Apart
<1>5. CASE PayingOut(t)
  <2>1. r.at \in Applying /\ applied' = applied
    BY <1>1, <1>2, <1>5 DEF Applying
  <2> QED
    BY <1>1, <1>2, <1>3, <1>4, <2>1, TaskMoves
<1>6. CASE ~PayingOut(t)
  <2>1. r.at = "write" /\ applied' = applied \cup {task[t].txn}
    BY <1>1, <1>2, <1>6
  <2>2. /\ \E S : task' \in [Thread -> S]
        /\ task'[t] = r
        /\ \A u \in Thread \ {t} : task'[u] = task[u]
    BY <1>1, TaskStep DEF Inv
  <2>3. Shapes'
    <3>1. (\E S : journal' \in Seq(S)) /\ fund_seq' \in Nat /\ boot' \in 0 .. Len(journal')
          /\ boot' <= fund_seq' /\ met' \subseteq Clerk
      BY <1>1 DEF Inv, Shapes
    <3> QED
      BY ONLY <2>2, <3>1 DEF Shapes
  <2>4. Earlier' = Earlier /\ Rows' = Rows /\ \A u \in Clerk : u \in Thread
    BY <1>1 DEF Earlier, Rows, Thread
  <2>5. \/ /\ t \in Clerk /\ task[t].txn.kind = "fund" /\ task[t].txn.account = task[t].account
           /\ task[t].txn.seq \in Nat /\ task[t].txn.seq <= fund_seq
        \/ t = Admin /\ task[t].txn.kind = "div"
    BY <1>3 DEF Inv, TasksAreInOrder, Thread
  <2>6. RowsAreApplied'
    BY <2>1, <2>4 DEF Inv, RowsAreApplied
  <2>7. NumbersAreTaken'
    BY <1>1, <2>1, <2>4, <2>5 DEF Inv, NumbersAreTaken
  <2>8. TasksAreInOrder'
    BY <1>1, <1>2, <1>3, <2>1, <2>2, <2>4 DEF Inv, TasksAreInOrder, Posting, Thread
  <2>9. \A u \in Thread : /\ task'[u].at = "number" => task'[u] = task[u]
                          /\ task'[u].at \in Posting =>
                                /\ task[u].at \in Posting /\ task'[u].txn = task[u].txn
                                /\ task'[u].account = task[u].account
    BY <1>2, <1>3, <2>1, <2>2
  <2>10. OverlapsAreNoticed' /\ NumbersAreLeft'
    BY <1>1, <2>4, <2>9 DEF Inv, OverlapsAreNoticed, NumbersAreLeft, Numbering, PostingAt
  <2>11. NumbersAreNew'
    <3> SUFFICES ASSUME NEW u \in Clerk, Numbering(u, task[u].account)', u \notin met'
                 PROVE  /\ \A x \in applied' : x.kind = "fund" /\ x.account = task'[u].account =>
                              x \in Earlier' \/ x.seq < fund_seq'
                        /\ \A v \in Clerk : PostingAt(v, task[u].account)' =>
                              task'[v].txn.seq < fund_seq'
      BY DEF NumbersAreNew
    <3>1. task'[u] = task[u] /\ Numbering(u, task[u].account) /\ u \notin met
      BY <1>1, <2>4, <2>9 DEF Numbering
    <3>2. /\ \A x \in applied : x.kind = "fund" /\ x.account = task[u].account =>
                x \in Earlier \/ x.seq < fund_seq
          /\ \A v \in Clerk : PostingAt(v, task[u].account) => task[v].txn.seq < fund_seq
      BY <3>1 DEF Inv, NumbersAreNew
    <3>3. task[t].txn.kind = "fund" /\ task[t].txn.account = task[u].account
             => task[t].txn.seq < fund_seq
      BY <1>3, <2>5, <3>2 DEF PostingAt
    <3> QED
      BY <1>1, <2>1, <2>4, <2>9, <3>1, <3>2, <3>3 DEF PostingAt
  <2>12. PostingsAreApart'
    <3> SUFFICES ASSUME NEW v \in Thread \ met, task'[v].at \in Posting PROVE Apart(v)'
      BY <1>1 DEF PostingsAreApart
    <3>1. Apart(v)
      BY <2>9 DEF Inv, PostingsAreApart
    <3>2. \A u \in Thread : u # v /\ task'[u].at \in Posting => task'[u].txn # task'[v].txn
      BY <2>9, <3>1 DEF Apart
    <3>3. CASE v = t
      <4>1. task[t].txn \notin Rows
        BY <1>4, <3>3 DEF Inv, RowsAreApplied
      <4> QED
        BY <1>2, <2>1, <2>2, <2>4, <3>2, <3>3, <4>1 DEF Apart, Applying
    <3>4. CASE v # t
      <4>1. task'[v] = task[v] /\ task[t].txn # task[v].txn
        BY <1>3, <2>2, <3>1, <3>4 DEF Apart
      <4> QED
        BY <2>1, <2>4, <3>1, <3>2, <4>1 DEF Apart
    <3> QED
      BY <3>3, <3>4
  <2> QED
    BY <2>3, <2>6, <2>7, <2>8, <2>10, <2>11, <2>12 DEF Inv
<1> QED
  BY <1>5, <1>6

\* The journal gets a row of a name that is applied and no other posting's.
LEMMA AppendJournalInv ==
    ASSUME Inv, NEW t \in Thread, AppendJournal(t)
    PROVE  Inv'
<1> DEFINE row == Row(task[t].txn, Nobody, task[t].account, task[t].amount)
<1>1. /\ task[t].at = "write" /\ task[t].at \in Posting /\ task[t].txn \in applied
      /\ task' = [task EXCEPT ![t] = NoTask] /\ NoTask.at = "idle"
      /\ UNCHANGED <<applied, fund_seq, boot, met>>
  BY DEF AppendJournal, memory, NoTask, Inv, TasksAreInOrder, Posting
<1>2. CASE journal' = journal
  BY <1>1, <1>2, TaskMoves
<1>3. CASE journal' = Append(journal, row)
  <2>r. row.txn = task[t].txn
    BY DEF Row
  <2> HIDE DEF row
  <2>1. /\ \E S : task' \in [Thread -> S]
        /\ task'[t] = NoTask
        /\ \A u \in Thread \ {t} : task'[u] = task[u]
    BY <1>1, TaskStep DEF Inv
  <2>2. /\ \E S : journal' \in Seq(S)
        /\ boot' \in 0 .. Len(journal')
        /\ Earlier' = Earlier
        /\ Rows' \subseteq Rows \cup {task[t].txn}
    <3>1. /\ \E S : journal' \in Seq(S)
          /\ boot' \in 0 .. Len(journal')
          /\ Earlier' = Earlier
          /\ Rows' = IF journal' = journal THEN Rows ELSE Rows \cup {row.txn}
      BY <1>1, <1>3, RowsStep DEF Inv
    <3> QED
      BY <2>r, <3>1
  <2>3. Shapes'
    <3>1. fund_seq' \in Nat /\ boot' <= fund_seq' /\ met' \subseteq Clerk
      BY <1>1 DEF Inv, Shapes
    <3> QED
      BY ONLY <2>1, <2>2, <3>1 DEF Shapes
  <2>4. RowsAreApplied' /\ NumbersAreTaken'
    BY <1>1, <2>2 DEF Inv, RowsAreApplied, NumbersAreTaken
  <2>5. \A u \in Thread : task'[u].at # "idle" => u # t /\ task'[u] = task[u]
    BY <1>1, <2>1
  <2>6. \A u \in Clerk : u \in Thread
    BY DEF Thread
  <2>7. TasksAreInOrder'
    BY <1>1, <2>1, <2>6 DEF Inv, TasksAreInOrder, Posting, Thread
  <2>8. OverlapsAreNoticed' /\ NumbersAreNew' /\ NumbersAreLeft'
    BY <1>1, <2>2, <2>5, <2>6 DEF Inv, OverlapsAreNoticed, NumbersAreNew, NumbersAreLeft,
                                  Numbering, PostingAt, Posting
  <2>9. PostingsAreApart'
    <3> SUFFICES ASSUME NEW v \in Thread \ met, task'[v].at \in Posting PROVE Apart(v)'
      BY <1>1 DEF PostingsAreApart
    <3>1. v # t /\ task'[v] = task[v]
      BY <2>5 DEF Posting
    <3>2. Apart(v) /\ task[t].txn # task[v].txn
      BY <1>1, <3>1 DEF Inv, PostingsAreApart, Apart
    <3>3. \A u \in Thread : task'[u].at \in Posting => task'[u] = task[u]
      BY <2>5 DEF Posting
    <3> QED
      BY <1>1, <2>2, <3>1, <3>2, <3>3 DEF Apart
  <2> QED
    BY <2>3, <2>4, <2>7, <2>8, <2>9 DEF Inv
<1> QED
  BY <1>2, <1>3 DEF AppendJournal

LEMMA TradeInv ==
    ASSUME Inv, NEW buyer \in Account, NEW seller \in Account, NEW price, NEW qty,
           Trade(buyer, seller, price, qty)
    PROVE  Inv'
<1>1. PICK row, txn :
         /\ txn.kind = "trade" /\ row.txn = txn
         /\ journal' = Append(journal, row) /\ applied' = applied \cup {txn}
  BY DEF Trade, Txn, Row
<1>2. UNCHANGED <<fund_seq, task, boot, met>>
  BY DEF Trade, deposits
<1>3. /\ \E S : journal' \in Seq(S)
      /\ boot' \in 0 .. Len(journal')
      /\ Earlier' = Earlier
      /\ Rows' \subseteq Rows \cup {txn}
  <2>1. /\ \E S : journal' \in Seq(S)
        /\ boot' \in 0 .. Len(journal')
        /\ Earlier' = Earlier
        /\ Rows' = IF journal' = journal THEN Rows ELSE Rows \cup {row.txn}
    BY <1>1, <1>2, RowsStep DEF Inv
  <2> QED
    BY <1>1, <2>1
<1>4. Shapes'
  <2>1. /\ \E S : task' \in [Thread -> S]
        /\ fund_seq' \in Nat /\ boot' <= fund_seq' /\ met' \subseteq Clerk
    BY <1>2 DEF Inv, Shapes
  <2> QED
    BY ONLY <1>3, <2>1 DEF Shapes
<1>5. RowsAreApplied' /\ NumbersAreTaken'
  BY <1>1, <1>2, <1>3 DEF Inv, RowsAreApplied, NumbersAreTaken
<1>6. TasksAreInOrder'
  BY <1>1, <1>2 DEF Inv, TasksAreInOrder
<1>7. OverlapsAreNoticed' /\ NumbersAreNew' /\ NumbersAreLeft'
  BY <1>1, <1>2, <1>3 DEF Inv, OverlapsAreNoticed, NumbersAreNew, NumbersAreLeft,
                          Numbering, PostingAt
<1>8. PostingsAreApart'
  <2> SUFFICES ASSUME NEW v \in Thread \ met, task[v].at \in Posting PROVE Apart(v)'
    BY <1>2 DEF PostingsAreApart
  <2>1. Apart(v) /\ task[v].txn # txn
    BY <1>1 DEF Inv, PostingsAreApart, TasksAreInOrder, Thread
  <2> QED
    BY <1>1, <1>2, <1>3, <2>1 DEF Apart
<1> QED
  BY <1>4, <1>5, <1>6, <1>7, <1>8 DEF Inv

LEMMA PayHolderInv ==
    ASSUME Inv, PayHolder
    PROVE  Inv'
<1>1. UNCHANGED <<journal, applied, fund_seq, boot, met>> /\ task[Admin].at = "idle"
  BY DEF PayHolder, tables, memory, deposits, Busy
<1>e. Earlier' = Earlier /\ Rows' = Rows
  BY <1>1 DEF Earlier, Rows
<1>2. CASE task' = task
  BY <1>1, <1>e, <1>2 DEF Inv, Shapes, RowsAreApplied, NumbersAreTaken, TasksAreInOrder,
        OverlapsAreNoticed, NumbersAreNew, NumbersAreLeft, Numbering, PostingAt,
        PostingsAreApart, Apart
<1>3. CASE task' # task
  <2>1. PICK r : /\ r.at = "post" /\ r.txn.kind = "div"
                 /\ task' = [task EXCEPT ![Admin] = r]
    BY <1>3 DEF PayHolder, DividendTo, Txn
  <2>2. Admin \in Thread /\ Admin \notin Clerk /\ \A u \in Clerk : u \in Thread /\ u # Admin
    BY AccountsAssumption DEF Thread
  <2>3. /\ \E S : task' \in [Thread -> S]
        /\ task'[Admin] = r
        /\ \A u \in Thread \ {Admin} : task'[u] = task[u]
    BY <2>1, <2>2, TaskStep DEF Inv
  <2>4. Shapes'
    <3>1. (\E S : journal' \in Seq(S)) /\ fund_seq' \in Nat /\ boot' \in 0 .. Len(journal')
          /\ boot' <= fund_seq' /\ met' \subseteq Clerk
      BY <1>1 DEF Inv, Shapes
    <3> QED
      BY ONLY <2>3, <3>1 DEF Shapes
  <2>5. RowsAreApplied' /\ NumbersAreTaken'
    BY <1>1, <1>e DEF Inv, RowsAreApplied, NumbersAreTaken
  <2>6. TasksAreInOrder'
    BY <1>1, <2>1, <2>2, <2>3 DEF Inv, TasksAreInOrder, Posting, Thread
  <2>7. OverlapsAreNoticed' /\ NumbersAreNew' /\ NumbersAreLeft'
    BY <1>1, <1>e, <2>2, <2>3 DEF Inv, OverlapsAreNoticed, NumbersAreNew, NumbersAreLeft,
                                  Numbering, PostingAt
  <2>8. PostingsAreApart'
    <3> SUFFICES ASSUME NEW v \in Thread \ met, task'[v].at \in Posting PROVE Apart(v)'
      BY <1>1 DEF PostingsAreApart
    <3>1. \A u \in Clerk : task[u].at \in Posting => task[u].txn.kind = "fund"
      BY DEF Inv, TasksAreInOrder
    <3>2. CASE v = Admin
      <4>1. \A u \in Thread : u # Admin /\ task'[u].at \in Posting => task'[u].txn # r.txn
        BY <2>1, <2>3, <3>1 DEF Thread
      <4> QED
        BY <2>1, <2>2, <2>3, <3>2, <4>1 DEF Apart, Applying
    <3>3. CASE v # Admin
      <4>1. task'[v] = task[v] /\ task[v].txn.kind = "fund"
        BY <2>3, <3>1, <3>3 DEF Thread
      <4>2. Apart(v) /\ r.txn # task[v].txn
        BY <2>1, <4>1 DEF Inv, PostingsAreApart
      <4> QED
        BY <1>1, <1>e, <2>3, <4>1, <4>2 DEF Apart
    <3> QED
      BY <3>2, <3>3
  <2> QED
    BY <2>4, <2>5, <2>6, <2>7, <2>8 DEF Inv
<1> QED
  BY <1>2, <1>3

\* A new process knows the rows of the journal, and starts to count at their number.
LEMMA RestartInv ==
    ASSUME Inv, Restart
    PROVE  Inv'
<1>1. /\ journal' = journal /\ applied' = {journal[n].txn : n \in DOMAIN journal}
      /\ fund_seq' = Len(journal) /\ boot' = Len(journal) /\ met' = {}
      /\ task' = [t \in Thread |-> NoTask]
  BY DEF Restart, tables, FirstFundSeq
<1>2. PICK S : journal \in Seq(S)
  BY DEF Inv, Shapes
<1>3. Len(journal) \in Nat /\ DOMAIN journal = 1 .. Len(journal)
  BY <1>2
<1>4. task' \in [Thread -> {NoTask}] /\ \A t \in Thread : task'[t].at = "idle"
  BY <1>1 DEF NoTask
<1>5. Shapes'
  <2>1. fund_seq' \in Nat /\ boot' \in 0 .. Len(journal') /\ boot' <= fund_seq'
        /\ met' \subseteq Clerk /\ journal' \in Seq(S)
    BY <1>1, <1>2, <1>3
  <2>2. (\E U : journal' \in Seq(U)) /\ (\E U : task' \in [Thread -> U])
    BY ONLY <1>4, <2>1, Zenon
  <2> QED
    BY ONLY <2>1, <2>2 DEF Shapes
<1>6. Rows' = Rows /\ Earlier' = Rows /\ applied' = Rows
  BY <1>1, <1>3 DEF Rows, Earlier
<1>7. RowsAreApplied' /\ NumbersAreTaken'
  BY <1>6 DEF Inv, RowsAreApplied, NumbersAreTaken
<1>8. /\ TasksAreInOrder' /\ OverlapsAreNoticed' /\ NumbersAreNew' /\ NumbersAreLeft'
      /\ PostingsAreApart'
  BY <1>4 DEF TasksAreInOrder, OverlapsAreNoticed, NumbersAreNew, NumbersAreLeft,
              PostingsAreApart, Numbering, Posting, Thread
<1> QED
  BY <1>5, <1>7, <1>8 DEF Inv

LEMMA NextInv == Inv /\ [Next]_vars => Inv'
<1> SUFFICES ASSUME Inv, [Next]_vars PROVE Inv'
  OBVIOUS
<1>1. ASSUME UNCHANGED <<journal, applied, task, fund_seq, boot, met>>
      PROVE  Inv'
  <2>1. Earlier' = Earlier /\ Rows' = Rows
    BY <1>1 DEF Earlier, Rows
  <2>2. Shapes' /\ RowsAreApplied' /\ NumbersAreTaken' /\ TasksAreInOrder'
    BY <1>1, <2>1 DEF Inv, Shapes, RowsAreApplied, NumbersAreTaken, TasksAreInOrder
  <2>3. OverlapsAreNoticed' /\ NumbersAreNew' /\ NumbersAreLeft'
    BY <1>1, <2>1
       DEF Inv, OverlapsAreNoticed, NumbersAreNew, NumbersAreLeft, Numbering, PostingAt
  <2>4. PostingsAreApart'
    BY <1>1, <2>1 DEF Inv, PostingsAreApart, Apart
  <2> QED
    BY <2>2, <2>3, <2>4 DEF Inv
<1>2. CASE \E t \in Clerk, a \in Account, amount \in Amount : StartDeposit(t, a, amount)
  BY <1>2, StartDepositInv
<1>3. CASE \E t \in Clerk : NumberDeposit(t)
  BY <1>3, NumberDepositInv
<1>4. CASE \E t \in Thread : LookForDuplicate(t)
  BY <1>4, LookForDuplicateInv
<1>5. CASE \E t \in Thread : ReadBalance(t)
  BY <1>5, ReadBalanceInv
<1>6. CASE \E t \in Thread : StoreBalance(t)
  BY <1>6, StoreBalanceInv
<1>7. CASE \E t \in Thread : AppendJournal(t)
  BY <1>7, AppendJournalInv
<1>8. CASE \E buyer, seller \in Account, price \in Price, qty \in Quantity :
              Trade(buyer, seller, price, qty)
  BY <1>8, TradeInv
<1>9. ASSUME NEW kind, NEW terms, StartJob(kind, terms) PROVE Inv'
  BY <1>1, <1>9 DEF StartJob, tables, deposits
<1>10. CASE PayHolder
  BY <1>10, PayHolderInv
<1>11. CASE SplitHolder
  BY <1>1, <1>11 DEF SplitHolder, deposits
<1>12. CASE EndJob
  BY <1>1, <1>12 DEF EndJob, tables, memory, deposits
<1>13. CASE Restart
  BY <1>13, RestartInv
<1>14. CASE UNCHANGED vars
  BY <1>1, <1>14 DEF vars, tables, memory, deposits
<1> QED
  BY <1>2, <1>3, <1>4, <1>5, <1>6, <1>7, <1>8, <1>9, <1>10, <1>11, <1>12, <1>13, <1>14 DEF Next

\* The only deposits taken for earlier ones are those that read their number together with
\* another of their account, and those numbered like a row of before the last restart that
\* was itself numbered above the journal's length (TradingApp.fund, Ledger.post).
THEOREM DepositsAreBooked == Spec => []DepositsAreNew
<1>1. Inv => DepositsAreNew
  <2> SUFFICES ASSUME Inv, NEW t \in Clerk, task[t].at = "post", t \notin met,
                      task[t].txn \in applied
               PROVE  task[t].txn \in Outrun
    BY DEF DepositsAreNew
  <2>1. t \in Thread /\ task[t].at \in Posting
    BY DEF Thread, Posting
  <2>2. boot < task[t].txn.seq /\ boot \in Int /\ task[t].txn.seq \in Int
    BY <2>1 DEF Inv, TasksAreInOrder, Shapes
  <2>3. task[t].txn \in Earlier
    BY <2>1 DEF Inv, PostingsAreApart, Apart
  <2>4. PICK n \in 1 .. boot : journal[n].txn = task[t].txn
    BY <2>3 DEF Earlier
  <2>5. journal[n].txn.seq > boot
    BY <2>2, <2>4
  <2> QED
    BY <2>4, <2>5 DEF Outrun
<1> QED
  BY <1>1, InitInv, NextInv, PTL DEF Spec

-----------------------------------------------------------------------------
(* The journal's totals. *)

\* A set listed without repetitions.
LEMMA SetIsListed ==
    ASSUME NEW S, IsFiniteSet(S)
    PROVE  /\ SetToSeq(S) \in Seq(S) /\ Len(SetToSeq(S)) = Cardinality(S)
           /\ \A j, k \in 1 .. Len(SetToSeq(S)) : SetToSeq(S)[j] = SetToSeq(S)[k] => j = k
           /\ \A x \in S : \E k \in 1 .. Len(SetToSeq(S)) : SetToSeq(S)[k] = x
<1> DEFINE n == Cardinality(S)
           q == SetToSeq(S)
<1>1. n \in Nat /\ ExistsBijection(1 .. n, S)
  BY FS_CardinalityType
<1>2. PICK f \in Bijection(1 .. n, S) : TRUE
  BY <1>1 DEF ExistsBijection
<1>3. f \in [1 .. n -> S] /\ IsInjective(f)
  BY <1>2 DEF Bijection, Injection
<1>4. q \in [1 .. n -> S] /\ IsInjective(q)
  BY <1>3 DEF SetToSeq
<1> HIDE DEF q
<1>5. q \in Injection(1 .. n, S)
  BY <1>4 DEF Injection
<1>6. Cardinality(1 .. n) = n
  BY <1>1, FS_Interval
<1>7. q \in Surjection(1 .. n, S)
  BY <1>5, <1>6, FS_Injection
<1>8. q \in Seq(S) /\ Len(q) = n
  BY <1>1, <1>4, SeqDef, LenProperties
<1>9. \A x \in S : \E k \in 1 .. n : q[k] = x
  BY <1>7 DEF Surjection
<1> QED
  BY <1>4, <1>8, <1>9 DEF IsInjective, q

RowsAreCents == \A n \in 1 .. Len(journal) : journal[n].amount \in Int
Amounts(rows) == [n \in rows |-> journal[n].amount]

\* What one more row adds to the total of some rows, if it is one of them.
LEMMA TotalNext ==
    ASSUME Shapes, RowsAreCents, NEW row, row.amount \in Int, journal' = Append(journal, row),
           NEW S \in SUBSET (1 .. Len(journal)), NEW T,
           T = S \/ T = S \cup {Len(journal) + 1}
    PROVE  /\ Total(S) \in Int
           /\ Total(T)' = Total(S) + IF Len(journal) + 1 \in T THEN row.amount ELSE 0
<1> DEFINE f == Amounts(S)
           g == [n \in T |-> journal'[n].amount]
           y == Len(journal) + 1
<1>1. /\ Len(journal) \in Nat
      /\ \A n \in 1 .. Len(journal) : journal'[n] = journal[n]
      /\ journal'[y] = row
  BY JournalStep
<1>2. IsFiniteSet(1 .. Len(journal))
  BY <1>1, FS_Interval
<1>3. IsFiniteSet(S) /\ y \notin S /\ (T = S \/ T = S \cup {y})
  <2>1. IsFiniteSet(S)
    BY <1>2, FS_Subset
  <2> QED
    BY <1>1, <2>1
<1>4. /\ \A x \in S : f[x] \in Int /\ g[x] = f[x]
      /\ y \in T => g[y] = row.amount
      /\ DOMAIN f = S /\ DOMAIN g = T
  BY <1>1 DEF RowsAreCents, Amounts
<1>5. Total(S) = SumFunctionOnSet(f, S) /\ Total(T)' = SumFunctionOnSet(g, T)
  BY <1>4 DEF Total, SumFunction, Amounts
<1>6. (y \in T => g[y] \in Int) /\ \A x \in S : f[x] \in Int /\ g[x] = f[x]
  BY <1>4
<1> HIDE DEF f, g, y
<1>7. /\ SumFunctionOnSet(f, S) \in Int
      /\ SumFunctionOnSet(g, T) = SumFunctionOnSet(f, S) + IF y \in T THEN g[y] ELSE 0
  <2>1. SumFunctionOnSet(f, S) \in Int
    BY <1>3, <1>6, SumType
  <2>2. CASE T = S
    <3>1. SumFunctionOnSet(g, S) = SumFunctionOnSet(f, S)
      BY <1>3, <1>6, SumEqual
    <3> QED
      BY <1>3, <2>1, <2>2, <3>1
  <2>3. CASE T = S \cup {y}
    <3>1. IsFiniteSet(T) /\ y \in T /\ T \ {y} = S
      BY <1>3, <2>3, FS_AddElement
    <3>2. (\A x \in T : g[x] \in Int) /\ \A x \in T : x # y => g[x] = f[x]
      BY <1>6, <2>3
    <3>3. SumFunctionOnSet(g, T) = SumFunctionOnSet(f, T \ {y}) + g[y]
      BY <3>1, <3>2, SumWith
    <3>4. SumFunctionOnSet(f, T \ {y}) = SumFunctionOnSet(f, S)
      BY <3>1
    <3> QED
      BY <2>1, <3>1, <3>3, <3>4
  <2> QED
    BY <1>3, <2>2, <2>3
<1> QED
  BY <1>4, <1>5, <1>7 DEF y

\* What it moves.
LEMMA ReplayedNext ==
    ASSUME Shapes, RowsAreCents, NEW row, row.amount \in Int, journal' = Append(journal, row),
           NEW a
    PROVE  /\ Replayed(a) \in Int
           /\ Replayed(a)' = Replayed(a) + (IF row.to = a THEN row.amount ELSE 0)
                                         - (IF row.from = a THEN row.amount ELSE 0)
<1> DEFINE y == Len(journal) + 1
           in == {n \in DOMAIN journal : journal[n].to = a}
           out == {n \in DOMAIN journal : journal[n].from = a}
           in2 == {n \in DOMAIN journal' : journal'[n].to = a}
           out2 == {n \in DOMAIN journal' : journal'[n].from = a}
<1>1. /\ Len(journal) \in Nat
      /\ \A n \in 1 .. Len(journal) : journal'[n] = journal[n]
      /\ journal'[y] = row
      /\ DOMAIN journal = 1 .. Len(journal) /\ DOMAIN journal' = (1 .. Len(journal)) \cup {y}
  <2>1. PICK S, S2 : journal \in Seq(S) /\ journal' \in Seq(S2)
    BY JournalStep DEF Shapes
  <2>2. /\ Len(journal) \in Nat /\ Len(journal') = Len(journal) + 1
        /\ \A n \in 1 .. Len(journal) : journal'[n] = journal[n]
        /\ journal'[y] = row
    BY JournalStep
  <2>3. DOMAIN journal = 1 .. Len(journal) /\ DOMAIN journal' = 1 .. Len(journal')
    BY <2>1, LenProperties
  <2> QED
    BY <2>2, <2>3
<1>2. /\ in \in SUBSET (1 .. Len(journal)) /\ out \in SUBSET (1 .. Len(journal))
      /\ in2 = IF row.to = a THEN in \cup {y} ELSE in
      /\ out2 = IF row.from = a THEN out \cup {y} ELSE out
      /\ y \notin in /\ y \notin out
  BY <1>1
<1>3. Replayed(a) = Total(in) - Total(out)
  BY DEF Replayed, Received, Paid, Total
<1> HIDE DEF in, out, in2, out2, y
<1>4. PICK I : I = in2
  OBVIOUS
<1>5. PICK O : O = out2
  OBVIOUS
<1>6. Total(in) \in Int /\ Total(I)' = Total(in) + IF row.to = a THEN row.amount ELSE 0
  <2>1. in \in SUBSET (1 .. Len(journal)) /\ (I = in \/ I = in \cup {Len(journal) + 1})
    BY <1>2, <1>4 DEF y
  <2>2. Len(journal) + 1 \in I <=> row.to = a
    BY <1>2, <1>4 DEF y
  <2>3. PICK J : J = in
    OBVIOUS
  <2>4. /\ Total(J) \in Int
        /\ Total(I)' = Total(J) + IF Len(journal) + 1 \in I THEN row.amount ELSE 0
    BY <2>1, <2>3, TotalNext
  <2> QED
    BY <2>2, <2>3, <2>4
<1>7. Total(out) \in Int /\ Total(O)' = Total(out) + IF row.from = a THEN row.amount ELSE 0
  <2>1. out \in SUBSET (1 .. Len(journal)) /\ (O = out \/ O = out \cup {Len(journal) + 1})
    BY <1>2, <1>5 DEF y
  <2>2. Len(journal) + 1 \in O <=> row.from = a
    BY <1>2, <1>5 DEF y
  <2>3. PICK J : J = out
    OBVIOUS
  <2>4. /\ Total(J) \in Int
        /\ Total(O)' = Total(J) + IF Len(journal) + 1 \in O THEN row.amount ELSE 0
    BY <2>1, <2>3, TotalNext
  <2> QED
    BY <2>2, <2>3, <2>4
<1>8. Replayed(a)' = Total(I)' - Total(O)'
  BY <1>4, <1>5 DEF Replayed, Received, Paid, Total, in2, out2
<1>9. PICK v \in Int : v = row.amount
  OBVIOUS
<1> QED
  BY <1>3, <1>6, <1>7, <1>8, <1>9

-----------------------------------------------------------------------------
(* Holdings and their cost basis. *)

Holding == [qty : Int, cost : Int, realized : Int]
Job == [kind : {"none", "dividend", "split"}, terms : Int \X Int, todo : Seq(Account),
        quiet : BOOLEAN, since : Nat]

\* All the money that went into a holding is its basis or was realised.
Sound(p, money) ==
    /\ p.qty >= 0 /\ p.cost >= 0 /\ (p.qty = 0 => p.cost = 0)
    /\ p.cost - p.realized = money
Holdings ==
    /\ position \in [Account -> Holding] /\ stored = position
    /\ invested \in [Account -> Int]
    /\ job \in Job /\ (job.kind = "split" => job.terms[1] > 0 /\ job.terms[2] > 0)
    /\ \A a \in Account \ odd : Sound(position[a], invested[a])

\* What rounding down does.
LEMMA RoundedDown ==
    ASSUME NEW c \in Int, NEW n \in Nat \ {0}
    PROVE  c \div n \in Int /\ (c \div n) * n <= c /\ c < (c \div n) * n + n
OBVIOUS

\* A part of a basis is not more than the basis, and the whole of it is all of it.
LEMMA PartOfBasis ==
    ASSUME NEW c \in Int, NEW n \in Nat \ {0}, NEW q \in Nat \ {0}
    PROVE  /\ (c * q) \div n \in Int
           /\ c >= 0 /\ q <= n => (c * q) \div n >= 0 /\ (c * q) \div n <= c
           /\ q = n => (c * q) \div n = c
<1> DEFINE b == (c * q) \div n
<1>1. b \in Int /\ b * n <= c * q /\ c * q < b * n + n
  BY RoundedDown
<1> HIDE DEF b
<1>2. ASSUME c >= 0, q <= n PROVE b >= 0 /\ b <= c
  <2>1. c * q >= 0 /\ c * q <= c * n
    BY <1>2
  <2>2. b >= 0
    <3> SUFFICES ASSUME b <= -1 PROVE FALSE
      BY <1>1
    <3>1. b * n <= (-1) * n
      BY <1>1
    <3> QED
      BY <1>1, <2>1, <3>1
  <2>3. b <= c
    <3> SUFFICES ASSUME b >= c + 1 PROVE FALSE
      BY <1>1
    <3>1. b * n >= (c + 1) * n
      BY <1>1
    <3> QED
      BY <1>1, <2>1, <3>1
  <2> QED
    BY <2>2, <2>3
<1>3. ASSUME q = n PROVE b = c
  <2>1. b * n <= c * n /\ c * n < (b + 1) * n
    BY <1>1, <1>3
  <2>2. b <= c
    <3> SUFFICES ASSUME b >= c + 1 PROVE FALSE
      BY <1>1
    <3>1. b * n >= (c + 1) * n
      BY <1>1
    <3> QED
      BY <1>1, <2>1, <3>1
  <2>3. c <= b
    <3> SUFFICES ASSUME c >= b + 1 PROVE FALSE
      BY <1>1
    <3>1. c * n >= (b + 1) * n
      BY <1>1
    <3> QED
      BY <1>1, <2>1, <3>1
  <2> QED
    BY <1>1, <2>2, <2>3
<1> QED
  BY <1>1, <1>2, <1>3 DEF b

LEMMA BoughtIsSound ==
    ASSUME NEW p \in Holding, NEW value \in Nat, NEW qty \in Nat \ {0}
    PROVE  /\ Bought(p, value, qty) \in Holding
           /\ \A money \in Int : Sound(p, money) => Sound(Bought(p, value, qty), money + value)
<1>1. p.qty \in Int /\ p.cost \in Int /\ p.realized \in Int
  BY DEF Holding
<1> QED
  BY <1>1 DEF Bought, Holding, Sound

LEMMA SoldIsSound ==
    ASSUME NEW p \in Holding, NEW value \in Nat, NEW qty \in Nat \ {0}
    PROVE  /\ Sold(p, value, qty) \in Holding
           /\ \A money \in Int : qty <= p.qty /\ Sound(p, money)
                => Sound(Sold(p, value, qty), money - value)
<1>1. p.qty \in Int /\ p.cost \in Int /\ p.realized \in Int
  BY DEF Holding
<1>2. CASE p.qty > 0
  <2>1. p.qty \in Nat \ {0}
    BY <1>1, <1>2
  <2>2. /\ BasisOf(p, qty) \in Int
        /\ p.cost >= 0 /\ qty <= p.qty => BasisOf(p, qty) >= 0 /\ BasisOf(p, qty) <= p.cost
        /\ qty = p.qty => BasisOf(p, qty) = p.cost
    BY <1>1, <2>1, PartOfBasis DEF BasisOf
  <2>3. Sold(p, value, qty) = [qty |-> p.qty - qty, cost |-> p.cost - BasisOf(p, qty),
                               realized |-> p.realized + value - BasisOf(p, qty)]
    BY <1>2 DEF Sold
  <2>4. PICK b \in Int : b = BasisOf(p, qty)
    BY <2>2
  <2> QED
    BY <1>1, <2>2, <2>3, <2>4 DEF Holding, Sound
<1>3. CASE ~(p.qty > 0)
  BY <1>1, <1>3 DEF Sold, Holding, Sound
<1> QED
  BY <1>2, <1>3

LEMMA InitHoldings == Init => Holdings
<1> SUFFICES ASSUME Init PROVE Holdings
  OBVIOUS
<1>1. NoJob \in Job /\ NoJob.kind # "split"
  BY DEF NoJob, Job
<1>2. Flat \in Holding /\ Sound(Flat, 0)
  BY DEF Flat, Holding, Sound
<1> QED
  BY <1>1, <1>2 DEF Init, Holdings

LEMMA TradeHoldings ==
    ASSUME Holdings, NEW buyer \in Account, NEW seller \in Account, NEW price \in Price,
           NEW qty \in Quantity, Trade(buyer, seller, price, qty)
    PROVE  Holdings'
<1> DEFINE value == notional_cents(price, qty, 1)
           bought == [position EXCEPT ![buyer] = Bought(@, value, qty)]
           held == [bought EXCEPT ![seller] = Sold(@, value, qty)]
           paid == [invested EXCEPT ![buyer] = @ + value]
<1>1. qty \in Nat \ {0} /\ value \in Nat
  <2>1. value \in Int /\ value > 0
    <3>1. price \in Nat /\ qty \in Nat
      BY AccountsAssumption
    <3>2. price * qty * 1 \in Int
      BY <3>1
    <3>3. value \in Int
      BY <3>2, QuantityScaleAssumption, RoundedDown DEF notional_cents
    <3> QED
      BY <3>3 DEF Trade
  <2> QED
    BY <2>1, AccountsAssumption
<1>2. /\ position' = held /\ stored' = held
      /\ invested' = [paid EXCEPT ![seller] = @ - value]
      /\ odd' = IF bought[seller].qty < qty THEN odd \cup {seller} ELSE odd
      /\ job' = [job EXCEPT !.quiet = (job.kind = "none")]
  BY DEF Trade
<1> HIDE DEF value
<1>3. /\ bought \in [Account -> Holding] /\ paid \in [Account -> Int]
      /\ \A a \in Account \ odd : Sound(bought[a], paid[a])
  <2>1. position[buyer] \in Holding /\ invested[buyer] \in Int
    BY DEF Holdings
  <2>2. bought[buyer] = Bought(position[buyer], value, qty) /\ paid[buyer] = invested[buyer] + value
        /\ \A a \in Account : a # buyer => bought[a] = position[a] /\ paid[a] = invested[a]
    BY DEF Holdings
  <2>3. Bought(position[buyer], value, qty) \in Holding
        /\ (Sound(position[buyer], invested[buyer]) => Sound(bought[buyer], paid[buyer]))
    BY <1>1, <2>1, <2>2, BoughtIsSound
  <2> QED
    BY <1>1, <2>1, <2>2, <2>3 DEF Holdings
<1>5. PICK b, m : b = bought /\ m = paid
  OBVIOUS
<1>6. /\ b \in [Account -> Holding] /\ m \in [Account -> Int]
      /\ \A a \in Account \ odd : Sound(b[a], m[a])
      /\ position' = [b EXCEPT ![seller] = Sold(@, value, qty)]
      /\ invested' = [m EXCEPT ![seller] = @ - value]
      /\ odd' = IF b[seller].qty < qty THEN odd \cup {seller} ELSE odd
  BY <1>2, <1>3, <1>5
<1> HIDE DEF bought, held, paid
<1>7. /\ position'[seller] = Sold(b[seller], value, qty) /\ invested'[seller] = m[seller] - value
      /\ \A a \in Account : a # seller => position'[a] = b[a] /\ invested'[a] = m[a]
      /\ b[seller] \in Holding /\ m[seller] \in Int
  BY <1>6
<1>8. /\ Sold(b[seller], value, qty) \in Holding
      /\ qty <= b[seller].qty /\ Sound(b[seller], m[seller])
           => Sound(position'[seller], invested'[seller])
  BY <1>1, <1>7, SoldIsSound
<1>9. position' \in [Account -> Holding] /\ invested' \in [Account -> Int] /\ stored' = position'
  <2>1. position' \in [Account -> Holding] /\ stored' = position'
    BY <1>2, <1>6, <1>8
  <2>2. m[seller] - value \in Int
    BY <1>1, <1>7
  <2>3. invested' \in [Account -> Int]
    BY <1>6, <2>2
  <2> QED
    BY <2>1, <2>3
<1>10. job' \in Job /\ job'.kind = job.kind /\ job'.terms = job.terms
  BY <1>2 DEF Holdings, Job
<1>11. \A a \in Account \ odd' : Sound(position'[a], invested'[a])
  <2> SUFFICES ASSUME NEW a \in Account \ odd' PROVE Sound(position'[a], invested'[a])
    OBVIOUS
  <2>1. a \notin odd /\ (a = seller => ~(b[seller].qty < qty))
    BY <1>6
  <2>2. b[seller].qty \in Int
    BY <1>7 DEF Holding
  <2>3. CASE a = seller
    BY <1>1, <1>6, <1>8, <2>1, <2>2, <2>3
  <2>4. CASE a # seller
    BY <1>6, <1>7, <2>1, <2>4
  <2> QED
    BY <2>3, <2>4
<1> QED
  BY <1>9, <1>10, <1>11 DEF Holdings

\* Without a fraction lost, a split leaves a holding and its basis as they are in each other's
\* terms: the scaled quantity vanishes only with the quantity.
LEMMA SplitHoldings ==
    ASSUME Holdings, SplitHolder
    PROVE  Holdings'
<1> DEFINE a == Head(job.todo)
           n == job.terms[1]
           d == job.terms[2]
           scaled == position[a].qty * n
<1>1. n \in Nat \ {0} /\ d \in Nat \ {0}
  BY DEF Holdings, SplitHolder, Job
<1>2. /\ position' = [position EXCEPT ![a].qty = scaled \div d] /\ stored' = position'
      /\ odd' = IF position'[a].qty * d # scaled THEN odd \cup {a} ELSE odd
      /\ job' = [job EXCEPT !.todo = Tail(@)] /\ invested' = invested
      /\ job.todo # <<>>
  BY DEF SplitHolder
<1>3. job' \in Job /\ job'.kind = job.kind /\ job'.terms = job.terms
  <2>1. Tail(job.todo) \in Seq(Account)
    BY <1>2, HeadTailProperties DEF Holdings, Job
  <2> QED
    BY <1>2, <2>1 DEF Holdings, Job
<1>4. CASE a \in Account
  <2>1. position[a] \in Holding /\ position[a].qty \in Int
    BY <1>4 DEF Holdings, Holding
  <2>2. PICK s \in Int : s = scaled
    BY <1>1, <2>1
  <2>3. PICK q \in Int : q = s \div d
    BY <1>1, RoundedDown
  <2>4. position' = [position EXCEPT ![a].qty = q]
    BY <1>2, <2>2, <2>3
  <2>5. odd' = IF q * d # s THEN odd \cup {a} ELSE odd
    BY <1>2, <1>4, <2>1, <2>2, <2>4 DEF Holdings, Holding
  <2> HIDE DEF a, n, d, scaled
  <2>6. /\ position'[a] = [position[a] EXCEPT !.qty = q]
        /\ \A b \in Account : b # a => position'[b] = position[b]
        /\ position' \in [Account -> Holding]
    BY <1>4, <2>1, <2>4 DEF Holdings, Holding
  <2>7. ASSUME q * d = s, Sound(position[a], invested[a])
        PROVE  Sound(position'[a], invested[a])
    <3>1. position[a].qty \in Nat
      BY <2>1, <2>7 DEF Sound
    <3>2. q * d = position[a].qty * n
      BY <2>2, <2>7 DEF scaled
    <3>3. q >= 0
      <4> SUFFICES ASSUME q <= -1 PROVE FALSE
        OBVIOUS
      <4>1. q * d <= (-1) * d /\ position[a].qty * n >= 0
        BY <1>1, <3>1
      <4> QED
        BY <1>1, <3>2, <4>1
    <3>4. q = 0 => position[a].qty = 0
      <4> SUFFICES ASSUME q = 0, position[a].qty >= 1 PROVE FALSE
        BY <3>1
      <4>1. position[a].qty * n >= 1 * n
        BY <1>1, <3>1
      <4> QED
        BY <1>1, <3>2, <4>1
    <3> QED
      BY <2>1, <2>6, <2>7, <3>3, <3>4 DEF Sound, Holding
  <2>8. \A b \in Account \ odd' : Sound(position'[b], invested[b])
    BY <1>4, <2>5, <2>6, <2>7 DEF Holdings
  <2> QED
    BY <1>2, <1>3, <2>6, <2>8 DEF Holdings
<1>5. CASE a \notin Account
  <2>1. position' = position
    BY <1>2, <1>5 DEF Holdings
  <2> QED
    BY <1>2, <1>3, <2>1 DEF Holdings
<1> QED
  BY <1>4, <1>5

LEMMA StartJobHoldings ==
    ASSUME Shapes, Holdings, NEW kind \in {"dividend", "split"}, NEW terms \in Int \X Int,
           kind = "split" => terms[1] > 0 /\ terms[2] > 0, StartJob(kind, terms)
    PROVE  Holdings'
<1>1. IsFiniteSet(holders)
  BY AccountsAssumption, FS_Subset DEF holders
<1>2. SetToSeq(holders) \in Seq(holders)
  BY <1>1, SetIsListed
<1>3. SetToSeq(holders) \in Seq(Account)
  BY <1>2 DEF holders
<1>4. Len(journal) \in Nat
  BY DEF Shapes
<1>5. job' \in Job /\ job'.kind = kind /\ job'.terms = terms
  BY <1>3, <1>4 DEF StartJob, Job
<1>6. UNCHANGED <<position, stored, invested, odd>>
  BY DEF StartJob, tables, holdings
<1> QED
  BY <1>5, <1>6 DEF Holdings

LEMMA NextHoldings == Shapes /\ Holdings /\ [Next]_vars => Holdings'
<1> SUFFICES ASSUME Shapes, Holdings, [Next]_vars PROVE Holdings'
  OBVIOUS
<1>1. ASSUME UNCHANGED <<position, stored, invested, odd, job>> PROVE Holdings'
  BY <1>1 DEF Holdings
<1>2. ASSUME NEW t \in Thread, \/ \E a \in Account, amount \in Amount : StartDeposit(t, a, amount)
                              \/ NumberDeposit(t) \/ LookForDuplicate(t)
                              \/ ReadBalance(t) \/ StoreBalance(t) \/ AppendJournal(t)
      PROVE  Holdings'
  BY <1>1, <1>2 DEF StartDeposit, NumberDeposit, LookForDuplicate, ReadBalance, StoreBalance,
                    AppendJournal, tables, memory, holdings
<1>3. ASSUME NEW buyer \in Account, NEW seller \in Account, NEW price \in Price,
             NEW qty \in Quantity, Trade(buyer, seller, price, qty)
      PROVE  Holdings'
  BY <1>3, TradeHoldings
<1>4. ASSUME NEW cents \in PerShare, StartJob("dividend", <<cents, 1>>) PROVE Holdings'
  BY <1>4, StartJobHoldings, AccountsAssumption
<1>5. ASSUME NEW ratio \in Ratio, StartJob("split", ratio) PROVE Holdings'
  BY <1>5, StartJobHoldings, AccountsAssumption
<1>6. CASE PayHolder
  <2>1. UNCHANGED <<position, stored, invested, odd>> /\ job' = [job EXCEPT !.todo = Tail(@)]
        /\ job.todo # <<>>
    BY <1>6 DEF PayHolder, tables, memory, holdings
  <2>2. Tail(job.todo) \in Seq(Account)
    BY <2>1, HeadTailProperties DEF Holdings, Job
  <2>3. job' \in Job /\ job'.kind = job.kind /\ job'.terms = job.terms
    BY <2>1, <2>2 DEF Holdings, Job
  <2> QED
    BY <2>1, <2>3 DEF Holdings
<1>7. CASE SplitHolder
  BY <1>7, SplitHoldings
<1>8. ASSUME job' = NoJob, UNCHANGED <<invested, odd, stored>>, position' = stored
      PROVE  Holdings'
  <2>1. NoJob \in Job /\ NoJob.kind # "split"
    BY DEF NoJob, Job
  <2> QED
    BY <1>8, <2>1 DEF Holdings
<1>9. CASE EndJob
  BY <1>8, <1>9 DEF EndJob, tables, memory, holdings, Holdings
<1>10. CASE Restart
  BY <1>8, <1>10 DEF Restart, tables, holdings
<1>11. CASE UNCHANGED vars
  BY <1>1, <1>11 DEF vars, tables, memory, holdings
<1> QED
  BY <1>2, <1>3, <1>4, <1>5, <1>6, <1>7, <1>9, <1>10, <1>11 DEF Next, Thread

LEMMA AlwaysInv == Spec => []Inv
BY InitInv, NextInv, PTL DEF Spec

LEMMA AlwaysHoldings == Spec => []Holdings
<1>1. Inv => Shapes
  BY DEF Inv
<1> QED
  BY <1>1, AlwaysInv, InitHoldings, NextHoldings, PTL DEF Spec

\* Whoever never sold short and never lost a fraction has a basis that vanishes with the
\* holding and accounts, with what was realised, for every cent put in (Portfolio.on_fill).
THEOREM CostBasisIsSound == Spec => []CostBasisSound
<1>1. Holdings => CostBasisSound
  BY DEF Holdings, CostBasisSound, Sound
<1> QED
  BY <1>1, AlwaysHoldings, PTL

-----------------------------------------------------------------------------
(* The ledger's memory and its journal. *)

Cents ==
    /\ RowsAreCents
    /\ balance \in [Holder -> Int] /\ overwritten \in [Holder -> Int]
    /\ doubled \in [Holder -> Int]
    /\ \A t \in Thread : /\ task[t].amount \in Int /\ task[t].base \in Int
                         /\ Busy(t) => task[t].account \in Account
Books == Cents /\ MemoryIsJournal

LEMMA ThreadsAreFinite == IsFiniteSet(Thread)
<1>1. IsFiniteSet(Clerk \cup {Admin})
  BY AccountsAssumption, FS_AddElement
<1> QED
  BY <1>1 DEF Thread

LEMMA UnwrittenType ==
    ASSUME NEW posting, posting.amount \in Int, NEW h
    PROVE  Unwritten(posting, h) \in Int
BY DEF Unwritten

\* What the step of one thread does to what is on its way.
LEMMA OnTheWayMoves ==
    ASSUME Shapes, NEW t \in Thread, NEW r, task' = [task EXCEPT ![t] = r], r.amount \in Int,
           \A u \in Thread : task[u].amount \in Int, NEW h
    PROVE  /\ OnTheWay(h) \in Int
           /\ OnTheWay(h)' = OnTheWay(h) + Unwritten(r, h) - Unwritten(task[t], h)
<1> DEFINE f == [u \in Thread |-> Unwritten(task[u], h)]
           g == [u \in Thread |-> Unwritten(task'[u], h)]
<1>1. task'[t] = r /\ \A u \in Thread \ {t} : task'[u] = task[u]
  BY TaskStep
<1>2. \A u \in Thread : task'[u].amount \in Int
  BY <1>1
<1>3. \A u \in Thread : f[u] \in Int /\ g[u] \in Int
  BY <1>2, UnwrittenType
<1>4. \A u \in Thread : u # t => g[u] = f[u]
  BY <1>1
<1>5. g[t] = Unwritten(r, h) /\ f[t] = Unwritten(task[t], h)
  BY <1>1
<1>6. OnTheWay(h) = SumFunctionOnSet(f, Thread)
  BY DEF OnTheWay, SumFunction
<1>7. OnTheWay(h)' = SumFunctionOnSet(g, Thread)
  BY DEF OnTheWay, SumFunction, Unwritten
<1> HIDE DEF f, g
<1>8. SumFunctionOnSet(g, Thread) = SumFunctionOnSet(f, Thread) + g[t] - f[t]
  <2>1. PICK F, G : F = f /\ G = g
    OBVIOUS
  <2>2. /\ \A u \in Thread : F[u] \in Int /\ G[u] \in Int
        /\ \A u \in Thread : u # t => G[u] = F[u]
    BY <1>3, <1>4, <2>1
  <2>3. SumFunctionOnSet(G, Thread) = SumFunctionOnSet(F, Thread) + G[t] - F[t]
    BY ONLY <2>2, ThreadsAreFinite, SumUpdate, t \in Thread
  <2> QED
    BY <2>1, <2>3
<1>9. SumFunctionOnSet(f, Thread) \in Int
  BY <1>3, ThreadsAreFinite, SumType
<1> QED
  BY <1>5, <1>6, <1>7, <1>8, <1>9

LEMMA OnTheWayType ==
    ASSUME \A u \in Thread : task[u].amount \in Int, NEW h
    PROVE  OnTheWay(h) \in Int
<1> DEFINE f == [u \in Thread |-> Unwritten(task[u], h)]
<1>1. \A u \in Thread : f[u] \in Int
  BY UnwrittenType
<1>2. OnTheWay(h) = SumFunctionOnSet(f, Thread)
  BY DEF OnTheWay, SumFunction
<1> HIDE DEF f
<1> QED
  BY <1>1, <1>2, ThreadsAreFinite, SumType

\* Idle threads owe the journal nothing.
LEMMA NothingOnTheWay ==
    ASSUME NEW tasks, \A t \in Thread : tasks[t].at = "idle", NEW h
    PROVE  SumFunction([t \in Thread |-> Unwritten(tasks[t], h)]) = 0
<1> DEFINE f == [t \in Thread |-> Unwritten(tasks[t], h)]
<1>1. \A t \in Thread : f[t] = 0
  BY DEF Unwritten
<1>2. SumFunction(f) = SumFunctionOnSet(f, Thread)
  BY DEF SumFunction
<1> HIDE DEF f
<1>3. SumFunction(f) = 0
  BY <1>1, <1>2, ThreadsAreFinite, SumZero
<1> QED
  BY <1>3 DEF f

LEMMA SameJournal ==
    ASSUME journal' = journal
    PROVE  (\A a : Replayed(a)' = Replayed(a)) /\ (\A x : Written(x)' <=> Written(x))
BY DEF Replayed, Received, Paid, Total, Written

LEMMA RowsStayCents ==
    ASSUME Shapes, RowsAreCents, NEW row, row.amount \in Int, journal' = Append(journal, row)
    PROVE  RowsAreCents'
<1>1. /\ Len(journal) \in Nat /\ Len(journal') = Len(journal) + 1
      /\ \A n \in 1 .. Len(journal) : journal'[n] = journal[n]
      /\ journal'[Len(journal) + 1] = row
  BY JournalStep
<1> SUFFICES ASSUME NEW n \in 1 .. Len(journal') PROVE journal'[n].amount \in Int
  BY DEF RowsAreCents
<1>2. CASE n = Len(journal) + 1
  BY <1>1, <1>2
<1>3. CASE n # Len(journal) + 1
  <2>1. n \in 1 .. Len(journal)
    BY <1>1, <1>3
  <2> QED
    BY <1>1, <2>1 DEF RowsAreCents
<1> QED
  BY <1>2, <1>3

\* The journal's rows have totals.
LEMMA ReplayedType ==
    ASSUME Shapes, RowsAreCents, NEW a
    PROVE  Replayed(a) \in Int
<1>1. PICK S : journal \in Seq(S)
  BY DEF Shapes
<1>2. DOMAIN journal = 1 .. Len(journal) /\ Len(journal) \in Nat
  BY <1>1, LenProperties
<1>3. ASSUME NEW T \in SUBSET (1 .. Len(journal)) PROVE Total(T) \in Int
  <2> DEFINE f == [n \in T |-> journal[n].amount]
  <2>1. IsFiniteSet(T)
    <3>1. IsFiniteSet(1 .. Len(journal))
      BY <1>2, FS_Interval
    <3> QED
      BY <3>1, FS_Subset
  <2>2. \A n \in T : f[n] \in Int
    BY DEF RowsAreCents
  <2>3. Total(T) = SumFunctionOnSet(f, T)
    BY DEF Total, SumFunction
  <2> HIDE DEF f
  <2> QED
    BY <2>1, <2>2, <2>3, SumType
<1>4. Total({n \in DOMAIN journal : journal[n].to = a}) \in Int
  BY <1>2, <1>3
<1>5. Total({n \in DOMAIN journal : journal[n].from = a}) \in Int
  BY <1>2, <1>3
<1> QED
  BY <1>4, <1>5 DEF Replayed, Received, Paid

LEMMA StutterBooks ==
    ASSUME Books, UNCHANGED <<journal, balance, task, overwritten, doubled>>
    PROVE  Books'
<1>1. Cents'
  BY DEF Books, Cents, RowsAreCents, Busy
<1>2. \A h : Replayed(h)' = Replayed(h)
  BY SameJournal
<1>3. \A h : OnTheWay(h)' = OnTheWay(h)
  BY DEF OnTheWay
<1> QED
  BY <1>1, <1>2, <1>3 DEF Books, MemoryIsJournal

\* A thread that goes on without touching a balance, nor what is yet to be written.
LEMMA MovesKeepBooks ==
    ASSUME Inv, Books, NEW t \in Thread, NEW r, task' = [task EXCEPT ![t] = r],
           UNCHANGED <<journal, balance, overwritten, doubled>>,
           r.amount \in Int, r.base \in Int, r.at # "idle" => r.account \in Account,
           \A h \in Holder : Unwritten(r, h) = Unwritten(task[t], h)
    PROVE  Books'
<1>1. task'[t] = r /\ \A u \in Thread \ {t} : task'[u] = task[u]
  BY TaskStep DEF Inv
<1>2. Cents'
  BY <1>1 DEF Books, Cents, RowsAreCents, Busy
<1>3. \A h : Replayed(h)' = Replayed(h)
  BY SameJournal
<1>4. ASSUME NEW h \in Holder PROVE OnTheWay(h)' = OnTheWay(h)
  <2>1. /\ OnTheWay(h) \in Int
        /\ OnTheWay(h)' = OnTheWay(h) + Unwritten(r, h) - Unwritten(task[t], h)
    BY OnTheWayMoves DEF Inv, Books, Cents
  <2>2. Unwritten(r, h) \in Int
    BY UnwrittenType
  <2> QED
    BY <2>1, <2>2
<1> QED
  BY <1>2, <1>3, <1>4 DEF Books, MemoryIsJournal

LEMMA StartDepositBooks ==
    ASSUME Inv, Books, NEW t \in Clerk, NEW a \in Account, NEW amount \in Amount,
           StartDeposit(t, a, amount)
    PROVE  Books'
<1> DEFINE r == [at |-> "number", account |-> a, amount |-> amount, txn |-> NoTxn, base |-> 0]
<1>1. /\ task[t].at = "idle" /\ task' = [task EXCEPT ![t] = r] /\ t \in Thread
      /\ UNCHANGED <<journal, balance, overwritten, doubled>>
  BY DEF StartDeposit, tables, Busy, Thread
<1>2. r.at = "number" /\ r.account = a /\ r.amount \in Int /\ r.base \in Int
  BY AccountsAssumption
<1> HIDE DEF r
<1>3. \A h : Unwritten(r, h) = 0 /\ Unwritten(task[t], h) = 0
  BY <1>1, <1>2 DEF Unwritten
<1> QED
  BY <1>1, <1>2, <1>3, MovesKeepBooks

LEMMA NumberDepositBooks ==
    ASSUME Inv, Books, NEW t \in Clerk, NumberDeposit(t)
    PROVE  Books'
<1> DEFINE r == IF task[t].amount <= 0 THEN NoTask
                ELSE Stage(t, "post", Txn("fund", task[t].account, fund_seq), 0)
<1>1. /\ task[t].at = "number" /\ task' = [task EXCEPT ![t] = r]
      /\ UNCHANGED <<journal, balance, overwritten, doubled>> /\ t \in Thread
  BY DEF NumberDeposit, tables, memory, deposits, Thread
<1>2. task[t].account \in Account /\ task[t].amount \in Int
  BY <1>1 DEF Books, Cents, Busy
<1>3. /\ r.at \in {"idle", "post"} /\ r.amount \in Int /\ r.base \in Int
      /\ r.at = "post" => r.account = task[t].account
  BY <1>2 DEF NoTask, Stage
<1> HIDE DEF r
<1>4. \A h : Unwritten(r, h) = 0 /\ Unwritten(task[t], h) = 0
  BY <1>1, <1>3 DEF Unwritten
<1> QED
  BY <1>1, <1>2, <1>3, <1>4, MovesKeepBooks

LEMMA LookForDuplicateBooks ==
    ASSUME Inv, Books, NEW t \in Thread, LookForDuplicate(t)
    PROVE  Books'
<1> DEFINE r == IF Swallowed(task[t].txn) THEN NoTask ELSE Stage(t, "read_out", task[t].txn, 0)
<1>1. /\ task[t].at = "post" /\ task' = [task EXCEPT ![t] = r]
      /\ UNCHANGED <<journal, balance, overwritten, doubled>>
  BY DEF LookForDuplicate, tables, memory, deposits
<1>2. task[t].account \in Account /\ task[t].amount \in Int
  BY <1>1 DEF Books, Cents, Busy
<1>3. /\ r.at \in {"idle", "read_out"} /\ r.amount \in Int /\ r.base \in Int
      /\ r.at = "read_out" => r.account = task[t].account
  BY <1>2 DEF NoTask, Stage
<1> HIDE DEF r
<1>4. \A h : Unwritten(r, h) = 0 /\ Unwritten(task[t], h) = 0
  BY <1>1, <1>3 DEF Unwritten
<1> QED
  BY <1>1, <1>2, <1>3, <1>4, MovesKeepBooks

\* Whose balance a posting reads or stores.
LEMMA LegIsHolder ==
    ASSUME Books, NEW t \in Thread, Busy(t)
    PROVE  /\ Leg(t) \in Holder /\ task[t].account \in Account /\ task[t].account # Nobody
           /\ task[t].amount \in Int /\ task[t].base \in Int /\ balance[Leg(t)] \in Int
BY AccountsAssumption DEF Books, Cents, Leg, Holder

LEMMA ReadBalanceBooks ==
    ASSUME Inv, Books, NEW t \in Thread, ReadBalance(t)
    PROVE  Books'
<1> DEFINE r == Stage(t, IF PayingOut(t) THEN "store_out" ELSE "store_in", task[t].txn,
                      balance[Leg(t)])
<1>1. /\ task[t].at \in {"read_out", "read_in"} /\ task' = [task EXCEPT ![t] = r] /\ Busy(t)
      /\ UNCHANGED <<journal, balance, overwritten, doubled>>
  BY DEF ReadBalance, tables, memory, deposits, Busy
<1>2. task[t].account \in Account /\ task[t].amount \in Int /\ balance[Leg(t)] \in Int
  BY <1>1, LegIsHolder
<1>3. /\ r.at = IF task[t].at = "read_out" THEN "store_out" ELSE "store_in"
      /\ r.amount = task[t].amount /\ r.base \in Int /\ r.account = task[t].account
  BY <1>1, <1>2 DEF Stage, PayingOut
<1> HIDE DEF r
<1>4. \A h \in Holder : Unwritten(r, h) = Unwritten(task[t], h)
  BY <1>1, <1>3 DEF Unwritten
<1>5. r.amount \in Int /\ r.base \in Int /\ r.account \in Account
  BY <1>2, <1>3
<1>6. task' = [task EXCEPT ![t] = r] /\ UNCHANGED <<journal, balance, overwritten, doubled>>
  BY <1>1
<1> QED
  BY <1>4, <1>5, <1>6, MovesKeepBooks

\* What others stored since the balance was read is lost, and noted.
LEMMA StoreBalanceBooks ==
    ASSUME Inv, Books, NEW t \in Thread, StoreBalance(t)
    PROVE  Books'
<1> DEFINE r == Stage(t, IF PayingOut(t) THEN "read_in" ELSE "write", task[t].txn, 0)
           k == Leg(t)
           c == Change(t)
           m == task[t].amount
<1>1. /\ task[t].at \in {"store_out", "store_in"} /\ task' = [task EXCEPT ![t] = r] /\ Busy(t)
      /\ balance' = [balance EXCEPT ![k] = task[t].base + c]
      /\ overwritten' = [overwritten EXCEPT ![k] = @ + balance[k] - task[t].base]
      /\ UNCHANGED <<journal, doubled>>
  BY DEF StoreBalance, tables, Busy
<1>2. /\ k \in Holder /\ task[t].account \in Account /\ task[t].account # Nobody
      /\ m \in Int /\ task[t].base \in Int /\ balance[k] \in Int
  BY <1>1, LegIsHolder
<1>3. c \in Int
  BY <1>2 DEF Change
<1>4. /\ r.at = IF task[t].at = "store_out" THEN "read_in" ELSE "write"
      /\ r.amount = m /\ r.base = 0 /\ r.account = task[t].account
  BY <1>1 DEF Stage, PayingOut
<1>5. /\ k = IF task[t].at = "store_out" THEN Nobody ELSE task[t].account
      /\ c = IF task[t].at = "store_out" THEN -m ELSE m
  BY <1>1 DEF Leg, Change, PayingOut
<1> HIDE DEF r, k, c, m
<1>6. \A h \in Holder : Unwritten(r, h) = Unwritten(task[t], h) + IF h = k THEN c ELSE 0
  BY <1>1, <1>2, <1>4, <1>5 DEF Unwritten, m
<1>7. task'[t] = r /\ \A u \in Thread \ {t} : task'[u] = task[u]
  BY <1>1, TaskStep DEF Inv
<1>8. PICK b, o, d : b = balance /\ o = overwritten /\ d = doubled
  OBVIOUS
<1>9. b \in [Holder -> Int] /\ o \in [Holder -> Int] /\ d \in [Holder -> Int]
  BY <1>8 DEF Books, Cents
<1>10. /\ balance' \in [Holder -> Int] /\ overwritten' \in [Holder -> Int]
       /\ balance'[k] = task[t].base + c /\ overwritten'[k] = o[k] + b[k] - task[t].base
       /\ \A h \in Holder \ {k} : balance'[h] = b[h] /\ overwritten'[h] = o[h]
  <2>1. task[t].base + c \in Int
    BY <1>2, <1>3
  <2>2. o[k] + b[k] - task[t].base \in Int
    BY <1>2, <1>9
  <2> QED
    BY <1>1, <1>2, <1>8, <1>9, <2>1, <2>2
<1>11. Cents'
  BY <1>1, <1>2, <1>4, <1>7, <1>10 DEF Books, Cents, RowsAreCents, Busy
<1>12. \A h : Replayed(h)' = Replayed(h)
  BY <1>1, SameJournal
<1>13. ASSUME NEW h \in Holder
       PROVE  balance'[h] = Replayed(h)' + OnTheWay(h)' - overwritten'[h] + doubled'[h]
  <2>1. /\ OnTheWay(h) \in Int
        /\ OnTheWay(h)' = OnTheWay(h) + Unwritten(r, h) - Unwritten(task[t], h)
    BY <1>1, <1>2, <1>4, OnTheWayMoves DEF Inv, Books, Cents
  <2>2. Unwritten(task[t], h) \in Int
    BY <1>2, UnwrittenType DEF m
  <2>3. OnTheWay(h)' = OnTheWay(h) + IF h = k THEN c ELSE 0
    BY <1>3, <1>6, <2>1, <2>2
  <2>4. Replayed(h) \in Int
    BY ReplayedType DEF Inv, Books, Cents
  <2>5. b[h] = Replayed(h) + OnTheWay(h) - o[h] + d[h]
    BY <1>8 DEF Books, MemoryIsJournal
  <2>6. b[h] \in Int /\ o[h] \in Int /\ d[h] \in Int /\ doubled'[h] = d[h]
    BY <1>1, <1>8, <1>9
  <2>7. CASE h = k
    BY <1>2, <1>3, <1>10, <1>12, <2>1, <2>3, <2>4, <2>5, <2>6, <2>7
  <2>8. CASE h # k
    BY <1>10, <1>12, <2>1, <2>3, <2>4, <2>5, <2>6, <2>8
  <2> QED
    BY <2>7, <2>8
<1> QED
  BY <1>11, <1>13 DEF Books, MemoryIsJournal

\* The row makes good what was on its way; if the database refuses it, the deposit had met
\* another, which is noted.
LEMMA AppendJournalBooks ==
    ASSUME Inv, Books, NEW t \in Thread, AppendJournal(t)
    PROVE  Books'
<1> DEFINE a == task[t].account
           m == task[t].amount
           row == Row(task[t].txn, Nobody, a, m)
           Moved(h) == (IF h = Nobody THEN -m ELSE 0) + (IF h = a THEN m ELSE 0)
<1>1. /\ task[t].at = "write" /\ task' = [task EXCEPT ![t] = NoTask] /\ Busy(t)
      /\ UNCHANGED <<balance, overwritten>>
  BY DEF AppendJournal, memory, Busy
<1>2. NoTask.at = "idle" /\ NoTask.amount \in Int /\ NoTask.base \in Int
  BY DEF NoTask
<1>3. task'[t] = NoTask /\ \A u \in Thread \ {t} : task'[u] = task[u]
  BY <1>1, TaskStep DEF Inv
<1>4. a \in Account /\ a # Nobody /\ m \in Int
  BY <1>1, LegIsHolder
<1>5. \A h : Unwritten(NoTask, h) = 0 /\ Unwritten(task[t], h) = Moved(h) /\ Moved(h) \in Int
  BY <1>1, <1>2, <1>4 DEF Unwritten
<1>6. \A u \in Thread : /\ task'[u].amount \in Int /\ task'[u].base \in Int
                        /\ task'[u].at # "idle" => task'[u].account \in Account
  BY <1>2, <1>3 DEF Books, Cents, Busy
<1>7. ASSUME NEW h
      PROVE  OnTheWay(h) \in Int /\ OnTheWay(h)' = OnTheWay(h) - Moved(h)
  <2>1. /\ OnTheWay(h) \in Int
        /\ OnTheWay(h)' = OnTheWay(h) + Unwritten(NoTask, h) - Unwritten(task[t], h)
    BY <1>1, <1>2, OnTheWayMoves DEF Inv, Books, Cents
  <2> HIDE DEF Moved
  <2> QED
    BY <1>5, <2>1
<1>8. CASE Written(task[t].txn)
  <2>1. t \in met
    <3>1. task[t].txn \in Rows /\ task[t].at \in Posting
      BY <1>1, <1>8, WrittenIsRow DEF Inv, Posting
    <3> QED
      BY <1>1, <3>1 DEF Inv, PostingsAreApart, Apart
  <2>2. /\ journal' = journal
        /\ doubled' = [h \in Holder |-> doubled[h] + (IF h = Nobody THEN -m ELSE 0)
                                                   + (IF h = a THEN m ELSE 0)]
    BY <1>8, <2>1 DEF AppendJournal
  <2>3. \A h : Replayed(h)' = Replayed(h)
    BY <2>2, SameJournal
  <2>4. \A h \in Holder : doubled[h] \in Int /\ doubled'[h] = doubled[h] + Moved(h)
    BY <1>4, <2>2 DEF Books, Cents
  <2> HIDE DEF Moved, m, a
  <2>5. doubled' \in [Holder -> Int]
    <3>1. \A h \in Holder : doubled'[h] \in Int
      BY <1>5, <2>4
    <3> QED
      BY <2>2, <3>1
  <2>6. Cents'
    BY <1>1, <1>6, <2>2, <2>5 DEF Books, Cents, RowsAreCents, Busy
  <2>7. ASSUME NEW h \in Holder
        PROVE  balance'[h] = Replayed(h)' + OnTheWay(h)' - overwritten'[h] + doubled'[h]
    <3>1. balance[h] = Replayed(h) + OnTheWay(h) - overwritten[h] + doubled[h]
      BY DEF Books, MemoryIsJournal
    <3>2. Replayed(h) \in Int /\ overwritten[h] \in Int
      BY ReplayedType DEF Inv, Books, Cents
    <3> QED
      BY <1>1, <1>5, <1>7, <2>3, <2>4, <3>1, <3>2
  <2> QED
    BY <2>6, <2>7 DEF Books, MemoryIsJournal
<1>9. CASE ~ Written(task[t].txn)
  <2>1. journal' = Append(journal, row) /\ doubled' = doubled
    BY <1>9 DEF AppendJournal
  <2>2. row.from = Nobody /\ row.to = a /\ row.amount = m
    BY DEF Row
  <2> HIDE DEF row
  <2>3. Shapes /\ RowsAreCents /\ row.amount \in Int
    BY <1>4, <2>2 DEF Inv, Books, Cents
  <2>4. ASSUME NEW h
        PROVE  Replayed(h) \in Int /\ Replayed(h)' = Replayed(h) + Moved(h)
    <3>1. /\ Replayed(h) \in Int
          /\ Replayed(h)' = Replayed(h) + (IF row.to = h THEN row.amount ELSE 0)
                                       - (IF row.from = h THEN row.amount ELSE 0)
      BY <2>1, <2>3, ReplayedNext
    <3> HIDE DEF a, m
    <3> QED
      BY <1>4, <2>2, <3>1
  <2> HIDE DEF Moved, m, a
  <2>5. Cents'
    <3>1. RowsAreCents'
      BY <2>1, <2>3, RowsStayCents
    <3> QED
      BY <1>1, <1>6, <2>1, <3>1 DEF Books, Cents, Busy
  <2>6. ASSUME NEW h \in Holder
        PROVE  balance'[h] = Replayed(h)' + OnTheWay(h)' - overwritten'[h] + doubled'[h]
    <3>1. balance[h] = Replayed(h) + OnTheWay(h) - overwritten[h] + doubled[h]
      BY DEF Books, MemoryIsJournal
    <3>2. overwritten[h] \in Int /\ doubled[h] \in Int
      BY DEF Books, Cents
    <3> QED
      BY <1>1, <1>5, <1>7, <2>1, <2>4, <3>1, <3>2
  <2> QED
    BY <2>5, <2>6 DEF Books, MemoryIsJournal
<1> QED
  BY <1>8, <1>9

LEMMA DueIsCents ==
    ASSUME Holdings, NEW a \in Account
    PROVE  Due(a) \in Int
<1>1. position[a].qty \in Int /\ job.terms[1] \in Int
  BY DEF Holdings, Holding, Job
<1>2. PICK n \in Int : n = job.terms[1] * position[a].qty
  BY <1>1
<1>3. n \div QuantityScale \in Int
  BY <1>2, RoundedDown, QuantityScaleAssumption
<1>4. RoundHalfEven(n, QuantityScale) \in Int
  BY <1>3 DEF RoundHalfEven
<1> QED
  BY <1>2, <1>4 DEF Due

LEMMA PayHolderBooks ==
    ASSUME Inv, Holdings, Books, PayHolder
    PROVE  Books'
<1> DEFINE a == Head(job.todo)
           r == [at |-> "post", account |-> a, amount |-> Due(a), txn |-> DividendTo(a),
                 base |-> 0]
<1>1. /\ task[Admin].at = "idle" /\ job.todo # <<>>
      /\ UNCHANGED <<journal, balance, overwritten, doubled>>
  BY DEF PayHolder, tables, memory, deposits, Busy
<1>2. a \in Account
  BY <1>1, HeadTailProperties DEF Holdings, Job
<1>3. CASE Due(a) > 0
  <2>1. task' = [task EXCEPT ![Admin] = r] /\ Admin \in Thread
    BY <1>3 DEF PayHolder, Thread
  <2>2. r.at = "post" /\ r.account = a /\ r.amount \in Int /\ r.base \in Int
    BY <1>2, DueIsCents
  <2> HIDE DEF r, a
  <2>3. \A h : Unwritten(r, h) = 0 /\ Unwritten(task[Admin], h) = 0
    BY <1>1, <2>2 DEF Unwritten
  <2> QED
    BY <1>1, <1>2, <2>1, <2>2, <2>3, MovesKeepBooks
<1>4. CASE ~(Due(a) > 0)
  <2>1. task' = task
    BY <1>4 DEF PayHolder
  <2> QED
    BY <1>1, <2>1, StutterBooks
<1> QED
  BY <1>3, <1>4

LEMMA TradeBooks ==
    ASSUME Inv, Books, NEW buyer \in Account, NEW seller \in Account, NEW price \in Price,
           NEW qty \in Quantity, Trade(buyer, seller, price, qty)
    PROVE  Books'
<1> DEFINE value == notional_cents(price, qty, 1)
           debited == [balance EXCEPT ![buyer] = @ - value]
<1>1. value \in Int
  <2>1. price * qty * 1 \in Int
    BY AccountsAssumption
  <2> QED
    BY <2>1, QuantityScaleAssumption, RoundedDown DEF notional_cents
<1>2. PICK row : /\ row.from = buyer /\ row.to = seller /\ row.amount = value
                 /\ journal' = Append(journal, row)
  BY DEF Trade, Row
<1>3. /\ UNCHANGED <<task, overwritten, doubled>>
      /\ balance' = [debited EXCEPT ![seller] = @ + value]
  BY DEF Trade, deposits
<1> HIDE DEF value
<1>4. /\ balance' \in [Holder -> Int]
      /\ \A h \in Holder : /\ balance[h] \in Int
                           /\ balance'[h] = balance[h] + (IF seller = h THEN value ELSE 0)
                                                       - (IF buyer = h THEN value ELSE 0)
  <2>1. balance \in [Holder -> Int] /\ buyer \in Holder /\ seller \in Holder
    BY DEF Books, Cents, Holder
  <2>2. balance[buyer] - value \in Int
    BY <1>1, <2>1
  <2>3. /\ debited \in [Holder -> Int] /\ debited[buyer] = balance[buyer] - value
        /\ \A b \in Holder \ {buyer} : debited[b] = balance[b]
    BY <2>1, <2>2
  <2>4. PICK d : d = debited
    OBVIOUS
  <2> HIDE DEF debited
  <2>5. d[seller] + value \in Int /\ balance' = [d EXCEPT ![seller] = d[seller] + value]
    BY <1>1, <1>3, <2>1, <2>3, <2>4
  <2>6. /\ balance' \in [Holder -> Int] /\ balance'[seller] = d[seller] + value
        /\ \A b \in Holder \ {seller} : balance'[b] = d[b]
    BY <2>1, <2>3, <2>4, <2>5
  <2>7. ASSUME NEW h \in Holder
        PROVE  balance'[h] = balance[h] + (IF seller = h THEN value ELSE 0)
                                        - (IF buyer = h THEN value ELSE 0)
    <3>1. balance[h] \in Int
      BY <2>1
    <3>2. CASE seller = h /\ buyer = h
      BY <1>1, <2>1, <2>3, <2>4, <2>6, <3>1, <3>2
    <3>3. CASE seller = h /\ buyer # h
      BY <1>1, <2>1, <2>3, <2>4, <2>6, <3>1, <3>3
    <3>4. CASE seller # h /\ buyer = h
      BY <1>1, <2>1, <2>3, <2>4, <2>6, <3>1, <3>4
    <3>5. CASE seller # h /\ buyer # h
      BY <1>1, <2>1, <2>3, <2>4, <2>6, <3>1, <3>5
    <3> QED
      BY <3>2, <3>3, <3>4, <3>5
  <2> QED
    BY <2>1, <2>6, <2>7
<1>5. Shapes /\ RowsAreCents /\ row.amount \in Int
  BY <1>1, <1>2 DEF Inv, Books, Cents
<1>6. RowsAreCents'
  BY <1>2, <1>5, RowsStayCents
<1>7. Cents'
  BY <1>3, <1>4, <1>6 DEF Books, Cents, Busy
<1>8. ASSUME NEW h \in Holder
      PROVE  balance'[h] = Replayed(h)' + OnTheWay(h)' - overwritten'[h] + doubled'[h]
  <2>1. /\ Replayed(h) \in Int
        /\ Replayed(h)' = Replayed(h) + (IF row.to = h THEN row.amount ELSE 0)
                                     - (IF row.from = h THEN row.amount ELSE 0)
    BY <1>2, <1>5, ReplayedNext
  <2>2. OnTheWay(h)' = OnTheWay(h) /\ OnTheWay(h) \in Int
    BY <1>3, OnTheWayType DEF OnTheWay, Books, Cents
  <2>3. /\ balance[h] = Replayed(h) + OnTheWay(h) - overwritten[h] + doubled[h]
        /\ overwritten[h] \in Int /\ doubled[h] \in Int
    BY DEF Books, MemoryIsJournal, Cents
  <2>4. /\ balance[h] \in Int
        /\ balance'[h] = balance[h] + (IF row.to = h THEN value ELSE 0)
                                    - (IF row.from = h THEN value ELSE 0)
        /\ row.amount = value
    BY <1>2, <1>4
  <2>5. overwritten'[h] = overwritten[h] /\ doubled'[h] = doubled[h]
    BY <1>3
  <2> QED
    BY ONLY <1>1, <2>1, <2>2, <2>3, <2>4, <2>5
<1> QED
  BY <1>7, <1>8 DEF Books, MemoryIsJournal

\* A new process has the balances of the journal and nothing under way.
LEMMA RestartBooks ==
    ASSUME Inv, Books, Restart
    PROVE  Books'
<1>1. /\ balance' = [h \in Holder |-> Replayed(h)] /\ journal' = journal
      /\ task' = [t \in Thread |-> NoTask]
      /\ overwritten' = [h \in Holder |-> 0] /\ doubled' = [h \in Holder |-> 0]
  BY DEF Restart, tables
<1>2. \A a : Replayed(a)' = Replayed(a)
  BY <1>1, SameJournal
<1>3. \A t \in Thread : task'[t] = NoTask
  BY <1>1
<1>4. NoTask.at = "idle" /\ NoTask.amount \in Int /\ NoTask.base \in Int
  BY DEF NoTask
<1>5. \A h : Replayed(h) \in Int
  BY ReplayedType DEF Inv, Books, Cents
<1>6. Cents'
  BY <1>1, <1>3, <1>4, <1>5 DEF Books, Cents, RowsAreCents, Busy
<1>7. ASSUME NEW h PROVE OnTheWay(h)' = 0
  <2>1. \A t \in Thread : task'[t].at = "idle"
    BY <1>3, <1>4
  <2>2. SumFunction([t \in Thread |-> Unwritten(task'[t], h)]) = 0
    BY <2>1, NothingOnTheWay
  <2> QED
    BY <2>2 DEF OnTheWay, Unwritten
<1> QED
  BY <1>1, <1>2, <1>5, <1>6, <1>7 DEF Books, MemoryIsJournal

LEMMA InitBooks == Init => Books
<1> SUFFICES ASSUME Init PROVE Books
  OBVIOUS
<1>1. /\ journal = <<>> /\ balance = [h \in Holder |-> 0] /\ task = [t \in Thread |-> NoTask]
      /\ overwritten = [h \in Holder |-> 0] /\ doubled = [h \in Holder |-> 0]
  BY DEF Init
<1>2. DOMAIN journal = {} /\ Len(journal) = 0
  BY <1>1
<1>3. \A a : Replayed(a) = 0
  <2> SUFFICES ASSUME NEW a PROVE Replayed(a) = 0
    OBVIOUS
  <2>1. /\ {n \in DOMAIN journal : journal[n].to = a} = {}
        /\ {n \in DOMAIN journal : journal[n].from = a} = {}
    BY <1>2
  <2>2. Total({}) = 0
    BY SumEmpty DEF Total, SumFunction
  <2> QED
    BY <2>1, <2>2 DEF Replayed, Received, Paid
<1>4. \A t \in Thread : task[t].at = "idle" /\ task[t].amount \in Int /\ task[t].base \in Int
  BY <1>1 DEF NoTask
<1>5. \A h : OnTheWay(h) = 0
  BY <1>4, NothingOnTheWay DEF OnTheWay
<1> QED
  BY <1>1, <1>2, <1>3, <1>4, <1>5 DEF Books, Cents, RowsAreCents, Busy, MemoryIsJournal

LEMMA NextBooks == Inv /\ Holdings /\ Books /\ [Next]_vars => Books'
<1> SUFFICES ASSUME Inv, Holdings, Books, [Next]_vars PROVE Books'
  OBVIOUS
<1>1. ASSUME UNCHANGED <<journal, balance, task, overwritten, doubled>> PROVE Books'
  BY <1>1, StutterBooks
<1>2. CASE \E t \in Clerk, a \in Account, amount \in Amount : StartDeposit(t, a, amount)
  BY <1>2, StartDepositBooks
<1>3. CASE \E t \in Clerk : NumberDeposit(t)
  BY <1>3, NumberDepositBooks
<1>4. CASE \E t \in Thread : LookForDuplicate(t)
  BY <1>4, LookForDuplicateBooks
<1>5. CASE \E t \in Thread : ReadBalance(t)
  BY <1>5, ReadBalanceBooks
<1>6. CASE \E t \in Thread : StoreBalance(t)
  BY <1>6, StoreBalanceBooks
<1>7. CASE \E t \in Thread : AppendJournal(t)
  BY <1>7, AppendJournalBooks
<1>8. CASE \E buyer, seller \in Account, price \in Price, qty \in Quantity :
              Trade(buyer, seller, price, qty)
  BY <1>8, TradeBooks
<1>9. ASSUME NEW kind, NEW terms, StartJob(kind, terms) PROVE Books'
  BY <1>1, <1>9 DEF StartJob, tables, deposits
<1>10. CASE PayHolder
  BY <1>10, PayHolderBooks
<1>11. CASE SplitHolder
  BY <1>1, <1>11 DEF SplitHolder, deposits
<1>12. CASE EndJob
  BY <1>1, <1>12 DEF EndJob, tables, memory, deposits
<1>13. CASE Restart
  BY <1>13, RestartBooks
<1>14. CASE UNCHANGED vars
  BY <1>1, <1>14 DEF vars, tables, memory, deposits
<1> QED
  BY <1>2, <1>3, <1>4, <1>5, <1>6, <1>7, <1>8, <1>9, <1>10, <1>11, <1>12, <1>13, <1>14 DEF Next

LEMMA AlwaysBooks == Spec => []Books
BY AlwaysInv, AlwaysHoldings, InitBooks, NextBooks, PTL DEF Spec

\* Every balance in memory, that of the money from outside included, is what a restart would
\* make of the journal, but for the legs of postings under way, for what postings overwrote
\* of each other between reading and storing it, and for rows refused because two deposits
\* took one number (Ledger.post, Ledger._apply, Ledger.replay).
THEOREM LedgerIsItsJournal == Spec => []MemoryIsJournal
<1>1. Books => MemoryIsJournal
  BY DEF Books
<1> QED
  BY <1>1, AlwaysBooks, PTL

-----------------------------------------------------------------------------
(* A dividend, holder by holder. *)

ToPay(a) == \E k \in 1 .. Len(job.todo) : job.todo[k] = a
Paying(a) == Busy(Admin) /\ task[Admin].account = a
PaidOnce(a) ==
    IF Due(a) > 0 THEN \E n \in 1 .. Len(journal) :
                          DividendRows(a) = {n} /\ journal[n].amount = Due(a)
    ELSE DividendRows(a) = {}

\* A holder's dividend is still to come, or on its way through the ledger, or booked once.
Progress(a) ==
    /\ ToPay(a) => ~Paying(a) /\ DividendTo(a) \notin applied /\ DividendRows(a) = {}
    /\ Paying(a) =>
          /\ Due(a) > 0 /\ task[Admin].amount = Due(a) /\ DividendRows(a) = {}
          /\ task[Admin].at \in {"post"} \cup Applying => DividendTo(a) \notin applied
          /\ ~Written(DividendTo(a))
    /\ ~ToPay(a) /\ ~Paying(a) => PaidOnce(a)

\* Dividends applied since the process started have numbers up to the counter, provided
\* none was booked before; the administrator's posting has the counter's number.
DividendsAreNumbered ==
    /\ corp_seq \in Nat /\ boot \in 0 .. Len(journal)
    /\ \A n \in 1 .. Len(journal) :
          journal[n].txn.kind = "div" => journal[n].txn.account = journal[n].to
    /\ task[Admin].at \in Posting =>
          job.kind = "dividend" /\ task[Admin].txn = DividendTo(task[Admin].account)
    /\ PaidBefore \/ \A x \in applied : x.kind = "div" => x.seq \in Nat /\ x.seq <= corp_seq
    /\ job.kind = "dividend" =>
          /\ job.since <= Len(journal) /\ job.terms[1] > 0
          /\ \A j, k \in 1 .. Len(job.todo) : job.todo[j] = job.todo[k] => j = k

Watched == ~PaidBefore /\ job.kind = "dividend" /\ job.quiet
HoldersAreServed == Watched => \A a \in Account : Progress(a)

Dividends == DividendsAreNumbered /\ HoldersAreServed

\* What the journal says of a holder's dividend, when no row or a row of something else is added.
LEMMA SameRows ==
    ASSUME Inv, DividendsAreNumbered, NEW row, row.txn.kind # "div",
           journal' = journal \/ journal' = Append(journal, row),
           UNCHANGED boot
    PROVE  /\ Len(journal) \in Nat /\ Len(journal') \in Nat /\ Len(journal) <= Len(journal')
           /\ \A n \in 1 .. Len(journal) : journal'[n] = journal[n]
           /\ \A n \in 1 .. Len(journal') :
                 journal'[n].txn.kind = "div" => n \in 1 .. Len(journal)
           /\ PaidBefore' <=> PaidBefore
           /\ \A x : x.kind = "div" => (Written(x)' <=> Written(x))
           /\ \A a : job'.since = job.since /\ job.since \in Nat
                        => DividendRows(a)' = DividendRows(a)
<1>1. PICK S : journal \in Seq(S)
  BY DEF Inv, Shapes
<1>2. Len(journal) \in Nat /\ DOMAIN journal = 1 .. Len(journal)
  BY <1>1
<1>3. CASE journal' = journal
  BY <1>2, <1>3 DEF PaidBefore, Written, DividendRows
<1>4. CASE journal' = Append(journal, row)
  <2>1. /\ Len(journal') = Len(journal) + 1 /\ DOMAIN journal' = 1 .. Len(journal) + 1
        /\ \A n \in 1 .. Len(journal) : journal'[n] = journal[n]
        /\ journal'[Len(journal) + 1] = row
    <3>1. /\ Len(journal') = Len(journal) + 1
          /\ \A n \in 1 .. Len(journal) : journal'[n] = journal[n]
          /\ journal'[Len(journal) + 1] = row
      BY <1>4, JournalStep DEF Inv
    <3>2. PICK S2 : journal' \in Seq(S2)
      BY <1>4, JournalStep DEF Inv
    <3> QED
      BY <3>1, <3>2
  <2>2. ASSUME NEW n \in 1 .. Len(journal'), journal'[n].txn.kind = "div"
        PROVE  n \in 1 .. Len(journal)
    BY <1>2, <2>1, <2>2
  <2>3. PaidBefore' <=> PaidBefore
    <3>1. \A n \in 1 .. boot : n \in 1 .. Len(journal)
      BY <1>2 DEF DividendsAreNumbered
    <3> QED
      BY <2>1, <3>1 DEF PaidBefore
  <2>4. ASSUME NEW x, x.kind = "div" PROVE Written(x)' <=> Written(x)
    BY <1>2, <2>1, <2>2, <2>4 DEF Written
  <2>5. ASSUME NEW a, job'.since = job.since, job.since \in Nat
        PROVE  DividendRows(a)' = DividendRows(a)
    <3>1. \A n \in job.since + 1 .. Len(journal) : n \in 1 .. Len(journal)
      BY <1>2, <2>5
    <3>2. \A n \in job.since + 1 .. Len(journal) + 1 :
             n \in job.since + 1 .. Len(journal) \/ n = Len(journal) + 1
      BY <1>2, <2>5
    <3>3. \A n \in job.since + 1 .. Len(journal) : n \in job.since + 1 .. Len(journal) + 1
      BY <1>2, <2>5
    <3> QED
      BY <2>1, <2>5, <3>1, <3>2, <3>3 DEF DividendRows
  <2> QED
    BY <1>2, <2>1, <2>2, <2>3, <2>4, <2>5
<1> QED
  BY <1>3, <1>4

\* A step of somebody else leaves a dividend where it is.
LEMMA ProgressStays ==
    ASSUME NEW a, Progress(a), Due(a)' = Due(a), DividendTo(a)' = DividendTo(a),
           ToPay(a)' <=> ToPay(a), Paying(a)' <=> Paying(a),
           Paying(a) => task'[Admin] = task[Admin],
           DividendTo(a) \in applied' => DividendTo(a) \in applied,
           Written(DividendTo(a))' => Written(DividendTo(a)),
           DividendRows(a)' = DividendRows(a),
           Len(journal) \in Nat /\ Len(journal') \in Nat /\ Len(journal) <= Len(journal'),
           \A n \in 1 .. Len(journal) : journal'[n] = journal[n]
    PROVE  Progress(a)'
<1>1. DividendTo(a)' \in applied' => DividendTo(a) \in applied
  OBVIOUS
<1>2. PaidOnce(a) => PaidOnce(a)'
  <2>1. \A n \in 1 .. Len(journal) : n \in 1 .. Len(journal')
    OBVIOUS
  <2> QED
    BY <2>1 DEF PaidOnce
<1> QED
  BY <1>1, <1>2 DEF Progress

\* The steps of others add no dividend to the ledger.
LEMMA NumbersStay ==
    ASSUME Inv, DividendsAreNumbered, NEW row, row.txn.kind # "div",
           journal' = journal \/ journal' = Append(journal, row),
           UNCHANGED <<boot, corp_seq>>, task'[Admin] = task[Admin],
           job'.kind = job.kind, job'.terms = job.terms, job'.since = job.since,
           job'.todo = job.todo, job.since \in Nat,
           \A x \in applied' : x \in applied \/ x.kind # "div"
    PROVE  DividendsAreNumbered'
<1>1. /\ Len(journal) \in Nat /\ Len(journal') \in Nat /\ Len(journal) <= Len(journal')
      /\ \A n \in 1 .. Len(journal) : journal'[n] = journal[n]
      /\ \A n \in 1 .. Len(journal') :
            journal'[n].txn.kind = "div" => n \in 1 .. Len(journal)
      /\ PaidBefore' <=> PaidBefore
  BY SameRows
<1>2. corp_seq' \in Nat /\ boot' \in 0 .. Len(journal')
  BY <1>1 DEF DividendsAreNumbered
<1>3. \A n \in 1 .. Len(journal') :
         journal'[n].txn.kind = "div" => journal'[n].txn.account = journal'[n].to
  BY <1>1 DEF DividendsAreNumbered
<1>4. task'[Admin].at \in Posting =>
         job'.kind = "dividend" /\ task'[Admin].txn = DividendTo(task[Admin].account)
  BY DEF DividendsAreNumbered
<1>5. PaidBefore' \/ \A x \in applied' : x.kind = "div" => x.seq \in Nat /\ x.seq <= corp_seq'
  BY <1>1 DEF DividendsAreNumbered
<1>6. job'.kind = "dividend" =>
         /\ job'.since <= Len(journal') /\ job'.terms[1] > 0
         /\ \A j, k \in 1 .. Len(job'.todo) : job'.todo[j] = job'.todo[k] => j = k
  BY <1>1 DEF DividendsAreNumbered
<1>7. task'[Admin].txn = DividendTo(task[Admin].account) => DividendTo(task[Admin].account)' = task'[Admin].txn
  BY DEF DividendTo
<1> QED
  BY <1>2, <1>3, <1>4, <1>5, <1>6, <1>7 DEF DividendsAreNumbered

LEMMA OthersKeepDividends ==
    ASSUME Inv, Holdings, Dividends, NEW row, row.txn.kind # "div",
           journal' = journal \/ journal' = Append(journal, row),
           UNCHANGED <<boot, corp_seq, position, job>>, task'[Admin] = task[Admin],
           \A x \in applied' : x \in applied \/ x.kind # "div"
    PROVE  Dividends'
<1>1. job.since \in Nat
  BY DEF Holdings, Job
<1>2. DividendsAreNumbered'
  BY <1>1, NumbersStay DEF Dividends
<1>3. /\ Len(journal) \in Nat /\ Len(journal') \in Nat /\ Len(journal) <= Len(journal')
      /\ \A n \in 1 .. Len(journal) : journal'[n] = journal[n]
      /\ PaidBefore' <=> PaidBefore
      /\ \A x : x.kind = "div" => (Written(x)' <=> Written(x))
      /\ \A a : DividendRows(a)' = DividendRows(a)
  BY <1>1, SameRows DEF Dividends
<1>4. ASSUME Watched', NEW a \in Account PROVE Progress(a)'
  <2>1. Progress(a)
    BY <1>3, <1>4 DEF Watched, Dividends, HoldersAreServed
  <2>2. Due(a)' = Due(a) /\ DividendTo(a)' = DividendTo(a) /\ DividendTo(a).kind = "div"
    BY DEF Due, DividendTo, Txn
  <2>3. (ToPay(a)' <=> ToPay(a)) /\ (Paying(a)' <=> Paying(a))
    BY DEF ToPay, Paying, Busy
  <2>4. PICK x : x = DividendTo(a)
    OBVIOUS
  <2>5. Written(DividendTo(a))' <=> Written(x)'
    BY <2>2, <2>4 DEF Written
  <2>6. Written(DividendTo(a))' => Written(DividendTo(a))
    BY <1>3, <2>2, <2>4, <2>5
  <2>7. DividendTo(a) \in applied' => DividendTo(a) \in applied
    BY <2>2
  <2> QED
    BY <1>3, <2>1, <2>2, <2>3, <2>6, <2>7, ProgressStays
<1> QED
  BY <1>2, <1>4 DEF Dividends, HoldersAreServed

LEMMA ClerksKeepDividends ==
    ASSUME Inv, Holdings, Dividends, NEW t \in Clerk,
           \/ \E a \in Account, amount \in Amount : StartDeposit(t, a, amount)
           \/ NumberDeposit(t) \/ LookForDuplicate(t) \/ ReadBalance(t) \/ StoreBalance(t)
           \/ AppendJournal(t)
    PROVE  Dividends'
<1> DEFINE row == Row(task[t].txn, Nobody, task[t].account, task[t].amount)
           none == Row(NoTxn, Nobody, Nobody, 0)
<1>1. PICK r : task' = [task EXCEPT ![t] = r]
  BY DEF StartDeposit, NumberDeposit, LookForDuplicate, ReadBalance, StoreBalance,
         AppendJournal
<1>2. t \in Thread /\ Admin \in Thread /\ t # Admin
  BY AccountsAssumption DEF Thread
<1>3. task'[Admin] = task[Admin]
  BY <1>1, <1>2, TaskStep DEF Inv
<1>4. UNCHANGED <<boot, corp_seq, position, job>>
  BY DEF StartDeposit, NumberDeposit, LookForDuplicate, ReadBalance, StoreBalance,
         AppendJournal, memory
<1>5. none.txn.kind # "div"
  BY DEF Row, NoTxn
<1>6. task[t].at \in Posting => task[t].txn.kind = "fund"
  BY DEF Inv, TasksAreInOrder
<1>7. CASE \/ \E a \in Account, amount \in Amount : StartDeposit(t, a, amount)
           \/ NumberDeposit(t) \/ LookForDuplicate(t) \/ ReadBalance(t)
  <2>1. UNCHANGED <<journal, applied>>
    BY <1>7 DEF StartDeposit, NumberDeposit, LookForDuplicate, ReadBalance, tables, memory
  <2> HIDE DEF none
  <2> QED
    BY <1>3, <1>4, <1>5, <2>1, OthersKeepDividends
<1>8. CASE StoreBalance(t)
  <2>1. /\ journal' = journal /\ applied' \subseteq applied \cup {task[t].txn}
        /\ task[t].txn.kind = "fund"
    BY <1>6, <1>8 DEF StoreBalance, tables, Posting
  <2> HIDE DEF none
  <2> QED
    BY <1>3, <1>4, <1>5, <2>1, OthersKeepDividends
<1>9. CASE AppendJournal(t)
  <2>1. /\ journal' = journal \/ journal' = Append(journal, row)
        /\ applied' = applied /\ row.txn.kind # "div"
    BY <1>6, <1>9 DEF AppendJournal, memory, Posting, Row
  <2> HIDE DEF row
  <2> QED
    BY <1>3, <1>4, <2>1, OthersKeepDividends
<1> QED
  BY <1>7, <1>8, <1>9

LEMMA TradeKeepsDividends ==
    ASSUME Inv, Holdings, Dividends, NEW buyer, NEW seller, NEW price, NEW qty,
           Trade(buyer, seller, price, qty)
    PROVE  Dividends'
<1> DEFINE value == notional_cents(price, qty, 1)
           txn == Txn("trade", Nobody,
                      1 + Quantify(DOMAIN journal, LAMBDA n : journal[n].txn.kind = "trade"))
           row == Row(txn, buyer, seller, value)
<1>1. journal' = Append(journal, row) /\ applied' = applied \cup {txn}
  BY DEF Trade
<1>8. txn.kind = "trade" /\ row.txn.kind = "trade"
  BY DEF Row, Txn
<1> HIDE DEF txn, row
<1>2. UNCHANGED <<boot, corp_seq, task>> /\ job' = [job EXCEPT !.quiet = (job.kind = "none")]
  BY DEF Trade
<1>3. /\ job'.kind = job.kind /\ job'.terms = job.terms /\ job'.since = job.since
      /\ job'.todo = job.todo /\ job.since \in Nat
      /\ job.kind = "dividend" => ~job'.quiet
  BY <1>2 DEF Holdings, Job
<1>4. DividendsAreNumbered'
  BY <1>1, <1>2, <1>3, <1>8, NumbersStay DEF Dividends
<1>5. ~Watched'
  BY <1>3 DEF Watched
<1> QED
  BY <1>4, <1>5 DEF Dividends, HoldersAreServed

\* Admin's posting goes through the ledger.
LEMMA LookForDividend ==
    ASSUME Inv, Holdings, Dividends, LookForDuplicate(Admin)
    PROVE  Dividends'
<1> DEFINE a == task[Admin].account
           r == IF Swallowed(task[Admin].txn) THEN NoTask
                ELSE Stage(Admin, "read_out", task[Admin].txn, 0)
           none == Row(NoTxn, Nobody, Nobody, 0)
<1>1. /\ task[Admin].at = "post" /\ task' = [task EXCEPT ![Admin] = r]
      /\ UNCHANGED <<journal, applied, boot, corp_seq, position, job>>
  BY DEF LookForDuplicate, tables, memory
<1>2. task'[Admin] = r
  BY <1>1, TaskStep DEF Inv, Thread
<1>3. task[Admin].txn = DividendTo(a) /\ job.kind = "dividend"
  BY <1>1 DEF Dividends, DividendsAreNumbered, Posting
<1>4. r.at \in Posting => r.account = a /\ r.txn = DividendTo(a)
  BY <1>3 DEF NoTask, Stage, Posting
<1>5. /\ Len(journal) \in Nat
      /\ PaidBefore' <=> PaidBefore
      /\ \A x : Written(x)' <=> Written(x)
      /\ \A b : DividendRows(b)' = DividendRows(b)
  <2>1. Len(journal) \in Nat
    BY DEF Inv, Shapes
  <2> QED
    BY <1>1, <2>1 DEF PaidBefore, Written, DividendRows
<1>6. DividendsAreNumbered'
  <2>1. task'[Admin].at \in Posting => task'[Admin].txn = DividendTo(task'[Admin].account)
    BY <1>2, <1>4
  <2> HIDE DEF r, a
  <2> QED
    BY <1>1, <1>3, <1>5, <2>1 DEF Dividends, DividendsAreNumbered, DividendTo
<1>7. ASSUME Watched', NEW b \in Account PROVE Progress(b)'
  <2>1. Progress(b) /\ (b = a => Progress(a))
    BY <1>1, <1>5, <1>7 DEF Watched, Dividends, HoldersAreServed
  <2>2. /\ Due(b)' = Due(b) /\ DividendTo(b)' = DividendTo(b) /\ (ToPay(b)' <=> ToPay(b))
        /\ (PaidOnce(b)' <=> PaidOnce(b))
    BY <1>1, <1>5 DEF Due, DividendTo, ToPay, PaidOnce
  <2>3. CASE b = a
    <3>1. Paying(a) /\ ~Swallowed(task[Admin].txn)
      BY <1>1, <1>3, <2>1, <2>3 DEF Progress, Paying, Busy, Swallowed
    <3>2. r.at = "read_out" /\ r.account = a /\ r.amount = task[Admin].amount
      BY <3>1 DEF Stage
    <3>3. Paying(b)'
      BY <1>2, <2>3, <3>2 DEF Paying, Busy
    <3>4. task'[Admin].amount = task[Admin].amount
      BY <1>2, <3>2
    <3> HIDE DEF r
    <3> QED
      BY <1>1, <1>5, <2>1, <2>2, <2>3, <3>1, <3>3, <3>4 DEF Progress, Applying
  <2>4. CASE b # a
    <3>1. ~Paying(b) /\ ~Paying(b)'
      BY <1>2, <1>4, <2>4 DEF Paying, Busy, NoTask, Posting, Stage
    <3> QED
      BY <1>1, <1>5, <2>1, <2>2, <3>1 DEF Progress
  <2> QED
    BY <2>3, <2>4
<1> QED
  BY <1>6, <1>7 DEF Dividends, HoldersAreServed

\* Between looking for a duplicate and storing the second leg, a dividend stays where it is.
LEMMA MovesKeepDividends ==
    ASSUME Inv, Holdings, Dividends, NEW r, task' = [task EXCEPT ![Admin] = r],
           UNCHANGED <<journal, applied, boot, corp_seq, position, job>>,
           task[Admin].at \in Applying, r.at \in Applying,
           r.account = task[Admin].account, r.txn = task[Admin].txn,
           r.amount = task[Admin].amount
    PROVE  Dividends'
<1>1. task'[Admin] = r
  BY TaskStep DEF Inv, Thread
<1>2. \A at \in Applying : at # "idle" /\ at \in Posting
  BY DEF Applying, Posting
<1>3. /\ Len(journal) \in Nat
      /\ PaidBefore' <=> PaidBefore
      /\ \A x : Written(x)' <=> Written(x)
      /\ \A b : DividendRows(b)' = DividendRows(b)
  <2>1. Len(journal) \in Nat
    BY DEF Inv, Shapes
  <2> QED
    BY <2>1 DEF PaidBefore, Written, DividendRows
<1>4. DividendsAreNumbered'
  BY <1>1, <1>2, <1>3 DEF Dividends, DividendsAreNumbered, DividendTo
<1>5. ASSUME Watched', NEW b \in Account PROVE Progress(b)'
  <2>1. Progress(b)
    BY <1>3, <1>5 DEF Watched, Dividends, HoldersAreServed
  <2>2. /\ Due(b)' = Due(b) /\ DividendTo(b)' = DividendTo(b) /\ (ToPay(b)' <=> ToPay(b))
        /\ (PaidOnce(b)' <=> PaidOnce(b))
    BY <1>3 DEF Due, DividendTo, ToPay, PaidOnce
  <2>3. Paying(b)' <=> Paying(b)
    BY <1>1, <1>2 DEF Paying, Busy
  <2> QED
    BY <1>1, <1>3, <2>1, <2>2, <2>3 DEF Progress
<1> QED
  BY <1>4, <1>5 DEF Dividends, HoldersAreServed

LEMMA ApplyDividend ==
    ASSUME Inv, Holdings, Dividends, StoreBalance(Admin), ~PayingOut(Admin)
    PROVE  Dividends'
<1> DEFINE a == task[Admin].account
           r == Stage(Admin, "write", task[Admin].txn, 0)
<1>1. /\ task[Admin].at \in Applying /\ task[Admin].at # "idle" /\ task' = [task EXCEPT ![Admin] = r]
      /\ UNCHANGED <<journal, boot, corp_seq, position, job>>
      /\ applied' = applied \cup {task[Admin].txn}
  BY DEF StoreBalance, tables, PayingOut, Applying
<1>2. task'[Admin] = r /\ r.at = "write" /\ r.account = a /\ r.txn = task[Admin].txn
      /\ r.amount = task[Admin].amount
  BY <1>1, TaskStep DEF Inv, Thread, Stage
<1>3. task[Admin].txn = DividendTo(a) /\ job.kind = "dividend"
  BY <1>1 DEF Dividends, DividendsAreNumbered, Posting, Applying
<1>4. /\ Len(journal) \in Nat
      /\ PaidBefore' <=> PaidBefore
      /\ \A x : Written(x)' <=> Written(x)
      /\ \A b : DividendRows(b)' = DividendRows(b)
  <2>1. Len(journal) \in Nat
    BY DEF Inv, Shapes
  <2> QED
    BY <1>1, <2>1 DEF PaidBefore, Written, DividendRows
<1> HIDE DEF r, a
<1>5. DividendsAreNumbered'
  <2>1. DividendTo(a).seq = corp_seq /\ corp_seq \in Nat
    BY DEF DividendTo, Txn, Dividends, DividendsAreNumbered
  <2>2. PaidBefore' \/ \A x \in applied' : x.kind = "div" => x.seq \in Nat /\ x.seq <= corp_seq
    BY <1>1, <1>3, <1>4, <2>1 DEF Dividends, DividendsAreNumbered
  <2> QED
    BY <1>1, <1>2, <1>3, <1>4, <2>2 DEF Dividends, DividendsAreNumbered, DividendTo
<1>6. ASSUME Watched', NEW b \in Account PROVE Progress(b)'
  <2>1. Progress(b)
    BY <1>1, <1>4, <1>6 DEF Watched, Dividends, HoldersAreServed
  <2>2. /\ Due(b)' = Due(b) /\ DividendTo(b)' = DividendTo(b) /\ (ToPay(b)' <=> ToPay(b))
        /\ (PaidOnce(b)' <=> PaidOnce(b))
    BY <1>1, <1>4 DEF Due, DividendTo, ToPay, PaidOnce
  <2>3. Paying(b)' <=> b = a
    BY <1>2 DEF Paying, Busy
  <2>4. Paying(b) <=> b = a
    BY <1>1 DEF Paying, Busy, a
  <2>5. CASE b = a
    BY <1>1, <1>2, <1>4, <2>1, <2>2, <2>3, <2>4, <2>5 DEF Progress, Applying
  <2>6. CASE b # a
    <3>1. DividendTo(b) # DividendTo(a)
      BY <2>6 DEF DividendTo, Txn
    <3>2. DividendTo(b) \in applied' => DividendTo(b) \in applied
      BY <1>1, <1>3, <3>1
    <3> QED
      BY <1>4, <2>1, <2>2, <2>3, <2>4, <2>6, <3>2 DEF Progress, Applying
  <2> QED
    BY <2>5, <2>6
<1> QED
  BY <1>5, <1>6 DEF Dividends, HoldersAreServed

LEMMA ReadForDividend ==
    ASSUME Inv, Holdings, Dividends, ReadBalance(Admin)
    PROVE  Dividends'
<1> DEFINE r == Stage(Admin, IF PayingOut(Admin) THEN "store_out" ELSE "store_in",
                      task[Admin].txn, balance[Leg(Admin)])
<1>1. /\ task[Admin].at \in {"read_out", "read_in"} /\ task' = [task EXCEPT ![Admin] = r]
      /\ UNCHANGED <<journal, applied, boot, corp_seq, position, job>>
  BY DEF ReadBalance, tables, memory
<1>2. /\ r.at \in {"store_out", "store_in"} /\ r.account = task[Admin].account
      /\ r.txn = task[Admin].txn /\ r.amount = task[Admin].amount
  BY DEF Stage
<1> HIDE DEF r
<1> QED
  BY <1>1, <1>2, MovesKeepDividends DEF Applying

LEMMA StoreForDividend ==
    ASSUME Inv, Holdings, Dividends, StoreBalance(Admin)
    PROVE  Dividends'
<1>1. CASE PayingOut(Admin)
  <2> DEFINE r == Stage(Admin, "read_in", task[Admin].txn, 0)
  <2>1. /\ task[Admin].at \in Applying /\ task' = [task EXCEPT ![Admin] = r]
        /\ UNCHANGED <<journal, applied, boot, corp_seq, position, job>>
    BY <1>1 DEF StoreBalance, tables, Applying
  <2>2. /\ r.at \in Applying /\ r.account = task[Admin].account
        /\ r.txn = task[Admin].txn /\ r.amount = task[Admin].amount
    BY DEF Stage, Applying
  <2> HIDE DEF r
  <2> QED
    BY <2>1, <2>2, MovesKeepDividends
<1>2. CASE ~PayingOut(Admin)
  BY <1>2, ApplyDividend
<1> QED
  BY <1>1, <1>2

LEMMA WriteDividend ==
    ASSUME Inv, Holdings, Books, Dividends, AppendJournal(Admin)
    PROVE  Dividends'
<1> DEFINE a == task[Admin].account
           m == task[Admin].amount
           row == Row(task[Admin].txn, Nobody, a, m)
           y == Len(journal) + 1
<1>1. /\ task[Admin].at = "write" /\ task' = [task EXCEPT ![Admin] = NoTask]
      /\ UNCHANGED <<applied, boot, corp_seq, position, job>>
      /\ journal' = IF Written(task[Admin].txn) THEN journal ELSE Append(journal, row)
  BY DEF AppendJournal, memory
<1>2. task'[Admin] = NoTask /\ NoTask.at = "idle" /\ ~ Busy(Admin)'
  BY <1>1, TaskStep DEF Inv, Thread, NoTask, Busy
<1>3. task[Admin].txn = DividendTo(a) /\ job.kind = "dividend"
  BY <1>1 DEF Dividends, DividendsAreNumbered, Posting
<1>4. row.txn = DividendTo(a) /\ row.to = a /\ row.amount = m
      /\ DividendTo(a).kind = "div" /\ DividendTo(a).account = a
  BY <1>3 DEF Row, DividendTo, Txn
<1>5. Len(journal) \in Nat /\ DOMAIN journal = 1 .. Len(journal) /\ job.since \in Nat
  BY DEF Inv, Shapes, Holdings, Job
<1>6. /\ boot \in 0 .. Len(journal) /\ job.since <= Len(journal)
  BY <1>3 DEF Dividends, DividendsAreNumbered
<1> HIDE DEF row, m, a
<1>7. CASE Written(task[Admin].txn)
  <2>1. journal' = journal
    BY <1>1, <1>7
  <2>2. /\ PaidBefore' <=> PaidBefore
        /\ \A b : DividendRows(b)' = DividendRows(b)
    BY <1>1, <2>1 DEF PaidBefore, DividendRows
  <2>3. DividendsAreNumbered'
    BY <1>1, <1>2, <2>1, <2>2 DEF Dividends, DividendsAreNumbered, Posting
  <2>4. ~ Watched'
    <3> SUFFICES ASSUME Watched' PROVE FALSE
      OBVIOUS
    <3>1. a \in Account /\ Paying(a)
      BY <1>1 DEF Books, Cents, Busy, Paying, Thread, a
    <3>2. Progress(a)
      BY <1>1, <2>2, <3>1 DEF Watched, Dividends, HoldersAreServed
    <3> QED
      BY <1>3, <1>7, <3>1, <3>2 DEF Progress
  <2> QED
    BY <2>3, <2>4 DEF Dividends, HoldersAreServed
<1>8. CASE ~ Written(task[Admin].txn)
  <2>1. journal' = Append(journal, row)
    BY <1>1, <1>8
  <2>2. /\ Len(journal') = y /\ DOMAIN journal' = 1 .. y
        /\ \A n \in 1 .. Len(journal) : journal'[n] = journal[n]
        /\ journal'[y] = row
    <3>1. /\ Len(journal') = Len(journal) + 1
          /\ \A n \in 1 .. Len(journal) : journal'[n] = journal[n]
          /\ journal'[Len(journal) + 1] = row
      BY <2>1, JournalStep DEF Inv
    <3>2. PICK S2 : journal' \in Seq(S2)
      BY <2>1, JournalStep DEF Inv
    <3> QED
      BY <3>1, <3>2
  <2>3. PaidBefore' <=> PaidBefore
    <3>1. \A n \in 1 .. boot : n \in 1 .. Len(journal)
      BY <1>5, <1>6
    <3> QED
      BY <1>1, <2>2, <3>1 DEF PaidBefore
  <2>4. ASSUME NEW b
        PROVE  DividendRows(b)' = IF b = a THEN DividendRows(b) \cup {y} ELSE DividendRows(b)
    <3>1. \A n \in job.since + 1 .. Len(journal) : n \in 1 .. Len(journal)
      BY <1>5
    <3>2. \A n : n \in job.since + 1 .. y <=> n \in job.since + 1 .. Len(journal) \/ n = y
      BY <1>5, <1>6
    <3>3. DividendRows(b)' = {n \in job.since + 1 .. y :
                                journal'[n].txn.kind = "div" /\ journal'[n].to = b}
      BY <1>1, <2>2 DEF DividendRows
    <3>4. DividendRows(b) = {n \in job.since + 1 .. Len(journal) :
                                journal'[n].txn.kind = "div" /\ journal'[n].to = b}
      BY <2>2, <3>1 DEF DividendRows
    <3> HIDE DEF y
    <3> QED
      BY <1>4, <2>2, <3>2, <3>3, <3>4
  <2>5. ASSUME NEW b, b # a PROVE Written(DividendTo(b))' => Written(DividendTo(b))
    <3>1. DividendTo(b)' = DividendTo(b) /\ DividendTo(b) # DividendTo(a)
      BY <1>1, <2>5 DEF DividendTo, Txn
    <3>2. \A n : n \in 1 .. y => n \in 1 .. Len(journal) \/ n = y
      BY <1>5
    <3> QED
      BY <1>4, <1>5, <2>2, <3>1, <3>2 DEF Written
  <2>6. DividendsAreNumbered'
    <3>1. \A n \in 1 .. Len(journal') :
             journal'[n].txn.kind = "div" => journal'[n].txn.account = journal'[n].to
      <4> SUFFICES ASSUME NEW n \in 1 .. y, journal'[n].txn.kind = "div"
                   PROVE  journal'[n].txn.account = journal'[n].to
        BY <2>2
      <4>1. CASE n = y
        BY <1>4, <2>2, <4>1
      <4>2. CASE n # y
        <5>1. n \in 1 .. Len(journal)
          BY <1>5, <4>2
        <5> QED
          BY <2>2, <5>1 DEF Dividends, DividendsAreNumbered
      <4> QED
        BY <4>1, <4>2
    <3>2. Len(journal') >= Len(journal) /\ Len(journal') \in Nat
      BY <1>5, <2>2
    <3> HIDE DEF y
    <3> QED
      BY <1>1, <1>2, <1>5, <2>3, <3>1, <3>2 DEF Dividends, DividendsAreNumbered, Posting
  <2>7. ASSUME Watched', NEW b \in Account PROVE Progress(b)'
    <3>1. Progress(b)
      BY <1>1, <2>3, <2>7 DEF Watched, Dividends, HoldersAreServed
    <3>2. /\ Due(b)' = Due(b) /\ DividendTo(b)' = DividendTo(b) /\ (ToPay(b)' <=> ToPay(b))
      BY <1>1 DEF Due, DividendTo, ToPay
    <3>3. ~Paying(b)' /\ (Paying(b) <=> b = a)
      BY <1>1, <1>2 DEF Paying, Busy, a
    <3>4. CASE b = a
      <4>1. Due(b) > 0 /\ m = Due(b) /\ DividendRows(b) = {} /\ ~ToPay(b)
        BY <3>1, <3>3, <3>4 DEF Progress, m
      <4>2. DividendRows(b)' = {y}
        BY <2>4, <3>4, <4>1
      <4>3. y \in 1 .. Len(journal') /\ journal'[y].amount = m
        BY <1>4, <1>5, <2>2
      <4> HIDE DEF y
      <4>4. PaidOnce(b)'
        BY <3>2, <4>1, <4>2, <4>3 DEF PaidOnce
      <4> QED
        BY <3>2, <3>3, <4>1, <4>4 DEF Progress
    <3>5. CASE b # a
      <4>1. DividendRows(b)' = DividendRows(b) /\ (Written(DividendTo(b))' => Written(DividendTo(b)))
        BY <2>4, <2>5, <3>5
      <4>2. /\ Len(journal) <= Len(journal') /\ Len(journal') \in Nat
        BY <1>5, <2>2
      <4> HIDE DEF y
      <4>3. DividendTo(b) \in applied' => DividendTo(b) \in applied
        BY <1>1
      <4>4. /\ Paying(b)' <=> Paying(b)
            /\ ~Paying(b)
        BY <3>3, <3>5
      <4> QED
        BY <1>5, <2>2, <3>1, <3>2, <4>1, <4>2, <4>3, <4>4, ProgressStays
    <3> QED
      BY <3>4, <3>5
  <2> QED
    BY <2>6, <2>7 DEF Dividends, HoldersAreServed
<1> QED
  BY <1>7, <1>8

\* A corporate action begins: nobody has been served, and those who hold nothing are owed nothing.
LEMMA StartJobKeepsDividends ==
    ASSUME Inv, Holdings, Dividends, NEW kind \in {"dividend", "split"},
           NEW terms \in Int \X Int, kind = "dividend" => terms[1] > 0, StartJob(kind, terms)
    PROVE  Dividends'
<1>1. /\ job = NoJob /\ corp_seq' = corp_seq + 1
      /\ job' = [kind |-> kind, terms |-> terms, todo |-> SetToSeq(holders), quiet |-> TRUE,
                 since |-> Len(journal)]
      /\ UNCHANGED <<journal, applied, position, task, boot>>
  BY DEF StartJob, tables
<1>2. Len(journal) \in Nat /\ corp_seq \in Nat
  BY DEF Inv, Shapes, Dividends, DividendsAreNumbered
<1>3. task[Admin].at \notin Posting /\ ~Busy(Admin)
  BY <1>1 DEF Dividends, DividendsAreNumbered, NoJob, Inv, TasksAreInOrder, Thread, Busy
<1>4. PaidBefore' <=> PaidBefore
  BY <1>1 DEF PaidBefore
<1>5. IsFiniteSet(holders)
  BY AccountsAssumption, FS_Subset DEF holders
<1>6. /\ \A j, k \in 1 .. Len(job'.todo) : job'.todo[j] = job'.todo[k] => j = k
      /\ \A b \in holders : \E k \in 1 .. Len(job'.todo) : job'.todo[k] = b
  BY <1>1, <1>5, SetIsListed
<1>7. PaidBefore \/ \A x \in applied : x.kind = "div" => x.seq \in Nat /\ x.seq <= corp_seq
  BY DEF Dividends, DividendsAreNumbered
<1>8. DividendsAreNumbered'
  <2>1. PaidBefore' \/ \A x \in applied' : x.kind = "div" => x.seq \in Nat /\ x.seq <= corp_seq'
    BY <1>1, <1>2, <1>4, <1>7
  <2>2. job'.kind = "dividend" => job'.since <= Len(journal') /\ job'.terms[1] > 0
    BY <1>1, <1>2
  <2>3. corp_seq' \in Nat /\ boot' \in 0 .. Len(journal')
    BY <1>1, <1>2 DEF Dividends, DividendsAreNumbered
  <2> QED
    BY <1>1, <1>3, <1>6, <2>1, <2>2, <2>3 DEF Dividends, DividendsAreNumbered
<1>9. ASSUME Watched', NEW b \in Account PROVE Progress(b)'
  <2>1. DividendRows(b)' = {}
    <3>1. \A n \in job'.since + 1 .. Len(journal') : FALSE
      BY <1>1, <1>2
    <3> QED
      BY <3>1 DEF DividendRows
  <2>2. DividendTo(b)' \notin applied'
    <3>1. DividendTo(b)'.kind = "div" /\ DividendTo(b)'.seq = corp_seq + 1
      BY <1>1 DEF DividendTo, Txn
    <3>2. PICK x : x = DividendTo(b)'
      OBVIOUS
    <3>3. x \notin applied
      BY <1>2, <1>4, <1>7, <1>9, <3>1, <3>2 DEF Watched
    <3> QED
      BY <1>1, <3>2, <3>3
  <2>3. ~Paying(b)'
    BY <1>1, <1>3 DEF Paying, Busy
  <2>4. ASSUME ~ToPay(b)' PROVE PaidOnce(b)'
    <3>1. b \notin holders
      BY <1>6, <2>4 DEF ToPay
    <3>2. position'[b].qty = 0
      BY <1>1, <3>1 DEF holders
    <3>3. ~(Due(b)' > 0)
      BY <3>2 DEF Due
    <3> QED
      BY <2>1, <3>3 DEF PaidOnce
  <2> QED
    BY <2>1, <2>2, <2>3, <2>4 DEF Progress
<1> QED
  BY <1>8, <1>9 DEF Dividends, HoldersAreServed

\* The list of holders loses its first.
LEMMA TodoShrinks ==
    ASSUME Holdings, job.todo # <<>>, job'.todo = Tail(job.todo)
    PROVE  /\ Head(job.todo) \in Account
           /\ \A b : ToPay(b)' => ToPay(b)
           /\ \A b : ToPay(b) => ToPay(b)' \/ b = Head(job.todo)
           /\ ToPay(Head(job.todo))
           /\ (\A j, k \in 1 .. Len(job.todo) : job.todo[j] = job.todo[k] => j = k) =>
                 /\ \A j, k \in 1 .. Len(job'.todo) : job'.todo[j] = job'.todo[k] => j = k
                 /\ \A b : b = Head(job.todo) => ~ToPay(b)'
<1>1. job.todo \in Seq(Account)
  BY DEF Holdings, Job
<1>2. /\ Len(job.todo) \in Nat \ {0} /\ Len(job'.todo) = Len(job.todo) - 1
      /\ Head(job.todo) = job.todo[1] /\ Head(job.todo) \in Account
      /\ \A k \in 1 .. Len(job'.todo) : job'.todo[k] = job.todo[k + 1]
  BY <1>1, EmptySeq, HeadTailProperties
<1>3. \A k \in 1 .. Len(job'.todo) : k + 1 \in 1 .. Len(job.todo) /\ k + 1 # 1
  BY <1>2
<1>4. \A k \in 1 .. Len(job.todo) : k = 1 \/ (k - 1 \in 1 .. Len(job'.todo) /\ (k - 1) + 1 = k)
  BY <1>2
<1>5. \A b : ToPay(b)' => ToPay(b)
  BY <1>2, <1>3 DEF ToPay
<1>6. ASSUME NEW b, ToPay(b) PROVE ToPay(b)' \/ b = Head(job.todo)
  <2>1. PICK k \in 1 .. Len(job.todo) : job.todo[k] = b
    BY <1>6 DEF ToPay
  <2>2. CASE k = 1
    BY <1>2, <2>1, <2>2
  <2>3. CASE k # 1
    <3>1. k - 1 \in 1 .. Len(job'.todo) /\ job'.todo[k - 1] = b
      BY <1>2, <1>4, <2>1, <2>3
    <3> QED
      BY <3>1 DEF ToPay
  <2> QED
    BY <2>2, <2>3
<1>7. ToPay(Head(job.todo))
  <2>1. 1 \in 1 .. Len(job.todo)
    BY <1>2
  <2> QED
    BY <1>2, <2>1 DEF ToPay
<1>8. ASSUME \A j, k \in 1 .. Len(job.todo) : job.todo[j] = job.todo[k] => j = k
      PROVE  /\ \A j, k \in 1 .. Len(job'.todo) : job'.todo[j] = job'.todo[k] => j = k
             /\ \A b : b = Head(job.todo) => ~ToPay(b)'
  <2>1. ASSUME NEW j \in 1 .. Len(job'.todo), NEW k \in 1 .. Len(job'.todo),
               job'.todo[j] = job'.todo[k]
        PROVE  j = k
    <3>1. j + 1 = k + 1
      BY <1>2, <1>3, <1>8, <2>1
    <3> QED
      BY <1>2, <3>1
  <2>2. ASSUME NEW b, b = Head(job.todo), ToPay(b)' PROVE FALSE
    <3>1. PICK k \in 1 .. Len(job'.todo) : job'.todo[k] = b
      BY <2>2 DEF ToPay
    <3>2. job.todo[k + 1] = job.todo[1] /\ 1 \in 1 .. Len(job.todo)
      BY <1>2, <2>2, <3>1
    <3>3. k + 1 = 1
      BY <1>3, <1>8, <3>2
    <3> QED
      BY <1>3, <3>3
  <2> QED
    BY <2>1, <2>2
<1> QED
  BY <1>2, <1>5, <1>6, <1>7, <1>8

LEMMA PayHolderKeepsDividends ==
    ASSUME Inv, Holdings, Dividends, PayHolder
    PROVE  Dividends'
<1> DEFINE a == Head(job.todo)
           r == [at |-> "post", account |-> a, amount |-> Due(a), txn |-> DividendTo(a),
                 base |-> 0]
<1>1. /\ job.kind = "dividend" /\ ~Busy(Admin) /\ job.todo # <<>>
      /\ job' = [job EXCEPT !.todo = Tail(@)]
      /\ UNCHANGED <<journal, applied, boot, corp_seq, position>>
      /\ task' = IF Due(a) > 0 THEN [task EXCEPT ![Admin] = r] ELSE task
  BY DEF PayHolder, tables, memory
<1>2. /\ job'.kind = job.kind /\ job'.terms = job.terms /\ job'.since = job.since
      /\ job'.quiet = job.quiet /\ job'.todo = Tail(job.todo)
  BY <1>1 DEF Holdings, Job
<1>3. /\ a \in Account /\ ToPay(a)
      /\ \A j, k \in 1 .. Len(job'.todo) : job'.todo[j] = job'.todo[k] => j = k
      /\ \A b : ToPay(b)' => ToPay(b) /\ b # a
      /\ \A b : ToPay(b) => ToPay(b)' \/ b = a
  BY <1>1, <1>2, TodoShrinks DEF Dividends, DividendsAreNumbered
<1>4. Len(journal) \in Nat /\ DOMAIN journal = 1 .. Len(journal)
  BY DEF Inv, Shapes
<1>5. /\ PaidBefore' <=> PaidBefore
      /\ \A x : Written(x)' <=> Written(x)
      /\ \A b : DividendRows(b)' = DividendRows(b) /\ Due(b)' = Due(b)
                   /\ DividendTo(b)' = DividendTo(b)
  BY <1>1, <1>2 DEF PaidBefore, Written, DividendRows, Due, DividendTo
<1>6. task'[Admin] = IF Due(a) > 0 THEN r ELSE task[Admin]
  BY <1>1, TaskStep DEF Inv, Thread
<1>7. r.at = "post" /\ r.account = a /\ r.amount = Due(a) /\ r.txn = DividendTo(a)
  OBVIOUS
<1> HIDE DEF r, a
<1>8. task[Admin].at = "idle"
  BY <1>1 DEF Busy
<1>9. DividendsAreNumbered'
  <2>1. task'[Admin].at \in Posting => task'[Admin].txn = DividendTo(a) /\ task'[Admin].account = a
    BY <1>6, <1>7, <1>8 DEF Posting
  <2>2. task'[Admin].at \in Posting => task'[Admin].txn = DividendTo(task[Admin].account)'
    BY <1>1, <2>1 DEF DividendTo
  <2> QED
    BY <1>1, <1>2, <1>3, <1>5, <2>1, <2>2 DEF Dividends, DividendsAreNumbered
<1>10. ASSUME Watched', NEW b \in Account PROVE Progress(b)'
  <2>1. Progress(b)
    BY <1>2, <1>5, <1>10 DEF Watched, Dividends, HoldersAreServed
  <2>2. ~Paying(b) /\ (Paying(b)' <=> b = a /\ Due(a) > 0)
    BY <1>6, <1>7, <1>8 DEF Paying, Busy
  <2>3. PaidOnce(b) => PaidOnce(b)'
    BY <1>1, <1>5 DEF PaidOnce
  <2>4. CASE b # a
    BY <1>1, <1>3, <1>5, <2>1, <2>2, <2>3, <2>4 DEF Progress
  <2>5. CASE b = a
    <3>1. DividendTo(a) \notin applied /\ DividendRows(a) = {} /\ ~ToPay(b)'
      BY <1>3, <2>1, <2>5 DEF Progress
    <3>2. ~Written(DividendTo(a))
      BY <1>4, <3>1 DEF Written, Inv, RowsAreApplied, Rows
    <3>3. CASE Due(a) > 0
      BY <1>1, <1>3, <1>5, <1>6, <1>7, <2>2, <2>5, <3>1, <3>2, <3>3 DEF Progress
    <3>4. CASE ~(Due(a) > 0)
      <4>1. PaidOnce(b)'
        BY <1>5, <2>5, <3>1, <3>4 DEF PaidOnce
      <4> QED
        BY <1>3, <2>2, <2>5, <3>4, <4>1 DEF Progress
    <3> QED
      BY <3>3, <3>4
  <2> QED
    BY <2>4, <2>5
<1> QED
  BY <1>9, <1>10 DEF Dividends, HoldersAreServed

LEMMA NoDividendWatched ==
    ASSUME DividendsAreNumbered', job'.kind # "dividend"
    PROVE  Dividends'
BY DEF Dividends, HoldersAreServed, Watched

LEMMA SplitKeepsDividends ==
    ASSUME Inv, Holdings, Dividends, SplitHolder
    PROVE  Dividends'
<1>1. /\ job.kind = "split" /\ job' = [job EXCEPT !.todo = Tail(@)]
      /\ UNCHANGED <<journal, applied, boot, corp_seq, task>>
  BY DEF SplitHolder
<1>2. job'.kind = "split"
  BY <1>1 DEF Holdings, Job
<1>3. PaidBefore' <=> PaidBefore
  BY <1>1 DEF PaidBefore
<1>4. DividendsAreNumbered'
  BY <1>1, <1>2, <1>3 DEF Dividends, DividendsAreNumbered
<1> QED
  BY <1>2, <1>4, NoDividendWatched

LEMMA EndJobKeepsDividends ==
    ASSUME Inv, Dividends, EndJob
    PROVE  Dividends'
<1>1. /\ job' = NoJob /\ NoJob.kind = "none" /\ ~Busy(Admin)
      /\ UNCHANGED <<journal, applied, boot, corp_seq, task>>
  BY DEF EndJob, JobDone, NoJob, tables, memory
<1>2. PaidBefore' <=> PaidBefore
  BY <1>1 DEF PaidBefore
<1>3. task'[Admin].at \notin Posting
  BY <1>1 DEF Busy, Posting
<1>4. DividendsAreNumbered'
  BY <1>1, <1>2, <1>3 DEF Dividends, DividendsAreNumbered
<1> QED
  BY <1>1, <1>4, NoDividendWatched

\* After a restart no dividend is under way, and if none is in the journal none was applied.
LEMMA RestartKeepsDividends ==
    ASSUME Inv, Dividends, Restart
    PROVE  Dividends'
<1>1. /\ journal' = journal /\ applied' = {journal[n].txn : n \in DOMAIN journal}
      /\ corp_seq' = 0 /\ boot' = Len(journal) /\ job' = NoJob /\ NoJob.kind = "none"
      /\ task' = [t \in Thread |-> NoTask] /\ NoTask.at = "idle"
  BY DEF Restart, tables, NoJob, NoTask
<1>2. Len(journal) \in Nat /\ DOMAIN journal = 1 .. Len(journal)
  BY DEF Inv, Shapes
<1>3. task'[Admin].at \notin Posting
  BY <1>1 DEF Thread, Posting
<1>4. PaidBefore' \/ \A x \in applied' : x.kind # "div"
  BY <1>1, <1>2 DEF PaidBefore
<1>5. DividendsAreNumbered'
  BY <1>1, <1>2, <1>3, <1>4 DEF Dividends, DividendsAreNumbered
<1> QED
  BY <1>1, <1>5, NoDividendWatched

LEMMA InitDividends == Init => Dividends
<1> SUFFICES ASSUME Init PROVE Dividends
  OBVIOUS
<1>1. /\ journal = <<>> /\ Len(journal) = 0 /\ applied = {} /\ corp_seq = 0 /\ boot = 0
      /\ job.kind = "none" /\ task[Admin].at = "idle"
  BY DEF Init, NoJob, NoTask, Thread
<1> QED
  BY <1>1 DEF Dividends, DividendsAreNumbered, HoldersAreServed, Watched, Posting

LEMMA NextDividends == Inv /\ Holdings /\ Books /\ Dividends /\ [Next]_vars => Dividends'
<1> SUFFICES ASSUME Inv, Holdings, Books, Dividends, [Next]_vars PROVE Dividends'
  OBVIOUS
<1>1. ASSUME NEW t \in Thread,
             \/ t \in Clerk /\ \E a \in Account, amount \in Amount : StartDeposit(t, a, amount)
             \/ t \in Clerk /\ NumberDeposit(t)
             \/ LookForDuplicate(t) \/ ReadBalance(t) \/ StoreBalance(t) \/ AppendJournal(t)
      PROVE  Dividends'
  <2>1. CASE t \in Clerk
    BY <1>1, <2>1, ClerksKeepDividends
  <2>2. CASE t = Admin /\ t \notin Clerk
    BY <1>1, <2>2, LookForDividend, ReadForDividend, StoreForDividend,
       WriteDividend
  <2> QED
    BY <2>1, <2>2 DEF Thread
<1>2. CASE \E buyer, seller \in Account, price \in Price, qty \in Quantity :
              Trade(buyer, seller, price, qty)
  BY <1>2, TradeKeepsDividends
<1>3. CASE \E cents \in PerShare : StartJob("dividend", <<cents, 1>>)
  BY <1>3, StartJobKeepsDividends, AccountsAssumption
<1>4. CASE \E ratio \in Ratio : StartJob("split", ratio)
  BY <1>4, StartJobKeepsDividends, AccountsAssumption
<1>5. CASE UNCHANGED vars
  <2>1. UNCHANGED <<journal, applied, boot, corp_seq, position, job, task>>
    BY <1>5 DEF vars, tables, memory
  <2>2. Row(NoTxn, Nobody, Nobody, 0).txn.kind # "div"
    BY DEF Row, NoTxn
  <2> QED
    BY <2>1, <2>2, OthersKeepDividends
<1> QED
  BY <1>1, <1>2, <1>3, <1>4, <1>5, PayHolderKeepsDividends, SplitKeepsDividends,
     EndJobKeepsDividends, RestartKeepsDividends DEF Next, Thread

\* When a dividend is through, every long holder has one row of what his shares earn and
\* nobody else has any, however deposits and late postings run between its steps, if nobody
\* traded meanwhile and no dividend was booked before the last restart (CorporateActions.dividend).
THEOREM DividendsArePaidOnce == Spec => []DividendIsPaidOnce
<1>1. Inv /\ Holdings /\ Dividends => DividendIsPaidOnce
  <2> SUFFICES ASSUME Inv, Holdings, Dividends, ~PaidBefore, JobDone, job.kind = "dividend",
                      job.quiet, NEW a \in Account
               PROVE  Total(DividendRows(a)) = Due(a)
    BY DEF DividendIsPaidOnce, EveryHolderPaid
  <2>1. job.todo = <<>> /\ ~Busy(Admin)
    BY DEF JobDone
  <2>2. ~ToPay(a) /\ ~Paying(a)
    BY <2>1 DEF ToPay, Paying
  <2>3. PaidOnce(a)
    BY <2>2 DEF Dividends, HoldersAreServed, Watched, Progress
  <2>4. CASE Due(a) > 0
    <3>1. PICK n \in 1 .. Len(journal) : DividendRows(a) = {n} /\ journal[n].amount = Due(a)
      BY <2>3, <2>4 DEF PaidOnce
    <3> DEFINE f == [k \in {n} |-> journal[k].amount]
    <3>2. Total(DividendRows(a)) = SumFunctionOnSet(f, {n}) /\ f[n] = Due(a)
      BY <3>1 DEF Total, SumFunction
    <3>3. Due(a) \in Int
      BY DueIsCents
    <3> HIDE DEF f
    <3>4. SumFunctionOnSet(f, {n}) = f[n]
      <4>1. IsFiniteSet({n}) /\ {n} \ {n} = {} /\ SumFunctionOnSet(f, {}) = 0
        BY FS_Singleton, SumEmpty
      <4>2. SumFunctionOnSet(f, {n}) = SumFunctionOnSet(f, {n} \ {n}) + f[n]
        BY <3>2, <3>3, <4>1, SumWith
      <4>3. SumFunctionOnSet(f, {n}) = 0 + f[n] /\ f[n] \in Int
        BY <3>2, <3>3, <4>1, <4>2, Zenon
      <4> QED
        BY <4>3
    <3> QED
      BY <3>2, <3>4
  <2>5. CASE ~(Due(a) > 0)
    <3>1. DividendRows(a) = {} /\ Total(DividendRows(a)) = 0
      <4>1. DividendRows(a) = {}
        BY <2>3, <2>5 DEF PaidOnce
      <4> DEFINE f == [k \in {} |-> journal[k].amount]
      <4>2. Total({}) = SumFunctionOnSet(f, {})
        BY DEF Total, SumFunction
      <4> QED
        BY <4>1, <4>2, SumEmpty
    <3>2. Due(a) = 0
      <4>1. CASE position[a].qty <= 0
        BY <4>1 DEF Due
      <4>2. CASE ~(position[a].qty <= 0)
        <5>1. position[a].qty \in Nat \ {0} /\ job.terms[1] \in Nat \ {0}
          BY <4>2 DEF Holdings, Holding, Job, Dividends, DividendsAreNumbered
        <5>2. PICK c \in Nat : c = job.terms[1] * position[a].qty
          BY <5>1
        <5>3. c \div QuantityScale \in Nat
          BY <5>2, QuantityScaleAssumption
        <5>4. RoundHalfEven(c, QuantityScale) \in Nat
          BY <5>3 DEF RoundHalfEven
        <5> QED
          BY <2>5, <4>2, <5>2, <5>4 DEF Due
      <4> QED
        BY <4>1, <4>2
    <3> QED
      BY <3>1, <3>2
  <2> QED
    BY <2>4, <2>5
<1> QED
  BY <1>1, AlwaysInv, AlwaysHoldings, AlwaysBooks, InitDividends, NextDividends, PTL DEF Spec
=============================================================================

