------------------------------ MODULE Accounts ------------------------------
(***************************************************************************)
(* What the application does to accounts outside the order book, for one   *)
(* symbol: deposits (TradingApp.fund), dividends and splits                *)
(* (CorporateActions), the cash ledger and its journal, positions with     *)
(* cost basis (Portfolio), and a restart that rebuilds all of them from    *)
(* the database.  Trades come from the OMS and are one step here.          *)
(*                                                                         *)
(* Every request has a thread of its own and nothing locks the             *)
(* application, so a deposit is cut where the interpreter may switch       *)
(* threads: counter taken, number read, duplicate looked for, each of the  *)
(* two balances read and stored, journal row committed.  Corporate actions *)
(* come one at a time.                                                     *)
(*                                                                         *)
(* A restart may come between any two steps: the server's threads are      *)
(* daemons.                                                                *)
(***************************************************************************)
EXTENDS Money, SequencesExt

CONSTANTS Account,
          Clerk, Admin,    \* the threads that serve deposits, and the administrator's
          Amount,          \* what people ask to deposit, in cents
          Price, Quantity, PerShare,
          Ratio,           \* of splits, as <<numerator, denominator>>
          MaxRequests, MaxRestarts

Nobody == "nobody"    \* the ledger's account for money that comes from outside

ASSUME AccountsAssumption ==
    /\ Admin \notin Clerk /\ Nobody \notin Account
    /\ IsFiniteSet(Account) /\ IsFiniteSet(Clerk)
    /\ Amount \subseteq Int
    /\ Price \subseteq Nat \ {0} /\ Quantity \subseteq Nat \ {0}
    /\ PerShare \subseteq Nat \ {0} /\ Ratio \subseteq (Nat \ {0}) \X (Nat \ {0})

VARIABLES journal, stored,    \* the tables of journal rows and positions
          balance, applied,   \* the ledger's memory
          position,           \* the portfolio's memory
          fund_seq,           \* TradingApp._fund_seq
          corp_seq,           \* CorporateActions._seq
          task,               \* per thread, the posting it is at
          job,                \* the corporate action in progress
          met,                \* history: deposits that were between taking a number and
                              \* reading it together with another one of their account
          overwritten,        \* history: per balance, what was stored between a posting's
                              \* reading it and its storing it
          doubled,            \* history: per balance, what the database refused of those in met
          boot,               \* history: rows of the journal when the process started
          invested,           \* history: value bought less value sold, per account
          odd,                \* history: accounts that sold what they had not, or lost a fraction
          requests, restarts  \* history: deposits, trades and actions so far; restarts

tables == <<journal, stored>>
memory == <<balance, applied, position, fund_seq, corp_seq>>
deposits == <<met, overwritten, doubled>>
holdings == <<invested, odd>>
counters == <<requests, restarts>>
vars == <<tables, memory, task, job, deposits, holdings, boot, counters>>

Thread == Clerk \cup {Admin}
Holder == Account \cup {Nobody}    \* whose balance the ledger keeps
NoTxn == [kind |-> "none", account |-> Nobody, seq |-> 0]
NoTask == [at |-> "idle", account |-> Nobody, amount |-> 0, txn |-> NoTxn, base |-> 0]
NoJob == [kind |-> "none", terms |-> <<0, 1>>, todo |-> <<>>, quiet |-> TRUE,
          since |-> 0]
Flat == [qty |-> 0, cost |-> 0, realized |-> 0]

Init ==
    /\ journal = <<>> /\ stored = [a \in Account |-> Flat]
    /\ balance = [h \in Holder |-> 0] /\ applied = {}
    /\ position = stored
    /\ fund_seq = 0 /\ corp_seq = 0
    /\ task = [t \in Thread |-> NoTask]
    /\ job = NoJob
    /\ met = {} /\ overwritten = [h \in Holder |-> 0] /\ doubled = overwritten
    /\ boot = 0
    /\ invested = [a \in Account |-> 0] /\ odd = {}
    /\ requests = 0 /\ restarts = 0

Busy(t) == task[t].at # "idle"
NewRequest == requests < MaxRequests /\ requests' = requests + 1 /\ UNCHANGED restarts

-----------------------------------------------------------------------------
(* TradingApp.fund and Ledger.post *)

Txn(kind, account, seq) == [kind |-> kind, account |-> account, seq |-> seq]
Stage(t, at, txn, base) ==
    [at |-> at, account |-> task[t].account, amount |-> task[t].amount,
     txn |-> txn, base |-> base]

\* The counter moves before anything is checked.
StartDeposit(t, a, amount) ==
    LET others == {u \in Clerk \ {t} : task[u].at = "number" /\ task[u].account = a}
    IN  /\ NewRequest
        /\ ~Busy(t)
        /\ fund_seq' = fund_seq + 1
        /\ task' = [task EXCEPT ![t] = [at |-> "number", account |-> a, amount |-> amount,
                                        txn |-> NoTxn, base |-> 0]]
        /\ met' = IF others = {} THEN met \ {t} ELSE met \cup others \cup {t}
        /\ UNCHANGED <<tables, balance, applied, position, corp_seq, job, overwritten, doubled,
                       holdings, boot>>

\* The number in the transaction's name is read after other calls; only then can the
\* amount be refused.
NumberDeposit(t) ==
    /\ task[t].at = "number"
    /\ task' = [task EXCEPT ![t] =
                   IF task[t].amount <= 0 THEN NoTask
                   ELSE Stage(t, "post", Txn("fund", task[t].account, fund_seq), 0)]
    /\ UNCHANGED <<tables, memory, job, deposits, holdings, boot, counters>>

NeverSwallowed(txn) == FALSE    \* mutation: post does not look for duplicates
Swallowed(txn) == txn \in applied

\* "Idempotent by txn_id": a transaction seen before changes nothing.
LookForDuplicate(t) ==
    /\ task[t].at = "post"
    /\ task' = [task EXCEPT ![t] =
                   IF Swallowed(task[t].txn) THEN NoTask ELSE Stage(t, "read_out", task[t].txn, 0)]
    /\ UNCHANGED <<tables, memory, job, deposits, holdings, boot, counters>>

\* A posting's legs: what it takes from outside, then what it gives the account.
PayingOut(t) == task[t].at \in {"read_out", "store_out"}
Leg(t) == IF PayingOut(t) THEN Nobody ELSE task[t].account
Change(t) == IF PayingOut(t) THEN -task[t].amount ELSE task[t].amount

ReadBalance(t) ==
    /\ task[t].at \in {"read_out", "read_in"}
    /\ task' = [task EXCEPT ![t] = Stage(t, IF PayingOut(t) THEN "store_out" ELSE "store_in",
                                         task[t].txn, balance[Leg(t)])]
    /\ UNCHANGED <<tables, memory, job, deposits, holdings, boot, counters>>

\* The transaction counts as applied when its second leg is stored.
StoreBalance(t) ==
    /\ task[t].at \in {"store_out", "store_in"}
    /\ balance' = [balance EXCEPT ![Leg(t)] = task[t].base + Change(t)]
    /\ overwritten' = [overwritten EXCEPT ![Leg(t)] = @ + balance[Leg(t)] - task[t].base]
    /\ applied' = IF PayingOut(t) THEN applied ELSE applied \cup {task[t].txn}
    /\ task' = [task EXCEPT ![t] = Stage(t, IF PayingOut(t) THEN "read_in" ELSE "write",
                                         task[t].txn, 0)]
    /\ UNCHANGED <<tables, position, fund_seq, corp_seq, job, met, doubled, holdings, boot,
                   counters>>

Row(txn, from, to, amount) == [txn |-> txn, from |-> from, to |-> to, amount |-> amount]
Written(txn) == \E n \in DOMAIN journal : journal[n].txn = txn

\* txn_id is UNIQUE in the table: a second row of a name is refused by the database.
AppendJournal(t) ==
    /\ task[t].at = "write"
    /\ LET a == task[t].account
           amount == task[t].amount
       IN  IF Written(task[t].txn)
           THEN /\ doubled' = [h \in Holder |->
                       IF t \notin met THEN doubled[h]
                       ELSE doubled[h] + (IF h = Nobody THEN -amount ELSE 0)
                                       + (IF h = a THEN amount ELSE 0)]
                /\ UNCHANGED journal
           ELSE /\ journal' = Append(journal, Row(task[t].txn, Nobody, a, amount))
                /\ UNCHANGED doubled
    /\ task' = [task EXCEPT ![t] = NoTask]
    /\ UNCHANGED <<stored, memory, job, met, overwritten, holdings, boot, counters>>

-----------------------------------------------------------------------------
(* Portfolio.on_fill, with the payment of the trade *)

KeepBasis(p, qty) == 0    \* mutation: a sale leaves the cost basis as it is
BasisOf(p, qty) == (p.cost * qty) \div p.qty

Bought(p, value, qty) ==
    [qty |-> p.qty + qty, cost |-> p.cost + value, realized |-> p.realized]
Sold(p, value, qty) ==
    IF p.qty > 0
    THEN [qty |-> p.qty - qty, cost |-> p.cost - BasisOf(p, qty),
          realized |-> p.realized + value - BasisOf(p, qty)]
    ELSE [p EXCEPT !.qty = @ - qty]

\* A trade the OMS has matched, perhaps of an account with itself: the buyer can pay and
\* the value is at least a cent.
Trade(buyer, seller, price, qty) ==
    LET value == notional_cents(price, qty, 1)
        bought == [position EXCEPT ![buyer] = Bought(@, value, qty)]
        held == [bought EXCEPT ![seller] = Sold(@, value, qty)]
        debited == [balance EXCEPT ![buyer] = @ - value]
        put == [invested EXCEPT ![buyer] = @ + value]
        txn == Txn("trade", Nobody,
                   1 + Quantify(DOMAIN journal, LAMBDA n : journal[n].txn.kind = "trade"))
    IN  /\ NewRequest
        /\ value > 0 /\ balance[buyer] >= value
        /\ journal' = Append(journal, Row(txn, buyer, seller, value))
        /\ applied' = applied \cup {txn}
        /\ balance' = [debited EXCEPT ![seller] = @ + value]
        /\ position' = held /\ stored' = held
        /\ invested' = [put EXCEPT ![seller] = @ - value]
        /\ odd' = IF bought[seller].qty < qty THEN odd \cup {seller} ELSE odd
        /\ job' = [job EXCEPT !.quiet = (job.kind = "none")]
        /\ UNCHANGED <<fund_seq, corp_seq, task, deposits, boot>>

-----------------------------------------------------------------------------
(* CorporateActions *)

holders == {a \in Account : position[a].qty # 0}

StartJob(kind, terms) ==
    /\ NewRequest
    /\ job = NoJob
    /\ corp_seq' = corp_seq + 1
    /\ job' = [kind |-> kind, terms |-> terms, todo |-> SetToSeq(holders),
               quiet |-> TRUE, since |-> Len(journal)]
    /\ UNCHANGED <<tables, balance, applied, position, fund_seq, task, deposits, holdings, boot>>

\* Python's round: halves go to the even neighbour.
RoundHalfEven(n, d) ==
    LET q == n \div d
        r == 2 * (n % d)
    IN  IF r < d \/ (r = d /\ q % 2 = 0) THEN q ELSE q + 1
Due(a) == IF position[a].qty <= 0 THEN 0
          ELSE RoundHalfEven(job.terms[1] * position[a].qty, QuantityScale)

DividendUnnumbered(a) == Txn("div", a, 0)    \* mutation: every dividend has one name
DividendTo(a) == Txn("div", a, corp_seq)

PayHolder ==
    /\ job.kind = "dividend" /\ ~Busy(Admin) /\ job.todo # <<>>
    /\ job' = [job EXCEPT !.todo = Tail(@)]
    /\ LET a == Head(job.todo)
       IN  IF Due(a) > 0
           THEN task' = [task EXCEPT ![Admin] =
                            [at |-> "post", account |-> a, amount |-> Due(a),
                             txn |-> DividendTo(a), base |-> 0]]
           ELSE UNCHANGED task
    /\ UNCHANGED <<tables, memory, deposits, holdings, boot, counters>>

SplitHolder ==
    /\ job.kind = "split" /\ job.todo # <<>>
    /\ LET a == Head(job.todo)
           scaled == position[a].qty * job.terms[1]
           held == [position EXCEPT ![a].qty = scaled \div job.terms[2]]
       IN  /\ position' = held /\ stored' = held
           /\ odd' = IF held[a].qty * job.terms[2] # scaled THEN odd \cup {a} ELSE odd
    /\ job' = [job EXCEPT !.todo = Tail(@)]
    /\ UNCHANGED <<journal, balance, applied, fund_seq, corp_seq, task, deposits, invested,
                   boot, counters>>

JobDone == job # NoJob /\ job.todo = <<>> /\ ~Busy(Admin)

EndJob ==
    /\ JobDone
    /\ job' = NoJob
    /\ UNCHANGED <<tables, memory, task, deposits, holdings, boot, counters>>

-----------------------------------------------------------------------------
(* The process ends, at any point, and a new one reads the tables. *)

Total(rows) == SumFunction([n \in rows |-> journal[n].amount])
Received(h) == Total({n \in DOMAIN journal : journal[n].to = h})
Paid(h) == Total({n \in DOMAIN journal : journal[n].from = h})
Replayed(h) == Received(h) - Paid(h)

FromZero == 0    \* mutation: the counter is not seeded
FirstFundSeq == Len(journal)

Restart ==
    /\ restarts < MaxRestarts /\ restarts' = restarts + 1
    /\ balance' = [h \in Holder |-> Replayed(h)]
    /\ applied' = {journal[n].txn : n \in DOMAIN journal}
    /\ position' = stored
    /\ fund_seq' = FirstFundSeq /\ corp_seq' = 0
    /\ task' = [t \in Thread |-> NoTask]
    /\ job' = NoJob
    /\ met' = {} /\ overwritten' = [h \in Holder |-> 0] /\ doubled' = [h \in Holder |-> 0]
    /\ boot' = Len(journal)
    /\ UNCHANGED <<tables, holdings, requests>>

Next ==
    \/ \E t \in Clerk, a \in Account, amount \in Amount : StartDeposit(t, a, amount)
    \/ \E t \in Clerk : NumberDeposit(t)
    \/ \E t \in Thread : LookForDuplicate(t)
    \/ \E t \in Thread : ReadBalance(t)
    \/ \E t \in Thread : StoreBalance(t)
    \/ \E t \in Thread : AppendJournal(t)
    \/ \E buyer, seller \in Account, price \in Price, qty \in Quantity :
          Trade(buyer, seller, price, qty)
    \/ \E cents \in PerShare : StartJob("dividend", <<cents, 1>>)
    \/ \E ratio \in Ratio : StartJob("split", ratio)
    \/ PayHolder
    \/ SplitHolder
    \/ EndJob
    \/ Restart

Spec == Init /\ [][Next]_vars

-----------------------------------------------------------------------------
\* "Seeded from the journal so funding ids stay unique across restarts (otherwise a repeat
\* fund would be a no-op via idempotency)": no deposit bears the name of one already made.
EveryDepositIsNew == \A t \in Clerk : task[t].at = "post" => task[t].txn \notin applied

\* Only these deposits are taken for earlier ones, and answered without being booked: those
\* that took their number while another of their account had not read its own yet, and those
\* whose number a journal row from before the last restart bears, one numbered above the
\* length the journal had then - as numbers of refused deposits are never used up there.
Outrun == {journal[n].txn : n \in {m \in 1 .. boot : journal[m].txn.seq > boot}}
DepositsAreNew ==
    \A t \in Clerk : task[t].at = "post" =>
        task[t].txn \notin applied \/ t \in met \/ task[t].txn \in Outrun

\* A dividend leaves every long holder with what his shares earn, once, if nobody traded
\* while it was paid and no dividend had been paid before the last restart.
PaidBefore == \E n \in 1 .. boot : journal[n].txn.kind = "div"
DividendRows(a) ==
    {n \in job.since + 1 .. Len(journal) : journal[n].txn.kind = "div" /\ journal[n].to = a}
EveryHolderPaid ==
    JobDone /\ job.kind = "dividend" /\ job.quiet =>
        \A a \in Account : Total(DividendRows(a)) = Due(a)
DividendIsPaidOnce == PaidBefore \/ EveryHolderPaid

\* What a balance in memory, that of the money from outside included, differs by from what a
\* restart would make of the journal is: the legs stored for rows yet to be written, less
\* what other threads stored between a posting's reading of the balance and its storing it,
\* and the deposits whose row was refused because two of an account took one number.
Unwritten(posting, h) ==
    (IF h = Nobody /\ posting.at \in {"read_in", "store_in", "write"}
     THEN -posting.amount ELSE 0)
    + (IF h = posting.account /\ posting.at = "write" THEN posting.amount ELSE 0)
OnTheWay(h) == SumFunction([t \in Thread |-> Unwritten(task[t], h)])
MemoryIsJournal ==
    \A h \in Holder :
        balance[h] = Replayed(h) + OnTheWay(h) - overwritten[h] + doubled[h]

\* An account that never sold more than it held and lost no fraction in a split keeps a
\* cost basis that vanishes with the holding, and all the money it put in is basis or
\* realised, in spite of the rounding of every sale and of the splits in between.
CostBasisSound ==
    \A a \in Account \ odd :
        /\ position[a].cost >= 0
        /\ position[a].qty = 0 => position[a].cost = 0
        /\ position[a].cost - position[a].realized = invested[a]
=============================================================================
