--------------------------------- MODULE Ledger ---------------------------------
(***************************************************************************)
(* The journal, its periods and the cash drawer (accounting.py, main.py),   *)
(* with the requests that post to it: sales, withdrawals, the daily audit   *)
(* (inventory.py), wallet entries and their migration (student_wallet.py).  *)
(*                                                                         *)
(* Requests run in parallel, each in one transaction under READ COMMITTED:  *)
(* a statement sees what is committed and what its own transaction wrote,   *)
(* and an INSERT waits for a transaction that holds the same unique key.    *)
(* Cash is counted in units of one sale.                                    *)
(***************************************************************************)
EXTENDS Integers, FiniteSets

CONSTANTS
    Offered,        \* bound: what the requests are for
    MaxRequests,    \* bound: requests
    MaxStudents,    \* bound: students
    MaxDays,        \* bound: days
    MaxFaults,      \* bound: transactions that fail for a reason not modelled
    Months,         \* the periods
    Month           \* get_period_key: the month of each day

Requests == 1..MaxRequests
Students == 1..MaxStudents
Days == 1..MaxDays

ASSUME BoundsAssumption == /\ MaxRequests \in Nat /\ MaxStudents \in Nat
                           /\ MaxDays \in Nat \ {0} /\ MaxFaults \in Nat

ASSUME MonthAssumption == Months \subseteq Nat /\ Month \in [Days -> Months]

VARIABLES
    today,
    period,         \* financial_periods
    entries,        \* journal_entries
    cash,           \* compute_cash_balance
    drawer,         \* cash_drawer_sessions, by the request that opened them
    pc,             \* the next step of each request
    task,           \* what each request is for
    amount,         \* what it adds to the cash
    stamp,          \* the day of its entry
    number,         \* the number of its entry
    lock,           \* the request that has locked each student, 0 for none
    made,           \* the periods it has inserted and not committed
    written,        \* the entries it has inserted and not committed
    paid,           \* history: the sum of the withdrawals
    closings,       \* history: which request closed what
    overlapped,     \* history: two audits were under way at one time
    used,           \* requests 1..used exist
    faults

vars == <<today, period, entries, cash, drawer, pc, task, amount, stamp, number, lock, made,
          written, paid, closings, overlapped, used, faults>>

books == <<period, entries, cash, paid>>
drawers == <<drawer, closings>>
transaction == <<lock, made, written>>
plan == <<task, amount, overlapped, used>>

-----------------------------------------------------------------------------
(* post: ensure_financial_period.  create: its INSERT.  write: the UPDATE,  *)
(* or the INSERT of a drawer, and the commit.                               *)
Pc == {"none", "lock", "post", "create", "count", "insert", "commit", "write", "done", "failed"}

Ended == {"none", "done", "failed"}

Kinds == {"none", "sale", "payment", "audit", "wallet", "migration", "list", "close", "open", "shut"}

\* What can be closed.
Things == ({"month"} \X Months) \cup ({"drawer"} \X Requests)

\* of: the student, the month or the drawer.  closed: what was closed when the request began.
Task == [kind : Kinds, of : Nat, closed : SUBSET Things]

NoTask == [kind |-> "none", of |-> 0, closed |-> {}]

\* JE<day>-<n>
Number == Days \X (Nat \ {0})

Entry == [key : Number, by : Requests]

TypeOK ==
    /\ today \in Days
    /\ period \in [Months -> {"none", "open", "closed"}]
    /\ entries \subseteq Entry
    /\ cash \in Int
    /\ drawer \in [Requests -> {"none", "open", "closed"}]
    /\ pc \in [Requests -> Pc]
    /\ task \in [Requests -> Task]
    /\ amount \in [Requests -> Int]
    /\ stamp \in [Requests -> Days]
    /\ number \in [Requests -> Nat \ {0}]
    /\ lock \in [Students -> 0..MaxRequests]
    /\ made \in [Requests -> SUBSET Months]
    /\ written \in [Requests -> SUBSET Number]
    /\ paid \in Nat
    /\ closings \subseteq Things \X Requests
    /\ overlapped \in BOOLEAN
    /\ used \in 0..MaxRequests
    /\ faults \in 0..MaxFaults

Init ==
    /\ today = 1
    /\ period = [m \in Months |-> "none"]
    /\ entries = {}
    /\ cash = 0
    /\ drawer = [i \in Requests |-> "none"]
    /\ pc = [i \in Requests |-> "none"]
    /\ task = [i \in Requests |-> NoTask]
    /\ amount = [i \in Requests |-> 0]
    /\ stamp = [i \in Requests |-> 1]
    /\ number = [i \in Requests |-> 1]
    /\ lock = [s \in Students |-> 0]
    /\ made = [i \in Requests |-> {}]
    /\ written = [i \in Requests |-> {}]
    /\ paid = 0
    /\ closings = {}
    /\ overlapped = FALSE
    /\ used = 0
    /\ faults = 0

-----------------------------------------------------------------------------
(* A request arrives, and what it reads first.                              *)
At(i, step) == pc[i] = step

Active(i) == pc[i] \notin Ended

Closed == {<<"month", m>> : m \in {n \in Months : period[n] = "closed"}} \cup
          {<<"drawer", d>> : d \in {e \in Requests : drawer[e] = "closed"}}

Begin(i, kind, of, sum, step) ==
    /\ kind \in Offered
    /\ i = used + 1 /\ used' = i
    /\ task' = [task EXCEPT ![i] = [kind |-> kind, of |-> of, closed |-> Closed]]
    /\ amount' = [amount EXCEPT ![i] = sum]
    /\ pc' = [pc EXCEPT ![i] = step]
    /\ UNCHANGED <<today, books, drawers, stamp, number, transaction, faults>>

\* create_transaction, and create_reservation with a deposit.
Sell(i) == Begin(i, "sale", 0, 1, "post") /\ UNCHANGED overlapped

\* emergency_withdrawal, create_supply and the refund of a deposit: the balance is not asked for.
Pay(i) == Begin(i, "payment", 0, -1, "post") /\ UNCHANGED overlapped

\* Mutant of Balance: what is not committed is counted as well.
BalanceDirty == cash + Cardinality({i \in Requests : task[i].kind = "sale" /\ Active(i)})

Balance == cash

\* create_inventory_session takes the balance it reads out of the drawer, if there is any.
Audit(i) ==
    /\ IF Balance > 0 THEN Begin(i, "audit", 0, -Balance, "post") ELSE Begin(i, "audit", 0, 0, "commit")
    /\ overlapped' = (overlapped \/ \E j \in Requests : task[j].kind = "audit" /\ Active(j))

\* create_wallet_entry, which may bring cash; its caller has no transaction before.
Wallet(i, s, sum) == Begin(i, "wallet", s, sum, "lock") /\ UNCHANGED overlapped

\* generate_opening_balance_entries, for the students in the order of their ids.
Migrate(i) == Begin(i, "migration", 1, 0, "lock") /\ UNCHANGED overlapped

\* list_financial_periods.
ListPeriods(i) == Begin(i, "list", 0, 0, "post") /\ UNCHANGED overlapped

\* close_financial_period; every committed entry is balanced.
ClosePeriod(i, m) == period[m] = "open" /\ Begin(i, "close", m, 0, "write") /\ UNCHANGED overlapped

\* open_cash_drawer_session and close_cash_drawer_session, of one member of the staff.
OpenDrawer(i) ==
    /\ \A d \in Requests : drawer[d] # "open"
    /\ Begin(i, "open", 0, 0, "write")
    /\ UNCHANGED overlapped

CloseDrawer(i, d) == drawer[d] = "open" /\ Begin(i, "shut", d, 0, "write") /\ UNCHANGED overlapped

-----------------------------------------------------------------------------
(* The end of a transaction, which lets those go on that wait for it.       *)
End(i, step) ==
    /\ pc' = [pc EXCEPT ![i] = step]
    /\ lock' = [s \in Students |-> IF lock[s] = i THEN 0 ELSE lock[s]]
    /\ made' = [made EXCEPT ![i] = {}]
    /\ written' = [written EXCEPT ![i] = {}]

Abort(i) == End(i, "failed") /\ UNCHANGED <<today, books, drawers, plan>>

Goto(i, step) == pc' = [pc EXCEPT ![i] = step]

\* A step in the middle of a transaction.
Middle == UNCHANGED <<today, books, drawers, amount, overlapped, used, faults>>

\* The student, FOR UPDATE.
Lock(i) ==
    /\ At(i, "lock")
    /\ lock[task[i].of] \in {0, i}
    /\ lock' = [lock EXCEPT ![task[i].of] = i]
    /\ Goto(i, "post")
    /\ Middle /\ UNCHANGED <<task, stamp, number, made, written>>

\* Mutant of Sees: rows that are not committed are seen.
SeesDirty(i, m) == period[m] # "none" \/ \E j \in Requests : m \in made[j]

Sees(i, m) == period[m] # "none" \/ m \in made[i]

\* Mutant of Refused: ensure_financial_period without ensure_period_is_open.
RefusedNever(i, m) == FALSE

\* ensure_period_is_open, except for a list.
Refused(i, m) == period[m] = "closed" /\ task[i].kind # "list"

\* After the period is there.
Go(i) == Goto(i, IF task[i].kind = "list" THEN "commit" ELSE "count")

(* The period of today is read, without a lock. *)
Ensure(i) ==
    /\ At(i, "post")
    /\ stamp' = [stamp EXCEPT ![i] = today]
    /\ \/ Refused(i, Month[today]) /\ Abort(i)
       \/ /\ ~Refused(i, Month[today])
          /\ IF Sees(i, Month[today]) THEN Go(i) ELSE Goto(i, "create")
          /\ Middle /\ UNCHANGED <<task, transaction>>
    /\ UNCHANGED <<number, faults>>

Creating(m) == {j \in Requests : m \in made[j]}

(* It is inserted; when another transaction was first, the unique key fails  *)
(* this one.                                                                 *)
Create(i) ==
    /\ At(i, "create")
    /\ Creating(Month[stamp[i]]) = {}
    /\ \/ period[Month[stamp[i]]] # "none" /\ Abort(i)
       \/ /\ period[Month[stamp[i]]] = "none"
          /\ made' = [made EXCEPT ![i] = @ \cup {Month[stamp[i]]}]
          /\ Go(i)
          /\ Middle /\ UNCHANGED <<task, lock, written>>
    /\ UNCHANGED <<stamp, number, faults>>

Posted(d) == {e \in entries : e.key[1] = d}

\* The entries of day d that request i sees.
Seen(i, d) == Cardinality(Posted(d)) + Cardinality({w \in written[i] : w[1] = d})

\* Mutant of NextNumber: one too few.
NextNumberFromZero(i) == Seen(i, stamp[i])

\* _next_entry_number.
NextNumber(i) == Seen(i, stamp[i]) + 1

Count(i) ==
    /\ At(i, "count")
    /\ number' = [number EXCEPT ![i] = NextNumber(i)]
    /\ Goto(i, "insert")
    /\ Middle /\ UNCHANGED <<task, transaction, stamp>>

Key(i) == <<stamp[i], number[i]>>

Inserting(key) == {j \in Requests : key \in written[j]}

Taken(key) == \E e \in entries : e.key = key

\* Mutant of More: a wallet entry goes on with the next student, as the migration does.
MoreOfWallet(i) == task[i].kind \in {"wallet", "migration"} /\ task[i].of < MaxStudents

\* The migration has another student.
More(i) == task[i].kind = "migration" /\ task[i].of < MaxStudents

Put(i) ==
    /\ written' = [written EXCEPT ![i] = @ \cup {Key(i)}]
    /\ Goto(i, IF More(i) THEN "lock" ELSE "commit")
    /\ task' = IF More(i) THEN [task EXCEPT ![i].of = @ + 1] ELSE task
    /\ Middle /\ UNCHANGED <<lock, made>>

\* Mutant of Insert: the entry number is not unique.
InsertAny(i) == At(i, "insert") /\ Put(i) /\ UNCHANGED <<stamp, number>>

(* The entry and its lines are inserted; when its number is taken, the        *)
(* transaction fails.                                                        *)
Insert(i) ==
    /\ At(i, "insert")
    /\ Inserting(Key(i)) \subseteq {i}
    /\ \/ Taken(Key(i)) /\ Abort(i)
       \/ ~Taken(Key(i)) /\ Put(i)
    /\ UNCHANGED <<stamp, number, faults>>

Commit(i) ==
    /\ At(i, "commit")
    /\ End(i, "done")
    /\ entries' = entries \cup {[key |-> w, by |-> i] : w \in written[i]}
    /\ period' = [m \in Months |-> IF m \in made[i] THEN "open" ELSE period[m]]
    /\ cash' = cash + amount[i]
    /\ paid' = IF task[i].kind = "payment" THEN paid + 1 ELSE paid
    /\ UNCHANGED <<today, drawers, plan, stamp, number, faults>>

(* What was found open, or not found, is changed and committed, without a     *)
(* second look.                                                              *)
Change(i) ==
    /\ At(i, "write")
    /\ End(i, "done")
    /\ \/ /\ task[i].kind = "close"
          /\ period' = [period EXCEPT ![task[i].of] = "closed"]
          /\ closings' = closings \cup {<<<<"month", task[i].of>>, i>>}
          /\ UNCHANGED drawer
       \/ /\ task[i].kind = "open"
          /\ drawer' = [drawer EXCEPT ![i] = "open"]
          /\ UNCHANGED <<period, closings>>
       \/ /\ task[i].kind = "shut"
          /\ drawer' = [drawer EXCEPT ![task[i].of] = "closed"]
          /\ closings' = closings \cup {<<<<"drawer", task[i].of>>, i>>}
          /\ UNCHANGED period
    /\ UNCHANGED <<today, entries, cash, paid, plan, stamp, number, faults>>

-----------------------------------------------------------------------------
(* A transaction that waits in a circle is aborted by the database.         *)
WaitsFor(i) ==
    CASE At(i, "lock")   -> {lock[task[i].of]} \ {0, i}
      [] At(i, "create") -> Creating(Month[stamp[i]])
      [] At(i, "insert") -> Inserting(Key(i)) \ {i}
      [] OTHER           -> {}

Stuck(S) == S # {} /\ \A i \in S : WaitsFor(i) \cap S # {}

Circle(S) == Stuck(S) /\ \A T \in SUBSET S : Stuck(T) => T = S

Deadlock(i) ==
    /\ \E S \in SUBSET Requests : i \in S /\ Circle(S)
    /\ Abort(i)
    /\ UNCHANGED <<stamp, number, faults>>

\* The connection is lost, or the process ends.
Fail(i) ==
    /\ Active(i)
    /\ faults < MaxFaults /\ faults' = faults + 1
    /\ Abort(i)
    /\ UNCHANGED <<stamp, number>>

NextDay ==
    /\ today < MaxDays
    /\ today' = today + 1
    /\ UNCHANGED <<books, drawers, pc, plan, stamp, number, transaction, faults>>

-----------------------------------------------------------------------------
Arrive(i) ==
    \/ Sell(i) \/ Pay(i) \/ Audit(i) \/ Migrate(i) \/ ListPeriods(i) \/ OpenDrawer(i)
    \/ \E s \in Students, sum \in {0, 1} : Wallet(i, s, sum)
    \/ \E m \in Months : ClosePeriod(i, m)
    \/ \E d \in Requests : CloseDrawer(i, d)

Serve(i) ==
    Lock(i) \/ Ensure(i) \/ Create(i) \/ Count(i) \/ Insert(i) \/ Commit(i) \/ Change(i) \/ Deadlock(i)

Next ==
    \/ \E i \in Requests : Arrive(i) \/ Serve(i) \/ Fail(i)
    \/ NextDay

Spec == Init /\ [][Next]_vars

-----------------------------------------------------------------------------
Numbers(d) == {e.key[2] : e \in Posted(d)}

(* The entries of a day are numbered 1, 2, 3, ... without a gap and without  *)
(* doubles, however many transactions count them at one time, fail or are    *)
(* aborted (_next_entry_number, and the unique index on the number).         *)
NumbersFollow ==
    \A d \in Days :
        /\ Numbers(d) = 1..Cardinality(Numbers(d))
        /\ \A e, f \in Posted(d) : e.key = f.key => e = f

(* An entry belongs to a period that exists, although a period is inserted   *)
(* by the first transaction of its month, which may be rolled back after     *)
(* others have been stamped with that month (ensure_financial_period).       *)
EntryHasPeriod == \A e \in entries : period[Month[e.key[1]]] # "none"

(* What is closed stays so for whoever comes later: an entry of a closed      *)
(* period, or a second closing of a period or a drawer, is made only by a     *)
(* request that began before the closing was committed.                      *)
LateOnlyUnderWay ==
    /\ \A e \in entries : <<"month", Month[e.key[1]]>> \notin task[e.by].closed
    /\ \A c \in closings : c[1] \notin task[c[2]].closed

(* What the audits take out of the drawer was taken in before, whatever else  *)
(* is posted between their read of the balance and their commit, unless two   *)
(* audits overlap.                                                           *)
AuditsTakeOnce == ~overlapped => cash + paid >= 0

(* Transactions wait for each other in a circle only when one of them is a    *)
(* migration, which keeps entry numbers while it waits for students.         *)
CircleHasMigration ==
    \A S \in SUBSET Requests : Stuck(S) => \E i \in S : task[i].kind = "migration"

=============================================================================
