------------------------------ MODULE LedgerProofs ------------------------------
(***************************************************************************)
(* Proofs about the journal, its periods and the cash drawer, for any        *)
(* number of requests, students, days and faults.                           *)
(***************************************************************************)
EXTENDS Ledger, FiniteSetTheorems, TLAPS

(* A step of request i changes no other request.                            *)
Others(i) ==
    \A j \in Requests \ {i} :
        /\ pc'[j] = pc[j] /\ task'[j] = task[j] /\ amount'[j] = amount[j]
        /\ stamp'[j] = stamp[j] /\ number'[j] = number[j]
        /\ made'[j] = made[j] /\ written'[j] = written[j]

(* Request i keeps what it is for, its stamp and its number.                *)
SamePlan(i) ==
    /\ task'[i] = task[i] /\ amount'[i] = amount[i] /\ stamp'[i] = stamp[i] /\ number'[i] = number[i]

(* The transaction of request i is over.                                    *)
Over(i, step) == pc'[i] = step /\ made'[i] = {} /\ written'[i] = {}

-----------------------------------------------------------------------------
LEMMA ClosedType == ASSUME TypeOK PROVE Closed \subseteq Things
  BY DEF Closed, Things, TypeOK

LEMMA BeginType ==
    ASSUME TypeOK, NEW i \in Requests, NEW kind \in Kinds, NEW of \in Nat, NEW sum \in Int,
           NEW step \in Pc, Begin(i, kind, of, sum, step), overlapped' \in BOOLEAN
    PROVE  TypeOK'
<1>1. [kind |-> kind, of |-> of, closed |-> Closed] \in Task
  BY ClosedType DEF Task
<1>2. task' \in [Requests -> Task]
  BY <1>1 DEF Begin, TypeOK
<1>3. amount' \in [Requests -> Int] /\ pc' \in [Requests -> Pc]
  BY DEF Begin, TypeOK
<1>4. used' \in 0..MaxRequests
  BY BoundsAssumption DEF Begin, Requests
<1> QED
  BY <1>2, <1>3, <1>4 DEF Begin, TypeOK, books, drawers, transaction

(* What the arrival of a request does.                                      *)
Begun(i, kind, of, sum, step) ==
    /\ i = used + 1 /\ used' = i
    /\ task'[i].kind = kind /\ task'[i].of = of /\ task'[i].closed = Closed
    /\ amount'[i] = sum /\ pc'[i] = step
    /\ stamp'[i] = stamp[i] /\ number'[i] = number[i]
    /\ UNCHANGED <<today, period, entries, cash, paid, drawer, closings, made, written>>

LEMMA BeginBegun ==
    ASSUME TypeOK, NEW i \in Requests, NEW kind, NEW of, NEW sum, NEW step,
           Begin(i, kind, of, sum, step)
    PROVE  Begun(i, kind, of, sum, step) /\ Others(i)
<1>1. task'[i] = [kind |-> kind, of |-> of, closed |-> Closed]
  BY DEF Begin, TypeOK
<1> QED
  BY <1>1 DEF Begin, TypeOK, Begun, Others, books, drawers, transaction

(* Every arrival has one of these forms.                                    *)
Arrived(i) ==
    \/ Begun(i, "sale", 0, 1, "post") /\ overlapped' = overlapped
    \/ Begun(i, "payment", 0, -1, "post") /\ overlapped' = overlapped
    \/ /\ \/ cash > 0 /\ Begun(i, "audit", 0, -cash, "post")
          \/ Begun(i, "audit", 0, 0, "commit")
       /\ overlapped' = (overlapped \/ \E j \in Requests : task[j].kind = "audit" /\ Active(j))
    \/ \E s \in Students, sum \in {0, 1} : Begun(i, "wallet", s, sum, "lock") /\ overlapped' = overlapped
    \/ Begun(i, "migration", 1, 0, "lock") /\ overlapped' = overlapped
    \/ Begun(i, "list", 0, 0, "post") /\ overlapped' = overlapped
    \/ \E m \in Months : period[m] = "open" /\ Begun(i, "close", m, 0, "write") /\ overlapped' = overlapped
    \/ Begun(i, "open", 0, 0, "write") /\ overlapped' = overlapped
    \/ \E d \in Requests : drawer[d] = "open" /\ Begun(i, "shut", d, 0, "write") /\ overlapped' = overlapped

LEMMA ArriveType ==
    ASSUME TypeOK, NEW i \in Requests, Arrive(i)
    PROVE  TypeOK' /\ Arrived(i) /\ Others(i)
<1>0. /\ {"sale", "payment", "audit", "wallet", "migration", "list", "close", "open", "shut"} \subseteq Kinds
      /\ {"lock", "post", "commit", "write"} \subseteq Pc /\ overlapped \in BOOLEAN /\ cash \in Int
      /\ 0 \in Nat /\ 1 \in Nat /\ 0 \in Int /\ 1 \in Int /\ -1 \in Int /\ -cash \in Int
  BY DEF Kinds, Pc, TypeOK
<1>1. CASE Sell(i)
  BY <1>0, <1>1, BeginType, BeginBegun DEF Sell, Arrived
<1>2. CASE Pay(i)
  BY <1>0, <1>2, BeginType, BeginBegun DEF Pay, Arrived
<1>3. CASE Audit(i)
  <2>1. overlapped' \in BOOLEAN /\ overlapped' = (overlapped \/ \E j \in Requests : task[j].kind = "audit" /\ Active(j))
    BY <1>3 DEF Audit
  <2>2. CASE cash > 0
    <3>1. Begin(i, "audit", 0, -cash, "post")
      BY <1>3, <2>2 DEF Audit, Balance
    <3> QED
      BY <1>0, <2>1, <2>2, <3>1, BeginType, BeginBegun DEF Arrived
  <2>3. CASE ~(cash > 0)
    <3>1. Begin(i, "audit", 0, 0, "commit")
      BY <1>3, <2>3 DEF Audit, Balance
    <3> QED
      BY <1>0, <2>1, <3>1, BeginType, BeginBegun DEF Arrived
  <2> QED
    BY <2>2, <2>3
<1>4. ASSUME NEW s \in Students, NEW sum \in {0, 1}, Wallet(i, s, sum) PROVE TypeOK' /\ Arrived(i) /\ Others(i)
  <2>1. s \in Nat /\ sum \in Int
    BY BoundsAssumption DEF Students
  <2> QED
    BY <1>0, <1>4, <2>1, BeginType, BeginBegun DEF Wallet, Arrived
<1>5. CASE Migrate(i)
  BY <1>0, <1>5, BeginType, BeginBegun DEF Migrate, Arrived
<1>6. CASE ListPeriods(i)
  BY <1>0, <1>6, BeginType, BeginBegun DEF ListPeriods, Arrived
<1>7. ASSUME NEW m \in Months, ClosePeriod(i, m) PROVE TypeOK' /\ Arrived(i) /\ Others(i)
  <2>1. m \in Nat
    BY MonthAssumption
  <2> QED
    BY <1>0, <1>7, <2>1, BeginType, BeginBegun DEF ClosePeriod, Arrived
<1>8. CASE OpenDrawer(i)
  BY <1>0, <1>8, BeginType, BeginBegun DEF OpenDrawer, Arrived
<1>9. ASSUME NEW d \in Requests, CloseDrawer(i, d) PROVE TypeOK' /\ Arrived(i) /\ Others(i)
  <2>1. d \in Nat
    BY BoundsAssumption DEF Requests
  <2> QED
    BY <1>0, <1>9, <2>1, BeginType, BeginBegun DEF CloseDrawer, Arrived
<1> QED
  BY <1>1, <1>2, <1>3, <1>4, <1>5, <1>6, <1>7, <1>8, <1>9 DEF Arrive

-----------------------------------------------------------------------------
(* Every step of a request under way has one of these forms.                *)
SameBooks == UNCHANGED <<today, period, entries, cash, paid, drawer, closings, used, overlapped>>

SameTransaction(i) == made'[i] = made[i] /\ written'[i] = written[i]

SameTask(i) ==
    /\ task'[i].kind = task[i].kind /\ task'[i].closed = task[i].closed /\ amount'[i] = amount[i]
    /\ task[i].kind # "migration" => task'[i].of = task[i].of

Locked(i) ==
    At(i, "lock") /\ pc'[i] = "post" /\ SamePlan(i) /\ SameTransaction(i) /\ SameBooks

Ensured(i) ==
    /\ At(i, "post") /\ ~Refused(i, Month[today]) /\ stamp'[i] = today
    /\ task'[i] = task[i] /\ amount'[i] = amount[i] /\ SameTransaction(i) /\ SameBooks
    /\ \/ pc'[i] = "create"
       \/ Sees(i, Month[today]) /\ pc'[i] = IF task[i].kind = "list" THEN "commit" ELSE "count"

Created(i) ==
    /\ At(i, "create") /\ pc'[i] \in {"commit", "count"} /\ SamePlan(i) /\ SameBooks
    /\ period[Month[stamp[i]]] = "none" /\ \A j \in Requests : Month[stamp[i]] \notin made[j]
    /\ made'[i] = made[i] \cup {Month[stamp[i]]} /\ written'[i] = written[i]

Counted(i) ==
    /\ At(i, "count") /\ pc'[i] = "insert" /\ number'[i] = NextNumber(i) /\ stamp'[i] = stamp[i]
    /\ task'[i] = task[i] /\ amount'[i] = amount[i] /\ SameTransaction(i) /\ SameBooks

Inserted(i) ==
    /\ At(i, "insert") /\ pc'[i] \in {"lock", "commit"} /\ SameTask(i) /\ SameBooks
    /\ ~Taken(Key(i)) /\ \A j \in Requests \ {i} : Key(i) \notin written[j]
    /\ written'[i] = written[i] \cup {Key(i)} /\ made'[i] = made[i]
    /\ pc'[i] = "lock" => task[i].kind = "migration"

Committed(i) ==
    /\ At(i, "commit") /\ Over(i, "done") /\ SamePlan(i)
    /\ entries' = entries \cup {[key |-> w, by |-> i] : w \in written[i]}
    /\ period' = [m \in Months |-> IF m \in made[i] THEN "open" ELSE period[m]]
    /\ cash' = cash + amount[i]
    /\ paid' = IF task[i].kind = "payment" THEN paid + 1 ELSE paid
    /\ UNCHANGED <<today, drawer, closings, used, overlapped>>

Changed(i) ==
    /\ At(i, "write") /\ Over(i, "done") /\ SamePlan(i)
    /\ UNCHANGED <<today, entries, cash, paid, used, overlapped>>
    /\ \/ /\ task[i].kind = "close"
          /\ period' = [period EXCEPT ![task[i].of] = "closed"]
          /\ closings' = closings \cup {<<<<"month", task[i].of>>, i>>}
          /\ UNCHANGED drawer
       \/ /\ task[i].kind = "open"
          /\ drawer' = [drawer EXCEPT ![i] = "open"]
          /\ UNCHANGED <<period, closings>>
       \/ /\ task[i].kind = "shut"
          /\ drawer' = [drawer EXCEPT ![task[i].of] = "closed"]
          /\ closings' = closings \cup {<<<<"drawer", task[i].of>>, i>>}
          /\ UNCHANGED period

Failed(i) == Active(i) /\ Over(i, "failed") /\ SameTask(i) /\ SameBooks

Served(i) ==
    \/ Locked(i) \/ Ensured(i) \/ Created(i) \/ Counted(i) \/ Inserted(i)
    \/ Committed(i) \/ Changed(i) \/ Failed(i)

LEMMA EndType ==
    ASSUME TypeOK, NEW i \in Requests, NEW step \in Pc, End(i, step)
    PROVE  /\ Over(i, step)
           /\ pc' \in [Requests -> Pc] /\ lock' \in [Students -> 0..MaxRequests]
           /\ made' \in [Requests -> SUBSET Months] /\ written' \in [Requests -> SUBSET Number]
           /\ \A j \in Requests \ {i} : pc'[j] = pc[j] /\ made'[j] = made[j] /\ written'[j] = written[j]
<1>1. lock' \in [Students -> 0..MaxRequests]
  BY BoundsAssumption DEF TypeOK, End
<1> QED
  BY <1>1 DEF End, TypeOK, Over

LEMMA AbortType ==
    ASSUME TypeOK, NEW i \in Requests, Active(i), Abort(i), number' = number, faults' \in 0..MaxFaults,
           NEW d \in Days, stamp' = stamp \/ stamp' = [stamp EXCEPT ![i] = d]
    PROVE  TypeOK' /\ Failed(i) /\ Others(i)
<1>1. "failed" \in Pc
  BY DEF Pc
<1>2. /\ Over(i, "failed")
      /\ pc' \in [Requests -> Pc] /\ lock' \in [Students -> 0..MaxRequests]
      /\ made' \in [Requests -> SUBSET Months] /\ written' \in [Requests -> SUBSET Number]
      /\ \A j \in Requests \ {i} : pc'[j] = pc[j] /\ made'[j] = made[j] /\ written'[j] = written[j]
  BY <1>1, EndType DEF Abort
<1>3. stamp' \in [Requests -> Days] /\ \A j \in Requests \ {i} : stamp'[j] = stamp[j]
  BY DEF TypeOK
<1>4. UNCHANGED <<today, period, entries, cash, paid, drawer, closings, task, amount, overlapped, used>>
  BY DEF Abort, books, drawers, plan
<1> QED
  BY <1>2, <1>3, <1>4 DEF TypeOK, Failed, Others, SameTask, SameBooks

LEMMA FaultsType == TypeOK => faults \in 0..MaxFaults /\ today \in Days
  BY DEF TypeOK

LEMMA LockType ==
    ASSUME TypeOK, NEW i \in Requests, Lock(i)
    PROVE  TypeOK' /\ Served(i) /\ Others(i)
<1>1. pc' \in [Requests -> Pc] /\ pc'[i] = "post" /\ \A j \in Requests \ {i} : pc'[j] = pc[j]
  BY DEF Lock, Goto, TypeOK, Pc
<1>2. lock' \in [Students -> 0..MaxRequests]
  <2>1. i \in 0..MaxRequests
    BY BoundsAssumption DEF Requests
  <2> QED
    BY <2>1 DEF Lock, TypeOK
<1>3. UNCHANGED <<today, period, entries, cash, paid, drawer, closings, amount, overlapped, used, faults,
                  task, stamp, number, made, written>>
  BY DEF Lock, Middle, books, drawers
<1>4. TypeOK'
  BY <1>1, <1>2, <1>3 DEF TypeOK
<1>5. Locked(i) /\ Others(i)
  BY <1>1, <1>3 DEF Lock, Locked, SamePlan, SameTransaction, SameBooks, Others
<1> QED
  BY <1>4, <1>5 DEF Served

LEMMA EnsureType ==
    ASSUME TypeOK, NEW i \in Requests, Ensure(i)
    PROVE  TypeOK' /\ Served(i) /\ Others(i)
<1>1. stamp' = [stamp EXCEPT ![i] = today] /\ number' = number /\ faults' = faults /\ At(i, "post")
  BY DEF Ensure
<1>2. CASE Refused(i, Month[today]) /\ Abort(i)
  <2>1. Active(i)
    BY <1>1 DEF At, Active, Ended
  <2> QED
    BY <1>1, <1>2, <2>1, AbortType, FaultsType DEF Served
<1>3. CASE /\ ~Refused(i, Month[today])
           /\ IF Sees(i, Month[today]) THEN Go(i) ELSE Goto(i, "create")
           /\ Middle /\ UNCHANGED <<task, transaction>>
  <2>1. UNCHANGED <<today, period, entries, cash, paid, drawer, closings, amount, overlapped, used, faults,
                    task, number, made, written, lock>>
    BY <1>1, <1>3 DEF Middle, books, drawers, transaction
  <2>2. stamp' \in [Requests -> Days] /\ stamp'[i] = today /\ \A j \in Requests \ {i} : stamp'[j] = stamp[j]
    BY <1>1 DEF TypeOK
  <2>3. /\ pc' \in [Requests -> Pc] /\ \A j \in Requests \ {i} : pc'[j] = pc[j]
        /\ \/ pc'[i] = "create"
           \/ Sees(i, Month[today]) /\ pc'[i] = IF task[i].kind = "list" THEN "commit" ELSE "count"
    BY <1>3 DEF Go, Goto, TypeOK, Pc
  <2>4. TypeOK'
    BY <2>1, <2>2, <2>3 DEF TypeOK
  <2>5. Ensured(i) /\ Others(i)
    BY <1>1, <1>3, <2>1, <2>2, <2>3 DEF Ensured, Others, SameTransaction, SameBooks
  <2> QED
    BY <2>4, <2>5 DEF Served
<1> QED
  BY <1>2, <1>3 DEF Ensure

LEMMA CreateType ==
    ASSUME TypeOK, NEW i \in Requests, Create(i)
    PROVE  TypeOK' /\ Served(i) /\ Others(i)
<1> DEFINE M == Month[stamp[i]]
<1>1. stamp' = stamp /\ number' = number /\ faults' = faults /\ At(i, "create") /\ Creating(M) = {}
  BY DEF Create
<1>2. M \in Months
  BY MonthAssumption DEF TypeOK
<1>3. CASE Abort(i)
  <2>1. Active(i)
    BY <1>1 DEF At, Active, Ended
  <2> QED
    BY <1>1, <1>3, <2>1, AbortType, FaultsType DEF Served
<1>4. CASE /\ period[M] = "none"
           /\ made' = [made EXCEPT ![i] = @ \cup {M}]
           /\ Go(i)
           /\ Middle /\ UNCHANGED <<task, lock, written>>
  <2> HIDE DEF M
  <2>1. UNCHANGED <<today, period, entries, cash, paid, drawer, closings, amount, overlapped, used, faults,
                    task, number, written, lock, stamp>>
    BY <1>1, <1>4 DEF Middle, books, drawers
  <2>2. /\ made' \in [Requests -> SUBSET Months] /\ made'[i] = made[i] \cup {M}
        /\ \A j \in Requests \ {i} : made'[j] = made[j]
    BY <1>2, <1>4 DEF TypeOK
  <2>3. /\ pc' \in [Requests -> Pc] /\ \A j \in Requests \ {i} : pc'[j] = pc[j]
        /\ pc'[i] \in {"commit", "count"}
    BY <1>4 DEF Go, Goto, TypeOK, Pc
  <2>4. \A j \in Requests : M \notin made[j]
    BY <1>1 DEF Creating
  <2>5. TypeOK'
    BY <2>1, <2>2, <2>3 DEF TypeOK
  <2>6. Created(i) /\ Others(i)
    BY <1>1, <1>4, <2>1, <2>2, <2>3, <2>4 DEF Created, Others, SamePlan, SameBooks, M
  <2> QED
    BY <2>5, <2>6 DEF Served
<1> QED
  BY <1>3, <1>4 DEF Create

(* What is closed exists, and only finitely many entries are inserted.      *)
Target ==
    \A i \in Requests :
        /\ task[i].kind = "close" => task[i].of \in Months
        /\ task[i].kind = "shut" => task[i].of \in Requests

Finite == IsFiniteSet(entries) /\ \A i \in Requests : IsFiniteSet(written[i])

LEMMA SeenType ==
    ASSUME Finite, NEW i \in Requests, NEW d
    PROVE  Seen(i, d) \in Nat
<1>1. IsFiniteSet(Posted(d)) /\ IsFiniteSet({w \in written[i] : w[1] = d})
  BY FS_Subset DEF Finite, Posted
<1> QED
  BY <1>1, FS_CardinalityType DEF Seen

LEMMA CountType ==
    ASSUME TypeOK, Finite, NEW i \in Requests, Count(i)
    PROVE  TypeOK' /\ Served(i) /\ Others(i)
<1>1. UNCHANGED <<today, period, entries, cash, paid, drawer, closings, amount, overlapped, used, faults,
                  task, stamp, made, written, lock>>
  BY DEF Count, Middle, books, drawers, transaction
<1>2. NextNumber(i) \in Nat \ {0}
  BY SeenType DEF NextNumber
<1>3. /\ number' \in [Requests -> Nat \ {0}] /\ number'[i] = NextNumber(i)
      /\ \A j \in Requests \ {i} : number'[j] = number[j]
  BY <1>2 DEF Count, TypeOK
<1>4. pc' \in [Requests -> Pc] /\ pc'[i] = "insert" /\ \A j \in Requests \ {i} : pc'[j] = pc[j]
  BY DEF Count, Goto, TypeOK, Pc
<1>5. TypeOK'
  BY <1>1, <1>3, <1>4 DEF TypeOK
<1>6. Counted(i) /\ Others(i)
  BY <1>1, <1>3, <1>4 DEF Count, Counted, Others, SameTransaction, SameBooks
<1> QED
  BY <1>5, <1>6 DEF Served

LEMMA KeyType == ASSUME TypeOK, NEW i \in Requests PROVE Key(i) \in Number
  BY DEF TypeOK, Key, Number

LEMMA MoreTask ==
    ASSUME TypeOK, NEW i \in Requests, task' = [task EXCEPT ![i].of = @ + 1]
    PROVE  /\ task' \in [Requests -> Task] /\ \A j \in Requests \ {i} : task'[j] = task[j]
           /\ task'[i].kind = task[i].kind /\ task'[i].closed = task[i].closed
<1> PICK t : t = task[i]
  OBVIOUS
<1>1. t \in Task
  BY DEF TypeOK
<1>2. PICK u : u = [t EXCEPT !.of = @ + 1]
  OBVIOUS
<1>3. u \in Task /\ u.kind = t.kind /\ u.closed = t.closed
  BY <1>1, <1>2 DEF Task
<1>4. task' = [task EXCEPT ![i] = u]
  BY <1>2 DEF TypeOK
<1> QED
  BY <1>3, <1>4 DEF TypeOK

LEMMA InsertType ==
    ASSUME TypeOK, NEW i \in Requests, Insert(i)
    PROVE  TypeOK' /\ Served(i) /\ Others(i)
<1>1. stamp' = stamp /\ number' = number /\ faults' = faults /\ At(i, "insert")
  BY DEF Insert
<1>2. CASE Abort(i)
  <2>1. Active(i)
    BY <1>1 DEF At, Active, Ended
  <2> QED
    BY <1>1, <1>2, <2>1, AbortType, FaultsType DEF Served
<1>3. CASE ~Taken(Key(i)) /\ Put(i)
  <2>1. UNCHANGED <<today, period, entries, cash, paid, drawer, closings, amount, overlapped, used, faults,
                    made, lock, stamp, number>>
    BY <1>1, <1>3 DEF Put, Middle, books, drawers
  <2>2. /\ written' \in [Requests -> SUBSET Number] /\ written'[i] = written[i] \cup {Key(i)}
        /\ \A j \in Requests \ {i} : written'[j] = written[j]
    BY <1>3, KeyType DEF TypeOK, Put
  <2>3. /\ pc' \in [Requests -> Pc] /\ \A j \in Requests \ {i} : pc'[j] = pc[j]
        /\ pc'[i] \in {"lock", "commit"} /\ (pc'[i] = "lock" => task[i].kind = "migration")
    BY <1>3 DEF Put, Goto, TypeOK, Pc, More
  <2>4. \A j \in Requests \ {i} : Key(i) \notin written[j]
    BY DEF Insert, Inserting
  <2>5. /\ task' \in [Requests -> Task] /\ \A j \in Requests \ {i} : task'[j] = task[j]
        /\ task'[i].kind = task[i].kind /\ task'[i].closed = task[i].closed
        /\ task[i].kind # "migration" => task'[i].of = task[i].of
    <3>1. CASE More(i)
      <4>1. task' = [task EXCEPT ![i].of = @ + 1]
        BY <1>3, <3>1 DEF Put
      <4> QED
        BY <3>1, <4>1, MoreTask DEF More
    <3>2. CASE ~More(i)
      <4>1. task' = task
        BY <1>3, <3>2 DEF Put
      <4> QED
        BY <4>1 DEF TypeOK
    <3> QED
      BY <3>1, <3>2
  <2>6. TypeOK'
    BY <2>1, <2>2, <2>3, <2>5 DEF TypeOK
  <2>7. Inserted(i) /\ Others(i)
    BY <1>1, <1>3, <2>1, <2>2, <2>3, <2>4, <2>5 DEF Inserted, Others, SameTask, SameBooks
  <2> QED
    BY <2>6, <2>7 DEF Served
<1> QED
  BY <1>2, <1>3 DEF Insert

LEMMA CommitType ==
    ASSUME TypeOK, NEW i \in Requests, Commit(i)
    PROVE  TypeOK' /\ Served(i) /\ Others(i)
<1>1. /\ Over(i, "done")
      /\ pc' \in [Requests -> Pc] /\ lock' \in [Students -> 0..MaxRequests]
      /\ made' \in [Requests -> SUBSET Months] /\ written' \in [Requests -> SUBSET Number]
      /\ \A j \in Requests \ {i} : pc'[j] = pc[j] /\ made'[j] = made[j] /\ written'[j] = written[j]
  BY EndType DEF Commit, Pc
<1>2. /\ UNCHANGED <<today, drawer, closings, task, amount, overlapped, used, stamp, number, faults>>
      /\ At(i, "commit")
  BY DEF Commit, drawers, plan
<1>3. /\ entries' = entries \cup {[key |-> w, by |-> i] : w \in written[i]}
      /\ period' = [m \in Months |-> IF m \in made[i] THEN "open" ELSE period[m]]
      /\ cash' = cash + amount[i]
      /\ paid' = IF task[i].kind = "payment" THEN paid + 1 ELSE paid
  BY DEF Commit
<1>4. entries' \subseteq Entry
  BY <1>3 DEF TypeOK, Entry
<1>5. period' \in [Months -> {"none", "open", "closed"}]
  BY <1>3 DEF TypeOK
<1>6. cash' \in Int /\ paid' \in Nat
  BY <1>3 DEF TypeOK
<1>7. TypeOK'
  BY <1>1, <1>2, <1>4, <1>5, <1>6 DEF TypeOK
<1>8. Committed(i) /\ Others(i)
  BY <1>1, <1>2, <1>3 DEF Committed, Others, SamePlan
<1> QED
  BY <1>7, <1>8 DEF Served

LEMMA ChangeType ==
    ASSUME TypeOK, Target, NEW i \in Requests, Change(i)
    PROVE  TypeOK' /\ Served(i) /\ Others(i)
<1>1. /\ Over(i, "done")
      /\ pc' \in [Requests -> Pc] /\ lock' \in [Students -> 0..MaxRequests]
      /\ made' \in [Requests -> SUBSET Months] /\ written' \in [Requests -> SUBSET Number]
      /\ \A j \in Requests \ {i} : pc'[j] = pc[j] /\ made'[j] = made[j] /\ written'[j] = written[j]
  BY EndType DEF Change, Pc
<1>2. /\ UNCHANGED <<today, entries, cash, paid, task, amount, overlapped, used, stamp, number, faults>>
      /\ At(i, "write")
  BY DEF Change, plan
<1>3. /\ period' \in [Months -> {"none", "open", "closed"}]
      /\ drawer' \in [Requests -> {"none", "open", "closed"}]
      /\ closings' \subseteq Things \X Requests
  BY DEF Change, TypeOK, Target, Things
<1>4. TypeOK'
  BY <1>1, <1>2, <1>3 DEF TypeOK
<1>5. Changed(i) /\ Others(i)
  BY <1>1, <1>2 DEF Change, Changed, Others, SamePlan
<1> QED
  BY <1>4, <1>5 DEF Served

LEMMA DeadlockType ==
    ASSUME TypeOK, NEW i \in Requests, Deadlock(i)
    PROVE  TypeOK' /\ Served(i) /\ Others(i)
<1>1. PICK S \in SUBSET Requests : i \in S /\ Stuck(S)
  BY DEF Deadlock, Circle
<1>2. WaitsFor(i) # {}
  BY <1>1 DEF Stuck
<1>3. At(i, "lock") \/ At(i, "create") \/ At(i, "insert")
  BY <1>2 DEF WaitsFor
<1>4. Active(i)
  BY <1>3 DEF At, Active, Ended
<1>5. Abort(i) /\ stamp' = stamp /\ number' = number /\ faults' = faults
  BY DEF Deadlock
<1> QED
  BY <1>4, <1>5, AbortType, FaultsType DEF Served

LEMMA FailType ==
    ASSUME TypeOK, NEW i \in Requests, Fail(i)
    PROVE  TypeOK' /\ Served(i) /\ Others(i)
<1>1. faults' \in 0..MaxFaults
  BY BoundsAssumption DEF Fail, TypeOK
<1>2. Active(i) /\ Abort(i) /\ stamp' = stamp /\ number' = number
  BY DEF Fail
<1> QED
  BY <1>1, <1>2, AbortType, FaultsType DEF Served

LEMMA ServeType ==
    ASSUME TypeOK, Target, Finite, NEW i \in Requests, Serve(i) \/ Fail(i)
    PROVE  TypeOK' /\ Served(i) /\ Others(i)
  BY LockType, EnsureType, CreateType, CountType, InsertType, CommitType, ChangeType, DeadlockType,
     FailType DEF Serve

-----------------------------------------------------------------------------
(* A request that has not arrived, or has ended, holds nothing.             *)
Idle ==
    /\ \A i \in Requests : i > used => pc[i] = "none"
    /\ \A i \in Requests : ~Active(i) => made[i] = {} /\ written[i] = {}
    /\ \A e \in entries : e.by <= used
    /\ \A c \in closings : c[2] <= used

Base == TypeOK /\ Target /\ Finite /\ Idle

(* The steps of the whole system, in the forms above.                       *)
Step == \E i \in Requests : (Arrived(i) \/ Served(i)) /\ Others(i)

Still == UNCHANGED <<period, entries, cash, paid, drawer, closings, pc, task, amount, stamp, number,
                     made, written, overlapped, used>>

LEMMA BaseInit == Init => Base
<1> SUFFICES ASSUME Init PROVE Base
  OBVIOUS
<1>1. TypeOK
  <2>1. NoTask \in Task
    BY DEF NoTask, Task, Kinds
  <2>2. 1 \in Days /\ 0 \in 0..MaxRequests /\ 0 \in 0..MaxFaults /\ "none" \in Pc /\ 1 \in Nat \ {0}
    BY BoundsAssumption DEF Days, Pc
  <2>3. /\ task \in [Requests -> Task] /\ pc \in [Requests -> Pc] /\ stamp \in [Requests -> Days]
        /\ number \in [Requests -> Nat \ {0}] /\ lock \in [Students -> 0..MaxRequests]
    BY <2>1, <2>2 DEF Init
  <2>4. /\ period \in [Months -> {"none", "open", "closed"}]
        /\ drawer \in [Requests -> {"none", "open", "closed"}]
        /\ amount \in [Requests -> Int]
    BY DEF Init
  <2>5. made \in [Requests -> SUBSET Months] /\ written \in [Requests -> SUBSET Number]
    BY DEF Init
  <2>6. /\ today \in Days /\ entries \subseteq Entry /\ cash \in Int /\ paid \in Nat
        /\ closings \subseteq Things \X Requests
        /\ used \in 0..MaxRequests /\ faults \in 0..MaxFaults
    BY <2>2, SMT DEF Init
  <2>7. overlapped \in BOOLEAN
    BY DEF Init
  <2> QED
    BY <2>3, <2>4, <2>5, <2>6, <2>7 DEF TypeOK
<1>2. Target
  BY DEF Init, Target, NoTask
<1>3. Finite
  BY FS_EmptySet DEF Init, Finite
<1>4. Idle
  BY DEF Init, Idle
<1> QED
  BY <1>1, <1>2, <1>3, <1>4 DEF Base

LEMMA UsedType == TypeOK => used \in Nat /\ \A i \in Requests : i \in Nat
  BY BoundsAssumption DEF TypeOK, Requests

LEMMA TargetStep ==
    ASSUME Base, NEW i \in Requests, Arrived(i) \/ Served(i), Others(i)
    PROVE  Target'
<1>1. CASE Arrived(i)
  <2>1. /\ task'[i].kind = "close" => task'[i].of \in Months
        /\ task'[i].kind = "shut" => task'[i].of \in Requests
    BY <1>1 DEF Arrived, Begun
  <2> QED
    BY <2>1 DEF Base, Target, Others
<1>2. CASE Served(i)
  <2>1. task'[i].kind = task[i].kind /\ (task[i].kind # "migration" => task'[i].of = task[i].of)
    BY <1>2 DEF Served, Locked, Ensured, Created, Counted, Inserted, Committed, Changed, Failed, SamePlan, SameTask
  <2> QED
    BY <2>1 DEF Base, Target, Others
<1> QED
  BY <1>1, <1>2

LEMMA FiniteStep ==
    ASSUME Base, NEW i \in Requests, Arrived(i) \/ Served(i), Others(i)
    PROVE  Finite'
<1>1. IsFiniteSet(written[i])
  BY DEF Base, Finite
<1>2. IsFiniteSet(written'[i])
  <2>1. IsFiniteSet({}) /\ IsFiniteSet(written[i] \cup {Key(i)})
    BY <1>1, FS_EmptySet, FS_AddElement
  <2>2. written'[i] \in {written[i], {}, written[i] \cup {Key(i)}}
    BY DEF Arrived, Begun, Served, Locked, Ensured, Created, Counted, Inserted, Committed,
           Changed, Failed, SameTransaction, Over
  <2> QED
    BY <1>1, <2>1, <2>2
<1>3. IsFiniteSet(entries')
  <2>1. CASE Committed(i)
    <3>1. IsFiniteSet({[key |-> w, by |-> i] : w \in written[i]})
      <4> DEFINE f == [w \in written[i] |-> [key |-> w, by |-> i]]
                 T == {[key |-> w, by |-> i] : w \in written[i]}
      <4>1. f \in Surjection(written[i], T)
        BY DEF Surjection
      <4> QED
        BY <1>1, <4>1, FS_Surjection DEF ExistsSurjection
    <3> QED
      BY <2>1, <3>1, FS_Union DEF Committed, Base, Finite
  <2>2. CASE ~Committed(i)
    <3>1. entries' = entries
      BY <2>2 DEF Arrived, Begun, Served, Locked, Ensured, Created, Counted, Inserted, Changed, Failed, SameBooks
    <3> QED
      BY <3>1 DEF Base, Finite
  <2> QED
    BY <2>1, <2>2
<1> QED
  BY <1>2, <1>3 DEF Base, Finite, Others

LEMMA IdleStep ==
    ASSUME Base, NEW i \in Requests, Arrived(i) \/ Served(i), Others(i)
    PROVE  Idle'
<1>0. used \in Nat /\ \A j \in Requests : j \in Nat
  BY UsedType DEF Base
<1>1. CASE Arrived(i)
  <2>1. /\ i = used + 1 /\ used' = i /\ pc'[i] \notin Ended
        /\ entries' = entries /\ closings' = closings
    BY <1>1 DEF Arrived, Begun, Ended
  <2>2. \A e \in entries : e.by \in Nat
    BY <1>0 DEF Base, TypeOK, Entry
  <2>3. \A c \in closings : c[2] \in Nat
    BY <1>0 DEF Base, TypeOK
  <2>4. \A j \in Requests : j > used' => pc'[j] = "none"
    BY <1>0, <2>1 DEF Base, Idle, Others
  <2>5. \A j \in Requests : ~Active(j)' => made'[j] = {} /\ written'[j] = {}
    BY <2>1 DEF Base, Idle, Others, Active
  <2>6. (\A e \in entries' : e.by <= used') /\ (\A c \in closings' : c[2] <= used')
    BY <1>0, <2>1, <2>2, <2>3 DEF Base, Idle
  <2> QED
    BY <2>4, <2>5, <2>6 DEF Idle
<1>2. CASE Served(i)
  <2>1. used' = used /\ Active(i)
    BY <1>2 DEF Served, Locked, Ensured, Created, Counted, Inserted, Committed, Changed, Failed,
                SameBooks, At, Active, Ended
  <2>2. i <= used
    BY <1>0, <2>1 DEF Base, Idle, Active, Ended
  <2>3. pc'[i] \in Ended => made'[i] = {} /\ written'[i] = {}
    BY <1>2 DEF Served, Locked, Ensured, Created, Counted, Inserted, Committed, Changed, Failed, Over, Ended
  <2>4. \A j \in Requests : j > used' => pc'[j] = "none"
    BY <1>0, <2>1, <2>2 DEF Base, Idle, Others
  <2>5. \A j \in Requests : ~Active(j)' => made'[j] = {} /\ written'[j] = {}
    BY <2>3 DEF Base, Idle, Others, Active
  <2>6. \A e \in entries' : e.by <= used'
    <3>1. \A e \in entries' : e \in entries \/ e.by = i
      BY <1>2 DEF Served, Locked, Ensured, Created, Counted, Inserted, Committed, Changed, Failed, SameBooks
    <3> QED
      BY <2>1, <2>2, <3>1 DEF Base, Idle
  <2>7. \A c \in closings' : c[2] <= used'
    <3>1. \A c \in closings' : c \in closings \/ c[2] = i
      BY <1>2 DEF Served, Locked, Ensured, Created, Counted, Inserted, Committed, Changed, Failed, SameBooks
    <3> QED
      BY <2>1, <2>2, <3>1 DEF Base, Idle
  <2> QED
    BY <2>4, <2>5, <2>6, <2>7 DEF Idle
<1> QED
  BY <1>1, <1>2

LEMMA NextForms ==
    ASSUME Base, [Next]_vars
    PROVE  TypeOK' /\ (Step \/ Still)
<1>1. CASE UNCHANGED vars
  BY <1>1 DEF vars, Still, Base, TypeOK
<1>2. CASE NextDay
  <2>1. Still /\ lock' = lock /\ faults' = faults
    BY <1>2 DEF NextDay, Still, books, drawers, plan, transaction
  <2>2. today' \in Days
    BY <1>2, BoundsAssumption DEF NextDay, Base, TypeOK, Days
  <2>3. TypeOK'
    BY <2>1, <2>2 DEF Still, Base, TypeOK
  <2> QED
    BY <2>1, <2>3
<1>3. ASSUME NEW i \in Requests, Arrive(i) \/ Serve(i) \/ Fail(i)
      PROVE  TypeOK' /\ (Step \/ Still)
  BY <1>3, ArriveType, ServeType DEF Base, Step
<1> QED
  BY <1>1, <1>2, <1>3 DEF Next

LEMMA BaseStep == ASSUME Base, [Next]_vars PROVE Base'
<1>1. TypeOK' /\ (Step \/ Still)
  BY NextForms
<1>2. CASE Step
  BY <1>1, <1>2, TargetStep, FiniteStep, IdleStep DEF Step, Base
<1>3. CASE Still
  BY <1>1, <1>3 DEF Still, Base, Target, Finite, Idle, Active
<1> QED
  BY <1>1, <1>2, <1>3

(* Every variable keeps its type: the entry numbers are positive, the cash   *)
(* an integer, and only what exists is closed.                               *)
THEOREM TypeCorrect == Spec => []TypeOK
<1>1. Init => Base
  BY BaseInit
<1>2. Base /\ [Next]_vars => Base'
  BY BaseStep
<1>3. Base => TypeOK
  BY DEF Base
<1> QED
  BY <1>1, <1>2, <1>3, PTL DEF Spec

-----------------------------------------------------------------------------
(* A period that a transaction has inserted is not there for the others, no  *)
(* two have inserted the same, and what a request posts to is there for it.  *)
PeriodOf(i) ==
    /\ \A m \in made[i] : period[m] = "none"
    /\ pc[i] \in {"count", "insert"} => Sees(i, Month[stamp[i]])
    /\ \A w \in written[i] : Sees(i, Month[w[1]])
    /\ At(i, "write") /\ task[i].kind = "close" => period[task[i].of] # "none"

Periods ==
    /\ \A i \in Requests : PeriodOf(i)
    /\ \A i, j \in Requests : i # j => \A m \in made[i] : m \notin made[j]
    /\ EntryHasPeriod

\* The periods that are there stay.
Stays == \A m \in Months : period[m] # "none" => period'[m] # "none"

LEMMA MonthType ==
    ASSUME TypeOK
    PROVE  /\ \A i \in Requests : Month[stamp[i]] \in Months /\ \A w \in written[i] : Month[w[1]] \in Months
           /\ \A e \in entries : Month[e.key[1]] \in Months
           /\ Month[today] \in Months
<1>1. \A w \in Number : w[1] \in Days
  BY DEF Number
<1>2. \A e \in entries : e.key \in Number
  BY DEF TypeOK, Entry
<1> QED
  BY <1>1, <1>2, MonthAssumption DEF TypeOK

LEMMA OfOthers ==
    ASSUME TypeOK, Target, Stays, NEW i \in Requests, NEW j \in Requests \ {i}, Others(i), PeriodOf(j),
           \A m \in made[j] : period'[m] = period[m]
    PROVE  PeriodOf(j)'
  BY MonthType DEF Others, PeriodOf, Stays, Sees, Target, At

LEMMA PeriodsStep ==
    ASSUME Base, Periods, NEW i \in Requests, Arrived(i) \/ Served(i), Others(i)
    PROVE  Periods'
<1> USE DEF Base
<1>1. CASE Arrived(i)
  <2>1. /\ period' = period /\ entries' = entries /\ made' = made /\ written' = written
        /\ pc'[i] \notin {"count", "insert"}
        /\ pc'[i] = "write" /\ task'[i].kind = "close" => period[task'[i].of] # "none"
    BY <1>1 DEF Arrived, Begun
  <2>2. PeriodOf(i)'
    BY <2>1 DEF PeriodOf, Periods, Sees, At
  <2>3. \A j \in Requests \ {i} : PeriodOf(j)'
    BY <2>1, OfOthers DEF Periods, Stays
  <2> QED
    BY <2>1, <2>2, <2>3 DEF Periods, EntryHasPeriod
<1>2. CASE Locked(i) \/ Ensured(i) \/ Counted(i)
  <2>1. /\ period' = period /\ entries' = entries
        /\ \A j \in Requests : made'[j] = made[j]
        /\ written'[i] = written[i]
        /\ pc'[i] \in {"count", "insert"} => Sees(i, Month[stamp'[i]])
        /\ pc'[i] # "write"
    BY <1>2 DEF Locked, Ensured, Counted, SameTransaction, SameBooks, SamePlan, Others, At, Periods, PeriodOf
  <2>2. PeriodOf(i)'
    BY <2>1 DEF PeriodOf, Periods, Sees, At
  <2>3. \A j \in Requests \ {i} : PeriodOf(j)'
    BY <2>1, OfOthers DEF Periods, Stays
  <2> QED
    BY <2>1, <2>2, <2>3 DEF Periods, EntryHasPeriod
<1>3. CASE Created(i)
  <2>1. /\ period' = period /\ entries' = entries
        /\ written'[i] = written[i] /\ stamp'[i] = stamp[i]
        /\ pc'[i] # "write" /\ pc'[i] # "insert"
        /\ made'[i] = made[i] \cup {Month[stamp[i]]} /\ period[Month[stamp[i]]] = "none"
        /\ \A j \in Requests : Month[stamp[i]] \notin made[j]
    BY <1>3 DEF Created, SameBooks, SamePlan
  <2>2. PeriodOf(i)'
    BY <2>1 DEF PeriodOf, Periods, Sees, At
  <2>3. \A j \in Requests \ {i} : PeriodOf(j)' /\ made'[j] = made[j]
    BY <2>1, OfOthers DEF Periods, Stays, Others
  <2>4. \A j, k \in Requests : j # k => \A m \in made'[j] : m \notin made'[k]
    BY <2>1, <2>3 DEF Periods
  <2> QED
    BY <2>1, <2>2, <2>3, <2>4 DEF Periods, EntryHasPeriod
<1>4. CASE Inserted(i)
  <2>1. /\ period' = period /\ entries' = entries
        /\ \A j \in Requests : made'[j] = made[j]
        /\ written'[i] = written[i] \cup {Key(i)} /\ pc[i] = "insert"
        /\ pc'[i] \notin {"write", "count", "insert"}
    BY <1>4 DEF Inserted, SameBooks, Others, At
  <2>2. Sees(i, Month[Key(i)[1]])
    BY <2>1 DEF Periods, PeriodOf, Key
  <2>3. PeriodOf(i)'
    BY <2>1, <2>2 DEF PeriodOf, Periods, Sees, At
  <2>4. \A j \in Requests \ {i} : PeriodOf(j)'
    BY <2>1, OfOthers DEF Periods, Stays
  <2> QED
    BY <2>1, <2>3, <2>4 DEF Periods, EntryHasPeriod
<1>5. CASE Committed(i)
  <2>1. /\ Over(i, "done")
        /\ \A m \in Months : period'[m] = IF m \in made[i] THEN "open" ELSE period[m]
        /\ entries' = entries \cup {[key |-> w, by |-> i] : w \in written[i]}
    BY <1>5 DEF Committed
  <2>2. PeriodOf(i)'
    BY <2>1 DEF PeriodOf, Over, At
  <2>3. Stays
    BY <2>1 DEF Stays
  <2>4. \A j \in Requests \ {i} : \A m \in made[j] : period'[m] = period[m]
    BY <2>1 DEF Periods, TypeOK
  <2>5. \A j \in Requests \ {i} : PeriodOf(j)' /\ made'[j] = made[j]
    BY <2>3, <2>4, OfOthers DEF Periods, Others
  <2>6. \A w \in written[i] : period'[Month[w[1]]] # "none"
    BY <2>1, MonthType DEF Periods, PeriodOf, Sees
  <2>7. EntryHasPeriod'
    BY <2>1, <2>3, <2>6, MonthType DEF EntryHasPeriod, Periods, Stays
  <2> QED
    BY <2>1, <2>2, <2>5, <2>7 DEF Periods, Over
<1>6. CASE Changed(i)
  <2>1. Over(i, "done") /\ entries' = entries /\ At(i, "write")
    BY <1>6 DEF Changed
  <2>2. PeriodOf(i)'
    BY <2>1 DEF PeriodOf, Over, At
  <2>3. Stays /\ \A m \in Months : period[m] = "none" => period'[m] = period[m]
    BY <1>6, <2>1 DEF Changed, Stays, Periods, PeriodOf, TypeOK
  <2>4. \A j \in Requests \ {i} : \A m \in made[j] : period'[m] = period[m]
    BY <2>3 DEF Periods, PeriodOf, TypeOK
  <2>5. \A j \in Requests \ {i} : PeriodOf(j)' /\ made'[j] = made[j]
    BY <2>3, <2>4, OfOthers DEF Periods, Others
  <2>6. EntryHasPeriod'
    BY <2>1, <2>3, MonthType DEF EntryHasPeriod, Periods, Stays
  <2> QED
    BY <2>1, <2>2, <2>5, <2>6 DEF Periods, Over
<1>7. CASE Failed(i)
  <2>1. Over(i, "failed") /\ entries' = entries /\ period' = period
    BY <1>7 DEF Failed, SameBooks
  <2>2. PeriodOf(i)'
    BY <2>1 DEF PeriodOf, Over, At
  <2>3. \A j \in Requests \ {i} : PeriodOf(j)' /\ made'[j] = made[j]
    BY <2>1, OfOthers DEF Periods, Others, Stays
  <2> QED
    BY <2>1, <2>2, <2>3 DEF Periods, Over, EntryHasPeriod
<1> QED
  BY <1>1, <1>2, <1>3, <1>4, <1>5, <1>6, <1>7 DEF Served

LEMMA PeriodsNext == ASSUME Base, Periods, [Next]_vars PROVE Periods'
<1>1. CASE Step
  BY <1>1, PeriodsStep DEF Step
<1>2. CASE Still
  BY <1>2 DEF Still, Periods, PeriodOf, Sees, At, EntryHasPeriod
<1> QED
  BY <1>1, <1>2, NextForms

LEMMA PeriodsInit == Init => Periods
  BY DEF Init, Periods, PeriodOf, At, EntryHasPeriod

(* An entry belongs to a period that exists, for any number of requests that *)
(* insert it in parallel, roll back or are aborted.                          *)
THEOREM PeriodTheorem == Spec => []EntryHasPeriod
<1>1. Init => Base /\ Periods
  BY BaseInit, PeriodsInit
<1>2. Base /\ Periods /\ [Next]_vars => (Base /\ Periods)'
  BY BaseStep, PeriodsNext
<1>3. Periods => EntryHasPeriod
  BY DEF Periods
<1> QED
  BY <1>1, <1>2, <1>3, PTL DEF Spec

-----------------------------------------------------------------------------
(* What was closed when a request began still is, and what the request is    *)
(* about to post to, or to close, was not.                                   *)
LateOf(i) ==
    /\ task[i].closed \subseteq Closed
    /\ pc[i] \in {"count", "insert"} => <<"month", Month[stamp[i]]>> \notin task[i].closed
    /\ \A w \in written[i] : <<"month", Month[w[1]]>> \notin task[i].closed
    /\ At(i, "write") /\ task[i].kind = "close" => <<"month", task[i].of>> \notin task[i].closed
    /\ At(i, "write") /\ task[i].kind = "shut" =>
          <<"drawer", task[i].of>> \notin task[i].closed /\ drawer[task[i].of] # "none"
    /\ drawer[i] # "none" => pc[i] = "done"

Lates == (\A i \in Requests : LateOf(i)) /\ LateOnlyUnderWay

LEMMA ClosedIs ==
    /\ \A m : <<"month", m>> \in Closed <=> m \in Months /\ period[m] = "closed"
    /\ \A d : <<"drawer", d>> \in Closed <=> d \in Requests /\ drawer[d] = "closed"
  BY DEF Closed

\* What is closed stays closed, and the drawers that are there stay.
Grows == Closed \subseteq Closed' /\ \A d \in Requests : drawer[d] # "none" => drawer'[d] # "none"

LEMMA LateOthers ==
    ASSUME Target, Grows, NEW i \in Requests, NEW j \in Requests \ {i}, Others(i), LateOf(j),
           drawer'[j] # "none" => drawer[j] # "none"
    PROVE  LateOf(j)'
  BY DEF Others, LateOf, Grows, Target, At

LEMMA LatesStep ==
    ASSUME Base, Periods, Lates, NEW i \in Requests, Arrived(i) \/ Served(i), Others(i)
    PROVE  Lates'
<1> USE DEF Base
<1>1. CASE Arrived(i)
  <2>1. /\ period' = period /\ drawer' = drawer /\ entries' = entries /\ closings' = closings
        /\ written'[i] = written[i] /\ task'[i].closed = Closed /\ i = used + 1
        /\ pc'[i] \notin {"count", "insert", "done"}
        /\ pc'[i] = "write" /\ task'[i].kind = "close" => period[task'[i].of] = "open"
        /\ pc'[i] = "write" /\ task'[i].kind = "shut" => drawer[task'[i].of] = "open"
    BY <1>1 DEF Arrived, Begun
  <2>2. Closed' = Closed
    BY <2>1 DEF Closed
  <2>3. used \in Nat /\ ~Active(i) /\ pc[i] = "none"
    BY <2>1, UsedType DEF Idle, Active, Ended
  <2>4. written'[i] = {} /\ drawer'[i] = "none"
    BY <2>1, <2>3 DEF Idle, Lates, LateOf
  <2>5. LateOf(i)'
    BY <2>1, <2>2, <2>4, ClosedIs DEF LateOf, At
  <2>6. \A j \in Requests \ {i} : LateOf(j)'
    BY <2>1, <2>2, LateOthers DEF Lates, Grows
  <2>7. LateOnlyUnderWay'
    <3>1. (\A e \in entries : e.by \in Requests \ {i}) /\ (\A c \in closings : c[2] \in Requests \ {i})
      BY <2>1, <2>3, UsedType DEF Idle, TypeOK, Entry
    <3> QED
      BY <2>1, <3>1 DEF LateOnlyUnderWay, Lates, Others
  <2> QED
    BY <2>5, <2>6, <2>7 DEF Lates
<1>2. CASE Served(i) /\ SameBooks /\ SameTask(i)
  <2>1. /\ period' = period /\ drawer' = drawer /\ entries' = entries /\ closings' = closings
        /\ task'[i].closed = task[i].closed /\ pc[i] # "done" /\ pc'[i] # "write"
    BY <1>2 DEF Served, Locked, Ensured, Created, Counted, Inserted, Committed, Changed, Failed,
                SameBooks, SameTask, At, Active, Ended, Over
  <2>2. Closed' = Closed
    BY <2>1 DEF Closed
  <2>3. pc'[i] \in {"count", "insert"} => <<"month", Month[stamp'[i]]>> \notin task[i].closed
    <3>1. CASE Ensured(i)
      BY <3>1, ClosedIs DEF Ensured, Refused, Lates, LateOf
    <3>2. CASE Created(i)
      BY <3>2, ClosedIs DEF Created, SamePlan, Lates, LateOf
    <3>3. CASE Counted(i)
      BY <3>3 DEF Counted, Lates, LateOf, At
    <3> QED
      BY <1>2, <3>1, <3>2, <3>3 DEF Served, Locked, Inserted, Committed, Changed, Failed, Over
  <2>4. \A w \in written'[i] : <<"month", Month[w[1]]>> \notin task[i].closed
    <3>1. CASE Inserted(i)
      <4>1. <<"month", Month[stamp[i]]>> \notin task[i].closed
        BY <3>1 DEF Inserted, Lates, LateOf, At
      <4>2. Key(i)[1] = stamp[i]
        BY DEF Key
      <4>3. \A w \in written[i] : <<"month", Month[w[1]]>> \notin task[i].closed
        BY DEF Lates, LateOf
      <4> QED
        BY <3>1, <4>1, <4>2, <4>3 DEF Inserted
    <3>2. CASE ~Inserted(i)
      <4>1. written'[i] \in {{}, written[i]}
        BY <1>2, <3>2 DEF Served, Locked, Ensured, Created, Counted, Committed, Changed, Failed,
                          SameTransaction, Over
      <4> QED
        BY <4>1 DEF Lates, LateOf
    <3> QED
      BY <3>1, <3>2
  <2>5. LateOf(i)'
    BY <2>1, <2>2, <2>3, <2>4 DEF LateOf, Lates, At
  <2>6. \A j \in Requests \ {i} : LateOf(j)'
    BY <2>1, <2>2, LateOthers DEF Lates, Grows
  <2>7. LateOnlyUnderWay'
    BY <2>1 DEF LateOnlyUnderWay, Lates, Others, TypeOK, Entry
  <2> QED
    BY <2>5, <2>6, <2>7 DEF Lates
<1>3. CASE Committed(i)
  <2>1. /\ Over(i, "done") /\ task'[i] = task[i] /\ drawer' = drawer /\ closings' = closings /\ At(i, "commit")
        /\ \A m \in Months : period'[m] = IF m \in made[i] THEN "open" ELSE period[m]
        /\ entries' = entries \cup {[key |-> w, by |-> i] : w \in written[i]}
    BY <1>3 DEF Committed, SamePlan
  <2>2. \A m \in Months : period[m] = "closed" => period'[m] = "closed"
    BY <2>1 DEF Periods, PeriodOf
  <2>3. Grows
    BY <2>1, <2>2 DEF Grows, Closed
  <2>4. LateOf(i)'
    BY <2>1, <2>3 DEF LateOf, Lates, Over, At, Grows
  <2>5. \A j \in Requests \ {i} : LateOf(j)'
    BY <2>1, <2>3, LateOthers DEF Lates
  <2>6. \A j \in Requests : task'[j] = task[j]
    BY <2>1 DEF Others
  <2>7. \A e \in entries' : <<"month", Month[e.key[1]]>> \notin task'[e.by].closed
    <3>1. \A e \in entries : e.by \in Requests
      BY DEF TypeOK, Entry
    <3>2. \A w \in written[i] : <<"month", Month[w[1]]>> \notin task[i].closed
      BY DEF Lates, LateOf
    <3> QED
      BY <2>1, <2>6, <3>1, <3>2 DEF Lates, LateOnlyUnderWay
  <2>8. \A c \in closings' : c[1] \notin task'[c[2]].closed
    BY <2>1, <2>6 DEF TypeOK, Lates, LateOnlyUnderWay
  <2> QED
    BY <2>4, <2>5, <2>7, <2>8 DEF Lates, LateOnlyUnderWay
<1>4. CASE Changed(i)
  <2>1. /\ Over(i, "done") /\ task'[i] = task[i] /\ entries' = entries /\ At(i, "write")
    BY <1>4 DEF Changed, SamePlan
  <2>2. drawer[i] = "none"
    BY <2>1 DEF Lates, LateOf, At
  <2>3. /\ \A m \in Months : period[m] = "closed" => period'[m] = "closed"
        /\ \A d \in Requests : drawer[d] = "closed" => drawer'[d] = "closed"
        /\ \A d \in Requests : drawer[d] # "none" => drawer'[d] # "none"
    BY <1>4, <2>1, <2>2 DEF Changed, Lates, LateOf, TypeOK
  <2>4. Grows
    BY <2>3 DEF Grows, Closed
  <2>5. \A j \in Requests \ {i} : drawer'[j] # "none" => drawer[j] # "none"
    BY <1>4, <2>1 DEF Changed, Lates, LateOf, TypeOK
  <2>6. LateOf(i)'
    BY <2>1, <2>4 DEF LateOf, Lates, Over, At, Grows
  <2>7. \A j \in Requests \ {i} : LateOf(j)'
    BY <2>4, <2>5, LateOthers DEF Lates
  <2>8. \A j \in Requests : task'[j] = task[j]
    BY <2>1 DEF Others
  <2>9. \A e \in entries' : <<"month", Month[e.key[1]]>> \notin task'[e.by].closed
    BY <2>1, <2>8 DEF TypeOK, Entry, Lates, LateOnlyUnderWay
  <2>10. \A c \in closings' : c \in closings \/ (c[2] = i /\ c[1] \notin task[i].closed)
    <3>1. /\ task[i].kind = "close" => <<"month", task[i].of>> \notin task[i].closed
          /\ task[i].kind = "shut" => <<"drawer", task[i].of>> \notin task[i].closed
      BY <2>1 DEF Lates, LateOf
    <3>2. \/ closings' = closings
          \/ task[i].kind = "close" /\ closings' = closings \cup {<<<<"month", task[i].of>>, i>>}
          \/ task[i].kind = "shut" /\ closings' = closings \cup {<<<<"drawer", task[i].of>>, i>>}
      BY <1>4 DEF Changed
    <3> QED
      BY <3>1, <3>2
  <2>11. \A c \in closings' : c[1] \notin task'[c[2]].closed
    BY <2>8, <2>10 DEF TypeOK, Lates, LateOnlyUnderWay
  <2> QED
    BY <2>6, <2>7, <2>9, <2>11 DEF Lates, LateOnlyUnderWay
<1>5. Served(i) => Committed(i) \/ Changed(i) \/ (SameBooks /\ SameTask(i))
  BY DEF Served, Locked, Ensured, Created, Counted, Inserted, Failed, SamePlan, SameTask
<1> QED
  BY <1>1, <1>2, <1>3, <1>4, <1>5

LEMMA LatesNext == ASSUME Base, Periods, Lates, [Next]_vars PROVE Lates'
<1>1. CASE Step
  BY <1>1, LatesStep DEF Step
<1>2. CASE Still
  <2>1. Closed' = Closed
    BY <1>2 DEF Still, Closed
  <2> QED
    BY <1>2, <2>1 DEF Still, Lates, LateOf, At, LateOnlyUnderWay
<1> QED
  BY <1>1, <1>2, NextForms

LEMMA LatesInit == Init => Lates
  BY DEF Init, Lates, LateOf, At, LateOnlyUnderWay, NoTask

(* An entry is posted to a closed period, and a period or a drawer is closed *)
(* a second time, only by a request that began before it was closed.         *)
THEOREM LateTheorem == Spec => []LateOnlyUnderWay
<1>1. Init => Base /\ Periods /\ Lates
  BY BaseInit, PeriodsInit, LatesInit
<1>2. Base /\ Periods /\ Lates /\ [Next]_vars => (Base /\ Periods /\ Lates)'
  BY BaseStep, PeriodsNext, LatesNext
<1>3. Lates => LateOnlyUnderWay
  BY DEF Lates
<1> QED
  BY <1>1, <1>2, <1>3, PTL DEF Spec

-----------------------------------------------------------------------------
(* Only withdrawals and audits take cash, and unless two audits have         *)
(* overlapped, the one under way finds what it takes.                        *)
Auditing(i) == task[i].kind = "audit" /\ Active(i)

AmountOf(i) ==
    /\ task[i].kind \notin {"payment", "audit"} => amount[i] >= 0
    /\ task[i].kind = "payment" => amount[i] = -1

Audits ==
    /\ \A i \in Requests : AmountOf(i)
    /\ AuditsTakeOnce
    /\ ~overlapped => \A i \in Requests : Auditing(i) => cash + paid + amount[i] >= 0
    /\ ~overlapped => \A i, j \in Requests : Auditing(i) /\ Auditing(j) => i = j

LEMMA MoreIsEnough ==
    ASSUME NEW a \in Int, NEW b \in Int, NEW c \in Int, NEW d \in Int, c + d >= a + b, a + b >= 0
    PROVE  c + d >= 0
  OBVIOUS

LEMMA MoreIsEnoughForOne ==
    ASSUME NEW a \in Int, NEW b \in Int, NEW c \in Int, NEW d \in Int, NEW e \in Int,
           c + d >= a + b, a + b + e >= 0
    PROVE  c + d + e >= 0
  OBVIOUS

LEMMA AuditsStep ==
    ASSUME Base, TypeOK', Audits, NEW i \in Requests, Arrived(i) \/ Served(i), Others(i)
    PROVE  Audits'
<1>0. cash \in Int /\ paid \in Nat /\ paid \in Int /\ \A j \in Requests : amount[j] \in Int
  BY DEF Base, TypeOK
<1>1. \A j \in Requests \ {i} : AmountOf(j)' /\ amount'[j] = amount[j] /\ (Auditing(j)' <=> Auditing(j))
  BY DEF Audits, AmountOf, Auditing, Active, Others
<1>2. CASE Arrived(i)
  <2>1. cash' = cash /\ paid' = paid
    BY <1>2 DEF Arrived, Begun
  <2>2. AmountOf(i)'
    BY <1>2 DEF Arrived, Begun, AmountOf
  <2>3. ~overlapped' => ~overlapped
    BY <1>2, Zenon DEF Arrived
  <2>4. ASSUME ~overlapped', Auditing(i)'
        PROVE  cash' + paid' + amount'[i] >= 0 /\ \A j \in Requests \ {i} : ~Auditing(j)
    <3>1. /\ \/ cash > 0 /\ Begun(i, "audit", 0, -cash, "post")
             \/ Begun(i, "audit", 0, 0, "commit")
          /\ overlapped' = (overlapped \/ \E j \in Requests : task[j].kind = "audit" /\ Active(j))
      BY <1>2, <2>4 DEF Arrived, Auditing, Begun
    <3>2. amount'[i] = -cash \/ amount'[i] = 0
      BY <3>1 DEF Begun
    <3>3. \A j \in Requests : ~Auditing(j)
      BY <2>4, <3>1, Zenon DEF Auditing
    <3>4. cash + paid >= 0
      BY <2>3, <2>4 DEF Audits, AuditsTakeOnce
    <3> QED
      BY <1>0, <2>1, <3>2, <3>3, <3>4
  <2> QED
    BY <1>1, <2>1, <2>2, <2>3, <2>4 DEF Audits, AuditsTakeOnce
<1>3. CASE Served(i)
  <2>1. /\ task'[i].kind = task[i].kind /\ amount'[i] = amount[i] /\ overlapped' = overlapped
        /\ Active(i)
    BY <1>3 DEF Served, Locked, Ensured, Created, Counted, Inserted, Committed, Changed, Failed,
                SamePlan, SameTask, SameBooks, At, Active, Ended
  <2>2. AmountOf(i)' /\ (Auditing(i)' => Auditing(i))
    BY <2>1 DEF Audits, AmountOf, Auditing
  <2>3. CASE Committed(i)
    <3>1. /\ cash' = cash + amount[i] /\ paid' = IF task[i].kind = "payment" THEN paid + 1 ELSE paid
          /\ pc'[i] = "done"
      BY <2>3 DEF Committed, Over
    <3>2. ~Auditing(i)'
      BY <3>1 DEF Auditing, Active, Ended
    <3>3. CASE task[i].kind = "audit"
      <4>1. ~overlapped => cash + paid + amount[i] >= 0 /\ \A j \in Requests \ {i} : ~Auditing(j)
        BY <2>1, <3>3 DEF Audits, Auditing
      <4> QED
        BY <1>0, <1>1, <2>1, <2>2, <3>1, <3>2, <3>3, <4>1 DEF Audits, AuditsTakeOnce
    <3>4. CASE task[i].kind # "audit"
      <4>1. cash' + paid' >= cash + paid /\ cash' \in Int /\ paid' \in Int
        BY <1>0, <3>1, <3>4 DEF Audits, AmountOf
      <4>2. ASSUME ~overlapped PROVE cash' + paid' >= 0
        <5>1. cash + paid >= 0
          BY <4>2 DEF Audits, AuditsTakeOnce
        <5> QED
          BY <1>0, <4>1, <5>1, MoreIsEnough, Zenon
      <4>3. ASSUME ~overlapped, NEW j \in Requests \ {i}, Auditing(j)
            PROVE  cash' + paid' + amount[j] >= 0
        <5>1. cash + paid + amount[j] >= 0
          BY <4>3 DEF Audits
        <5>2. amount[j] \in Int
          BY <1>0
        <5> QED
          BY <1>0, <4>1, <5>1, <5>2, MoreIsEnoughForOne, Zenon
      <4> QED
        BY <1>1, <2>1, <2>2, <3>2, <4>2, <4>3 DEF Audits, AuditsTakeOnce
    <3> QED
      BY <3>3, <3>4
  <2>4. CASE ~Committed(i)
    <3>1. cash' = cash /\ paid' = paid
      BY <1>3, <2>4 DEF Served, Locked, Ensured, Created, Counted, Inserted, Changed, Failed, SameBooks
    <3> QED
      BY <1>1, <2>1, <2>2, <3>1 DEF Audits, AuditsTakeOnce
  <2> QED
    BY <2>3, <2>4
<1> QED
  BY <1>2, <1>3

LEMMA AuditsNext == ASSUME Base, Audits, [Next]_vars PROVE Audits'
<1>1. CASE Step
  BY <1>1, AuditsStep, NextForms DEF Step
<1>2. CASE Still
  BY <1>2 DEF Still, Audits, AmountOf, Auditing, Active, AuditsTakeOnce
<1> QED
  BY <1>1, <1>2, NextForms

LEMMA AuditsInit == Init => Audits
<1> SUFFICES ASSUME Init PROVE Audits
  OBVIOUS
<1>1. /\ cash = 0 /\ paid = 0
      /\ \A i \in Requests : amount[i] = 0 /\ task[i].kind = "none" /\ pc[i] = "none"
  BY DEF Init, NoTask
<1>2. \A i \in Requests : AmountOf(i) /\ ~Auditing(i)
  BY <1>1 DEF AmountOf, Auditing
<1> QED
  BY <1>1, <1>2 DEF Audits, AuditsTakeOnce

(* The audits take out of the drawer what was taken in before, for any       *)
(* number of sales and withdrawals beside them, unless two overlap.          *)
THEOREM AuditsTheorem == Spec => []AuditsTakeOnce
<1>1. Init => Base /\ Audits
  BY BaseInit, AuditsInit
<1>2. Base /\ Audits /\ [Next]_vars => (Base /\ Audits)'
  BY BaseStep, AuditsNext
<1>3. Audits => AuditsTakeOnce
  BY DEF Audits
<1> QED
  BY <1>1, <1>2, <1>3, PTL DEF Spec

-----------------------------------------------------------------------------
(* The entries of day d are numbered 1..k, and those that request i has      *)
(* inserted and not committed k+1..k+p.  The number it has counted may have   *)
(* been taken since, but never leaves a gap.                                 *)
Upto(d, k) == \A n \in Nat \ {0} : Taken(<<d, n>>) <=> n <= k

OwnUpto(i, d, k, p) ==
    /\ \A n \in Nat \ {0} : <<d, n>> \in written[i] <=> k < n /\ n <= k + p
    /\ At(i, "insert") /\ stamp[i] = d => number[i] <= k + p + 1 /\ (p > 0 => number[i] = k + p + 1)

Row(d, k) == Upto(d, k) /\ \A i \in Requests : \E p \in Nat : OwnUpto(i, d, k, p)

NumbersApart ==
    /\ \A i, j \in Requests : i # j => \A w \in written[i] : w \notin written[j]
    /\ \A e, f \in entries : e.key = f.key => e = f

Rows == NumbersApart /\ \A d \in Days : \E k \in Nat : Row(d, k)

LEMMA NumberIs ==
    ASSUME NEW w \in Number
    PROVE  w[1] \in Days /\ w[2] \in Nat \ {0} /\ w = <<w[1], w[2]>>
  BY DEF Number

LEMMA InjectionIs ==
    ASSUME NEW S, NEW T, NEW f \in [S -> T], \A a, b \in S : f[a] = f[b] => a = b
    PROVE  f \in Injection(S, T)
  BY DEF Injection, IsInjective

LEMMA PostedCount ==
    ASSUME TypeOK, NumbersApart, NEW d \in Days, NEW k \in Nat, Upto(d, k)
    PROVE  /\ IsFiniteSet(Posted(d)) => Cardinality(Posted(d)) = k
           /\ Numbers(d) = 1..k
<1> DEFINE f == [e \in Posted(d) |-> e.key[2]]
<1>1. ASSUME NEW e \in Posted(d) PROVE e.key = <<d, e.key[2]>> /\ e.key[2] \in 1..k
  <2>1. e \in entries /\ e.key[1] = d /\ e.key \in Number
    BY DEF Posted, TypeOK, Entry
  <2>2. e.key = <<d, e.key[2]>> /\ e.key[2] \in Nat \ {0}
    BY <2>1, NumberIs
  <2>3. Taken(<<d, e.key[2]>>)
    BY <2>1, <2>2 DEF Taken
  <2> QED
    BY <2>2, <2>3 DEF Upto
<1>2. ASSUME NEW n \in 1..k PROVE \E e \in Posted(d) : e.key = <<d, n>>
  <2>1. n \in Nat \ {0} /\ n <= k
    OBVIOUS
  <2>2. PICK e \in entries : e.key = <<d, n>>
    BY <2>1 DEF Upto, Taken
  <2> QED
    BY <2>2 DEF Posted
<1>3. f \in Injection(Posted(d), 1..k)
  <2>1. f \in [Posted(d) -> 1..k]
    BY <1>1
  <2>2. \A e, g \in Posted(d) : f[e] = f[g] => e = g
    <3> SUFFICES ASSUME NEW e \in Posted(d), NEW g \in Posted(d), f[e] = f[g] PROVE e = g
      OBVIOUS
    <3>1. e.key[2] = g.key[2]
      OBVIOUS
    <3>2. e.key = g.key
      BY <1>1, <3>1
    <3> QED
      BY <3>2 DEF NumbersApart, Posted
  <2> HIDE DEF f
  <2> QED
    BY <2>1, <2>2, InjectionIs
<1>4. f \in Surjection(Posted(d), 1..k)
  BY <1>1, <1>2 DEF Surjection
<1>5. IsFiniteSet(Posted(d)) => Cardinality(Posted(d)) = k
  BY <1>3, <1>4, FS_Interval, FS_Surjection
<1>6. Numbers(d) = 1..k
  BY <1>1, <1>2 DEF Numbers
<1> QED
  BY <1>5, <1>6

LEMMA OwnCount ==
    ASSUME TypeOK, NEW i \in Requests, NEW d \in Days, NEW k \in Nat, NEW p \in Nat, OwnUpto(i, d, k, p),
           IsFiniteSet({w \in written[i] : w[1] = d})
    PROVE  Cardinality({w \in written[i] : w[1] = d}) = p
<1> DEFINE W == {w \in written[i] : w[1] = d}
           f == [w \in W |-> w[2] - k]
<1>1. ASSUME NEW w \in W PROVE w = <<d, w[2]>> /\ w[2] \in (k + 1)..(k + p)
  <2>1. w \in Number /\ w \in written[i] /\ w[1] = d
    BY DEF TypeOK
  <2>2. w = <<d, w[2]>> /\ w[2] \in Nat \ {0}
    BY <2>1, NumberIs
  <2> QED
    BY <2>1, <2>2 DEF OwnUpto
<1>2. ASSUME NEW n \in 1..p PROVE <<d, k + n>> \in W
  BY DEF OwnUpto
<1>3. f \in Injection(W, 1..p)
  <2>1. f \in [W -> 1..p]
    BY <1>1
  <2>2. \A v, w \in W : f[v] = f[w] => v = w
    <3> SUFFICES ASSUME NEW v \in W, NEW w \in W, f[v] = f[w] PROVE v = w
      OBVIOUS
    <3>1. v[2] - k = w[2] - k
      OBVIOUS
    <3>2. v[2] = w[2]
      BY <1>1, <3>1
    <3> QED
      BY <1>1, <3>2
  <2> HIDE DEF f, W
  <2> QED
    BY <2>1, <2>2, InjectionIs
<1>4. f \in Surjection(W, 1..p)
  <2>1. f \in [W -> 1..p]
    BY <1>1
  <2>2. ASSUME NEW n \in 1..p PROVE \E w \in W : f[w] = n
    <3>1. f[<<d, k + n>>] = n
      BY <1>2
    <3> QED
      BY <1>2, <3>1
  <2> QED
    BY <2>1, <2>2 DEF Surjection
<1> QED
  BY <1>3, <1>4, FS_Interval, FS_Surjection

LEMMA SeenIs ==
    ASSUME Base, NumbersApart, NEW i \in Requests, NEW d \in Days, NEW k \in Nat, NEW p \in Nat,
           Upto(d, k), OwnUpto(i, d, k, p)
    PROVE  Seen(i, d) = k + p
<1>1. IsFiniteSet(Posted(d)) /\ IsFiniteSet({w \in written[i] : w[1] = d})
  BY FS_Subset DEF Base, Finite, Posted
<1> QED
  BY <1>1, PostedCount, OwnCount DEF Seen, Base

(* A step that posts nothing, or gives up what a request has inserted.      *)
Quiet ==
    /\ entries' = entries
    /\ \A j \in Requests :
          /\ written'[j] \in {written[j], {}}
          /\ pc'[j] = "insert" =>
                pc[j] = "insert" /\ stamp'[j] = stamp[j] /\ number'[j] = number[j] /\ written'[j] = written[j]

LEMMA QuietRows == ASSUME TypeOK, Rows, Quiet PROVE Rows'
<1>1. NumbersApart'
  BY DEF Rows, NumbersApart, Quiet
<1>2. ASSUME NEW d \in Days PROVE \E k \in Nat : Row(d, k)'
  <2>1. PICK k \in Nat : Row(d, k)
    BY DEF Rows
  <2>2. Upto(d, k)'
    BY <2>1 DEF Row, Upto, Taken, Quiet
  <2>3. ASSUME NEW j \in Requests PROVE \E p \in Nat : OwnUpto(j, d, k, p)'
    <3>1. PICK p \in Nat : OwnUpto(j, d, k, p)
      BY <2>1 DEF Row
    <3>2. CASE written'[j] = written[j]
      BY <3>1, <3>2 DEF Quiet, OwnUpto, At
    <3>3. CASE written'[j] = {} /\ written'[j] # written[j]
      <4>1. pc'[j] # "insert"
        BY <3>3 DEF Quiet
      <4>2. OwnUpto(j, d, k, 0)'
        BY <3>3, <4>1 DEF OwnUpto, At
      <4> QED
        BY <4>2
    <3> QED
      BY <3>2, <3>3 DEF Quiet
  <2> QED
    BY <2>2, <2>3 DEF Row
<1> QED
  BY <1>1, <1>2 DEF Rows

LEMMA OwnOthers ==
    ASSUME NEW i \in Requests, NEW j \in Requests \ {i}, Others(i), NEW d, NEW k, NEW p, OwnUpto(j, d, k, p)
    PROVE  OwnUpto(j, d, k, p)'
  BY DEF Others, OwnUpto, At

LEMMA CountedRows ==
    ASSUME Base, Rows, NEW i \in Requests, Counted(i), Others(i)
    PROVE  Rows'
<1>1. /\ entries' = entries /\ written'[i] = written[i] /\ stamp'[i] = stamp[i]
      /\ number'[i] = Seen(i, stamp[i]) + 1
      /\ \A j \in Requests : written'[j] = written[j]
  BY DEF Counted, SameTransaction, SameBooks, Others, NextNumber
<1>2. NumbersApart'
  BY <1>1 DEF Rows, NumbersApart
<1>3. ASSUME NEW d \in Days PROVE \E k \in Nat : Row(d, k)'
  <2>1. PICK k \in Nat : Row(d, k)
    BY DEF Rows
  <2>2. Upto(d, k)'
    BY <1>1, <2>1 DEF Row, Upto, Taken
  <2>3. PICK p \in Nat : OwnUpto(i, d, k, p)
    BY <2>1 DEF Row
  <2>4. stamp[i] = d => number'[i] = k + p + 1
    BY <1>1, <2>1, <2>3, SeenIs DEF Row, Rows
  <2>5. OwnUpto(i, d, k, p)'
    BY <1>1, <2>3, <2>4 DEF OwnUpto
  <2>6. ASSUME NEW j \in Requests PROVE \E q \in Nat : OwnUpto(j, d, k, q)'
    BY <2>1, <2>5, OwnOthers DEF Row
  <2> QED
    BY <2>2, <2>6 DEF Row
<1> QED
  BY <1>2, <1>3 DEF Rows

LEMMA InsertedRows ==
    ASSUME Base, Rows, NEW i \in Requests, Inserted(i), Others(i)
    PROVE  Rows'
<1>1. /\ entries' = entries /\ pc[i] = "insert" /\ pc'[i] # "insert"
      /\ written'[i] = written[i] \cup {<<stamp[i], number[i]>>}
      /\ ~Taken(<<stamp[i], number[i]>>)
      /\ \A j \in Requests \ {i} : <<stamp[i], number[i]>> \notin written[j] /\ written'[j] = written[j]
  BY DEF Inserted, SameBooks, Others, At, Key
<1>2. number[i] \in Nat \ {0} /\ stamp[i] \in Days
  BY DEF Base, TypeOK
<1>3. NumbersApart'
  BY <1>1 DEF Rows, NumbersApart
<1>4. ASSUME NEW d \in Days PROVE \E k \in Nat : Row(d, k)'
  <2>1. PICK k \in Nat : Row(d, k)
    BY DEF Rows
  <2>2. Upto(d, k)'
    BY <1>1, <2>1 DEF Row, Upto, Taken
  <2>3. PICK p \in Nat : OwnUpto(i, d, k, p)
    BY <2>1 DEF Row
  <2>4. \E q \in Nat : OwnUpto(i, d, k, q)'
    <3>1. CASE stamp[i] # d
      <4>1. \A n \in Nat \ {0} : <<d, n>> \in written'[i] <=> <<d, n>> \in written[i]
        BY <1>1, <3>1
      <4>2. OwnUpto(i, d, k, p)'
        BY <1>1, <2>3, <4>1 DEF OwnUpto, At
      <4> QED
        BY <4>2
    <3>2. CASE stamp[i] = d
      <4>1. number[i] > k
        BY <1>1, <1>2, <2>1, <3>2 DEF Row, Upto
      <4>2. number[i] <= k + p + 1 /\ (p > 0 => number[i] = k + p + 1)
        BY <1>1, <2>3, <3>2 DEF OwnUpto, At
      <4>3. number[i] = k + p + 1
        BY <1>2, <4>1, <4>2
      <4>4. \A n \in Nat \ {0} : <<d, n>> \in written'[i] <=> <<d, n>> \in written[i] \/ n = k + p + 1
        BY <1>1, <3>2, <4>3
      <4>5. \A n \in Nat \ {0} : <<d, n>> \in written[i] <=> k < n /\ n <= k + p
        BY <2>3 DEF OwnUpto
      <4>6. \A n \in Nat \ {0} : <<d, n>> \in written'[i] <=> k < n /\ n <= k + (p + 1)
        BY <4>4, <4>5
      <4>7. OwnUpto(i, d, k, p + 1)'
        BY <1>1, <4>6 DEF OwnUpto, At
      <4> QED
        BY <4>7
    <3> QED
      BY <3>1, <3>2
  <2>5. ASSUME NEW j \in Requests PROVE \E q \in Nat : OwnUpto(j, d, k, q)'
    BY <2>1, <2>4, OwnOthers DEF Row
  <2> QED
    BY <2>2, <2>5 DEF Row
<1> QED
  BY <1>3, <1>4 DEF Rows

LEMMA CommittedRows ==
    ASSUME Base, Rows, NEW i \in Requests, Committed(i), Others(i)
    PROVE  Rows'
<1>1. /\ entries' = entries \cup {[key |-> w, by |-> i] : w \in written[i]}
      /\ pc'[i] = "done" /\ written'[i] = {}
      /\ \A j \in Requests \ {i} : written'[j] = written[j]
  BY DEF Committed, Over, Others
<1>2. ASSUME NEW w \in written[i] PROVE ~Taken(w)
  <2>1. w \in Number
    BY DEF Base, TypeOK
  <2>2. w[1] \in Days /\ w[2] \in Nat \ {0} /\ w = <<w[1], w[2]>>
    BY <2>1, NumberIs
  <2>3. PICK k \in Nat : Row(w[1], k)
    BY <2>2 DEF Rows
  <2>4. PICK p \in Nat : OwnUpto(i, w[1], k, p)
    BY <2>3 DEF Row
  <2>5. k < w[2]
    BY <2>2, <2>4 DEF OwnUpto
  <2>6. ~Taken(<<w[1], w[2]>>)
    BY <2>2, <2>3, <2>5 DEF Row, Upto
  <2> QED
    BY <2>2, <2>6
<1>3. NumbersApart'
  <2>1. \A e, f \in entries' : e.key = f.key => e = f
    <3>1. \A e \in entries' : e \in entries \/ (e.key \in written[i] /\ e = [key |-> e.key, by |-> i])
      BY <1>1
    <3>2. \A e \in entries : e.key \notin written[i]
      BY <1>2 DEF Taken
    <3> QED
      BY <3>1, <3>2 DEF Rows, NumbersApart
  <2>2. \A j, l \in Requests : j # l => \A w \in written'[j] : w \notin written'[l]
    BY <1>1 DEF Rows, NumbersApart
  <2> QED
    BY <2>1, <2>2 DEF NumbersApart
<1>4. ASSUME NEW d \in Days PROVE \E k \in Nat : Row(d, k)'
  <2>1. PICK k \in Nat : Row(d, k)
    BY DEF Rows
  <2>2. PICK p \in Nat : OwnUpto(i, d, k, p)
    BY <2>1 DEF Row
  <2>3. \A n \in Nat \ {0} : Taken(<<d, n>>)' <=> Taken(<<d, n>>) \/ <<d, n>> \in written[i]
    <3>1. \A w : Taken(w)' <=> Taken(w) \/ w \in written[i]
      <4> TAKE w
      <4>1. Taken(w)' <=> \E e \in entries' : e.key = w
        BY DEF Taken
      <4>2. w \in written[i] => [key |-> w, by |-> i] \in entries' /\ [key |-> w, by |-> i].key = w
        BY <1>1
      <4>3. \A e \in entries' : e \in entries \/ e.key \in written[i]
        BY <1>1
      <4>4. entries \subseteq entries'
        BY <1>1
      <4>5. w \in written[i] => Taken(w)'
        BY <4>1, <4>2
      <4> QED
        BY <4>1, <4>3, <4>4, <4>5 DEF Taken
    <3> QED
      BY <3>1
  <2>4. Upto(d, k + p)'
    <3> SUFFICES ASSUME NEW n \in Nat \ {0} PROVE Taken(<<d, n>>)' <=> n <= k + p
      BY DEF Upto
    <3>1. Taken(<<d, n>>) <=> n <= k
      BY <2>1 DEF Row, Upto
    <3>2. <<d, n>> \in written[i] <=> k < n /\ n <= k + p
      BY <2>2 DEF OwnUpto
    <3> QED
      BY <2>3, <3>1, <3>2
  <2>5. OwnUpto(i, d, k + p, 0)'
    BY <1>1 DEF OwnUpto, At
  <2>6. ASSUME NEW j \in Requests \ {i} PROVE \E q \in Nat : OwnUpto(j, d, k + p, q)'
    <3>1. PICK q \in Nat : OwnUpto(j, d, k, q)
      BY <2>1 DEF Row
    <3>2. p = 0 \/ q = 0
      <4> SUFFICES ASSUME p > 0, q > 0 PROVE FALSE
        OBVIOUS
      <4>1. <<d, k + 1>> \in written[i]
        BY <2>2 DEF OwnUpto
      <4>2. <<d, k + 1>> \in written[j]
        BY <3>1 DEF OwnUpto
      <4> QED
        BY <4>1, <4>2 DEF Rows, NumbersApart
    <3>3. OwnUpto(j, d, k + p, q)
      <4>1. CASE p = 0
        BY <3>1, <4>1
      <4>2. CASE q = 0
        <5>1. \A n \in Nat \ {0} : <<d, n>> \notin written[j]
          BY <3>1, <4>2 DEF OwnUpto
        <5>2. At(j, "insert") /\ stamp[j] = d => number[j] <= k + p + 1
          <6>1. number[j] \in Nat
            BY DEF Base, TypeOK
          <6> QED
            BY <3>1, <4>2, <6>1 DEF OwnUpto
        <5>3. \A n \in Nat : ~(k + p < n /\ n <= (k + p) + q)
          BY <4>2
        <5> QED
          BY <4>2, <5>1, <5>2, <5>3 DEF OwnUpto
      <4> QED
        BY <3>2, <4>1, <4>2
    <3> QED
      BY <3>3, OwnOthers
  <2>7. Row(d, k + p)'
    BY <2>4, <2>5, <2>6 DEF Row
  <2> QED
    BY <2>7
<1> QED
  BY <1>3, <1>4 DEF Rows

LEMMA RowsStep ==
    ASSUME Base, Rows, NEW i \in Requests, Arrived(i) \/ Served(i), Others(i)
    PROVE  Rows'
<1>1. CASE Counted(i)
  BY <1>1, CountedRows
<1>2. CASE Inserted(i)
  BY <1>2, InsertedRows
<1>3. CASE Committed(i)
  BY <1>3, CommittedRows
<1>4. CASE Arrived(i) \/ Locked(i) \/ Ensured(i) \/ Created(i) \/ Changed(i) \/ Failed(i)
  <2>1. entries' = entries /\ written'[i] \in {written[i], {}} /\ pc'[i] # "insert"
    BY <1>4 DEF Arrived, Begun, Locked, Ensured, Created, Changed, Failed, SameTransaction, SameBooks, Over
  <2>2. Quiet
    BY <2>1 DEF Quiet, Others
  <2> QED
    BY <2>2, QuietRows DEF Base
<1> QED
  BY <1>1, <1>2, <1>3, <1>4 DEF Served

LEMMA RowsNext == ASSUME Base, Rows, [Next]_vars PROVE Rows'
<1>1. CASE Step
  BY <1>1, RowsStep DEF Step
<1>2. CASE Still
  <2>1. Quiet
    BY <1>2 DEF Still, Quiet
  <2> QED
    BY <2>1, QuietRows DEF Base
<1> QED
  BY <1>1, <1>2, NextForms

LEMMA RowsInit == Init => Rows
<1> SUFFICES ASSUME Init PROVE Rows
  OBVIOUS
<1>1. /\ entries = {}
      /\ \A i \in Requests : pc[i] = "none" /\ written[i] = {}
  BY DEF Init
<1>2. NumbersApart
  BY <1>1 DEF NumbersApart
<1>3. ASSUME NEW d \in Days PROVE Row(d, 0)
  <2>1. Upto(d, 0)
    BY <1>1 DEF Upto, Taken
  <2>2. \A i \in Requests : OwnUpto(i, d, 0, 0)
    BY <1>1 DEF OwnUpto, At
  <2> QED
    BY <2>1, <2>2 DEF Row
<1> QED
  BY <1>2, <1>3 DEF Rows

LEMMA RowsFollow == ASSUME Base, Rows PROVE NumbersFollow
<1> SUFFICES ASSUME NEW d \in Days
             PROVE  /\ Numbers(d) = 1..Cardinality(Numbers(d))
                    /\ \A e, f \in Posted(d) : e.key = f.key => e = f
  BY DEF NumbersFollow
<1>1. PICK k \in Nat : Row(d, k)
  BY DEF Rows
<1>2. Numbers(d) = 1..k
  BY <1>1, PostedCount DEF Row, Rows, Base
<1>3. Cardinality(1..k) = k
  BY FS_Interval
<1>4. \A e, f \in Posted(d) : e.key = f.key => e = f
  BY DEF Posted, Rows, NumbersApart
<1> QED
  BY <1>2, <1>3, <1>4

(* The entries of a day are numbered 1, 2, 3, ... without a gap, for any      *)
(* number of requests, some of which post several entries in one              *)
(* transaction, roll back or are aborted.                                    *)
THEOREM NumbersTheorem == Spec => []NumbersFollow
<1>1. Init => Base /\ Rows
  BY BaseInit, RowsInit
<1>2. Base /\ Rows /\ [Next]_vars => (Base /\ Rows)'
  BY BaseStep, RowsNext
<1>3. Base /\ Rows => NumbersFollow
  BY RowsFollow
<1> QED
  BY <1>1, <1>2, <1>3, PTL DEF Spec

-----------------------------------------------------------------------------
(* A request that is no migration takes what others wait for in one order:   *)
(* a student, then the period, then one number, after which it commits.      *)
Ordered(i) ==
    /\ task[i].kind # "migration" =>
          /\ written[i] # {} => pc[i] = "commit"
          /\ made[i] # {} => pc[i] \in {"count", "insert", "commit"}
          /\ At(i, "lock") => task[i].of \in Students
    /\ \A s \in Students : lock[s] = i =>
          pc[i] # "none" /\ (task[i].kind # "migration" => pc[i] # "lock")

\* A step of request i locks for nobody else.
LocksOwn(i) ==
    \A s \in Students : lock'[s] \in Requests => lock'[s] = lock[s] \/ (lock'[s] = i /\ pc'[i] = "post")

LEMMA LocksStep ==
    ASSUME TypeOK, NEW i \in Requests, Arrive(i) \/ Serve(i) \/ Fail(i)
    PROVE  LocksOwn(i)
<1>1. ASSUME lock' = lock PROVE LocksOwn(i)
  BY <1>1 DEF LocksOwn
<1>2. ASSUME NEW step, End(i, step) PROVE LocksOwn(i)
  <2>1. \A s \in Students : lock'[s] = IF lock[s] = i THEN 0 ELSE lock[s]
    BY <1>2 DEF End
  <2>2. 0 \notin Requests
    BY BoundsAssumption DEF Requests
  <2> QED
    BY <2>1, <2>2 DEF LocksOwn
<1>3. CASE Arrive(i)
  <2>1. lock' = lock
    BY <1>3 DEF Arrive, Sell, Pay, Audit, Migrate, ListPeriods, OpenDrawer, Wallet, ClosePeriod, CloseDrawer,
                Begin, transaction
  <2> QED
    BY <1>1, <2>1
<1>4. CASE Lock(i)
  <2>1. /\ pc'[i] = "post"
        /\ \A s \in Students : lock'[s] = lock[s] \/ lock'[s] = i
    BY <1>4 DEF Lock, Goto, TypeOK
  <2> QED
    BY <2>1 DEF LocksOwn
<1>5. CASE Ensure(i) \/ Create(i) \/ Count(i) \/ Insert(i) \/ Commit(i) \/ Change(i) \/ Deadlock(i) \/ Fail(i)
  <2>1. lock' = lock \/ End(i, "failed") \/ End(i, "done")
    BY <1>5 DEF Ensure, Create, Count, Insert, Put, Commit, Change, Deadlock, Fail, Abort, transaction
  <2> QED
    BY <1>1, <1>2, <2>1
<1> QED
  BY <1>3, <1>4, <1>5 DEF Serve

LEMMA OrderedStep ==
    ASSUME Base, \A j \in Requests : Ordered(j), NEW i \in Requests, Arrived(i) \/ Served(i), Others(i), LocksOwn(i)
    PROVE  \A j \in Requests : Ordered(j)'
<1> USE DEF Base
<1>1. ASSUME NEW j \in Requests \ {i} PROVE Ordered(j)'
  <2>1. \A s \in Students : lock'[s] = j => lock[s] = j
    BY DEF LocksOwn
  <2>2. /\ task'[j] = task[j] /\ pc'[j] = pc[j] /\ written'[j] = written[j] /\ made'[j] = made[j]
    BY DEF Others
  <2>3. Ordered(j)
    OBVIOUS
  <2> QED
    BY <2>1, <2>2, <2>3 DEF Ordered, At
<1>2. \A s \in Students : lock'[s] = i => lock[s] = i \/ pc'[i] = "post"
  BY DEF LocksOwn
<1>3. CASE Arrived(i)
  <2>1. /\ i = used + 1 /\ pc'[i] \in {"post", "commit", "lock", "write"}
        /\ written'[i] = written[i] /\ made'[i] = made[i]
        /\ pc'[i] = "lock" /\ task'[i].kind # "migration" => task'[i].of \in Students
    BY <1>3 DEF Arrived, Begun
  <2>2. pc[i] = "none" /\ written[i] = {} /\ made[i] = {}
    BY <2>1, UsedType DEF Idle, Active, Ended
  <2>3. \A s \in Students : lock'[s] = i => pc'[i] = "post"
    BY <1>2, <2>2 DEF Ordered
  <2>4. Ordered(i)'
    BY <2>1, <2>2, <2>3 DEF Ordered, At
  <2> QED
    BY <1>1, <2>4
<1>4. CASE Served(i)
  <2>1. /\ task'[i].kind = task[i].kind
        /\ task[i].kind # "migration" => task'[i].of = task[i].of /\ pc'[i] # "lock"
        /\ pc'[i] # "none"
    BY <1>4 DEF Served, Locked, Ensured, Created, Counted, Inserted, Committed, Changed, Failed,
                SamePlan, SameTask, Over
  <2>2. task[i].kind # "migration" /\ written'[i] # {} => pc'[i] = "commit"
    BY <1>4 DEF Served, Locked, Ensured, Created, Counted, Inserted, Committed, Changed, Failed,
                SameTransaction, Over, Ordered, At
  <2>3. task[i].kind # "migration" /\ made'[i] # {} => pc'[i] \in {"count", "insert", "commit"}
    BY <1>4 DEF Served, Locked, Ensured, Created, Counted, Inserted, Committed, Changed, Failed,
                SameTransaction, Over, Ordered, At
  <2>4. Ordered(i)'
    BY <1>2, <2>1, <2>2, <2>3 DEF Ordered, At
  <2> QED
    BY <1>1, <2>4
<1> QED
  BY <1>3, <1>4

Orders == \A i \in Requests : Ordered(i)

LEMMA OrdersNext == ASSUME Base, Orders, [Next]_vars PROVE Orders'
<1>1. ASSUME NEW i \in Requests, Arrive(i) \/ Serve(i) \/ Fail(i) PROVE Orders'
  <2>1. (Arrived(i) \/ Served(i)) /\ Others(i)
    BY <1>1, ArriveType, ServeType DEF Base
  <2>2. LocksOwn(i)
    BY <1>1, LocksStep DEF Base
  <2> QED
    BY <2>1, <2>2, OrderedStep DEF Orders
<1>2. CASE NextDay \/ UNCHANGED vars
  <2>1. UNCHANGED <<task, written, made, pc, lock>>
    BY <1>2 DEF NextDay, vars, plan, transaction
  <2> QED
    BY <2>1 DEF Orders, Ordered, At
<1> QED
  BY <1>1, <1>2 DEF Next

LEMMA OrdersInit == Init => Orders
<1> SUFFICES ASSUME Init, NEW i \in Requests PROVE Ordered(i)
  BY DEF Orders
<1>1. pc[i] = "none" /\ made[i] = {} /\ written[i] = {} /\ i # 0 /\ \A s \in Students : lock[s] = 0
  BY BoundsAssumption DEF Init, Requests
<1> QED
  BY <1>1 DEF Ordered, At

LEMMA OrdersApart == ASSUME Base, Orders PROVE CircleHasMigration
<1> SUFFICES ASSUME NEW S \in SUBSET Requests, Stuck(S), \A i \in S : task[i].kind # "migration"
             PROVE  FALSE
  BY DEF CircleHasMigration
<1>0. ASSUME NEW i \in S PROVE Ordered(i) /\ task[i].kind # "migration" /\ WaitsFor(i) \cap S # {}
  BY DEF Orders, Stuck
<1>1. ASSUME NEW i \in S PROVE At(i, "lock") \/ At(i, "create") \/ At(i, "insert")
  BY <1>0 DEF WaitsFor
<1>2. ASSUME NEW i \in S PROVE ~At(i, "insert")
  <2> SUFFICES ASSUME At(i, "insert") PROVE FALSE
    OBVIOUS
  <2>1. WaitsFor(i) = Inserting(Key(i)) \ {i}
    BY DEF WaitsFor, At
  <2>2. PICK j \in S : Key(i) \in written[j]
    BY <1>0, <2>1 DEF Inserting
  <2>3. pc[j] = "commit"
    BY <1>0, <2>2 DEF Ordered
  <2> QED
    BY <1>1, <2>3 DEF At
<1>3. ASSUME NEW i \in S PROVE ~At(i, "create")
  <2> SUFFICES ASSUME At(i, "create") PROVE FALSE
    OBVIOUS
  <2>1. WaitsFor(i) = Creating(Month[stamp[i]])
    BY DEF WaitsFor, At
  <2>2. PICK j \in S : Month[stamp[i]] \in made[j]
    BY <1>0, <2>1 DEF Creating
  <2>3. pc[j] \in {"count", "insert", "commit"}
    BY <1>0, <2>2 DEF Ordered
  <2> QED
    BY <1>1, <1>2, <2>3 DEF At
<1>4. PICK i \in S : At(i, "lock")
  BY <1>1, <1>2, <1>3 DEF Stuck
<1>5. WaitsFor(i) = {lock[task[i].of]} \ {0, i}
  BY <1>4 DEF WaitsFor, At
<1>6. PICK j \in S : lock[task[i].of] = j
  BY <1>0, <1>5
<1>7. task[i].of \in Students
  BY <1>0, <1>4 DEF Ordered
<1>8. pc[j] # "lock"
  BY <1>0, <1>6, <1>7 DEF Ordered
<1> QED
  BY <1>1, <1>2, <1>3, <1>8 DEF At

(* Requests wait for each other in a circle only when one of them is a        *)
(* migration: a deadlock needs its many students and numbers.                *)
THEOREM CircleTheorem == Spec => []CircleHasMigration
<1>1. Init => Base /\ Orders
  BY BaseInit, OrdersInit
<1>2. Base /\ Orders /\ [Next]_vars => (Base /\ Orders)'
  BY BaseStep, OrdersNext
<1>3. Base /\ Orders => CircleHasMigration
  BY OrdersApart
<1> QED
  BY <1>1, <1>2, <1>3, PTL DEF Spec

=============================================================================
