---------------------------- MODULE StudentWallet ----------------------------
(***************************************************************************)
(* The wallet of one student: what one till shows and sends                 *)
(* (checkoutController.js, walletSyncPayloads.js, the handlers of App.jsx), *)
(* the balance and the ledger entries of the server (student_wallet.py,     *)
(* students.py), and the migration of opening balances.                     *)
(*                                                                         *)
(* Without the ledger, the till sends balances; with it, entries, but still *)
(* balances after an online sale.  Amounts are in units of one sale.        *)
(***************************************************************************)
EXTENDS Integers

CONSTANTS
    Openings,       \* balances at the beginning
    Changes,        \* changes of a balance by a sale; 0 is none
    Price,          \* what a pickup, a return or a deposit costs
    MaxTickets,     \* bound: tickets
    MaxEvents,      \* bound: changes of the balance by other tills, and reloads of the page
    MaxFaults       \* bound: requests that fail, and lost answers

Tickets == 1..MaxTickets

ASSUME AmountsAssumption == Openings \subseteq Int /\ Changes \subseteq Int /\ Price \in Nat

ASSUME BoundsAssumption == MaxTickets \in Nat /\ MaxEvents \in Nat /\ MaxFaults \in Nat

VARIABLES
    ledger,         \* WALLET_LEDGER_ENABLED, on both sides
    online,         \* useBackend
    counter,        \* transactionCounter
    shown,          \* the balance of the student in the state of the till
    queue,          \* the wallet operations of syncQueue
    ticket,         \* each ticket, its step and what it closed over
    used,           \* tickets 1..used exist
    hydration,      \* the effect that fetches the core data
    sending,        \* the replayed balance that update_student works on
    balance,        \* students.balance
    sum,            \* the sum of the entries, as _ledger_sum computes it
    entered,        \* the operation ids of the entries, with the ticket of each
    migration,      \* generate_opening_balance_entries
    opening,        \* history: the balance at the beginning
    owed,           \* history: the sum of what the till has recorded
    others,         \* history: the sum of what other tills have
    torn,           \* history: a balance was written by what had been read before a change
    disturbed,      \* history: one of the losses named below may have happened
    events, faults

vars == <<ledger, online, counter, shown, queue, ticket, used, hydration, sending, balance,
          sum, entered, migration, opening, owed, others, torn, disturbed, events, faults>>

till == <<online, counter, shown, queue, ticket, used, hydration>>
account == <<balance, sum, entered>>
given == <<ledger, opening>>
server == <<sending, account, migration, others, torn>>

-----------------------------------------------------------------------------
(* post: the sale is on its way.  put, putting: update_student.  refresh,   *)
(* reading: fetchCoreSnapshot.                                              *)
Pc == {"none", "post", "put", "putting", "refresh", "reading", "done", "gone"}

InFlight == {"post", "put", "putting"}

Kinds == {"none", "sale", "pickup", "return", "cancel", "edit"}

\* number is that of the receipt, before the balance of the student it has at hand.
Ticket == [kind : Kinds, pc : Pc, number : Nat,
           before : Int, delta : Int, pays : BOOLEAN, queued : BOOLEAN, seen : Int]

NoTicket == [kind |-> "none", pc |-> "none", number |-> 1, before |-> 0, delta |-> 0,
             pays |-> FALSE, queued |-> FALSE, seen |-> 0]

\* operationId: `wallet:transaction:ED-<n>:<type>`, whose type follows from the sign, ...
Ids == Kinds \X Nat \X Int

\* student_balance_set and student_upsert (amount is the balance), or wallet_entry_create.
Op == [kind : {"set", "edit", "entry"}, of : Tickets, id : Ids, amount : Int, done : BOOLEAN, dead : BOOLEAN]

NoHydration == [pc |-> "none", seen |-> 0]
NotSending == [on |-> FALSE, of |-> 0, target |-> 0, read |-> 0]

TypeOK ==
    /\ ledger \in BOOLEAN /\ online \in BOOLEAN
    /\ counter \in Nat
    /\ shown \in Int /\ balance \in Int /\ sum \in Int
    /\ opening \in Int /\ owed \in Int /\ others \in Int
    /\ queue \subseteq Op
    /\ ticket \in [Tickets -> Ticket]
    /\ used \in 0..MaxTickets
    /\ hydration \in [pc : {"none", "start", "reading"}, seen : Int]
    /\ sending \in [on : BOOLEAN, of : 0..MaxTickets, target : Int, read : Int]
    /\ entered \subseteq Ids \X Tickets
    /\ \A e, f \in entered : e[1] = f[1] => e = f
    /\ migration \in [pc : {"none", "read", "summed", "done"}, legacy : Int, sum : Int]
    /\ torn \in BOOLEAN /\ disturbed \in BOOLEAN
    /\ events \in 0..MaxEvents /\ faults \in 0..MaxFaults

Init ==
    /\ ledger \in BOOLEAN
    /\ opening \in Openings
    /\ online = TRUE
    /\ counter = 1
    /\ balance = opening
    /\ shown = opening
    /\ queue = {}
    /\ ticket = [i \in Tickets |-> NoTicket]
    /\ used = 0
    /\ hydration = NoHydration
    /\ sending = NotSending
    /\ sum = 0
    /\ entered = {}
    /\ migration = [pc |-> "none", legacy |-> 0, sum |-> 0]
    /\ owed = 0
    /\ others = 0
    /\ torn = FALSE
    /\ disturbed = FALSE
    /\ events = 0
    /\ faults = 0

-----------------------------------------------------------------------------
(* The server.                                                              *)
\* Mutant of Write: the balance is written and no entry is made.
WriteUnposted(read, target) ==
    /\ balance' = IF target # read THEN target ELSE balance
    /\ UNCHANGED sum
    /\ torn' = (torn \/ (ledger /\ target # read /\ balance # read))

(* update_student, after it has read the student without a lock: nothing is *)
(* written when the balance is the one it read.  create_wallet_entry takes  *)
(* the lock, and keeps the student as it was read.                          *)
Write(read, target) ==
    /\ balance' = IF target # read THEN target ELSE balance
    /\ sum' = IF ledger THEN sum + (target - read) ELSE sum
    /\ torn' = (torn \/ (ledger /\ target # read /\ balance # read))

Known(id) == \E e \in entered : e[1] = id

\* Mutant of Enter: the operation id is not looked up.
EnterAgain(op) ==
    /\ balance' = balance + op.amount
    /\ sum' = sum + op.amount
    /\ entered' = entered \cup {<<op.id, op.of>>}

\* create_wallet_entry: an entry with this operation id is answered as it is.
Enter(op) ==
    IF Known(op.id) THEN UNCHANGED account
    ELSE /\ balance' = balance + op.amount
         /\ sum' = sum + op.amount
         /\ entered' = entered \cup {<<op.id, op.of>>}

\* A balance computed before is still to be written.
Sending == queue # {} \/ sending.on \/ \E i \in Tickets : ticket[i].pc \in InFlight

(* Another till sells to the student.                                       *)
OtherTill ==
    /\ events < MaxEvents
    /\ \E d \in Changes \ {0} :
        /\ balance' = balance + d
        /\ sum' = IF ledger THEN sum + d ELSE sum
        /\ others' = others + d
    /\ events' = events + 1
    /\ disturbed' = (disturbed \/ (~ledger /\ Sending))
    /\ UNCHANGED <<given, till, sending, entered, migration, owed, torn, faults>>

(* generate_opening_balance_entries reads the balances, ...                 *)
MigrateRead ==
    /\ ledger /\ migration.pc = "none"
    /\ migration' = [migration EXCEPT !.pc = "read", !.legacy = balance]
    /\ UNCHANGED <<given, till, sending, account, owed, others, torn, disturbed, events, faults>>

(* ... then the sum of the entries of the student, ...                      *)
MigrateSum ==
    /\ migration.pc = "read"
    /\ migration' = [migration EXCEPT !.pc = "summed", !.sum = sum]
    /\ torn' = (torn \/ balance # migration.legacy)
    /\ UNCHANGED <<given, till, sending, account, owed, others, disturbed, events, faults>>

(* ... and adds the difference as an entry that leaves the balance alone.   *)
MigrateWrite ==
    /\ migration.pc = "summed"
    /\ migration' = [pc |-> "done", legacy |-> 0, sum |-> 0]
    /\ sum' = sum + (migration.legacy - migration.sum)
    /\ UNCHANGED <<given, till, sending, balance, entered, owed, others, torn, disturbed, events,
                   faults>>

-----------------------------------------------------------------------------
(* The queue.                                                               *)
Fault == faults < MaxFaults /\ faults' = faults + 1

Busy(i) == \E j \in Tickets \ {i} : ticket[j].pc \in InFlight

\* walletMutationOperation.
WalletOp(i, t) ==
    LET kind == IF t.kind = "edit" THEN "edit" ELSE IF ledger THEN "entry" ELSE "set"
    IN  [kind |-> kind, of |-> i, id |-> <<t.kind, t.number, t.delta>>,
         amount |-> IF kind = "entry" THEN t.delta ELSE t.before + t.delta,
         done |-> FALSE, dead |-> FALSE]

\* computeDedupeKey: the student, or the operation id.
Key(op) == IF op.kind = "entry" THEN <<"entry", op.id>> ELSE <<op.kind>>

Enqueue(op) == {o \in queue : Key(o) # Key(op)} \cup {op}

(* A loss: the operation id was used before, or, without the ledger, the    *)
(* balance was computed from one that lacks a change, or while another      *)
(* request with a balance was under way.                                    *)
Loses(i, t) ==
    IF ledger THEN LET id == WalletOp(i, t).id IN Known(id) \/ \E op \in queue : op.id = id
    ELSE Busy(i) \/ t.before # opening + others + owed

\* The state of the till takes the change at once.
Record(d) == shown' = shown + d /\ owed' = owed + d

\* The operation of a ticket is queued: without a change of the balance, only a balance is.
Send(i, t) ==
    IF ledger /\ t.delta = 0 THEN UNCHANGED <<queue, disturbed>>
    ELSE queue' = Enqueue(WalletOp(i, t)) /\ disturbed' = (disturbed \/ Loses(i, t))

-----------------------------------------------------------------------------
(* The till.                                                                *)
NewTicket(kind, d) == [NoTicket EXCEPT !.kind = kind, !.number = counter, !.before = shown, !.delta = d]

Use(i) == i = used + 1 /\ i \in Tickets /\ used' = i

At(i, pc) == ticket[i].pc = pc

See(i, pc, seen) == ticket' = [ticket EXCEPT ![i] = [@ EXCEPT !.pc = pc, !.seen = seen]]

Goto(i, pc) == See(i, pc, NoTicket.seen)

\* What is recorded and queued at once.
SendNew(i, t) ==
    /\ Use(i)
    /\ ticket' = [ticket EXCEPT ![i] = [t EXCEPT !.pc = "done", !.queued = TRUE]]
    /\ Record(t.delta)
    /\ Send(i, t)
    /\ counter' = counter + 1
    /\ UNCHANGED <<given, online, hydration, server, faults, events>>

\* completeSale, offline.
SellOffline(i, d) == ~online /\ SendNew(i, NewTicket("sale", d))

\* A pickup, from either view, takes the price from a wallet that holds it.
Pickup(i) == shown >= Price /\ SendNew(i, NewTicket("pickup", -Price))

\* salesHistory.
Sales == {j \in Tickets : ticket[j].kind \in {"sale", "pickup"} /\ ticket[j].pc \notin {"post", "gone"}}

\* A sale is returned to the wallet: its student is the one of the sale, its id that of the sale.
Return(i, j) ==
    /\ j \in Sales
    /\ SendNew(i, [ticket[j] EXCEPT !.kind = "return", !.delta = Price, !.pays = FALSE,
                                !.seen = NoTicket.seen])

(* A reservation is cancelled and its deposit goes to the wallet: the        *)
(* handler fails before the operation is queued, since its id names a        *)
(* variable that is declared below.                                          *)
CancelToWallet(i) ==
    /\ Use(i)
    /\ ticket' = [ticket EXCEPT ![i] = [NewTicket("cancel", Price) EXCEPT !.pc = "done"]]
    /\ Record(Price)
    /\ disturbed' = TRUE
    /\ UNCHANGED <<given, online, counter, queue, hydration, server, faults, events>>

\* A request of the online mode.
Ask(i, t) ==
    /\ online /\ Use(i)
    /\ ticket' = [ticket EXCEPT ![i] = t]
    /\ disturbed' = (disturbed \/ (~ledger /\ (Sending \/ Loses(i, t))))
    /\ UNCHANGED <<given, online, counter, shown, queue, hydration, server, owed, faults, events>>

(* completeSale, online.  A balance will be sent when an amount was given    *)
(* or the wallet pays (pays).                                                *)
SellOnline(i, d, pays) ==
    /\ d # 0 => pays
    /\ Ask(i, [NewTicket("sale", d) EXCEPT !.pc = "post", !.pays = pays])

(* saveStudent sends the balance that the form was opened with; ...          *)
EditOnline(i) == Ask(i, [NewTicket("edit", 0) EXCEPT !.pc = "put"])

(* ... offline, the student is listed without any.                           *)
EditOffline(i) ==
    LET t == [NewTicket("edit", 0) EXCEPT !.pc = "done", !.queued = TRUE]
    IN  /\ ~online /\ Use(i)
        /\ ticket' = [ticket EXCEPT ![i] = t]
        /\ shown' = 0
        /\ queue' = Enqueue(WalletOp(i, t))
        /\ UNCHANGED <<given, online, counter, hydration, server, owed, disturbed, faults, events>>

Recorded(i, queued) ==
    /\ ticket' = [ticket EXCEPT ![i] = [@ EXCEPT !.pc = IF ticket[i].pays THEN "put" ELSE "refresh",
                                                 !.queued = queued]]
    /\ Record(ticket[i].delta)
    /\ counter' = counter + 1
    /\ UNCHANGED <<given, used, server, events>>

\* POST /transactions is answered, ...
Posted(i) ==
    /\ At(i, "post")
    /\ Recorded(i, FALSE)
    /\ UNCHANGED <<online, queue, hydration, disturbed, faults>>

\* ... or not: the change is queued, and the balance is sent nevertheless (useBackend is that
\* of the click) ...
FallBack(i) ==
    /\ At(i, "post") /\ Fault
    /\ Recorded(i, TRUE)
    /\ Send(i, ticket[i])
    /\ online' = FALSE
    /\ hydration' = NoHydration

\* ... or meets the end of the session.
SessionEnds(i) ==
    /\ At(i, "post") /\ Fault
    /\ Goto(i, "gone")
    /\ UNCHANGED <<given, online, counter, shown, queue, used, hydration, server, owed, disturbed, events>>

\* PUT /students/<id>: update_student reads the student, ...
PutRead(i) ==
    /\ At(i, "put")
    /\ See(i, "putting", balance)
    /\ UNCHANGED <<given, online, counter, shown, queue, used, hydration, server, owed, disturbed,
                   faults, events>>

\* ... or the request fails, and no one sends the balance again, ...
PutFails(i) ==
    /\ At(i, "put") /\ Fault
    /\ Goto(i, "done")
    /\ disturbed' = (disturbed \/ (~ticket[i].queued /\ ticket[i].delta # 0))
    /\ UNCHANGED <<given, online, counter, shown, queue, used, hydration, server, owed, events>>

(* ... or it writes it: a change that is queued as an entry counts twice,    *)
(* and one that came in between is undone.                                   *)
PutWrites(i) ==
    LET t == ticket[i]
    IN  /\ At(i, "putting")
        /\ Write(t.seen, t.before + t.delta)
        /\ \/ t.kind # "edit" /\ Goto(i, "refresh") /\ UNCHANGED faults
           \/ t.kind = "edit" /\ See(i, "reading", balance') /\ UNCHANGED faults
           \/ Fault /\ Goto(i, "done")
        /\ disturbed' = (disturbed \/ (ledger /\ (\/ (t.queued /\ t.delta # 0)
                                                  \/ {t.seen, balance} # {t.before})))
        /\ UNCHANGED <<given, online, counter, shown, queue, used, hydration, sending, entered,
                       migration, owed, others, events>>

(* fetchCoreSnapshot: the server answers, and the till takes it.             *)
RefreshRead(i) ==
    /\ At(i, "refresh")
    /\ See(i, "reading", balance)
    /\ UNCHANGED <<given, online, counter, shown, queue, used, hydration, server, owed, disturbed,
                   faults, events>>

RefreshApply(i) ==
    /\ At(i, "reading")
    /\ Goto(i, "done")
    /\ shown' = ticket[i].seen
    /\ UNCHANGED <<given, online, counter, queue, used, hydration, server, owed, disturbed, faults, events>>

RefreshFails(i) ==
    /\ At(i, "refresh") /\ Fault
    /\ Goto(i, "done")
    /\ UNCHANGED <<given, online, counter, shown, queue, used, hydration, server, owed, disturbed, events>>

-----------------------------------------------------------------------------
(* The mode.                                                                *)
Probe ==
    /\ ~online
    /\ online' = TRUE
    /\ hydration' = [pc |-> "start", seen |-> 0]
    /\ UNCHANGED <<given, counter, shown, queue, ticket, used, server, owed, disturbed, faults, events>>

HydrateRead ==
    /\ hydration.pc = "start"
    /\ hydration' = [pc |-> "reading", seen |-> balance]
    /\ UNCHANGED <<given, online, counter, shown, queue, ticket, used, server, owed, disturbed,
                   faults, events>>

HydrateApply ==
    /\ hydration.pc = "reading"
    /\ shown' = hydration.seen
    /\ hydration' = NoHydration
    /\ UNCHANGED <<given, online, counter, queue, ticket, used, server, owed, disturbed, faults, events>>

(* The page is reloaded, online, when no request is under way: the counter   *)
(* begins again (Checkout), and the student is listed when he is fetched.    *)
Reload ==
    /\ online /\ events < MaxEvents
    /\ \A i \in Tickets : ticket[i].pc \in {"none", "done", "gone"}
    /\ ~sending.on
    /\ counter' = 1
    /\ shown' = balance
    /\ hydration' = NoHydration
    /\ events' = events + 1
    /\ UNCHANGED <<given, online, queue, ticket, used, server, owed, disturbed, faults>>

-----------------------------------------------------------------------------
(* processSyncQueueOnce, whose order is the subject of OfflineQueue.         *)
\* POST /students/<id>/wallet/entries: the answer arrives or not, ...
ReplayEntry(op) ==
    /\ op.kind = "entry"
    /\ Enter(op)
    /\ \/ queue' = queue \ {op} /\ UNCHANGED faults
       \/ Fault /\ UNCHANGED queue
    /\ UNCHANGED sending

\* ... and one whose id stands for another amount is refused; any may be, as a request.
ReplayRefused(op) ==
    /\ IF Known(op.id) THEN UNCHANGED faults ELSE Fault
    /\ <<op.id, op.of>> \notin entered
    /\ queue' = (queue \ {op}) \cup {[op EXCEPT !.dead = TRUE]}
    /\ UNCHANGED <<sending, account>>

\* PUT /students/<id>, in two steps again; ...
ReplayRead(op) ==
    /\ op.kind # "entry" /\ ~op.done
    /\ sending' = [on |-> TRUE, of |-> op.of, target |-> op.amount, read |-> balance]
    /\ UNCHANGED <<queue, account, faults>>

\* ... the replay guard answers a retry with what it has recorded (SyncReplay).
ReplayDone(op) ==
    /\ op.done
    /\ queue' = queue \ {op}
    /\ UNCHANGED <<sending, account, faults>>

Replay ==
    /\ online /\ ~sending.on
    /\ \E op \in queue :
        /\ ~op.dead
        /\ ReplayEntry(op) \/ ReplayRefused(op) \/ ReplayRead(op) \/ ReplayDone(op)
    /\ UNCHANGED <<given, online, counter, shown, ticket, used, hydration, migration, owed, others,
                   torn, disturbed, events>>

(* Its operation may have been replaced by a newer one meanwhile.  An edit    *)
(* of the student that changes the balance undoes what came in between.      *)
ReplayWrites ==
    /\ sending.on
    /\ Write(sending.read, sending.target)
    /\ disturbed' = (disturbed \/ (/\ ticket[sending.of].kind = "edit"
                                   /\ sending.target # sending.read))
    /\ sending' = NotSending
    /\ \/ queue' = {op \in queue : op.of # sending.of} /\ UNCHANGED faults
       \/ /\ Fault
          /\ queue' = {IF op.of = sending.of THEN [op EXCEPT !.done = TRUE] ELSE op : op \in queue}
    /\ UNCHANGED <<given, online, counter, shown, ticket, used, hydration, entered, migration, owed,
                   others, events>>

-----------------------------------------------------------------------------
Next ==
    \/ OtherTill \/ MigrateRead \/ MigrateSum \/ MigrateWrite
    \/ \E i \in Tickets :
        \/ \E d \in Changes : SellOffline(i, d) \/ \E pays \in BOOLEAN : SellOnline(i, d, pays)
        \/ \E j \in Tickets : Return(i, j)
        \/ Pickup(i) \/ CancelToWallet(i) \/ EditOnline(i) \/ EditOffline(i)
        \/ Posted(i) \/ FallBack(i) \/ SessionEnds(i) \/ PutRead(i) \/ PutFails(i) \/ PutWrites(i)
        \/ RefreshRead(i) \/ RefreshApply(i) \/ RefreshFails(i)
    \/ Probe \/ HydrateRead \/ HydrateApply \/ Reload
    \/ Replay \/ ReplayWrites

Spec == Init /\ [][Next]_vars

-----------------------------------------------------------------------------
(* The balance of the student is the sum of his entries, and before the      *)
(* opening entry the balance of before the ledger is missing from the sum:   *)
(* whatever the tills do while generate_opening_balance_entries runs, unless *)
(* a balance is written, or migrated, by what had been read before a change  *)
(* (the student is read without a lock).                                     *)
LedgerMatches ==
    ledger /\ ~torn => balance = sum + IF migration.pc = "done" THEN 0 ELSE opening

Outstanding(i) ==
    LET t == ticket[i]
        waits == \/ \E op \in queue : (op.of = i /\ <<op.id, i>> \notin entered)
                 \/ ~t.queued /\ t.pc \in {"put", "putting"}
    IN  IF waits THEN t.delta ELSE 0

\* The sum of f over the tickets.
Total(f) ==
    LET upTo[n \in 0..MaxTickets] == IF n = 0 THEN 0 ELSE upTo[n - 1] + f[n]
    IN  upTo[MaxTickets]

(* What the tills have recorded reaches the balance once: it is in it, or in *)
(* the queue, or on its way, through lost answers, retries, falling back and *)
(* the migration; without the ledger, once nothing is on its way.  The       *)
(* losses that the code does not prevent are those that set disturbed.       *)
EveryChangeCounts ==
    LET true == opening + others + owed
    IN  ~disturbed => IF ledger THEN balance + Total([i \in Tickets |-> Outstanding(i)]) = true
                      ELSE Sending \/ balance = true

=============================================================================
