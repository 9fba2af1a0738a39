------------------------------- MODULE Checkout -------------------------------
(***************************************************************************)
(* The till of one browser tab: the cart, the completion of a sale, the     *)
(* pickup and cancellation of reservations, and withdrawals and receipts    *)
(* (checkoutController.js, checkoutService.js, useCart.js, App.jsx), with   *)
(* their way to the server, by requests or by the offline queue             *)
(* (processSyncQueueOnce).                                                  *)
(*                                                                         *)
(* One book.  A ticket is one click on a button that completes something.   *)
(* The copies of the queue, its retries and its locks are the subject of    *)
(* OfflineQueue and ReplayLock; that the server applies an operation of the *)
(* queue once is proved in SyncReplay.  Money is not modelled.              *)
(***************************************************************************)
EXTENDS Naturals, Sequences, SequencesExt, FiniteSets

CONSTANTS
    MaxTickets,     \* bound: tickets
    MaxRows,        \* bound: reservations in the database
    MaxEdits,       \* bound: changes of the cart and of the list, and reloads of the page
    MaxFaults       \* bound: requests that fail, or are refused for want of stock

Tickets == 1..MaxTickets
Rows == 1..MaxRows

\* Receipt numbers: transactionCounter, which no step raises more than once a ticket.
Numbers == 1..(MaxTickets + 1)

ASSUME BoundsAssumption == /\ MaxTickets \in Nat /\ MaxRows \in Nat \ {0}
                           /\ MaxEdits \in Nat   /\ MaxFaults \in Nat

VARIABLES
    online,         \* useBackend
    counter,        \* transactionCounter
    cart,           \* the lines of the cart
    listed,         \* pendingReservations
    mapped,         \* syncMap.reservations: the row of each local id, 0 if none
    queue,          \* syncQueue
    cycle,          \* the replay cycle, and the syncMap of the render it started in
    hydration,      \* the effect that fetches the core data
    ticket,         \* each ticket, its step and what it closed over
    used,           \* tickets 1..used exist
    row,            \* the reservations in the database
    applied,        \* history: how often the server applied each ticket's request
    doubted,        \* history: tickets a part of which was applied when they failed
    clash,          \* history: a receipt number may have been given twice
    edits, faults

vars == <<online, counter, cart, listed, mapped, queue, cycle, hydration, ticket,
          used, row, applied, doubted, clash, edits, faults>>

server == <<row, applied>>
history == <<doubted, clash>>
bounds == <<edits, faults>>

-----------------------------------------------------------------------------
(* Who buys: the student of row 1, one that is typed in, or nobody.         *)
Customers == {"known", "new", "nobody"}

(* An entry of pendingReservations: the id is `ED-<n>-<book>` for one made  *)
(* here, n for one fetched from the server, and `LEG-...` for one copied    *)
(* from the old notebook.  from is the ticket that made it, 0 for none.     *)
Entry == [side : {"local", "server", "legacy"}, n : 0..(MaxTickets + MaxRows), from : 0..MaxTickets]

NoEntry == [side |-> "none", n |-> 0, from |-> 0]

Legacy == [side |-> "legacy", n |-> 0, from |-> 0]

SameId(e, f) == e.side = f.side /\ e.n = f.n

\* The cart has a line of a sale, maybe linked to a reservation, and one of a reservation.
Cart == [sale : BOOLEAN, link : Entry \cup {NoEntry}, reserve : BOOLEAN]

EmptyCart == [sale |-> FALSE, link |-> NoEntry, reserve |-> FALSE]

\* memo: a withdrawal from the safe, or a receipt for the archive.
Kinds == {"none", "sale", "pickup", "modal", "cancel", "memo"}

(* reserve, sell, memo: the request is on its way.  commit: both answered.  *)
(* refresh, reading: fetchCoreSnapshot.  gone: it ended without a record.   *)
Pc == {"none", "reserve", "sell", "memo", "refresh", "reading", "done", "gone"}

Ticket == [kind : Kinds, pc : Pc, number : Numbers, customer : Customers, cart : Cart,
           recorded : BOOLEAN, seen : SUBSET Entry]

NoTicket == [kind |-> "none", pc |-> "none", number |-> 1, customer |-> "nobody",
             cart |-> EmptyCart, recorded |-> FALSE, seen |-> {}]

(* An operation of the queue; result is what the server has recorded for it *)
(* (the row it made, or one more than the row it named), and 0 before it    *)
(* was applied.                                                             *)
OpKinds == {"student", "reserve", "sell", "cancel", "memo"}

OpId == OpKinds \X Tickets

Op == [kind : OpKinds, of : Tickets, needs : SUBSET OpId,
       later : BOOLEAN, dead : BOOLEAN, result : 0..(MaxRows + 1)]

Row == [state : {"none", "pending", "completed", "cancelled"},
        by : 0..MaxTickets, ended : 0..MaxTickets]

NoRow == [state |-> "none", by |-> 0, ended |-> 0]

NoMap == [n \in Numbers |-> 0]

TypeOK ==
    /\ online \in BOOLEAN
    /\ counter \in Numbers
    /\ cart \in Cart
    /\ listed \subseteq Entry
    /\ mapped \in [Numbers -> 0..MaxRows]
    /\ queue \in Seq(Op)
    /\ cycle \in [on : BOOLEAN, map : [Numbers -> 0..MaxRows]]
    /\ hydration \in [pc : {"none", "start", "reading"}, seen : SUBSET Entry]
    /\ ticket \in [Tickets -> Ticket]
    /\ used \in 0..MaxTickets
    /\ row \in [Rows -> Row]
    /\ applied \in [Tickets -> Nat]
    /\ doubted \subseteq Tickets
    /\ clash \in BOOLEAN
    /\ edits \in 0..MaxEdits
    /\ faults \in 0..MaxFaults

NoHydration == [pc |-> "none", seen |-> {}]
Hydrating == [pc |-> "start", seen |-> {}]
NoCycle == [on |-> FALSE, map |-> NoMap]

(* The page is opened with an offline snapshot; Reload opens it with another. *)
Init ==
    /\ online = FALSE
    /\ counter = 1
    /\ row = [r \in Rows |-> IF r = 1 THEN [NoRow EXCEPT !.state = "pending"] ELSE NoRow]
    /\ listed = {[side |-> "server", n |-> 1, from |-> 0]}
    /\ cart \in {EmptyCart} \cup {[EmptyCart EXCEPT !.sale = TRUE, !.link = e] : e \in listed}
    /\ mapped = NoMap
    /\ queue = <<>>
    /\ cycle = NoCycle
    /\ hydration = NoHydration
    /\ ticket = [i \in Tickets |-> NoTicket]
    /\ used = 0
    /\ applied = [i \in Tickets |-> 0]
    /\ doubted = {}
    /\ clash = FALSE
    /\ edits = 0
    /\ faults = 0

-----------------------------------------------------------------------------
(* The server.                                                              *)
Customer(i) == IF i = 0 THEN "known" ELSE ticket[i].customer

Pending == {r \in Rows : row[r].state = "pending"}

\* A book is reserved for a student once at a time.
MayReserve(i) ==
    /\ \A r \in Pending : Customer(row[r].by) # Customer(i)
    /\ \E r \in Rows : row[r].state = "none"

NextRow == CHOOSE r \in Rows : row[r].state = "none"

Reserved(i) == [row EXCEPT ![NextRow] = [state |-> "pending", by |-> i, ended |-> 0]]

\* create_transaction, with the reservation r or with none.
MaySell(i, r) ==
    /\ Customer(i) # "nobody"
    /\ r # 0 => row[r].state = "pending" /\ Customer(row[r].by) = Customer(i)

Sold(i, r) == IF r = 0 THEN row ELSE [row EXCEPT ![r].state = "completed", ![r].ended = i]

\* cancel_reservation refuses a completed one.
MayCancel(r) == r # 0 /\ row[r].state \in {"pending", "cancelled"}

Cancelled(i, r) ==
    IF row[r].state = "cancelled" THEN row
    ELSE [row EXCEPT ![r].state = "cancelled", ![r].ended = i]

Served(i) == applied' = [applied EXCEPT ![i] = @ + 1]

(* What GET /reservations answers, as buildPendingReservations maps it.     *)
Fetched == {[side |-> "server", n |-> r, from |-> row[r].by] : r \in Pending}

Fault == faults < MaxFaults /\ faults' = faults + 1 /\ UNCHANGED edits

Edit == edits < MaxEdits /\ edits' = edits + 1 /\ UNCHANGED faults

-----------------------------------------------------------------------------
(* The queue.                                                               *)
Id(op) == <<op.kind, op.of>>

Ids(q) == {Id(q[k]) : k \in DOMAIN q}

\* deriveDependencies: the queued student, and the queued reservation with the linked id.
Needs(q, i, t) ==
    {id \in Ids(q) : id[1] = "student" /\ t.customer = "new"} \cup
    {<<"reserve", j>> : j \in {h \in Tickets : /\ <<"reserve", h>> \in Ids(q)
                                               /\ t.cart.link.side = "local"
                                               /\ ticket[h].number = t.cart.link.n}}

NewOp(q, kind, i, t) ==
    [kind |-> kind, of |-> i, needs |-> IF kind \in {"student", "memo"} THEN {} ELSE Needs(q, i, t),
     later |-> FALSE, dead |-> FALSE, result |-> 0]

\* enqueueSync for each operation of a ticket, in this order.
Enqueue(i, t, kinds) ==
    LET With(q, kind) == IF kind \in kinds THEN Append(q, NewOp(q, kind, i, t)) ELSE q
    IN  With(With(With(With(queue, "student"), "reserve"), "sell"), "memo")

\* sortReplayQueue: retried ones last, student_upsert after the others, then by age.
Rank(op) == IF op.later THEN 2 ELSE IF op.kind = "student" THEN 1 ELSE 0

Heads ==
    {k \in DOMAIN queue :
        \A j \in DOMAIN queue :
            \/ Rank(queue[k]) < Rank(queue[j])
            \/ Rank(queue[k]) = Rank(queue[j]) /\ (k <= j \/ queue[k].later)}

Blocked(op) == op.dead \/ op.needs \cap Ids(queue) # {}

-----------------------------------------------------------------------------
(* The cart.                                                                *)
\* addToCart and addCartLine: an existing line keeps its link.
AddToCart ==
    /\ Edit
    /\ \/ \E e \in listed : cart' = [cart EXCEPT !.sale = TRUE, !.link = IF cart.sale THEN @ ELSE e]
       \/ cart' = [cart EXCEPT !.sale = TRUE]
       \/ cart' = [cart EXCEPT !.reserve = TRUE]
    /\ cart' # cart
    /\ UNCHANGED <<online, counter, listed, mapped, queue, cycle, hydration, ticket, used,
                   server, history>>

\* updateCartType: a line that becomes a reservation loses its link; an existing
\* line absorbs the one that is changed.
ChangeType ==
    /\ Edit
    /\ \/ cart.sale /\ cart' = [EmptyCart EXCEPT !.reserve = TRUE]
       \/ cart.reserve /\ cart' = [cart EXCEPT !.sale = TRUE, !.reserve = FALSE]
    /\ UNCHANGED <<online, counter, listed, mapped, queue, cycle, hydration, ticket, used,
                   server, history>>

\* updateCartQty, when it reaches zero.
RemoveLine ==
    /\ Edit
    /\ \/ cart.sale /\ cart' = [cart EXCEPT !.sale = FALSE, !.link = NoEntry]
       \/ cart.reserve /\ cart' = [cart EXCEPT !.reserve = FALSE]
    /\ UNCHANGED <<online, counter, listed, mapped, queue, cycle, hydration, ticket, used,
                   server, history>>

-----------------------------------------------------------------------------
(* completeSale.                                                            *)
NewTicket(kind, customer, c) ==
    [NoTicket EXCEPT !.kind = kind, !.customer = customer, !.cart = c, !.number = counter]

Use(i) == i = used + 1 /\ i \in Tickets /\ used' = i

\* Mutant of Raised: the reservations and the sale of a cart take a number each.
RaisedTwice == counter + 2

Raised == counter + 1

\* The number is that of the last render, which an earlier click has not raised yet.
Numbered == clash' = (clash \/ \E i \in Tickets : ticket[i].pc \in {"reserve", "sell"})

\* Mutant of Parts: a cart with both kinds of lines leaves only the reservation.
PartsEither(t) ==
    IF t.cart.reserve THEN IF t.customer # "nobody" THEN {"reserve"} ELSE {}
    ELSE IF t.cart.sale THEN {"sell"} ELSE {}

\* What a sale leaves to the queue: buildReservationRecords drops what has no student.
Parts(t) ==
    (IF t.cart.reserve /\ t.customer # "nobody" THEN {"reserve"} ELSE {}) \cup
    (IF t.cart.sale THEN {"sell"} ELSE {})

Without(entries, e) == {f \in entries : ~SameId(f, e)}

(* The sale is recorded here: the number is spent, the reservations made    *)
(* are listed, the one collected is not, and the queue takes the rest.      *)
RecordOffline(i, t, kinds) ==
    /\ queue' = Enqueue(i, t, kinds)
    /\ listed' =
        Without(listed \cup
            (IF t.cart.reserve /\ t.customer # "nobody"
             THEN {[side |-> "local", n |-> t.number, from |-> i]} ELSE {}), t.cart.link)
    /\ counter' = Raised

(* The button: the cart, the counter and useBackend are those of the last   *)
(* render, and a second click does not wait for the first.                  *)
CompleteOnline(i, customer) ==
    /\ online /\ Use(i) /\ (cart.sale \/ cart.reserve)
    /\ customer # "nobody"
    /\ customer = "new" => \A j \in Tickets : ticket[j].customer # "new"
    /\ Numbered
    /\ ticket' = [ticket EXCEPT ![i] = [NewTicket("sale", customer, cart) EXCEPT
                    !.pc = IF cart.reserve THEN "reserve" ELSE "sell"]]
    /\ UNCHANGED <<online, counter, cart, listed, mapped, queue, cycle, hydration,
                   server, doubted, bounds>>

CompleteOffline(i, customer) ==
    LET t == [NewTicket("sale", customer, cart) EXCEPT !.pc = "done", !.recorded = TRUE]
    IN  /\ ~online /\ Use(i) /\ (cart.sale \/ cart.reserve)
        /\ customer = "new" => \A j \in Tickets : ticket[j].customer # "new"
        /\ Numbered
        /\ ticket' = [ticket EXCEPT ![i] = t]
        /\ RecordOffline(i, t, Parts(t) \cup IF customer = "new" THEN {"student"} ELSE {})
        /\ cart' = EmptyCart
        /\ UNCHANGED <<online, mapped, cycle, hydration, server, doubted, bounds>>

Step(i, pc) == ticket' = [ticket EXCEPT ![i].pc = pc]

At(i, pc) == ticket[i].pc = pc

(* A request failed: the mode is offline, and everything goes to the queue. *)
FallBack(i) ==
    /\ online' = FALSE
    /\ hydration' = NoHydration
    /\ RecordOffline(i, ticket[i], Parts(ticket[i]))
    /\ ticket' = [ticket EXCEPT ![i].pc = "refresh", ![i].recorded = TRUE]

\* Mutant of Commit: the number is not spent.
CommitKeepsNumber(i) ==
    /\ ticket' = [ticket EXCEPT ![i].pc = "refresh", ![i].recorded = TRUE]
    /\ UNCHANGED counter

\* Both requests were answered.
Commit(i) ==
    /\ ticket' = [ticket EXCEPT ![i].pc = "refresh", ![i].recorded = TRUE]
    /\ counter' = Raised

(* POST /reservations: it is answered, its answer is lost, it is refused or *)
(* does not arrive, or it meets the end of the session.                     *)
ReserveOnline(i) ==
    /\ At(i, "reserve")
    /\ UNCHANGED <<cart, mapped, cycle, used, applied, clash>>
    /\ \/ /\ MayReserve(i)
          /\ row' = Reserved(i)
          /\ IF ticket[i].cart.sale THEN Step(i, "sell") /\ UNCHANGED counter ELSE Commit(i)
          /\ UNCHANGED <<online, listed, queue, hydration, doubted, bounds>>
       \/ /\ MayReserve(i) /\ Fault
          /\ row' = Reserved(i)
          /\ doubted' = doubted \cup {i}
          /\ FallBack(i)
       \/ /\ IF MayReserve(i) THEN Fault ELSE UNCHANGED bounds
          /\ FallBack(i)
          /\ UNCHANGED <<row, doubted>>
       \/ /\ Fault /\ Step(i, "gone")
          /\ UNCHANGED <<online, counter, listed, queue, hydration, row, doubted>>

\* Number(id) of a local id is NaN, which JSON turns into null.
OnlineRow(e) == IF e.side = "server" THEN e.n ELSE 0

(* POST /transactions.                                                      *)
SellOnline(i) ==
    LET r == OnlineRow(ticket[i].cart.link)
    IN  /\ At(i, "sell")
        /\ UNCHANGED <<cart, mapped, cycle, used, clash>>
        /\ \/ /\ MaySell(i, r)
              /\ row' = Sold(i, r) /\ Served(i)
              /\ Commit(i)
              /\ UNCHANGED <<online, listed, queue, hydration, doubted, bounds>>
           \/ /\ MaySell(i, r) /\ Fault
              /\ row' = Sold(i, r) /\ Served(i)
              /\ doubted' = doubted \cup {i}
              /\ FallBack(i)
           \/ /\ IF MaySell(i, r) THEN Fault ELSE UNCHANGED bounds
              /\ doubted' = IF ticket[i].cart.reserve THEN doubted \cup {i} ELSE doubted
              /\ FallBack(i)
              /\ UNCHANGED server
           \/ /\ Fault /\ Step(i, "gone")
              /\ UNCHANGED <<online, counter, listed, queue, hydration, server, history>>

(* fetchCoreSnapshot, which the server answers before it is applied, ...    *)
RefreshRead(i) ==
    /\ At(i, "refresh")
    /\ ticket' = [ticket EXCEPT ![i].pc = "reading", ![i].seen = Fetched]
    /\ UNCHANGED <<online, counter, cart, listed, mapped, queue, cycle, hydration, used,
                   server, history, bounds>>

(* ... or which fails; then the cart is cleared, whatever is in it by now.  *)
Refreshed(i) ==
    /\ \/ At(i, "reading") /\ listed' = ticket[i].seen /\ UNCHANGED bounds
       \/ At(i, "refresh") /\ Fault /\ UNCHANGED listed
    /\ ticket' = [ticket EXCEPT ![i].pc = "done", ![i].seen = {}]
    /\ cart' = EmptyCart
    /\ UNCHANGED <<online, counter, mapped, queue, cycle, hydration, used, server, history>>

-----------------------------------------------------------------------------
(* Reservations, withdrawals and receipts.                                  *)
Linked(e) == [EmptyCart EXCEPT !.sale = TRUE, !.link = e]

\* The onComplete of the pickup view: always by way of the queue.
Pickup(i, e) ==
    LET t == [NewTicket("pickup", Customer(e.from), Linked(e)) EXCEPT !.pc = "done", !.recorded = TRUE]
    IN  /\ Use(i) /\ e \in listed
        /\ Numbered
        /\ ticket' = [ticket EXCEPT ![i] = t]
        /\ RecordOffline(i, t, {"sell"})
        /\ UNCHANGED <<online, cart, mapped, cycle, hydration, server, doubted, bounds>>

\* The onPickup of StudentDetailsModal, which queues nothing but a payment.
PickupFromDetails(i, e) ==
    LET t == [NewTicket("modal", Customer(e.from), Linked(e)) EXCEPT !.pc = "done", !.recorded = TRUE]
    IN  /\ Use(i) /\ e \in listed
        /\ Numbered
        /\ ticket' = [ticket EXCEPT ![i] = t]
        /\ RecordOffline(i, t, {})
        /\ UNCHANGED <<online, cart, mapped, cycle, hydration, server, doubted, bounds>>

(* The onComplete of the cancel view; dedupeQueue drops an earlier          *)
(* cancellation of the same id, of which there is one at most.              *)
CancelReservation(i, e) ==
    LET t == [NewTicket("cancel", Customer(e.from), Linked(e)) EXCEPT !.pc = "done"]
        same == {k \in DOMAIN queue :
                    queue[k].kind = "cancel" /\ SameId(ticket[queue[k].of].cart.link, e)}
        others == IF same = {} THEN queue ELSE RemoveAt(queue, CHOOSE k \in same : TRUE)
    IN  /\ Use(i) /\ e \in listed
        /\ ticket' = [ticket EXCEPT ![i] = t]
        /\ queue' = Append(others, NewOp(queue, "cancel", i, t))
        /\ listed' = Without(listed, e)
        /\ UNCHANGED <<online, counter, cart, mapped, cycle, hydration, server, history, bounds>>

\* LegacyReservationModal: a reservation that exists in this list only.
AddLegacy ==
    /\ Edit
    /\ Legacy \notin listed
    /\ listed' = listed \cup {Legacy}
    /\ UNCHANGED <<online, counter, cart, mapped, queue, cycle, hydration, ticket, used,
                   server, history>>

\* handleAudit empties the list.
Audit ==
    /\ Edit
    /\ listed' = {}
    /\ UNCHANGED <<online, counter, cart, mapped, queue, cycle, hydration, ticket, used,
                   server, history>>

\* handleEmergencySubmit and archiveAndPrintReceipt: recorded first, then sent, ...
Memo(i) ==
    LET t == [NewTicket("memo", "nobody", EmptyCart) EXCEPT !.recorded = TRUE]
    IN  /\ Use(i)
        /\ ticket' = [ticket EXCEPT ![i] = [t EXCEPT !.pc = IF online THEN "memo" ELSE "done"]]
        /\ queue' = IF online THEN queue ELSE Enqueue(i, t, {"memo"})
        /\ UNCHANGED <<online, counter, cart, listed, mapped, cycle, hydration, server, history, bounds>>

\* ... and queued when that fails, for whatever reason.
MemoSent(i) ==
    /\ At(i, "memo")
    /\ Step(i, "done")
    /\ \/ Served(i) /\ UNCHANGED <<queue, doubted, bounds>>
       \/ Fault /\ Served(i) /\ queue' = Enqueue(i, ticket[i], {"memo"}) /\ doubted' = doubted \cup {i}
       \/ Fault /\ queue' = Enqueue(i, ticket[i], {"memo"}) /\ UNCHANGED <<applied, doubted>>
    /\ UNCHANGED <<online, counter, cart, listed, mapped, cycle, hydration, used, row, clash>>

-----------------------------------------------------------------------------
(* The mode.                                                                *)
\* The probe finds the server; the effect that fetches the core data starts.
Probe ==
    /\ ~online
    /\ online' = TRUE
    /\ hydration' = Hydrating
    /\ UNCHANGED <<counter, cart, listed, mapped, queue, cycle, ticket, used, server, history, bounds>>

HydrateRead ==
    /\ hydration.pc = "start"
    /\ hydration' = [pc |-> "reading", seen |-> Fetched]
    /\ UNCHANGED <<online, counter, cart, listed, mapped, queue, cycle, ticket, used,
                   server, history, bounds>>

HydrateApply ==
    /\ hydration.pc = "reading"
    /\ listed' = hydration.seen
    /\ hydration' = NoHydration
    /\ UNCHANGED <<online, counter, cart, mapped, queue, cycle, ticket, used, server, history, bounds>>

HydrateFails ==
    /\ hydration.pc = "start" /\ Fault
    /\ online' = FALSE
    /\ hydration' = NoHydration
    /\ UNCHANGED <<counter, cart, listed, mapped, queue, cycle, ticket, used, server, history>>

(* The page is reloaded: the snapshot of the online mode has neither the    *)
(* counter nor the cart nor the reservations.                               *)
Reload ==
    /\ Edit
    /\ IF online
       THEN counter' = 1 /\ listed' = {} /\ cart' = EmptyCart /\ hydration' = Hydrating
       ELSE UNCHANGED <<counter, listed, cart, hydration>>
    /\ ticket' = [i \in Tickets |->
            IF ticket[i].pc \in {"reserve", "sell", "memo", "refresh", "reading"}
            THEN [ticket[i] EXCEPT !.pc = "gone", !.seen = {}] ELSE ticket[i]]
    /\ cycle' = NoCycle
    /\ clash' = (clash \/ online)
    /\ UNCHANGED <<online, mapped, queue, used, server, doubted>>

-----------------------------------------------------------------------------
(* processSyncQueueOnce.                                                    *)
ReplayStart ==
    /\ online /\ ~cycle.on /\ queue # <<>>
    /\ cycle' = [on |-> TRUE, map |-> mapped]
    /\ UNCHANGED <<online, counter, cart, listed, mapped, queue, hydration, ticket, used,
                   server, history, bounds>>

ReplayStop ==
    /\ cycle.on
    /\ queue = <<>> \/ \E k \in Heads : Blocked(queue[k])
    /\ cycle' = NoCycle
    /\ UNCHANGED <<online, counter, cart, listed, mapped, queue, hydration, ticket, used,
                   server, history, bounds>>

\* Mutant of ReplayRow: the number of an id that is not in the map is taken for a row.
ReplayRowNumber(op) ==
    LET e == ticket[op.of].cart.link
        known == IF e.side = "local" THEN IF cycle.map[e.n] = 0 THEN e.n ELSE cycle.map[e.n] ELSE 0
    IN  IF op.kind = "cancel" /\ e.side = "server" THEN e.n ELSE known

\* The row a queued operation names: a sale sends null for what is not in the map.
ReplayRow(op) ==
    LET e == ticket[op.of].cart.link
        known == IF e.side = "local" THEN cycle.map[e.n] ELSE 0
    IN  IF op.kind = "cancel" /\ e.side = "server" THEN e.n ELSE known

\* A retry must name the row it named before, else its fingerprint is another one.
Accepts(op) ==
    \/ op.result # 0 /\ (op.kind \in {"sell", "cancel"} => op.result = ReplayRow(op) + 1)
    \/ op.kind \in {"student", "memo"}
    \/ op.kind = "reserve" /\ op.result = 0 /\ MayReserve(op.of)
    \/ op.kind = "sell" /\ op.result = 0 /\ MaySell(op.of, ReplayRow(op))
    \/ op.kind = "cancel" /\ op.result = 0 /\ MayCancel(ReplayRow(op))

\* Mutant of Result: the server keeps no record of what it has applied.
ResultForgotten(op) == IF op.kind = "reserve" THEN NextRow ELSE 0

Result(op) ==
    IF op.result # 0 THEN op.result
    ELSE CASE op.kind = "reserve" -> NextRow
           [] op.kind \in {"sell", "cancel"} -> ReplayRow(op) + 1
           [] OTHER -> 1

\* The server's side of an operation it accepts: nothing, when it was applied before.
Effect(op) ==
    IF op.result # 0 THEN UNCHANGED server
    ELSE /\ row' = CASE op.kind = "reserve" -> Reserved(op.of)
                     [] op.kind = "sell" -> Sold(op.of, ReplayRow(op))
                     [] op.kind = "cancel" -> Cancelled(op.of, ReplayRow(op))
                     [] OTHER -> row
         /\ IF op.kind \in {"sell", "memo"} THEN Served(op.of) ELSE UNCHANGED applied

\* Mutant of ReplaySucceeds: the row of the new reservation is not kept.
ReplayUnmapped(k) ==
    /\ Accepts(queue[k]) /\ Effect(queue[k])
    /\ queue' = RemoveAt(queue, k)
    /\ UNCHANGED <<mapped, cycle, bounds>>

\* Mutant of ReplaySucceeds: the operation that was answered stays in the queue.
ReplayKept(k) ==
    /\ Accepts(queue[k]) /\ Effect(queue[k])
    /\ queue' = [queue EXCEPT ![k].result = Result(queue[k])]
    /\ UNCHANGED <<mapped, cycle, bounds>>

\* The operation is answered and removed; the id of a new reservation is kept.
ReplaySucceeds(k) ==
    LET op == queue[k]
    IN  /\ Accepts(op) /\ Effect(op)
        /\ queue' = RemoveAt(queue, k)
        /\ mapped' = IF op.kind = "reserve"
                     THEN [mapped EXCEPT ![ticket[op.of].number] = Result(op)] ELSE mapped
        /\ UNCHANGED <<cycle, bounds>>

\* No answer arrives, and the operation is retried by a later cycle.
ReplayUnanswered(k) ==
    LET op == queue[k]
    IN  /\ Fault
        /\ \/ Accepts(op) /\ Effect(op) /\ queue' = [queue EXCEPT ![k].later = TRUE, ![k].result = Result(op)]
           \/ UNCHANGED server /\ queue' = [queue EXCEPT ![k].later = TRUE]
        /\ cycle' = NoCycle
        /\ UNCHANGED mapped

\* The server refuses it: it stays in the queue, quarantined or failed for good.
ReplayRefused(k) ==
    /\ IF Accepts(queue[k])
       THEN queue[k].kind \in {"reserve", "sell"} /\ queue[k].result = 0 /\ Fault
       ELSE UNCHANGED bounds
    /\ queue' = [queue EXCEPT ![k].dead = TRUE, ![k].later = FALSE]
    /\ cycle' = NoCycle
    /\ UNCHANGED <<server, mapped>>

Replay ==
    /\ cycle.on
    /\ \E k \in Heads :
        /\ ~Blocked(queue[k])
        /\ ReplaySucceeds(k) \/ ReplayUnanswered(k) \/ ReplayRefused(k)
    /\ UNCHANGED <<online, counter, cart, listed, hydration, ticket, used, history>>

-----------------------------------------------------------------------------
Serve(i) == ReserveOnline(i) \/ SellOnline(i) \/ RefreshRead(i) \/ Refreshed(i) \/ MemoSent(i)

Next ==
    \/ AddToCart \/ ChangeType \/ RemoveLine \/ AddLegacy \/ Audit
    \/ \E i \in Tickets :
        \/ \E customer \in Customers : CompleteOnline(i, customer) \/ CompleteOffline(i, customer)
        \/ \E e \in listed : Pickup(i, e) \/ PickupFromDetails(i, e) \/ CancelReservation(i, e)
        \/ Memo(i) \/ Serve(i)
    \/ Probe \/ HydrateRead \/ HydrateApply \/ HydrateFails \/ Reload
    \/ ReplayStart \/ ReplayStop \/ Replay

Spec == Init /\ [][Next]_vars

(* The server answers, the probe and the reconnect timer run, and a started  *)
(* cycle goes on.                                                           *)
Fairness ==
    /\ \A i \in Tickets : WF_vars(Serve(i))
    /\ WF_vars(Probe) /\ WF_vars(ReplayStart) /\ WF_vars(ReplayStop) /\ WF_vars(Replay)

FairSpec == Spec /\ Fairness

-----------------------------------------------------------------------------
Queued(kind, i) == <<kind, i>> \in Ids(queue)

Unapplied(kind, i) ==
    Cardinality({k \in DOMAIN queue : Id(queue[k]) = <<kind, i>> /\ queue[k].result = 0})

RowsOf(i) == {r \in Rows : row[r].by = i}

(* What the till has shown as completed is not lost: until the server has    *)
(* applied it, the sale, the reservation or the withdrawal is in the queue,  *)
(* whatever request failed in between (completeSale).                        *)
RecordedIsKept ==
    \A i \in Tickets : ticket[i].recorded =>
        /\ ticket[i].kind \in {"sale", "pickup"} /\ ticket[i].cart.sale =>
               applied[i] > 0 \/ Queued("sell", i)
        /\ ticket[i].cart.reserve /\ ticket[i].customer # "nobody" =>
               RowsOf(i) # {} \/ Queued("reserve", i)
        /\ ticket[i].kind = "memo" =>
               applied[i] > 0 \/ Queued("memo", i) \/ ticket[i].pc \in {"memo", "gone"}

(* A sale, a reservation or a withdrawal is applied once, even when the       *)
(* answers to its replay are lost.  It may be applied twice only when an      *)
(* online request was applied and then counted as failed, since that request  *)
(* and the queued operation have no id in common.                             *)
AppliedOnceUnlessDoubted ==
    \A i \in Tickets \ doubted :
        /\ applied[i] + Unapplied("sell", i) + Unapplied("memo", i) <= 1
        /\ Cardinality(RowsOf(i)) + Unapplied("reserve", i) <= 1

(* Two completed tickets have different receipt numbers, unless one was begun *)
(* while another was under way, or the page was reloaded when it was online   *)
(* (transactionCounter is part of the offline snapshot only).                 *)
NumbersDiffer ==
    ~clash => \A i, j \in Tickets :
        ticket[i].recorded /\ ticket[j].recorded /\ i # j
        /\ ticket[i].kind # "memo" /\ ticket[j].kind # "memo" => ticket[i].number # ticket[j].number

(* A reservation in the database is completed or cancelled only by the ticket *)
(* whose line was linked to it: local ids, receipt numbers and row numbers    *)
(* are not taken for each other on the way through the queue and the map.     *)
OwnReservation ==
    ~clash => \A r \in Rows : row[r].ended # 0 => row[r].by = ticket[row[r].ended].cart.link.from

(* A reservation of the list that was made here is known to the server or     *)
(* still in the queue (the list, the queue and syncMap are changed apart).    *)
ListedIsBacked ==
    \A e \in listed : e.side = "local" =>
        mapped[e.n] # 0 \/ \E i \in Tickets : Queued("reserve", i) /\ ticket[i].number = e.n

(* Once the queue holds nothing of a pickup, the reservation is no longer     *)
(* pending on the server: what the comment of the pickup view takes for       *)
(* granted when it deducts no stock.                                          *)
PickupCompletes ==
    \A i \in Tickets : ticket[i].kind \in {"pickup", "modal"} /\ ~Queued("sell", i) =>
        \A r \in Pending : row[r].by # ticket[i].cart.link.from

(* Whatever was recorded is delivered in the end, unless the head of the      *)
(* queue was refused or waits for another operation: losing the connection,   *)
(* falling back and reloading the page do not stop the replay.                *)
EventuallyServed ==
    \A i \in Tickets : ticket[i].recorded ~>
        \/ \A kind \in OpKinds : ~Queued(kind, i)
        \/ \E k \in Heads : Blocked(queue[k])

=============================================================================
