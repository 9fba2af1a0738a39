------------------------------- MODULE BookStock ------------------------------
(***************************************************************************)
(* The stock of one book, its reservations and their deposits               *)
(* (reservation_service.py, transaction_service.py, the routers books.py    *)
(* and inventory.py, and create_journal_entry of accounting.py).            *)
(*                                                                         *)
(* Requests run in parallel.  What a handler does between SELECT ... FOR    *)
(* UPDATE of the book and its commit is one step; what it reads before it   *)
(* takes the lock, or without one, it keeps until then.  A refused request  *)
(* changes nothing, and takes no step.                                      *)
(***************************************************************************)
EXTENDS Integers, FiniteSets

CONSTANTS
    Reservations,   \* the ids of the reservations
    Student,        \* the student of each reservation
    Workers,        \* requests that may be served at one time
    Stock,          \* the copies there are at first
    Quantities,     \* bound: the quantities asked for
    MaxTotal,       \* bound: the copies there may be
    EditValues,     \* bound: the values an edit of the book may submit
    MaxRequests     \* bound: the requests served

ASSUME QuantitiesAssumption == Quantities \subseteq Nat \ {0}
ASSUME StockAssumption == Stock \in Nat /\ MaxTotal \in Nat
ASSUME MaxRequestsAssumption == MaxRequests \in Nat

VARIABLES
    book,           \* the row of the book
    reservation,    \* the rows of the reservations
    posted,         \* reservations with a journal entry "reservation_cancel"
    refunds,        \* the safe transactions that refund each deposit
    applied,        \* the sales that completed each reservation and deducted its deposit
    request,        \* what each worker has read, and means to do
    disturbed,      \* history: reservations written by a request that had read another state
    edited,         \* history: an edit has overwritten the stock
    served          \* the requests served so far

vars == <<book, reservation, posted, refunds, applied, request, disturbed, edited, served>>

Status == {"none", "pending", "completed", "cancelled"}

Book == [total : Int, reserved : Nat, arriving : BOOLEAN]

ASSUME EditValuesAssumption == EditValues \subseteq Book

Reservation == [status : Status, quantity : Nat, deposit : BOOLEAN]

Fresh == [status |-> "none", quantity |-> 0, deposit |-> FALSE]

NoRequest == [op |-> "none"]

Request ==
    {NoRequest} \cup
    [op : {"cancel"}, id : Reservations, seen : Reservation] \cup
    [op : {"update"}, id : Reservations, seen : Reservation, status : Status] \cup
    [op : {"edit"}, seen : Book, values : Book]

TypeOK ==
    /\ book \in Book
    /\ reservation \in [Reservations -> Reservation]
    /\ posted \subseteq Reservations
    /\ refunds \in [Reservations -> Nat]
    /\ applied \in [Reservations -> Nat]
    /\ request \in [Workers -> Request]
    /\ disturbed \subseteq Reservations
    /\ edited \in BOOLEAN
    /\ served \in 0..MaxRequests

Init ==
    /\ \E arriving \in BOOLEAN : book = [total |-> Stock, reserved |-> 0, arriving |-> arriving]
    /\ reservation = [r \in Reservations |-> Fresh]
    /\ posted = {}
    /\ refunds = [r \in Reservations |-> 0]
    /\ applied = [r \in Reservations |-> 0]
    /\ request = [w \in Workers |-> NoRequest]
    /\ disturbed = {}
    /\ edited = FALSE
    /\ served = 0

-----------------------------------------------------------------------------
Serve == served < MaxRequests /\ served' = served + 1

Available == book.total - book.reserved

\* Mutant of Released: without the max.
ReleasedBelow(quantity) == book.reserved - quantity

\* max(0, book.reserved_stock - quantity)
Released(quantity) == IF book.reserved > quantity THEN book.reserved - quantity ELSE 0

Pending(r) == reservation[r].status = "pending"

Rivals(r) == {q \in Reservations : Student[q] = Student[r] /\ Pending(q)}

\* Mutant of CreateReservation: the student's pending reservation is not looked for.
CreateReservationAgain(r, quantity, deposit) ==
    /\ Serve
    /\ reservation[r].status = "none"
    /\ book.arriving \/ Available >= quantity
    /\ reservation' = [reservation EXCEPT ![r] =
            [status |-> "pending", quantity |-> quantity, deposit |-> deposit]]
    /\ book' = [book EXCEPT !.reserved = @ + quantity]
    /\ UNCHANGED <<posted, refunds, applied, request, disturbed, edited>>

(* create_reservation; the deposit is booked in the same transaction. *)
CreateReservation(r, quantity, deposit) ==
    /\ Serve
    /\ reservation[r].status = "none"
    /\ Rivals(r) = {}
    /\ book.arriving \/ Available >= quantity
    /\ reservation' = [reservation EXCEPT ![r] =
            [status |-> "pending", quantity |-> quantity, deposit |-> deposit]]
    /\ book' = [book EXCEPT !.reserved = @ + quantity]
    /\ UNCHANGED <<posted, refunds, applied, request, disturbed, edited>>

(* create_transaction with an item that has no reservation. *)
Sell(quantity) ==
    /\ Serve
    /\ Available >= quantity
    /\ book' = [book EXCEPT !.total = @ - quantity]
    /\ UNCHANGED <<reservation, posted, refunds, applied, request, disturbed, edited>>

\* Mutant of Collect: the status of the reservation is not tested.
CollectAny(r, quantity) ==
    LET held == reservation[r].quantity
    IN  /\ Serve
        /\ reservation[r].status # "none"
        /\ Available + held >= quantity
        /\ book' = [book EXCEPT !.total = @ - quantity,
                                !.reserved = Released(IF held < quantity THEN held ELSE quantity)]
        /\ IF quantity >= held
           THEN /\ reservation' = [reservation EXCEPT ![r].status = "completed"]
                /\ applied' = [applied EXCEPT ![r] = @ + 1]
           ELSE /\ reservation' = [reservation EXCEPT ![r].quantity = held - quantity]
                /\ UNCHANGED applied
        /\ UNCHANGED <<posted, refunds, request, disturbed, edited>>

\* Mutant of Collect: the whole reservation is released by a partial sale.
CollectReleasesAll(r, quantity) ==
    LET held == reservation[r].quantity
    IN  /\ Serve
        /\ Pending(r)
        /\ Available + held >= quantity
        /\ book' = [book EXCEPT !.total = @ - quantity, !.reserved = Released(held)]
        /\ IF quantity >= held
           THEN /\ reservation' = [reservation EXCEPT ![r].status = "completed"]
                /\ applied' = [applied EXCEPT ![r] = @ + 1]
           ELSE /\ reservation' = [reservation EXCEPT ![r].quantity = held - quantity]
                /\ UNCHANGED applied
        /\ UNCHANGED <<posted, refunds, request, disturbed, edited>>

(* create_transaction with an item that names a reservation, which it locks  *)
(* after the book: the reservation is completed, and its deposit deducted,   *)
(* or reduced.                                                               *)
Collect(r, quantity) ==
    LET held == reservation[r].quantity
    IN  /\ Serve
        /\ Pending(r)
        /\ Available + held >= quantity
        /\ book' = [book EXCEPT !.total = @ - quantity,
                                !.reserved = Released(IF held < quantity THEN held ELSE quantity)]
        /\ IF quantity >= held
           THEN /\ reservation' = [reservation EXCEPT ![r].status = "completed"]
                /\ applied' = [applied EXCEPT ![r] = @ + 1]
           ELSE /\ reservation' = [reservation EXCEPT ![r].quantity = held - quantity]
                /\ UNCHANGED applied
        /\ UNCHANGED <<posted, refunds, request, disturbed, edited>>

(* create_supply *)
Supply(quantity) ==
    /\ Serve
    /\ book.total + quantity <= MaxTotal
    /\ book' = [book EXCEPT !.total = @ + quantity]
    /\ UNCHANGED <<reservation, posted, refunds, applied, request, disturbed, edited>>

-----------------------------------------------------------------------------
(* The requests that read without a lock. *)
Begin(w, new) ==
    /\ Serve
    /\ request[w] = NoRequest
    /\ request' = [request EXCEPT ![w] = new]
    /\ UNCHANGED <<book, reservation, posted, refunds, applied, disturbed, edited>>

Doing(w, op) == request[w].op = op

End(w) == request' = [request EXCEPT ![w] = NoRequest]

(* cancel_reservation reads the reservation, and refuses a completed one ... *)
ReadForCancel(w, r) ==
    /\ reservation[r].status \in {"pending", "cancelled"}
    /\ Begin(w, [op |-> "cancel", id |-> r, seen |-> reservation[r]])

\* Mutant of Cancel: the journal entry is not booked with the refund.
CancelUnposted(w) ==
    /\ Doing(w, "cancel")
    /\ LET r == request[w].id
           seen == request[w].seen
       IN  /\ book' = [book EXCEPT !.reserved = Released(seen.quantity)]
           /\ reservation' = [reservation EXCEPT ![r].status =
                IF seen.status = "cancelled" THEN @ ELSE "cancelled"]
           /\ IF seen.deposit
              THEN refunds' = [refunds EXCEPT ![r] = @ + 1] /\ UNCHANGED posted
              ELSE UNCHANGED <<posted, refunds>>
           /\ disturbed' = IF reservation[r] = seen /\ seen.status = "pending"
                           THEN disturbed ELSE disturbed \cup {r}
    /\ End(w)
    /\ UNCHANGED <<applied, edited, served>>

(* ... and goes by what it has read once it has the lock of the book.  The   *)
(* journal entry of a source is never posted twice, the safe transaction is. *)
(* An attribute set to the value that was read is not written.               *)
Cancel(w) ==
    /\ Doing(w, "cancel")
    /\ LET r == request[w].id
           seen == request[w].seen
       IN  /\ book' = [book EXCEPT !.reserved = Released(seen.quantity)]
           /\ reservation' = [reservation EXCEPT ![r].status =
                IF seen.status = "cancelled" THEN @ ELSE "cancelled"]
           /\ IF seen.deposit
              THEN refunds' = [refunds EXCEPT ![r] = @ + 1] /\ posted' = posted \cup {r}
              ELSE UNCHANGED <<posted, refunds>>
           /\ disturbed' = IF reservation[r] = seen /\ seen.status = "pending"
                           THEN disturbed ELSE disturbed \cup {r}
    /\ End(w)
    /\ UNCHANGED <<applied, edited, served>>

(* update_reservation reads the reservation ... *)
ReadForUpdate(w, r, status) ==
    /\ reservation[r].status # "none"
    /\ ~(reservation[r].status = "completed" /\ status = "pending")
    /\ Begin(w, [op |-> "update", id |-> r, seen |-> reservation[r], status |-> status])

(* ... and writes the status; a pending reservation that ends is released,   *)
(* one that is pending again is not reserved.                                *)
Update(w) ==
    /\ Doing(w, "update")
    /\ LET r == request[w].id
           seen == request[w].seen
           status == request[w].status
       IN  /\ book' = IF seen.status = "pending" /\ status # "pending"
                      THEN [book EXCEPT !.reserved = Released(seen.quantity)] ELSE book
           /\ reservation' = [reservation EXCEPT ![r].status = IF status = seen.status THEN @ ELSE status]
           /\ disturbed' = IF status = seen.status \/ (reservation[r] = seen /\ seen.status = "pending")
                           THEN disturbed ELSE disturbed \cup {r}
    /\ End(w)
    /\ UNCHANGED <<posted, refunds, applied, edited, served>>

(* update_book reads the book and validates the values ... *)
ReadForEdit(w, values) ==
    /\ values.total >= 0
    /\ values.arriving \/ values.reserved <= values.total
    /\ Begin(w, [op |-> "edit", seen |-> book, values |-> values])

(* ... and writes the attributes whose value is not the one it has read.     *)
Edit(w) ==
    /\ Doing(w, "edit")
    /\ LET seen == request[w].seen
           values == request[w].values
       IN  /\ book' = [total |-> IF values.total = seen.total THEN book.total ELSE values.total,
                       reserved |-> IF values.reserved = seen.reserved THEN book.reserved ELSE values.reserved,
                       arriving |-> IF values.arriving = seen.arriving THEN book.arriving ELSE values.arriving]
           /\ edited' = (edited \/ book' # book)
    /\ End(w)
    /\ UNCHANGED <<reservation, posted, refunds, applied, disturbed, served>>

Next ==
    \/ \E r \in Reservations, quantity \in Quantities :
        \/ \E deposit \in BOOLEAN : CreateReservation(r, quantity, deposit)
        \/ Collect(r, quantity)
    \/ \E quantity \in Quantities : Sell(quantity) \/ Supply(quantity)
    \/ \E w \in Workers :
        \/ \E r \in Reservations :
            \/ ReadForCancel(w, r)
            \/ \E status \in Status \ {"none"} : ReadForUpdate(w, r, status)
        \/ \E values \in EditValues : ReadForEdit(w, values)
        \/ Cancel(w) \/ Update(w) \/ Edit(w)

Spec == Init /\ [][Next]_vars

-----------------------------------------------------------------------------
\* The copies that the pending reservations hold, each with its number.
Copies(r) == {r} \X (1..reservation[r].quantity)

HeldCopies == UNION {Copies(r) : r \in {q \in Reservations : Pending(q)}}

Held == Cardinality(HeldCopies)

(* The copies reserved are those of the pending reservations, and a book that *)
(* is not arriving has them: its lock keeps sales, reservations, supplies and *)
(* first cancellations apart.  It ends when a reservation is written by a     *)
(* request that had read another state, or the book is edited.                *)
ReservedIsHeld ==
    disturbed = {} /\ ~edited =>
        /\ book.reserved = Held
        /\ book.total >= 0
        /\ ~book.arriving => Available >= 0

(* A deposit is given back, or deducted from a sale, once at most: of those   *)
(* who sell, cancel and update a reservation at one time, one settles it.     *)
DepositSettledOnce ==
    \A r \in Reservations \ disturbed :
        /\ refunds[r] + applied[r] <= 1
        /\ refunds[r] + applied[r] > 0 => ~Pending(r)

(* The cash a cancellation takes from the safe is what the ledger says.      *)
SafeMatchesLedger ==
    \A r \in Reservations \ disturbed : refunds[r] = IF r \in posted THEN 1 ELSE 0

(* A student has one pending reservation of a book at most, unless one was    *)
(* written by a request that had read another state (or reopened).            *)
OnePendingPerStudent ==
    \A q, r \in Reservations \ disturbed :
        Pending(q) /\ Pending(r) /\ Student[q] = Student[r] => q = r

(* Cancelling a reservation restores the stock it held, and no other.        *)
CancelRestoresStock ==
    [][\A w \in Workers :
        Doing(w, "cancel") /\ request'[w] = NoRequest =>
            book'.reserved = book.reserved -
                (IF Pending(request[w].id) THEN reservation[request[w].id].quantity ELSE 0)]_vars
=============================================================================
