--------------------------- MODULE BookStockProofs ---------------------------
(***************************************************************************)
(* Proofs about the reservations of a book, for any number of them, of      *)
(* requests and of copies.                                                  *)
(***************************************************************************)
EXTENDS BookStock, FiniteSetTheorems, TLAPS

LEMMA ReleasedType == ASSUME TypeOK, NEW q \in Nat PROVE Released(q) \in Nat
BY DEF TypeOK, Book, Released

(* What a worker that has begun a request knows. *)
LEMMA RequestType ==
    ASSUME TypeOK, NEW w \in Workers
    PROVE  /\ Doing(w, "cancel") => /\ request[w].id \in Reservations
                                    /\ request[w].seen \in Reservation
           /\ Doing(w, "update") => /\ request[w].id \in Reservations
                                    /\ request[w].seen \in Reservation
                                    /\ request[w].status \in Status
           /\ Doing(w, "edit") => request[w].seen \in Book /\ request[w].values \in Book
BY DEF TypeOK, Request, Doing, NoRequest

LEMMA EndType ==
    ASSUME TypeOK, NEW w \in Workers, End(w) PROVE request' \in [Workers -> Request]
BY DEF TypeOK, End, Request

LEMMA ServeType == ASSUME TypeOK, Serve PROVE served' \in 0..MaxRequests
BY MaxRequestsAssumption DEF TypeOK, Serve

LEMMA BeginType ==
    ASSUME TypeOK, NEW w \in Workers, NEW new \in Request, Begin(w, new) PROVE TypeOK'
BY ServeType DEF TypeOK, Begin

LEMMA TypeInit == Init => TypeOK
<1> SUFFICES ASSUME Init PROVE TypeOK
  OBVIOUS
<1>1. book \in Book
  BY StockAssumption DEF Init, Book
<1>2. reservation \in [Reservations -> Reservation]
  BY DEF Init, Fresh, Reservation, Status
<1>3. served \in 0..MaxRequests
  BY MaxRequestsAssumption DEF Init
<1>4. request \in [Workers -> Request]
  BY DEF Init, Request
<1> QED
  BY <1>1, <1>2, <1>3, <1>4 DEF Init, TypeOK

LEMMA LockedType ==
    ASSUME TypeOK, NEW r \in Reservations, NEW quantity \in Nat \ {0},
           \/ \E deposit \in BOOLEAN : CreateReservation(r, quantity, deposit)
           \/ Collect(r, quantity) \/ Sell(quantity) \/ Supply(quantity)
    PROVE  TypeOK'
<1> USE DEF TypeOK
<1>1. CASE \E deposit \in BOOLEAN : CreateReservation(r, quantity, deposit)
  <2>1. book' \in Book /\ reservation' \in [Reservations -> Reservation]
    BY <1>1 DEF CreateReservation, Book, Reservation, Status
  <2> QED
    BY <1>1, <2>1, ServeType DEF CreateReservation
<1>2. CASE Collect(r, quantity)
  <2> DEFINE held == reservation[r].quantity
  <2>1. held \in Nat
    BY DEF Reservation
  <2>2. book' \in Book
    <3>1. PICK n \in Nat : n = Released(IF held < quantity THEN held ELSE quantity)
      BY <2>1, ReleasedType
    <3>2. book' = [book EXCEPT !.total = @ - quantity, !.reserved = n]
      BY <1>2, <3>1 DEF Collect
    <3>3. book.total - quantity \in Int
      BY DEF Book
    <3>4. PICK b \in Book : b = [book EXCEPT !.total = book.total - quantity]
      BY <3>3 DEF Book
    <3>5. book' = [b EXCEPT !.reserved = n]
      BY <3>2, <3>4 DEF Book
    <3> QED
      BY <3>5 DEF Book
  <2>3. reservation' \in [Reservations -> Reservation] /\ applied' \in [Reservations -> Nat]
    <3>1. CASE quantity >= held
      BY <1>2, <3>1 DEF Collect, Reservation, Status
    <3>2. CASE ~(quantity >= held)
      <4>1. held - quantity \in Nat
        BY <2>1, <3>2
      <4> QED
        BY <1>2, <3>2, <4>1 DEF Collect, Reservation
    <3> QED
      BY <3>1, <3>2
  <2> QED
    BY <1>2, <2>2, <2>3, ServeType DEF Collect
<1>3. CASE Sell(quantity) \/ Supply(quantity)
  <2>1. book' \in Book
    BY <1>3 DEF Sell, Supply, Book
  <2> QED
    BY <1>3, <2>1, ServeType DEF Sell, Supply
<1> QED
  BY <1>1, <1>2, <1>3

LEMMA UnlockedType ==
    ASSUME TypeOK, NEW w \in Workers,
           \/ \E r \in Reservations :
                ReadForCancel(w, r) \/ \E status \in Status : ReadForUpdate(w, r, status)
           \/ \E values \in EditValues : ReadForEdit(w, values)
           \/ Cancel(w) \/ Update(w) \/ Edit(w)
    PROVE  TypeOK'
<1>1. ASSUME NEW r \in Reservations, ReadForCancel(w, r) PROVE TypeOK'
  <2>1. [op |-> "cancel", id |-> r, seen |-> reservation[r]] \in Request
    BY DEF TypeOK, Request
  <2> QED
    BY <1>1, <2>1, BeginType DEF ReadForCancel
<1>2. ASSUME NEW r \in Reservations, NEW status \in Status, ReadForUpdate(w, r, status) PROVE TypeOK'
  <2>1. [op |-> "update", id |-> r, seen |-> reservation[r], status |-> status] \in Request
    BY DEF TypeOK, Request
  <2> QED
    BY <1>2, <2>1, BeginType DEF ReadForUpdate
<1>3. ASSUME NEW values \in EditValues, ReadForEdit(w, values) PROVE TypeOK'
  <2>1. [op |-> "edit", seen |-> book, values |-> values] \in Request
    BY EditValuesAssumption DEF TypeOK, Request
  <2> QED
    BY <1>3, <2>1, BeginType DEF ReadForEdit
<1>4. CASE Cancel(w)
  <2>1. PICK r \in Reservations, seen \in Reservation :
            r = request[w].id /\ seen = request[w].seen /\ seen.quantity \in Nat
    BY <1>4, RequestType DEF Cancel, Reservation
  <2>2. book' \in Book
    BY <1>4, <2>1, ReleasedType DEF Cancel, TypeOK, Book
  <2>3. reservation' \in [Reservations -> Reservation]
    BY <1>4, <2>1 DEF Cancel, TypeOK, Reservation, Status
  <2>4. /\ posted' \subseteq Reservations /\ disturbed' \subseteq Reservations
        /\ refunds' \in [Reservations -> Nat]
    BY <1>4, <2>1 DEF Cancel, TypeOK
  <2> QED
    BY <1>4, <2>2, <2>3, <2>4, EndType DEF Cancel, TypeOK
<1>5. CASE Update(w)
  <2>1. PICK r \in Reservations, seen \in Reservation, status \in Status :
            /\ r = request[w].id /\ seen = request[w].seen /\ status = request[w].status
            /\ seen.quantity \in Nat
    BY <1>5, RequestType DEF Update, Reservation
  <2>2. book' \in Book
    BY <1>5, <2>1, ReleasedType DEF Update, TypeOK, Book
  <2>3. reservation' \in [Reservations -> Reservation]
    BY <1>5, <2>1 DEF Update, TypeOK, Reservation
  <2>4. disturbed' \subseteq Reservations
    BY <1>5, <2>1 DEF Update, TypeOK
  <2> QED
    BY <1>5, <2>2, <2>3, <2>4, EndType DEF Update, TypeOK
<1>6. CASE Edit(w)
  <2>1. book' \in Book /\ edited' \in BOOLEAN
    BY <1>6, RequestType DEF Edit, TypeOK, Book
  <2> QED
    BY <1>6, <2>1, EndType DEF Edit, TypeOK
<1> QED
  BY <1>1, <1>2, <1>3, <1>4, <1>5, <1>6

LEMMA TypeStep == TypeOK /\ [Next]_vars => TypeOK'
<1> SUFFICES ASSUME TypeOK, [Next]_vars PROVE TypeOK'
  OBVIOUS
<1>1. CASE UNCHANGED vars
  BY <1>1 DEF vars, TypeOK
<1>2. ASSUME NEW quantity \in Quantities, Sell(quantity) \/ Supply(quantity) PROVE TypeOK'
  <2>1. book' \in Book
    BY <1>2, QuantitiesAssumption DEF Sell, Supply, TypeOK, Book
  <2> QED
    BY <1>2, <2>1, ServeType DEF Sell, Supply, TypeOK
<1>3. ASSUME NEW r \in Reservations, NEW quantity \in Quantities,
             \/ \E deposit \in BOOLEAN : CreateReservation(r, quantity, deposit)
             \/ Collect(r, quantity)
      PROVE  TypeOK'
  BY <1>3, LockedType, QuantitiesAssumption
<1>4. ASSUME NEW w \in Workers,
             \/ \E r \in Reservations :
                  ReadForCancel(w, r) \/ \E status \in Status : ReadForUpdate(w, r, status)
             \/ \E values \in EditValues : ReadForEdit(w, values)
             \/ Cancel(w) \/ Update(w) \/ Edit(w)
      PROVE  TypeOK'
  BY <1>4, UnlockedType
<1> QED
  BY <1>1, <1>2, <1>3, <1>4 DEF Next

(* Every variable keeps its type; no release takes reserved_stock below zero. *)
THEOREM TypeCorrect == Spec => []TypeOK
BY TypeInit, TypeStep, PTL DEF Spec

-----------------------------------------------------------------------------
(* The deposit of a reservation that is not disturbed follows its status.    *)
SettledIn(status, ref, app, inLedger) ==
    /\ status \in {"none", "pending"} => ref = 0 /\ app = 0 /\ ~inLedger
    /\ status = "completed" => ref = 0 /\ app \in {0, 1} /\ ~inLedger
    /\ status = "cancelled" => app = 0 /\ ref = IF inLedger THEN 1 ELSE 0

Settled ==
    \A r \in Reservations \ disturbed :
        SettledIn(reservation[r].status, refunds[r], applied[r], r \in posted)

LEMMA SettledInit == Init => Settled
BY DEF Init, Settled, SettledIn, Fresh

(* A reservation to which nothing happens. *)
LEMMA UntouchedSettled ==
    ASSUME Settled, disturbed \subseteq disturbed', NEW q \in Reservations, q \notin disturbed',
           reservation'[q].status = reservation[q].status,
           refunds'[q] = refunds[q], applied'[q] = applied[q], q \in posted' <=> q \in posted
    PROVE  SettledIn(reservation'[q].status, refunds'[q], applied'[q], q \in posted')
BY DEF Settled, SettledIn

LEMMA CreateSettled ==
    ASSUME TypeOK, Settled, NEW r \in Reservations, NEW quantity, NEW deposit,
           CreateReservation(r, quantity, deposit)
    PROVE  Settled'
<1> SUFFICES ASSUME NEW q \in Reservations, q \notin disturbed'
             PROVE  SettledIn(reservation'[q].status, refunds'[q], applied'[q], q \in posted')
  BY DEF Settled
<1>1. CASE q = r
  BY <1>1 DEF CreateReservation, TypeOK, Settled, SettledIn
<1>2. CASE q # r
  BY <1>2, UntouchedSettled DEF CreateReservation, TypeOK
<1> QED
  BY <1>1, <1>2

LEMMA CollectSettled ==
    ASSUME TypeOK, Settled, NEW r \in Reservations, NEW quantity, Collect(r, quantity)
    PROVE  Settled'
<1> SUFFICES ASSUME NEW q \in Reservations, q \notin disturbed'
             PROVE  SettledIn(reservation'[q].status, refunds'[q], applied'[q], q \in posted')
  BY DEF Settled
<1>0. UNCHANGED <<posted, refunds, disturbed>> /\ reservation[r].status = "pending"
  BY DEF Collect, Pending
<1>1. CASE q = r
  <2>1. refunds[r] = 0 /\ applied[r] = 0 /\ r \notin posted
    BY <1>0, <1>1 DEF Settled, SettledIn
  <2>2. CASE quantity >= reservation[r].quantity
    <3>1. reservation'[r].status = "completed" /\ applied'[r] = 1
      BY <2>1, <2>2 DEF Collect, TypeOK, Reservation
    <3> QED
      BY <1>0, <1>1, <2>1, <3>1 DEF SettledIn
  <2>3. CASE ~(quantity >= reservation[r].quantity)
    <3>1. reservation'[r].status = "pending" /\ applied' = applied
      BY <1>0, <2>3 DEF Collect, TypeOK, Reservation
    <3> QED
      BY <1>0, <1>1, <2>1, <3>1 DEF SettledIn
  <2> QED
    BY <2>2, <2>3
<1>2. CASE q # r
  <2>1. reservation'[q] = reservation[q] /\ applied'[q] = applied[q]
    BY <1>2 DEF Collect, TypeOK
  <2> QED
    BY <1>0, <2>1, UntouchedSettled
<1> QED
  BY <1>1, <1>2

LEMMA CancelSettled ==
    ASSUME TypeOK, Settled, NEW w \in Workers, Cancel(w)
    PROVE  Settled'
<1> SUFFICES ASSUME NEW q \in Reservations, q \notin disturbed'
             PROVE  SettledIn(reservation'[q].status, refunds'[q], applied'[q], q \in posted')
  BY DEF Settled
<1>1. PICK r \in Reservations, seen \in Reservation : r = request[w].id /\ seen = request[w].seen
  BY RequestType DEF Cancel
<1>2. /\ reservation' = [reservation EXCEPT ![r].status =
                IF seen.status = "cancelled" THEN @ ELSE "cancelled"]
      /\ IF seen.deposit
         THEN refunds' = [refunds EXCEPT ![r] = @ + 1] /\ posted' = posted \cup {r}
         ELSE UNCHANGED <<posted, refunds>>
      /\ disturbed' = IF reservation[r] = seen /\ seen.status = "pending"
                      THEN disturbed ELSE disturbed \cup {r}
      /\ applied' = applied
  BY <1>1 DEF Cancel
<1>3. CASE q = r
  <2>1. reservation[r] = seen /\ seen.status = "pending" /\ r \notin disturbed
    BY <1>2, <1>3
  <2>2. refunds[r] = 0 /\ applied[r] = 0 /\ r \notin posted
    BY <2>1 DEF Settled, SettledIn
  <2>3. reservation'[r].status = "cancelled"
    BY <1>2, <2>1 DEF TypeOK, Reservation
  <2>4. refunds'[r] = IF r \in posted' THEN 1 ELSE 0
    BY <1>2, <2>2 DEF TypeOK
  <2> QED
    BY <1>2, <1>3, <2>2, <2>3, <2>4 DEF SettledIn
<1>4. CASE q # r
  <2>1. /\ reservation'[q] = reservation[q] /\ refunds'[q] = refunds[q]
        /\ q \in posted' <=> q \in posted
    BY <1>2, <1>4 DEF TypeOK
  <2> QED
    BY <1>2, <2>1, UntouchedSettled
<1> QED
  BY <1>3, <1>4

LEMMA UpdateSettled ==
    ASSUME TypeOK, Settled, NEW w \in Workers, Update(w)
    PROVE  Settled'
<1> SUFFICES ASSUME NEW q \in Reservations, q \notin disturbed'
             PROVE  SettledIn(reservation'[q].status, refunds'[q], applied'[q], q \in posted')
  BY DEF Settled
<1>1. PICK r \in Reservations, seen \in Reservation, status \in Status :
        r = request[w].id /\ seen = request[w].seen /\ status = request[w].status
  BY RequestType DEF Update
<1>2. /\ reservation' = [reservation EXCEPT ![r].status = IF status = seen.status THEN @ ELSE status]
      /\ disturbed' = IF status = seen.status \/ (reservation[r] = seen /\ seen.status = "pending")
                      THEN disturbed ELSE disturbed \cup {r}
      /\ UNCHANGED <<posted, refunds, applied>>
  BY <1>1 DEF Update
<1>3. CASE q = r /\ status # seen.status
  <2>1. reservation[r].status = "pending" /\ r \notin disturbed
    BY <1>2, <1>3
  <2>2. refunds[r] = 0 /\ applied[r] = 0 /\ r \notin posted
    BY <2>1 DEF Settled, SettledIn
  <2> QED
    BY <1>2, <1>3, <2>2 DEF SettledIn
<1>4. CASE q # r \/ status = seen.status
  <2>1. reservation'[q].status = reservation[q].status /\ disturbed \subseteq disturbed'
    BY <1>2, <1>4 DEF TypeOK, Reservation
  <2> QED
    BY <1>2, <2>1, UntouchedSettled
<1> QED
  BY <1>3, <1>4

LEMMA SettledStep == TypeOK /\ Settled /\ [Next]_vars => Settled'
<1> SUFFICES ASSUME TypeOK, Settled, [Next]_vars PROVE Settled'
  OBVIOUS
<1>1. CASE \E r \in Reservations, quantity \in Quantities :
            \/ \E deposit \in BOOLEAN : CreateReservation(r, quantity, deposit)
            \/ Collect(r, quantity)
  BY <1>1, CreateSettled, CollectSettled
<1>2. CASE \E w \in Workers : Cancel(w) \/ Update(w)
  BY <1>2, CancelSettled, UpdateSettled
<1>3. ASSUME UNCHANGED <<reservation, refunds, applied, posted, disturbed>> PROVE Settled'
  BY <1>3 DEF Settled
<1>4. ASSUME NEW quantity \in Quantities, Sell(quantity) \/ Supply(quantity) PROVE Settled'
  BY <1>3, <1>4 DEF Sell, Supply
<1>5. ASSUME NEW w \in Workers,
             \/ \E r \in Reservations :
                  ReadForCancel(w, r) \/ \E status \in Status : ReadForUpdate(w, r, status)
             \/ \E values \in EditValues : ReadForEdit(w, values)
             \/ Edit(w)
      PROVE  Settled'
  BY <1>3, <1>5 DEF ReadForCancel, ReadForUpdate, ReadForEdit, Begin, Edit
<1>6. CASE UNCHANGED vars
  BY <1>3, <1>6 DEF vars
<1> QED
  BY <1>1, <1>2, <1>4, <1>5, <1>6 DEF Next

LEMMA SettledTheorem == Spec => [](TypeOK /\ Settled)
BY TypeInit, TypeStep, SettledInit, SettledStep, PTL DEF Spec

(* However sales, cancellations and updates of a reservation interleave, its *)
(* deposit is refunded or deducted once at most, unless one of them wrote a  *)
(* reservation whose state was not the pending one it had read.              *)
THEOREM DepositTheorem == Spec => []DepositSettledOnce
<1>1. TypeOK /\ Settled => DepositSettledOnce
  <2> SUFFICES ASSUME TypeOK, Settled, NEW r \in Reservations, r \notin disturbed
               PROVE  /\ refunds[r] + applied[r] <= 1
                      /\ refunds[r] + applied[r] > 0 => ~Pending(r)
    BY DEF DepositSettledOnce
  <2>1. SettledIn(reservation[r].status, refunds[r], applied[r], r \in posted)
    BY DEF Settled
  <2>2. reservation[r].status \in Status
    BY DEF TypeOK, Reservation
  <2> QED
    BY <2>1, <2>2 DEF SettledIn, Status, Pending
<1> QED
  BY <1>1, SettledTheorem, PTL

(* The refunds in the safe agree with the journal under the same condition.  *)
THEOREM SafeTheorem == Spec => []SafeMatchesLedger
<1>1. TypeOK /\ Settled => SafeMatchesLedger
  BY DEF TypeOK, Settled, SettledIn, SafeMatchesLedger, Reservation, Status
<1> QED
  BY <1>1, SettledTheorem, PTL

-----------------------------------------------------------------------------
(* Only a creation makes a reservation pending, and only one whose student   *)
(* has no other; a reopened one is disturbed.                                *)
LEMMA PendingBefore ==
    ASSUME TypeOK, [Next]_vars,
           NEW q \in Reservations, q \notin disturbed', reservation'[q].status = "pending",
           ~ \E quantity \in Quantities, deposit \in BOOLEAN : CreateReservation(q, quantity, deposit)
    PROVE  q \notin disturbed /\ Pending(q)
<1>1. ASSUME disturbed' = disturbed, reservation'[q].status = reservation[q].status
      PROVE  q \notin disturbed /\ Pending(q)
  BY <1>1 DEF Pending
<1>2. ASSUME NEW r \in Reservations, NEW quantity \in Quantities, NEW deposit \in BOOLEAN,
             CreateReservation(r, quantity, deposit)
      PROVE  q \notin disturbed /\ Pending(q)
  <2>1. q # r
    BY <1>2
  <2> QED
    BY <1>1, <1>2, <2>1 DEF CreateReservation, TypeOK
<1>3. ASSUME NEW r \in Reservations, NEW quantity \in Quantities, Collect(r, quantity)
      PROVE  q \notin disturbed /\ Pending(q)
  <2>1. disturbed' = disturbed /\ Pending(r)
    BY <1>3 DEF Collect
  <2>2. q # r => reservation'[q] = reservation[q]
    BY <1>3 DEF Collect, TypeOK
  <2> QED
    BY <2>1, <2>2 DEF Pending
<1>4. ASSUME NEW w \in Workers, Cancel(w) PROVE q \notin disturbed /\ Pending(q)
  <2>1. PICK r \in Reservations, seen \in Reservation : r = request[w].id /\ seen = request[w].seen
    BY <1>4, RequestType DEF Cancel
  <2>2. /\ reservation' = [reservation EXCEPT ![r].status =
                IF seen.status = "cancelled" THEN @ ELSE "cancelled"]
        /\ disturbed' = IF reservation[r] = seen /\ seen.status = "pending"
                        THEN disturbed ELSE disturbed \cup {r}
    BY <1>4, <2>1 DEF Cancel
  <2>3. CASE q = r
    <3>1. seen.status = "pending" /\ reservation[r].status = "pending" /\ q \notin disturbed
      BY <2>2, <2>3
    <3> QED
      BY <2>3, <3>1 DEF Pending
  <2>4. CASE q # r
    BY <2>2, <2>4 DEF TypeOK, Pending
  <2> QED
    BY <2>3, <2>4
<1>5. ASSUME NEW w \in Workers, Update(w) PROVE q \notin disturbed /\ Pending(q)
  <2>1. PICK r \in Reservations, seen \in Reservation, status \in Status :
          r = request[w].id /\ seen = request[w].seen /\ status = request[w].status
    BY <1>5, RequestType DEF Update
  <2>2. /\ reservation' = [reservation EXCEPT ![r].status = IF status = seen.status THEN @ ELSE status]
        /\ disturbed' = IF status = seen.status \/ (reservation[r] = seen /\ seen.status = "pending")
                        THEN disturbed ELSE disturbed \cup {r}
    BY <1>5, <2>1 DEF Update
  <2>3. q \notin disturbed
    BY <2>2
  <2>4. CASE q = r /\ status # seen.status
    <3>1. reservation[r].status = "pending"
      BY <2>2, <2>4
    <3> QED
      BY <2>3, <2>4, <3>1 DEF Pending
  <2>5. CASE q # r \/ status = seen.status
    <3>1. reservation'[q].status = reservation[q].status
      BY <2>2, <2>5 DEF TypeOK, Reservation
    <3> QED
      BY <2>3, <3>1 DEF Pending
  <2> QED
    BY <2>4, <2>5
<1>6. ASSUME UNCHANGED <<reservation, disturbed>> PROVE q \notin disturbed /\ Pending(q)
  BY <1>6 DEF Pending
<1>7. ASSUME NEW quantity \in Quantities, Sell(quantity) \/ Supply(quantity)
      PROVE  q \notin disturbed /\ Pending(q)
  BY <1>6, <1>7 DEF Sell, Supply
<1>8. ASSUME NEW w \in Workers,
             \/ \E r \in Reservations :
                  ReadForCancel(w, r) \/ \E status \in Status : ReadForUpdate(w, r, status)
             \/ \E values \in EditValues : ReadForEdit(w, values)
             \/ Edit(w)
      PROVE  q \notin disturbed /\ Pending(q)
  BY <1>6, <1>8 DEF ReadForCancel, ReadForUpdate, ReadForEdit, Begin, Edit
<1>9. CASE UNCHANGED vars
  BY <1>6, <1>9 DEF vars
<1> QED
  BY <1>2, <1>3, <1>4, <1>5, <1>7, <1>8, <1>9 DEF Next

LEMMA OnePendingStep == TypeOK /\ OnePendingPerStudent /\ [Next]_vars => OnePendingPerStudent'
<1> SUFFICES ASSUME TypeOK, OnePendingPerStudent, [Next]_vars,
                    NEW q \in Reservations, NEW r \in Reservations,
                    q \notin disturbed', r \notin disturbed',
                    reservation'[q].status = "pending", reservation'[r].status = "pending",
                    Student[q] = Student[r], q # r
             PROVE  FALSE
  BY DEF OnePendingPerStudent, Pending
<1> DEFINE Created(p) ==
        \E quantity \in Quantities, deposit \in BOOLEAN : CreateReservation(p, quantity, deposit)
<1>1. ASSUME NEW p \in Reservations, NEW o \in Reservations, p # o, Student[p] = Student[o],
             reservation'[o].status = "pending", Created(p)
      PROVE  FALSE
  <2>1. Rivals(p) = {} /\ reservation'[o] = reservation[o]
    BY <1>1 DEF CreateReservation, TypeOK
  <2>2. o \in Rivals(p)
    BY <1>1, <2>1 DEF Rivals, Pending
  <2> QED
    BY <2>1, <2>2
<1>2. ~Created(q) /\ ~Created(r)
  <2> HIDE DEF Created
  <2> QED
    BY <1>1
<1>3. q \notin disturbed /\ Pending(q) /\ r \notin disturbed /\ Pending(r)
  BY <1>2, PendingBefore
<1> QED
  BY <1>3 DEF OnePendingPerStudent

(* No interleaving of creations, which test under the lock of the book, gives *)
(* a student two pending reservations of it.                                 *)
THEOREM OnePendingTheorem == Spec => []OnePendingPerStudent
<1>1. Init => OnePendingPerStudent
  BY DEF Init, OnePendingPerStudent, Pending, Fresh
<1> QED
  BY <1>1, TypeInit, TypeStep, OnePendingStep, PTL DEF Spec

-----------------------------------------------------------------------------
(* The copies held, as a set: a reservation adds its own, and takes away its *)
(* own or the last of them.                                                  *)
LEMMA HeldMember ==
    ASSUME TypeOK, NEW x
    PROVE  x \in HeldCopies <=>
             \E r \in Reservations, n \in Nat :
                 x = <<r, n>> /\ Pending(r) /\ 1 <= n /\ n <= reservation[r].quantity
<1>1. \A r \in Reservations : reservation[r].quantity \in Nat
  BY DEF TypeOK, Reservation
<1> QED
  BY <1>1 DEF HeldCopies, Copies

LEMMA HeldMemberNext ==
    ASSUME TypeOK', NEW x
    PROVE  x \in HeldCopies' <=>
             \E r \in Reservations, n \in Nat :
                 /\ x = <<r, n>> /\ reservation'[r].status = "pending"
                 /\ 1 <= n /\ n <= reservation'[r].quantity
<1>1. \A r \in Reservations : reservation'[r].quantity \in Nat
  BY DEF TypeOK, Reservation
<1> QED
  BY <1>1 DEF HeldCopies, Copies, Pending

LEMMA SomeCopies ==
    ASSUME NEW r, NEW a \in Nat, NEW b \in Nat, a <= b
    PROVE  IsFiniteSet({r} \X ((a + 1)..b)) /\ Cardinality({r} \X ((a + 1)..b)) = b - a
<1>1. IsFiniteSet({r}) /\ Cardinality({r}) = 1
  BY FS_Singleton
<1> DEFINE c == a + 1
<1>0. c \in Int /\ b \in Int /\ (c > b => b = a)
  OBVIOUS
<1>2. IsFiniteSet(c..b) /\ Cardinality(c..b) = b - a
  <2> HIDE DEF c
  <2>1. IsFiniteSet(c..b) /\ Cardinality(c..b) = IF c > b THEN 0 ELSE b - c + 1
    BY <1>0, FS_Interval
  <2> QED
    BY <2>1, <1>0 DEF c
<1> DEFINE K == c..b
<1>3. IsFiniteSet({r} \X K) /\ Cardinality({r} \X K) = 1 * (b - a)
  <2> HIDE DEF K
  <2>1. IsFiniteSet({r} \X K) /\ Cardinality({r} \X K) = Cardinality({r}) * Cardinality(K)
    BY <1>1, <1>2, FS_Product DEF K
  <2> QED
    BY <2>1, <1>1, <1>2 DEF K
<1> QED
  BY <1>3

LEMMA DisjointUnion ==
    ASSUME NEW S, NEW T, IsFiniteSet(S), IsFiniteSet(T), S \cap T = {}
    PROVE  /\ IsFiniteSet(S \cup T)
           /\ Cardinality(S \cup T) = Cardinality(S) + Cardinality(T)
           /\ Cardinality(S) \in Nat /\ Cardinality(T) \in Nat
<1>1. Cardinality(S \cap T) = 0
  BY FS_EmptySet
<1>2. Cardinality(S) \in Nat /\ Cardinality(T) \in Nat
  BY FS_CardinalityType
<1>3. Cardinality(S \cup T) = Cardinality(S) + Cardinality(T) - Cardinality(S \cap T)
  BY FS_Union
<1>4. IsFiniteSet(S \cup T)
  BY FS_Union
<1> QED
  BY <1>1, <1>2, <1>3, <1>4

\* A reservation that was not pending holds quantity copies.
LEMMA HeldGrows ==
    ASSUME TypeOK, TypeOK', NEW r \in Reservations, ~Pending(r), NEW quantity \in Nat,
           reservation'[r].status = "pending", reservation'[r].quantity = quantity,
           \A q \in Reservations \ {r} : reservation'[q] = reservation[q],
           IsFiniteSet(HeldCopies)
    PROVE  IsFiniteSet(HeldCopies') /\ Held' = Held + quantity /\ Held \in Nat
<1> DEFINE T == {r} \X (1..quantity)
<1>1. IsFiniteSet(T) /\ Cardinality(T) = quantity
  <2> PICK a \in Nat : a = 0
    OBVIOUS
  <2>1. a <= quantity
    OBVIOUS
  <2>2. IsFiniteSet({r} \X ((a + 1)..quantity)) /\ Cardinality({r} \X ((a + 1)..quantity)) = quantity - a
    BY <2>1, SomeCopies
  <2> QED
    BY <2>2
<1>2. HeldCopies \cap T = {}
  BY HeldMember
<1>3. HeldCopies' = HeldCopies \cup T
  <2>1. ASSUME NEW x PROVE x \in HeldCopies' <=> x \in HeldCopies \cup T
    <3>1. x \in HeldCopies' <=>
            \E q \in Reservations, n \in Nat :
                /\ x = <<q, n>> /\ reservation'[q].status = "pending"
                /\ 1 <= n /\ n <= reservation'[q].quantity
      BY HeldMemberNext
    <3>2. x \in HeldCopies <=>
            \E q \in Reservations, n \in Nat :
                x = <<q, n>> /\ Pending(q) /\ 1 <= n /\ n <= reservation[q].quantity
      BY HeldMember
    <3>3. x \in T <=> \E n \in Nat : x = <<r, n>> /\ 1 <= n /\ n <= quantity
      OBVIOUS
    <3> QED
      BY <3>1, <3>2, <3>3 DEF Pending
  <2> QED
    BY <2>1
<1> QED
  BY <1>1, <1>2, <1>3, DisjointUnion DEF Held

\* A pending reservation gives up its copies after the first rest ones.
LEMMA HeldShrinks ==
    ASSUME TypeOK, TypeOK', NEW r \in Reservations, Pending(r), NEW rest \in Nat,
           rest <= reservation[r].quantity,
           IF rest = 0 THEN reservation'[r].status # "pending"
           ELSE reservation'[r].status = "pending" /\ reservation'[r].quantity = rest,
           \A q \in Reservations \ {r} : reservation'[q] = reservation[q],
           IsFiniteSet(HeldCopies)
    PROVE  /\ IsFiniteSet(HeldCopies') /\ Held' \in Nat
           /\ Held' = Held - (reservation[r].quantity - rest)
<1> PICK held \in Nat : held = reservation[r].quantity
  BY DEF TypeOK, Reservation
<1> DEFINE T == {r} \X ((rest + 1)..held)
<1>1. IsFiniteSet(T) /\ Cardinality(T) = held - rest
  BY SomeCopies
<1>2. HeldCopies' \cap T = {}
  BY HeldMemberNext
<1>3. HeldCopies = HeldCopies' \cup T
  <2>1. ASSUME NEW x PROVE x \in HeldCopies <=> x \in HeldCopies' \cup T
    <3>1. x \in HeldCopies' <=>
            \E q \in Reservations, n \in Nat :
                /\ x = <<q, n>> /\ reservation'[q].status = "pending"
                /\ 1 <= n /\ n <= reservation'[q].quantity
      BY HeldMemberNext
    <3>2. x \in HeldCopies <=>
            \E q \in Reservations, n \in Nat :
                x = <<q, n>> /\ Pending(q) /\ 1 <= n /\ n <= reservation[q].quantity
      BY HeldMember
    <3>3. x \in T <=> \E n \in Nat : x = <<r, n>> /\ rest < n /\ n <= held
      OBVIOUS
    <3> QED
      BY <3>1, <3>2, <3>3 DEF Pending
  <2> QED
    BY <2>1
<1>4. IsFiniteSet(HeldCopies')
  BY <1>3, FS_Subset
<1>5. PICK H : H = HeldCopies'
  OBVIOUS
<1>6. /\ Cardinality(H \cup T) = Cardinality(H) + Cardinality(T)
      /\ Cardinality(H) \in Nat
  <2> HIDE DEF T
  <2> QED
    BY <1>1, <1>2, <1>4, <1>5, DisjointUnion
<1>7. Held = Cardinality(H \cup T) /\ Held' = Cardinality(H)
  BY <1>3, <1>5 DEF Held
<1> QED
  BY <1>1, <1>4, <1>6, <1>7

LEMMA HeldSame ==
    ASSUME TypeOK, TypeOK',
           \A q \in Reservations : /\ reservation'[q].status = reservation[q].status
                                   /\ reservation'[q].quantity = reservation[q].quantity
    PROVE  HeldCopies' = HeldCopies
BY HeldMember, HeldMemberNext DEF Pending

(* What ReservedIsHeld needs: a set that is finite, and a count of its own.  *)
Stocked ==
    disturbed = {} /\ ~edited =>
        /\ IsFiniteSet(HeldCopies)
        /\ book.reserved = Held
        /\ book.total >= 0
        /\ book.arriving \/ Available >= 0

LEMMA StockedInit == Init => Stocked
<1> SUFFICES ASSUME Init PROVE Stocked
  OBVIOUS
<1>1. \A r \in Reservations : ~Pending(r)
  BY DEF Init, Pending, Fresh
<1>2. HeldCopies = {}
  BY <1>1 DEF HeldCopies
<1>3. book.reserved = 0 /\ book.total = Stock
  BY DEF Init
<1> QED
  BY <1>2, <1>3, FS_EmptySet, StockAssumption DEF Stocked, Held, Available

LEMMA CreateStocked ==
    ASSUME TypeOK, TypeOK', Stocked, NEW r \in Reservations, NEW quantity \in Nat \ {0},
           NEW deposit \in BOOLEAN, CreateReservation(r, quantity, deposit)
    PROVE  Stocked'
<1> SUFFICES ASSUME disturbed' = {}, ~edited'
             PROVE  /\ IsFiniteSet(HeldCopies') /\ book'.reserved = Held'
                    /\ book'.total >= 0 /\ (book'.arriving \/ Available' >= 0)
  BY DEF Stocked
<1>1. /\ IsFiniteSet(HeldCopies) /\ book.reserved = Held /\ book.total >= 0
      /\ book.arriving \/ Available >= quantity
      /\ book.reserved \in Nat /\ book.total \in Int
  BY DEF CreateReservation, Stocked, TypeOK, Book
<1>2. /\ book'.reserved = book.reserved + quantity
      /\ book'.total = book.total /\ book'.arriving = book.arriving
  BY DEF CreateReservation, TypeOK, Book
<1>3. /\ ~Pending(r) /\ reservation'[r].status = "pending" /\ reservation'[r].quantity = quantity
      /\ \A q \in Reservations \ {r} : reservation'[q] = reservation[q]
  BY DEF CreateReservation, TypeOK, Pending
<1>4. IsFiniteSet(HeldCopies') /\ Held' = Held + quantity
  BY <1>1, <1>3, HeldGrows
<1> QED
  BY <1>1, <1>2, <1>4 DEF Available

\* A pending reservation gives up copies that are there.
LEMMA ReleasedShrinks ==
    ASSUME TypeOK, TypeOK', book.reserved = Held, IsFiniteSet(HeldCopies),
           NEW r \in Reservations, Pending(r), NEW rest \in Nat, rest <= reservation[r].quantity,
           IF rest = 0 THEN reservation'[r].status # "pending"
           ELSE reservation'[r].status = "pending" /\ reservation'[r].quantity = rest,
           \A q \in Reservations \ {r} : reservation'[q] = reservation[q]
    PROVE  /\ IsFiniteSet(HeldCopies') /\ Held' = Released(reservation[r].quantity - rest)
           /\ Held' \in Nat /\ Held' = book.reserved - (reservation[r].quantity - rest)
<1> PICK n \in Nat : n = reservation[r].quantity - rest
  BY DEF TypeOK, Reservation
<1>1. IsFiniteSet(HeldCopies') /\ Held' \in Nat /\ Held' = Held - n
  BY HeldShrinks
<1>2. book.reserved \in Nat
  BY DEF TypeOK, Book
<1> QED
  BY <1>1, <1>2 DEF Released

LEMMA HeldAtLeast ==
    ASSUME TypeOK, IsFiniteSet(HeldCopies), NEW r \in Reservations, Pending(r)
    PROVE  Held >= reservation[r].quantity
<1> PICK a \in Nat, held \in Nat : a = 0 /\ held = reservation[r].quantity
  BY DEF TypeOK, Reservation
<1> DEFINE T == {r} \X ((a + 1)..held)
<1>1. IsFiniteSet(T) /\ Cardinality(T) = held - a
  <2>1. a <= held
    OBVIOUS
  <2> QED
    BY <2>1, SomeCopies
<1>2. T \in SUBSET HeldCopies
  BY HeldMember
<1>3. Cardinality(T) <= Held
  <2> HIDE DEF T
  <2> QED
    BY <1>2, FS_Subset DEF Held
<1>4. Held \in Nat
  BY FS_CardinalityType DEF Held
<1> QED
  BY <1>1, <1>3, <1>4

LEMMA CollectStocked ==
    ASSUME TypeOK, TypeOK', Stocked, NEW r \in Reservations, NEW quantity \in Nat \ {0},
           Collect(r, quantity)
    PROVE  Stocked'
<1> SUFFICES ASSUME disturbed' = {}, ~edited'
             PROVE  /\ IsFiniteSet(HeldCopies') /\ book'.reserved = Held'
                    /\ book'.total >= 0 /\ (book'.arriving \/ Available' >= 0)
  BY DEF Stocked
<1> PICK held \in Nat : held = reservation[r].quantity
  BY DEF TypeOK, Reservation
<1> PICK rest \in Nat : rest = IF quantity >= held THEN 0 ELSE held - quantity
  OBVIOUS
<1>1. /\ IsFiniteSet(HeldCopies) /\ book.reserved = Held /\ book.total >= 0
      /\ book.arriving \/ Available >= 0
      /\ Available + held >= quantity
      /\ book.reserved \in Nat /\ book.total \in Int /\ Pending(r)
  BY DEF Collect, Stocked, TypeOK, Book
<1>2. rest <= held /\ held - rest = IF held < quantity THEN held ELSE quantity
  OBVIOUS
<1>3. /\ book'.reserved = Released(held - rest)
      /\ book'.total = book.total - quantity /\ book'.arriving = book.arriving
  BY <1>2 DEF Collect, TypeOK, Book
<1>4. \A q \in Reservations \ {r} : reservation'[q] = reservation[q]
  BY DEF Collect, TypeOK
<1>5. IF rest = 0 THEN reservation'[r].status # "pending"
      ELSE reservation'[r].status = "pending" /\ reservation'[r].quantity = rest
  <2>1. CASE quantity >= held
    BY <2>1 DEF Collect, TypeOK, Reservation
  <2>2. CASE ~(quantity >= held)
    <3>1. reservation' = [reservation EXCEPT ![r].quantity = held - quantity]
      BY <2>2 DEF Collect
    <3>2. reservation'[r].quantity = rest /\ reservation'[r].status = reservation[r].status
      BY <2>2, <3>1 DEF TypeOK, Reservation
    <3>3. rest # 0
      BY <2>2
    <3> QED
      BY <3>2, <3>3, <1>1 DEF Pending
  <2> QED
    BY <2>1, <2>2
<1>6. /\ IsFiniteSet(HeldCopies') /\ Held' = Released(held - rest)
      /\ Held' \in Nat /\ Held' = book.reserved - (held - rest)
  BY <1>1, <1>2, <1>4, <1>5, ReleasedShrinks
<1>7. book.reserved >= held
  BY <1>1, HeldAtLeast
<1>8. book'.reserved = book.reserved - (held - rest) /\ book'.reserved \in Nat
  BY <1>3, <1>6
<1>9. book.total - book.reserved + held >= quantity
  BY <1>1 DEF Available
<1>10. book'.total >= 0
  BY <1>1, <1>3, <1>7, <1>9
<1>11. book'.arriving \/ Available' >= 0
  <2>1. book.arriving \/ book.total - book.reserved >= 0
    BY <1>1 DEF Available
  <2>2. book'.arriving \/ book'.total - book'.reserved >= 0
    BY <1>1, <1>2, <1>3, <1>8, <1>9, <2>1
  <2> QED
    BY <2>2 DEF Available
<1> QED
  BY <1>3, <1>6, <1>10, <1>11

\* A cancellation or an update that ends the pending reservation it has read.
LEMMA EndStocked ==
    ASSUME TypeOK, TypeOK', Stocked, NEW r \in Reservations, Pending(r),
           disturbed = {}, ~edited,
           reservation'[r].status # "pending",
           \A q \in Reservations \ {r} : reservation'[q] = reservation[q],
           book' = [book EXCEPT !.reserved = Released(reservation[r].quantity)]
    PROVE  /\ IsFiniteSet(HeldCopies') /\ book'.reserved = Held'
           /\ book'.total >= 0 /\ (book'.arriving \/ Available' >= 0)
<1>1. /\ IsFiniteSet(HeldCopies) /\ book.reserved = Held /\ book.total >= 0
      /\ book.arriving \/ Available >= 0
      /\ book.reserved \in Nat /\ book.total \in Int /\ reservation[r].quantity \in Nat
  BY DEF Stocked, TypeOK, Book, Reservation
<1> PICK rest \in Nat : rest = 0
  OBVIOUS
<1>2. rest <= reservation[r].quantity
  BY <1>1
<1>3. /\ IsFiniteSet(HeldCopies') /\ Held' = Released(reservation[r].quantity - rest)
      /\ Held' \in Nat /\ Held' = book.reserved - (reservation[r].quantity - rest)
  BY <1>1, <1>2, ReleasedShrinks
<1>4. reservation[r].quantity - rest = reservation[r].quantity
  BY <1>1
<1>5. /\ book'.reserved = Released(reservation[r].quantity)
      /\ book'.total = book.total /\ book'.arriving = book.arriving
  BY DEF TypeOK, Book
<1> QED
  BY <1>1, <1>3, <1>4, <1>5 DEF Available

LEMMA CancelStocked ==
    ASSUME TypeOK, TypeOK', Stocked, NEW w \in Workers, Cancel(w)
    PROVE  Stocked'
<1> SUFFICES ASSUME disturbed' = {}, ~edited'
             PROVE  /\ IsFiniteSet(HeldCopies') /\ book'.reserved = Held'
                    /\ book'.total >= 0 /\ (book'.arriving \/ Available' >= 0)
  BY DEF Stocked
<1>1. PICK r \in Reservations, seen \in Reservation : r = request[w].id /\ seen = request[w].seen
  BY RequestType DEF Cancel
<1>2. /\ reservation' = [reservation EXCEPT ![r].status =
                IF seen.status = "cancelled" THEN @ ELSE "cancelled"]
      /\ book' = [book EXCEPT !.reserved = Released(seen.quantity)]
      /\ disturbed' = IF reservation[r] = seen /\ seen.status = "pending"
                      THEN disturbed ELSE disturbed \cup {r}
      /\ edited' = edited
  BY <1>1 DEF Cancel
<1>3. reservation[r] = seen /\ seen.status = "pending" /\ disturbed = {}
  BY <1>2
<1>4. /\ reservation'[r].status # "pending" /\ Pending(r)
      /\ \A q \in Reservations \ {r} : reservation'[q] = reservation[q]
  BY <1>2, <1>3 DEF TypeOK, Reservation, Pending
<1> QED
  BY <1>2, <1>3, <1>4, EndStocked

LEMMA SameStocked ==
    ASSUME TypeOK, TypeOK', Stocked, disturbed' = {}, ~edited', disturbed = {}, ~edited,
           \A q \in Reservations : /\ reservation'[q].status = reservation[q].status
                                   /\ reservation'[q].quantity = reservation[q].quantity,
           UNCHANGED book
    PROVE  Stocked'
BY HeldSame DEF Stocked, Held, Available

LEMMA UpdateStocked ==
    ASSUME TypeOK, TypeOK', Stocked, NEW w \in Workers, Update(w)
    PROVE  Stocked'
<1> SUFFICES ASSUME disturbed' = {}, ~edited'
             PROVE  Stocked'
  BY DEF Stocked
<1>1. PICK r \in Reservations, seen \in Reservation, status \in Status :
        r = request[w].id /\ seen = request[w].seen /\ status = request[w].status
  BY RequestType DEF Update
<1>2. /\ reservation' = [reservation EXCEPT ![r].status = IF status = seen.status THEN @ ELSE status]
      /\ book' = IF seen.status = "pending" /\ status # "pending"
                 THEN [book EXCEPT !.reserved = Released(seen.quantity)] ELSE book
      /\ disturbed' = IF status = seen.status \/ (reservation[r] = seen /\ seen.status = "pending")
                      THEN disturbed ELSE disturbed \cup {r}
      /\ edited' = edited
  BY <1>1 DEF Update
<1>3. CASE status = seen.status
  <2>1. /\ disturbed = {} /\ UNCHANGED book
        /\ \A q \in Reservations : /\ reservation'[q].status = reservation[q].status
                                   /\ reservation'[q].quantity = reservation[q].quantity
    BY <1>2, <1>3 DEF TypeOK, Reservation
  <2> QED
    BY <1>2, <2>1, SameStocked
<1>4. CASE status # seen.status
  <2>1. reservation[r] = seen /\ seen.status = "pending" /\ disturbed = {} /\ Pending(r)
    BY <1>2, <1>4 DEF Pending
  <2>2. /\ reservation'[r].status # "pending"
        /\ \A q \in Reservations \ {r} : reservation'[q] = reservation[q]
    BY <1>2, <1>4, <2>1 DEF TypeOK, Reservation
  <2>3. book' = [book EXCEPT !.reserved = Released(reservation[r].quantity)]
    BY <1>2, <1>4, <2>1
  <2> QED
    BY <1>2, <2>1, <2>2, <2>3, EndStocked DEF Stocked
<1> QED
  BY <1>3, <1>4

LEMMA OtherStocked ==
    ASSUME TypeOK, TypeOK', Stocked, UNCHANGED <<reservation, disturbed, edited>>,
           \/ UNCHANGED book
           \/ \E quantity \in Nat \ {0} : Sell(quantity) \/ Supply(quantity)
    PROVE  Stocked'
<1>1. HeldCopies' = HeldCopies
  BY HeldSame
<1>2. CASE UNCHANGED book
  BY <1>1, <1>2 DEF Stocked, Held, Available
<1>3. CASE \E quantity \in Nat \ {0} : Sell(quantity) \/ Supply(quantity)
  <2> PICK quantity \in Nat \ {0} : Sell(quantity) \/ Supply(quantity)
    BY <1>3
  <2>1. /\ book'.reserved = book.reserved /\ book'.arriving = book.arriving
        /\ book.reserved \in Nat /\ book.total \in Int
        /\ \/ book'.total = book.total + quantity
           \/ book'.total = book.total - quantity /\ Available >= quantity
    BY DEF Sell, Supply, TypeOK, Book
  <2> QED
    BY <1>1, <2>1 DEF Stocked, Held, Available
<1> QED
  BY <1>2, <1>3

LEMMA StockedStep == TypeOK /\ TypeOK' /\ Stocked /\ [Next]_vars => Stocked'
<1> SUFFICES ASSUME TypeOK, TypeOK', Stocked, [Next]_vars PROVE Stocked'
  OBVIOUS
<1>1. ASSUME NEW r \in Reservations, NEW quantity \in Quantities,
             \/ \E deposit \in BOOLEAN : CreateReservation(r, quantity, deposit)
             \/ Collect(r, quantity)
      PROVE  Stocked'
  BY <1>1, CreateStocked, CollectStocked, QuantitiesAssumption
<1>2. ASSUME NEW quantity \in Quantities, Sell(quantity) \/ Supply(quantity) PROVE Stocked'
  <2>1. quantity \in Nat \ {0} /\ UNCHANGED <<reservation, disturbed, edited>>
    BY <1>2, QuantitiesAssumption DEF Sell, Supply
  <2> QED
    BY <1>2, <2>1, OtherStocked
<1>3. ASSUME NEW w \in Workers, Cancel(w) \/ Update(w) PROVE Stocked'
  BY <1>3, CancelStocked, UpdateStocked
<1>4. ASSUME NEW w \in Workers,
             \/ \E r \in Reservations :
                  ReadForCancel(w, r) \/ \E status \in Status : ReadForUpdate(w, r, status)
             \/ \E values \in EditValues : ReadForEdit(w, values)
      PROVE  Stocked'
  <2>1. UNCHANGED <<reservation, disturbed, edited, book>>
    BY <1>4 DEF ReadForCancel, ReadForUpdate, ReadForEdit, Begin
  <2> QED
    BY <2>1, OtherStocked
<1>5. ASSUME NEW w \in Workers, Edit(w) PROVE Stocked'
  <2>1. UNCHANGED <<reservation, disturbed>> /\ edited' = (edited \/ book' # book)
    BY <1>5 DEF Edit
  <2>2. CASE edited'
    BY <2>2 DEF Stocked
  <2>3. CASE ~edited'
    <3>1. UNCHANGED <<book, edited>>
      BY <2>1, <2>3 DEF TypeOK
    <3> QED
      BY <2>1, <3>1, OtherStocked
  <2> QED
    BY <2>2, <2>3
<1>6. CASE UNCHANGED vars
  BY <1>6, OtherStocked DEF vars
<1> QED
  BY <1>1, <1>2, <1>3, <1>4, <1>5, <1>6 DEF Next

(* For any number of reservations, quantities and parallel requests, the      *)
(* copies reserved are those of the pending reservations, and there, until a  *)
(* reservation is written on a stale read or the stock is edited.             *)
THEOREM HeldTheorem == Spec => []ReservedIsHeld
<1>1. Stocked => ReservedIsHeld
  BY DEF Stocked, ReservedIsHeld
<1>2. TypeOK /\ Stocked /\ [Next]_vars => TypeOK' /\ Stocked'
  BY TypeStep, StockedStep
<1> QED
  BY <1>1, <1>2, TypeInit, StockedInit, PTL DEF Spec
=============================================================================
