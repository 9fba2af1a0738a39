---------------------------- MODULE CheckoutProofs ----------------------------
(***************************************************************************)
(* Proofs about a till, for any number of tickets, reservations, changes of   *)
(* the cart and faults: its receipt numbers, what becomes of what it has      *)
(* recorded, its types, where the links to its reservations come from, how    *)
(* often the server applies a ticket, and whose reservation a ticket ends.    *)
(***************************************************************************)
EXTENDS Checkout, SequenceTheorems, FiniteSetTheorems, TLAPS

(* The fields of a ticket, whatever its cart and what it has seen are. *)
IsTicket(t) ==
    t = [kind |-> t.kind, pc |-> t.pc, number |-> t.number, customer |-> t.customer,
         cart |-> t.cart, recorded |-> t.recorded, seen |-> t.seen]

Shape == counter \in Nat /\ ticket = [i \in Tickets |-> ticket[i]] /\ \A i \in Tickets : IsTicket(ticket[i])

\* What the numbers depend on.
Marks(i, kind, pc, number, recorded, customer, c) ==
    /\ ticket' = [j \in Tickets |-> ticket'[j]] /\ IsTicket(ticket'[i])
    /\ ticket'[i].kind = kind /\ ticket'[i].pc = pc
    /\ ticket'[i].number = number /\ ticket'[i].recorded = recorded
    /\ ticket'[i].customer = customer /\ ticket'[i].cart = c
    /\ ticket'[i].seen \subseteq ticket[i].seen \cup Fetched
    /\ \A j \in Tickets \ {i} : ticket'[j] = ticket[j]

LEMMA PutMarks ==
    ASSUME Shape, NEW i \in Tickets, NEW u, IsTicket(u), ticket' = [ticket EXCEPT ![i] = u],
           u.seen \subseteq ticket[i].seen \cup Fetched
    PROVE  Marks(i, u.kind, u.pc, u.number, u.recorded, u.customer, u.cart)
<1>1. ticket'[i] = u /\ \A j \in Tickets \ {i} : ticket'[j] = ticket[j]
  BY DEF Shape
<1>2. ticket' = [j \in Tickets |-> ticket'[j]]
  BY DEF Shape
<1> QED
  BY <1>1, <1>2 DEF Marks

LEMMA StepMarks ==
    ASSUME Shape, NEW i \in Tickets, NEW pc, Step(i, pc)
    PROVE  Marks(i, ticket[i].kind, pc, ticket[i].number, ticket[i].recorded, ticket[i].customer, ticket[i].cart)
<1> PICK t : t = ticket[i]
  OBVIOUS
<1>1. IsTicket(t)
  BY DEF Shape
<1> PICK u : u = [t EXCEPT !.pc = pc]
  OBVIOUS
<1>2. u = [kind |-> t.kind, pc |-> pc, number |-> t.number, customer |-> t.customer,
           cart |-> t.cart, recorded |-> t.recorded, seen |-> t.seen]
  BY <1>1 DEF IsTicket
<1>3. /\ IsTicket(u) /\ u.kind = t.kind /\ u.customer = t.customer /\ u.cart = t.cart
      /\ u.pc = pc /\ u.number = t.number /\ u.seen = t.seen /\ u.recorded = t.recorded
  BY <1>2 DEF IsTicket
<1>4. ticket' = [ticket EXCEPT ![i] = u]
  BY DEF Step
<1>5. Marks(i, u.kind, u.pc, u.number, u.recorded, u.customer, u.cart)
  BY <1>3, <1>4, PutMarks
<1> QED
  BY <1>3, <1>5

LEMMA NewMarks ==
    ASSUME NEW kind, NEW customer, NEW c
    PROVE  NewTicket(kind, customer, c) =
               [kind |-> kind, pc |-> "none", number |-> counter, customer |-> customer,
                cart |-> c, recorded |-> FALSE, seen |-> {}]
<1> DEFINE e == EmptyCart
<1>1. NoTicket = [kind |-> "none", pc |-> "none", number |-> 1, customer |-> "nobody",
                  cart |-> e, recorded |-> FALSE, seen |-> {}]
  BY DEF NoTicket
<1> HIDE DEF e
<1>2. NewTicket(kind, customer, c) =
        [NoTicket EXCEPT !.kind = kind, !.customer = customer, !.cart = c, !.number = counter]
  BY DEF NewTicket
<1> QED
  BY <1>1, <1>2
\* Both kinds of recording: the number is spent when the sale was under way, ...
LEMMA RecordMarks ==
    ASSUME Shape, NEW i \in Tickets,
           ticket' = [ticket EXCEPT ![i].pc = "refresh", ![i].recorded = TRUE]
    PROVE  Marks(i, ticket[i].kind, "refresh", ticket[i].number, TRUE, ticket[i].customer, ticket[i].cart)
<1> PICK t : t = ticket[i]
  OBVIOUS
<1>1. IsTicket(t)
  BY DEF Shape
<1> PICK u : u = [t EXCEPT !.pc = "refresh", !.recorded = TRUE]
  OBVIOUS
<1>2. u = [kind |-> t.kind, pc |-> "refresh", number |-> t.number, customer |-> t.customer,
           cart |-> t.cart, recorded |-> TRUE, seen |-> t.seen]
  BY <1>1 DEF IsTicket
<1>3. /\ IsTicket(u) /\ u.kind = t.kind /\ u.customer = t.customer /\ u.cart = t.cart
      /\ u.pc = "refresh" /\ u.number = t.number /\ u.seen = t.seen /\ u.recorded = TRUE
  BY <1>2 DEF IsTicket
<1>4. ticket' = [ticket EXCEPT ![i] = u]
  BY DEF Shape
<1>5. Marks(i, u.kind, u.pc, u.number, u.recorded, u.customer, u.cart)
  BY <1>3, <1>4, PutMarks
<1> QED
  BY <1>3, <1>5

\* ... or with the click.
LEMMA ClickMarks ==
    ASSUME Shape, NEW i \in Tickets, NEW kind, NEW customer, NEW c, NEW pc, NEW recorded,
           ticket' = [ticket EXCEPT ![i] =
                         [NewTicket(kind, customer, c) EXCEPT !.pc = pc, !.recorded = recorded]]
    PROVE  Marks(i, kind, pc, counter, recorded, customer, c)
<1> PICK t : t = NewTicket(kind, customer, c)
  OBVIOUS
<1>2. /\ IsTicket(t) /\ t.kind = kind /\ t.customer = customer /\ t.cart = c /\ t.number = counter
      /\ t.seen \subseteq ticket[i].seen
  <2> DEFINE nothing == {}
  <2>0. nothing \subseteq ticket[i].seen
    OBVIOUS
  <2>1. t = [kind |-> kind, pc |-> "none", number |-> counter, customer |-> customer,
             cart |-> c, recorded |-> FALSE, seen |-> nothing]
    BY NewMarks
  <2> HIDE DEF nothing
  <2> QED
    BY <2>0, <2>1 DEF IsTicket
<1> PICK u : u = [t EXCEPT !.pc = pc, !.recorded = recorded]
  OBVIOUS
<1>3. u = [kind |-> t.kind, pc |-> pc, number |-> t.number, customer |-> t.customer,
           cart |-> t.cart, recorded |-> recorded, seen |-> t.seen]
  BY <1>2 DEF IsTicket
<1>4. /\ IsTicket(u) /\ u.kind = t.kind /\ u.customer = t.customer /\ u.cart = t.cart
      /\ u.pc = pc /\ u.number = t.number /\ u.seen = t.seen /\ u.recorded = recorded
  BY <1>3 DEF IsTicket
<1>5. Marks(i, u.kind, u.pc, u.number, u.recorded, u.customer, u.cart)
  BY <1>2, <1>4, PutMarks
<1> QED
  BY <1>2, <1>4, <1>5

LEMMA SeenMarks ==
    ASSUME Shape, NEW i \in Tickets, NEW pc, NEW seen, seen \subseteq Fetched,
           ticket' = [ticket EXCEPT ![i].pc = pc, ![i].seen = seen]
    PROVE  Marks(i, ticket[i].kind, pc, ticket[i].number, ticket[i].recorded, ticket[i].customer, ticket[i].cart)
<1> PICK t : t = ticket[i]
  OBVIOUS
<1>1. IsTicket(t)
  BY DEF Shape
<1> PICK u : u = [t EXCEPT !.pc = pc, !.seen = seen]
  OBVIOUS
<1>2. u = [kind |-> t.kind, pc |-> pc, number |-> t.number, customer |-> t.customer,
           cart |-> t.cart, recorded |-> t.recorded, seen |-> seen]
  BY <1>1 DEF IsTicket
<1>3. /\ IsTicket(u) /\ u.kind = t.kind /\ u.customer = t.customer /\ u.cart = t.cart
      /\ u.pc = pc /\ u.number = t.number /\ u.seen = seen /\ u.recorded = t.recorded
  BY <1>2 DEF IsTicket
<1>4. ticket' = [ticket EXCEPT ![i] = u]
  BY DEF Shape
<1>5. Marks(i, u.kind, u.pc, u.number, u.recorded, u.customer, u.cart)
  BY <1>3, <1>4, PutMarks
<1> QED
  BY <1>3, <1>5

-----------------------------------------------------------------------------
(* A sale under way has the number that the counter still shows, and it is  *)
(* the only one; the numbers that were given are below the counter.         *)
UnderWay(i) == ticket[i].pc \in {"reserve", "sell"}

NoOther(i) == \A j \in Tickets \ {i} : ~UnderWay(j)

Counted(i) == ticket[i].recorded /\ ticket[i].kind # "memo"

Numbering ==
    /\ \A i \in Tickets : UnderWay(i) => ticket[i].number = counter /\ ~ticket[i].recorded
    /\ \A i, j \in Tickets : i # j => ~UnderWay(i) \/ ~UnderWay(j)
    /\ \A i \in Tickets : Counted(i) => ticket[i].number \in Nat /\ ticket[i].number < counter
    /\ \A i, j \in Tickets : i # j /\ Counted(i) /\ Counted(j) => ticket[i].number # ticket[j].number

NInv == Shape /\ (~clash => Numbering)

\* Nothing that a number depends on changes, except that a sale may end.
LEMMA NumberQuiet ==
    ASSUME NInv, NEW i \in Tickets, NEW pc, UNCHANGED counter, clash => clash',
           Marks(i, ticket[i].kind, pc, ticket[i].number, ticket[i].recorded, ticket[i].customer, ticket[i].cart),
           pc \in {"reserve", "sell"} => UnderWay(i)
    PROVE  NInv'
<1>1. Shape'
  BY DEF NInv, Shape, Marks
<1>2. \A j \in Tickets : /\ ticket'[j].number = ticket[j].number
                         /\ ticket'[j].recorded = ticket[j].recorded
                         /\ ticket'[j].kind = ticket[j].kind
                         /\ UnderWay(j)' => UnderWay(j)
  BY DEF Marks, UnderWay
<1>3. ~clash => Numbering'
  BY <1>2 DEF NInv, Numbering, Counted
<1> QED
  BY <1>1, <1>3 DEF NInv

\* A sale is recorded and its number spent; no other one is under way.
LEMMA NumberSpent ==
    ASSUME NInv, NEW i \in Tickets, NEW kind, NEW pc, NEW number, NEW customer, NEW c,
           counter' = counter + 1, clash => clash', Marks(i, kind, pc, number, TRUE, customer, c),
           pc \notin {"reserve", "sell"},
           ~clash' => number = counter, ~clash' => NoOther(i)
    PROVE  NInv'
<1>0. counter \in Nat
  BY DEF NInv, Shape
<1>1. Shape'
  BY <1>0 DEF NInv, Shape, Marks
<1>2. ASSUME ~clash' PROVE Numbering'
  <2>1. Numbering /\ number = counter /\ \A j \in Tickets \ {i} : ~UnderWay(j)
    BY <1>2 DEF NInv, NoOther
  <2>2. \A j \in Tickets \ {i} : ticket'[j] = ticket[j]
    BY DEF Marks
  <2>3. ticket'[i].number = counter /\ ~UnderWay(i)' /\ \A j \in Tickets : ~UnderWay(j)'
    BY <2>1, <2>2 DEF Marks, UnderWay
  <2>4. \A j \in Tickets \ {i} : Counted(j)' => ticket'[j].number \in Nat /\ ticket'[j].number < counter
    BY <2>1, <2>2 DEF Numbering, Counted
  <2>5. \A j \in Tickets : Counted(j)' => ticket'[j].number \in Nat /\ ticket'[j].number < counter'
    BY <2>3, <2>4, <1>0
  <2>6. ASSUME NEW j \in Tickets, NEW k \in Tickets, j # k, Counted(j)', Counted(k)'
        PROVE  ticket'[j].number # ticket'[k].number
    <3>1. CASE j = i \/ k = i
      BY <3>1, <2>3, <2>4, <2>6, <1>0
    <3>2. CASE j # i /\ k # i
      BY <3>2, <2>1, <2>2, <2>6 DEF Numbering, Counted
    <3> QED
      BY <3>1, <3>2
  <2> QED
    BY <2>3, <2>5, <2>6 DEF Numbering
<1> QED
  BY <1>1, <1>2 DEF NInv

\* A click on something that is not counted; a sale under way is the only one.
LEMMA NumberClick ==
    ASSUME NInv, NEW i \in Tickets, NEW kind, NEW pc, NEW recorded, NEW customer, NEW c,
           UNCHANGED counter, clash => clash', Marks(i, kind, pc, counter, recorded, customer, c),
           recorded => kind = "memo",
           pc \in {"reserve", "sell"} => ~recorded /\ (~clash' => NoOther(i))
    PROVE  NInv'
<1>1. Shape'
  BY DEF NInv, Shape, Marks
<1>2. ASSUME ~clash' PROVE Numbering'
  <2>1. Numbering /\ (UnderWay(i)' => \A j \in Tickets \ {i} : ~UnderWay(j))
    BY <1>2 DEF NInv, UnderWay, NoOther, Marks
  <2>2. \A j \in Tickets \ {i} : ticket'[j] = ticket[j]
    BY DEF Marks
  <2>3. /\ ticket'[i].number = counter /\ ~Counted(i)'
        /\ UnderWay(i)' => ~ticket'[i].recorded
    BY DEF Marks, Counted, UnderWay
  <2>4. \A j \in Tickets \ {i} : (UnderWay(j)' => UnderWay(j)) /\ (Counted(j)' => Counted(j))
    BY <2>2 DEF UnderWay, Counted
  <2> QED
    BY <2>1, <2>2, <2>3, <2>4 DEF Numbering
<1> QED
  BY <1>1, <1>2 DEF NInv

LEMMA NumberSame ==
    ASSUME NInv, UNCHANGED <<counter, ticket>>, clash => clash' PROVE NInv'
BY DEF NInv, Shape, Numbering, UnderWay, Counted

-----------------------------------------------------------------------------
\* A click that does not name recorded, and one that records first.
LEMMA PlainClickMarks ==
    ASSUME Shape, NEW i \in Tickets, NEW kind, NEW customer, NEW c, NEW pc,
           ticket' = [ticket EXCEPT ![i] = [NewTicket(kind, customer, c) EXCEPT !.pc = pc]]
    PROVE  Marks(i, kind, pc, counter, FALSE, customer, c)
<1> PICK t : t = NewTicket(kind, customer, c)
  OBVIOUS
<1>1. /\ IsTicket(t) /\ t.kind = kind /\ t.customer = customer /\ t.cart = c /\ t.number = counter /\ t.recorded = FALSE
      /\ t.seen \subseteq ticket[i].seen
  <2> DEFINE nothing == {}
  <2>0. nothing \subseteq ticket[i].seen
    OBVIOUS
  <2>1. t = [kind |-> kind, pc |-> "none", number |-> counter, customer |-> customer,
             cart |-> c, recorded |-> FALSE, seen |-> nothing]
    BY NewMarks
  <2> HIDE DEF nothing
  <2> QED
    BY <2>0, <2>1 DEF IsTicket
<1> PICK u : u = [t EXCEPT !.pc = pc]
  OBVIOUS
<1>2. u = [kind |-> t.kind, pc |-> pc, number |-> t.number, customer |-> t.customer,
           cart |-> t.cart, recorded |-> t.recorded, seen |-> t.seen]
  BY <1>1 DEF IsTicket
<1>3. /\ IsTicket(u) /\ u.kind = t.kind /\ u.customer = t.customer /\ u.cart = t.cart
      /\ u.pc = pc /\ u.number = t.number /\ u.seen = t.seen /\ u.recorded = t.recorded
  BY <1>2 DEF IsTicket
<1>4. Marks(i, u.kind, u.pc, u.number, u.recorded, u.customer, u.cart)
  BY <1>1, <1>3, PutMarks
<1> QED
  BY <1>1, <1>3, <1>4

LEMMA MemoMarks ==
    ASSUME Shape, NEW i \in Tickets, NEW kind, NEW customer, NEW c, NEW pc, NEW recorded,
           ticket' = [ticket EXCEPT ![i] =
                         [[NewTicket(kind, customer, c) EXCEPT !.recorded = recorded] EXCEPT !.pc = pc]]
    PROVE  Marks(i, kind, pc, counter, recorded, customer, c)
<1> PICK t : t = NewTicket(kind, customer, c)
  OBVIOUS
<1>1. /\ IsTicket(t) /\ t.kind = kind /\ t.customer = customer /\ t.cart = c /\ t.number = counter
      /\ t.seen \subseteq ticket[i].seen
  <2> DEFINE nothing == {}
  <2>0. nothing \subseteq ticket[i].seen
    OBVIOUS
  <2>1. t = [kind |-> kind, pc |-> "none", number |-> counter, customer |-> customer,
             cart |-> c, recorded |-> FALSE, seen |-> nothing]
    BY NewMarks
  <2> HIDE DEF nothing
  <2> QED
    BY <2>0, <2>1 DEF IsTicket
<1> PICK u : u = [[t EXCEPT !.recorded = recorded] EXCEPT !.pc = pc]
  OBVIOUS
<1>2. u = [kind |-> t.kind, pc |-> pc, number |-> t.number, customer |-> t.customer,
           cart |-> t.cart, recorded |-> recorded, seen |-> t.seen]
  BY <1>1 DEF IsTicket
<1>3. /\ IsTicket(u) /\ u.kind = t.kind /\ u.customer = t.customer /\ u.cart = t.cart
      /\ u.pc = pc /\ u.number = t.number /\ u.seen = t.seen /\ u.recorded = recorded
  BY <1>2 DEF IsTicket
<1>4. Marks(i, u.kind, u.pc, u.number, u.recorded, u.customer, u.cart)
  BY <1>1, <1>3, PutMarks
<1> QED
  BY <1>1, <1>3, <1>4

\* Numbered: no sale is under way, or clash is set.
LEMMA NumberedAlone ==
    ASSUME NEW i \in Tickets, Numbered PROVE (clash => clash') /\ (~clash' => NoOther(i))
BY DEF Numbered, UnderWay, NoOther

LEMMA CompleteStep ==
    ASSUME NInv, NEW i \in Tickets,
           \/ \E customer \in Customers : CompleteOnline(i, customer) \/ CompleteOffline(i, customer)
           \/ \E e \in listed : Pickup(i, e) \/ PickupFromDetails(i, e)
    PROVE  NInv'
<1>0. Numbered /\ Shape /\ "sale" # "memo" /\ "pickup" # "memo" /\ "modal" # "memo"
  BY DEF CompleteOnline, CompleteOffline, Pickup, PickupFromDetails, NInv
<1>1. CASE \E customer \in Customers : CompleteOnline(i, customer)
  <2> PICK customer \in Customers : CompleteOnline(i, customer)
    BY <1>1
  <2> PICK pc : pc = IF cart.reserve THEN "reserve" ELSE "sell"
    OBVIOUS
  <2>1. UNCHANGED counter
        /\ ticket' = [ticket EXCEPT ![i] = [NewTicket("sale", customer, cart) EXCEPT !.pc = pc]]
    BY DEF CompleteOnline
  <2>3. Marks(i, "sale", pc, counter, FALSE, customer, cart)
    BY <2>1, <1>0, PlainClickMarks
  <2> QED
    BY <2>1, <2>3, <1>0, NumberedAlone, NumberClick
<1>2. CASE \/ \E customer \in Customers : CompleteOffline(i, customer)
           \/ \E e \in listed : Pickup(i, e) \/ PickupFromDetails(i, e)
  <2>1. counter' = counter + 1
    BY <1>2 DEF CompleteOffline, Pickup, PickupFromDetails, RecordOffline, Raised
  <2>2. \E kind \in {"sale", "pickup", "modal"}, customer \in Customers \cup {Customer(e.from) : e \in listed},
           c \in {cart} \cup {Linked(e) : e \in listed} :
          ticket' = [ticket EXCEPT ![i] = [NewTicket(kind, customer, c) EXCEPT !.pc = "done", !.recorded = TRUE]]
    BY <1>2 DEF CompleteOffline, Pickup, PickupFromDetails
  <2>3. PICK kind, customer, c : Marks(i, kind, "done", counter, TRUE, customer, c)
    BY <2>2, <1>0, ClickMarks
  <2>4. (clash => clash') /\ (~clash' => NoOther(i)) /\ "done" \notin {"reserve", "sell"}
    BY <1>0, NumberedAlone
  <2> QED
    BY <2>1, <2>3, <2>4, NumberSpent
<1> QED
  BY <1>1, <1>2

LEMMA OtherClicks ==
    ASSUME NInv, NEW i \in Tickets, (\E e \in listed : CancelReservation(i, e)) \/ Memo(i) PROVE NInv'
<1>0. Shape /\ UNCHANGED <<counter, clash>>
  BY DEF NInv, CancelReservation, Memo, history
<1>1. CASE \E e \in listed : CancelReservation(i, e)
  <2> PICK e \in listed : CancelReservation(i, e)
    BY <1>1
  <2>1. ticket' = [ticket EXCEPT ![i] = [NewTicket("cancel", Customer(e.from), Linked(e)) EXCEPT !.pc = "done"]]
    BY DEF CancelReservation
  <2>3. Marks(i, "cancel", "done", counter, FALSE, Customer(e.from), Linked(e))
    BY <2>1, <1>0, PlainClickMarks
  <2> QED
    BY <2>3, <1>0, NumberClick
<1>2. CASE Memo(i)
  <2> PICK pc : pc = IF online THEN "memo" ELSE "done"
    OBVIOUS
  <2>1. ticket' = [ticket EXCEPT ![i] =
            [[NewTicket("memo", "nobody", EmptyCart) EXCEPT !.recorded = TRUE] EXCEPT !.pc = pc]]
    BY <1>2 DEF Memo
  <2>3. Marks(i, "memo", pc, counter, TRUE, "nobody", EmptyCart) /\ pc \notin {"reserve", "sell"}
    BY <2>1, <1>0, MemoMarks
  <2> QED
    BY <2>3, <1>0, NumberClick
<1> QED
  BY <1>1, <1>2

LEMMA ServeStep ==
    ASSUME NInv, NEW i \in Tickets, Serve(i) PROVE NInv'
<1>0. Shape /\ UNCHANGED clash
  BY DEF NInv, Serve, ReserveOnline, SellOnline, RefreshRead, Refreshed, MemoSent, history
<1>1. CASE ReserveOnline(i) \/ SellOnline(i)
  <2>0. UnderWay(i)
    BY <1>1 DEF ReserveOnline, SellOnline, At, UnderWay
  <2>1. \/ /\ ticket' = [ticket EXCEPT ![i].pc = "refresh", ![i].recorded = TRUE]
           /\ counter' = counter + 1
        \/ UNCHANGED counter /\ (Step(i, "sell") \/ Step(i, "gone"))
    BY <1>1 DEF ReserveOnline, SellOnline, Commit, FallBack, RecordOffline, Raised
  <2>2. CASE UNCHANGED counter /\ (Step(i, "sell") \/ Step(i, "gone"))
    BY <2>0, <2>2, <1>0, StepMarks, NumberQuiet
  <2>3. CASE /\ ticket' = [ticket EXCEPT ![i].pc = "refresh", ![i].recorded = TRUE]
             /\ counter' = counter + 1
    <3>1. Marks(i, ticket[i].kind, "refresh", ticket[i].number, TRUE, ticket[i].customer, ticket[i].cart)
      BY <2>3, <1>0, RecordMarks
    <3>2. (~clash' => ticket[i].number = counter) /\ (~clash' => NoOther(i)) /\ (clash => clash')
      BY <2>0, <1>0 DEF NInv, Numbering, NoOther
    <3>3. "refresh" \notin {"reserve", "sell"}
      OBVIOUS
    <3> QED
      BY <3>1, <3>2, <3>3, <2>3, NumberSpent
  <2> QED
    BY <2>1, <2>2, <2>3
<1>2. CASE RefreshRead(i) \/ Refreshed(i)
  <2>1. UNCHANGED counter
        /\ \E pc \in {"reading", "done"}, seen \in {Fetched, {}} :
              ticket' = [ticket EXCEPT ![i].pc = pc, ![i].seen = seen]
    BY <1>2 DEF RefreshRead, Refreshed
  <2>2. \E pc \in {"reading", "done"} :
            Marks(i, ticket[i].kind, pc, ticket[i].number, ticket[i].recorded, ticket[i].customer, ticket[i].cart)
    BY <2>1, <1>0, SeenMarks
  <2> QED
    BY <2>1, <2>2, <1>0, NumberQuiet
<1>3. CASE MemoSent(i)
  <2>1. UNCHANGED counter /\ Step(i, "done")
    BY <1>3 DEF MemoSent
  <2> QED
    BY <2>1, <1>0, StepMarks, NumberQuiet
<1> QED
  BY <1>1, <1>2, <1>3 DEF Serve

\* A reload ends what is under way and leaves the rest of a ticket.
LEMMA ReloadTicket ==
    ASSUME Shape, Reload, NEW i \in Tickets
    PROVE  /\ IsTicket(ticket'[i]) /\ ticket'[i].kind = ticket[i].kind
           /\ ticket'[i].number = ticket[i].number /\ ticket'[i].recorded = ticket[i].recorded
           /\ ticket'[i].customer = ticket[i].customer /\ ticket'[i].cart = ticket[i].cart
           /\ ticket'[i].pc \in {ticket[i].pc, "gone"} /\ ~UnderWay(i)'
<1> PICK t : t = ticket[i]
  OBVIOUS
<1>1. ticket'[i] = IF t.pc \in {"reserve", "sell", "memo", "refresh", "reading"}
                   THEN [t EXCEPT !.pc = "gone", !.seen = {}] ELSE t
  BY DEF Reload
<1>2. IsTicket(t)
  BY DEF Shape
<1>3. CASE t.pc \in {"reserve", "sell", "memo", "refresh", "reading"}
  <2> PICK u : u = [t EXCEPT !.pc = "gone", !.seen = {}]
    OBVIOUS
  <2> DEFINE nothing == {}
  <2>1. u = [t EXCEPT !.pc = "gone", !.seen = nothing]
    OBVIOUS
  <2> HIDE DEF nothing
  <2>2. u = [kind |-> t.kind, pc |-> "gone", number |-> t.number, customer |-> t.customer,
             cart |-> t.cart, recorded |-> t.recorded, seen |-> nothing]
    BY <1>2, <2>1 DEF IsTicket
  <2>3. /\ IsTicket(u) /\ u.kind = t.kind /\ u.pc = "gone" /\ u.number = t.number
        /\ u.recorded = t.recorded /\ u.customer = t.customer /\ u.cart = t.cart
    BY <2>2 DEF IsTicket
  <2>4. ticket'[i] = u
    BY <1>1, <1>3
  <2> QED
    BY <2>3, <2>4 DEF UnderWay
<1>4. CASE t.pc \notin {"reserve", "sell", "memo", "refresh", "reading"}
  <2>1. ticket'[i] = t
    BY <1>1, <1>4
  <2> QED
    BY <1>2, <1>4, <2>1 DEF UnderWay
<1> QED
  BY <1>3, <1>4

LEMMA ReloadStep == ASSUME NInv, Reload PROVE NInv'
<1>1. /\ ticket' = [i \in Tickets |->
            IF ticket[i].pc \in {"reserve", "sell", "memo", "refresh", "reading"}
            THEN [ticket[i] EXCEPT !.pc = "gone", !.seen = {}] ELSE ticket[i]]
      /\ clash' = (clash \/ online) /\ counter' = IF online THEN 1 ELSE counter
  BY DEF Reload
<1>2. ASSUME NEW i \in Tickets
      PROVE  /\ IsTicket(ticket'[i]) /\ ticket'[i].kind = ticket[i].kind
             /\ ticket'[i].number = ticket[i].number /\ ticket'[i].recorded = ticket[i].recorded
             /\ ~UnderWay(i)'
  BY ReloadTicket DEF NInv
<1>3. Shape'
  <2>1. ticket' = [i \in Tickets |-> ticket'[i]]
    BY <1>1
  <2>2. counter' \in Nat
    BY <1>1 DEF NInv, Shape
  <2> QED
    BY <1>2, <2>1, <2>2 DEF Shape
<1>4. ASSUME ~clash' PROVE Numbering'
  <2>1. UNCHANGED counter /\ Numbering
    BY <1>1, <1>4 DEF NInv
  <2> QED
    BY <1>2, <2>1 DEF Numbering, Counted
<1> QED
  BY <1>3, <1>4 DEF NInv

LEMMA NumberStep == ASSUME NInv, [Next]_vars PROVE NInv'
<1>1. CASE \E i \in Tickets :
            \/ \E customer \in Customers : CompleteOnline(i, customer) \/ CompleteOffline(i, customer)
            \/ \E e \in listed : Pickup(i, e) \/ PickupFromDetails(i, e)
  BY <1>1, CompleteStep
<1>2. CASE \E i \in Tickets : (\E e \in listed : CancelReservation(i, e)) \/ Memo(i)
  BY <1>2, OtherClicks
<1>3. CASE \E i \in Tickets : Serve(i)
  BY <1>3, ServeStep
<1>4. CASE Reload
  BY <1>4, ReloadStep
<1>5. CASE \/ AddToCart \/ ChangeType \/ RemoveLine \/ AddLegacy \/ Audit
           \/ Probe \/ HydrateRead \/ HydrateApply \/ HydrateFails
           \/ ReplayStart \/ ReplayStop \/ Replay \/ UNCHANGED vars
  <2>1. UNCHANGED <<counter, ticket, clash>>
    BY <1>5 DEF AddToCart, ChangeType, RemoveLine, AddLegacy, Audit, Probe, HydrateRead, HydrateApply,
                HydrateFails, ReplayStart, ReplayStop, Replay, history, vars
  <2> QED
    BY <2>1, NumberSame
<1> QED
  BY <1>1, <1>2, <1>3, <1>4, <1>5 DEF Next

LEMMA NumberInit == ASSUME Init PROVE NInv
<1> DEFINE empty == EmptyCart
           nothing == {}
<1>0. NoTicket = [kind |-> "none", pc |-> "none", number |-> 1, customer |-> "nobody",
                  cart |-> empty, recorded |-> FALSE, seen |-> nothing]
  BY DEF NoTicket
<1> HIDE DEF empty, nothing
<1>1. IsTicket(NoTicket) /\ NoTicket.pc = "none" /\ NoTicket.recorded = FALSE
  BY <1>0 DEF IsTicket
<1>2. counter = 1 /\ ticket = [i \in Tickets |-> NoTicket]
  BY DEF Init
<1>3. Shape
  BY <1>1, <1>2 DEF Shape
<1>4. Numbering
  BY <1>1, <1>2 DEF Numbering, UnderWay, Counted
<1> QED
  BY <1>3, <1>4 DEF NInv

(* No receipt number is given to two tickets of a till, unless a click came  *)
(* while another sale was under way or the page was reloaded online: each    *)
(* sale spends the number its click has read before the next one reads it.   *)
THEOREM NumbersTheorem == Spec => []NumbersDiffer
<1>1. Init => NInv
  BY NumberInit
<1>2. NInv /\ [Next]_vars => NInv'
  BY NumberStep
<1>3. NInv => NumbersDiffer
  BY DEF NInv, Numbering, Counted, NumbersDiffer
<1> QED
  BY <1>1, <1>2, <1>3, PTL DEF Spec


-----------------------------------------------------------------------------
(* The queue as the set of its operations, and how each step changes it.     *)
IsSeq(q) == \E S : q \in Seq(S)

Elems(q) == {q[k] : k \in DOMAIN q}

IsOp(op) ==
    op = [kind |-> op.kind, of |-> op.of, needs |-> op.needs, later |-> op.later,
          dead |-> op.dead, result |-> op.result]

LEMMA AppendElems ==
    ASSUME NEW q, IsSeq(q), NEW e
    PROVE  IsSeq(Append(q, e)) /\ Elems(Append(q, e)) = Elems(q) \cup {e}
<1> PICK S : q \in Seq(S)
  BY DEF IsSeq
<1> DEFINE T == S \cup {e}
           s == Append(q, e)
<1>1. q \in Seq(T) /\ e \in T
  OBVIOUS
<1> HIDE DEF T
<1>2. s \in Seq(T) /\ DOMAIN s = 1..(Len(q) + 1) /\ DOMAIN q = 1..Len(q) /\ Len(q) \in Nat
  BY <1>1
<1>3. s[Len(q) + 1] = e /\ \A k \in 1..Len(q) : s[k] = q[k]
  BY <1>1
<1> HIDE DEF s
<1>4. Elems(s) = Elems(q) \cup {e}
  BY <1>2, <1>3 DEF Elems
<1> QED
  BY <1>2, <1>4 DEF IsSeq, s

\* The items after the one that is removed move up.
LEMMA RemoveItems ==
    ASSUME NEW q, IsSeq(q), NEW k \in DOMAIN q, NEW s, s = RemoveAt(q, k)
    PROVE  /\ IsSeq(s) /\ DOMAIN s = 1..(Len(q) - 1)
           /\ \A j \in DOMAIN s : s[j] = IF j < k THEN q[j] ELSE q[j + 1]
<1> PICK S : q \in Seq(S)
  BY DEF IsSeq
<1> DEFINE a == SubSeq(q, 1, k - 1)
           b == SubSeq(q, k + 1, Len(q))
<1>1. DOMAIN q = 1..Len(q) /\ Len(q) \in Nat /\ k \in 1..Len(q)
  OBVIOUS
<1>2. a \in Seq(S) /\ Len(a) = k - 1 /\ \A j \in 1..(k - 1) : a[j] = q[j]
  <2>1. \A j \in 1..(k - 1) : q[j] \in S
    BY <1>1
  <2> QED
    BY <1>1, <2>1, SubSeqProperties
<1>3. b \in Seq(S) /\ Len(b) = Len(q) - k /\ \A j \in 1..(Len(q) - k) : b[j] = q[k + j]
  <2>1. \A j \in (k + 1)..Len(q) : q[j] \in S
    BY <1>1
  <2> QED
    BY <1>1, <2>1, SubSeqProperties
<1>4. s = a \o b
  BY DEF RemoveAt
<1> HIDE DEF a, b
<1>5. /\ s \in Seq(S) /\ Len(s) = Len(q) - 1
      /\ \A j \in 1..(Len(q) - 1) : s[j] = IF j <= k - 1 THEN a[j] ELSE b[j - (k - 1)]
  <2>1. /\ a \o b \in Seq(S) /\ Len(a \o b) = Len(a) + Len(b)
        /\ \A j \in 1..(Len(a) + Len(b)) : (a \o b)[j] = IF j <= Len(a) THEN a[j] ELSE b[j - Len(a)]
    BY <1>2, <1>3, ConcatProperties
  <2>2. Len(a) + Len(b) = Len(q) - 1
    BY <1>1, <1>2, <1>3
  <2> QED
    BY <1>2, <1>4, <2>1, <2>2
<1>6. DOMAIN s = 1..(Len(q) - 1) /\ \A j \in DOMAIN s : s[j] = IF j < k THEN q[j] ELSE q[j + 1]
  <2>1. DOMAIN s = 1..(Len(q) - 1)
    BY <1>5
  <2>2. ASSUME NEW j \in 1..(Len(q) - 1), j < k PROVE s[j] = q[j]
    BY <1>1, <1>2, <1>5, <2>2
  <2>3. ASSUME NEW j \in 1..(Len(q) - 1), ~(j < k) PROVE s[j] = q[j + 1]
    <3>1. s[j] = b[j - (k - 1)] /\ j - (k - 1) \in 1..(Len(q) - k)
      BY <1>1, <1>5, <2>3
    <3>2. k + (j - (k - 1)) = j + 1
      BY <1>1
    <3> QED
      BY <1>3, <3>1, <3>2
  <2> QED
    BY <2>1, <2>2, <2>3
<1> QED
  BY <1>5, <1>6 DEF IsSeq

LEMMA RemoveElems ==
    ASSUME NEW q, IsSeq(q), NEW k \in DOMAIN q
    PROVE  /\ IsSeq(RemoveAt(q, k)) /\ Elems(RemoveAt(q, k)) \subseteq Elems(q)
           /\ Elems(q) \subseteq Elems(RemoveAt(q, k)) \cup {q[k]}
<1> PICK s : s = RemoveAt(q, k)
  OBVIOUS
<1>1. DOMAIN q = 1..Len(q) /\ Len(q) \in Nat /\ k \in 1..Len(q)
  BY DEF IsSeq
<1>6. IsSeq(s) /\ DOMAIN s = 1..(Len(q) - 1) /\ \A j \in DOMAIN s : s[j] = IF j < k THEN q[j] ELSE q[j + 1]
  BY RemoveItems
<1>7. Elems(s) \subseteq Elems(q)
  BY <1>1, <1>6 DEF Elems
<1>8. ASSUME NEW j \in DOMAIN q, j # k PROVE q[j] \in Elems(s)
  <2>1. CASE j < k
    BY <1>1, <1>6, <1>8, <2>1 DEF Elems
  <2>2. CASE j > k
    <3>1. j - 1 \in DOMAIN s /\ ~(j - 1 < k) /\ (j - 1) + 1 = j
      BY <1>1, <1>6, <2>2
    <3>2. s[j - 1] = q[j]
      BY <1>6, <3>1
    <3> QED
      BY <3>1, <3>2 DEF Elems
  <2> QED
    BY <1>1, <1>8, <2>1, <2>2
<1> QED
  BY <1>6, <1>7, <1>8 DEF Elems

LEMMA ReplaceElems ==
    ASSUME NEW q, IsSeq(q), NEW k \in DOMAIN q, NEW e
    PROVE  /\ IsSeq([q EXCEPT ![k] = e]) /\ Elems([q EXCEPT ![k] = e]) \subseteq Elems(q) \cup {e}
           /\ Elems(q) \subseteq Elems([q EXCEPT ![k] = e]) \cup {q[k]} /\ e \in Elems([q EXCEPT ![k] = e])
<1> PICK S : q \in Seq(S)
  BY DEF IsSeq
<1> DEFINE T == S \cup {e}
           s == [q EXCEPT ![k] = e]
<1>1. q \in Seq(T) /\ e \in T
  OBVIOUS
<1> HIDE DEF T
<1>2. s \in Seq(T) /\ DOMAIN s = DOMAIN q
  BY <1>1
<1>3. \A j \in DOMAIN q : s[j] = IF j = k THEN e ELSE q[j]
  BY <1>1
<1> HIDE DEF s
<1>4. Elems(s) \subseteq Elems(q) \cup {e} /\ Elems(q) \subseteq Elems(s) \cup {q[k]} /\ e \in Elems(s)
  BY <1>2, <1>3 DEF Elems
<1> QED
  BY <1>2, <1>4 DEF IsSeq, s


-----------------------------------------------------------------------------
(* What the server has applied stays applied, and what it has recorded for  *)
(* an operation of the queue it has applied.                                *)
IsRow(w) == w = [state |-> w.state, by |-> w.by, ended |-> w.ended]

RowShape ==
    /\ row = [r \in Rows |-> row[r]]
    /\ \A r \in Rows : IsRow(row[r]) /\ (row[r].state = "none" => row[r].by = 0)

ServerShape == RowShape /\ applied \in [Tickets -> Nat]

Done(kind, i) ==
    /\ kind \in {"sell", "memo"} => applied[i] > 0
    /\ kind = "reserve" => RowsOf(i) # {}

RowsForward == RowShape' /\ \A i \in Tickets : RowsOf(i) # {} => RowsOf(i)' # {}

AppliedForward ==
    applied' \in [Tickets -> Nat] /\ \A i \in Tickets : applied[i] > 0 => applied'[i] > 0

Forward == RowsForward /\ AppliedForward

LEMMA ForwardDone ==
    ASSUME ServerShape, Forward, NEW kind, NEW i \in Tickets, Done(kind, i)
    PROVE  ServerShape' /\ Done(kind, i)'
BY DEF Forward, RowsForward, AppliedForward, ServerShape, Done

LEMMA SameForward == ASSUME ServerShape, UNCHANGED server PROVE Forward
BY DEF ServerShape, RowShape, Forward, RowsForward, AppliedForward, server, RowsOf

LEMMA ServedForward ==
    ASSUME ServerShape, NEW i \in Tickets, Served(i) PROVE AppliedForward /\ applied'[i] > 0
BY DEF ServerShape, Served, AppliedForward

\* A new reservation takes a row that nobody has made.
LEMMA ReservedForward ==
    ASSUME ServerShape, NEW i \in Tickets, MayReserve(i), row' = Reserved(i)
    PROVE  RowsForward /\ RowsOf(i)' # {}
<1>1. NextRow \in Rows /\ row[NextRow].state = "none"
  BY DEF MayReserve, NextRow
<1> PICK n \in Rows : n = NextRow
  BY <1>1
<1> PICK w : w = [state |-> "pending", by |-> i, ended |-> 0]
  OBVIOUS
<1>2. IsRow(w) /\ w.by = i /\ w.state # "none"
  BY DEF IsRow
<1>3. row' = [row EXCEPT ![n] = w]
  BY DEF Reserved
<1>4. row'[n] = w /\ \A r \in Rows \ {n} : row'[r] = row[r]
  BY <1>3 DEF ServerShape, RowShape
<1>5. RowShape'
  <2>1. row' = [r \in Rows |-> row'[r]]
    BY <1>3 DEF ServerShape, RowShape
  <2> QED
    BY <1>2, <1>4, <2>1 DEF ServerShape, RowShape
<1>6. n \in RowsOf(i)'
  BY <1>2, <1>4 DEF RowsOf
<1>7. \A j \in Tickets : RowsOf(j) \subseteq RowsOf(j)'
  <2>1. \A j \in Tickets : j # 0
    BY BoundsAssumption DEF Tickets
  <2>2. row[n].by = 0
    BY <1>1 DEF ServerShape, RowShape
  <2> QED
    BY <1>4, <2>1, <2>2 DEF RowsOf
<1> QED
  BY <1>5, <1>6, <1>7 DEF RowsForward

\* A reservation that is completed or cancelled stays that of the ticket that made it.
LEMMA EndedForward ==
    ASSUME ServerShape, NEW i, NEW r, NEW x, x # "none",
           row' = [row EXCEPT ![r].state = x, ![r].ended = i]
    PROVE  RowsForward
<1>1. CASE r \notin Rows
  <2>1. row' = row
    BY <1>1 DEF ServerShape, RowShape
  <2> QED
    BY <2>1 DEF ServerShape, RowShape, RowsForward, RowsOf
<1>2. CASE r \in Rows
  <2> PICK v : v = row[r]
    OBVIOUS
  <2>1. IsRow(v)
    BY <1>2 DEF ServerShape, RowShape
  <2> PICK w : w = [v EXCEPT !.state = x, !.ended = i]
    OBVIOUS
  <2>2. w = [state |-> x, by |-> v.by, ended |-> i]
    BY <2>1 DEF IsRow
  <2>3. IsRow(w) /\ w.by = v.by /\ w.state # "none"
    BY <2>2 DEF IsRow
  <2>4. row' = [row EXCEPT ![r] = w]
    BY <1>2 DEF ServerShape, RowShape
  <2>5. row'[r] = w /\ \A s \in Rows \ {r} : row'[s] = row[s]
    BY <1>2, <2>4 DEF ServerShape, RowShape
  <2>6. row' = [s \in Rows |-> row'[s]]
    BY <2>4 DEF ServerShape, RowShape
  <2>7. RowShape'
    BY <2>3, <2>5, <2>6 DEF ServerShape, RowShape
  <2>8. \A j \in Tickets : RowsOf(j) \subseteq RowsOf(j)'
    BY <2>3, <2>5 DEF RowsOf
  <2> QED
    BY <2>7, <2>8 DEF RowsForward
<1> QED
  BY <1>1, <1>2

LEMMA SoldForward ==
    ASSUME ServerShape, NEW i, NEW r, row' = Sold(i, r) \/ row' = Cancelled(i, r) PROVE RowsForward
<1>1. CASE row' = row
  BY <1>1 DEF ServerShape, RowShape, RowsForward, RowsOf
<1>2. CASE row' = [row EXCEPT ![r].state = "completed", ![r].ended = i]
  BY <1>2, EndedForward
<1>3. CASE row' = [row EXCEPT ![r].state = "cancelled", ![r].ended = i]
  BY <1>3, EndedForward
<1> QED
  BY <1>1, <1>2, <1>3 DEF Sold, Cancelled

LEMMA RowsSame == ASSUME ServerShape, UNCHANGED row PROVE RowsForward
BY DEF ServerShape, RowShape, RowsForward, RowsOf

LEMMA AppliedSame == ASSUME ServerShape, UNCHANGED applied PROVE AppliedForward
BY DEF ServerShape, AppliedForward

\* The server's side of an operation of the queue: it is done.
LEMMA EffectForward ==
    ASSUME ServerShape, NEW op, op.of \in Tickets, Accepts(op), Effect(op),
           op.result # 0 => Done(op.kind, op.of)
    PROVE  Forward /\ Done(op.kind, op.of)'
<1>1. CASE op.result # 0
  <2>1. UNCHANGED server
    BY <1>1 DEF Effect
  <2>2. Forward
    BY <2>1, SameForward
  <2> QED
    BY <1>1, <2>2, ForwardDone
<1>2. CASE op.result = 0
  <2>1. CASE op.kind = "reserve"
    <3>1. MayReserve(op.of) /\ row' = Reserved(op.of) /\ UNCHANGED applied
      BY <1>2, <2>1 DEF Effect, Accepts
    <3>2. RowsForward /\ RowsOf(op.of)' # {} /\ AppliedForward
      BY <3>1, ReservedForward, AppliedSame
    <3> QED
      BY <2>1, <3>2 DEF Forward, Done
  <2>2. CASE op.kind = "sell"
    <3>1. row' = Sold(op.of, ReplayRow(op)) /\ Served(op.of)
      BY <1>2, <2>2 DEF Effect
    <3>2. RowsForward /\ AppliedForward /\ applied'[op.of] > 0
      BY <3>1, SoldForward, ServedForward
    <3> QED
      BY <2>2, <3>2 DEF Forward, Done
  <2>3. CASE op.kind = "cancel"
    <3>1. row' = Cancelled(op.of, ReplayRow(op)) /\ UNCHANGED applied
      BY <1>2, <2>3 DEF Effect
    <3>2. RowsForward /\ AppliedForward
      BY <3>1, SoldForward, AppliedSame
    <3> QED
      BY <2>3, <3>2 DEF Forward, Done
  <2>4. CASE op.kind \notin {"reserve", "sell", "cancel"}
    <3>1. row' = row /\ IF op.kind = "memo" THEN Served(op.of) ELSE UNCHANGED applied
      BY <1>2, <2>4 DEF Effect
    <3>2. RowsForward /\ AppliedForward /\ (op.kind = "memo" => applied'[op.of] > 0)
      BY <3>1, RowsSame, ServedForward, AppliedSame
    <3> QED
      BY <2>4, <3>2 DEF Forward, Done
  <2> QED
    BY <2>1, <2>2, <2>3, <2>4
<1> QED
  BY <1>1, <1>2


-----------------------------------------------------------------------------
(* What leaves the queue has been done, except cancellations.               *)
Backed(op) == op.result # 0 => Done(op.kind, op.of)

QueueShape ==
    /\ IsSeq(queue)
    /\ \A op \in Elems(queue) : IsOp(op) /\ op.of \in Tickets /\ Backed(op)

QueueForward ==
    /\ QueueShape'
    /\ \A i \in Tickets, kind \in {"sell", "reserve", "memo"} :
        Queued(kind, i) => Queued(kind, i)' \/ Done(kind, i)'

LEMMA QueuedElems ==
    ASSUME NEW kind, NEW i
    PROVE  Queued(kind, i) <=> \E op \in Elems(queue) : op.kind = kind /\ op.of = i
BY DEF Queued, Ids, Elems, Id

\* The operations gone are done or cancellations, or new ones stand for them.
LEMMA ElemsForward ==
    ASSUME ServerShape, QueueShape, Forward, IsSeq(queue'),
           \A op \in Elems(queue') : op \in Elems(queue) \/ (IsOp(op) /\ op.of \in Tickets /\ Backed(op)'),
           \A op \in Elems(queue) :
               \/ \E new \in Elems(queue') : new.kind = op.kind /\ new.of = op.of
               \/ Done(op.kind, op.of)' \/ op.kind = "cancel"
    PROVE  QueueForward
<1>1. \A op \in Elems(queue) : Backed(op)'
  BY ForwardDone DEF QueueShape, Backed
<1>2. QueueShape'
  BY <1>1 DEF QueueShape
<1>3. ASSUME NEW i \in Tickets, NEW kind \in {"sell", "reserve", "memo"}, Queued(kind, i)
      PROVE  Queued(kind, i)' \/ Done(kind, i)'
  <2>1. PICK op \in Elems(queue) : op.kind = kind /\ op.of = i
    BY <1>3, QueuedElems
  <2>2. \/ \E new \in Elems(queue') : new.kind = kind /\ new.of = i
        \/ Done(kind, i)'
    BY <2>1
  <2> QED
    BY <2>2 DEF Queued, Ids, Elems, Id
<1> QED
  BY <1>2, <1>3 DEF QueueForward

LEMMA SameQueue == ASSUME ServerShape, QueueShape, Forward, UNCHANGED queue PROVE QueueForward
<1>1. IsSeq(queue') /\ Elems(queue') = Elems(queue)
  BY DEF QueueShape
<1> QED
  BY <1>1, ElemsForward

-----------------------------------------------------------------------------
(* Enqueue adds what it is given, and operations that were not applied.      *)
Added(q, s, i) ==
    /\ IsSeq(s) /\ Elems(q) \subseteq Elems(s)
    /\ \A op \in Elems(s) \ Elems(q) : IsOp(op) /\ op.of = i /\ op.result = 0

HasOp(s, kind, i) == \E op \in Elems(s) : op.kind = kind /\ op.of = i

LEMMA NewIsOp ==
    ASSUME NEW q, NEW kind, NEW i, NEW t, NEW op, op = NewOp(q, kind, i, t)
    PROVE  IsOp(op) /\ op.kind = kind /\ op.of = i /\ op.result = 0
<1> DEFINE no == FALSE
           needs == IF kind \in {"student", "memo"} THEN {} ELSE Needs(q, i, t)
<1>1. op = [kind |-> kind, of |-> i, needs |-> needs, later |-> no, dead |-> no, result |-> 0]
  BY DEF NewOp
<1> HIDE DEF no, needs
<1> QED
  BY <1>1 DEF IsOp

LEMMA AppendAdded ==
    ASSUME NEW q, IsSeq(q), NEW kind, NEW i, NEW t, NEW s, s = Append(q, NewOp(q, kind, i, t))
    PROVE  Added(q, s, i) /\ HasOp(s, kind, i)
<1> PICK op : op = NewOp(q, kind, i, t)
  OBVIOUS
<1>1. IsOp(op) /\ op.kind = kind /\ op.of = i /\ op.result = 0
  BY NewIsOp
<1>2. IsSeq(s) /\ Elems(s) = Elems(q) \cup {op}
  BY AppendElems
<1> QED
  BY <1>1, <1>2 DEF Added, HasOp

LEMMA AddedAgain ==
    ASSUME NEW q, NEW s, NEW u, NEW i, Added(q, s, i), Added(s, u, i) PROVE Added(q, u, i)
BY DEF Added

LEMMA MaybeAdded ==
    ASSUME NEW q, IsSeq(q), NEW kind, NEW kinds, NEW i, NEW t, NEW s,
           s = IF kind \in kinds THEN Append(q, NewOp(q, kind, i, t)) ELSE q
    PROVE  IsSeq(s) /\ Added(q, s, i) /\ (kind \in kinds => HasOp(s, kind, i))
<1>1. CASE kind \in kinds
  <2>1. s = Append(q, NewOp(q, kind, i, t))
    BY <1>1
  <2>2. Added(q, s, i) /\ HasOp(s, kind, i)
    BY <2>1, AppendAdded
  <2> QED
    BY <2>2 DEF Added
<1>2. CASE kind \notin kinds
  BY <1>2 DEF Added
<1> QED
  BY <1>1, <1>2

LEMMA EnqueueAdds ==
    ASSUME QueueShape, NEW i, NEW t, NEW kinds, NEW q, q = Enqueue(i, t, kinds)
    PROVE  /\ Added(queue, q, i)
           /\ \A kind \in kinds \cap {"student", "reserve", "sell", "memo"} : HasOp(q, kind, i)
<1> DEFINE With(s, kind) == IF kind \in kinds THEN Append(s, NewOp(s, kind, i, t)) ELSE s
<1>0. IsSeq(queue)
  BY DEF QueueShape
<1>a. PICK s1 : s1 = With(queue, "student")
  OBVIOUS
<1>b. PICK s2 : s2 = With(s1, "reserve")
  OBVIOUS
<1>c. PICK s3 : s3 = With(s2, "sell")
  OBVIOUS
<1>d. PICK s4 : s4 = With(s3, "memo")
  OBVIOUS
<1>1. q = s4
  BY <1>a, <1>b, <1>c, <1>d DEF Enqueue
<1>2. IsSeq(s1) /\ Added(queue, s1, i) /\ ("student" \in kinds => HasOp(s1, "student", i))
  BY <1>a, <1>0, MaybeAdded
<1>3. IsSeq(s2) /\ Added(s1, s2, i) /\ ("reserve" \in kinds => HasOp(s2, "reserve", i))
  BY <1>b, <1>2, MaybeAdded
<1>4. IsSeq(s3) /\ Added(s2, s3, i) /\ ("sell" \in kinds => HasOp(s3, "sell", i))
  BY <1>c, <1>3, MaybeAdded
<1>5. IsSeq(s4) /\ Added(s3, s4, i) /\ ("memo" \in kinds => HasOp(s4, "memo", i))
  BY <1>d, <1>4, MaybeAdded
<1> HIDE DEF With
<1>6. Added(s2, q, i)
  BY <1>1, <1>4, <1>5, AddedAgain
<1>7. Added(s1, q, i)
  BY <1>3, <1>6, AddedAgain
<1>8. Added(queue, q, i)
  BY <1>2, <1>7, AddedAgain
<1> QED
  BY <1>1, <1>2, <1>3, <1>4, <1>5, <1>6, <1>7, <1>8 DEF HasOp, Added

LEMMA EnqueueForward ==
    ASSUME ServerShape, QueueShape, Forward, NEW i \in Tickets, NEW t, NEW kinds,
           queue' = Enqueue(i, t, kinds)
    PROVE  /\ QueueForward
           /\ \A kind \in kinds \cap {"student", "reserve", "sell", "memo"} : Queued(kind, i)'
<1>1. /\ Added(queue, queue', i)
      /\ \A kind \in kinds \cap {"student", "reserve", "sell", "memo"} : HasOp(queue', kind, i)
  BY EnqueueAdds
<1>2. QueueForward
  BY <1>1, ElemsForward DEF Added, Backed
<1> QED
  BY <1>1, <1>2 DEF HasOp, Queued, Ids, Elems, Id


-----------------------------------------------------------------------------
(* A ticket that was recorded is done or in the queue; one that is at its    *)
(* sale has its reservations.                                               *)
Holds(kind, i) == Done(kind, i) \/ Queued(kind, i)

Kept(i) ==
    LET t == ticket[i]
    IN  t.recorded =>
            /\ t.kind \in {"sale", "pickup"} /\ t.cart.sale => Holds("sell", i)
            /\ t.cart.reserve /\ t.customer # "nobody" => Holds("reserve", i)
            /\ t.kind = "memo" => Holds("memo", i) \/ t.pc \in {"memo", "gone"}

InTurn(i) ==
    /\ UnderWay(i) => ticket[i].kind # "memo"
    /\ At(i, "sell") /\ ticket[i].cart.reserve => Done("reserve", i)

KInv == ServerShape /\ QueueShape /\ \A i \in Tickets : Kept(i) /\ InTurn(i)

LEMMA KeptIsKept == ASSUME \A i \in Tickets : Kept(i) PROVE RecordedIsKept
BY DEF Kept, Holds, Done, RecordedIsKept

LEMMA HoldsForward ==
    ASSUME ServerShape, Forward, QueueForward, NEW kind \in {"sell", "reserve", "memo"},
           NEW i \in Tickets, Holds(kind, i)
    PROVE  Holds(kind, i)'
BY ForwardDone DEF Holds, QueueForward

\* A ticket that is the same, or takes a step that does not record it.
LEMMA TicketKept ==
    ASSUME KInv, Forward, QueueForward, NEW i \in Tickets,
           ticket'[i].kind = ticket[i].kind, ticket'[i].customer = ticket[i].customer,
           ticket'[i].cart = ticket[i].cart, ticket'[i].recorded = ticket[i].recorded,
           ticket[i].pc \in {"memo", "gone"} =>
               ticket'[i].pc \in {"memo", "gone"} \/ Holds("memo", i)' \/ ticket[i].kind # "memo"
    PROVE  Kept(i)'
<1>1. \A kind \in {"sell", "reserve", "memo"} : Holds(kind, i) => Holds(kind, i)'
  BY HoldsForward DEF KInv
<1>2. Kept(i)
  BY DEF KInv
<1> DEFINE t == ticket[i]
           u == ticket'[i]
<1>3. ASSUME u.recorded
      PROVE  /\ u.kind \in {"sale", "pickup"} /\ u.cart.sale => Holds("sell", i)'
             /\ u.cart.reserve /\ u.customer # "nobody" => Holds("reserve", i)'
             /\ u.kind = "memo" => Holds("memo", i)' \/ u.pc \in {"memo", "gone"}
  BY <1>1, <1>2, <1>3 DEF Kept
<1> QED
  BY <1>3 DEF Kept

\* One ticket takes a step.
LEMMA KeepOne ==
    ASSUME KInv, Forward, QueueForward, NEW i \in Tickets,
           \A j \in Tickets \ {i} : ticket'[j] = ticket[j], Kept(i)', InTurn(i)'
    PROVE  KInv'
<1>1. ServerShape' /\ QueueShape'
  BY DEF KInv, Forward, RowsForward, AppliedForward, ServerShape, QueueForward
<1>2. ASSUME NEW j \in Tickets \ {i} PROVE Kept(j)' /\ InTurn(j)'
  <2>1. Kept(j)'
    BY TicketKept
  <2>2. Done("reserve", j) => Done("reserve", j)'
    BY ForwardDone DEF KInv
  <2>3. InTurn(j)'
    BY <2>2 DEF KInv, InTurn, UnderWay, At
  <2> QED
    BY <2>1, <2>3
<1> QED
  BY <1>1, <1>2 DEF KInv

\* Every ticket is the same, or is at an end.
LEMMA KeepAll ==
    ASSUME KInv, Forward, QueueForward,
           \A i \in Tickets :
               /\ ticket'[i].kind = ticket[i].kind /\ ticket'[i].customer = ticket[i].customer
               /\ ticket'[i].cart = ticket[i].cart /\ ticket'[i].recorded = ticket[i].recorded
               /\ ticket'[i].pc \in {ticket[i].pc, "gone"}
    PROVE  KInv'
<1>1. ServerShape' /\ QueueShape'
  BY DEF KInv, Forward, RowsForward, AppliedForward, ServerShape, QueueForward
<1>2. ASSUME NEW i \in Tickets PROVE Kept(i)' /\ InTurn(i)'
  <2>1. Kept(i)'
    BY TicketKept
  <2>2. Done("reserve", i) => Done("reserve", i)'
    BY ForwardDone DEF KInv
  <2>3. InTurn(i)'
    BY <2>2 DEF KInv, InTurn, UnderWay, At
  <2> QED
    BY <2>1, <2>3
<1> QED
  BY <1>1, <1>2 DEF KInv

-----------------------------------------------------------------------------
(* The steps.                                                               *)
LEMMA KeptReplay == ASSUME KInv, Replay PROVE KInv'
<1> PICK k \in Heads : ReplaySucceeds(k) \/ ReplayUnanswered(k) \/ ReplayRefused(k)
  BY DEF Replay
<1> PICK op : op = queue[k]
  OBVIOUS
<1>1. k \in DOMAIN queue /\ op \in Elems(queue)
  BY DEF Heads, Elems
<1>2. IsOp(op) /\ op.of \in Tickets /\ Backed(op) /\ IsSeq(queue) /\ ServerShape /\ QueueShape
  BY <1>1 DEF KInv, QueueShape
<1>3. ASSUME Accepts(op), Effect(op) PROVE Forward /\ Done(op.kind, op.of)'
  BY <1>2, <1>3, EffectForward DEF Backed
<1>4. ASSUME Forward, NEW e, IsOp(e), e.kind = op.kind, e.of = op.of, Backed(e)',
             queue' = [queue EXCEPT ![k] = e]
      PROVE  QueueForward
  <2>1. /\ IsSeq(queue') /\ Elems(queue') \subseteq Elems(queue) \cup {e}
        /\ Elems(queue) \subseteq Elems(queue') \cup {op} /\ e \in Elems(queue')
    BY <1>1, <1>2, <1>4, ReplaceElems
  <2> QED
    BY <1>2, <1>4, <2>1, ElemsForward
<1>5. CASE ReplaySucceeds(k)
  <2>1. Forward /\ Done(op.kind, op.of)' /\ queue' = RemoveAt(queue, k)
    BY <1>3, <1>5 DEF ReplaySucceeds
  <2>2. /\ IsSeq(queue') /\ Elems(queue') \subseteq Elems(queue)
        /\ Elems(queue) \subseteq Elems(queue') \cup {op}
    BY <1>1, <1>2, <2>1, RemoveElems
  <2>3. QueueForward
    BY <1>2, <2>1, <2>2, ElemsForward
  <2> QED
    BY <2>1, <2>3, KeepAll DEF Replay
<1>6. CASE ReplayUnanswered(k)
  <2>1. CASE /\ Accepts(op) /\ Effect(op)
             /\ queue' = [queue EXCEPT ![k].later = TRUE, ![k].result = Result(op)]
    <3>1. Forward /\ Done(op.kind, op.of)'
      BY <1>3, <2>1
    <3> DEFINE yes == TRUE
    <3> PICK e : e = [op EXCEPT !.later = yes, !.result = Result(op)]
      OBVIOUS
    <3>2. queue' = [queue EXCEPT ![k] = e]
      BY <1>1, <1>2, <2>1 DEF IsSeq
    <3> HIDE DEF yes
    <3>3. e = [kind |-> op.kind, of |-> op.of, needs |-> op.needs, later |-> yes,
               dead |-> op.dead, result |-> Result(op)]
      BY <1>2 DEF IsOp
    <3>4. IsOp(e) /\ e.kind = op.kind /\ e.of = op.of
      BY <3>3 DEF IsOp
    <3>5. Backed(e)'
      BY <3>1, <3>4 DEF Backed
    <3>6. QueueForward
      BY <1>4, <3>1, <3>2, <3>4, <3>5
    <3> QED
      BY <3>1, <3>6, KeepAll DEF Replay
  <2>2. CASE UNCHANGED server /\ queue' = [queue EXCEPT ![k].later = TRUE]
    <3>1. Forward
      BY <1>2, <2>2, SameForward
    <3> DEFINE yes == TRUE
    <3> PICK e : e = [op EXCEPT !.later = yes]
      OBVIOUS
    <3>2. queue' = [queue EXCEPT ![k] = e]
      BY <1>1, <1>2, <2>2 DEF IsSeq
    <3> HIDE DEF yes
    <3>3. e = [kind |-> op.kind, of |-> op.of, needs |-> op.needs, later |-> yes,
               dead |-> op.dead, result |-> op.result]
      BY <1>2 DEF IsOp
    <3>4. IsOp(e) /\ e.kind = op.kind /\ e.of = op.of /\ e.result = op.result
      BY <3>3 DEF IsOp
    <3>5. Backed(e)'
      BY <1>2, <3>1, <3>4, ForwardDone DEF Backed
    <3>6. QueueForward
      BY <1>4, <3>1, <3>2, <3>4, <3>5
    <3> QED
      BY <3>1, <3>6, KeepAll DEF Replay
  <2> QED
    BY <1>6, <2>1, <2>2 DEF ReplayUnanswered
<1>7. CASE ReplayRefused(k)
  <2>1. Forward
    BY <1>2, <1>7, SameForward DEF ReplayRefused
  <2> DEFINE yes == TRUE
             no == FALSE
  <2> PICK e : e = [op EXCEPT !.dead = yes, !.later = no]
    OBVIOUS
  <2>2. queue' = [queue EXCEPT ![k] = e]
    BY <1>1, <1>2, <1>7 DEF IsSeq, ReplayRefused
  <2> HIDE DEF yes, no
  <2>3. e = [kind |-> op.kind, of |-> op.of, needs |-> op.needs, later |-> no,
             dead |-> yes, result |-> op.result]
    BY <1>2 DEF IsOp
  <2>4. IsOp(e) /\ e.kind = op.kind /\ e.of = op.of /\ e.result = op.result
    BY <2>3 DEF IsOp
  <2>5. Backed(e)'
    BY <1>2, <2>1, <2>4, ForwardDone DEF Backed
  <2>6. QueueForward
    BY <1>4, <2>1, <2>2, <2>4, <2>5
  <2> QED
    BY <2>1, <2>6, KeepAll DEF Replay
<1> QED
  BY <1>5, <1>6, <1>7


\* A ticket that has just been recorded, with what is left of it in the queue.
LEMMA KeepRecorded ==
    ASSUME KInv, Forward, QueueForward, NEW i \in Tickets,
           \A j \in Tickets \ {i} : ticket'[j] = ticket[j],
           ticket'[i].pc \notin {"reserve", "sell"},
           ticket'[i].kind \in {"sale", "pickup"} /\ ticket'[i].cart.sale => Holds("sell", i)',
           ticket'[i].cart.reserve /\ ticket'[i].customer # "nobody" => Holds("reserve", i)',
           ticket'[i].kind = "memo" => Holds("memo", i)' \/ ticket'[i].pc = "memo"
    PROVE  KInv'
<1>1. Kept(i)' /\ InTurn(i)'
  BY DEF Kept, InTurn, UnderWay, At
<1> QED
  BY <1>1, KeepOne

LEMMA LinkedSale == ASSUME NEW e PROVE ~Linked(e).reserve
<1> DEFINE no == FALSE
           yes == TRUE
<1>1. EmptyCart = [sale |-> no, link |-> NoEntry, reserve |-> no]
  BY DEF EmptyCart
<1>2. Linked(e) = [EmptyCart EXCEPT !.sale = yes, !.link = e]
  BY DEF Linked
<1> HIDE DEF yes
<1>3. Linked(e).reserve = no
  BY <1>1, <1>2
<1> QED
  BY <1>3

LEMMA KeptComplete ==
    ASSUME NInv, KInv, NEW i \in Tickets, NEW customer,
           CompleteOnline(i, customer) \/ CompleteOffline(i, customer)
    PROVE  KInv'
<1>0. Shape /\ Forward /\ ServerShape /\ QueueShape
  BY SameForward DEF NInv, KInv, CompleteOnline, CompleteOffline
<1>1. CASE CompleteOnline(i, customer)
  <2> PICK pc : pc = IF cart.reserve THEN "reserve" ELSE "sell"
    OBVIOUS
  <2>1. ticket' = [ticket EXCEPT ![i] = [NewTicket("sale", customer, cart) EXCEPT !.pc = pc]]
    BY <1>1 DEF CompleteOnline
  <2>2. Marks(i, "sale", pc, counter, FALSE, customer, cart)
    BY <2>1, <1>0, PlainClickMarks
  <2>3. QueueForward
    BY <1>0, <1>1, SameQueue DEF CompleteOnline
  <2>4. Kept(i)' /\ InTurn(i)'
    BY <2>2 DEF Kept, InTurn, At, UnderWay, Marks
  <2> QED
    BY <2>2, <2>3, <2>4, <1>0, KeepOne DEF Marks
<1>2. CASE CompleteOffline(i, customer)
  <2>1. ticket' = [ticket EXCEPT ![i] =
            [NewTicket("sale", customer, cart) EXCEPT !.pc = "done", !.recorded = TRUE]]
    BY <1>2 DEF CompleteOffline
  <2>2. Marks(i, "sale", "done", counter, TRUE, customer, cart)
    BY <2>1, <1>0, ClickMarks
  <2> PICK t : t = [NewTicket("sale", customer, cart) EXCEPT !.pc = "done", !.recorded = TRUE]
    OBVIOUS
  <2>3. t = ticket'[i]
    BY <2>1, <1>0 DEF Shape
  <2> PICK kinds : kinds = Parts(t) \cup IF customer = "new" THEN {"student"} ELSE {}
    OBVIOUS
  <2>4. queue' = Enqueue(i, t, kinds)
    BY <1>2 DEF CompleteOffline, RecordOffline
  <2>5. QueueForward /\ \A kind \in kinds \cap {"student", "reserve", "sell", "memo"} : Queued(kind, i)'
    BY <2>4, <1>0, EnqueueForward
  <2>6. /\ t.cart.sale => Queued("sell", i)'
        /\ t.cart.reserve /\ t.customer # "nobody" => Queued("reserve", i)'
    BY <2>5 DEF Parts
  <2> QED
    BY <2>2, <2>3, <2>5, <2>6, <1>0, KeepRecorded DEF Marks, Holds
<1> QED
  BY <1>1, <1>2

LEMMA KeptPickup ==
    ASSUME NInv, KInv, NEW i \in Tickets, NEW e, Pickup(i, e) \/ PickupFromDetails(i, e)
    PROVE  KInv'
<1>0. Shape /\ Forward /\ ServerShape /\ QueueShape
  BY SameForward DEF NInv, KInv, Pickup, PickupFromDetails
<1>1. CASE Pickup(i, e)
  <2>1. ticket' = [ticket EXCEPT ![i] =
            [NewTicket("pickup", Customer(e.from), Linked(e)) EXCEPT !.pc = "done", !.recorded = TRUE]]
    BY <1>1 DEF Pickup
  <2>2. Marks(i, "pickup", "done", counter, TRUE, Customer(e.from), Linked(e))
    BY <2>1, <1>0, ClickMarks
  <2> PICK t : queue' = Enqueue(i, t, {"sell"})
    BY <1>1 DEF Pickup, RecordOffline
  <2>3. QueueForward /\ Queued("sell", i)'
    BY <1>0, EnqueueForward
  <2> QED
    BY <2>2, <2>3, <1>0, LinkedSale, KeepRecorded DEF Marks, Holds
<1>2. CASE PickupFromDetails(i, e)
  <2>1. ticket' = [ticket EXCEPT ![i] =
            [NewTicket("modal", Customer(e.from), Linked(e)) EXCEPT !.pc = "done", !.recorded = TRUE]]
    BY <1>2 DEF PickupFromDetails
  <2>2. Marks(i, "modal", "done", counter, TRUE, Customer(e.from), Linked(e))
    BY <2>1, <1>0, ClickMarks
  <2> PICK t : queue' = Enqueue(i, t, {})
    BY <1>2 DEF PickupFromDetails, RecordOffline
  <2>3. QueueForward
    BY <1>0, EnqueueForward
  <2> QED
    BY <2>2, <2>3, <1>0, LinkedSale, KeepRecorded DEF Marks, Holds
<1> QED
  BY <1>1, <1>2

LEMMA KeptCancel ==
    ASSUME NInv, KInv, NEW i \in Tickets, NEW e, CancelReservation(i, e)
    PROVE  KInv'
<1>0. Shape /\ Forward /\ ServerShape /\ QueueShape
  BY SameForward DEF NInv, KInv, CancelReservation
<1> DEFINE t == [NewTicket("cancel", Customer(e.from), Linked(e)) EXCEPT !.pc = "done"]
           same == {k \in DOMAIN queue :
                       queue[k].kind = "cancel" /\ SameId(ticket[queue[k].of].cart.link, e)}
           others == IF same = {} THEN queue ELSE RemoveAt(queue, CHOOSE k \in same : TRUE)
<1>1. /\ ticket' = [ticket EXCEPT ![i] = t]
      /\ queue' = Append(others, NewOp(queue, "cancel", i, t))
      /\ \A k \in same : k \in DOMAIN queue /\ queue[k].kind = "cancel"
  BY DEF CancelReservation
<1>2. Marks(i, "cancel", "done", counter, FALSE, Customer(e.from), Linked(e))
  BY <1>1, <1>0, PlainClickMarks
<1> HIDE DEF t, same
<1>3. /\ IsSeq(others) /\ Elems(others) \subseteq Elems(queue)
      /\ \A op \in Elems(queue) : op \in Elems(others) \/ op.kind = "cancel"
  <2>1. CASE same = {}
    BY <2>1, <1>0 DEF QueueShape
  <2>2. CASE same # {}
    <3> PICK k : k = CHOOSE l \in same : TRUE
      OBVIOUS
    <3>1. k \in DOMAIN queue /\ queue[k].kind = "cancel" /\ others = RemoveAt(queue, k)
      BY <2>2, <1>1
    <3>2. /\ IsSeq(others) /\ Elems(others) \subseteq Elems(queue)
          /\ Elems(queue) \subseteq Elems(others) \cup {queue[k]}
      BY <3>1, <1>0, RemoveElems DEF QueueShape
    <3> QED
      BY <3>1, <3>2
  <2> QED
    BY <2>1, <2>2
<1> HIDE DEF others
<1> PICK op : op = NewOp(queue, "cancel", i, t)
  OBVIOUS
<1>4. IsOp(op) /\ op.of = i /\ op.result = 0
  BY NewIsOp
<1>5. IsSeq(queue') /\ Elems(queue') = Elems(others) \cup {op}
  BY <1>1, <1>3, AppendElems
<1>6. QueueForward
  BY <1>0, <1>3, <1>4, <1>5, ElemsForward DEF Backed
<1>7. Kept(i)' /\ InTurn(i)'
  BY <1>2 DEF Kept, InTurn, At, UnderWay, Marks
<1> QED
  BY <1>0, <1>2, <1>6, <1>7, KeepOne DEF Marks

LEMMA KeptMemo == ASSUME NInv, KInv, NEW i \in Tickets, Memo(i) PROVE KInv'
<1>0. Shape /\ Forward /\ ServerShape /\ QueueShape
  BY SameForward DEF NInv, KInv, Memo
<1> PICK pc : pc = IF online THEN "memo" ELSE "done"
  OBVIOUS
<1>1. ticket' = [ticket EXCEPT ![i] =
          [[NewTicket("memo", "nobody", EmptyCart) EXCEPT !.recorded = TRUE] EXCEPT !.pc = pc]]
  BY DEF Memo
<1>2. Marks(i, "memo", pc, counter, TRUE, "nobody", EmptyCart)
  BY <1>1, <1>0, MemoMarks
<1>3. QueueForward /\ (pc = "memo" \/ Queued("memo", i)')
  <2>1. CASE online
    BY <2>1, <1>0, SameQueue DEF Memo
  <2>2. CASE ~online
    <3> PICK t : queue' = Enqueue(i, t, {"memo"})
      BY <2>2 DEF Memo
    <3> QED
      BY <1>0, EnqueueForward
  <2> QED
    BY <2>1, <2>2
<1> QED
  BY <1>0, <1>2, <1>3, KeepRecorded DEF Marks, Holds


\* The requests of a sale: both answered, ...
LEMMA KeptCommit ==
    ASSUME NInv, KInv, Forward, NEW i \in Tickets, UnderWay(i), Commit(i), UNCHANGED queue,
           ticket[i].cart.sale => Done("sell", i)', ticket[i].cart.reserve => Done("reserve", i)'
    PROVE  KInv'
<1>0. Shape /\ ServerShape /\ QueueShape /\ ticket[i].kind # "memo"
  BY DEF NInv, KInv, InTurn
<1>1. Marks(i, ticket[i].kind, "refresh", ticket[i].number, TRUE, ticket[i].customer, ticket[i].cart)
  BY <1>0, RecordMarks DEF Commit
<1>2. QueueForward
  BY <1>0, SameQueue
<1> QED
  BY <1>0, <1>1, <1>2, KeepRecorded DEF Marks, Holds

\* ... one failed, ...
LEMMA KeptFallBack ==
    ASSUME NInv, KInv, Forward, NEW i \in Tickets, UnderWay(i), FallBack(i)
    PROVE  KInv'
<1>0. Shape /\ ServerShape /\ QueueShape /\ ticket[i].kind # "memo"
  BY DEF NInv, KInv, InTurn
<1>1. Marks(i, ticket[i].kind, "refresh", ticket[i].number, TRUE, ticket[i].customer, ticket[i].cart)
  BY <1>0, RecordMarks DEF FallBack
<1> PICK t : t = ticket[i]
  OBVIOUS
<1> PICK kinds : kinds = Parts(t)
  OBVIOUS
<1>2. queue' = Enqueue(i, t, kinds)
  BY DEF FallBack, RecordOffline
<1>3. QueueForward /\ \A kind \in kinds \cap {"student", "reserve", "sell", "memo"} : Queued(kind, i)'
  BY <1>0, <1>2, EnqueueForward
<1>4. /\ t.cart.sale => Queued("sell", i)'
      /\ t.cart.reserve /\ t.customer # "nobody" => Queued("reserve", i)'
  BY <1>3 DEF Parts
<1> QED
  BY <1>0, <1>1, <1>3, <1>4, KeepRecorded DEF Marks, Holds

\* ... or the sale goes on, or is given up.
LEMMA KeptStep ==
    ASSUME NInv, KInv, Forward, NEW i \in Tickets, NEW pc, Step(i, pc), UNCHANGED queue,
           UnderWay(i), pc \in {"sell", "gone"}, pc = "sell" => Done("reserve", i)'
    PROVE  KInv'
<1>0. Shape /\ ServerShape /\ QueueShape /\ ticket[i].kind # "memo"
  BY DEF NInv, KInv, InTurn
<1>1. Marks(i, ticket[i].kind, pc, ticket[i].number, ticket[i].recorded, ticket[i].customer, ticket[i].cart)
  BY <1>0, StepMarks
<1>2. QueueForward
  BY <1>0, SameQueue
<1>3. Kept(i)'
  BY <1>0, <1>1, <1>2, TicketKept DEF Marks
<1>4. InTurn(i)'
  BY <1>0, <1>1 DEF InTurn, UnderWay, At, Marks
<1> QED
  BY <1>1, <1>2, <1>3, <1>4, KeepOne DEF Marks

LEMMA KeptReserve == ASSUME NInv, KInv, NEW i \in Tickets, ReserveOnline(i) PROVE KInv'
<1>0. ServerShape /\ UnderWay(i) /\ AppliedForward /\ "reserve" \notin {"sell", "memo"}
  BY AppliedSame DEF KInv, ReserveOnline, At, UnderWay
<1>1. ASSUME MayReserve(i), row' = Reserved(i) PROVE Forward /\ Done("reserve", i)'
  BY <1>0, <1>1, ReservedForward DEF Forward, Done
<1>2. CASE MayReserve(i) /\ row' = Reserved(i) /\ FallBack(i)
  BY <1>0, <1>1, <1>2, KeptFallBack
<1>3. CASE UNCHANGED row /\ FallBack(i)
  BY <1>0, <1>3, RowsSame, KeptFallBack DEF Forward
<1>4. CASE UNCHANGED <<row, queue>> /\ Step(i, "gone")
  <2>1. Forward
    BY <1>0, <1>4, RowsSame DEF Forward
  <2> QED
    BY <1>0, <1>4, <2>1, KeptStep
<1>5. CASE MayReserve(i) /\ row' = Reserved(i) /\ UNCHANGED queue /\ ticket[i].cart.sale /\ Step(i, "sell")
  BY <1>0, <1>1, <1>5, KeptStep
<1>6. CASE MayReserve(i) /\ row' = Reserved(i) /\ UNCHANGED queue /\ ~ticket[i].cart.sale /\ Commit(i)
  BY <1>0, <1>1, <1>6, KeptCommit
<1> QED
  BY <1>2, <1>3, <1>4, <1>5, <1>6 DEF ReserveOnline

LEMMA KeptSell == ASSUME NInv, KInv, NEW i \in Tickets, SellOnline(i) PROVE KInv'
<1> PICK r : r = OnlineRow(ticket[i].cart.link)
  OBVIOUS
<1>0. ServerShape /\ UnderWay(i) /\ At(i, "sell") /\ InTurn(i)
  BY DEF KInv, SellOnline, At, UnderWay
<1>1. ASSUME row' = Sold(i, r), Served(i) PROVE Forward /\ Done("sell", i)'
  BY <1>0, <1>1, SoldForward, ServedForward DEF Forward, Done
<1>2. CASE row' = Sold(i, r) /\ Served(i) /\ FallBack(i)
  BY <1>0, <1>1, <1>2, KeptFallBack
<1>3. CASE UNCHANGED server /\ FallBack(i)
  BY <1>0, <1>3, SameForward, KeptFallBack
<1>4. CASE UNCHANGED <<server, queue>> /\ Step(i, "gone")
  <2>1. Forward
    BY <1>0, <1>4, SameForward
  <2> QED
    BY <1>0, <1>4, <2>1, KeptStep
<1>5. CASE row' = Sold(i, r) /\ Served(i) /\ UNCHANGED queue /\ Commit(i)
  <2>1. Forward /\ Done("sell", i)'
    BY <1>1, <1>5
  <2>2. ticket[i].cart.reserve => Done("reserve", i)'
    BY <1>0, <2>1, ForwardDone DEF InTurn
  <2> QED
    BY <1>0, <1>5, <2>1, <2>2, KeptCommit
<1> QED
  BY <1>2, <1>3, <1>4, <1>5 DEF SellOnline

LEMMA KeptRefresh == ASSUME NInv, KInv, NEW i \in Tickets, RefreshRead(i) \/ Refreshed(i) PROVE KInv'
<1>0. Shape /\ Forward /\ ServerShape /\ QueueShape
  BY SameForward DEF NInv, KInv, RefreshRead, Refreshed
<1>1. /\ UNCHANGED queue /\ ticket[i].pc \in {"refresh", "reading"}
      /\ \E pc \in {"reading", "done"}, seen \in {Fetched, {}} :
              ticket' = [ticket EXCEPT ![i].pc = pc, ![i].seen = seen]
  BY DEF RefreshRead, Refreshed, At
<1>2. PICK pc \in {"reading", "done"} :
          Marks(i, ticket[i].kind, pc, ticket[i].number, ticket[i].recorded, ticket[i].customer, ticket[i].cart)
  BY <1>0, <1>1, SeenMarks
<1>3. QueueForward
  BY <1>0, <1>1, SameQueue
<1>4. Kept(i)'
  BY <1>0, <1>1, <1>2, <1>3, TicketKept DEF Marks
<1>5. InTurn(i)'
  BY <1>2 DEF InTurn, UnderWay, At, Marks
<1> QED
  BY <1>0, <1>2, <1>3, <1>4, <1>5, KeepOne DEF Marks

LEMMA KeptMemoSent == ASSUME NInv, KInv, NEW i \in Tickets, MemoSent(i) PROVE KInv'
<1>0. Shape /\ ServerShape /\ QueueShape /\ RowsForward /\ Step(i, "done")
  BY RowsSame DEF NInv, KInv, MemoSent
<1>1. Marks(i, ticket[i].kind, "done", ticket[i].number, ticket[i].recorded, ticket[i].customer, ticket[i].cart)
  BY <1>0, StepMarks
<1>2. Forward /\ QueueForward /\ Holds("memo", i)'
  <2>1. CASE Served(i) /\ UNCHANGED queue
    <3>1. Forward /\ Done("memo", i)'
      BY <1>0, <2>1, ServedForward DEF Forward, Done
    <3> QED
      BY <1>0, <2>1, <3>1, SameQueue DEF Holds
  <2>2. CASE (Served(i) \/ UNCHANGED applied) /\ queue' = Enqueue(i, ticket[i], {"memo"})
    <3>1. Forward
      BY <1>0, <2>2, ServedForward, AppliedSame DEF Forward
    <3>2. QueueForward /\ Queued("memo", i)'
      BY <1>0, <2>2, <3>1, EnqueueForward
    <3> QED
      BY <3>1, <3>2 DEF Holds
  <2> QED
    BY <2>1, <2>2 DEF MemoSent
<1>3. Kept(i)'
  BY <1>0, <1>1, <1>2, TicketKept DEF Marks
<1>4. InTurn(i)'
  BY <1>1 DEF InTurn, UnderWay, At, Marks
<1> QED
  BY <1>1, <1>2, <1>3, <1>4, KeepOne DEF Marks

LEMMA KeptStepAny == ASSUME NInv, KInv, [Next]_vars PROVE KInv'
<1>1. CASE \E i \in Tickets :
            \/ \E customer \in Customers : CompleteOnline(i, customer) \/ CompleteOffline(i, customer)
            \/ \E e \in listed : Pickup(i, e) \/ PickupFromDetails(i, e) \/ CancelReservation(i, e)
            \/ Memo(i)
  BY <1>1, KeptComplete, KeptPickup, KeptCancel, KeptMemo
<1>2. CASE \E i \in Tickets : Serve(i)
  BY <1>2, KeptReserve, KeptSell, KeptRefresh, KeptMemoSent DEF Serve
<1>3. CASE Replay
  BY <1>3, KeptReplay
<1>4. CASE Reload
  <2>1. Forward /\ QueueForward
    BY <1>4, SameForward, SameQueue DEF KInv, Reload
  <2> QED
    BY <1>4, <2>1, ReloadTicket, KeepAll DEF NInv
<1>5. CASE \/ AddToCart \/ ChangeType \/ RemoveLine \/ AddLegacy \/ Audit
           \/ Probe \/ HydrateRead \/ HydrateApply \/ HydrateFails
           \/ ReplayStart \/ ReplayStop \/ UNCHANGED vars
  <2>1. UNCHANGED <<ticket, queue, server>>
    BY <1>5 DEF AddToCart, ChangeType, RemoveLine, AddLegacy, Audit, Probe, HydrateRead, HydrateApply,
                HydrateFails, ReplayStart, ReplayStop, server, vars
  <2>2. Forward /\ QueueForward
    BY <2>1, SameForward, SameQueue DEF KInv
  <2> QED
    BY <2>1, <2>2, KeepAll
<1> QED
  BY <1>1, <1>2, <1>3, <1>4, <1>5 DEF Next

LEMMA KeptInit == ASSUME Init PROVE NInv /\ KInv
<1>1. NInv
  BY NumberInit
<1>2. RowShape
  <2>1. row = [r \in Rows |-> IF r = 1 THEN [NoRow EXCEPT !.state = "pending"] ELSE NoRow]
    BY DEF Init
  <2> PICK w : w = [NoRow EXCEPT !.state = "pending"]
    OBVIOUS
  <2>2. w = [state |-> "pending", by |-> 0, ended |-> 0]
    BY DEF NoRow
  <2>3. IsRow(w) /\ w.by = 0 /\ IsRow(NoRow) /\ NoRow.by = 0
    BY <2>2 DEF IsRow, NoRow
  <2>4. \A r \in Rows : row[r] = w \/ row[r] = NoRow
    BY <2>1
  <2> QED
    BY <2>1, <2>3, <2>4 DEF RowShape
<1>3. ServerShape
  BY <1>2 DEF Init, ServerShape
<1>4. QueueShape
  <2>1. queue = <<>>
    BY DEF Init
  <2>2. IsSeq(queue) /\ Elems(queue) = {}
    BY <2>1 DEF IsSeq, Elems
  <2> QED
    BY <2>2 DEF QueueShape
<1>5. ASSUME NEW i \in Tickets PROVE Kept(i) /\ InTurn(i)
  <2> DEFINE empty == EmptyCart
             nothing == {}
             no == FALSE
  <2>1. NoTicket = [kind |-> "none", pc |-> "none", number |-> 1, customer |-> "nobody",
                    cart |-> empty, recorded |-> no, seen |-> nothing]
    BY DEF NoTicket
  <2> HIDE DEF empty, nothing, no
  <2>2. ticket[i] = NoTicket
    BY DEF Init
  <2>3. ticket[i].pc = "none" /\ ticket[i].recorded = no
    BY <2>1, <2>2
  <2> QED
    BY <2>3 DEF Kept, InTurn, UnderWay, At, no
<1> QED
  BY <1>1, <1>3, <1>4, <1>5 DEF KInv

(* Nothing that the till has shown as completed is lost: whatever requests   *)
(* fail, answers are lost, operations are refused or the page is reloaded,   *)
(* the server has applied it or it is still in the queue.                    *)
THEOREM KeptTheorem == Spec => []RecordedIsKept
<1>1. Init => NInv /\ KInv
  BY KeptInit
<1>2. NInv /\ KInv /\ [Next]_vars => (NInv /\ KInv)'
  BY NumberStep, KeptStepAny
<1>3. KInv => RecordedIsKept
  BY KeptIsKept DEF KInv
<1> QED
  BY <1>1, <1>2, <1>3, PTL DEF Spec

-----------------------------------------------------------------------------
(* The types, with what the links of the lines are: an entry made here has   *)
(* the number of a ticket, and one that was fetched is a row.                *)
Links == [side : {"local"}, n : Tickets, from : Tickets] \cup
         [side : {"server"}, n : Rows, from : 0..MaxTickets] \cup {Legacy}

LinkedCart == [sale : BOOLEAN, link : Links \cup {NoEntry}, reserve : BOOLEAN]

LinkedTicket == [kind : Kinds, pc : Pc, number : Tickets, customer : Customers, cart : LinkedCart,
                 recorded : BOOLEAN, seen : SUBSET Links]

QueuedOp == {op \in Op : op.kind = "reserve" => op.result \in 0..MaxRows}

Maps == [Numbers -> 0..MaxRows]

Spenders == {i \in Tickets : UnderWay(i)}

PageType == /\ online \in BOOLEAN /\ cart \in LinkedCart /\ listed \subseteq Links
            /\ hydration \in [pc : {"none", "start", "reading"}, seen : SUBSET Links]

TicketType == ticket \in [Tickets -> LinkedTicket]

QueueType == queue \in Seq(QueuedOp) /\ mapped \in Maps /\ cycle \in [on : BOOLEAN, map : Maps]

ServerType == row \in [Rows -> Row] /\ applied \in [Tickets -> Nat]

\* A sale under way has yet to spend its number.
CountType == /\ counter \in Nat \ {0} /\ used \in 0..MaxTickets
             /\ \A i \in Tickets : UnderWay(i) => i <= used
             /\ counter + Cardinality(Spenders) <= used + 1

BoundType == /\ doubted \subseteq Tickets /\ clash \in BOOLEAN
             /\ edits \in 0..MaxEdits /\ faults \in 0..MaxFaults

TInv == PageType /\ TicketType /\ QueueType /\ ServerType /\ CountType /\ BoundType

LEMMA LinksAreEntries ==
    /\ Links \subseteq Entry
    /\ \A e \in Links : /\ e.from \in 0..MaxTickets
                        /\ e.side = "local" => e.n \in Tickets /\ e.from \in Tickets
                        /\ e.side = "server" => e.n \in Rows
    /\ Legacy \in Links /\ NoEntry.side = "none"
<1>1. Legacy \in Entry /\ Legacy.from = 0 /\ Legacy.side = "legacy"
  BY BoundsAssumption DEF Legacy, Entry
<1>2. [side : {"local"}, n : Tickets, from : Tickets] \subseteq Entry
  BY BoundsAssumption DEF Entry, Tickets
<1>3. [side : {"server"}, n : Rows, from : 0..MaxTickets] \subseteq Entry
  BY BoundsAssumption DEF Entry, Rows
<1>4. NoEntry.side = "none"
  BY DEF NoEntry
<1>5. 0 \in 0..MaxTickets /\ Tickets \subseteq 0..MaxTickets
  BY BoundsAssumption DEF Tickets
<1> QED
  BY <1>1, <1>2, <1>3, <1>4, <1>5 DEF Links

LEMMA SpendersCount ==
    /\ IsFiniteSet(Tickets)
    /\ \A S \in SUBSET Tickets : IsFiniteSet(S) /\ Cardinality(S) \in Nat
<1>1. IsFiniteSet(Tickets)
  BY BoundsAssumption, FS_Interval DEF Tickets
<1> QED
  BY <1>1, FS_Subset, FS_CardinalityType

LEMMA CounterIsNumber == ASSUME CountType PROVE counter \in Numbers /\ counter <= used + 1
<1>1. Cardinality(Spenders) \in Nat
  BY SpendersCount DEF Spenders
<1> QED
  BY <1>1, BoundsAssumption DEF CountType, Numbers

LEMMA TypesSuffice == ASSUME TInv PROVE TypeOK
<1>1. LinkedCart \subseteq Cart /\ SUBSET Links \subseteq SUBSET Entry
  BY LinksAreEntries DEF LinkedCart, Cart
<1>2. Tickets \subseteq Numbers
  BY BoundsAssumption DEF Tickets, Numbers
<1>3. LinkedTicket \subseteq Ticket
  BY <1>1, <1>2 DEF LinkedTicket, Ticket
<1>4. ticket \in [Tickets -> Ticket]
  BY <1>3 DEF TInv, TicketType
<1>5. queue \in Seq(Op)
  BY DEF TInv, QueueType, QueuedOp
<1>6. counter \in Numbers
  BY CounterIsNumber DEF TInv
<1>7. /\ online \in BOOLEAN /\ cart \in Cart /\ listed \subseteq Entry
      /\ hydration \in [pc : {"none", "start", "reading"}, seen : SUBSET Entry]
  BY <1>1 DEF TInv, PageType
<1> QED
  BY <1>4, <1>5, <1>6, <1>7 DEF TInv, TypeOK, QueueType, ServerType, CountType, BoundType, Maps

-----------------------------------------------------------------------------
(* The tickets: a step moves one on, or a click begins the next one.        *)
LEMMA TypeShape == ASSUME TInv PROVE Shape
<1>1. \A t \in LinkedTicket : IsTicket(t)
  BY DEF LinkedTicket, IsTicket
<1> QED
  BY <1>1 DEF TInv, TicketType, CountType, Shape

LEMMA CartsAreLinked ==
    /\ EmptyCart \in LinkedCart
    /\ EmptyCart.link = NoEntry
    /\ \A e \in Links : Linked(e) \in LinkedCart /\ Linked(e).link = e
<1> DEFINE no == FALSE
           yes == TRUE
           carts == [sale : BOOLEAN, link : Links \cup {NoEntry}, reserve : BOOLEAN]
<1>1. EmptyCart = [sale |-> no, link |-> NoEntry, reserve |-> no]
  BY DEF EmptyCart
<1>2. \A e : Linked(e) = [EmptyCart EXCEPT !.sale = yes, !.link = e]
  BY DEF Linked
<1>3. no \in BOOLEAN /\ yes \in BOOLEAN
  OBVIOUS
<1> HIDE DEF no, yes
<1>4. \A e : Linked(e) = [sale |-> yes, link |-> e, reserve |-> no]
  BY <1>1, <1>2
<1> QED
  BY <1>1, <1>3, <1>4 DEF LinkedCart

LEMMA FetchedLinks == ASSUME ServerType PROVE Fetched \subseteq Links
<1>1. \A r \in Pending : r \in Rows /\ row[r].by \in 0..MaxTickets
  BY DEF Pending, ServerType, Row
<1> QED
  BY <1>1 DEF Fetched, Links

LEMMA MarksType ==
    ASSUME TicketType, Fetched \subseteq Links, NEW i \in Tickets, NEW kind \in Kinds, NEW pc \in Pc,
           NEW number \in Tickets, NEW recorded \in BOOLEAN, NEW customer \in Customers, NEW c \in LinkedCart,
           Marks(i, kind, pc, number, recorded, customer, c)
    PROVE  TicketType'
<1> PICK t : t = ticket'[i]
  OBVIOUS
<1>1. /\ t = [kind |-> t.kind, pc |-> t.pc, number |-> t.number, customer |-> t.customer,
              cart |-> t.cart, recorded |-> t.recorded, seen |-> t.seen]
      /\ t.kind = kind /\ t.pc = pc /\ t.number = number /\ t.customer = customer /\ t.cart = c
      /\ t.recorded = recorded /\ t.seen \subseteq ticket[i].seen \cup Fetched
  BY DEF Marks, IsTicket
<1>2. ticket[i].seen \subseteq Links
  BY DEF TicketType, LinkedTicket
<1>3. t.seen \in SUBSET Links
  BY <1>1, <1>2
<1>4. t \in LinkedTicket
  BY <1>1, <1>3 DEF LinkedTicket
<1>5. \A j \in Tickets : ticket'[j] \in LinkedTicket
  BY <1>4 DEF Marks, TicketType
<1>6. ticket' = [j \in Tickets |-> ticket'[j]]
  BY DEF Marks
<1> QED
  BY <1>5, <1>6 DEF TicketType

\* A ticket moves on: it keeps what its click has given it.
LEMMA MoveType ==
    ASSUME TInv, NEW i \in Tickets, NEW pc \in Pc, NEW recorded \in BOOLEAN,
           Marks(i, ticket[i].kind, pc, ticket[i].number, recorded, ticket[i].customer, ticket[i].cart)
    PROVE  TicketType'
<1>1. /\ ticket[i].kind \in Kinds /\ ticket[i].number \in Tickets /\ ticket[i].customer \in Customers
      /\ ticket[i].cart \in LinkedCart
  BY DEF TInv, TicketType, LinkedTicket
<1> QED
  BY <1>1, FetchedLinks, MarksType DEF TInv

\* A click: the number is the counter, which is at most that of the click.
LEMMA ClickType ==
    ASSUME TInv, NEW i \in Tickets, Use(i), NEW kind \in Kinds, NEW pc \in Pc, NEW recorded \in BOOLEAN,
           NEW customer \in Customers, NEW c \in LinkedCart,
           Marks(i, kind, pc, counter, recorded, customer, c)
    PROVE  TicketType'
<1>1. counter \in Tickets
  BY CounterIsNumber, BoundsAssumption DEF TInv, CountType, Use, Tickets
<1> QED
  BY <1>1, FetchedLinks, MarksType DEF TInv

LEMMA BuyerType == ASSUME TInv, NEW e \in listed PROVE Customer(e.from) \in Customers /\ e \in Links
<1>1. e \in Links /\ e.from \in 0..MaxTickets
  BY LinksAreEntries DEF TInv, PageType
<1>2. e.from # 0 => e.from \in Tickets
  BY <1>1, BoundsAssumption DEF Tickets
<1>3. \A j \in Tickets : ticket[j].customer \in Customers
  BY DEF TInv, TicketType, LinkedTicket
<1> QED
  BY <1>1, <1>2, <1>3 DEF Customer, Customers

Begins(i) ==
    /\ Use(i)
    /\ \E kind \in Kinds, pc \in Pc, recorded \in BOOLEAN, customer \in Customers, c \in LinkedCart :
          /\ Marks(i, kind, pc, counter, recorded, customer, c)
          /\ c.link \in {cart.link, NoEntry} \cup listed
          /\ pc = "memo" => kind = "memo"

LEMMA ClickBegins ==
    ASSUME TInv, NEW i \in Tickets,
           \/ \E customer \in Customers : CompleteOnline(i, customer) \/ CompleteOffline(i, customer)
           \/ \E e \in listed : Pickup(i, e) \/ PickupFromDetails(i, e) \/ CancelReservation(i, e)
           \/ Memo(i)
    PROVE  Begins(i)
<1>0. Shape /\ cart \in LinkedCart
  BY TypeShape DEF TInv, PageType
<1>1. CASE \E customer \in Customers : CompleteOnline(i, customer)
  <2> PICK customer \in Customers : CompleteOnline(i, customer)
    BY <1>1
  <2> PICK pc : pc = IF cart.reserve THEN "reserve" ELSE "sell"
    OBVIOUS
  <2>1. Use(i) /\ ticket' = [ticket EXCEPT ![i] = [NewTicket("sale", customer, cart) EXCEPT !.pc = pc]]
    BY DEF CompleteOnline
  <2>2. Marks(i, "sale", pc, counter, FALSE, customer, cart)
    BY <2>1, <1>0, PlainClickMarks
  <2>3. "sale" \in Kinds /\ pc \in Pc
    BY DEF Kinds, Pc
  <2> QED
    BY <2>1, <2>2, <2>3, <1>0 DEF Begins
<1>2. CASE \/ \E customer \in Customers : CompleteOffline(i, customer)
           \/ \E e \in listed : Pickup(i, e) \/ PickupFromDetails(i, e)
  <2> DEFINE Clicked(kind, customer, c) ==
                 ticket' = [ticket EXCEPT ![i] =
                               [NewTicket(kind, customer, c) EXCEPT !.pc = "done", !.recorded = TRUE]]
  <2>1. \E kind \in Kinds, customer \in Customers, c \in LinkedCart :
            Clicked(kind, customer, c) /\ c.link \in {cart.link} \cup listed
    <3>1. CASE \E customer \in Customers : CompleteOffline(i, customer)
      <4> PICK customer \in Customers : Clicked("sale", customer, cart)
        BY <3>1 DEF CompleteOffline
      <4> QED
        BY <1>0 DEF Kinds
    <3>2. CASE \E e \in listed : Pickup(i, e) \/ PickupFromDetails(i, e)
      <4> PICK e \in listed : Clicked("pickup", Customer(e.from), Linked(e))
                              \/ Clicked("modal", Customer(e.from), Linked(e))
        BY <3>2 DEF Pickup, PickupFromDetails
      <4>1. Customer(e.from) \in Customers /\ Linked(e) \in LinkedCart /\ Linked(e).link \in listed
        BY BuyerType, CartsAreLinked
      <4> HIDE DEF Clicked
      <4> QED
        BY <4>1 DEF Kinds
    <3> QED
      BY <1>2, <3>1, <3>2
  <2> PICK kind \in Kinds, customer \in Customers, c \in LinkedCart :
          Clicked(kind, customer, c) /\ c.link \in {cart.link} \cup listed
    BY <2>1
  <2>2. Marks(i, kind, "done", counter, TRUE, customer, c)
    BY <1>0, ClickMarks
  <2>3. Use(i) /\ "done" \in Pc
    BY <1>2 DEF CompleteOffline, Pickup, PickupFromDetails, Pc
  <2> QED
    BY <2>2, <2>3 DEF Begins
<1>3. CASE \E e \in listed : CancelReservation(i, e)
  <2> PICK e \in listed : CancelReservation(i, e)
    BY <1>3
  <2>1. /\ Use(i) /\ "done" \in Pc /\ "cancel" \in Kinds
        /\ ticket' = [ticket EXCEPT ![i] = [NewTicket("cancel", Customer(e.from), Linked(e)) EXCEPT !.pc = "done"]]
    BY DEF CancelReservation, Kinds, Pc
  <2>2. Marks(i, "cancel", "done", counter, FALSE, Customer(e.from), Linked(e))
    BY <2>1, <1>0, PlainClickMarks
  <2>3. Customer(e.from) \in Customers /\ Linked(e) \in LinkedCart /\ Linked(e).link \in listed
    BY BuyerType, CartsAreLinked
  <2> QED
    BY <2>1, <2>2, <2>3 DEF Begins
<1>4. CASE Memo(i)
  <2> PICK pc : pc = IF online THEN "memo" ELSE "done"
    OBVIOUS
  <2>1. Use(i) /\ ticket' = [ticket EXCEPT ![i] =
            [[NewTicket("memo", "nobody", EmptyCart) EXCEPT !.recorded = TRUE] EXCEPT !.pc = pc]]
    BY <1>4 DEF Memo
  <2>2. Marks(i, "memo", pc, counter, TRUE, "nobody", EmptyCart)
    BY <2>1, <1>0, MemoMarks
  <2>3. "memo" \in Kinds /\ pc \in Pc /\ "nobody" \in Customers /\ EmptyCart \in LinkedCart
        /\ EmptyCart.link = NoEntry
    BY CartsAreLinked DEF Kinds, Pc, Customers
  <2> QED
    BY <2>1, <2>2, <2>3 DEF Begins
<1> QED
  BY <1>1, <1>2, <1>3, <1>4

Moves(i) ==
    /\ ticket[i].pc \in {"reserve", "sell", "memo", "refresh", "reading"}
    /\ \E pc \in Pc, recorded \in BOOLEAN :
          /\ Marks(i, ticket[i].kind, pc, ticket[i].number, recorded, ticket[i].customer, ticket[i].cart)
          /\ ticket[i].recorded => recorded
          /\ pc # "memo"

LEMMA ServeMoves == ASSUME TInv, NEW i \in Tickets, Serve(i) PROVE Moves(i)
<1>0. Shape /\ ticket[i].recorded \in BOOLEAN
  BY TypeShape DEF TInv, TicketType, LinkedTicket
<1>1. \/ ticket' = [ticket EXCEPT ![i].pc = "refresh", ![i].recorded = TRUE]
      \/ Step(i, "sell") \/ Step(i, "gone") \/ Step(i, "done")
      \/ \E pc \in {"reading", "done"}, seen \in {Fetched, {}} :
             ticket' = [ticket EXCEPT ![i].pc = pc, ![i].seen = seen]
  BY DEF Serve, ReserveOnline, SellOnline, RefreshRead, Refreshed, MemoSent, Commit, FallBack
<1>2. \E pc \in Pc, recorded \in BOOLEAN :
          /\ Marks(i, ticket[i].kind, pc, ticket[i].number, recorded, ticket[i].customer, ticket[i].cart)
          /\ ticket[i].recorded => recorded
          /\ pc # "memo"
  BY <1>0, <1>1, RecordMarks, StepMarks, SeenMarks DEF Pc
<1>3. ticket[i].pc \in {"reserve", "sell", "memo", "refresh", "reading"}
  BY DEF Serve, ReserveOnline, SellOnline, RefreshRead, Refreshed, MemoSent, At
<1> QED
  BY <1>2, <1>3 DEF Moves

LEMMA TicketTypeStep == ASSUME TInv, [Next]_vars PROVE TicketType'
<1>1. CASE \E i \in Tickets :
            \/ \E customer \in Customers : CompleteOnline(i, customer) \/ CompleteOffline(i, customer)
            \/ \E e \in listed : Pickup(i, e) \/ PickupFromDetails(i, e) \/ CancelReservation(i, e)
            \/ Memo(i)
  BY <1>1, ClickBegins, ClickType DEF Begins
<1>2. CASE \E i \in Tickets : Serve(i)
  BY <1>2, ServeMoves, MoveType DEF Moves
<1>3. CASE Reload
  <2>1. ASSUME NEW t \in LinkedTicket PROVE [t EXCEPT !.pc = "gone", !.seen = {}] \in LinkedTicket
    <3> DEFINE nothing == {}
               gone == "gone"
    <3>1. nothing \in SUBSET Links /\ gone \in Pc
      BY DEF Pc
    <3>2. [t EXCEPT !.pc = gone, !.seen = nothing] \in LinkedTicket
      <4> HIDE DEF nothing, gone
      <4> QED
        BY <2>1, <3>1 DEF LinkedTicket
    <3> QED
      BY <3>2
  <2> QED
    BY <1>3, <2>1 DEF Reload, TInv, TicketType
<1>4. CASE \/ AddToCart \/ ChangeType \/ RemoveLine \/ AddLegacy \/ Audit
           \/ Probe \/ HydrateRead \/ HydrateApply \/ HydrateFails
           \/ ReplayStart \/ ReplayStop \/ Replay \/ UNCHANGED vars
  <2>1. UNCHANGED ticket
    BY <1>4 DEF AddToCart, ChangeType, RemoveLine, AddLegacy, Audit, Probe, HydrateRead, HydrateApply,
                HydrateFails, ReplayStart, ReplayStop, Replay, vars
  <2> QED
    BY <2>1 DEF TInv, TicketType
<1> QED
  BY <1>1, <1>2, <1>3, <1>4 DEF Next

-----------------------------------------------------------------------------
(* The counter: each sale spends one number, and those under way have yet   *)
(* to do so, hence it never goes past the number of the tickets.            *)
UsedOn == used' = used \/ \E i \in Tickets : Use(i)

LEMMA CountQuiet ==
    ASSUME CountType, UNCHANGED counter, UsedOn, Spenders' \subseteq Spenders
    PROVE  CountType'
<1>1. used' \in 0..MaxTickets /\ used <= used'
  BY BoundsAssumption DEF CountType, UsedOn, Use, Tickets
<1>2. \A i \in Tickets : UnderWay(i)' => UnderWay(i)
  BY DEF Spenders
<1> PICK S : S = Spenders'
  OBVIOUS
<1>3. /\ IsFiniteSet(Spenders) /\ Cardinality(Spenders) \in Nat
      /\ Cardinality(S) \in Nat /\ Cardinality(S) <= Cardinality(Spenders)
  BY SpendersCount, FS_Subset DEF Spenders
<1> PICK a, b : a = Cardinality(S) /\ b = Cardinality(Spenders)
  OBVIOUS
<1>4. \A i \in Tickets : UnderWay(i)' => i <= used'
  BY <1>1, <1>2 DEF CountType, Tickets
<1>5. counter + a <= used' + 1
  BY <1>1, <1>3 DEF CountType
<1> QED
  BY <1>1, <1>4, <1>5 DEF CountType

\* A click that begins a sale.
LEMMA CountBegun ==
    ASSUME CountType, UNCHANGED counter, NEW i \in Tickets, Use(i),
           \A j \in Tickets \ {i} : UnderWay(j)' => UnderWay(j)
    PROVE  CountType'
<1>1. used' = i /\ i = used + 1 /\ used' \in 0..MaxTickets /\ used \in Nat
  BY BoundsAssumption DEF CountType, Use, Tickets
<1> PICK S : S = Spenders'
  OBVIOUS
<1>2. S \subseteq Spenders \cup {i} /\ S \subseteq Tickets
  BY DEF Spenders
<1> PICK a, b, c : a = Cardinality(S) /\ b = Cardinality(Spenders) /\ c = Cardinality(Spenders \cup {i})
  OBVIOUS
<1>3. IsFiniteSet(Spenders) /\ b \in Nat /\ a \in Nat
  BY <1>2, SpendersCount DEF Spenders
<1>4. IsFiniteSet(Spenders \cup {i}) /\ c = IF i \in Spenders THEN b ELSE b + 1
  BY <1>3, FS_AddElement
<1>5. a <= c
  BY <1>2, <1>4, FS_Subset
<1>6. a <= b + 1
  BY <1>3, <1>4, <1>5
<1>7. counter' + a <= used' + 1
  BY <1>1, <1>3, <1>6 DEF CountType
<1>8. \A j \in Tickets : UnderWay(j)' => j <= used'
  BY <1>1 DEF CountType, Tickets
<1> QED
  BY <1>1, <1>7, <1>8 DEF CountType

\* A click that spends the number at once.
LEMMA CountClicked ==
    ASSUME CountType, counter' = counter + 1, NEW i \in Tickets, Use(i), Spenders' \subseteq Spenders
    PROVE  CountType'
<1>1. used' = used + 1 /\ used' \in 0..MaxTickets /\ used \in Nat
  BY BoundsAssumption DEF CountType, Use, Tickets
<1> PICK S : S = Spenders'
  OBVIOUS
<1> PICK a, b : a = Cardinality(S) /\ b = Cardinality(Spenders)
  OBVIOUS
<1>2. a \in Nat /\ b \in Nat /\ a <= b
  BY SpendersCount, FS_Subset DEF Spenders
<1>3. counter' + a <= used' + 1 /\ counter' \in Nat \ {0}
  BY <1>1, <1>2 DEF CountType
<1>4. \A j \in Tickets : UnderWay(j)' => j <= used'
  BY <1>1 DEF CountType, Tickets, Spenders
<1> QED
  BY <1>1, <1>3, <1>4 DEF CountType

\* A sale under way spends its number.
LEMMA CountSpent ==
    ASSUME CountType, counter' = counter + 1, NEW i \in Tickets, UnderWay(i), UNCHANGED used,
           Spenders' \subseteq Spenders \ {i}
    PROVE  CountType'
<1> PICK S : S = Spenders'
  OBVIOUS
<1> PICK a, b, c : a = Cardinality(S) /\ b = Cardinality(Spenders) /\ c = Cardinality(Spenders \ {i})
  OBVIOUS
<1>1. IsFiniteSet(Spenders) /\ b \in Nat /\ a \in Nat /\ i \in Spenders
  BY SpendersCount DEF Spenders
<1>2. IsFiniteSet(Spenders \ {i}) /\ c = b - 1
  BY <1>1, FS_RemoveElement
<1>3. a <= c
  BY <1>2, FS_Subset
<1>4. counter' + a <= used' + 1 /\ counter' \in Nat \ {0}
  BY <1>1, <1>2, <1>3 DEF CountType
<1>5. \A j \in Tickets : UnderWay(j)' => j <= used'
  BY DEF CountType, Spenders
<1> QED
  BY <1>4, <1>5 DEF CountType

LEMMA MarksSpenders ==
    ASSUME NEW i \in Tickets, NEW kind, NEW pc, NEW number, NEW recorded, NEW customer, NEW c,
           Marks(i, kind, pc, number, recorded, customer, c)
    PROVE  /\ \A j \in Tickets \ {i} : UnderWay(j)' => UnderWay(j)
           /\ pc \notin {"reserve", "sell"} => Spenders' \subseteq Spenders \ {i}
           /\ UnderWay(i) => Spenders' \subseteq Spenders
BY DEF Marks, Spenders, UnderWay

LEMMA CountTypeStep == ASSUME TInv, [Next]_vars PROVE CountType'
<1>0. Shape /\ CountType
  BY TypeShape DEF TInv
<1>1. CASE \E i \in Tickets, customer \in Customers : CompleteOnline(i, customer)
  <2> PICK i \in Tickets, customer \in Customers : CompleteOnline(i, customer)
    BY <1>1
  <2> PICK pc : pc = IF cart.reserve THEN "reserve" ELSE "sell"
    OBVIOUS
  <2>1. /\ Use(i) /\ UNCHANGED counter
        /\ ticket' = [ticket EXCEPT ![i] = [NewTicket("sale", customer, cart) EXCEPT !.pc = pc]]
    BY DEF CompleteOnline
  <2>2. Marks(i, "sale", pc, counter, FALSE, customer, cart)
    BY <2>1, <1>0, PlainClickMarks
  <2>3. \A j \in Tickets \ {i} : UnderWay(j)' => UnderWay(j)
    BY <2>2, MarksSpenders
  <2> QED
    BY <2>1, <2>3, <1>0, CountBegun
<1>2. CASE \E i \in Tickets :
              \/ \E customer \in Customers : CompleteOffline(i, customer)
              \/ \E e \in listed : Pickup(i, e) \/ PickupFromDetails(i, e)
  <2> PICK i \in Tickets : \/ \E customer \in Customers : CompleteOffline(i, customer)
                           \/ \E e \in listed : Pickup(i, e) \/ PickupFromDetails(i, e)
    BY <1>2
  <2>1. Use(i) /\ counter' = counter + 1
    BY DEF CompleteOffline, Pickup, PickupFromDetails, RecordOffline, Raised
  <2>a. \E kind, customer, c :
          ticket' = [ticket EXCEPT ![i] = [NewTicket(kind, customer, c) EXCEPT !.pc = "done", !.recorded = TRUE]]
    BY DEF CompleteOffline, Pickup, PickupFromDetails
  <2>2. PICK kind, customer, c : Marks(i, kind, "done", counter, TRUE, customer, c)
    BY <2>a, <1>0, ClickMarks
  <2>3. Spenders' \subseteq Spenders
    <3>1. Spenders' \subseteq Spenders \ {i}
      <4>1. "done" \notin {"reserve", "sell"}
        OBVIOUS
      <4> QED
        BY <2>2, <4>1, MarksSpenders
    <3> QED
      BY <3>1
  <2> QED
    BY <2>1, <2>3, <1>0, CountClicked
<1>3. CASE \E i \in Tickets : (\E e \in listed : CancelReservation(i, e)) \/ Memo(i)
  <2> PICK i \in Tickets : (\E e \in listed : CancelReservation(i, e)) \/ Memo(i)
    BY <1>3
  <2>1. Use(i) /\ UNCHANGED counter
    BY DEF CancelReservation, Memo
  <2>2. Spenders' \subseteq Spenders
    <3>1. CASE \E e \in listed : CancelReservation(i, e)
      <4>1. \E customer, c : ticket' = [ticket EXCEPT ![i] = [NewTicket("cancel", customer, c) EXCEPT !.pc = "done"]]
        BY <3>1 DEF CancelReservation
      <4>2. \E customer, c : Marks(i, "cancel", "done", counter, FALSE, customer, c)
        BY <4>1, <1>0, PlainClickMarks
      <4> QED
        <5> PICK customer, c : Marks(i, "cancel", "done", counter, FALSE, customer, c)
          BY <4>2
        <5>1. Spenders' \subseteq Spenders \ {i}
          <6>1. "done" \notin {"reserve", "sell"}
            OBVIOUS
          <6> QED
            BY <6>1, MarksSpenders
        <5> QED
          BY <5>1
    <3>2. CASE Memo(i)
      <4> PICK pc : pc = IF online THEN "memo" ELSE "done"
        OBVIOUS
      <4>1. ticket' = [ticket EXCEPT ![i] =
                [[NewTicket("memo", "nobody", EmptyCart) EXCEPT !.recorded = TRUE] EXCEPT !.pc = pc]]
        BY <3>2 DEF Memo
      <4>2. Marks(i, "memo", pc, counter, TRUE, "nobody", EmptyCart) /\ pc \notin {"reserve", "sell"}
        BY <4>1, <1>0, MemoMarks
      <4> QED
        BY <4>2, MarksSpenders
    <3> QED
      BY <3>1, <3>2
  <2> QED
    BY <2>1, <2>2, <1>0, CountQuiet DEF UsedOn
<1>4. CASE \E i \in Tickets : ReserveOnline(i) \/ SellOnline(i)
  <2> PICK i \in Tickets : ReserveOnline(i) \/ SellOnline(i)
    BY <1>4
  <2>0. UnderWay(i) /\ UNCHANGED used
    BY DEF ReserveOnline, SellOnline, At, UnderWay
  <2>1. \/ /\ ticket' = [ticket EXCEPT ![i].pc = "refresh", ![i].recorded = TRUE]
           /\ counter' = counter + 1
        \/ UNCHANGED counter /\ (Step(i, "sell") \/ Step(i, "gone"))
    BY DEF ReserveOnline, SellOnline, Commit, FallBack, RecordOffline, Raised
  <2>2. CASE UNCHANGED counter /\ (Step(i, "sell") \/ Step(i, "gone"))
    <3>1. Spenders' \subseteq Spenders
      BY <2>0, <2>2, <1>0, StepMarks, MarksSpenders
    <3> QED
      BY <2>0, <2>2, <3>1, <1>0, CountQuiet DEF UsedOn
  <2>3. CASE /\ ticket' = [ticket EXCEPT ![i].pc = "refresh", ![i].recorded = TRUE]
             /\ counter' = counter + 1
    <3>1. Marks(i, ticket[i].kind, "refresh", ticket[i].number, TRUE, ticket[i].customer, ticket[i].cart)
      BY <2>3, <1>0, RecordMarks
    <3>2. Spenders' \subseteq Spenders \ {i}
      <4>1. "refresh" \notin {"reserve", "sell"}
        OBVIOUS
      <4> QED
        BY <3>1, <4>1, MarksSpenders
    <3> QED
      BY <2>0, <2>3, <3>2, <1>0, CountSpent
  <2> QED
    BY <2>1, <2>2, <2>3
<1>5. CASE \E i \in Tickets : RefreshRead(i) \/ Refreshed(i) \/ MemoSent(i)
  <2> PICK i \in Tickets : RefreshRead(i) \/ Refreshed(i) \/ MemoSent(i)
    BY <1>5
  <2>1. /\ UNCHANGED <<counter, used>>
        /\ \/ Step(i, "done")
           \/ \E pc \in {"reading", "done"}, seen \in {Fetched, {}} :
                 ticket' = [ticket EXCEPT ![i].pc = pc, ![i].seen = seen]
    BY DEF RefreshRead, Refreshed, MemoSent
  <2>2. \E pc \in {"reading", "done"} :
            Marks(i, ticket[i].kind, pc, ticket[i].number, ticket[i].recorded, ticket[i].customer, ticket[i].cart)
    BY <2>1, <1>0, SeenMarks, StepMarks
  <2>3. Spenders' \subseteq Spenders
    BY <2>2, MarksSpenders
  <2> QED
    BY <2>1, <2>3, <1>0, CountQuiet DEF UsedOn
<1>6. CASE Reload
  <2>1. Spenders' = {} /\ UNCHANGED used
    BY <1>6, <1>0, ReloadTicket DEF Spenders, Reload
  <2>2. CASE UNCHANGED counter
    BY <1>0, <2>1, <2>2, CountQuiet DEF UsedOn
  <2>3. CASE counter' = 1
    <3>1. Cardinality(Spenders)' = 0
      BY <2>1, FS_EmptySet
    <3>2. \A i \in Tickets : ~UnderWay(i)'
      BY <2>1 DEF Spenders
    <3> QED
      BY <1>0, <2>1, <2>3, <3>1, <3>2 DEF CountType
  <2> QED
    BY <1>6, <2>2, <2>3 DEF Reload
<1>7. CASE \/ AddToCart \/ ChangeType \/ RemoveLine \/ AddLegacy \/ Audit
           \/ Probe \/ HydrateRead \/ HydrateApply \/ HydrateFails
           \/ ReplayStart \/ ReplayStop \/ Replay \/ UNCHANGED vars
  <2>1. UNCHANGED <<ticket, counter, used>>
    BY <1>7 DEF AddToCart, ChangeType, RemoveLine, AddLegacy, Audit, Probe, HydrateRead, HydrateApply,
                HydrateFails, ReplayStart, ReplayStop, Replay, vars
  <2>2. Spenders' = Spenders
    BY <2>1 DEF Spenders, UnderWay
  <2> QED
    BY <2>1, <2>2, <1>0, CountQuiet DEF UsedOn
<1> QED
  BY <1>1, <1>2, <1>3, <1>4, <1>5, <1>6, <1>7 DEF Next, Serve

-----------------------------------------------------------------------------
(* The page, ...                                                            *)
MadeHere(i, t) == [side |-> "local", n |-> t.number, from |-> i]

LEMMA RecordedLinks ==
    ASSUME TInv, NEW i \in Tickets, NEW t, t.number \in Tickets, NEW kinds, RecordOffline(i, t, kinds)
    PROVE  listed' \subseteq Links /\ listed' \subseteq listed \cup {MadeHere(i, t)}
<1>1. listed' \subseteq listed \cup {MadeHere(i, t)}
  BY DEF RecordOffline, Without, MadeHere
<1>2. MadeHere(i, t) \in Links
  BY DEF MadeHere, Links
<1> QED
  BY <1>1, <1>2 DEF TInv, PageType

LEMMA CartStep ==
    ASSUME [Next]_vars PROVE AddToCart \/ ChangeType \/ RemoveLine \/ cart' = EmptyCart \/ cart' = cart
<1>1. CASE \/ AddLegacy \/ Audit \/ Probe \/ HydrateRead \/ HydrateApply \/ HydrateFails \/ Reload
           \/ ReplayStart \/ ReplayStop \/ Replay \/ UNCHANGED vars
  BY <1>1 DEF AddLegacy, Audit, Probe, HydrateRead, HydrateApply, HydrateFails, Reload,
              ReplayStart, ReplayStop, Replay, vars
<1>2. CASE \E i \in Tickets :
              \/ \E customer \in Customers : CompleteOnline(i, customer) \/ CompleteOffline(i, customer)
              \/ \E e \in listed : Pickup(i, e) \/ PickupFromDetails(i, e) \/ CancelReservation(i, e)
              \/ Memo(i)
  BY <1>2 DEF CompleteOnline, CompleteOffline, Pickup, PickupFromDetails, CancelReservation, Memo
<1>3. CASE \E i \in Tickets : Serve(i)
  BY <1>3 DEF Serve, ReserveOnline, SellOnline, RefreshRead, Refreshed, MemoSent
<1> QED
  BY <1>1, <1>2, <1>3 DEF Next

LEMMA CartTypeStep == ASSUME TInv, [Next]_vars PROVE cart' \in LinkedCart
<1>0. cart \in LinkedCart /\ EmptyCart \in LinkedCart /\ listed \subseteq Links
  BY CartsAreLinked DEF TInv, PageType
<1> DEFINE no == FALSE
           yes == TRUE
<1>1. no \in BOOLEAN /\ yes \in BOOLEAN
  OBVIOUS
<1> HIDE DEF no, yes
<1>2. \A c \in LinkedCart, e \in Links \cup {NoEntry} :
          /\ [c EXCEPT !.sale = yes] \in LinkedCart /\ [c EXCEPT !.reserve = yes] \in LinkedCart
          /\ [c EXCEPT !.sale = yes, !.link = e] \in LinkedCart
          /\ [c EXCEPT !.sale = yes, !.reserve = no] \in LinkedCart
          /\ [c EXCEPT !.sale = no, !.link = e] \in LinkedCart
          /\ [c EXCEPT !.reserve = no] \in LinkedCart
          /\ c.link \in Links \cup {NoEntry}
  BY <1>1 DEF LinkedCart
<1>3. CASE AddToCart
  <2>1. CASE \E e \in listed : cart' = [cart EXCEPT !.sale = TRUE, !.link = IF cart.sale THEN @ ELSE e]
    <3> PICK e \in listed : cart' = [cart EXCEPT !.sale = TRUE, !.link = IF cart.sale THEN @ ELSE e]
      BY <2>1
    <3> PICK f : f = IF cart.sale THEN cart.link ELSE e
      OBVIOUS
    <3>1. f \in Links \cup {NoEntry} /\ cart' = [cart EXCEPT !.sale = yes, !.link = f]
      BY <1>0, <1>2 DEF yes
    <3>2. \A c \in LinkedCart : [c EXCEPT !.sale = yes, !.link = f] \in LinkedCart
      BY <1>1, <3>1 DEF LinkedCart
    <3> QED
      BY <1>0, <3>1, <3>2
  <2>2. CASE cart' = [cart EXCEPT !.sale = TRUE] \/ cart' = [cart EXCEPT !.reserve = TRUE]
    BY <1>0, <1>2, <2>2 DEF yes
  <2> QED
    BY <1>3, <2>1, <2>2 DEF AddToCart
<1>4. CASE ChangeType \/ RemoveLine
  BY <1>0, <1>2, <1>4 DEF ChangeType, RemoveLine, yes, no
<1>5. CASE cart' = EmptyCart \/ cart' = cart
  BY <1>0, <1>5
<1> QED
  BY <1>3, <1>4, <1>5, CartStep

LEMMA ListTypeStep == ASSUME TInv, [Next]_vars PROVE listed' \subseteq Links
<1>0. listed \subseteq Links /\ hydration.seen \subseteq Links /\ Legacy \in Links
  BY LinksAreEntries DEF TInv, PageType
<1>1. CASE \E i \in Tickets :
            \/ \E customer \in Customers : CompleteOffline(i, customer)
            \/ \E e \in listed : Pickup(i, e) \/ PickupFromDetails(i, e)
  <2> PICK i \in Tickets : \/ \E customer \in Customers : CompleteOffline(i, customer)
                           \/ \E e \in listed : Pickup(i, e) \/ PickupFromDetails(i, e)
    BY <1>1
  <2>1. \E t, kinds : RecordOffline(i, t, kinds) /\ ticket' = [ticket EXCEPT ![i] = t]
    BY DEF CompleteOffline, Pickup, PickupFromDetails
  <2> PICK t, kinds : RecordOffline(i, t, kinds) /\ ticket' = [ticket EXCEPT ![i] = t]
    BY <2>1
  <2>2. ticket'[i] = t /\ ticket'[i] \in LinkedTicket
    BY TicketTypeStep DEF TInv, TicketType
  <2>3. t.number \in Tickets
    BY <2>2 DEF LinkedTicket
  <2> QED
    BY <2>3, RecordedLinks
<1>2. CASE \E i \in Tickets : ReserveOnline(i) \/ SellOnline(i)
  <2> PICK i \in Tickets : ReserveOnline(i) \/ SellOnline(i)
    BY <1>2
  <2>1. ticket[i].number \in Tickets
    BY DEF TInv, TicketType, LinkedTicket
  <2>2. UNCHANGED listed \/ \E kinds : RecordOffline(i, ticket[i], kinds)
    BY DEF ReserveOnline, SellOnline, FallBack
  <2> QED
    BY <1>0, <2>1, <2>2, RecordedLinks
<1>3. CASE \E i \in Tickets : RefreshRead(i) \/ Refreshed(i) \/ MemoSent(i) \/ CompleteOnline(i, "known")
  <2>1. \A i \in Tickets : ticket[i].seen \subseteq Links
    BY DEF TInv, TicketType, LinkedTicket
  <2> QED
    BY <1>0, <1>3, <2>1 DEF RefreshRead, Refreshed, MemoSent, CompleteOnline
<1>4. CASE \E i \in Tickets : \/ \E customer \in Customers : CompleteOnline(i, customer)
                              \/ \E e \in listed : CancelReservation(i, e)
                              \/ Memo(i)
  BY <1>0, <1>4 DEF CompleteOnline, CancelReservation, Memo, Without
<1>5. CASE \/ AddToCart \/ ChangeType \/ RemoveLine \/ AddLegacy \/ Audit
           \/ Probe \/ HydrateRead \/ HydrateApply \/ HydrateFails \/ Reload
           \/ ReplayStart \/ ReplayStop \/ Replay \/ UNCHANGED vars
  BY <1>0, <1>5 DEF AddToCart, ChangeType, RemoveLine, AddLegacy, Audit, Probe, HydrateRead, HydrateApply,
                HydrateFails, ReplayStart, ReplayStop, Replay, Reload, vars
<1> QED
  BY <1>1, <1>2, <1>3, <1>4, <1>5 DEF Next, Serve

LEMMA HydrationStep ==
    ASSUME [Next]_vars
    PROVE  /\ online' = online \/ online' = TRUE \/ online' = FALSE
           /\ hydration' \in {hydration, NoHydration, Hydrating, [pc |-> "reading", seen |-> Fetched]}
<1>1. CASE \/ AddToCart \/ ChangeType \/ RemoveLine
           \/ AddLegacy \/ Audit \/ Probe \/ HydrateRead \/ HydrateApply \/ HydrateFails \/ Reload
           \/ ReplayStart \/ ReplayStop \/ Replay \/ UNCHANGED vars
  BY <1>1 DEF AddToCart, ChangeType, RemoveLine, AddLegacy, Audit, Probe, HydrateRead, HydrateApply,
              HydrateFails, Reload, ReplayStart, ReplayStop, Replay, vars
<1>2. CASE \E i \in Tickets :
              \/ \E customer \in Customers : CompleteOnline(i, customer) \/ CompleteOffline(i, customer)
              \/ \E e \in listed : Pickup(i, e) \/ PickupFromDetails(i, e) \/ CancelReservation(i, e)
              \/ Memo(i)
  BY <1>2 DEF CompleteOnline, CompleteOffline, Pickup, PickupFromDetails, CancelReservation, Memo
<1>3. CASE \E i \in Tickets : Serve(i)
  BY <1>3 DEF Serve, ReserveOnline, SellOnline, RefreshRead, Refreshed, MemoSent, FallBack
<1> QED
  BY <1>1, <1>2, <1>3 DEF Next

LEMMA ModeTypeStep ==
    ASSUME TInv, [Next]_vars
    PROVE  online' \in BOOLEAN
           /\ hydration' \in [pc : {"none", "start", "reading"}, seen : SUBSET Links]
<1> DEFINE H == [pc : {"none", "start", "reading"}, seen : SUBSET Links]
<1>0. online \in BOOLEAN /\ hydration \in H
  BY DEF TInv, PageType
<1>1. NoHydration \in H /\ Hydrating \in H /\ [pc |-> "reading", seen |-> Fetched] \in H
  BY FetchedLinks DEF TInv, NoHydration, Hydrating
<1> HIDE DEF H
<1>3. online' \in BOOLEAN /\ hydration' \in H
  BY <1>0, <1>1, HydrationStep
<1> QED
  BY <1>3 DEF H

LEMMA PageTypeStep == ASSUME TInv, [Next]_vars PROVE PageType'
BY CartTypeStep, ListTypeStep, ModeTypeStep DEF PageType

(* ... and the bounds.                                                      *)
LEMMA BoundTypeStep == ASSUME TInv, [Next]_vars PROVE BoundType'
<1>0. BoundType
  BY DEF TInv
<1>1. bounds' = bounds \/ Fault \/ Edit
  <2>1. CASE \/ AddToCart \/ ChangeType \/ RemoveLine
             \/ AddLegacy \/ Audit \/ Probe \/ HydrateRead \/ HydrateApply \/ HydrateFails \/ Reload
             \/ ReplayStart \/ ReplayStop \/ Replay \/ UNCHANGED vars
    BY <2>1 DEF AddToCart, ChangeType, RemoveLine, AddLegacy, Audit, Probe, HydrateRead, HydrateApply,
                HydrateFails, Reload, ReplayStart, ReplayStop, Replay, ReplaySucceeds, ReplayUnanswered,
                ReplayRefused, vars, bounds
  <2>2. CASE \E i \in Tickets :
                \/ \E customer \in Customers : CompleteOnline(i, customer) \/ CompleteOffline(i, customer)
                \/ \E e \in listed : Pickup(i, e) \/ PickupFromDetails(i, e) \/ CancelReservation(i, e)
                \/ Memo(i)
    BY <2>2 DEF CompleteOnline, CompleteOffline, Pickup, PickupFromDetails, CancelReservation, Memo, bounds
  <2>3. CASE \E i \in Tickets : Serve(i)
    BY <2>3 DEF Serve, ReserveOnline, SellOnline, RefreshRead, Refreshed, MemoSent, bounds
  <2> QED
    BY <2>1, <2>2, <2>3 DEF Next
<1>2. edits' \in 0..MaxEdits /\ faults' \in 0..MaxFaults
  BY <1>0, <1>1, BoundsAssumption DEF BoundType, Fault, Edit, bounds
<1>3. doubted' \subseteq Tickets /\ clash' \in BOOLEAN
  <2>1. CASE \/ AddToCart \/ ChangeType \/ RemoveLine
             \/ AddLegacy \/ Audit \/ Probe \/ HydrateRead \/ HydrateApply \/ HydrateFails \/ Reload
             \/ ReplayStart \/ ReplayStop \/ Replay \/ UNCHANGED vars
    BY <1>0, <2>1 DEF AddToCart, ChangeType, RemoveLine, AddLegacy, Audit, Probe, HydrateRead, HydrateApply,
                HydrateFails, Reload, ReplayStart, ReplayStop, Replay, vars, history, BoundType, TInv, PageType
  <2>2. CASE \E i \in Tickets :
                \/ \E customer \in Customers : CompleteOnline(i, customer) \/ CompleteOffline(i, customer)
                \/ \E e \in listed : Pickup(i, e) \/ PickupFromDetails(i, e) \/ CancelReservation(i, e)
                \/ Memo(i)
    BY <1>0, <2>2 DEF CompleteOnline, CompleteOffline, Pickup, PickupFromDetails, CancelReservation, Memo,
                      Numbered, history, BoundType
  <2>3. CASE \E i \in Tickets : Serve(i)
    BY <1>0, <2>3 DEF Serve, ReserveOnline, SellOnline, RefreshRead, Refreshed, MemoSent, history, BoundType
  <2> QED
    BY <2>1, <2>2, <2>3 DEF Next
<1> QED
  BY <1>2, <1>3 DEF BoundType

-----------------------------------------------------------------------------
(* The server, ...                                                          *)
LEMMA RowsType ==
    ASSUME ServerType, NEW i \in Tickets, NEW r,
           \/ UNCHANGED row \/ (MayReserve(i) /\ row' = Reserved(i))
           \/ row' = Sold(i, r) \/ row' = Cancelled(i, r)
    PROVE  row' \in [Rows -> Row]
<1>0. row \in [Rows -> Row] /\ i \in 0..MaxTickets
  BY BoundsAssumption DEF ServerType, Tickets
<1>1. CASE MayReserve(i) /\ row' = Reserved(i)
  <2>1. [state |-> "pending", by |-> i, ended |-> 0] \in Row
    BY <1>0, BoundsAssumption DEF Row
  <2> QED
    BY <1>0, <1>1, <2>1 DEF Reserved
<1>2. ASSUME NEW x \in {"completed", "cancelled"}, row' = [row EXCEPT ![r].state = x, ![r].ended = i]
      PROVE  row' \in [Rows -> Row]
  <2>1. CASE r \in Rows
    <3>1. [row[r] EXCEPT !.state = x, !.ended = i] \in Row
      BY <1>0, <2>1 DEF Row
    <3> PICK w : w = [row[r] EXCEPT !.state = x, !.ended = i]
      OBVIOUS
    <3>2. row' = [row EXCEPT ![r] = w]
      BY <1>0, <1>2, <2>1
    <3> QED
      BY <1>0, <3>1, <3>2
  <2>2. CASE r \notin Rows
    BY <1>0, <1>2, <2>2
  <2> QED
    BY <2>1, <2>2
<1>3. CASE row' = row
  BY <1>0, <1>3
<1> QED
  BY <1>1, <1>2, <1>3 DEF Sold, Cancelled

LEMMA AppliedType ==
    ASSUME ServerType, NEW i \in Tickets, Served(i) \/ UNCHANGED applied PROVE applied' \in [Tickets -> Nat]
BY DEF ServerType, Served

LEMMA OpsAreTyped ==
    ASSUME QueueType, NEW k \in DOMAIN queue
    PROVE  queue[k] \in QueuedOp /\ queue[k].kind \in OpKinds /\ queue[k].of \in Tickets
           /\ queue[k].result \in 0..(MaxRows + 1)
           /\ (queue[k].kind = "reserve" => queue[k].result \in 0..MaxRows)
BY DEF QueueType, QueuedOp, Op

LEMMA EffectType ==
    ASSUME ServerType, NEW op, op.of \in Tickets, Accepts(op), Effect(op) PROVE ServerType'
<1>0. row \in [Rows -> Row] /\ applied \in [Tickets -> Nat]
  BY DEF ServerType
<1>1. CASE op.result # 0
  BY <1>0, <1>1 DEF Effect, server, ServerType
<1>2. CASE op.result = 0
  <2>1. \/ UNCHANGED row \/ (MayReserve(op.of) /\ row' = Reserved(op.of))
        \/ row' = Sold(op.of, ReplayRow(op)) \/ row' = Cancelled(op.of, ReplayRow(op))
    BY <1>2 DEF Effect, Accepts
  <2>2. Served(op.of) \/ UNCHANGED applied
    BY <1>2 DEF Effect
  <2> QED
    BY <2>1, <2>2, RowsType, AppliedType DEF ServerType
<1> QED
  BY <1>1, <1>2

LEMMA ServerTypeStep == ASSUME TInv, [Next]_vars PROVE ServerType'
<1>0. ServerType
  BY DEF TInv
<1>1. CASE \E i \in Tickets : Serve(i)
  <2> PICK i \in Tickets : Serve(i)
    BY <1>1
  <2>1. \E r : UNCHANGED row \/ (MayReserve(i) /\ row' = Reserved(i)) \/ row' = Sold(i, r)
    BY DEF Serve, ReserveOnline, SellOnline, RefreshRead, Refreshed, MemoSent, server
  <2>2. Served(i) \/ UNCHANGED applied
    BY DEF Serve, ReserveOnline, SellOnline, RefreshRead, Refreshed, MemoSent, server
  <2> QED
    BY <1>0, <2>1, <2>2, RowsType, AppliedType DEF ServerType
<1>2. CASE Replay
  <2> PICK k \in Heads : ReplaySucceeds(k) \/ ReplayUnanswered(k) \/ ReplayRefused(k)
    BY <1>2 DEF Replay
  <2> PICK op : op = queue[k]
    OBVIOUS
  <2>1. op.of \in Tickets
    BY OpsAreTyped DEF TInv, Heads
  <2>2. UNCHANGED server \/ (Accepts(op) /\ Effect(op))
    BY DEF ReplaySucceeds, ReplayUnanswered, ReplayRefused
  <2>3. CASE UNCHANGED server
    BY <1>0, <2>3 DEF server, ServerType
  <2> QED
    BY <1>0, <2>1, <2>2, <2>3, EffectType
<1>3. CASE UNCHANGED server
  BY <1>0, <1>3 DEF server, ServerType
<1>4. ASSUME ~(\E i \in Tickets : Serve(i)), ~Replay PROVE UNCHANGED server
  <2>1. CASE \/ AddToCart \/ ChangeType \/ RemoveLine
             \/ AddLegacy \/ Audit \/ Probe \/ HydrateRead \/ HydrateApply \/ HydrateFails \/ Reload
             \/ ReplayStart \/ ReplayStop \/ UNCHANGED vars
    BY <2>1 DEF AddToCart, ChangeType, RemoveLine, AddLegacy, Audit, Probe, HydrateRead, HydrateApply,
                HydrateFails, Reload, ReplayStart, ReplayStop, vars, server
  <2>2. CASE \E i \in Tickets :
                \/ \E customer \in Customers : CompleteOnline(i, customer) \/ CompleteOffline(i, customer)
                \/ \E e \in listed : Pickup(i, e) \/ PickupFromDetails(i, e) \/ CancelReservation(i, e)
                \/ Memo(i)
    BY <2>2 DEF CompleteOnline, CompleteOffline, Pickup, PickupFromDetails, CancelReservation, Memo
  <2> QED
    BY <1>4, <2>1, <2>2 DEF Next
<1> QED
  BY <1>1, <1>2, <1>3, <1>4

-----------------------------------------------------------------------------
(* ... and the queue.                                                       *)
LEMMA ReplayRowType ==
    ASSUME TInv, NEW op, op.of \in Tickets PROVE ReplayRow(op) \in 0..MaxRows
<1> PICK e : e = ticket[op.of].cart.link
  OBVIOUS
<1>1. e \in Links \cup {NoEntry}
  BY DEF TInv, TicketType, LinkedTicket, LinkedCart
<1>2. e.side = "local" => cycle.map[e.n] \in 0..MaxRows
  <2>1. Tickets \subseteq Numbers /\ cycle.map \in Maps
    BY BoundsAssumption DEF Tickets, Numbers, TInv, QueueType
  <2> QED
    BY <1>1, <2>1, LinksAreEntries DEF Maps
<1>3. e.side = "server" => e.n \in 0..MaxRows
  BY <1>1, LinksAreEntries, BoundsAssumption DEF Rows
<1>4. 0 \in 0..MaxRows
  BY BoundsAssumption
<1> QED
  BY <1>2, <1>3, <1>4 DEF ReplayRow

LEMMA ResultType ==
    ASSUME TInv, NEW op \in QueuedOp, Accepts(op)
    PROVE  /\ Result(op) \in 1..(MaxRows + 1)
           /\ op.kind = "reserve" => Result(op) \in Rows
<1>0. /\ op.of \in Tickets /\ op.kind \in OpKinds /\ op.result \in 0..(MaxRows + 1)
      /\ op.kind = "reserve" => op.result \in 0..MaxRows
  BY DEF QueuedOp, Op
<1>1. CASE op.result # 0
  BY <1>0, <1>1, BoundsAssumption DEF Result, Rows
<1>2. CASE op.result = 0
  <2>1. CASE op.kind = "reserve"
    <3>1. MayReserve(op.of)
      BY <1>2, <2>1 DEF Accepts
    <3>2. NextRow \in Rows /\ Result(op) = NextRow
      BY <1>2, <2>1, <3>1 DEF Result, MayReserve, NextRow
    <3> QED
      BY <3>2, BoundsAssumption DEF Rows
  <2>2. CASE op.kind \in {"sell", "cancel"}
    <3>1. Result(op) = ReplayRow(op) + 1
      BY <1>2, <2>2 DEF Result
    <3> QED
      BY <1>0, <2>2, <3>1, ReplayRowType, BoundsAssumption
  <2>3. CASE op.kind \notin {"reserve", "sell", "cancel"}
    <3>1. Result(op) = 1
      BY <1>2, <2>3 DEF Result
    <3> QED
      BY <2>3, <3>1, BoundsAssumption
  <2> QED
    BY <2>1, <2>2, <2>3
<1> QED
  BY <1>1, <1>2

LEMMA NewOpType ==
    ASSUME NEW q \in Seq(QueuedOp), NEW kind \in OpKinds, NEW i \in Tickets, NEW t
    PROVE  NewOp(q, kind, i, t) \in QueuedOp
<1>1. Ids(q) \subseteq OpId
  BY DEF Ids, Id, OpId, QueuedOp, Op
<1>2. Needs(q, i, t) \subseteq OpId
  BY <1>1 DEF Needs, OpId, OpKinds
<1> DEFINE no == FALSE
           nothing == {}
<1> PICK needs : needs = IF kind \in {"student", "memo"} THEN nothing ELSE Needs(q, i, t)
  OBVIOUS
<1>3. needs \in SUBSET OpId /\ no \in BOOLEAN
  BY <1>2
<1>4. NewOp(q, kind, i, t) = [kind |-> kind, of |-> i, needs |-> needs, later |-> no, dead |-> no, result |-> 0]
  BY DEF NewOp
<1> HIDE DEF no, nothing
<1> QED
  BY <1>3, <1>4, BoundsAssumption DEF QueuedOp, Op

LEMMA EnqueueType ==
    ASSUME QueueType, NEW i \in Tickets, NEW t, NEW kinds PROVE Enqueue(i, t, kinds) \in Seq(QueuedOp)
<1> DEFINE With(s, kind) == IF kind \in kinds THEN Append(s, NewOp(s, kind, i, t)) ELSE s
<1>1. \A s \in Seq(QueuedOp), kind \in OpKinds : With(s, kind) \in Seq(QueuedOp)
  BY NewOpType
<1>2. Enqueue(i, t, kinds) = With(With(With(With(queue, "student"), "reserve"), "sell"), "memo")
  BY DEF Enqueue
<1> HIDE DEF With
<1> QED
  BY <1>1, <1>2 DEF QueueType, OpKinds

LEMMA RemoveType ==
    ASSUME NEW S, NEW q \in Seq(S), NEW k \in DOMAIN q PROVE RemoveAt(q, k) \in Seq(S)
<1>1. SubSeq(q, 1, k - 1) \in Seq(S) /\ SubSeq(q, k + 1, Len(q)) \in Seq(S)
  <2>1. \A j \in 1..(k - 1) : q[j] \in S
    OBVIOUS
  <2>2. \A j \in (k + 1)..Len(q) : q[j] \in S
    OBVIOUS
  <2> QED
    BY <2>1, <2>2, SubSeqProperties
<1> QED
  BY <1>1, ConcatProperties DEF RemoveAt

LEMMA QueueReplayType == ASSUME TInv, Replay PROVE queue' \in Seq(QueuedOp) /\ mapped' \in Maps
<1> PICK k \in Heads : ReplaySucceeds(k) \/ ReplayUnanswered(k) \/ ReplayRefused(k)
  BY DEF Replay
<1> PICK op : op = queue[k]
  OBVIOUS
<1>1. k \in DOMAIN queue /\ op \in QueuedOp /\ queue \in Seq(QueuedOp) /\ mapped \in Maps
  BY OpsAreTyped DEF TInv, QueueType, Heads
<1>2. op \in Op /\ (op.kind = "reserve" => op.result \in 0..MaxRows)
  BY <1>1 DEF QueuedOp
<1> DEFINE no == FALSE
           yes == TRUE
<1>3. no \in BOOLEAN /\ yes \in BOOLEAN
  OBVIOUS
<1>4. ASSUME NEW e \in QueuedOp, queue' = [queue EXCEPT ![k] = e] PROVE queue' \in Seq(QueuedOp)
  BY <1>1, <1>4
<1>5. CASE ReplaySucceeds(k)
  <2>1. queue' \in Seq(QueuedOp)
    BY <1>1, <1>5, RemoveType DEF ReplaySucceeds
  <2>2. op.kind = "reserve" => Result(op) \in 0..MaxRows
    BY <1>1, <1>5, ResultType, BoundsAssumption DEF ReplaySucceeds, Rows
  <2>3. mapped' = mapped \/ (op.kind = "reserve" /\ mapped' = [mapped EXCEPT ![ticket[op.of].number] = Result(op)])
    BY <1>5 DEF ReplaySucceeds
  <2>4. mapped' \in Maps
    BY <1>1, <2>2, <2>3 DEF Maps
  <2> QED
    BY <2>1, <2>4
<1>6. CASE ReplayUnanswered(k)
  <2>1. CASE Accepts(op) /\ queue' = [queue EXCEPT ![k].later = TRUE, ![k].result = Result(op)]
    <3>1. Result(op) \in 0..(MaxRows + 1) /\ (op.kind = "reserve" => Result(op) \in 0..MaxRows)
      BY <1>1, <2>1, ResultType, BoundsAssumption DEF Rows
    <3> PICK w : w = Result(op)
      OBVIOUS
    <3> PICK e : e = [op EXCEPT !.later = yes, !.result = w]
      OBVIOUS
    <3>2. queue' = [queue EXCEPT ![k] = e]
      BY <1>1, <2>1
    <3> HIDE DEF yes
    <3>3. e \in Op /\ e.kind = op.kind /\ e.result = w
      BY <1>2, <1>3, <3>1 DEF Op
    <3>4. e \in QueuedOp
      BY <3>1, <3>3 DEF QueuedOp
    <3> QED
      BY <1>1, <1>4, <1>6, <3>2, <3>4 DEF ReplayUnanswered
  <2>2. CASE queue' = [queue EXCEPT ![k].later = TRUE]
    <3> PICK e : e = [op EXCEPT !.later = yes]
      OBVIOUS
    <3>2. queue' = [queue EXCEPT ![k] = e]
      BY <1>1, <2>2
    <3> HIDE DEF yes
    <3>3. e \in Op /\ e.kind = op.kind /\ e.result = op.result
      BY <1>2, <1>3 DEF Op
    <3>4. e \in QueuedOp
      BY <1>2, <3>3 DEF QueuedOp
    <3> QED
      BY <1>1, <1>4, <1>6, <3>2, <3>4 DEF ReplayUnanswered
  <2> QED
    BY <1>6, <2>1, <2>2 DEF ReplayUnanswered
<1>7. CASE ReplayRefused(k)
  <2> PICK e : e = [op EXCEPT !.dead = yes, !.later = no]
    OBVIOUS
  <2>1. queue' = [queue EXCEPT ![k] = e] /\ UNCHANGED mapped
    BY <1>1, <1>7 DEF ReplayRefused
  <2> HIDE DEF yes, no
  <2>2. e \in Op /\ e.kind = op.kind /\ e.result = op.result
    BY <1>2, <1>3 DEF Op
  <2>3. e \in QueuedOp
    BY <1>2, <2>2 DEF QueuedOp
  <2> QED
    BY <1>1, <1>4, <2>1, <2>3
<1> QED
  BY <1>5, <1>6, <1>7

LEMMA CancelType ==
    ASSUME TInv, NEW i \in Tickets, NEW e, CancelReservation(i, e) PROVE queue' \in Seq(QueuedOp)
<1> DEFINE t == [NewTicket("cancel", Customer(e.from), Linked(e)) EXCEPT !.pc = "done"]
           same == {k \in DOMAIN queue :
                       queue[k].kind = "cancel" /\ SameId(ticket[queue[k].of].cart.link, e)}
           others == IF same = {} THEN queue ELSE RemoveAt(queue, CHOOSE k \in same : TRUE)
<1>1. queue' = Append(others, NewOp(queue, "cancel", i, t)) /\ same \subseteq DOMAIN queue
  BY DEF CancelReservation
<1>2. queue \in Seq(QueuedOp)
  BY DEF TInv, QueueType
<1> HIDE DEF t, same
<1>3. others \in Seq(QueuedOp)
  BY <1>1, <1>2, RemoveType
<1>4. NewOp(queue, "cancel", i, t) \in QueuedOp
  BY <1>2, NewOpType DEF OpKinds
<1> HIDE DEF others
<1> QED
  BY <1>1, <1>3, <1>4

LEMMA QueueTypeStep == ASSUME TInv, [Next]_vars PROVE QueueType'
<1>0. queue \in Seq(QueuedOp) /\ mapped \in Maps /\ cycle \in [on : BOOLEAN, map : Maps] /\ QueueType
  BY DEF TInv, QueueType
<1>1. cycle' \in [on : BOOLEAN, map : Maps]
  <2> DEFINE no == FALSE
             yes == TRUE
             C == [on : BOOLEAN, map : Maps]
  <2>1. NoMap \in Maps
    BY BoundsAssumption DEF NoMap, Maps
  <2>2. NoCycle = [on |-> no, map |-> NoMap] /\ no \in BOOLEAN /\ yes \in BOOLEAN
    BY DEF NoCycle
  <2>3. cycle' = cycle \/ cycle' = NoCycle \/ cycle' = [on |-> yes, map |-> mapped]
    <3>1. CASE \/ AddToCart \/ ChangeType \/ RemoveLine
               \/ AddLegacy \/ Audit \/ Probe \/ HydrateRead \/ HydrateApply \/ HydrateFails \/ Reload
               \/ ReplayStart \/ ReplayStop \/ Replay \/ UNCHANGED vars
      BY <3>1 DEF AddToCart, ChangeType, RemoveLine, AddLegacy, Audit, Probe, HydrateRead, HydrateApply,
                  HydrateFails, Reload, ReplayStart, ReplayStop, Replay, ReplaySucceeds, ReplayUnanswered,
                  ReplayRefused, vars
    <3>2. CASE \E i \in Tickets :
                  \/ \E customer \in Customers : CompleteOnline(i, customer) \/ CompleteOffline(i, customer)
                  \/ \E e \in listed : Pickup(i, e) \/ PickupFromDetails(i, e) \/ CancelReservation(i, e)
                  \/ Memo(i)
      BY <3>2 DEF CompleteOnline, CompleteOffline, Pickup, PickupFromDetails, CancelReservation, Memo
    <3>3. CASE \E i \in Tickets : Serve(i)
      BY <3>3 DEF Serve, ReserveOnline, SellOnline, RefreshRead, Refreshed, MemoSent
    <3> QED
      BY <3>1, <3>2, <3>3 DEF Next
  <2> HIDE DEF no, yes
  <2> QED
    BY <1>0, <2>1, <2>2, <2>3
<1>2. CASE Replay
  BY <1>1, <1>2, QueueReplayType DEF QueueType
<1>3. CASE \E i \in Tickets :
              \/ \E customer \in Customers : CompleteOffline(i, customer)
              \/ \E e \in listed : Pickup(i, e) \/ PickupFromDetails(i, e) \/ CancelReservation(i, e)
              \/ Memo(i)
  <2> PICK i \in Tickets : \/ \E customer \in Customers : CompleteOffline(i, customer)
                           \/ \E e \in listed : Pickup(i, e) \/ PickupFromDetails(i, e) \/ CancelReservation(i, e)
                           \/ Memo(i)
    BY <1>3
  <2>1. UNCHANGED mapped
    BY DEF CompleteOffline, Pickup, PickupFromDetails, CancelReservation, Memo
  <2>2. \/ UNCHANGED queue \/ \E t, kinds : queue' = Enqueue(i, t, kinds)
        \/ \E e \in listed : CancelReservation(i, e)
    BY DEF CompleteOffline, Pickup, PickupFromDetails, RecordOffline, Memo
  <2> QED
    BY <1>0, <1>1, <2>1, <2>2, EnqueueType, CancelType DEF QueueType
<1>4. CASE \E i \in Tickets : ReserveOnline(i) \/ SellOnline(i) \/ MemoSent(i)
  <2> PICK i \in Tickets : ReserveOnline(i) \/ SellOnline(i) \/ MemoSent(i)
    BY <1>4
  <2>1. UNCHANGED mapped
    BY DEF ReserveOnline, SellOnline, MemoSent
  <2>2. UNCHANGED queue \/ \E t, kinds : queue' = Enqueue(i, t, kinds)
    BY DEF ReserveOnline, SellOnline, MemoSent, FallBack, RecordOffline
  <2> QED
    BY <1>0, <1>1, <2>1, <2>2, EnqueueType DEF QueueType
<1>5. CASE \/ AddToCart \/ ChangeType \/ RemoveLine \/ AddLegacy \/ Audit
           \/ \E i \in Tickets : \/ \E customer \in Customers : CompleteOnline(i, customer)
                                 \/ RefreshRead(i) \/ Refreshed(i)
           \/ Probe \/ HydrateRead \/ HydrateApply \/ HydrateFails \/ Reload
           \/ ReplayStart \/ ReplayStop \/ UNCHANGED vars
  <2>1. UNCHANGED <<queue, mapped>>
    BY <1>5 DEF AddToCart, ChangeType, RemoveLine, AddLegacy, Audit, CompleteOnline, RefreshRead, Refreshed,
                Probe, HydrateRead, HydrateApply, HydrateFails, Reload, ReplayStart, ReplayStop, vars
  <2> QED
    BY <1>0, <1>1, <2>1 DEF QueueType
<1> QED
  BY <1>2, <1>3, <1>4, <1>5 DEF Next, Serve

-----------------------------------------------------------------------------
LEMMA TypeStep == ASSUME TInv, [Next]_vars PROVE TInv'
BY PageTypeStep, TicketTypeStep, QueueTypeStep, ServerTypeStep, CountTypeStep, BoundTypeStep DEF TInv

LEMMA BlankTicket ==
    /\ NoTicket.kind = "none" /\ NoTicket.pc = "none" /\ ~NoTicket.recorded
    /\ NoTicket.number = 1 /\ NoTicket.cart = EmptyCart /\ NoTicket.customer = "nobody" /\ NoTicket.seen = {}
    /\ Tickets # {} => NoTicket \in LinkedTicket
<1> DEFINE nothing == {}
           no == FALSE
<1>1. NoTicket = [kind |-> "none", pc |-> "none", number |-> 1, customer |-> "nobody",
                  cart |-> EmptyCart, recorded |-> no, seen |-> nothing]
  BY DEF NoTicket
<1>2. no \in BOOLEAN /\ nothing \in SUBSET Links /\ (Tickets # {} => 1 \in Tickets)
      /\ "none" \in Kinds /\ "none" \in Pc /\ "nobody" \in Customers /\ EmptyCart \in LinkedCart
  BY BoundsAssumption, CartsAreLinked DEF Tickets, Kinds, Pc, Customers
<1> HIDE DEF nothing, no
<1>3. Tickets # {} => NoTicket \in LinkedTicket
  BY <1>1, <1>2 DEF LinkedTicket
<1>4. /\ NoTicket.kind = "none" /\ NoTicket.pc = "none" /\ NoTicket.recorded = no
      /\ NoTicket.number = 1 /\ NoTicket.cart = EmptyCart /\ NoTicket.customer = "nobody" /\ NoTicket.seen = nothing
  BY <1>1
<1> QED
  BY <1>3, <1>4 DEF no, nothing

LEMMA TypeInit == ASSUME Init PROVE TInv
<1>1. PageType
  <2> DEFINE e == [side |-> "server", n |-> 1, from |-> 0]
             no == FALSE
             yes == TRUE
             nothing == {}
  <2>1. listed = {e} /\ online = no
    BY DEF Init
  <2>2. e \in Links
    BY BoundsAssumption DEF Links, Rows
  <2> HIDE DEF e
  <2>3. cart = EmptyCart \/ cart = Linked(e)
    BY <2>1 DEF Init, Linked
  <2>4. cart \in LinkedCart
    BY <2>2, <2>3, CartsAreLinked
  <2>5. hydration = [pc |-> "none", seen |-> nothing] /\ nothing \in SUBSET Links /\ no \in BOOLEAN
    BY DEF Init, NoHydration
  <2> HIDE DEF no, nothing
  <2>6. hydration \in [pc : {"none", "start", "reading"}, seen : SUBSET Links]
    BY <2>5
  <2> QED
    BY <2>1, <2>2, <2>4, <2>5, <2>6 DEF PageType
<1>2. TicketType
  BY BlankTicket DEF Init, TicketType
<1>3. QueueType
  <2> DEFINE no == FALSE
  <2>1. NoMap \in Maps /\ no \in BOOLEAN
    BY BoundsAssumption DEF NoMap, Maps
  <2>2. cycle = [on |-> no, map |-> NoMap] /\ mapped = NoMap /\ queue = <<>>
    BY DEF Init, NoCycle
  <2> HIDE DEF no
  <2> QED
    BY <2>1, <2>2 DEF QueueType
<1>4. ServerType
  <2>1. row = [r \in Rows |-> IF r = 1 THEN [NoRow EXCEPT !.state = "pending"] ELSE NoRow]
    BY DEF Init
  <2>2. NoRow \in Row /\ [NoRow EXCEPT !.state = "pending"] \in Row
    BY BoundsAssumption DEF NoRow, Row
  <2> QED
    BY <2>1, <2>2 DEF Init, ServerType
<1>5. CountType
  <2>1. \A i \in Tickets : ~UnderWay(i)
    BY BlankTicket DEF Init, UnderWay
  <2>2. Spenders = {}
    BY <2>1 DEF Spenders
  <2>3. Cardinality(Spenders) = 0
    BY <2>2, FS_EmptySet
  <2>4. counter = 1 /\ used = 0
    BY DEF Init
  <2> QED
    BY <2>1, <2>3, <2>4, BoundsAssumption DEF CountType
<1>6. BoundType
  <2>1. doubted \subseteq Tickets /\ clash \in BOOLEAN
    BY DEF Init
  <2>2. edits \in 0..MaxEdits /\ faults \in 0..MaxFaults
    BY BoundsAssumption DEF Init
  <2> QED
    BY <2>1, <2>2 DEF BoundType
<1> QED
  BY <1>1, <1>2, <1>3, <1>4, <1>5, <1>6 DEF TInv

(* Every variable of the till keeps its type: the counter is never raised    *)
(* past the number of tickets, since a sale that is under way has yet to     *)
(* spend its number, and every line is linked to a row or to a ticket.       *)
THEOREM TypeTheorem == Spec => []TypeOK
<1>1. Init => TInv
  BY TypeInit
<1>2. TInv /\ [Next]_vars => TInv'
  BY TypeStep
<1>3. TInv => TypeOK
  BY TypesSuffice
<1> QED
  BY <1>1, <1>2, <1>3, PTL DEF Spec

-----------------------------------------------------------------------------
(* What a step leaves of the tickets: those that have begun keep what their  *)
(* click has given them, and the others are blank.                          *)
Keeps(i) ==
    /\ ticket'[i].kind = ticket[i].kind /\ ticket'[i].number = ticket[i].number
    /\ ticket'[i].customer = ticket[i].customer /\ ticket'[i].cart = ticket[i].cart
    /\ ticket[i].recorded => ticket'[i].recorded

Blank == \A i \in Tickets : i > used => ticket[i] = NoTicket

MemosOnly == \A i \in Tickets : At(i, "memo") => ticket[i].kind = "memo"

LEMMA TicketStep ==
    ASSUME TInv, [Next]_vars
    PROVE  \/ UNCHANGED used /\ \E i \in Tickets :
                  Moves(i) /\ \A j \in Tickets \ {i} : ticket'[j] = ticket[j]
           \/ \E i \in Tickets : Begins(i) /\ \A j \in Tickets \ {i} : ticket'[j] = ticket[j]
           \/ UNCHANGED <<used, ticket>>
           \/ UNCHANGED used /\ Reload
<1>1. CASE \E i \in Tickets :
            \/ \E customer \in Customers : CompleteOnline(i, customer) \/ CompleteOffline(i, customer)
            \/ \E e \in listed : Pickup(i, e) \/ PickupFromDetails(i, e) \/ CancelReservation(i, e)
            \/ Memo(i)
  BY <1>1, ClickBegins DEF Begins, Marks
<1>2. CASE \E i \in Tickets : Serve(i)
  <2> PICK i \in Tickets : Serve(i)
    BY <1>2
  <2>1. Moves(i)
    BY ServeMoves
  <2>2. UNCHANGED used
    BY DEF Serve, ReserveOnline, SellOnline, RefreshRead, Refreshed, MemoSent
  <2> QED
    BY <2>1, <2>2 DEF Moves, Marks
<1>3. CASE Reload
  BY <1>3 DEF Reload
<1>4. CASE \/ AddToCart \/ ChangeType \/ RemoveLine \/ AddLegacy \/ Audit
           \/ Probe \/ HydrateRead \/ HydrateApply \/ HydrateFails
           \/ ReplayStart \/ ReplayStop \/ Replay \/ UNCHANGED vars
  BY <1>4 DEF AddToCart, ChangeType, RemoveLine, AddLegacy, Audit, Probe, HydrateRead, HydrateApply,
              HydrateFails, ReplayStart, ReplayStop, Replay, vars
<1> QED
  BY <1>1, <1>2, <1>3, <1>4 DEF Next

LEMMA MovesKeeps == ASSUME NEW i \in Tickets, Moves(i) PROVE Keeps(i)
BY DEF Moves, Marks, Keeps

LEMMA StepKeeps ==
    ASSUME TInv, [Next]_vars, NEW i \in Tickets, i <= used
    PROVE  Keeps(i) /\ used <= used'
<1>0. used \in Nat /\ Shape
  BY TypeShape DEF TInv, CountType
<1>1. CASE UNCHANGED used /\ \E j \in Tickets :
               Moves(j) /\ \A k \in Tickets \ {j} : ticket'[k] = ticket[k]
  BY <1>0, <1>1, MovesKeeps DEF Keeps
<1>2. CASE \E j \in Tickets : Begins(j) /\ \A k \in Tickets \ {j} : ticket'[k] = ticket[k]
  <2> PICK j \in Tickets : Begins(j) /\ \A k \in Tickets \ {j} : ticket'[k] = ticket[k]
    BY <1>2
  <2>1. j = used + 1 /\ used' = used + 1
    BY DEF Begins, Use
  <2>2. i # j
    BY <1>0, <2>1 DEF Tickets
  <2> QED
    BY <1>0, <2>1, <2>2 DEF Keeps
<1>3. CASE UNCHANGED <<used, ticket>>
  BY <1>0, <1>3 DEF Keeps
<1>4. CASE UNCHANGED used /\ Reload
  BY <1>0, <1>4, ReloadTicket DEF Keeps
<1> QED
  BY <1>1, <1>2, <1>3, <1>4, TicketStep

LEMMA BlankStep == ASSUME TInv, Blank, [Next]_vars PROVE Blank'
<1>0. used \in Nat /\ Shape
  BY TypeShape DEF TInv, CountType
<1>1. CASE UNCHANGED used /\ \E j \in Tickets :
               Moves(j) /\ \A k \in Tickets \ {j} : ticket'[k] = ticket[k]
  <2> PICK j \in Tickets : Moves(j) /\ \A k \in Tickets \ {j} : ticket'[k] = ticket[k]
    BY <1>1
  <2>1. ticket[j].pc # "none"
    BY DEF Moves
  <2>2. ~(j > used)
    BY <2>1, BlankTicket DEF Blank
  <2> QED
    BY <1>1, <2>2 DEF Blank
<1>2. CASE \E j \in Tickets : Begins(j) /\ \A k \in Tickets \ {j} : ticket'[k] = ticket[k]
  <2> PICK j \in Tickets : Begins(j) /\ \A k \in Tickets \ {j} : ticket'[k] = ticket[k]
    BY <1>2
  <2>1. j = used + 1 /\ used' = j
    BY DEF Begins, Use
  <2>2. ASSUME NEW i \in Tickets, i > used' PROVE i # j /\ i > used
    BY <1>0, <2>1, <2>2 DEF Tickets
  <2> QED
    BY <2>2 DEF Blank
<1>3. CASE UNCHANGED <<used, ticket>>
  BY <1>3 DEF Blank
<1>4. CASE UNCHANGED used /\ Reload
  <2>1. ASSUME NEW i \in Tickets, i > used PROVE ticket'[i] = NoTicket
    <3>1. ticket[i] = NoTicket /\ ticket[i].pc \notin {"reserve", "sell", "memo", "refresh", "reading"}
      BY <2>1, BlankTicket DEF Blank
    <3> QED
      BY <1>4, <3>1 DEF Reload
  <2> QED
    BY <1>4, <2>1 DEF Blank
<1> QED
  BY <1>1, <1>2, <1>3, <1>4, TicketStep

LEMMA MemosStep == ASSUME TInv, MemosOnly, [Next]_vars PROVE MemosOnly'
<1>1. CASE \E j \in Tickets : Moves(j) /\ \A k \in Tickets \ {j} : ticket'[k] = ticket[k]
  BY <1>1 DEF Moves, Marks, MemosOnly, At
<1>2. CASE \E j \in Tickets : Begins(j) /\ \A k \in Tickets \ {j} : ticket'[k] = ticket[k]
  BY <1>2 DEF Begins, Marks, MemosOnly, At
<1>3. CASE UNCHANGED ticket
  BY <1>3 DEF MemosOnly, At
<1>4. CASE Reload
  BY <1>4, ReloadTicket, TypeShape DEF MemosOnly, At
<1> QED
  BY <1>1, <1>2, <1>3, <1>4, TicketStep

-----------------------------------------------------------------------------
(* Where the links come from: every link that is known was fetched, or is    *)
(* that of a reservation the till has made and queued.                      *)
SeenLinks == UNION {ticket[i].seen : i \in Tickets}

TicketLinks == {ticket[i].cart.link : i \in Tickets}

Known == listed \cup hydration.seen \cup SeenLinks \cup {cart.link} \cup TicketLinks

\* A ticket that is recorded now, with its reservation in the queue.
Makes(i) ==
    /\ ticket'[i].recorded /\ ticket'[i].kind # "memo"
    /\ ticket'[i].cart.reserve /\ ticket'[i].customer # "nobody"
    /\ Queued("reserve", i)'
    /\ i <= used'

Origin(e) ==
    \/ e \in Known \cup Fetched \cup {NoEntry, Legacy}
    \/ \E i \in Tickets : Makes(i) /\ e = MadeHere(i, ticket'[i])

LEMMA KnownParts ==
    /\ cart.link \in Known /\ listed \subseteq Known /\ hydration.seen \subseteq Known
    /\ \A i \in Tickets : ticket[i].seen \subseteq Known /\ ticket[i].cart.link \in Known
<1>1. \A i \in Tickets : ticket[i].seen \subseteq SeenLinks /\ ticket[i].cart.link \in TicketLinks
  BY DEF SeenLinks, TicketLinks
<1> QED
  BY <1>1 DEF Known

LEMMA TicketOrigin ==
    ASSUME TInv, [Next]_vars, NEW i \in Tickets
    PROVE  /\ \A e \in ticket'[i].seen : Origin(e)
           /\ Origin(ticket'[i].cart.link)
<1>0. ticket[i].seen \subseteq Known /\ ticket[i].cart.link \in Known /\ cart.link \in Known /\ listed \subseteq Known
  BY KnownParts
<1>1. ticket'[i].seen \subseteq ticket[i].seen \cup Fetched
      /\ ticket'[i].cart.link \in {ticket[i].cart.link, cart.link, NoEntry} \cup listed
  <2>1. CASE UNCHANGED used /\ \E j \in Tickets :
                 Moves(j) /\ \A k \in Tickets \ {j} : ticket'[k] = ticket[k]
    BY <2>1 DEF Moves, Marks
  <2>2. CASE \E j \in Tickets : Begins(j) /\ \A k \in Tickets \ {j} : ticket'[k] = ticket[k]
    <3> PICK j \in Tickets : Begins(j) /\ \A k \in Tickets \ {j} : ticket'[k] = ticket[k]
      BY <2>2
    <3>1. CASE i = j
      BY <3>1 DEF Begins, Marks
    <3>2. CASE i # j
      BY <3>2
    <3> QED
      BY <3>1, <3>2
  <2>3. CASE UNCHANGED <<used, ticket>>
    BY <2>3
  <2>4. CASE UNCHANGED used /\ Reload
    <3>1. ticket'[i].cart = ticket[i].cart
      BY <2>4, TypeShape, ReloadTicket
    <3>2. ticket'[i].seen \subseteq ticket[i].seen
      <4>1. \A t \in LinkedTicket : [t EXCEPT !.pc = "gone", !.seen = {}].seen = {}
        BY DEF LinkedTicket
      <4> QED
        BY <2>4, <4>1 DEF Reload, TInv, TicketType
    <3> QED
      BY <3>1, <3>2
  <2> QED
    BY <2>1, <2>2, <2>3, <2>4, TicketStep
<1> QED
  BY <1>0, <1>1 DEF Origin

LEMMA CartOrigin == ASSUME TInv, [Next]_vars PROVE Origin(cart'.link)
<1>0. cart.link \in Known /\ listed \subseteq Known /\ EmptyCart.link = NoEntry /\ cart \in LinkedCart
  BY KnownParts, CartsAreLinked DEF TInv, PageType
<1>1. CASE AddToCart
  <2>1. \A c \in LinkedCart : /\ [c EXCEPT !.sale = TRUE].link = c.link
                              /\ [c EXCEPT !.reserve = TRUE].link = c.link
    BY DEF LinkedCart
  <2>2. CASE \E e \in listed : cart' = [cart EXCEPT !.sale = TRUE, !.link = IF cart.sale THEN @ ELSE e]
    <3> PICK e \in listed : cart' = [cart EXCEPT !.sale = TRUE, !.link = IF cart.sale THEN @ ELSE e]
      BY <2>2
    <3> PICK f : f = IF cart.sale THEN cart.link ELSE e
      OBVIOUS
    <3>1. cart' = [cart EXCEPT !.sale = TRUE, !.link = f]
      BY <1>0
    <3>2. cart'.link = f
      BY <1>0, <3>1 DEF LinkedCart
    <3> QED
      BY <1>0, <3>2 DEF Origin
  <2>3. CASE cart' = [cart EXCEPT !.sale = TRUE] \/ cart' = [cart EXCEPT !.reserve = TRUE]
    BY <1>0, <2>1, <2>3 DEF Origin
  <2> QED
    BY <1>1, <2>2, <2>3 DEF AddToCart
<1>2. CASE ChangeType \/ RemoveLine
  <2>1. \A c \in LinkedCart : /\ [c EXCEPT !.sale = TRUE, !.reserve = FALSE].link = c.link
                              /\ [c EXCEPT !.reserve = FALSE].link = c.link
                              /\ [c EXCEPT !.reserve = TRUE].link = c.link
                              /\ [c EXCEPT !.sale = FALSE, !.link = NoEntry].link = NoEntry
    BY DEF LinkedCart
  <2>2. cart'.link \in {cart.link, NoEntry}
    BY <1>0, <1>2, <2>1, CartsAreLinked DEF ChangeType, RemoveLine
  <2> QED
    BY <1>0, <2>2 DEF Origin
<1>3. CASE cart' = EmptyCart \/ cart' = cart
  BY <1>0, <1>3 DEF Origin
<1> QED
  BY <1>1, <1>2, <1>3, CartStep

\* A reservation that is listed is queued with it.
LEMMA RecordOrigin ==
    ASSUME TInv, KInv, NEW i \in Tickets, NEW t, NEW kinds, RecordOffline(i, t, kinds),
           t.cart.reserve /\ t.customer # "nobody" =>
               /\ "reserve" \in kinds /\ i <= used' /\ ticket'[i].recorded /\ ticket'[i].kind # "memo"
               /\ ticket'[i].cart = t.cart /\ ticket'[i].customer = t.customer /\ ticket'[i].number = t.number
    PROVE  \A e \in listed' : Origin(e)
<1> DEFINE made == IF t.cart.reserve /\ t.customer # "nobody" THEN {MadeHere(i, t)} ELSE {}
<1>1. listed' \subseteq listed \cup made /\ queue' = Enqueue(i, t, kinds)
  BY DEF RecordOffline, Without, MadeHere
<1>2. listed \subseteq Known
  BY KnownParts
<1>3. ASSUME t.cart.reserve, t.customer # "nobody" PROVE Makes(i) /\ MadeHere(i, t) = MadeHere(i, ticket'[i])
  <2>1. HasOp(queue', "reserve", i)
    BY <1>1, <1>3, EnqueueAdds DEF KInv
  <2>2. Queued("reserve", i)'
    BY <2>1 DEF HasOp, Queued, Ids, Elems, Id
  <2> QED
    BY <1>3, <2>2 DEF Makes, MadeHere
<1>4. \A e \in made : Origin(e)
  BY <1>3 DEF Origin
<1> HIDE DEF made
<1> QED
  BY <1>1, <1>2, <1>4 DEF Origin

LEMMA ListOrigin == ASSUME TInv, KInv, [Next]_vars PROVE \A e \in listed' : Origin(e)
<1>0. Shape /\ listed \subseteq Known /\ hydration.seen \subseteq Known
      /\ \A i \in Tickets : ticket[i].seen \subseteq Known
  BY KnownParts, TypeShape
<1>1. CASE \E i \in Tickets, customer \in Customers : CompleteOffline(i, customer)
  <2> PICK i \in Tickets, customer \in Customers : CompleteOffline(i, customer)
    BY <1>1
  <2> PICK t : t = [NewTicket("sale", customer, cart) EXCEPT !.pc = "done", !.recorded = TRUE]
    OBVIOUS
  <2> PICK kinds : kinds = Parts(t) \cup IF customer = "new" THEN {"student"} ELSE {}
    OBVIOUS
  <2>1. RecordOffline(i, t, kinds) /\ ticket' = [ticket EXCEPT ![i] = t] /\ i <= used'
    BY <1>0 DEF CompleteOffline, Use, Shape, Tickets
  <2>2. ticket' = [ticket EXCEPT ![i] = [NewTicket("sale", customer, cart) EXCEPT !.pc = "done", !.recorded = TRUE]]
    BY <2>1
  <2>3. Marks(i, "sale", "done", counter, TRUE, customer, cart)
    BY <2>2, <1>0, ClickMarks
  <2>4. ticket'[i] = t /\ ticket'[i].recorded /\ ticket'[i].kind # "memo"
    BY <2>1, <2>3, <1>0 DEF Marks, Shape
  <2>5. t.cart.reserve /\ t.customer # "nobody" => "reserve" \in kinds
    BY DEF Parts
  <2> QED
    BY <2>1, <2>4, <2>5, RecordOrigin
<1>2. CASE \E i \in Tickets, e \in listed : Pickup(i, e) \/ PickupFromDetails(i, e)
  <2> PICK i \in Tickets, e \in listed : Pickup(i, e) \/ PickupFromDetails(i, e)
    BY <1>2
  <2> DEFINE T(kind) == [NewTicket(kind, Customer(e.from), Linked(e)) EXCEPT !.pc = "done", !.recorded = TRUE]
  <2>1. \E kind, kinds : RecordOffline(i, T(kind), kinds) /\ ticket' = [ticket EXCEPT ![i] = T(kind)]
    BY DEF Pickup, PickupFromDetails
  <2> PICK kind, kinds : RecordOffline(i, T(kind), kinds) /\ ticket' = [ticket EXCEPT ![i] = T(kind)]
    BY <2>1
  <2> PICK t : t = T(kind)
    OBVIOUS
  <2>2. Marks(i, kind, "done", counter, TRUE, Customer(e.from), Linked(e))
    BY <1>0, ClickMarks
  <2>3. ticket'[i] = t
    BY <1>0 DEF Shape
  <2> HIDE DEF T
  <2>4. ~t.cart.reserve
    <3>1. t.cart = Linked(e)
      BY <2>2, <2>3 DEF Marks
    <3> QED
      BY <3>1, LinkedSale
  <2> QED
    BY <2>4, RecordOrigin
<1>3. CASE \E i \in Tickets : ReserveOnline(i) \/ SellOnline(i)
  <2> PICK i \in Tickets : ReserveOnline(i) \/ SellOnline(i)
    BY <1>3
  <2>0. UnderWay(i) /\ UNCHANGED used
    BY DEF ReserveOnline, SellOnline, At, UnderWay
  <2>1. UNCHANGED listed \/ FallBack(i)
    BY DEF ReserveOnline, SellOnline
  <2>2. CASE FallBack(i)
    <3>1. /\ RecordOffline(i, ticket[i], Parts(ticket[i]))
          /\ ticket' = [ticket EXCEPT ![i].pc = "refresh", ![i].recorded = TRUE]
      BY <2>2 DEF FallBack
    <3>2. Marks(i, ticket[i].kind, "refresh", ticket[i].number, TRUE, ticket[i].customer, ticket[i].cart)
      BY <3>1, <1>0, RecordMarks
    <3>3. ticket[i].kind # "memo" /\ i <= used'
      BY <2>0 DEF KInv, InTurn, TInv, CountType
    <3>4. ticket[i].cart.reserve /\ ticket[i].customer # "nobody" => "reserve" \in Parts(ticket[i])
      BY DEF Parts
    <3> QED
      BY <3>1, <3>2, <3>3, <3>4, RecordOrigin DEF Marks
  <2> QED
    BY <1>0, <2>1, <2>2 DEF Origin
<1>4. CASE \E i \in Tickets : RefreshRead(i) \/ Refreshed(i) \/ MemoSent(i)
  BY <1>0, <1>4 DEF RefreshRead, Refreshed, MemoSent, Origin
<1>5. CASE \E i \in Tickets : \/ \E customer \in Customers : CompleteOnline(i, customer)
                              \/ \E e \in listed : CancelReservation(i, e)
                              \/ Memo(i)
  <2>1. listed' \subseteq listed
    BY <1>5 DEF CompleteOnline, CancelReservation, Memo, Without
  <2> QED
    BY <1>0, <2>1 DEF Origin
<1>6. CASE \/ AddToCart \/ ChangeType \/ RemoveLine \/ AddLegacy \/ Audit
           \/ Probe \/ HydrateRead \/ HydrateApply \/ HydrateFails \/ Reload
           \/ ReplayStart \/ ReplayStop \/ Replay \/ UNCHANGED vars
  <2>1. listed' \subseteq listed \cup {Legacy} \cup hydration.seen
    BY <1>6 DEF AddToCart, ChangeType, RemoveLine, AddLegacy, Audit, Probe, HydrateRead, HydrateApply,
                HydrateFails, ReplayStart, ReplayStop, Replay, Reload, vars
  <2> QED
    BY <1>0, <2>1 DEF Origin
<1> QED
  BY <1>1, <1>2, <1>3, <1>4, <1>5, <1>6 DEF Next, Serve

LEMMA HydrationOrigin == ASSUME TInv, [Next]_vars PROVE \A e \in hydration'.seen : Origin(e)
<1>0. hydration.seen \subseteq Known
  BY KnownParts
<1>1. NoHydration.seen = {} /\ Hydrating.seen = {} /\ [pc |-> "reading", seen |-> Fetched].seen = Fetched
  BY DEF NoHydration, Hydrating
<1>2. hydration' \in {hydration, NoHydration, Hydrating, [pc |-> "reading", seen |-> Fetched]}
  BY HydrationStep
<1> QED
  BY <1>0, <1>1, <1>2 DEF Origin

LEMMA KnownOrigin == ASSUME TInv, KInv, [Next]_vars PROVE \A e \in Known' : Origin(e)
BY TicketOrigin, CartOrigin, ListOrigin, HydrationOrigin DEF Known, SeenLinks, TicketLinks

-----------------------------------------------------------------------------
(* What a step leaves of the queue: an operation stays, maybe with the       *)
(* server's answer recorded, or it is answered and leaves, or it is a        *)
(* cancellation that another replaces; new ones come from what a ticket has  *)
(* recorded.                                                                *)
Alike(op, new) == new.kind = op.kind /\ new.of = op.of

Stays(op, new) ==
    /\ Alike(op, new)
    /\ new.result = op.result \/ (Accepts(op) /\ Effect(op) /\ new.result = Result(op))

Answered(op) ==
    /\ Accepts(op) /\ Effect(op)
    /\ mapped' = IF op.kind = "reserve"
                 THEN [mapped EXCEPT ![ticket[op.of].number] = Result(op)] ELSE mapped

\* Only a ticket that begins, or waits for the answer to its request, adds to the queue.
Sends(i) ==
    /\ Use(i) \/ (UNCHANGED used /\ ticket[i].pc \in {"reserve", "sell", "memo"})
    /\ ticket'[i].pc \notin {"reserve", "sell", "memo"}

Fresh(new) ==
    \E i \in Tickets :
        /\ Sends(i) /\ new.of = i /\ new.result = 0 /\ new.kind \in OpKinds
        /\ new.kind \in {"reserve", "sell"} => ticket'[i].recorded /\ ticket'[i].kind # "memo"
        /\ new.kind = "memo" => ticket'[i].kind = "memo"

QueueGoesOn ==
    /\ \A new \in Elems(queue') : (\E op \in Elems(queue) : Stays(op, new)) \/ Fresh(new)
    /\ \A op \in Elems(queue) :
           (\E new \in Elems(queue') : Stays(op, new)) \/ Answered(op) \/ op.kind = "cancel"

LEMMA OpsAreOps == ASSUME TInv PROVE IsSeq(queue) /\ \A op \in Elems(queue) : op \in QueuedOp /\ IsOp(op)
<1>1. queue \in Seq(QueuedOp)
  BY DEF TInv, QueueType
<1>2. \A op \in QueuedOp : IsOp(op)
  BY DEF QueuedOp, Op, IsOp
<1> QED
  BY <1>1, <1>2 DEF IsSeq, Elems

LEMMA SameGoesOn == ASSUME UNCHANGED queue PROVE QueueGoesOn
<1>1. Elems(queue') = Elems(queue)
  BY DEF Elems
<1>2. \A op \in Elems(queue) : Stays(op, op)
  BY DEF Stays, Alike
<1> QED
  BY <1>1, <1>2 DEF QueueGoesOn

\* Enqueue adds operations of the kinds it is given.
OnlyKind(q, s, kind, kinds) == \A op \in Elems(s) : op \in Elems(q) \/ (op.kind = kind /\ kind \in kinds)

LEMMA EnqueuedKind ==
    ASSUME NEW q, IsSeq(q), NEW kind, NEW kinds, NEW i, NEW t, NEW s,
           s = IF kind \in kinds THEN Append(q, NewOp(q, kind, i, t)) ELSE q
    PROVE  IsSeq(s) /\ OnlyKind(q, s, kind, kinds)
<1>1. CASE kind \in kinds
  <2> PICK op : op = NewOp(q, kind, i, t)
    OBVIOUS
  <2>1. op.kind = kind /\ s = Append(q, op)
    BY <1>1, NewIsOp
  <2>2. IsSeq(s) /\ Elems(s) = Elems(q) \cup {op}
    BY <2>1, AppendElems
  <2> QED
    BY <1>1, <2>1, <2>2 DEF OnlyKind
<1>2. CASE kind \notin kinds
  BY <1>2 DEF OnlyKind
<1> QED
  BY <1>1, <1>2

LEMMA EnqueueKinds ==
    ASSUME IsSeq(queue), NEW i, NEW t, NEW kinds, NEW q, q = Enqueue(i, t, kinds)
    PROVE  \A op \in Elems(q) :
               op \in Elems(queue) \/ op.kind \in kinds \cap {"student", "reserve", "sell", "memo"}
<1> DEFINE With(s, kind) == IF kind \in kinds THEN Append(s, NewOp(s, kind, i, t)) ELSE s
<1>a. PICK s1 : s1 = With(queue, "student")
  OBVIOUS
<1>b. PICK s2 : s2 = With(s1, "reserve")
  OBVIOUS
<1>c. PICK s3 : s3 = With(s2, "sell")
  OBVIOUS
<1>d. PICK s4 : s4 = With(s3, "memo")
  OBVIOUS
<1>0. q = s4
  BY <1>a, <1>b, <1>c, <1>d DEF Enqueue
<1>1. IsSeq(s1) /\ OnlyKind(queue, s1, "student", kinds)
  BY <1>a, EnqueuedKind
<1>2. IsSeq(s2) /\ OnlyKind(s1, s2, "reserve", kinds)
  BY <1>1, <1>b, EnqueuedKind
<1>3. IsSeq(s3) /\ OnlyKind(s2, s3, "sell", kinds)
  BY <1>2, <1>c, EnqueuedKind
<1>4. IsSeq(s4) /\ OnlyKind(s3, s4, "memo", kinds)
  BY <1>3, <1>d, EnqueuedKind
<1> HIDE DEF With
<1> QED
  BY <1>0, <1>1, <1>2, <1>3, <1>4 DEF OnlyKind

LEMMA EnqueueGoesOn ==
    ASSUME TInv, KInv, NEW i \in Tickets, Sends(i), NEW t, NEW kinds, queue' = Enqueue(i, t, kinds),
           kinds \cap {"reserve", "sell"} # {} => ticket'[i].recorded /\ ticket'[i].kind # "memo",
           "memo" \in kinds => ticket'[i].kind = "memo"
    PROVE  QueueGoesOn
<1>1. Added(queue, queue', i)
  BY EnqueueAdds DEF KInv
<1>2. \A op \in Elems(queue') : op \in Elems(queue) \/ op.kind \in kinds \cap {"student", "reserve", "sell", "memo"}
  BY EnqueueKinds DEF KInv, QueueShape
<1>3. \A op \in Elems(queue) : Stays(op, op)
  BY DEF Stays, Alike
<1>4. \A new \in Elems(queue') : new \in Elems(queue) \/ Fresh(new)
  BY <1>1, <1>2 DEF Added, Fresh, OpKinds
<1> QED
  BY <1>1, <1>3, <1>4 DEF QueueGoesOn, Added

\* The replay: the operation k is e from now on, or it is gone.
LEMMA ReplayCases ==
    ASSUME TInv, NEW k \in Heads, ReplaySucceeds(k) \/ ReplayUnanswered(k) \/ ReplayRefused(k)
    PROVE  \/ queue' = RemoveAt(queue, k) /\ Answered(queue[k])
           \/ \E e : queue' = [queue EXCEPT ![k] = e] /\ Stays(queue[k], e)
                     /\ UNCHANGED mapped
                     /\ (UNCHANGED server \/ (Accepts(queue[k]) /\ Effect(queue[k]) /\ e.result = Result(queue[k])))
<1> PICK op : op = queue[k]
  OBVIOUS
<1>1. k \in DOMAIN queue /\ op \in Elems(queue) /\ IsOp(op) /\ IsSeq(queue)
  BY OpsAreOps DEF Heads, Elems
<1>2. CASE ReplaySucceeds(k)
  BY <1>2 DEF ReplaySucceeds, Answered
<1>3. CASE ReplayUnanswered(k)
  <2>1. CASE /\ Accepts(op) /\ Effect(op)
             /\ queue' = [queue EXCEPT ![k].later = TRUE, ![k].result = Result(op)]
    <3> DEFINE yes == TRUE
    <3> PICK e : e = [op EXCEPT !.later = yes, !.result = Result(op)]
      OBVIOUS
    <3>1. queue' = [queue EXCEPT ![k] = e]
      BY <1>1, <2>1 DEF IsSeq
    <3> HIDE DEF yes
    <3>2. e = [kind |-> op.kind, of |-> op.of, needs |-> op.needs, later |-> yes,
               dead |-> op.dead, result |-> Result(op)]
      BY <1>1 DEF IsOp
    <3>3. Stays(op, e) /\ e.result = Result(op)
      BY <2>1, <3>2 DEF Stays, Alike
    <3> QED
      BY <1>3, <2>1, <3>1, <3>3 DEF ReplayUnanswered
  <2>2. CASE UNCHANGED server /\ queue' = [queue EXCEPT ![k].later = TRUE]
    <3> DEFINE yes == TRUE
    <3> PICK e : e = [op EXCEPT !.later = yes]
      OBVIOUS
    <3>1. queue' = [queue EXCEPT ![k] = e]
      BY <1>1, <2>2 DEF IsSeq
    <3> HIDE DEF yes
    <3>2. e = [kind |-> op.kind, of |-> op.of, needs |-> op.needs, later |-> yes,
               dead |-> op.dead, result |-> op.result]
      BY <1>1 DEF IsOp
    <3>3. Stays(op, e)
      BY <3>2 DEF Stays, Alike
    <3> QED
      BY <1>3, <2>2, <3>1, <3>3 DEF ReplayUnanswered
  <2> QED
    BY <1>3, <2>1, <2>2 DEF ReplayUnanswered
<1>4. CASE ReplayRefused(k)
  <2> DEFINE yes == TRUE
             no == FALSE
  <2> PICK e : e = [op EXCEPT !.dead = yes, !.later = no]
    OBVIOUS
  <2>1. queue' = [queue EXCEPT ![k] = e]
    BY <1>1, <1>4 DEF IsSeq, ReplayRefused
  <2> HIDE DEF yes, no
  <2>2. e = [kind |-> op.kind, of |-> op.of, needs |-> op.needs, later |-> no,
             dead |-> yes, result |-> op.result]
    BY <1>1 DEF IsOp
  <2>3. Stays(op, e)
    BY <2>2 DEF Stays, Alike
  <2> QED
    BY <1>4, <2>1, <2>3 DEF ReplayRefused
<1> QED
  BY <1>2, <1>3, <1>4

LEMMA ReplayGoesOn == ASSUME TInv, Replay PROVE QueueGoesOn
<1> PICK k \in Heads : ReplaySucceeds(k) \/ ReplayUnanswered(k) \/ ReplayRefused(k)
  BY DEF Replay
<1>0. k \in DOMAIN queue /\ IsSeq(queue) /\ queue[k] \in Elems(queue)
  BY OpsAreOps DEF Heads, Elems
<1>1. \A op \in Elems(queue) : Stays(op, op)
  BY DEF Stays, Alike
<1>2. CASE queue' = RemoveAt(queue, k) /\ Answered(queue[k])
  <2>1. /\ Elems(queue') \subseteq Elems(queue)
        /\ Elems(queue) \subseteq Elems(queue') \cup {queue[k]}
    BY <1>0, <1>2, RemoveElems
  <2> QED
    BY <1>1, <1>2, <2>1 DEF QueueGoesOn
<1>3. CASE \E e : queue' = [queue EXCEPT ![k] = e] /\ Stays(queue[k], e)
  <2> PICK e : queue' = [queue EXCEPT ![k] = e] /\ Stays(queue[k], e)
    BY <1>3
  <2>1. /\ Elems(queue') \subseteq Elems(queue) \cup {e}
        /\ Elems(queue) \subseteq Elems(queue') \cup {queue[k]} /\ e \in Elems(queue')
    BY <1>0, ReplaceElems
  <2> QED
    BY <1>0, <1>1, <2>1 DEF QueueGoesOn
<1> QED
  BY <1>2, <1>3, ReplayCases

LEMMA ClickGoesOn ==
    ASSUME TInv, KInv, NEW i \in Tickets,
           \/ \E customer \in Customers : CompleteOffline(i, customer)
           \/ \E e \in listed : Pickup(i, e) \/ PickupFromDetails(i, e)
    PROVE  QueueGoesOn
<1>0. Shape /\ Use(i)
  BY TypeShape DEF CompleteOffline, Pickup, PickupFromDetails
<1> DEFINE T(kind, customer, c) ==
               [NewTicket(kind, customer, c) EXCEPT !.pc = "done", !.recorded = TRUE]
<1>1. \E kind \in {"sale", "pickup", "modal"} : \E customer, c, t, kinds :
          /\ ticket' = [ticket EXCEPT ![i] = T(kind, customer, c)]
          /\ queue' = Enqueue(i, t, kinds) /\ "memo" \notin kinds
  <2>1. CASE \E customer \in Customers : CompleteOffline(i, customer)
    <3> PICK customer \in Customers : CompleteOffline(i, customer)
      BY <2>1
    <3> PICK t : t = T("sale", customer, cart)
      OBVIOUS
    <3> PICK kinds : kinds = Parts(t) \cup IF customer = "new" THEN {"student"} ELSE {}
      OBVIOUS
    <3>1. ticket' = [ticket EXCEPT ![i] = t] /\ queue' = Enqueue(i, t, kinds)
      BY DEF CompleteOffline, RecordOffline
    <3>2. "memo" \notin kinds
      BY DEF Parts
    <3>3. ticket' = [ticket EXCEPT ![i] = T("sale", customer, cart)]
      BY <3>1
    <3> HIDE DEF T
    <3> QED
      BY <3>1, <3>2, <3>3
  <2>2. CASE \E e \in listed : Pickup(i, e)
    <3> PICK e \in listed : Pickup(i, e)
      BY <2>2
    <3>1. /\ ticket' = [ticket EXCEPT ![i] = T("pickup", Customer(e.from), Linked(e))]
          /\ queue' = Enqueue(i, T("pickup", Customer(e.from), Linked(e)), {"sell"})
      BY DEF Pickup, RecordOffline
    <3>2. "memo" \notin {"sell"}
      OBVIOUS
    <3> HIDE DEF T
    <3> QED
      BY <3>1, <3>2
  <2>3. CASE \E e \in listed : PickupFromDetails(i, e)
    <3> PICK e \in listed : PickupFromDetails(i, e)
      BY <2>3
    <3>1. /\ ticket' = [ticket EXCEPT ![i] = T("modal", Customer(e.from), Linked(e))]
          /\ queue' = Enqueue(i, T("modal", Customer(e.from), Linked(e)), {})
      BY DEF PickupFromDetails, RecordOffline
    <3>2. "memo" \notin {}
      OBVIOUS
    <3> HIDE DEF T
    <3> QED
      BY <3>1, <3>2
  <2> QED
    BY <2>1, <2>2, <2>3
<1> PICK kind \in {"sale", "pickup", "modal"} : \E customer, c, t, kinds :
          /\ ticket' = [ticket EXCEPT ![i] = T(kind, customer, c)]
          /\ queue' = Enqueue(i, t, kinds) /\ "memo" \notin kinds
  BY <1>1
<1> PICK customer, c, t, kinds :
          /\ ticket' = [ticket EXCEPT ![i] = T(kind, customer, c)]
          /\ queue' = Enqueue(i, t, kinds) /\ "memo" \notin kinds
  OBVIOUS
<1>2. Marks(i, kind, "done", counter, TRUE, customer, c)
  BY <1>0, ClickMarks
<1> HIDE DEF T
<1>3. Sends(i) /\ ticket'[i].recorded /\ ticket'[i].kind # "memo"
  BY <1>0, <1>2 DEF Sends, Marks
<1> QED
  BY <1>3, EnqueueGoesOn

LEMMA CancelGoesOn == ASSUME TInv, NEW i \in Tickets, NEW e, CancelReservation(i, e) PROVE QueueGoesOn
<1>0. Shape /\ IsSeq(queue)
  BY TypeShape, OpsAreOps
<1> DEFINE t == [NewTicket("cancel", Customer(e.from), Linked(e)) EXCEPT !.pc = "done"]
           same == {k \in DOMAIN queue :
                       queue[k].kind = "cancel" /\ SameId(ticket[queue[k].of].cart.link, e)}
           others == IF same = {} THEN queue ELSE RemoveAt(queue, CHOOSE k \in same : TRUE)
<1>1. /\ ticket' = [ticket EXCEPT ![i] = t] /\ Use(i)
      /\ queue' = Append(others, NewOp(queue, "cancel", i, t))
      /\ \A k \in same : k \in DOMAIN queue /\ queue[k].kind = "cancel"
  BY DEF CancelReservation
<1>2. Marks(i, "cancel", "done", counter, FALSE, Customer(e.from), Linked(e))
  BY <1>1, <1>0, PlainClickMarks
<1> HIDE DEF t, same
<1>3. /\ IsSeq(others) /\ Elems(others) \subseteq Elems(queue)
      /\ \A op \in Elems(queue) : op \in Elems(others) \/ op.kind = "cancel"
  <2>1. CASE same = {}
    BY <2>1, <1>0
  <2>2. CASE same # {}
    <3> PICK k : k = CHOOSE l \in same : TRUE
      OBVIOUS
    <3>1. k \in DOMAIN queue /\ queue[k].kind = "cancel" /\ others = RemoveAt(queue, k)
      BY <2>2, <1>1
    <3>2. /\ IsSeq(others) /\ Elems(others) \subseteq Elems(queue)
          /\ Elems(queue) \subseteq Elems(others) \cup {queue[k]}
      BY <3>1, <1>0, RemoveElems
    <3> QED
      BY <3>1, <3>2
  <2> QED
    BY <2>1, <2>2
<1> HIDE DEF others
<1> PICK op : op = NewOp(queue, "cancel", i, t)
  OBVIOUS
<1>4. op.of = i /\ op.result = 0 /\ op.kind = "cancel"
  BY NewIsOp
<1>5. Elems(queue') = Elems(others) \cup {op}
  BY <1>1, <1>3, AppendElems
<1>6. Sends(i)
  BY <1>1, <1>2 DEF Sends, Marks
<1>7. Fresh(op)
  BY <1>4, <1>6 DEF Fresh, OpKinds
<1>8. \A o \in Elems(queue) : Stays(o, o)
  BY DEF Stays, Alike
<1> QED
  BY <1>3, <1>5, <1>7, <1>8 DEF QueueGoesOn

LEMMA MemoGoesOn == ASSUME TInv, KInv, NEW i \in Tickets, Memo(i) PROVE QueueGoesOn
<1>1. CASE online
  BY <1>1, SameGoesOn DEF Memo
<1>2. CASE ~online
  <2> PICK t : queue' = Enqueue(i, t, {"memo"})
    BY <1>2 DEF Memo
  <2>1. Use(i) /\ ticket' = [ticket EXCEPT ![i] =
            [[NewTicket("memo", "nobody", EmptyCart) EXCEPT !.recorded = TRUE] EXCEPT !.pc = "done"]]
    BY <1>2 DEF Memo
  <2>2. Marks(i, "memo", "done", counter, TRUE, "nobody", EmptyCart)
    BY <2>1, TypeShape, MemoMarks
  <2>3. Sends(i) /\ ticket'[i].kind = "memo" /\ {"memo"} \cap {"reserve", "sell"} = {}
    BY <2>1, <2>2 DEF Sends, Marks
  <2> QED
    BY <2>3, EnqueueGoesOn
<1> QED
  BY <1>1, <1>2

LEMMA ServeGoesOn == ASSUME TInv, KInv, MemosOnly, NEW i \in Tickets, Serve(i) PROVE QueueGoesOn
<1>0. Shape
  BY TypeShape
<1>1. CASE UNCHANGED queue
  BY <1>1, SameGoesOn
<1>2. CASE (ReserveOnline(i) \/ SellOnline(i)) /\ FallBack(i)
  <2>1. /\ ticket' = [ticket EXCEPT ![i].pc = "refresh", ![i].recorded = TRUE]
        /\ queue' = Enqueue(i, ticket[i], Parts(ticket[i])) /\ "memo" \notin Parts(ticket[i])
    BY <1>2 DEF FallBack, RecordOffline, Parts
  <2>2. Marks(i, ticket[i].kind, "refresh", ticket[i].number, TRUE, ticket[i].customer, ticket[i].cart)
    BY <2>1, <1>0, RecordMarks
  <2>3. UNCHANGED used /\ ticket[i].pc \in {"reserve", "sell"} /\ ticket[i].kind # "memo"
    BY <1>2 DEF ReserveOnline, SellOnline, At, KInv, InTurn, UnderWay
  <2>4. Sends(i) /\ ticket'[i].recorded /\ ticket'[i].kind # "memo"
    BY <2>2, <2>3 DEF Sends, Marks
  <2> QED
    BY <2>1, <2>4, EnqueueGoesOn
<1>3. CASE MemoSent(i) /\ queue' = Enqueue(i, ticket[i], {"memo"})
  <2>1. Step(i, "done") /\ UNCHANGED used /\ ticket[i].pc = "memo"
    BY <1>3 DEF MemoSent, At
  <2>2. Marks(i, ticket[i].kind, "done", ticket[i].number, ticket[i].recorded, ticket[i].customer, ticket[i].cart)
    BY <2>1, <1>0, StepMarks
  <2>3. ticket[i].kind = "memo" /\ {"memo"} \cap {"reserve", "sell"} = {}
    BY <2>1 DEF MemosOnly, At
  <2>4. Sends(i) /\ ticket'[i].kind = "memo"
    BY <2>1, <2>2, <2>3 DEF Sends, Marks
  <2> QED
    BY <1>3, <2>3, <2>4, EnqueueGoesOn
<1> QED
  BY <1>1, <1>2, <1>3 DEF Serve, ReserveOnline, SellOnline, RefreshRead, Refreshed, MemoSent

LEMMA QueueStep == ASSUME TInv, KInv, MemosOnly, [Next]_vars PROVE QueueGoesOn
<1>1. CASE \E i \in Tickets :
            \/ \E customer \in Customers : CompleteOffline(i, customer)
            \/ \E e \in listed : Pickup(i, e) \/ PickupFromDetails(i, e) \/ CancelReservation(i, e)
            \/ Memo(i) \/ Serve(i)
  BY <1>1, ClickGoesOn, CancelGoesOn, MemoGoesOn, ServeGoesOn
<1>2. CASE Replay
  BY <1>2, ReplayGoesOn
<1>3. CASE \/ AddToCart \/ ChangeType \/ RemoveLine \/ AddLegacy \/ Audit
           \/ \E i \in Tickets, customer \in Customers : CompleteOnline(i, customer)
           \/ Probe \/ HydrateRead \/ HydrateApply \/ HydrateFails \/ Reload
           \/ ReplayStart \/ ReplayStop \/ UNCHANGED vars
  <2>1. UNCHANGED queue
    BY <1>3 DEF AddToCart, ChangeType, RemoveLine, AddLegacy, Audit, CompleteOnline,
                Probe, HydrateRead, HydrateApply, HydrateFails, Reload, ReplayStart, ReplayStop, vars
  <2> QED
    BY <2>1, SameGoesOn
<1> QED
  BY <1>1, <1>2, <1>3 DEF Next

\* The map of the local ids: the replay adds the row of a new reservation.
LEMMA MapStep ==
    ASSUME TInv, [Next]_vars
    PROVE  \/ UNCHANGED mapped
           \/ \E op \in Elems(queue) : /\ op.kind = "reserve" /\ Accepts(op) /\ Effect(op) /\ Result(op) # 0
                                       /\ mapped' = [mapped EXCEPT ![ticket[op.of].number] = Result(op)]
<1>1. CASE Replay
  <2> PICK k \in Heads : ReplaySucceeds(k) \/ ReplayUnanswered(k) \/ ReplayRefused(k)
    BY <1>1 DEF Replay
  <2>0. queue[k] \in Elems(queue) /\ queue[k] \in QueuedOp
    BY OpsAreOps DEF Heads, Elems
  <2>1. CASE ReplaySucceeds(k)
    <3>1. Accepts(queue[k]) => Result(queue[k]) # 0
      BY <2>0, ResultType
    <3> QED
      BY <2>0, <2>1, <3>1 DEF ReplaySucceeds
  <2>2. CASE ReplayUnanswered(k) \/ ReplayRefused(k)
    BY <2>2 DEF ReplayUnanswered, ReplayRefused
  <2> QED
    BY <2>1, <2>2
<1>2. CASE \/ AddToCart \/ ChangeType \/ RemoveLine \/ AddLegacy \/ Audit
           \/ Probe \/ HydrateRead \/ HydrateApply \/ HydrateFails \/ Reload
           \/ ReplayStart \/ ReplayStop \/ UNCHANGED vars
  BY <1>2 DEF AddToCart, ChangeType, RemoveLine, AddLegacy, Audit, Probe, HydrateRead, HydrateApply,
              HydrateFails, Reload, ReplayStart, ReplayStop, vars
<1>3. CASE \E i \in Tickets :
              \/ \E customer \in Customers : CompleteOnline(i, customer) \/ CompleteOffline(i, customer)
              \/ \E e \in listed : Pickup(i, e) \/ PickupFromDetails(i, e) \/ CancelReservation(i, e)
              \/ Memo(i)
  BY <1>3 DEF CompleteOnline, CompleteOffline, Pickup, PickupFromDetails, CancelReservation, Memo
<1>4. CASE \E i \in Tickets : Serve(i)
  BY <1>4 DEF Serve, ReserveOnline, SellOnline, RefreshRead, Refreshed, MemoSent
<1> QED
  BY <1>1, <1>2, <1>3, <1>4 DEF Next

-----------------------------------------------------------------------------
(* A local link is that of a reservation in the queue, or its row is known. *)
Begun == \A op \in Elems(queue) : op.of \in 1..used

BackedLink(e) ==
    e.side = "local" =>
        mapped[e.n] # 0 \/ \E i \in Tickets : Queued("reserve", i) /\ ticket[i].number = e.n

BInv == Blank /\ MemosOnly /\ Begun /\ \A e \in Known : BackedLink(e)

LEMMA BegunStep == ASSUME TInv, Blank, Begun, QueueGoesOn, [Next]_vars PROVE Begun'
<1>1. used \in Nat /\ used' \in Nat /\ used <= used' /\ \A i \in Tickets : Use(i) => i = used'
  <2>1. used' \in Nat /\ used \in Nat
    BY TypeStep DEF TInv, CountType
  <2>2. used' = used \/ \E i \in Tickets : Use(i)
    BY TicketStep DEF Begins
  <2> QED
    BY <2>1, <2>2 DEF Use
<1>2. ASSUME NEW new \in Elems(queue'), Fresh(new) PROVE new.of \in 1..used'
  <2> PICK i \in Tickets : Sends(i) /\ new.of = i
    BY <1>2 DEF Fresh
  <2>1. CASE Use(i)
    BY <1>1, <2>1 DEF Tickets
  <2>2. CASE UNCHANGED used /\ ticket[i].pc \in {"reserve", "sell", "memo"}
    <3>1. i <= used
      BY <2>2, BlankTicket, <1>1 DEF Tickets, Blank
    <3> QED
      BY <1>1, <2>2, <3>1 DEF Tickets
  <2> QED
    BY <2>1, <2>2 DEF Sends
<1> QED
  BY <1>1, <1>2 DEF Begun, QueueGoesOn, Stays, Alike

LEMMA BackedStep == ASSUME TInv, KInv, BInv, [Next]_vars PROVE BInv'
<1>0. QueueGoesOn /\ Shape
  BY QueueStep, TypeShape DEF BInv
<1>1. Blank' /\ MemosOnly' /\ Begun'
  BY <1>0, BlankStep, MemosStep, BegunStep DEF BInv
<1>2. \A e \in Known' : e \in Links \cup {NoEntry}
  <2>1. TInv'
    BY TypeStep
  <2>2. /\ listed' \subseteq Links /\ hydration'.seen \subseteq Links /\ cart'.link \in Links \cup {NoEntry}
        /\ \A i \in Tickets : ticket'[i].seen \subseteq Links /\ ticket'[i].cart.link \in Links \cup {NoEntry}
    BY <2>1 DEF TInv, PageType, TicketType, LinkedTicket, LinkedCart
  <2> QED
    BY <2>2 DEF Known, SeenLinks, TicketLinks
<1>3. \A n \in Tickets : mapped[n] # 0 => mapped'[n] # 0
  <2>1. Tickets \subseteq Numbers
    BY BoundsAssumption DEF Tickets, Numbers
  <2> QED
    BY <2>1, MapStep DEF TInv, QueueType, Maps
<1>4. ASSUME NEW i \in Tickets, Queued("reserve", i)
      PROVE  \/ Queued("reserve", i)' /\ ticket'[i].number = ticket[i].number
             \/ mapped'[ticket[i].number] # 0
  <2>1. PICK op \in Elems(queue) : op.kind = "reserve" /\ op.of = i
    BY <1>4, QueuedElems
  <2>2. i <= used
    BY <2>1 DEF BInv, Begun, Tickets
  <2>3. ticket'[i].number = ticket[i].number /\ ticket[i].number \in Numbers
    BY <2>2, StepKeeps, BoundsAssumption DEF Keeps, TInv, TicketType, LinkedTicket, Tickets, Numbers
  <2>4. CASE \E new \in Elems(queue') : Stays(op, new)
    BY <2>1, <2>3, <2>4 DEF Stays, Alike, Queued, Ids, Elems, Id
  <2>5. CASE Answered(op)
    <3>1. mapped' = [mapped EXCEPT ![ticket[i].number] = Result(op)]
      BY <2>1, <2>5 DEF Answered
    <3>2. Result(op) # 0
      BY <2>1, <2>5, OpsAreOps, ResultType DEF Answered
    <3> QED
      BY <2>3, <3>1, <3>2 DEF TInv, QueueType, Maps
  <2> QED
    BY <1>0, <2>1, <2>4, <2>5 DEF QueueGoesOn
<1>5. ASSUME NEW e \in Known, e.side = "local", e.n \in Tickets PROVE BackedLink(e)'
  <2>1. CASE mapped[e.n] # 0
    BY <1>3, <1>5, <2>1 DEF BackedLink
  <2>2. CASE \E i \in Tickets : Queued("reserve", i) /\ ticket[i].number = e.n
    BY <1>4, <2>2 DEF BackedLink
  <2> QED
    BY <1>5, <2>1, <2>2 DEF BInv, BackedLink
<1>6. ASSUME NEW e \in Known', e.side = "local" PROVE BackedLink(e)'
  <2>0. e \in Links /\ e.n \in Tickets
    BY <1>2, <1>6, LinksAreEntries
  <2>1. CASE e \in Known
    BY <1>5, <1>6, <2>0, <2>1
  <2>2. CASE e \in Fetched \cup {NoEntry, Legacy}
    BY <1>6, <2>2, LinksAreEntries DEF Fetched, Legacy
  <2>3. CASE \E i \in Tickets : Makes(i) /\ e = MadeHere(i, ticket'[i])
    <3> PICK i \in Tickets : Makes(i) /\ e = MadeHere(i, ticket'[i])
      BY <2>3
    <3>1. Queued("reserve", i)' /\ ticket'[i].number = e.n
      BY DEF Makes, MadeHere
    <3> QED
      BY <3>1 DEF BackedLink
  <2> QED
    BY <2>1, <2>2, <2>3, KnownOrigin DEF Origin
<1> QED
  BY <1>1, <1>6 DEF BInv, BackedLink

\* At first the only link is that of the row that was fetched before.
LEMMA InitKnown ==
    ASSUME Init, NEW e \in Known, e # NoEntry PROVE e.side = "server" /\ e.n = 1 /\ e.from = 0
<1> PICK f : f = [side |-> "server", n |-> 1, from |-> 0]
  OBVIOUS
<1>1. f.side = "server" /\ f.n = 1 /\ f.from = 0 /\ EmptyCart.link = NoEntry
  BY CartsAreLinked
<1>2. listed = {f} /\ (cart = EmptyCart \/ cart = Linked(f))
  BY DEF Init, Linked
<1>3. f \in Links
  BY TypeInit, <1>2 DEF TInv, PageType
<1>4. cart.link \in {f, NoEntry}
  BY <1>1, <1>2, <1>3, CartsAreLinked
<1>5. hydration.seen = {}
  BY DEF Init, NoHydration
<1>6. \A i \in Tickets : ticket[i].seen = {} /\ ticket[i].cart.link = NoEntry
  BY <1>1, BlankTicket DEF Init
<1>7. SeenLinks = {} /\ TicketLinks \subseteq {NoEntry}
  BY <1>6 DEF SeenLinks, TicketLinks
<1>8. e = f
  BY <1>2, <1>4, <1>5, <1>7 DEF Known
<1> QED
  BY <1>1, <1>8

LEMMA BackedInit == ASSUME Init PROVE BInv
<1>1. Blank /\ MemosOnly
  BY BlankTicket DEF Init, Blank, MemosOnly, At
<1>2. Begun
  <2>1. Elems(queue) = {}
    BY DEF Init, Elems
  <2> QED
    BY <2>1 DEF Begun
<1>3. ASSUME NEW e \in Known PROVE e.side # "local"
  BY InitKnown, LinksAreEntries
<1> QED
  BY <1>1, <1>2, <1>3 DEF BInv, BackedLink

(* Whatever is refused, lost or reloaded, a reservation of the list that was *)
(* made here has its row in the map of the local ids or its operation in the *)
(* queue, although the list, the map and the queue are changed apart.        *)
THEOREM ListedTheorem == Spec => []ListedIsBacked
<1>1. Init => NInv /\ KInv /\ TInv /\ BInv
  BY KeptInit, TypeInit, BackedInit
<1>2. NInv /\ KInv /\ TInv /\ BInv /\ [Next]_vars => (NInv /\ KInv /\ TInv /\ BInv)'
  BY NumberStep, KeptStepAny, TypeStep, BackedStep
<1>3. BInv => ListedIsBacked
  BY KnownParts DEF BInv, BackedLink, ListedIsBacked
<1> QED
  BY <1>1, <1>2, <1>3, PTL DEF Spec

-----------------------------------------------------------------------------
(* No two operations of the queue have the same id.                         *)
UniqueIds(q) == \A j, k \in DOMAIN q : Id(q[j]) = Id(q[k]) => j = k

LEMMA AppendUnique ==
    ASSUME NEW q, IsSeq(q), UniqueIds(q), NEW e, \A op \in Elems(q) : Id(op) # Id(e)
    PROVE  UniqueIds(Append(q, e))
<1> PICK S : q \in Seq(S)
  BY DEF IsSeq
<1> DEFINE T == S \cup {e}
           s == Append(q, e)
<1>1. q \in Seq(T) /\ e \in T
  OBVIOUS
<1> HIDE DEF T
<1>2. s \in Seq(T) /\ DOMAIN s = 1..(Len(q) + 1) /\ DOMAIN q = 1..Len(q) /\ Len(q) \in Nat
  BY <1>1
<1>3. s[Len(q) + 1] = e /\ \A k \in 1..Len(q) : s[k] = q[k]
  BY <1>1
<1> HIDE DEF s
<1>4. \A k \in 1..Len(q) : Id(q[k]) # Id(e)
  BY <1>2 DEF Elems
<1>5. ASSUME NEW j \in DOMAIN s, NEW k \in DOMAIN s, Id(s[j]) = Id(s[k]) PROVE j = k
  <2>1. CASE j = Len(q) + 1 \/ k = Len(q) + 1
    BY <1>2, <1>3, <1>4, <1>5, <2>1
  <2>2. CASE j # Len(q) + 1 /\ k # Len(q) + 1
    <3>1. j \in DOMAIN q /\ k \in DOMAIN q
      BY <1>2, <2>2
    <3> QED
      BY <1>2, <1>3, <1>5, <3>1 DEF UniqueIds
  <2> QED
    BY <2>1, <2>2
<1>6. UniqueIds(s)
  BY <1>5 DEF UniqueIds
<1> QED
  BY <1>6 DEF s

LEMMA RemoveUnique ==
    ASSUME NEW q, IsSeq(q), UniqueIds(q), NEW k \in DOMAIN q
    PROVE  UniqueIds(RemoveAt(q, k)) /\ \A op \in Elems(RemoveAt(q, k)) : Id(op) # Id(q[k])
<1> PICK s : s = RemoveAt(q, k)
  OBVIOUS
<1>1. /\ DOMAIN q = 1..Len(q) /\ Len(q) \in Nat
      /\ DOMAIN s = 1..(Len(q) - 1) /\ \A j \in DOMAIN s : s[j] = IF j < k THEN q[j] ELSE q[j + 1]
  BY RemoveItems DEF IsSeq
<1> DEFINE at(j) == IF j < k THEN j ELSE j + 1
<1>2. \A j \in DOMAIN s : at(j) \in DOMAIN q /\ at(j) # k /\ s[j] = q[at(j)]
  BY <1>1
<1>3. \A i, j \in DOMAIN s : at(i) = at(j) => i = j
  BY <1>1
<1> HIDE DEF at
<1>4. UniqueIds(s)
  BY <1>2, <1>3 DEF UniqueIds
<1>5. \A op \in Elems(s) : Id(op) # Id(q[k])
  BY <1>2 DEF UniqueIds, Elems
<1> QED
  BY <1>4, <1>5

LEMMA ReplaceUnique ==
    ASSUME NEW q, IsSeq(q), UniqueIds(q), NEW k \in DOMAIN q, NEW e, Id(e) = Id(q[k])
    PROVE  /\ UniqueIds([q EXCEPT ![k] = e])
           /\ \A op \in Elems([q EXCEPT ![k] = e]) : op = e \/ (op \in Elems(q) /\ Id(op) # Id(q[k]))
<1> PICK S : q \in Seq(S)
  BY DEF IsSeq
<1> DEFINE s == [q EXCEPT ![k] = e]
<1>1. DOMAIN s = DOMAIN q /\ \A j \in DOMAIN q : s[j] = IF j = k THEN e ELSE q[j]
  OBVIOUS
<1> HIDE DEF s
<1>2. UniqueIds(s)
  BY <1>1 DEF UniqueIds
<1>3. \A op \in Elems(s) : op = e \/ (op \in Elems(q) /\ Id(op) # Id(q[k]))
  BY <1>1 DEF UniqueIds, Elems
<1> QED
  BY <1>2, <1>3 DEF s

\* A ticket that has nothing in the queue adds at most one operation of each kind.
NoneOf(q, kind, i) == \A op \in Elems(q) : op.kind = kind => op.of # i

LEMMA MaybeUnique ==
    ASSUME NEW q, IsSeq(q), UniqueIds(q), NEW kind, NEW kinds, NEW i, NEW t, NEW s, NoneOf(q, kind, i),
           s = IF kind \in kinds THEN Append(q, NewOp(q, kind, i, t)) ELSE q
    PROVE  IsSeq(s) /\ UniqueIds(s) /\ OnlyKind(q, s, kind, kinds)
<1>0. IsSeq(s) /\ OnlyKind(q, s, kind, kinds)
  BY EnqueuedKind
<1>1. CASE kind \in kinds
  <2> PICK op : op = NewOp(q, kind, i, t)
    OBVIOUS
  <2>1. op.kind = kind /\ op.of = i /\ s = Append(q, op)
    BY <1>1, NewIsOp
  <2>2. \A o \in Elems(q) : Id(o) # Id(op)
    BY <2>1 DEF NoneOf, Id
  <2>3. UniqueIds(s)
    BY <2>1, <2>2, AppendUnique
  <2> QED
    BY <1>0, <2>3
<1>2. CASE kind \notin kinds
  BY <1>0, <1>2
<1> QED
  BY <1>1, <1>2

LEMMA NoneAfter ==
    ASSUME NEW q, NEW s, NEW kind, NEW kinds, OnlyKind(q, s, kind, kinds), NEW other, other # kind, NEW i,
           NoneOf(q, other, i)
    PROVE  NoneOf(s, other, i)
BY DEF OnlyKind, NoneOf

LEMMA EnqueueUnique ==
    ASSUME IsSeq(queue), UniqueIds(queue), NEW i, \A op \in Elems(queue) : op.of # i,
           NEW t, NEW kinds, NEW q, q = Enqueue(i, t, kinds)
    PROVE  UniqueIds(q)
<1> DEFINE With(s, kind) == IF kind \in kinds THEN Append(s, NewOp(s, kind, i, t)) ELSE s
<1>a. PICK s1 : s1 = With(queue, "student")
  OBVIOUS
<1>b. PICK s2 : s2 = With(s1, "reserve")
  OBVIOUS
<1>c. PICK s3 : s3 = With(s2, "sell")
  OBVIOUS
<1>d. PICK s4 : s4 = With(s3, "memo")
  OBVIOUS
<1>0. q = s4
  BY <1>a, <1>b, <1>c, <1>d DEF Enqueue
<1>k. /\ "reserve" # "student" /\ "sell" # "student" /\ "sell" # "reserve"
      /\ "memo" # "student" /\ "memo" # "reserve" /\ "memo" # "sell"
  OBVIOUS
<1>f. /\ NoneOf(queue, "student", i) /\ NoneOf(queue, "reserve", i)
      /\ NoneOf(queue, "sell", i) /\ NoneOf(queue, "memo", i)
  BY DEF NoneOf
<1>1. IsSeq(s1) /\ UniqueIds(s1) /\ OnlyKind(queue, s1, "student", kinds)
  BY <1>a, <1>f, MaybeUnique
<1>g. NoneOf(s1, "reserve", i) /\ NoneOf(s1, "sell", i) /\ NoneOf(s1, "memo", i)
  BY <1>1, <1>f, <1>k, NoneAfter
<1>2. IsSeq(s2) /\ UniqueIds(s2) /\ OnlyKind(s1, s2, "reserve", kinds)
  BY <1>1, <1>b, <1>g, MaybeUnique
<1>h. NoneOf(s2, "sell", i) /\ NoneOf(s2, "memo", i)
  BY <1>2, <1>g, <1>k, NoneAfter
<1>3. IsSeq(s3) /\ UniqueIds(s3) /\ OnlyKind(s2, s3, "sell", kinds)
  BY <1>2, <1>c, <1>h, MaybeUnique
<1>i. NoneOf(s3, "memo", i)
  BY <1>3, <1>h, <1>k, NoneAfter
<1>4. IsSeq(s4) /\ UniqueIds(s4)
  BY <1>3, <1>d, <1>i, MaybeUnique
<1> QED
  BY <1>0, <1>4

-----------------------------------------------------------------------------
(* A ticket that has not begun, or waits for the first answer to its request, *)
(* has nothing in the queue; what is applied has no second chance.           *)
Pristine(i) == i > used \/ ticket[i].pc \in {"reserve", "sell", "memo"}

Unsent(i) == \A op \in Elems(queue) : op.of # i

\* The reservation was answered, and the sale that goes with it is on its way.
Halfway(i) == At(i, "sell") /\ ticket[i].cart.reserve

AtMostOne(S) == \A r, s \in S : r = s

OnceInv(i) ==
    /\ applied[i] <= 1 /\ AtMostOne(RowsOf(i))
    /\ Pristine(i) => applied[i] = 0 /\ (~Halfway(i) => RowsOf(i) = {})
    /\ \A op \in Elems(queue) : op.of = i /\ op.result = 0 =>
           /\ op.kind \in {"sell", "memo"} => applied[i] = 0
           /\ op.kind = "reserve" => RowsOf(i) = {}

MemoOps == \A op \in Elems(queue) : /\ op.kind = "memo" => ticket[op.of].kind = "memo"
                                    /\ op.kind = "sell" => ticket[op.of].kind # "memo"

AInv ==
    /\ UniqueIds(queue) /\ MemoOps
    /\ \A i \in Tickets : /\ Pristine(i) => Unsent(i)
                          /\ At(i, "reserve") => ticket[i].cart.reserve
    /\ \A i \in Tickets \ doubted : OnceInv(i)

\* A ticket that nothing is done for.
LEMMA OnceStays ==
    ASSUME NEW i \in Tickets, OnceInv(i), applied'[i] = applied[i], RowsOf(i)' = RowsOf(i),
           Pristine(i)' => Pristine(i) /\ ticket'[i] = ticket[i],
           \A new \in Elems(queue') : new.of = i /\ new.result = 0 =>
               \E op \in Elems(queue) : op.of = i /\ op.kind = new.kind /\ op.result = 0
    PROVE  OnceInv(i)'
<1>1. applied'[i] <= 1 /\ AtMostOne(RowsOf(i)')
  BY DEF OnceInv
<1>2. Pristine(i)' => applied'[i] = 0 /\ (~Halfway(i)' => RowsOf(i)' = {})
  BY DEF OnceInv, Halfway, At
<1>3. \A new \in Elems(queue') : new.of = i /\ new.result = 0 =>
           /\ new.kind \in {"sell", "memo"} => applied'[i] = 0
           /\ new.kind = "reserve" => RowsOf(i)' = {}
  BY DEF OnceInv
<1> QED
  BY <1>1, <1>2, <1>3 DEF OnceInv

-----------------------------------------------------------------------------
(* A click, or the answer to the request of a ticket: nothing was applied    *)
(* for it, or nothing is queued for it.                                     *)
Nothing(i) == applied'[i] = 0 /\ RowsOf(i)' = {}

FirstTime(i) ==
    /\ Unsent(i)' /\ applied'[i] <= 1 /\ AtMostOne(RowsOf(i)')
    /\ Pristine(i)' => applied'[i] = 0 /\ (~Halfway(i)' => RowsOf(i)' = {})

Acts(i) ==
    /\ Pristine(i) /\ i <= used' /\ used <= used'
    /\ \A j \in Tickets \ {i} :
           ticket'[j] = ticket[j] /\ applied'[j] = applied[j] /\ RowsOf(j)' = RowsOf(j)
    /\ UniqueIds(queue')
    /\ \A new \in Elems(queue') : new \in Elems(queue) \/ new.of = i
    /\ Pristine(i)' => Unsent(i)'
    /\ At(i, "reserve")' => ticket'[i].cart.reserve
    /\ doubted \subseteq doubted'
    /\ i \notin doubted' => Nothing(i) \/ FirstTime(i)

LEMMA NothingOnce == ASSUME NEW i \in Tickets, Nothing(i) PROVE OnceInv(i)'
BY DEF Nothing, OnceInv, AtMostOne

LEMMA FirstOnce == ASSUME NEW i \in Tickets, FirstTime(i) PROVE OnceInv(i)'
BY DEF FirstTime, OnceInv, Unsent

LEMMA ActsOnce ==
    ASSUME TInv, AInv, used' \in Nat, MemoOps', NEW i \in Tickets, Acts(i) PROVE AInv'
<1>0. used \in Nat /\ used <= used' /\ Tickets \subseteq Nat
  BY BoundsAssumption DEF TInv, CountType, Acts, Tickets
<1>1. ASSUME NEW j \in Tickets \ {i}
      PROVE  /\ Pristine(j)' => Pristine(j) /\ ticket'[j] = ticket[j]
             /\ \A new \in Elems(queue') : new.of = j => new \in Elems(queue)
  BY <1>0 DEF Acts, Pristine
<1>2. \A j \in Tickets : Pristine(j)' => Unsent(j)'
  BY <1>1 DEF AInv, Acts, Unsent
<1>3. \A j \in Tickets : At(j, "reserve")' => ticket'[j].cart.reserve
  BY DEF AInv, Acts, At
<1>4. ASSUME NEW j \in Tickets \ doubted' PROVE OnceInv(j)'
  <2>1. CASE j = i
    BY <1>4, <2>1, NothingOnce, FirstOnce DEF Acts
  <2>2. CASE j # i
    <3>1. OnceInv(j) /\ applied'[j] = applied[j] /\ RowsOf(j)' = RowsOf(j)
      BY <1>4, <2>2 DEF AInv, Acts
    <3> QED
      BY <1>1, <1>4, <2>2, <3>1, OnceStays
  <2> QED
    BY <2>1, <2>2
<1> QED
  BY <1>2, <1>3, <1>4 DEF AInv, Acts

\* Nothing is queued or applied.
LEMMA QuietOnce ==
    ASSUME AInv, MemoOps', UNCHANGED <<queue, server, doubted>>,
           \A i \in Tickets : /\ Pristine(i)' => Pristine(i) /\ ticket'[i] = ticket[i]
                              /\ At(i, "reserve")' => At(i, "reserve") /\ ticket'[i] = ticket[i]
    PROVE  AInv'
<1>1. UniqueIds(queue)' /\ Elems(queue') = Elems(queue)
  BY DEF AInv, UniqueIds, Elems
<1>2. \A i \in Tickets : /\ Pristine(i)' => Unsent(i)'
                         /\ At(i, "reserve")' => ticket'[i].cart.reserve
  BY <1>1 DEF AInv, Unsent
<1>3. ASSUME NEW i \in Tickets \ doubted' PROVE OnceInv(i)'
  <2>1. OnceInv(i) /\ applied'[i] = applied[i] /\ RowsOf(i)' = RowsOf(i)
    BY DEF AInv, server, RowsOf
  <2> QED
    BY <1>1, <2>1, OnceStays
<1> QED
  BY <1>1, <1>2, <1>3 DEF AInv

-----------------------------------------------------------------------------
(* The rows: a reservation takes one that nobody has made, and those that     *)
(* are completed or cancelled stay with the ticket that made them.          *)
LEMMA ReservedRows ==
    ASSUME ServerShape, NEW i \in Tickets, MayReserve(i), row' = Reserved(i)
    PROVE  /\ RowsOf(i)' = RowsOf(i) \cup {NextRow}
           /\ \A j \in Tickets \ {i} : RowsOf(j)' = RowsOf(j)
<1>1. NextRow \in Rows /\ row[NextRow].state = "none"
  BY DEF MayReserve, NextRow
<1> PICK n \in Rows : n = NextRow
  BY <1>1
<1> PICK w : w = [state |-> "pending", by |-> i, ended |-> 0]
  OBVIOUS
<1>2. w.by = i
  OBVIOUS
<1>3. row' = [row EXCEPT ![n] = w]
  BY DEF Reserved
<1>4. row'[n] = w /\ \A r \in Rows \ {n} : row'[r] = row[r]
  BY <1>3 DEF ServerShape, RowShape
<1>5. row[n].by = 0 /\ \A j \in Tickets : j # 0
  BY <1>1, BoundsAssumption DEF ServerShape, RowShape, Tickets
<1>6. RowsOf(i)' = RowsOf(i) \cup {n}
  BY <1>2, <1>4 DEF RowsOf
<1>7. \A j \in Tickets \ {i} : RowsOf(j)' = RowsOf(j)
  BY <1>2, <1>4, <1>5 DEF RowsOf
<1> QED
  BY <1>6, <1>7

LEMMA EndedKeeps ==
    ASSUME ServerShape, NEW i, NEW r, NEW x, row' = [row EXCEPT ![r].state = x, ![r].ended = i]
    PROVE  \A s \in Rows : row'[s].by = row[s].by
<1>1. CASE r \notin Rows
  BY <1>1 DEF ServerShape, RowShape
<1>2. CASE r \in Rows
  <2> PICK v : v = row[r]
    OBVIOUS
  <2>1. IsRow(v)
    BY <1>2 DEF ServerShape, RowShape
  <2> PICK w : w = [v EXCEPT !.state = x, !.ended = i]
    OBVIOUS
  <2>2. w = [state |-> x, by |-> v.by, ended |-> i]
    BY <2>1 DEF IsRow
  <2>3. w.by = v.by
    BY <2>2
  <2>4. row' = [row EXCEPT ![r] = w]
    BY <1>2 DEF ServerShape, RowShape
  <2>5. row'[r] = w /\ \A s \in Rows \ {r} : row'[s] = row[s]
    BY <1>2, <2>4 DEF ServerShape, RowShape
  <2> QED
    BY <2>3, <2>5
<1> QED
  BY <1>1, <1>2

LEMMA SoldRows ==
    ASSUME ServerShape, NEW i, NEW r, row' = Sold(i, r) \/ row' = Cancelled(i, r)
    PROVE  \A j \in Tickets : RowsOf(j)' = RowsOf(j)
<1>1. \A s \in Rows : row'[s].by = row[s].by
  <2>1. CASE row' = row
    BY <2>1
  <2>2. CASE row' = [row EXCEPT ![r].state = "completed", ![r].ended = i]
    BY <2>2, EndedKeeps
  <2>3. CASE row' = [row EXCEPT ![r].state = "cancelled", ![r].ended = i]
    BY <2>3, EndedKeeps
  <2> QED
    BY <2>1, <2>2, <2>3 DEF Sold, Cancelled
<1> QED
  BY <1>1 DEF RowsOf

LEMMA ServedOnce ==
    ASSUME ServerShape, NEW i \in Tickets, Served(i)
    PROVE  applied'[i] = applied[i] + 1 /\ \A j \in Tickets \ {i} : applied'[j] = applied[j]
BY DEF ServerShape, Served

-----------------------------------------------------------------------------
(* The clicks.                                                              *)
LEMMA ClickActs ==
    ASSUME TInv, KInv, BInv, AInv, MemoOps', NEW i \in Tickets, Begins(i), UNCHANGED <<server, doubted>>,
           UniqueIds(queue'), \A new \in Elems(queue') : new \in Elems(queue) \/ new.of = i,
           UNCHANGED queue \/ ticket'[i].pc = "done",
           At(i, "reserve")' => ticket'[i].cart.reserve
    PROVE  AInv'
<1>1. i = used + 1 /\ used' = i /\ used \in Nat /\ used' \in Nat /\ i \in Nat
  BY BoundsAssumption DEF Begins, Use, TInv, CountType, Tickets
<1>2. i > used /\ i <= used' /\ used <= used'
  BY <1>1
<1>3. Pristine(i) /\ ~Halfway(i) /\ Unsent(i)
  <2>1. ticket[i].pc = "none"
    BY <1>2, BlankTicket DEF BInv, Blank
  <2> QED
    BY <1>2, <2>1 DEF Pristine, Halfway, At, AInv
<1>4. \A j \in Tickets \ {i} : ticket'[j] = ticket[j]
  BY DEF Begins, Marks
<1>5. \A j \in Tickets : applied'[j] = applied[j] /\ RowsOf(j)' = RowsOf(j)
  BY DEF server, RowsOf
<1>6. Pristine(i)' => Unsent(i)'
  <2>1. CASE UNCHANGED queue
    BY <1>3, <2>1 DEF Unsent, Elems
  <2>2. CASE ticket'[i].pc = "done"
    BY <1>1, <2>2 DEF Pristine
  <2> QED
    BY <2>1, <2>2
<1>7. i \notin doubted => Nothing(i)
  BY <1>3, <1>5 DEF AInv, OnceInv, Nothing
<1>8. Acts(i)
  BY <1>2, <1>3, <1>4, <1>5, <1>6, <1>7 DEF Acts
<1> QED
  BY <1>1, <1>8, ActsOnce

\* What a ticket with nothing in the queue adds to it.
LEMMA EnqueueNew ==
    ASSUME KInv, AInv, NEW i \in Tickets, Pristine(i), NEW t, NEW kinds, queue' = Enqueue(i, t, kinds)
    PROVE  UniqueIds(queue') /\ \A new \in Elems(queue') : new \in Elems(queue) \/ new.of = i
<1>1. IsSeq(queue) /\ UniqueIds(queue) /\ \A op \in Elems(queue) : op.of # i
  BY DEF KInv, QueueShape, AInv, Unsent
<1> PICK q : q = queue'
  OBVIOUS
<1>2. UniqueIds(q)
  BY <1>1, EnqueueUnique
<1>3. Added(queue, q, i)
  BY EnqueueAdds DEF KInv
<1> QED
  BY <1>2, <1>3 DEF Added

LEMMA UsedPristine == ASSUME TInv, NEW i \in Tickets, Use(i) PROVE Pristine(i)
BY BoundsAssumption DEF Use, Pristine, TInv, CountType

LEMMA OnceOffline ==
    ASSUME TInv, KInv, BInv, AInv, MemoOps', NEW i \in Tickets,
           \/ \E customer \in Customers : CompleteOffline(i, customer)
           \/ \E e \in listed : Pickup(i, e) \/ PickupFromDetails(i, e)
    PROVE  AInv'
<1>0. Shape /\ Begins(i) /\ Pristine(i) /\ UNCHANGED <<server, doubted>>
  BY TypeShape, ClickBegins, UsedPristine DEF CompleteOffline, Pickup, PickupFromDetails
<1>1. ticket'[i].pc = "done"
  <2> DEFINE T(kind, customer, c) ==
                 [NewTicket(kind, customer, c) EXCEPT !.pc = "done", !.recorded = TRUE]
  <2>1. \E kind, customer, c : ticket' = [ticket EXCEPT ![i] = T(kind, customer, c)]
    <3>1. \/ \E customer \in Customers : ticket' = [ticket EXCEPT ![i] = T("sale", customer, cart)]
          \/ \E kind \in {"pickup", "modal"}, e \in listed :
                 ticket' = [ticket EXCEPT ![i] = T(kind, Customer(e.from), Linked(e))]
      BY DEF CompleteOffline, Pickup, PickupFromDetails
    <3> HIDE DEF T
    <3> QED
      BY <3>1
  <2> PICK kind, customer, c : ticket' = [ticket EXCEPT ![i] = T(kind, customer, c)]
    BY <2>1
  <2>2. Marks(i, kind, "done", counter, TRUE, customer, c)
    BY <1>0, ClickMarks
  <2> QED
    BY <2>2 DEF Marks
<1>2. \E t, kinds : queue' = Enqueue(i, t, kinds)
  BY DEF CompleteOffline, Pickup, PickupFromDetails, RecordOffline
<1>3. UniqueIds(queue') /\ \A new \in Elems(queue') : new \in Elems(queue) \/ new.of = i
  BY <1>0, <1>2, EnqueueNew
<1>4. ~At(i, "reserve")'
  BY <1>1 DEF At
<1> QED
  BY <1>0, <1>1, <1>3, <1>4, ClickActs

LEMMA OnceOnline ==
    ASSUME TInv, KInv, BInv, AInv, MemoOps', NEW i \in Tickets, NEW customer \in Customers, CompleteOnline(i, customer)
    PROVE  AInv'
<1>0. Shape /\ Begins(i) /\ UNCHANGED <<server, doubted, queue>>
  BY TypeShape, ClickBegins DEF CompleteOnline
<1> PICK pc : pc = IF cart.reserve THEN "reserve" ELSE "sell"
  OBVIOUS
<1>1. ticket' = [ticket EXCEPT ![i] = [NewTicket("sale", customer, cart) EXCEPT !.pc = pc]]
  BY DEF CompleteOnline
<1>2. Marks(i, "sale", pc, counter, FALSE, customer, cart)
  BY <1>0, <1>1, PlainClickMarks
<1>3. At(i, "reserve")' => ticket'[i].cart.reserve
  BY <1>2 DEF At, Marks
<1>4. UniqueIds(queue') /\ \A new \in Elems(queue') : new \in Elems(queue)
  BY <1>0 DEF AInv, UniqueIds, Elems
<1> QED
  BY <1>0, <1>3, <1>4, ClickActs

LEMMA OnceMemo ==
    ASSUME TInv, KInv, BInv, AInv, MemoOps', NEW i \in Tickets, Memo(i) PROVE AInv'
<1>0. Shape /\ Begins(i) /\ Pristine(i) /\ UNCHANGED <<server, doubted>>
  BY TypeShape, ClickBegins, UsedPristine DEF Memo, history
<1> PICK pc : pc = IF online THEN "memo" ELSE "done"
  OBVIOUS
<1>1. ticket' = [ticket EXCEPT ![i] =
          [[NewTicket("memo", "nobody", EmptyCart) EXCEPT !.recorded = TRUE] EXCEPT !.pc = pc]]
  BY DEF Memo
<1>2. Marks(i, "memo", pc, counter, TRUE, "nobody", EmptyCart)
  BY <1>0, <1>1, MemoMarks
<1>3. ~At(i, "reserve")'
  BY <1>2 DEF At, Marks
<1>4. CASE online
  <2>1. UNCHANGED queue
    BY <1>4 DEF Memo
  <2>2. UniqueIds(queue') /\ \A new \in Elems(queue') : new \in Elems(queue)
    BY <2>1 DEF AInv, UniqueIds, Elems
  <2> QED
    BY <1>0, <1>3, <2>1, <2>2, ClickActs
<1>5. CASE ~online
  <2>1. ticket'[i].pc = "done"
    BY <1>2, <1>5 DEF Marks
  <2>2. \E t, kinds : queue' = Enqueue(i, t, kinds)
    BY <1>5 DEF Memo
  <2>3. UniqueIds(queue') /\ \A new \in Elems(queue') : new \in Elems(queue) \/ new.of = i
    BY <1>0, <2>2, EnqueueNew
  <2> QED
    BY <1>0, <1>3, <2>1, <2>3, ClickActs
<1> QED
  BY <1>4, <1>5

LEMMA OnceCancel ==
    ASSUME TInv, KInv, BInv, AInv, MemoOps', NEW i \in Tickets, NEW e \in listed, CancelReservation(i, e)
    PROVE  AInv'
<1>0. Shape /\ Begins(i) /\ Pristine(i) /\ IsSeq(queue) /\ UniqueIds(queue) /\ UNCHANGED <<server, doubted>>
  BY TypeShape, ClickBegins, UsedPristine DEF CancelReservation, KInv, QueueShape, AInv, history
<1>u. Unsent(i)
  BY <1>0 DEF AInv
<1> DEFINE t == [NewTicket("cancel", Customer(e.from), Linked(e)) EXCEPT !.pc = "done"]
           same == {k \in DOMAIN queue :
                       queue[k].kind = "cancel" /\ SameId(ticket[queue[k].of].cart.link, e)}
           others == IF same = {} THEN queue ELSE RemoveAt(queue, CHOOSE k \in same : TRUE)
<1>1. /\ ticket' = [ticket EXCEPT ![i] = t]
      /\ queue' = Append(others, NewOp(queue, "cancel", i, t))
      /\ \A k \in same : k \in DOMAIN queue
  BY DEF CancelReservation
<1>2. Marks(i, "cancel", "done", counter, FALSE, Customer(e.from), Linked(e))
  BY <1>1, <1>0, PlainClickMarks
<1> HIDE DEF t, same
<1>3. IsSeq(others) /\ Elems(others) \subseteq Elems(queue) /\ UniqueIds(others)
  <2>1. CASE same = {}
    BY <2>1, <1>0
  <2>2. CASE same # {}
    <3> PICK k : k = CHOOSE l \in same : TRUE
      OBVIOUS
    <3>1. k \in DOMAIN queue /\ others = RemoveAt(queue, k)
      BY <2>2, <1>1
    <3>2. IsSeq(others) /\ Elems(others) \subseteq Elems(queue)
      BY <3>1, <1>0, RemoveElems
    <3>3. UniqueIds(RemoveAt(queue, k))
      BY <3>1, <1>0, RemoveUnique
    <3> QED
      BY <3>1, <3>2, <3>3
  <2> QED
    BY <2>1, <2>2
<1> HIDE DEF others
<1> PICK op : op = NewOp(queue, "cancel", i, t)
  OBVIOUS
<1>4. op.of = i /\ op.kind = "cancel"
  BY NewIsOp
<1>5. Elems(queue') = Elems(others) \cup {op}
  BY <1>1, <1>3, AppendElems
<1>6. \A o \in Elems(others) : Id(o) # Id(op)
  BY <1>3, <1>4, <1>u DEF Unsent, Id
<1>7. UniqueIds(queue')
  BY <1>1, <1>3, <1>6, AppendUnique
<1>8. ticket'[i].pc = "done" /\ ~At(i, "reserve")'
  BY <1>2 DEF Marks, At
<1>9. \A new \in Elems(queue') : new \in Elems(queue) \/ new.of = i
  BY <1>3, <1>4, <1>5
<1> QED
  BY <1>0, <1>7, <1>8, <1>9, ClickActs

-----------------------------------------------------------------------------
(* The answers to the requests of a ticket.                                 *)
LEMMA ServeActs ==
    ASSUME TInv, KInv, BInv, AInv, MemoOps', NEW i \in Tickets, ticket[i].pc \in {"reserve", "sell", "memo"},
           UNCHANGED used, \A j \in Tickets \ {i} :
               ticket'[j] = ticket[j] /\ applied'[j] = applied[j] /\ RowsOf(j)' = RowsOf(j),
           doubted \subseteq doubted', ~At(i, "reserve")',
           \/ UNCHANGED queue
           \/ ticket'[i].pc \notin {"reserve", "sell", "memo"} /\ \E t, kinds : queue' = Enqueue(i, t, kinds),
           i \notin doubted' =>
               \/ Nothing(i)
               \/ /\ UNCHANGED queue /\ applied'[i] <= 1 /\ AtMostOne(RowsOf(i)')
                  /\ Pristine(i)' => applied'[i] = 0 /\ (~Halfway(i)' => RowsOf(i)' = {})
    PROVE  AInv'
<1>1. i <= used /\ used \in Nat /\ used' \in Nat
  <2>1. used \in Nat /\ Tickets \subseteq Nat
    BY BoundsAssumption DEF TInv, CountType, Tickets
  <2> QED
    BY <2>1, BlankTicket DEF BInv, Blank
<1>2. Pristine(i) /\ Unsent(i)
  BY DEF Pristine, AInv
<1>3. UNCHANGED queue => Unsent(i)' /\ UniqueIds(queue') /\ \A new \in Elems(queue') : new \in Elems(queue)
  BY <1>2 DEF Unsent, Elems, AInv, UniqueIds
<1>4. UniqueIds(queue') /\ \A new \in Elems(queue') : new \in Elems(queue) \/ new.of = i
  BY <1>2, <1>3, EnqueueNew
<1>5. Pristine(i)' => Unsent(i)'
  <2>1. CASE UNCHANGED queue
    BY <1>3, <2>1
  <2>2. CASE ticket'[i].pc \notin {"reserve", "sell", "memo"}
    BY <1>1, <2>2, BoundsAssumption DEF Pristine, Tickets
  <2> QED
    BY <2>1, <2>2
<1>6. i \notin doubted' => Nothing(i) \/ FirstTime(i)
  BY <1>3 DEF FirstTime
<1>7. Acts(i)
  BY <1>1, <1>2, <1>4, <1>5, <1>6 DEF Acts
<1> QED
  BY <1>1, <1>7, ActsOnce

LEMMA OnceReserve == ASSUME TInv, KInv, BInv, AInv, MemoOps', NEW i \in Tickets, ReserveOnline(i) PROVE AInv'
<1>0. /\ Shape /\ ServerShape /\ ticket[i].pc = "reserve" /\ At(i, "reserve") /\ ticket[i].cart.reserve
      /\ UNCHANGED <<used, applied>> /\ doubted \subseteq doubted'
  BY TypeShape DEF KInv, ReserveOnline, At, AInv
<1>1. Serve(i) /\ Moves(i)
  BY ServeMoves DEF Serve
<1>2. /\ \A j \in Tickets \ {i} : ticket'[j] = ticket[j]
      /\ ticket'[i].cart = ticket[i].cart
  BY <1>1 DEF Moves, Marks
<1>3. \A j \in Tickets \ {i} : RowsOf(j)' = RowsOf(j)
  <2>1. CASE UNCHANGED row
    BY <2>1 DEF RowsOf
  <2>2. CASE MayReserve(i) /\ row' = Reserved(i)
    BY <1>0, <2>2, ReservedRows
  <2> QED
    BY <2>1, <2>2 DEF ReserveOnline
<1>4. i \notin doubted => applied[i] = 0 /\ RowsOf(i) = {} /\ applied'[i] = 0
  BY <1>0 DEF AInv, OnceInv, Pristine, Halfway, At
<1>5. ASSUME FallBack(i)
      PROVE  /\ ticket'[i].pc = "refresh"
             /\ \E t, kinds : queue' = Enqueue(i, t, kinds)
  BY <1>0, <1>5, RecordMarks DEF FallBack, RecordOffline, Marks
<1>6. CASE UNCHANGED row /\ FallBack(i)
  <2>1. i \notin doubted' => Nothing(i)
    BY <1>0, <1>4, <1>6 DEF Nothing, RowsOf
  <2> QED
    BY <1>0, <1>2, <1>3, <1>5, <1>6, <2>1, ServeActs DEF At
<1>7. CASE i \in doubted' /\ FallBack(i)
  BY <1>0, <1>2, <1>3, <1>5, <1>7, ServeActs DEF At
<1>8. CASE UNCHANGED <<row, queue>> /\ Step(i, "gone")
  <2>1. i \notin doubted' => Nothing(i)
    BY <1>0, <1>4, <1>8 DEF Nothing, RowsOf
  <2>2. ticket'[i].pc = "gone"
    BY <1>0, <1>8, StepMarks DEF Marks
  <2> QED
    BY <1>0, <1>2, <1>3, <1>8, <2>1, <2>2, ServeActs DEF At
<1>9. CASE /\ MayReserve(i) /\ row' = Reserved(i) /\ UNCHANGED queue
           /\ (ticket[i].cart.sale /\ Step(i, "sell")) \/ Commit(i)
  <2>1. \/ ticket'[i].pc = "sell"
        \/ ticket'[i].pc = "refresh"
    BY <1>0, <1>9, StepMarks, RecordMarks DEF Marks, Commit
  <2>2. i \notin doubted' => applied'[i] <= 1 /\ AtMostOne(RowsOf(i)')
    <3>1. RowsOf(i)' = RowsOf(i) \cup {NextRow}
      BY <1>0, <1>9, ReservedRows
    <3> QED
      BY <1>0, <1>4, <3>1 DEF AtMostOne
  <2>3. Pristine(i)' => Halfway(i)'
    <3>1. i <= used'
      BY <1>0, BlankTicket, BoundsAssumption DEF BInv, Blank, TInv, CountType, Tickets
    <3>2. ~(i > used')
      BY <1>0, <3>1, BoundsAssumption DEF TInv, CountType, Tickets
    <3> QED
      BY <1>0, <1>2, <2>1, <3>2 DEF Pristine, Halfway, At
  <2> QED
    BY <1>0, <1>2, <1>3, <1>4, <1>9, <2>1, <2>2, <2>3, ServeActs DEF At
<1> QED
  BY <1>6, <1>7, <1>8, <1>9 DEF ReserveOnline

LEMMA OnceSell == ASSUME TInv, KInv, BInv, AInv, MemoOps', NEW i \in Tickets, SellOnline(i) PROVE AInv'
<1> PICK r : r = OnlineRow(ticket[i].cart.link)
  OBVIOUS
<1>0. /\ Shape /\ ServerShape /\ ticket[i].pc = "sell" /\ At(i, "sell")
      /\ UNCHANGED used /\ doubted \subseteq doubted'
  BY TypeShape DEF KInv, SellOnline, At, AInv, history
<1>1. \A j \in Tickets \ {i} : ticket'[j] = ticket[j]
  BY ServeMoves DEF Serve, Moves, Marks
<1>2. (row' = Sold(i, r) /\ Served(i)) \/ UNCHANGED server
  BY DEF SellOnline
<1>3. \A j \in Tickets : RowsOf(j)' = RowsOf(j)
  <2>1. UNCHANGED row => \A j \in Tickets : RowsOf(j)' = RowsOf(j)
    BY DEF RowsOf
  <2> QED
    BY <1>0, <1>2, <2>1, SoldRows DEF server
<1>4. \A j \in Tickets \ {i} : applied'[j] = applied[j]
  BY <1>0, <1>2, ServedOnce DEF server
<1>5. i \notin doubted => applied[i] = 0 /\ AtMostOne(RowsOf(i)) /\ (~ticket[i].cart.reserve => RowsOf(i) = {})
  BY <1>0 DEF AInv, OnceInv, Pristine, Halfway, At
<1>6. ~Pristine(i)'  /\ ticket'[i].pc \notin {"reserve", "sell", "memo"}
  <2>1. i <= used'
    BY <1>0, BlankTicket, BoundsAssumption DEF BInv, Blank, TInv, CountType, Tickets
  <2>2. ~(i > used')
    BY <1>0, <2>1, BoundsAssumption DEF TInv, CountType, Tickets
  <2>3. ticket'[i].pc \in {"refresh", "gone"}
    BY <1>0, StepMarks, RecordMarks DEF SellOnline, Commit, FallBack, Marks
  <2> QED
    BY <2>2, <2>3 DEF Pristine
<1>7. CASE FallBack(i) /\ i \in doubted'
  <2>1. \E t, kinds : queue' = Enqueue(i, t, kinds)
    BY <1>7 DEF FallBack, RecordOffline
  <2> QED
    BY <1>0, <1>1, <1>3, <1>4, <1>6, <1>7, <2>1, ServeActs DEF At
<1>8. CASE FallBack(i) /\ UNCHANGED server /\ ~ticket[i].cart.reserve
  <2>1. \E t, kinds : queue' = Enqueue(i, t, kinds)
    BY <1>8 DEF FallBack, RecordOffline
  <2>2. i \notin doubted' => Nothing(i)
    BY <1>0, <1>3, <1>5, <1>8 DEF Nothing, server
  <2> QED
    BY <1>0, <1>1, <1>3, <1>4, <1>6, <1>8, <2>1, <2>2, ServeActs DEF At
<1>9. CASE UNCHANGED queue
  <2>1. i \notin doubted' => applied'[i] <= 1 /\ AtMostOne(RowsOf(i)')
    BY <1>0, <1>2, <1>3, <1>5, ServedOnce DEF server
  <2> QED
    BY <1>0, <1>1, <1>3, <1>4, <1>6, <1>9, <2>1, ServeActs DEF At
<1> QED
  BY <1>7, <1>8, <1>9 DEF SellOnline

LEMMA OnceMemoSent == ASSUME TInv, KInv, BInv, AInv, MemoOps', NEW i \in Tickets, MemoSent(i) PROVE AInv'
<1>0. /\ Shape /\ ServerShape /\ ticket[i].pc = "memo" /\ Step(i, "done")
      /\ UNCHANGED <<used, row>> /\ doubted \subseteq doubted'
  BY TypeShape DEF KInv, MemoSent, At
<1>1. Marks(i, ticket[i].kind, "done", ticket[i].number, ticket[i].recorded, ticket[i].customer, ticket[i].cart)
  BY <1>0, StepMarks
<1>2. (\A j \in Tickets \ {i} : ticket'[j] = ticket[j]) /\ ticket'[i].pc = "done"
  BY <1>1 DEF Marks
<1>3. \A j \in Tickets : RowsOf(j)' = RowsOf(j)
  BY <1>0 DEF RowsOf
<1>4. \A j \in Tickets \ {i} : applied'[j] = applied[j]
  BY <1>0, ServedOnce DEF MemoSent
<1>5. i \notin doubted => applied[i] = 0 /\ RowsOf(i) = {}
  BY <1>0 DEF AInv, OnceInv, Pristine, Halfway, At
<1>6. ~Pristine(i)'
  <2>1. i <= used'
    BY <1>0, BlankTicket, BoundsAssumption DEF BInv, Blank, TInv, CountType, Tickets
  <2>2. ~(i > used')
    BY <1>0, <2>1, BoundsAssumption DEF TInv, CountType, Tickets
  <2> QED
    BY <1>2, <2>2 DEF Pristine
<1>7. CASE Served(i) /\ UNCHANGED queue
  <2>1. i \notin doubted' => applied'[i] <= 1 /\ AtMostOne(RowsOf(i)')
    BY <1>0, <1>3, <1>5, <1>7, ServedOnce DEF AtMostOne
  <2> QED
    BY <1>0, <1>2, <1>3, <1>4, <1>6, <1>7, <2>1, ServeActs DEF At
<1>8. CASE queue' = Enqueue(i, ticket[i], {"memo"}) /\ (i \in doubted' \/ UNCHANGED applied)
  <2>1. i \notin doubted' => Nothing(i)
    BY <1>0, <1>3, <1>5, <1>8 DEF Nothing
  <2> QED
    BY <1>0, <1>2, <1>3, <1>4, <1>8, <2>1, ServeActs DEF At
<1> QED
  BY <1>7, <1>8 DEF MemoSent

-----------------------------------------------------------------------------
(* The replay: what is applied leaves nothing unapplied of its kind.         *)
LEMMA MemoOpsStep ==
    ASSUME TInv, BInv, MemoOps, QueueGoesOn, [Next]_vars PROVE MemoOps'
<1>1. ASSUME NEW op \in Elems(queue) PROVE ticket'[op.of].kind = ticket[op.of].kind
  <2>1. op.of \in Tickets /\ op.of <= used
    BY BoundsAssumption DEF BInv, Begun, TInv, CountType, Tickets
  <2> QED
    BY <2>1, StepKeeps DEF Keeps
<1>2. ASSUME NEW new \in Elems(queue'), Fresh(new)
      PROVE  /\ new.kind = "memo" => ticket'[new.of].kind = "memo"
             /\ new.kind = "sell" => ticket'[new.of].kind # "memo"
  BY <1>2 DEF Fresh
<1>3. ASSUME NEW new \in Elems(queue'), NEW op \in Elems(queue), Stays(op, new)
      PROVE  /\ new.kind = "memo" => ticket'[new.of].kind = "memo"
             /\ new.kind = "sell" => ticket'[new.of].kind # "memo"
  BY <1>1, <1>3 DEF Stays, Alike, MemoOps
<1> QED
  BY <1>2, <1>3 DEF MemoOps, QueueGoesOn

\* What the replay of op leaves in the queue.
Leaves(op) ==
    /\ UniqueIds(queue')
    /\ \A new \in Elems(queue') : \/ new \in Elems(queue) /\ Id(new) # Id(op)
                                  \/ Stays(op, new)

LEMMA ReplayLeaves ==
    ASSUME TInv, AInv, NEW k \in Heads, ReplaySucceeds(k) \/ ReplayUnanswered(k) \/ ReplayRefused(k)
    PROVE  /\ Leaves(queue[k])
           /\ \/ UNCHANGED server
              \/ /\ Accepts(queue[k]) /\ Effect(queue[k])
                 /\ \A new \in Elems(queue') : new.result = 0 => new \in Elems(queue) /\ Id(new) # Id(queue[k])
<1>0. k \in DOMAIN queue /\ IsSeq(queue) /\ UniqueIds(queue) /\ queue[k] \in Elems(queue)
  BY OpsAreOps DEF Heads, Elems, AInv
<1> PICK op : op = queue[k]
  OBVIOUS
<1>1. CASE queue' = RemoveAt(queue, k) /\ Answered(op)
  <2>1. UniqueIds(RemoveAt(queue, k)) /\ \A new \in Elems(RemoveAt(queue, k)) : Id(new) # Id(op)
    BY <1>0, RemoveUnique
  <2>2. Elems(queue') \subseteq Elems(queue)
    BY <1>0, <1>1, RemoveElems
  <2> QED
    BY <1>1, <2>1, <2>2 DEF Leaves, Answered
<1>2. ASSUME NEW e, queue' = [queue EXCEPT ![k] = e], Stays(op, e),
             UNCHANGED server \/ (Accepts(op) /\ Effect(op) /\ e.result = Result(op))
      PROVE  /\ Leaves(op)
             /\ \/ UNCHANGED server
                \/ /\ Accepts(op) /\ Effect(op)
                   /\ \A new \in Elems(queue') : new.result = 0 => new \in Elems(queue) /\ Id(new) # Id(op)
  <2>1. Id(e) = Id(op)
    BY <1>2 DEF Stays, Alike, Id
  <2>2. /\ UniqueIds([queue EXCEPT ![k] = e])
        /\ \A new \in Elems([queue EXCEPT ![k] = e]) : new = e \/ (new \in Elems(queue) /\ Id(new) # Id(op))
    BY <1>0, <2>1, ReplaceUnique
  <2>3. Leaves(op)
    BY <1>2, <2>2 DEF Leaves
  <2>4. Accepts(op) => Result(op) # 0
    BY <1>0, OpsAreOps, ResultType
  <2> QED
    BY <1>2, <2>2, <2>3, <2>4
<1> QED
  BY <1>1, <1>2, ReplayCases

LEMMA ReplayQuiet ==
    ASSUME TInv, AInv, MemoOps', UNCHANGED <<used, ticket, doubted, server>>, NEW op \in Elems(queue), Leaves(op)
    PROVE  AInv'
<1>1. \A new \in Elems(queue') : \E o \in Elems(queue) : new.of = o.of
  BY DEF Leaves, Stays, Alike
<1>2. \A i \in Tickets : /\ Pristine(i)' => Unsent(i)'
                         /\ At(i, "reserve")' => ticket'[i].cart.reserve
  BY <1>1 DEF AInv, Pristine, Unsent, At
<1>3. ASSUME NEW new \in Elems(queue'), new.result = 0
      PROVE  \E o \in Elems(queue) : o.of = new.of /\ o.kind = new.kind /\ o.result = 0
  <2>1. CASE new \in Elems(queue)
    BY <1>3, <2>1
  <2>2. CASE Stays(op, new)
    <3>1. Accepts(op) => Result(op) # 0
      BY OpsAreOps, ResultType
    <3> QED
      BY <1>3, <2>2, <3>1 DEF Stays, Alike
  <2> QED
    BY <2>1, <2>2 DEF Leaves
<1>4. ASSUME NEW i \in Tickets \ doubted' PROVE OnceInv(i)'
  <2>1. OnceInv(i) /\ applied'[i] = applied[i] /\ RowsOf(i)' = RowsOf(i)
    BY DEF AInv, server, RowsOf
  <2>2. Pristine(i)' => Pristine(i) /\ ticket'[i] = ticket[i]
    BY DEF Pristine
  <2> QED
    BY <1>3, <2>1, <2>2, OnceStays
<1> QED
  BY <1>2, <1>4 DEF AInv, Leaves

\* What the server does for an operation that it has not applied.
LEMMA EffectOnce ==
    ASSUME ServerShape, NEW op, op.of \in Tickets, op.result = 0, Accepts(op), Effect(op)
    PROVE  /\ \A j \in Tickets \ {op.of} : applied'[j] = applied[j] /\ RowsOf(j)' = RowsOf(j)
           /\ applied'[op.of] = IF op.kind \in {"sell", "memo"} THEN applied[op.of] + 1 ELSE applied[op.of]
           /\ RowsOf(op.of)' = IF op.kind = "reserve" THEN RowsOf(op.of) \cup {NextRow} ELSE RowsOf(op.of)
<1>1. CASE op.kind \in {"sell", "memo"}
  <2>1. Served(op.of)
    BY <1>1 DEF Effect
  <2>2. row' = row \/ row' = Sold(op.of, ReplayRow(op))
    BY <1>1 DEF Effect
  <2>3. \A j \in Tickets : RowsOf(j)' = RowsOf(j)
    BY <2>2, SoldRows DEF RowsOf
  <2> QED
    BY <1>1, <2>1, <2>3, ServedOnce
<1>2. CASE op.kind = "reserve"
  <2>1. MayReserve(op.of) /\ row' = Reserved(op.of) /\ UNCHANGED applied
    BY <1>2 DEF Effect, Accepts
  <2> QED
    BY <1>2, <2>1, ReservedRows
<1>3. CASE op.kind \notin {"sell", "memo", "reserve"}
  <2>1. UNCHANGED applied /\ (row' = row \/ row' = Cancelled(op.of, ReplayRow(op)))
    BY <1>3 DEF Effect
  <2>2. \A j \in Tickets : RowsOf(j)' = RowsOf(j)
    BY <2>1, SoldRows DEF RowsOf
  <2> QED
    BY <1>3, <2>1, <2>2
<1> QED
  BY <1>1, <1>2, <1>3

LEMMA ReplayApplies ==
    ASSUME TInv, KInv, AInv, MemoOps', UNCHANGED <<used, ticket, doubted>>, NEW op \in Elems(queue), Leaves(op),
           op.result = 0, Accepts(op), Effect(op),
           \A new \in Elems(queue') : new.result = 0 => new \in Elems(queue) /\ Id(new) # Id(op)
    PROVE  AInv'
<1>1. \A new \in Elems(queue') : \E o \in Elems(queue) : new.of = o.of
  BY DEF Leaves, Stays, Alike
<1>2. \A i \in Tickets : /\ Pristine(i)' => Unsent(i)'
                         /\ At(i, "reserve")' => ticket'[i].cart.reserve
  BY <1>1 DEF AInv, Pristine, Unsent, At
<1> PICK i \in Tickets : i = op.of
  BY DEF KInv, QueueShape
<1>3. /\ \A j \in Tickets \ {i} : applied'[j] = applied[j] /\ RowsOf(j)' = RowsOf(j)
      /\ applied'[i] = IF op.kind \in {"sell", "memo"} THEN applied[i] + 1 ELSE applied[i]
      /\ RowsOf(i)' = IF op.kind = "reserve" THEN RowsOf(i) \cup {NextRow} ELSE RowsOf(i)
  BY EffectOnce DEF KInv
<1>4. ASSUME NEW j \in Tickets \ doubted', j # i PROVE OnceInv(j)'
  <2>1. OnceInv(j) /\ applied'[j] = applied[j] /\ RowsOf(j)' = RowsOf(j)
    BY <1>3, <1>4 DEF AInv
  <2>2. Pristine(j)' => Pristine(j) /\ ticket'[j] = ticket[j]
    BY DEF Pristine
  <2> QED
    BY <2>1, <2>2, OnceStays
<1>5. ASSUME i \notin doubted' PROVE OnceInv(i)'
  <2>0. OnceInv(i) /\ ~Pristine(i)' /\ applied[i] \in Nat
    BY <1>5 DEF AInv, Pristine, Unsent, TInv, ServerType
  <2>1. applied'[i] <= 1
    BY <1>3, <2>0 DEF OnceInv
  <2>2. AtMostOne(RowsOf(i)')
    <3>1. op.kind = "reserve" => RowsOf(i) = {}
      BY <2>0 DEF OnceInv
    <3>2. AtMostOne(RowsOf(i))
      BY <2>0 DEF OnceInv
    <3> QED
      BY <1>3, <3>1, <3>2 DEF AtMostOne
  <2>3. ASSUME NEW new \in Elems(queue'), new.of = i, new.result = 0
        PROVE  /\ new.kind \in {"sell", "memo"} => applied'[i] = 0
               /\ new.kind = "reserve" => RowsOf(i)' = {}
    <3>1. new \in Elems(queue) /\ new.kind # op.kind
      BY <2>3 DEF Id
    <3>2. /\ new.kind \in {"sell", "memo"} => applied[i] = 0 /\ op.kind \notin {"sell", "memo"}
          /\ new.kind = "reserve" => RowsOf(i) = {} /\ op.kind # "reserve"
      BY <2>0, <2>3, <3>1 DEF OnceInv, AInv, MemoOps
    <3> QED
      BY <1>3, <3>2
  <2> QED
    BY <2>0, <2>1, <2>2, <2>3 DEF OnceInv
<1>6. \A j \in Tickets \ doubted' : OnceInv(j)'
  BY <1>4, <1>5
<1> QED
  BY <1>2, <1>6 DEF AInv, Leaves

LEMMA OnceReplay == ASSUME TInv, KInv, AInv, MemoOps', Replay PROVE AInv'
<1> PICK k \in Heads : ReplaySucceeds(k) \/ ReplayUnanswered(k) \/ ReplayRefused(k)
  BY DEF Replay
<1> PICK op \in Elems(queue) : op = queue[k]
  BY DEF Heads, Elems
<1>1. UNCHANGED <<used, ticket, doubted>>
  BY DEF Replay, history
<1>2. /\ Leaves(op)
      /\ \/ UNCHANGED server
         \/ /\ Accepts(op) /\ Effect(op)
            /\ \A new \in Elems(queue') : new.result = 0 => new \in Elems(queue) /\ Id(new) # Id(op)
  BY ReplayLeaves
<1>3. CASE UNCHANGED server
  BY <1>1, <1>2, <1>3, ReplayQuiet
<1>4. CASE Effect(op) /\ op.result # 0
  <2>1. UNCHANGED server
    BY <1>4 DEF Effect
  <2> QED
    BY <1>1, <1>2, <2>1, ReplayQuiet
<1>5. CASE /\ Accepts(op) /\ Effect(op) /\ op.result = 0
           /\ \A new \in Elems(queue') : new.result = 0 => new \in Elems(queue) /\ Id(new) # Id(op)
  BY <1>1, <1>2, <1>5, ReplayApplies
<1> QED
  BY <1>2, <1>3, <1>4, <1>5

-----------------------------------------------------------------------------
LEMMA OnceStep == ASSUME TInv, KInv, BInv, AInv, [Next]_vars PROVE AInv'
<1>0. MemoOps'
  BY QueueStep, MemoOpsStep DEF BInv, AInv
<1>1. CASE \E i \in Tickets :
            \/ \E customer \in Customers : CompleteOnline(i, customer) \/ CompleteOffline(i, customer)
            \/ \E e \in listed : Pickup(i, e) \/ PickupFromDetails(i, e) \/ CancelReservation(i, e)
            \/ Memo(i)
  BY <1>0, <1>1, OnceOnline, OnceOffline, OnceCancel, OnceMemo
<1>2. CASE \E i \in Tickets : ReserveOnline(i) \/ SellOnline(i) \/ MemoSent(i)
  BY <1>0, <1>2, OnceReserve, OnceSell, OnceMemoSent
<1>3. CASE Replay
  BY <1>0, <1>3, OnceReplay
<1>4. CASE \E i \in Tickets : RefreshRead(i) \/ Refreshed(i)
  <2> PICK i \in Tickets : RefreshRead(i) \/ Refreshed(i)
    BY <1>4
  <2>1. UNCHANGED <<queue, used, server, doubted>>
    BY DEF RefreshRead, Refreshed, history
  <2>2. Shape /\ Moves(i)
    BY TypeShape, ServeMoves DEF Serve
  <2>3. \E pc \in {"reading", "done"}, seen \in {Fetched, {}} : ticket' = [ticket EXCEPT ![i].pc = pc, ![i].seen = seen]
    BY DEF RefreshRead, Refreshed
  <2>4. ticket'[i].pc \in {"reading", "done"}
    <3> PICK pc \in {"reading", "done"}, seen \in {Fetched, {}} :
            ticket' = [ticket EXCEPT ![i].pc = pc, ![i].seen = seen]
      BY <2>3
    <3>1. seen \subseteq Fetched
      OBVIOUS
    <3>2. Marks(i, ticket[i].kind, pc, ticket[i].number, ticket[i].recorded, ticket[i].customer, ticket[i].cart)
      BY <2>2, <3>1, SeenMarks
    <3> QED
      BY <3>2 DEF Marks
  <2>5. i <= used /\ used \in Nat
    <3>1. ticket[i].pc # "none"
      BY DEF RefreshRead, Refreshed, At
    <3> QED
      BY <3>1, BlankTicket, BoundsAssumption DEF BInv, Blank, TInv, CountType, Tickets
  <2>6. ~Pristine(i)' /\ ~At(i, "reserve")'
    BY <2>1, <2>4, <2>5, BoundsAssumption DEF Pristine, At, Tickets
  <2>7. \A j \in Tickets \ {i} : ticket'[j] = ticket[j]
    BY <2>2 DEF Moves, Marks
  <2>8. \A j \in Tickets : /\ Pristine(j)' => Pristine(j) /\ ticket'[j] = ticket[j]
                           /\ At(j, "reserve")' => At(j, "reserve") /\ ticket'[j] = ticket[j]
    BY <2>1, <2>6, <2>7 DEF Pristine, At
  <2> QED
    BY <1>0, <2>1, <2>8, QuietOnce
<1>5. CASE Reload
  <2>1. UNCHANGED <<queue, used, server, doubted>>
    BY <1>5 DEF Reload
  <2>2. ASSUME NEW i \in Tickets
        PROVE  /\ Pristine(i)' => Pristine(i) /\ ticket'[i] = ticket[i]
               /\ At(i, "reserve")' => At(i, "reserve") /\ ticket'[i] = ticket[i]
    <3>1. CASE ticket[i].pc \in {"reserve", "sell", "memo", "refresh", "reading"}
      <4>1. ~(i > used)
        BY <3>1, BlankTicket DEF BInv, Blank
      <4>2. ticket'[i].pc = "gone"
        <5> PICK t : t = ticket[i]
          OBVIOUS
        <5>1. IsTicket(t)
          BY TypeShape DEF Shape
        <5> DEFINE nothing == {}
        <5>2. ticket'[i] = [t EXCEPT !.pc = "gone", !.seen = nothing]
          BY <1>5, <3>1 DEF Reload
        <5> HIDE DEF nothing
        <5> QED
          BY <5>1, <5>2 DEF IsTicket
      <4> QED
        BY <2>1, <4>1, <4>2 DEF Pristine, At
    <3>2. CASE ticket[i].pc \notin {"reserve", "sell", "memo", "refresh", "reading"}
      <4>1. ticket'[i] = ticket[i]
        BY <1>5, <3>2 DEF Reload
      <4> QED
        BY <2>1, <4>1 DEF Pristine, At
    <3> QED
      BY <3>1, <3>2
  <2> QED
    BY <1>0, <2>1, <2>2, QuietOnce
<1>6. CASE \/ AddToCart \/ ChangeType \/ RemoveLine \/ AddLegacy \/ Audit
           \/ Probe \/ HydrateRead \/ HydrateApply \/ HydrateFails
           \/ ReplayStart \/ ReplayStop \/ UNCHANGED vars
  <2>1. UNCHANGED <<queue, used, server, doubted, ticket>>
    BY <1>6 DEF AddToCart, ChangeType, RemoveLine, AddLegacy, Audit, Probe, HydrateRead, HydrateApply,
                HydrateFails, ReplayStart, ReplayStop, vars, server, history
  <2>2. \A j \in Tickets : /\ Pristine(j)' => Pristine(j) /\ ticket'[j] = ticket[j]
                           /\ At(j, "reserve")' => At(j, "reserve") /\ ticket'[j] = ticket[j]
    BY <2>1 DEF Pristine, At
  <2> QED
    BY <1>0, <2>1, <2>2, QuietOnce
<1> QED
  BY <1>1, <1>2, <1>3, <1>4, <1>5, <1>6 DEF Next, Serve

LEMMA OnceInit == ASSUME Init PROVE AInv
<1>1. queue = <<>> /\ Elems(queue) = {} /\ UniqueIds(queue)
  BY DEF Init, Elems, UniqueIds
<1>2. \A i \in Tickets : ticket[i].pc = "none" /\ applied[i] = 0
  BY BlankTicket DEF Init
<1>3. \A i \in Tickets : RowsOf(i) = {}
  <2> PICK w : w = [NoRow EXCEPT !.state = "pending"]
    OBVIOUS
  <2>1. w.by = 0 /\ NoRow.by = 0
    BY DEF NoRow
  <2>2. \A r \in Rows : row[r] = w \/ row[r] = NoRow
    BY DEF Init
  <2>3. \A i \in Tickets : i # 0
    BY BoundsAssumption DEF Tickets
  <2> QED
    BY <2>1, <2>2, <2>3 DEF RowsOf
<1> QED
  BY <1>1, <1>2, <1>3 DEF AInv, MemoOps, Unsent, At, OnceInv, AtMostOne

\* One at most of each, hence the sums.
LEMMA AtMostOneCount ==
    ASSUME NEW S, AtMostOne(S) PROVE S # {} => Cardinality(S) = 1
BY FS_Singleton DEF AtMostOne

LEMMA UnappliedCount ==
    ASSUME UniqueIds(queue), NEW kind, NEW i
    PROVE  /\ Unapplied(kind, i) \in {0, 1}
           /\ Unapplied(kind, i) = 1 => \E op \in Elems(queue) : op.kind = kind /\ op.of = i /\ op.result = 0
<1> PICK S : S = {k \in DOMAIN queue : Id(queue[k]) = <<kind, i>> /\ queue[k].result = 0}
  OBVIOUS
<1>1. Unapplied(kind, i) = Cardinality(S) /\ AtMostOne(S)
  BY DEF Unapplied, UniqueIds, AtMostOne
<1>2. CASE S = {}
  BY <1>1, <1>2, FS_EmptySet
<1>3. CASE S # {}
  <2>1. Cardinality(S) = 1
    BY <1>1, <1>3, AtMostOneCount
  <2>2. \E op \in Elems(queue) : op.kind = kind /\ op.of = i /\ op.result = 0
    BY <1>3 DEF Elems, Id
  <2> QED
    BY <1>1, <2>1, <2>2
<1> QED
  BY <1>2, <1>3

LEMMA OnceIsOnce == ASSUME TInv, AInv PROVE AppliedOnceUnlessDoubted
<1>1. ASSUME NEW i \in Tickets \ doubted
      PROVE  /\ applied[i] + Unapplied("sell", i) + Unapplied("memo", i) <= 1
             /\ Cardinality(RowsOf(i)) + Unapplied("reserve", i) <= 1
  <2>0. OnceInv(i) /\ UniqueIds(queue) /\ applied[i] \in Nat
    BY DEF AInv, TInv, ServerType
  <2>1. /\ Unapplied("sell", i) \in {0, 1} /\ Unapplied("memo", i) \in {0, 1}
        /\ Unapplied("sell", i) = 0 \/ Unapplied("memo", i) = 0
        /\ Unapplied("sell", i) = 1 \/ Unapplied("memo", i) = 1 => applied[i] = 0
    BY <2>0, UnappliedCount DEF OnceInv, AInv, MemoOps
  <2>2. applied[i] + Unapplied("sell", i) + Unapplied("memo", i) <= 1
    BY <2>0, <2>1 DEF OnceInv
  <2>3. /\ Unapplied("reserve", i) \in {0, 1}
        /\ Unapplied("reserve", i) = 1 => RowsOf(i) = {}
    BY <2>0, UnappliedCount DEF OnceInv
  <2>4. Cardinality(RowsOf(i)) = IF RowsOf(i) = {} THEN 0 ELSE 1
    BY <2>0, AtMostOneCount, FS_EmptySet DEF OnceInv
  <2> QED
    BY <2>2, <2>3, <2>4
<1> QED
  BY <1>1 DEF AppliedOnceUnlessDoubted

(* A sale, a reservation, a withdrawal or a receipt is applied once, whatever *)
(* answers are lost and whatever is retried or refused, unless an online      *)
(* request of the ticket was applied and then counted as failed.             *)
THEOREM OnceTheorem == Spec => []AppliedOnceUnlessDoubted
<1>1. Init => NInv /\ KInv /\ TInv /\ BInv /\ AInv
  BY KeptInit, TypeInit, BackedInit, OnceInit
<1>2. NInv /\ KInv /\ TInv /\ BInv /\ AInv /\ [Next]_vars => (NInv /\ KInv /\ TInv /\ BInv /\ AInv)'
  BY NumberStep, KeptStepAny, TypeStep, BackedStep, OnceStep
<1>3. TInv /\ AInv => AppliedOnceUnlessDoubted
  BY OnceIsOnce
<1> QED
  BY <1>1, <1>2, <1>3, PTL DEF Spec

-----------------------------------------------------------------------------
(* What a link, a local id and an operation say of the rows.                 *)
Owned(r, i) == row[r].state # "none" /\ row[r].by = i

\* The ticket i is recorded, and its reservation has the local id n.
Named(i, n) == i \in 1..used /\ Counted(i) /\ ticket[i].number = n

TrueLink(e) == /\ e.side = "server" => Owned(e.n, e.from)
               /\ e.side = "local" => Named(e.from, e.n)

TrueOp(op) == op.kind = "reserve" => Counted(op.of) /\ (op.result # 0 => Owned(op.result, op.of))

TrueMap(map) == \A n \in Numbers : map[n] # 0 => \E i \in Tickets : Named(i, n) /\ Owned(map[n], i)

OwnRow(r) == row[r].ended # 0 => /\ row[r].ended \in 1..used
                                 /\ row[r].by = ticket[row[r].ended].cart.link.from

OInv ==
    /\ \A e \in Known : TrueLink(e)
    /\ \A op \in Elems(queue) : TrueOp(op)
    /\ TrueMap(mapped) /\ TrueMap(cycle.map)
    /\ ~clash => \A r \in Rows : OwnRow(r)

\* The row that a ticket completes or cancels is the one its link names.
Ends(i, r) ==
    /\ i \in 1..used
    /\ LET e == ticket[i].cart.link
       IN  \/ e.side = "server" /\ r = e.n
           \/ e.side = "local" /\ r = cycle.map[e.n]

RowGoesOn(r) ==
    /\ row[r].state # "none" => row'[r].state # "none" /\ row'[r].by = row[r].by
    /\ \/ row'[r].ended = 0
       \/ /\ row'[r].by = row[r].by
          /\ row'[r].ended = row[r].ended \/ \E i \in Tickets : row'[r].ended = i /\ Ends(i, r)

LEMMA RowsGoOnSame == ASSUME UNCHANGED row PROVE \A r \in Rows : RowGoesOn(r)
BY DEF RowGoesOn

LEMMA ReservedGoOn ==
    ASSUME ServerShape, NEW i \in Tickets, MayReserve(i), row' = Reserved(i)
    PROVE  (\A r \in Rows : RowGoesOn(r)) /\ \E n \in Rows : n = NextRow /\ Owned(n, i)'
<1>1. NextRow \in Rows /\ row[NextRow].state = "none"
  BY DEF MayReserve, NextRow
<1> PICK n \in Rows : n = NextRow
  BY <1>1
<1> PICK w : w = [state |-> "pending", by |-> i, ended |-> 0]
  OBVIOUS
<1>2. w.by = i /\ w.state # "none" /\ w.ended = 0
  OBVIOUS
<1>3. row' = [row EXCEPT ![n] = w]
  BY DEF Reserved
<1>4. row'[n] = w /\ \A r \in Rows \ {n} : row'[r] = row[r]
  BY <1>3 DEF ServerShape, RowShape
<1>5. row'[n].by = i /\ row'[n].state # "none" /\ row'[n].ended = 0
  BY <1>2, <1>4
<1>6. \A r \in Rows : RowGoesOn(r)
  BY <1>1, <1>4, <1>5 DEF RowGoesOn
<1>7. Owned(n, i)'
  BY <1>5 DEF Owned
<1> QED
  BY <1>6, <1>7

LEMMA EndedGoOn ==
    ASSUME ServerShape, NEW i \in Tickets, NEW r, NEW x, x # "none", Ends(i, r),
           row' = [row EXCEPT ![r].state = x, ![r].ended = i]
    PROVE  \A s \in Rows : RowGoesOn(s)
<1>1. CASE r \notin Rows
  BY <1>1 DEF ServerShape, RowShape, RowGoesOn
<1>2. CASE r \in Rows
  <2> PICK v : v = row[r]
    OBVIOUS
  <2>1. IsRow(v)
    BY <1>2 DEF ServerShape, RowShape
  <2> PICK w : w = [v EXCEPT !.state = x, !.ended = i]
    OBVIOUS
  <2>2. w = [state |-> x, by |-> v.by, ended |-> i]
    BY <2>1 DEF IsRow
  <2>3. w.by = v.by /\ w.state # "none" /\ w.ended = i
    BY <2>2
  <2>4. row' = [row EXCEPT ![r] = w]
    BY <1>2 DEF ServerShape, RowShape
  <2>5. row'[r] = w /\ \A s \in Rows \ {r} : row'[s] = row[s]
    BY <1>2, <2>4 DEF ServerShape, RowShape
  <2> QED
    BY <2>3, <2>5 DEF RowGoesOn
<1> QED
  BY <1>1, <1>2

LEMMA SoldGoOn ==
    ASSUME ServerShape, NEW i \in Tickets, NEW r, r # 0 => Ends(i, r),
           row' = Sold(i, r) \/ (r # 0 /\ row' = Cancelled(i, r))
    PROVE  \A s \in Rows : RowGoesOn(s)
<1>1. CASE row' = row
  BY <1>1, RowsGoOnSame
<1>2. CASE r # 0 /\ row' = [row EXCEPT ![r].state = "completed", ![r].ended = i]
  BY <1>2, EndedGoOn
<1>3. CASE r # 0 /\ row' = [row EXCEPT ![r].state = "cancelled", ![r].ended = i]
  BY <1>3, EndedGoOn
<1> QED
  BY <1>1, <1>2, <1>3 DEF Sold, Cancelled

\* What an operation of the queue has done, or does now, to the rows.
LEMMA EffectGoesOn ==
    ASSUME TInv, KInv, BInv, NEW op \in Elems(queue), Accepts(op), Effect(op)
    PROVE  \A r \in Rows : RowGoesOn(r)
<1>0. op.of \in Tickets /\ op.of \in 1..used /\ ServerShape /\ op.kind \in OpKinds
  BY OpsAreOps DEF KInv, QueueShape, BInv, Begun, QueuedOp, Op
<1>1. CASE op.result # 0
  BY <1>1, RowsGoOnSame DEF Effect, server
<1>2. CASE op.result = 0
  <2> PICK r : r = ReplayRow(op)
    OBVIOUS
  <2>1. r # 0 => Ends(op.of, r)
    BY <1>0 DEF ReplayRow, Ends
  <2>2. CASE op.kind = "reserve"
    <3>1. MayReserve(op.of) /\ row' = Reserved(op.of)
      BY <1>2, <2>2 DEF Effect, Accepts
    <3> QED
      BY <1>0, <3>1, ReservedGoOn
  <2>3. CASE op.kind = "sell"
    <3>1. row' = Sold(op.of, r)
      BY <1>2, <2>3 DEF Effect
    <3> QED
      BY <1>0, <2>1, <3>1, SoldGoOn
  <2>4. CASE op.kind = "cancel"
    <3>1. row' = Cancelled(op.of, r) /\ r # 0
      BY <1>2, <2>4 DEF Effect, Accepts, MayCancel
    <3> QED
      BY <1>0, <2>1, <3>1, SoldGoOn
  <2>5. CASE op.kind \notin {"reserve", "sell", "cancel"}
    <3>1. row' = row
      BY <1>2, <2>5 DEF Effect
    <3> QED
      BY <3>1, RowsGoOnSame
  <2> QED
    BY <2>2, <2>3, <2>4, <2>5
<1> QED
  BY <1>1, <1>2

\* The row that the server answers to a reservation of the queue is its own.
LEMMA ResultOwned ==
    ASSUME TInv, KInv, BInv, NEW op \in Elems(queue), TrueOp(op), op.kind = "reserve", Accepts(op), Effect(op)
    PROVE  \E n \in Rows : n = Result(op) /\ Owned(n, op.of)'
<1>0. op.of \in Tickets /\ ServerShape
  BY DEF KInv, QueueShape
<1>1. CASE op.result # 0
  <2>1. Result(op) = op.result /\ op.result \in Rows
    BY <1>1, OpsAreOps, ResultType DEF Result
  <2>2. Owned(op.result, op.of)
    BY <1>1 DEF TrueOp
  <2> PICK n \in Rows : n = Result(op)
    BY <2>1
  <2>3. RowGoesOn(n)
    BY EffectGoesOn
  <2> QED
    BY <2>1, <2>2, <2>3 DEF RowGoesOn, Owned
<1>2. CASE op.result = 0
  <2>1. MayReserve(op.of) /\ row' = Reserved(op.of) /\ Result(op) = NextRow
    BY <1>2 DEF Effect, Accepts, Result
  <2> QED
    BY <1>0, <2>1, ReservedGoOn
<1> QED
  BY <1>1, <1>2

LEMMA SellGoesOn ==
    ASSUME TInv, KInv, BInv, NEW i \in Tickets, SellOnline(i) PROVE \A r \in Rows : RowGoesOn(r)
<1> PICK r : r = OnlineRow(ticket[i].cart.link)
  OBVIOUS
<1>0. ServerShape /\ i \in 1..used
  <2>1. ticket[i].pc # "none"
    BY DEF SellOnline, At
  <2> QED
    BY <2>1, BlankTicket, BoundsAssumption DEF KInv, BInv, Blank, TInv, CountType, Tickets
<1>1. r # 0 => Ends(i, r)
  BY <1>0 DEF OnlineRow, Ends
<1>2. row' = Sold(i, r) \/ UNCHANGED row
  BY DEF SellOnline, server
<1> QED
  BY <1>0, <1>1, <1>2, SoldGoOn, RowsGoOnSame

LEMMA RowStep == ASSUME TInv, KInv, BInv, [Next]_vars PROVE \A r \in Rows : RowGoesOn(r)
<1>1. CASE \E i \in Tickets : ReserveOnline(i)
  <2> PICK i \in Tickets : ReserveOnline(i)
    BY <1>1
  <2>1. UNCHANGED row \/ (MayReserve(i) /\ row' = Reserved(i))
    BY DEF ReserveOnline
  <2> QED
    BY <2>1, ReservedGoOn, RowsGoOnSame DEF KInv
<1>2. CASE \E i \in Tickets : SellOnline(i)
  BY <1>2, SellGoesOn
<1>3. CASE Replay
  <2> PICK k \in Heads : ReplaySucceeds(k) \/ ReplayUnanswered(k) \/ ReplayRefused(k)
    BY <1>3 DEF Replay
  <2> PICK op \in Elems(queue) : op = queue[k]
    BY DEF Heads, Elems
  <2>1. UNCHANGED row \/ (Accepts(op) /\ Effect(op))
    BY DEF ReplaySucceeds, ReplayUnanswered, ReplayRefused, server
  <2> QED
    BY <2>1, EffectGoesOn, RowsGoOnSame
<1>4. CASE \E i \in Tickets :
            \/ \E customer \in Customers : CompleteOnline(i, customer) \/ CompleteOffline(i, customer)
            \/ \E e \in listed : Pickup(i, e) \/ PickupFromDetails(i, e) \/ CancelReservation(i, e)
            \/ Memo(i) \/ RefreshRead(i) \/ Refreshed(i) \/ MemoSent(i)
  <2>1. UNCHANGED row
    BY <1>4 DEF CompleteOnline, CompleteOffline, Pickup, PickupFromDetails, CancelReservation, Memo,
                RefreshRead, Refreshed, MemoSent, server
  <2> QED
    BY <2>1, RowsGoOnSame
<1>5. CASE \/ AddToCart \/ ChangeType \/ RemoveLine \/ AddLegacy \/ Audit
           \/ Probe \/ HydrateRead \/ HydrateApply \/ HydrateFails \/ Reload
           \/ ReplayStart \/ ReplayStop \/ UNCHANGED vars
  <2>1. UNCHANGED row
    BY <1>5 DEF AddToCart, ChangeType, RemoveLine, AddLegacy, Audit, Probe, HydrateRead, HydrateApply,
                HydrateFails, Reload, ReplayStart, ReplayStop, vars, server
  <2> QED
    BY <2>1, RowsGoOnSame
<1> QED
  BY <1>1, <1>2, <1>3, <1>4, <1>5 DEF Next, Serve

LEMMA CycleStep ==
    ASSUME TInv, [Next]_vars PROVE cycle'.map \in {cycle.map, mapped, NoMap}
<1>1. cycle' = cycle \/ cycle' = [on |-> TRUE, map |-> mapped] \/ cycle' = NoCycle
  <2>1. CASE \E i \in Tickets :
              \/ \E customer \in Customers : CompleteOnline(i, customer) \/ CompleteOffline(i, customer)
              \/ \E e \in listed : Pickup(i, e) \/ PickupFromDetails(i, e) \/ CancelReservation(i, e)
              \/ Memo(i) \/ Serve(i)
    BY <2>1 DEF CompleteOnline, CompleteOffline, Pickup, PickupFromDetails, CancelReservation, Memo, Serve,
                ReserveOnline, SellOnline, RefreshRead, Refreshed, MemoSent
  <2>2. CASE \/ AddToCart \/ ChangeType \/ RemoveLine \/ AddLegacy \/ Audit
             \/ Probe \/ HydrateRead \/ HydrateApply \/ HydrateFails \/ Reload
             \/ ReplayStart \/ ReplayStop \/ Replay \/ UNCHANGED vars
    BY <2>2 DEF AddToCart, ChangeType, RemoveLine, AddLegacy, Audit, Probe, HydrateRead, HydrateApply,
                HydrateFails, Reload, ReplayStart, ReplayStop, Replay, ReplaySucceeds, ReplayUnanswered,
                ReplayRefused, vars
  <2> QED
    BY <2>1, <2>2 DEF Next
<1>2. NoCycle.map = NoMap
  BY DEF NoCycle
<1> QED
  BY <1>1, <1>2

LEMMA ClashStep == ASSUME TInv, [Next]_vars, ~clash' PROVE ~clash
<1>1. CASE \E i \in Tickets :
            \/ \E customer \in Customers : CompleteOnline(i, customer) \/ CompleteOffline(i, customer)
            \/ \E e \in listed : Pickup(i, e) \/ PickupFromDetails(i, e)
  BY <1>1 DEF CompleteOnline, CompleteOffline, Pickup, PickupFromDetails, Numbered
<1>2. CASE \E i \in Tickets : (\E e \in listed : CancelReservation(i, e)) \/ Memo(i) \/ Serve(i)
  BY <1>2 DEF CancelReservation, Memo, Serve, ReserveOnline, SellOnline, RefreshRead, Refreshed, MemoSent, history
<1>3. CASE \/ AddToCart \/ ChangeType \/ RemoveLine \/ AddLegacy \/ Audit
           \/ Probe \/ HydrateRead \/ HydrateApply \/ HydrateFails \/ Reload
           \/ ReplayStart \/ ReplayStop \/ Replay \/ UNCHANGED vars
  BY <1>3 DEF AddToCart, ChangeType, RemoveLine, AddLegacy, Audit, Probe, HydrateRead, HydrateApply,
              HydrateFails, Reload, ReplayStart, ReplayStop, Replay, vars, history
<1> QED
  BY <1>1, <1>2, <1>3 DEF Next

-----------------------------------------------------------------------------
(* What is true of a ticket and of a row stays true.                         *)
LEMMA NamedStays ==
    ASSUME TInv, TInv', [Next]_vars, NEW i, NEW n, Named(i, n) PROVE Named(i, n)'
<1>1. i \in Tickets /\ i <= used /\ used \in Nat /\ used' \in Nat
  BY BoundsAssumption DEF Named, TInv, CountType, Tickets
<1>2. Keeps(i) /\ used <= used'
  BY <1>1, StepKeeps
<1> QED
  BY <1>1, <1>2 DEF Named, Counted, Keeps

LEMMA OwnedStays ==
    ASSUME NEW r \in Rows, RowGoesOn(r), NEW i, Owned(r, i) PROVE Owned(r, i)'
BY DEF Owned, RowGoesOn

LEMMA MapStays ==
    ASSUME TInv, TInv', [Next]_vars, \A r \in Rows : RowGoesOn(r), NEW map \in Maps, TrueMap(map)
    PROVE  \A n \in Numbers : map[n] # 0 => \E i \in Tickets : Named(i, n)' /\ Owned(map[n], i)'
<1>1. ASSUME NEW n \in Numbers, map[n] # 0 PROVE \E i \in Tickets : Named(i, n)' /\ Owned(map[n], i)'
  <2>1. PICK i \in Tickets : Named(i, n) /\ Owned(map[n], i)
    BY <1>1 DEF TrueMap
  <2>2. map[n] \in Rows
    BY <1>1, BoundsAssumption DEF Maps, Rows
  <2> PICK r \in Rows : r = map[n]
    BY <2>2
  <2>3. Named(i, n)' /\ Owned(r, i)'
    BY <2>1, NamedStays, OwnedStays
  <2> QED
    BY <2>3
<1> QED
  BY <1>1

LEMMA LinkStays ==
    ASSUME TInv, TInv', [Next]_vars, \A r \in Rows : RowGoesOn(r), NEW e, e \in Links \cup {NoEntry}, TrueLink(e)
    PROVE  TrueLink(e)'
<1>1. CASE e.side = "server"
  <2>1. e.n \in Rows /\ Owned(e.n, e.from)
    BY <1>1, LinksAreEntries DEF TrueLink
  <2>2. Owned(e.n, e.from)'
    BY <2>1, OwnedStays
  <2> QED
    BY <1>1, <2>2 DEF TrueLink
<1>2. CASE e.side = "local"
  <2>1. Named(e.from, e.n)'
    BY <1>2, NamedStays DEF TrueLink
  <2> QED
    BY <1>2, <2>1 DEF TrueLink
<1> QED
  BY <1>1, <1>2 DEF TrueLink

LEMMA KnownAreLinks == ASSUME TInv PROVE Known \subseteq Links \cup {NoEntry}
BY DEF Known, SeenLinks, TicketLinks, TInv, PageType, TicketType, LinkedTicket, LinkedCart

LEMMA LinksStep ==
    ASSUME TInv, TInv', KInv, OInv, [Next]_vars, \A r \in Rows : RowGoesOn(r) PROVE \A e \in Known' : TrueLink(e)'
<1>1. ASSUME NEW e \in Known PROVE TrueLink(e)'
  BY KnownAreLinks, LinkStays DEF OInv
<1>2. ASSUME NEW e \in Fetched PROVE TrueLink(e)'
  <2>1. e \in Links
    BY FetchedLinks DEF TInv
  <2>2. TrueLink(e)
    BY DEF Fetched, Pending, TrueLink, Owned
  <2> QED
    BY <2>1, <2>2, LinkStays
<1>3. TrueLink(NoEntry)' /\ TrueLink(Legacy)'
  BY DEF NoEntry, Legacy, TrueLink
<1>4. ASSUME NEW e, NEW i \in Tickets, Makes(i), e = MadeHere(i, ticket'[i]) PROVE TrueLink(e)'
  <2> PICK n : n = ticket'[i].number
    OBVIOUS
  <2>1. i \in 1..used'
    BY <1>4, BoundsAssumption DEF Makes, TInv, CountType, Tickets
  <2>2. Named(i, n)'
    BY <1>4, <2>1 DEF Makes, Named, Counted
  <2>3. e.side = "local" /\ e.n = n /\ e.from = i
    BY <1>4 DEF MadeHere
  <2> QED
    BY <2>2, <2>3 DEF TrueLink
<1> QED
  BY <1>1, <1>2, <1>3, <1>4, KnownOrigin DEF Origin

LEMMA OpsStep ==
    ASSUME TInv, TInv', KInv, BInv, OInv, [Next]_vars, \A r \in Rows : RowGoesOn(r)
    PROVE  \A op \in Elems(queue') : TrueOp(op)'
<1>0. QueueGoesOn
  BY QueueStep DEF BInv
<1>1. ASSUME NEW new \in Elems(queue'), Fresh(new) PROVE TrueOp(new)'
  BY <1>1 DEF Fresh, TrueOp, Counted
<1>2. ASSUME NEW new \in Elems(queue'), NEW op \in Elems(queue), Stays(op, new), new.kind = "reserve"
      PROVE  TrueOp(new)'
  <2>0. op.of \in 1..used /\ op.of \in Tickets /\ TrueOp(op) /\ op.kind = "reserve" /\ new.of = op.of
    BY <1>2 DEF OInv, BInv, Begun, KInv, QueueShape, Stays, Alike
  <2>1. Counted(op.of)'
    <3>1. Counted(op.of) /\ Keeps(op.of)
      BY <2>0, StepKeeps, BoundsAssumption DEF TrueOp, TInv, CountType
    <3> QED
      BY <3>1 DEF Counted, Keeps
  <2>2. CASE new.result = op.result
    <3>1. op.result # 0 => op.result \in Rows
      BY <2>0, OpsAreOps, BoundsAssumption DEF QueuedOp, Op, Rows
    <3>2. op.result # 0 => Owned(op.result, op.of)'
      BY <2>0, <3>1, OwnedStays DEF TrueOp
    <3> QED
      BY <2>0, <2>1, <2>2, <3>2 DEF TrueOp
  <2>3. CASE Accepts(op) /\ Effect(op) /\ new.result = Result(op)
    <3> PICK n \in Rows : n = Result(op) /\ Owned(n, op.of)'
      BY <2>0, <2>3, ResultOwned
    <3> QED
      BY <2>0, <2>1, <2>3 DEF TrueOp
  <2> QED
    BY <1>2, <2>2, <2>3 DEF Stays
<1> QED
  BY <1>0, <1>1, <1>2 DEF QueueGoesOn, TrueOp

LEMMA MappedStep ==
    ASSUME TInv, TInv', KInv, BInv, OInv, [Next]_vars, \A r \in Rows : RowGoesOn(r)
    PROVE  TrueMap(mapped)'
<1> PICK map : map = mapped
  OBVIOUS
<1>0. map \in Maps /\ \A n \in Numbers : map[n] # 0 => \E i \in Tickets : Named(i, n)' /\ Owned(map[n], i)'
  <2>1. map \in Maps /\ TrueMap(map)
    BY DEF TInv, QueueType, OInv
  <2> QED
    BY <2>1, MapStays
<1>1. CASE UNCHANGED mapped
  <2>1. ASSUME NEW n \in Numbers, mapped'[n] # 0
        PROVE  \E i \in Tickets : Named(i, n)' /\ row'[mapped'[n]].state # "none" /\ row'[mapped'[n]].by = i
    BY <1>0, <1>1, <2>1 DEF Owned
  <2> QED
    BY <2>1 DEF TrueMap, Owned
<1>2. CASE \E op \in Elems(queue) : /\ op.kind = "reserve" /\ Accepts(op) /\ Effect(op) /\ Result(op) # 0
                                    /\ mapped' = [mapped EXCEPT ![ticket[op.of].number] = Result(op)]
  <2> PICK op \in Elems(queue) : /\ op.kind = "reserve" /\ Accepts(op) /\ Effect(op)
                                 /\ mapped' = [mapped EXCEPT ![ticket[op.of].number] = Result(op)]
    BY <1>2
  <2>0. TrueOp(op) /\ op.of \in 1..used /\ op.of \in Tickets
    BY DEF OInv, BInv, Begun, KInv, QueueShape
  <2> PICK r \in Rows : r = Result(op) /\ Owned(r, op.of)'
    BY <2>0, ResultOwned
  <2> PICK m : m = ticket[op.of].number
    OBVIOUS
  <2>1. Named(op.of, m)
    BY <2>0 DEF TrueOp, Named
  <2>2. Named(op.of, m)'
    BY <2>1, NamedStays
  <2>3. mapped' = [mapped EXCEPT ![m] = r] /\ m \in Numbers
    BY <2>0, BoundsAssumption DEF TInv, TicketType, LinkedTicket, Tickets, Numbers
  <2>4. mapped'[m] = r /\ \A n \in Numbers \ {m} : mapped'[n] = mapped[n]
    BY <1>0, <2>3 DEF Maps
  <2>5. ASSUME NEW n \in Numbers, mapped'[n] # 0
        PROVE  \E i \in Tickets : Named(i, n)' /\ row'[mapped'[n]].state # "none" /\ row'[mapped'[n]].by = i
    <3>1. CASE n = m
      BY <2>0, <2>2, <2>4, <3>1 DEF Owned
    <3>2. CASE n # m
      BY <1>0, <2>4, <2>5, <3>2 DEF Owned
    <3> QED
      BY <3>1, <3>2
  <2> QED
    BY <2>5 DEF TrueMap, Owned
<1> QED
  BY <1>1, <1>2, MapStep

LEMMA CycleMapStep ==
    ASSUME TInv, TInv', OInv, [Next]_vars, \A r \in Rows : RowGoesOn(r)
    PROVE  TrueMap(cycle.map)'
<1>0. mapped \in Maps /\ cycle.map \in Maps /\ TrueMap(mapped) /\ TrueMap(cycle.map)
  BY DEF TInv, QueueType, OInv
<1> PICK map : map = cycle'.map
  OBVIOUS
<1>1. \A n \in Numbers : map[n] # 0 => \E i \in Tickets : Named(i, n)' /\ Owned(map[n], i)'
  <2>1. CASE map = mapped \/ map = cycle.map
    <3> PICK old \in Maps : TrueMap(old) /\ map = old
      BY <1>0, <2>1
    <3>1. \A n \in Numbers : old[n] # 0 => \E i \in Tickets : Named(i, n)' /\ Owned(old[n], i)'
      BY MapStays
    <3> QED
      BY <3>1
  <2>2. CASE map = NoMap
    BY <2>2 DEF NoMap
  <2> QED
    BY <2>1, <2>2, CycleStep
<1>2. ASSUME NEW n \in Numbers, cycle'.map[n] # 0
      PROVE  \E i \in Tickets : Named(i, n)' /\ row'[cycle'.map[n]].state # "none" /\ row'[cycle'.map[n]].by = i
  BY <1>1, <1>2 DEF Owned
<1> QED
  BY <1>2 DEF TrueMap, Owned

\* The row that a link names is that of the ticket the link comes from.
LEMMA EndsOwn ==
    ASSUME NInv, TInv, OInv, ~clash, NEW i \in Tickets, NEW r \in Rows, Ends(i, r)
    PROVE  row[r].by = ticket[i].cart.link.from
<1> PICK e : e = ticket[i].cart.link
  OBVIOUS
<1>0. e \in Known /\ TrueLink(e) /\ e \in Links \cup {NoEntry}
  BY KnownParts, KnownAreLinks DEF OInv
<1>1. CASE e.side = "server" /\ r = e.n
  BY <1>0, <1>1 DEF TrueLink, Owned
<1>2. CASE e.side = "local" /\ r = cycle.map[e.n]
  <2>1. Named(e.from, e.n) /\ e.n \in Numbers /\ e.from \in Tickets
    BY <1>0, <1>2, LinksAreEntries, BoundsAssumption DEF TrueLink, Tickets, Numbers
  <2>2. r # 0
    BY BoundsAssumption DEF Rows
  <2>3. PICK j \in Tickets : Named(j, e.n) /\ Owned(r, j)
    BY <1>2, <2>1, <2>2 DEF OInv, TrueMap
  <2>4. j = e.from
    BY <2>1, <2>3 DEF NInv, Numbering, Named
  <2> QED
    BY <2>3, <2>4 DEF Owned
<1> QED
  BY <1>1, <1>2 DEF Ends

LEMMA OwnStep == ASSUME NInv, KInv, TInv, BInv, OInv, [Next]_vars PROVE OInv'
<1>0. TInv' /\ \A r \in Rows : RowGoesOn(r)
  BY TypeStep, RowStep
<1>1. (\A e \in Known' : TrueLink(e)') /\ (\A op \in Elems(queue') : TrueOp(op)')
      /\ TrueMap(mapped)' /\ TrueMap(cycle.map)'
  BY <1>0, LinksStep, OpsStep, MappedStep, CycleMapStep
<1>2. ASSUME ~clash', NEW r \in Rows PROVE OwnRow(r)'
  <2>0. ~clash /\ OwnRow(r) /\ RowGoesOn(r)
    BY <1>0, <1>2, ClashStep DEF OInv
  <2>1. ASSUME NEW i \in 1..used, row'[r].ended = i, row'[r].by = ticket[i].cart.link.from PROVE OwnRow(r)'
    <3>1. i \in Tickets /\ i <= used /\ used \in Nat /\ used' \in Nat
      BY <1>0, BoundsAssumption DEF TInv, CountType, Tickets
    <3>2. ticket'[i].cart = ticket[i].cart /\ used <= used'
      BY <3>1, StepKeeps DEF Keeps
    <3>3. i \in 1..used'
      BY <3>1, <3>2 DEF Tickets
    <3> QED
      BY <2>1, <3>2, <3>3 DEF OwnRow
  <2>2. CASE row'[r].ended = 0
    BY <2>2 DEF OwnRow
  <2>3. CASE row'[r].by = row[r].by /\ row'[r].ended = row[r].ended /\ row[r].ended # 0
    BY <2>0, <2>1, <2>3 DEF OwnRow
  <2>4. CASE row'[r].by = row[r].by /\ \E i \in Tickets : row'[r].ended = i /\ Ends(i, r)
    <3> PICK i \in Tickets : row'[r].ended = i /\ Ends(i, r)
      BY <2>4
    <3>1. row[r].by = ticket[i].cart.link.from
      BY <2>0, EndsOwn
    <3>2. i \in 1..used
      BY DEF Ends
    <3> QED
      BY <2>1, <2>4, <3>1, <3>2
  <2> QED
    BY <2>0, <2>2, <2>3, <2>4 DEF RowGoesOn
<1> QED
  BY <1>1, <1>2 DEF OInv

LEMMA OwnInit == ASSUME Init PROVE OInv
<1>1. \A e \in Known : TrueLink(e)
  <2>1. row[1].state = "pending" /\ row[1].by = 0
    <3> PICK w : w = [NoRow EXCEPT !.state = "pending"]
      OBVIOUS
    <3>1. w.state = "pending" /\ w.by = 0
      BY DEF NoRow
    <3>2. row[1] = w
      BY BoundsAssumption DEF Init, Rows
    <3> QED
      BY <3>1, <3>2
  <2>2. Owned(1, 0) /\ NoEntry.side = "none"
    BY <2>1, LinksAreEntries DEF Owned
  <2> QED
    BY <2>2, InitKnown DEF TrueLink
<1>2. Elems(queue) = {}
  BY DEF Init, Elems
<1>3. TrueMap(NoMap) /\ mapped = NoMap /\ cycle.map = NoMap
  BY DEF Init, NoMap, NoCycle, TrueMap
<1>4. \A r \in Rows : row[r].ended = 0
  <2> PICK w : w = [NoRow EXCEPT !.state = "pending"]
    OBVIOUS
  <2>1. w.ended = 0 /\ NoRow.ended = 0
    BY DEF NoRow
  <2>2. \A r \in Rows : row[r] = w \/ row[r] = NoRow
    BY DEF Init
  <2> QED
    BY <2>1, <2>2
<1> QED
  BY <1>1, <1>2, <1>3, <1>4 DEF OInv, OwnRow

(* No reservation is completed or cancelled in place of another: unless a     *)
(* receipt number may have been given twice, the row that a ticket ends is    *)
(* the one its line was linked to, found by its number or by the local id    *)
(* that the map of an earlier render gives for it.                          *)
THEOREM OwnTheorem == Spec => []OwnReservation
<1>1. Init => NInv /\ KInv /\ TInv /\ BInv /\ OInv
  BY KeptInit, TypeInit, BackedInit, OwnInit
<1>2. NInv /\ KInv /\ TInv /\ BInv /\ OInv /\ [Next]_vars => (NInv /\ KInv /\ TInv /\ BInv /\ OInv)'
  BY NumberStep, KeptStepAny, TypeStep, BackedStep, OwnStep
<1>3. OInv => OwnReservation
  BY DEF OInv, OwnRow, OwnReservation
<1> QED
  BY <1>1, <1>2, <1>3, PTL DEF Spec

=============================================================================
