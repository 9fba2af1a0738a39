------------------------- MODULE StudentWalletProofs -------------------------
(***************************************************************************)
(* Proofs about the wallet, for any number of tickets, any amounts and any *)
(* number of faults, of changes by other tills and of reloads.              *)
(***************************************************************************)
EXTENDS StudentWallet, FiniteSetTheorems, TLAPS

LEMMA TypeInit == Init => TypeOK
<1> SUFFICES ASSUME Init PROVE TypeOK
  OBVIOUS
<1>1. ticket \in [Tickets -> Ticket]
  BY DEF Init, NoTicket, Ticket, Kinds, Pc
<1>2. opening \in Int /\ balance \in Int /\ shown \in Int
  BY AmountsAssumption DEF Init
<1>3. hydration \in [pc : {"none", "start", "reading"}, seen : Int]
  BY DEF Init, NoHydration
<1>4. sending \in [on : BOOLEAN, of : 0..MaxTickets, target : Int, read : Int] /\ used \in 0..MaxTickets
  BY BoundsAssumption DEF Init, NotSending
<1>5. events \in 0..MaxEvents /\ faults \in 0..MaxFaults
  BY BoundsAssumption DEF Init
<1>6. migration \in [pc : {"none", "read", "summed", "done"}, legacy : Int, sum : Int]
  BY DEF Init
<1> QED
  BY <1>1, <1>2, <1>3, <1>4, <1>5, <1>6 DEF Init, TypeOK

LEMMA FaultType == ASSUME TypeOK, Fault PROVE faults' \in 0..MaxFaults
BY BoundsAssumption DEF TypeOK, Fault

LEMMA KindsType == \A kind \in {"sale", "pickup", "return", "cancel", "edit"} : kind \in Kinds
BY DEF Kinds

LEMMA NewTicketType ==
    ASSUME TypeOK, NEW d \in Int, NEW kind \in Kinds
    PROVE  NewTicket(kind, d) \in Ticket /\ NewTicket(kind, d).kind = kind
<1>1. counter \in Nat /\ shown \in Int
  BY DEF TypeOK
<1>2. NoTicket \in Ticket
  BY DEF NoTicket, Ticket, Kinds, Pc
<1>3. NewTicket(kind, d) = [NoTicket EXCEPT !.kind = kind, !.number = counter, !.before = shown, !.delta = d]
  BY DEF NewTicket
<1>5. NewTicket(kind, d) \in Ticket
  BY <1>1, <1>2, <1>3 DEF Ticket
<1>6. NewTicket(kind, d).kind = kind
  BY <1>2, <1>3 DEF Ticket
<1> QED
  BY <1>5, <1>6

LEMMA WalletOpType ==
    ASSUME TypeOK, NEW i \in Tickets, NEW t \in Ticket
    PROVE  WalletOp(i, t) \in Op
BY DEF TypeOK, WalletOp, Op, Ids, Ticket

LEMMA EnqueueType == ASSUME TypeOK, NEW op \in Op PROVE Enqueue(op) \subseteq Op
BY DEF TypeOK, Enqueue

LEMMA SendType ==
    ASSUME TypeOK, NEW i \in Tickets, NEW t \in Ticket,
           Send(i, t)
    PROVE  queue' \subseteq Op /\ disturbed' \in BOOLEAN
<1>1. CASE ledger /\ t.delta = 0
  BY <1>1 DEF Send, TypeOK
<1>2. CASE ~(ledger /\ t.delta = 0)
  <2>1. queue' = Enqueue(WalletOp(i, t)) /\ disturbed' = (disturbed \/ Loses(i, t))
    BY <1>2 DEF Send
  <2>2. disturbed' \in BOOLEAN
    BY <2>1, Zenon
  <2> QED
    BY <2>1, <2>2, WalletOpType, EnqueueType
<1> QED
  BY <1>1, <1>2

(* The parts of the state that a step of the till leaves alone. *)
Kept == UNCHANGED <<given, server, events>>

LEMMA TypeFrame ==
    ASSUME TypeOK, Kept,
           online' \in BOOLEAN, counter' \in Nat, shown' \in Int, owed' \in Int,
           queue' \subseteq Op, ticket' \in [Tickets -> Ticket], used' \in Tickets,
           hydration' \in [pc : {"none", "start", "reading"}, seen : Int],
           disturbed' \in BOOLEAN, faults' \in 0..MaxFaults
    PROVE  TypeOK'
<1>1. /\ UNCHANGED <<ledger, opening, sending>> /\ UNCHANGED <<balance, sum, entered>>
      /\ UNCHANGED <<migration, others, torn, events>>
  BY DEF Kept, given, server, account
<1>2. used' \in 0..MaxTickets
  BY BoundsAssumption DEF Tickets
<1> QED
  BY <1>1, <1>2 DEF TypeOK

LEMMA SendNewType ==
    ASSUME TypeOK, NEW i \in Tickets, NEW t \in Ticket,
           SendNew(i, t)
    PROVE  TypeOK'
<1>1. queue' \subseteq Op /\ disturbed' \in BOOLEAN
  BY SendType DEF SendNew
<1>2. ticket' \in [Tickets -> Ticket]
  BY DEF SendNew, TypeOK, Ticket, Pc
<1>3. t.delta \in Int
  BY DEF Ticket
<1>4. /\ Kept /\ UNCHANGED <<online, hydration, faults>> /\ used' \in Tickets
      /\ shown' = shown + t.delta /\ owed' = owed + t.delta /\ counter' = counter + 1
  BY DEF SendNew, Kept, Use, Record
<1>5. /\ online \in BOOLEAN /\ counter \in Nat /\ shown \in Int /\ owed \in Int
      /\ hydration \in [pc : {"none", "start", "reading"}, seen : Int] /\ faults \in 0..MaxFaults
  BY DEF TypeOK
<1> QED
  BY <1>1, <1>2, <1>3, <1>4, <1>5, TypeFrame

LEMMA AskType ==
    ASSUME TypeOK, NEW i \in Tickets, NEW t \in Ticket, Ask(i, t) PROVE TypeOK'
<1>1. ticket' \in [Tickets -> Ticket] /\ used' \in Tickets
  BY DEF Ask, TypeOK, Use
<1>2. disturbed' \in BOOLEAN
  BY DEF Ask, TypeOK, Sending, Loses, Busy
<1>3. Kept /\ UNCHANGED <<online, counter, shown, queue, hydration, owed, faults>>
  BY DEF Ask, Kept
<1> QED
  BY <1>1, <1>2, <1>3, TypeFrame DEF TypeOK

LEMMA ReturnTicketType ==
    ASSUME NEW u \in Ticket
    PROVE  /\ [u EXCEPT !.kind = "return", !.delta = Price, !.pays = FALSE, !.seen = NoTicket.seen] \in Ticket
           /\ [u EXCEPT !.kind = "return", !.delta = Price, !.pays = FALSE,
                         !.seen = NoTicket.seen].kind = "return"
<1> DEFINE seen == NoTicket.seen
<1>1. Price \in Int /\ seen \in Int
  BY AmountsAssumption DEF NoTicket
<1> HIDE DEF seen
<1>2. [u EXCEPT !.kind = "return", !.delta = Price, !.pays = FALSE, !.seen = seen] \in Ticket
  BY <1>1 DEF Ticket, Kinds
<1>3. [u EXCEPT !.kind = "return", !.delta = Price, !.pays = FALSE, !.seen = seen].kind = "return"
  BY DEF Ticket
<1> QED
  BY <1>2, <1>3 DEF seen

LEMMA TillType ==
    ASSUME TypeOK, NEW i \in Tickets,
           \/ \E d \in Changes : SellOffline(i, d) \/ \E pays \in BOOLEAN : SellOnline(i, d, pays)
           \/ \E j \in Tickets : Return(i, j)
           \/ Pickup(i) \/ CancelToWallet(i) \/ EditOnline(i) \/ EditOffline(i)
    PROVE  TypeOK'
<1> USE AmountsAssumption
<1>1. CASE \E d \in Changes : SellOffline(i, d)
  <2> PICK d \in Changes : SellOffline(i, d)
    BY <1>1
  <2>1. NewTicket("sale", d) \in Ticket /\ NewTicket("sale", d).kind = "sale"
    BY NewTicketType, KindsType
  <2> QED
    BY <2>1, SendNewType DEF SellOffline
<1>2. CASE \E d \in Changes : \E pays \in BOOLEAN : SellOnline(i, d, pays)
  <2> PICK d \in Changes, pays \in BOOLEAN : SellOnline(i, d, pays)
    BY <1>2
  <2>1. NewTicket("sale", d) \in Ticket
    BY NewTicketType, KindsType
  <2>2. [NewTicket("sale", d) EXCEPT !.pc = "post", !.pays = pays] \in Ticket
    BY <2>1 DEF Ticket, Pc
  <2> QED
    BY <2>2, AskType DEF SellOnline
<1>3. CASE \E j \in Tickets : Return(i, j)
  <2> PICK j \in Tickets : Return(i, j)
    BY <1>3
  <2> DEFINE t == [ticket[j] EXCEPT !.kind = "return", !.delta = Price, !.pays = FALSE,
                                !.seen = NoTicket.seen]
  <2>1. ticket[j] \in Ticket
    BY DEF TypeOK
  <2>2. t \in Ticket /\ t.kind = "return"
    BY <2>1, ReturnTicketType
  <2> HIDE DEF t
  <2> QED
    BY <2>2, SendNewType DEF Return, t
<1>4. CASE Pickup(i)
  <2>1. NewTicket("pickup", -Price) \in Ticket /\ NewTicket("pickup", -Price).kind = "pickup"
    BY NewTicketType, KindsType
  <2> QED
    BY <1>4, <2>1, SendNewType DEF Pickup
<1>5. CASE CancelToWallet(i)
  <2>1. ticket' \in [Tickets -> Ticket]
    BY <1>5, NewTicketType, KindsType DEF CancelToWallet, TypeOK, Ticket, Pc
  <2>2. /\ Kept /\ UNCHANGED <<online, counter, queue, hydration, faults>> /\ used' \in Tickets
        /\ shown' = shown + Price /\ owed' = owed + Price /\ disturbed' = TRUE
    BY <1>5 DEF CancelToWallet, Kept, Use, Record
  <2>3. /\ online \in BOOLEAN /\ counter \in Nat /\ shown \in Int /\ owed \in Int /\ queue \subseteq Op
        /\ hydration \in [pc : {"none", "start", "reading"}, seen : Int] /\ faults \in 0..MaxFaults
    BY DEF TypeOK
  <2> QED
    BY <2>1, <2>2, <2>3, TypeFrame
<1>6. CASE EditOnline(i)
  <2>1. NewTicket("edit", 0) \in Ticket
    BY NewTicketType, KindsType
  <2>2. [NewTicket("edit", 0) EXCEPT !.pc = "put"] \in Ticket
    BY <2>1 DEF Ticket, Pc
  <2> QED
    BY <1>6, <2>2, AskType DEF EditOnline
<1>7. CASE EditOffline(i)
  <2> DEFINE t == [NewTicket("edit", 0) EXCEPT !.pc = "done", !.queued = TRUE]
  <2>1. NewTicket("edit", 0) \in Ticket /\ NewTicket("edit", 0).kind = "edit"
    BY NewTicketType, KindsType
  <2>2. t \in Ticket /\ t.kind = "edit"
    BY <2>1 DEF Ticket, Pc
  <2>3. Use(i) /\ ticket' = [ticket EXCEPT ![i] = t] /\ shown' = 0 /\ queue' = Enqueue(WalletOp(i, t))
        /\ UNCHANGED <<given, online, counter, hydration, server, owed, disturbed, faults, events>>
    BY <1>7 DEF EditOffline
  <2> HIDE DEF t
  <2>4. queue' \subseteq Op
    BY <2>2, <2>3, WalletOpType, EnqueueType
  <2>5. ticket' \in [Tickets -> Ticket] /\ used' \in Tickets /\ Kept
        /\ UNCHANGED <<online, counter, hydration, owed, disturbed, faults>>
    BY <2>2, <2>3 DEF TypeOK, Use, Kept
  <2>6. /\ online \in BOOLEAN /\ counter \in Nat /\ owed \in Int /\ disturbed \in BOOLEAN
        /\ hydration \in [pc : {"none", "start", "reading"}, seen : Int] /\ faults \in 0..MaxFaults
    BY DEF TypeOK
  <2> QED
    BY <2>3, <2>4, <2>5, <2>6, TypeFrame
<1> QED
  BY <1>1, <1>2, <1>3, <1>4, <1>5, <1>6, <1>7

LEMMA RecordedType ==
    ASSUME TypeOK, NEW i \in Tickets, NEW queued \in BOOLEAN, Recorded(i, queued)
    PROVE  /\ ticket' \in [Tickets -> Ticket] /\ shown' \in Int /\ owed' \in Int /\ counter' \in Nat
           /\ UNCHANGED <<given, used, server, events>>
<1>1. ticket[i] \in Ticket /\ shown \in Int /\ owed \in Int /\ counter \in Nat
  BY DEF TypeOK
<1>2. ticket[i].delta \in Int
  BY <1>1 DEF Ticket
<1> DEFINE next == IF ticket[i].pays THEN "put" ELSE "refresh"
<1>a. next \in Pc
  BY DEF Pc
<1> HIDE DEF next
<1>b. [ticket[i] EXCEPT !.pc = next, !.queued = queued] \in Ticket
  BY <1>1, <1>a DEF Ticket
<1>c. ticket' = [ticket EXCEPT ![i] = [ticket[i] EXCEPT !.pc = next, !.queued = queued]]
  BY DEF Recorded, next
<1>3. ticket' \in [Tickets -> Ticket]
  BY <1>b, <1>c DEF TypeOK
<1> QED
  BY <1>1, <1>2, <1>3 DEF Recorded, Record

LEMMA SeeType ==
    ASSUME TypeOK, NEW i \in Tickets, NEW pc \in Pc, NEW seen \in Int, See(i, pc, seen)
    PROVE  ticket' \in [Tickets -> Ticket]
<1>1. ticket[i] \in Ticket
  BY DEF TypeOK
<1>2. [ticket[i] EXCEPT !.pc = pc, !.seen = seen] \in Ticket
  BY <1>1 DEF Ticket
<1> QED
  BY <1>2 DEF See, TypeOK

LEMMA GotoType ==
    ASSUME TypeOK, NEW i \in Tickets, NEW pc \in Pc, Goto(i, pc) PROVE ticket' \in [Tickets -> Ticket]
<1>1. NoTicket.seen \in Int
  BY DEF NoTicket
<1> QED
  BY <1>1, SeeType DEF Goto

(* Frame of the steps that leave the server and the tickets in use alone. *)
LEMMA StillType ==
    ASSUME TypeOK, Kept, used' = used,
           online' \in BOOLEAN, counter' \in Nat, shown' \in Int, owed' \in Int,
           queue' \subseteq Op, ticket' \in [Tickets -> Ticket],
           hydration' \in [pc : {"none", "start", "reading"}, seen : Int],
           disturbed' \in BOOLEAN, faults' \in 0..MaxFaults
    PROVE  TypeOK'
<1>1. /\ UNCHANGED <<ledger, opening, sending>> /\ UNCHANGED <<balance, sum, entered>>
      /\ UNCHANGED <<migration, others, torn, events>>
  BY DEF Kept, given, server, account
<1> QED
  BY <1>1 DEF TypeOK

LEMMA HydrationType ==
    NoHydration \in [pc : {"none", "start", "reading"}, seen : Int]
BY DEF NoHydration

LEMMA PcType ==
    \A pc \in {"put", "putting", "refresh", "reading", "done", "gone"} : pc \in Pc
BY DEF Pc

LEMMA SaleType ==
    ASSUME TypeOK, NEW i \in Tickets,
           \/ Posted(i) \/ FallBack(i) \/ SessionEnds(i) \/ PutRead(i) \/ PutFails(i)
           \/ RefreshRead(i) \/ RefreshApply(i) \/ RefreshFails(i)
    PROVE  TypeOK'
<1>0. /\ online \in BOOLEAN /\ counter \in Nat /\ shown \in Int /\ owed \in Int /\ queue \subseteq Op
      /\ hydration \in [pc : {"none", "start", "reading"}, seen : Int] /\ disturbed \in BOOLEAN
      /\ faults \in 0..MaxFaults /\ balance \in Int /\ ticket[i] \in Ticket
  BY DEF TypeOK
<1>a. ticket[i].seen \in Int
  BY <1>0 DEF Ticket
<1>1. CASE Posted(i)
  <2>1. Recorded(i, FALSE) /\ UNCHANGED <<online, queue, hydration, disturbed, faults>>
    BY <1>1 DEF Posted
  <2> QED
    BY <2>1, <1>0, RecordedType, StillType DEF Kept
<1>2. CASE FallBack(i)
  <2>1. Fault /\ Recorded(i, TRUE) /\ Send(i, ticket[i]) /\ online' = FALSE /\ hydration' = NoHydration
    BY <1>2 DEF FallBack
  <2> QED
    BY <2>1, <1>0, RecordedType, SendType, FaultType, HydrationType, StillType DEF Kept
<1>3. CASE SessionEnds(i)
  <2>1. /\ Fault /\ Goto(i, "gone") /\ Kept
        /\ UNCHANGED <<online, counter, shown, queue, used, hydration, owed, disturbed>>
    BY <1>3 DEF SessionEnds, Kept
  <2> QED
    BY <2>1, <1>0, GotoType, PcType, FaultType, StillType
<1>4. CASE PutRead(i)
  <2>1. /\ See(i, "putting", balance) /\ Kept
        /\ UNCHANGED <<online, counter, shown, queue, used, hydration, owed, disturbed, faults>>
    BY <1>4 DEF PutRead, Kept
  <2> QED
    BY <2>1, <1>0, SeeType, PcType, StillType
<1>5. CASE PutFails(i)
  <2>1. /\ Fault /\ Goto(i, "done") /\ Kept
        /\ disturbed' = (disturbed \/ (~ticket[i].queued /\ ticket[i].delta # 0))
        /\ UNCHANGED <<online, counter, shown, queue, used, hydration, owed>>
    BY <1>5 DEF PutFails, Kept
  <2>2. disturbed' \in BOOLEAN
    BY <2>1, Zenon
  <2> QED
    BY <2>1, <2>2, <1>0, GotoType, PcType, FaultType, StillType
<1>6. CASE RefreshRead(i)
  <2>1. /\ See(i, "reading", balance) /\ Kept
        /\ UNCHANGED <<online, counter, shown, queue, used, hydration, owed, disturbed, faults>>
    BY <1>6 DEF RefreshRead, Kept
  <2> QED
    BY <2>1, <1>0, SeeType, PcType, StillType
<1>7. CASE RefreshApply(i)
  <2>1. /\ Goto(i, "done") /\ Kept /\ shown' = ticket[i].seen
        /\ UNCHANGED <<online, counter, queue, used, hydration, owed, disturbed, faults>>
    BY <1>7 DEF RefreshApply, Kept
  <2> QED
    BY <2>1, <1>0, <1>a, GotoType, PcType, StillType
<1>8. CASE RefreshFails(i)
  <2>1. /\ Fault /\ Goto(i, "done") /\ Kept
        /\ UNCHANGED <<online, counter, shown, queue, used, hydration, owed, disturbed>>
    BY <1>8 DEF RefreshFails, Kept
  <2> QED
    BY <2>1, <1>0, GotoType, PcType, FaultType, StillType
<1> QED
  BY <1>1, <1>2, <1>3, <1>4, <1>5, <1>6, <1>7, <1>8

LEMMA ModeType ==
    ASSUME TypeOK, Probe \/ HydrateRead \/ HydrateApply \/ Reload PROVE TypeOK'
<1> DEFINE Hydrations == [pc : {"none", "start", "reading"}, seen : Int]
<1>0. /\ online \in BOOLEAN /\ counter \in Nat /\ shown \in Int /\ owed \in Int /\ queue \subseteq Op
      /\ hydration \in Hydrations /\ disturbed \in BOOLEAN /\ ticket \in [Tickets -> Ticket]
      /\ faults \in 0..MaxFaults /\ balance \in Int /\ hydration.seen \in Int
  BY DEF TypeOK
<1>1. CASE Probe
  <2>1. /\ online' = TRUE /\ hydration' = [pc |-> "start", seen |-> 0] /\ Kept
        /\ UNCHANGED <<counter, shown, queue, ticket, used, owed, disturbed, faults>>
    BY <1>1 DEF Probe, Kept
  <2>2. hydration' \in Hydrations
    BY <2>1
  <2> QED
    BY <2>1, <2>2, <1>0, StillType
<1>2. CASE HydrateRead
  <2>1. /\ hydration' = [pc |-> "reading", seen |-> balance] /\ Kept
        /\ UNCHANGED <<online, counter, shown, queue, ticket, used, owed, disturbed, faults>>
    BY <1>2 DEF HydrateRead, Kept
  <2>2. hydration' \in Hydrations
    BY <2>1, <1>0
  <2> QED
    BY <2>1, <2>2, <1>0, StillType
<1>3. CASE HydrateApply
  <2>1. /\ hydration' = NoHydration /\ Kept /\ shown' = hydration.seen
        /\ UNCHANGED <<online, counter, queue, ticket, used, owed, disturbed, faults>>
    BY <1>3 DEF HydrateApply, Kept
  <2> QED
    BY <2>1, <1>0, HydrationType, StillType
<1>4. CASE Reload
  <2>1. events' \in 0..MaxEvents /\ hydration' \in Hydrations /\ counter' \in Nat /\ shown' \in Int
    BY <1>4, <1>0, HydrationType, BoundsAssumption DEF Reload, TypeOK
  <2>2. /\ UNCHANGED <<ledger, opening, sending>> /\ UNCHANGED <<balance, sum, entered>>
        /\ UNCHANGED <<migration, others, torn>>
        /\ UNCHANGED <<online, queue, ticket, used, owed, disturbed, faults>>
    BY <1>4 DEF Reload, given, server, account
  <2> QED
    BY <2>1, <2>2 DEF TypeOK
<1> QED
  BY <1>1, <1>2, <1>3, <1>4

LEMMA WriteType ==
    ASSUME TypeOK, NEW read \in Int, NEW target \in Int, Write(read, target)
    PROVE  balance' \in Int /\ sum' \in Int /\ torn' \in BOOLEAN
<1>1. balance \in Int /\ sum \in Int /\ torn \in BOOLEAN
  BY DEF TypeOK
<1>2. balance' \in Int
  BY <1>1 DEF Write
<1>3. sum' \in Int
  BY <1>1 DEF Write
<1>4. torn' = (torn \/ (ledger /\ target # read /\ balance # read))
  BY DEF Write
<1>5. torn' \in BOOLEAN
  BY <1>4, Zenon
<1> QED
  BY <1>2, <1>3, <1>5

LEMMA EnterType ==
    ASSUME TypeOK, NEW op \in Op, Enter(op)
    PROVE  /\ balance' \in Int /\ sum' \in Int /\ entered' \subseteq Ids \X Tickets
           /\ \A e, f \in entered' : e[1] = f[1] => e = f
<1>1. balance \in Int /\ sum \in Int /\ entered \subseteq Ids \X Tickets
      /\ \A e, f \in entered : e[1] = f[1] => e = f
  BY DEF TypeOK
<1>2. op.amount \in Int /\ op.id \in Ids /\ op.of \in Tickets
  BY DEF Op
<1>3. CASE Known(op.id)
  BY <1>1, <1>3 DEF Enter, account
<1>4. CASE ~Known(op.id)
  <2>1. balance' = balance + op.amount /\ sum' = sum + op.amount
        /\ entered' = entered \cup {<<op.id, op.of>>}
    BY <1>4 DEF Enter
  <2>2. \A e \in entered : e[1] # op.id
    BY <1>4 DEF Known
  <2>3. ASSUME NEW e \in entered', NEW f \in entered', e[1] = f[1] PROVE e = f
    <3> DEFINE new == <<op.id, op.of>>
    <3>1. new[1] = op.id
      OBVIOUS
    <3> HIDE DEF new
    <3>2. entered' = entered \cup {new}
      BY <2>1 DEF new
    <3> QED
      BY <2>2, <2>3, <3>1, <3>2, <1>1
  <2> QED
    BY <1>1, <1>2, <2>1, <2>3
<1> QED
  BY <1>3, <1>4

LEMMA ServerType ==
    ASSUME TypeOK, OtherTill \/ MigrateRead \/ MigrateSum \/ MigrateWrite PROVE TypeOK'
<1> DEFINE Migrations == [pc : {"none", "read", "summed", "done"}, legacy : Int, sum : Int]
<1>0. /\ balance \in Int /\ sum \in Int /\ others \in Int /\ torn \in BOOLEAN /\ disturbed \in BOOLEAN
      /\ migration \in Migrations /\ events \in 0..MaxEvents
  BY DEF TypeOK
<1>1. CASE OtherTill
  <2> PICK d \in Changes \ {0} : /\ balance' = balance + d
                                 /\ sum' = IF ledger THEN sum + d ELSE sum
                                 /\ others' = others + d
    BY <1>1 DEF OtherTill
  <2>1. balance' \in Int /\ sum' \in Int /\ others' \in Int
    BY <1>0, AmountsAssumption
  <2>2. events' \in 0..MaxEvents
    BY <1>1, <1>0, BoundsAssumption DEF OtherTill
  <2>3. disturbed' = (disturbed \/ (~ledger /\ Sending))
    BY <1>1 DEF OtherTill
  <2>4. disturbed' \in BOOLEAN
    BY <2>3, Zenon
  <2>5. UNCHANGED <<ledger, opening, online, counter, shown, queue>>
        /\ UNCHANGED <<ticket, used, hydration, sending, entered, migration, owed, torn, faults>>
    BY <1>1 DEF OtherTill, given, till
  <2> QED
    BY <2>1, <2>2, <2>4, <2>5 DEF TypeOK
<1>2. CASE MigrateRead
  <2>1. migration' \in Migrations
    BY <1>2, <1>0 DEF MigrateRead
  <2>2. UNCHANGED <<ledger, opening, online, counter, shown, queue, ticket, used, hydration>>
        /\ UNCHANGED <<sending, balance, sum, entered, owed, others, torn, disturbed, events, faults>>
    BY <1>2 DEF MigrateRead, given, till, account
  <2> QED
    BY <2>1, <2>2 DEF TypeOK
<1>3. CASE MigrateSum
  <2>1. migration' \in Migrations /\ torn' \in BOOLEAN
    BY <1>3, <1>0 DEF MigrateSum
  <2>2. UNCHANGED <<ledger, opening, online, counter, shown, queue, ticket, used, hydration>>
        /\ UNCHANGED <<sending, balance, sum, entered, owed, others, disturbed, events, faults>>
    BY <1>3 DEF MigrateSum, given, till, account
  <2> QED
    BY <2>1, <2>2 DEF TypeOK
<1>4. CASE MigrateWrite
  <2>1. migration' \in Migrations /\ sum' \in Int
    BY <1>4, <1>0 DEF MigrateWrite
  <2>2. UNCHANGED <<ledger, opening, online, counter, shown, queue, ticket, used, hydration>>
        /\ UNCHANGED <<sending, balance, entered, owed, others, torn, disturbed, events, faults>>
    BY <1>4 DEF MigrateWrite, given, till
  <2> QED
    BY <2>1, <2>2 DEF TypeOK
<1> QED
  BY <1>1, <1>2, <1>3, <1>4

LEMMA PutWritesType == ASSUME TypeOK, NEW i \in Tickets, PutWrites(i) PROVE TypeOK'
<1> DEFINE t == ticket[i]
           loss == ledger /\ (\/ (t.queued /\ t.delta # 0)
                              \/ {t.seen, balance} # {t.before})
<1>0. /\ t \in Ticket /\ t.seen \in Int /\ t.before + t.delta \in Int /\ faults \in 0..MaxFaults
  BY DEF TypeOK, Ticket
<1>1. /\ Write(t.seen, t.before + t.delta)
      /\ \/ Goto(i, "refresh") /\ UNCHANGED faults
         \/ See(i, "reading", balance') /\ UNCHANGED faults
         \/ Fault /\ Goto(i, "done")
      /\ disturbed' = (disturbed \/ loss)
  BY DEF PutWrites
<1>2. UNCHANGED <<ledger, opening, online, counter, shown, queue, used, hydration, sending>>
      /\ UNCHANGED <<entered, migration, owed, others, events>>
  BY DEF PutWrites, given
<1> HIDE DEF loss
<1>3. disturbed' \in BOOLEAN
  BY <1>1, Zenon
<1>4. balance' \in Int /\ sum' \in Int /\ torn' \in BOOLEAN
  BY <1>0, <1>1, WriteType
<1>5. ticket' \in [Tickets -> Ticket]
  BY <1>1, <1>4, PcType, GotoType, SeeType
<1>6. faults' \in 0..MaxFaults
  BY <1>0, <1>1, FaultType
<1> QED
  BY <1>2, <1>3, <1>4, <1>5, <1>6 DEF TypeOK

LEMMA ReplayType == ASSUME TypeOK, Replay PROVE TypeOK'
<1>0. /\ faults \in 0..MaxFaults /\ balance \in Int /\ sum \in Int /\ queue \subseteq Op
      /\ entered \subseteq Ids \X Tickets /\ \A e, f \in entered : e[1] = f[1] => e = f
      /\ sending \in [on : BOOLEAN, of : 0..MaxTickets, target : Int, read : Int]
  BY DEF TypeOK
<1>1. PICK op \in queue : ReplayEntry(op) \/ ReplayRefused(op) \/ ReplayRead(op) \/ ReplayDone(op)
  BY DEF Replay
<1>2. op \in Op /\ op.of \in 0..MaxTickets /\ op.amount \in Int
  BY <1>0, <1>1 DEF Op, Tickets
<1>3. UNCHANGED <<ledger, opening, online, counter, shown, ticket, used, hydration>>
      /\ UNCHANGED <<migration, owed, others, torn, disturbed, events>>
  BY DEF Replay, given
<1>4. CASE ReplayEntry(op)
  <2>1. Enter(op) /\ queue' \subseteq queue /\ UNCHANGED sending /\ (Fault \/ UNCHANGED faults)
    BY <1>4 DEF ReplayEntry
  <2>2. faults' \in 0..MaxFaults
    BY <2>1, <1>0, FaultType
  <2>3. /\ balance' \in Int /\ sum' \in Int /\ entered' \subseteq Ids \X Tickets
        /\ \A e, f \in entered' : e[1] = f[1] => e = f
    BY <2>1, <1>2, EnterType
  <2> QED
    BY <2>1, <2>2, <2>3, <1>0, <1>3 DEF TypeOK
<1>5. CASE ReplayRefused(op)
  <2>1. /\ queue' = (queue \ {op}) \cup {[op EXCEPT !.dead = TRUE]}
        /\ UNCHANGED sending /\ UNCHANGED <<balance, sum, entered>> /\ (Fault \/ UNCHANGED faults)
    BY <1>5 DEF ReplayRefused, account
  <2>2. [op EXCEPT !.dead = TRUE] \in Op
    BY <1>2 DEF Op
  <2>3. queue' \subseteq Op
    BY <2>1, <2>2, <1>0
  <2>4. faults' \in 0..MaxFaults
    BY <2>1, <1>0, FaultType
  <2> QED
    BY <2>1, <2>3, <2>4, <1>3 DEF TypeOK
<1>6. CASE ReplayRead(op)
  <2>1. /\ sending' = [on |-> TRUE, of |-> op.of, target |-> op.amount, read |-> balance]
        /\ UNCHANGED <<queue, balance, sum, entered, faults>>
    BY <1>6 DEF ReplayRead, account
  <2>2. sending' \in [on : BOOLEAN, of : 0..MaxTickets, target : Int, read : Int]
    BY <2>1, <1>0, <1>2
  <2> QED
    BY <2>1, <2>2, <1>3 DEF TypeOK
<1>7. CASE ReplayDone(op)
  <2>1. queue' \subseteq queue /\ UNCHANGED <<sending, balance, sum, entered, faults>>
    BY <1>7 DEF ReplayDone, account
  <2> QED
    BY <2>1, <1>0, <1>3 DEF TypeOK
<1> QED
  BY <1>1, <1>4, <1>5, <1>6, <1>7

LEMMA ReplayWritesType == ASSUME TypeOK, ReplayWrites PROVE TypeOK'
<1> DEFINE loss == ticket[sending.of].kind = "edit" /\ sending.target # sending.read
           Acknowledged(op) == IF op.of = sending.of THEN [op EXCEPT !.done = TRUE] ELSE op
<1>0. /\ faults \in 0..MaxFaults /\ queue \subseteq Op
      /\ sending.read \in Int /\ sending.target \in Int
  BY DEF TypeOK
<1>1. /\ Write(sending.read, sending.target)
      /\ disturbed' = (disturbed \/ loss)
      /\ sending' = NotSending
      /\ \/ queue' = {op \in queue : op.of # sending.of} /\ UNCHANGED faults
         \/ Fault /\ queue' = {Acknowledged(op) : op \in queue}
  BY DEF ReplayWrites
<1>2. UNCHANGED <<ledger, opening, online, counter, shown, ticket, used, hydration, entered>>
      /\ UNCHANGED <<migration, owed, others, events>>
  BY DEF ReplayWrites, given
<1>3. \A op \in Op : Acknowledged(op) \in Op
  BY DEF Op
<1> HIDE DEF loss, Acknowledged
<1>4. disturbed' \in BOOLEAN
  BY <1>1, Zenon
<1>5. queue' \subseteq Op
  BY <1>0, <1>1, <1>3
<1>6. faults' \in 0..MaxFaults
  BY <1>0, <1>1, FaultType
<1>7. balance' \in Int /\ sum' \in Int /\ torn' \in BOOLEAN
  BY <1>0, <1>1, WriteType
<1>8. sending' \in [on : BOOLEAN, of : 0..MaxTickets, target : Int, read : Int]
  BY <1>1, BoundsAssumption DEF NotSending
<1> QED
  BY <1>2, <1>4, <1>5, <1>6, <1>7, <1>8 DEF TypeOK

LEMMA StutterType == ASSUME TypeOK, UNCHANGED vars PROVE TypeOK'
<1>1. UNCHANGED <<ledger, online, counter, shown, queue, ticket, used, hydration, sending, balance>>
      /\ UNCHANGED <<sum, entered, migration, opening, owed, others, torn, disturbed, events, faults>>
  BY DEF vars
<1> QED
  BY <1>1 DEF TypeOK

LEMMA TypeStep == ASSUME TypeOK, [Next]_vars PROVE TypeOK'
<1>1. CASE OtherTill \/ MigrateRead \/ MigrateSum \/ MigrateWrite
  BY <1>1, ServerType
<1>2. CASE \E i \in Tickets :
            \/ \E d \in Changes : SellOffline(i, d) \/ \E pays \in BOOLEAN : SellOnline(i, d, pays)
            \/ \E j \in Tickets : Return(i, j)
            \/ Pickup(i) \/ CancelToWallet(i) \/ EditOnline(i) \/ EditOffline(i)
  BY <1>2, TillType
<1>3. CASE \E i \in Tickets :
            \/ Posted(i) \/ FallBack(i) \/ SessionEnds(i) \/ PutRead(i) \/ PutFails(i)
            \/ RefreshRead(i) \/ RefreshApply(i) \/ RefreshFails(i)
  BY <1>3, SaleType
<1>4. CASE \E i \in Tickets : PutWrites(i)
  BY <1>4, PutWritesType
<1>5. CASE Probe \/ HydrateRead \/ HydrateApply \/ Reload
  BY <1>5, ModeType
<1>6. CASE Replay
  BY <1>6, ReplayType
<1>7. CASE ReplayWrites
  BY <1>7, ReplayWritesType
<1>8. CASE UNCHANGED vars
  BY <1>8, StutterType
<1> QED
  BY <1>1, <1>2, <1>3, <1>4, <1>5, <1>6, <1>7, <1>8 DEF Next

(* Every variable keeps its type and no operation id is entered twice: what *)
(* create_wallet_entry looks up is what it has committed.                   *)
THEOREM TypeCorrect == Spec => []TypeOK
<1>1. Init => TypeOK
  BY TypeInit
<1>2. TypeOK /\ [Next]_vars => TypeOK'
  BY TypeStep
<1> QED
  BY <1>1, <1>2, PTL DEF Spec

-----------------------------------------------------------------------------
(* The balance and the sum of the entries.  What the migration has read is   *)
(* off by the opening balance, whatever is entered after it has read.        *)
Pending ==
    ledger /\ ~torn /\ migration.pc = "summed" => migration.legacy - migration.sum = opening

LInv == LedgerMatches /\ Pending

\* Both sides change alike.
Alike == \E d \in Int : balance' = balance + d /\ sum' = sum + d

LEMMA LedgerFrame ==
    ASSUME TypeOK, LInv, UNCHANGED <<ledger, opening, migration>>,
           ledger /\ ~torn' => ~torn /\ Alike
    PROVE  LInv'
<1>1. balance \in Int /\ sum \in Int /\ opening \in Int
  BY DEF TypeOK
<1>2. Pending'
  BY DEF LInv, Pending
<1>3. LedgerMatches'
  BY <1>1 DEF LInv, LedgerMatches, Alike
<1> QED
  BY <1>2, <1>3 DEF LInv

LEMMA LedgerSame ==
    ASSUME TypeOK, LInv, UNCHANGED <<ledger, opening, migration>>, UNCHANGED <<balance, sum, torn>>
    PROVE  LInv'
<1>1. balance' = balance + 0 /\ sum' = sum + 0
  BY DEF TypeOK
<1>2. Alike
  BY <1>1 DEF Alike
<1> QED
  BY <1>2, LedgerFrame

LEMMA LedgerWrite ==
    ASSUME TypeOK, LInv, NEW read \in Int, NEW target \in Int, Write(read, target),
           UNCHANGED <<ledger, opening, migration>>
    PROVE  LInv'
<1> SUFFICES ASSUME ledger, ~torn' PROVE ~torn /\ Alike
  BY LedgerFrame
<1>1. balance \in Int /\ sum \in Int
  BY DEF TypeOK
<1>2. ~torn /\ (target # read => balance = read)
  BY DEF Write
<1>3. balance' = balance + (target - read) /\ sum' = sum + (target - read) /\ target - read \in Int
  BY <1>1, <1>2 DEF Write
<1> QED
  BY <1>2, <1>3 DEF Alike

LEMMA LedgerServer ==
    ASSUME TypeOK, LInv, OtherTill \/ MigrateRead \/ MigrateSum \/ MigrateWrite PROVE LInv'
<1>0. balance \in Int /\ sum \in Int /\ opening \in Int
      /\ migration \in [pc : {"none", "read", "summed", "done"}, legacy : Int, sum : Int]
  BY DEF TypeOK
<1>1. CASE OtherTill
  <2>1. PICK d \in Changes : balance' = balance + d /\ sum' = IF ledger THEN sum + d ELSE sum
    BY <1>1 DEF OtherTill
  <2>2. UNCHANGED <<ledger, opening, migration, torn>>
    BY <1>1 DEF OtherTill, given
  <2>3. ledger => Alike
    BY <2>1, AmountsAssumption DEF Alike
  <2> QED
    BY <2>2, <2>3, LedgerFrame
<1>2. CASE MigrateRead
  <2>1. /\ migration' = [migration EXCEPT !.pc = "read", !.legacy = balance] /\ migration.pc = "none"
        /\ UNCHANGED <<ledger, opening, balance, sum, torn>>
    BY <1>2 DEF MigrateRead, given, account
  <2>2. migration'.pc = "read"
    BY <2>1, <1>0
  <2> QED
    BY <2>1, <2>2 DEF LInv, LedgerMatches, Pending
<1>3. CASE MigrateSum
  <2>1. /\ migration' = [migration EXCEPT !.pc = "summed", !.sum = sum] /\ migration.pc = "read"
        /\ torn' = (torn \/ balance # migration.legacy)
        /\ UNCHANGED <<ledger, opening, balance, sum>>
    BY <1>3 DEF MigrateSum, given, account
  <2>2. migration'.pc = "summed" /\ migration'.legacy = migration.legacy /\ migration'.sum = sum
    BY <2>1, <1>0
  <2>3. ledger /\ ~torn' => balance = migration.legacy /\ balance = sum + opening
    BY <2>1 DEF LInv, LedgerMatches
  <2>4. LedgerMatches'
    BY <2>1, <2>2, <2>3 DEF LedgerMatches
  <2>5. Pending'
    BY <2>1, <2>2, <2>3, <1>0 DEF Pending
  <2> QED
    BY <2>4, <2>5 DEF LInv
<1>4. CASE MigrateWrite
  <2>1. /\ migration' = [pc |-> "done", legacy |-> 0, sum |-> 0] /\ migration.pc = "summed"
        /\ sum' = sum + (migration.legacy - migration.sum)
        /\ UNCHANGED <<ledger, opening, balance, torn>>
    BY <1>4 DEF MigrateWrite, given
  <2>2. migration'.pc = "done"
    BY <2>1
  <2>3. ledger /\ ~torn => balance = sum + opening /\ migration.legacy - migration.sum = opening
    BY <2>1 DEF LInv, LedgerMatches, Pending
  <2>4. sum' = sum + (migration.legacy - migration.sum) /\ balance' = balance
    BY <2>1
  <2>5. migration.legacy \in Int /\ migration.sum \in Int
    BY <1>0
  <2>6. ledger /\ ~torn => balance' = sum' + 0
    BY <2>3, <2>4, <2>5, <1>0
  <2>7. LedgerMatches'
    BY <2>1, <2>2, <2>6 DEF LedgerMatches
  <2> QED
    BY <2>2, <2>7 DEF LInv, Pending
<1> QED
  BY <1>1, <1>2, <1>3, <1>4

LEMMA LedgerTill ==
    ASSUME TypeOK, LInv, NEW i \in Tickets,
           \/ \E d \in Changes : SellOffline(i, d) \/ \E pays \in BOOLEAN : SellOnline(i, d, pays)
           \/ \E j \in Tickets : Return(i, j)
           \/ Pickup(i) \/ CancelToWallet(i) \/ EditOnline(i) \/ EditOffline(i)
           \/ Posted(i) \/ FallBack(i) \/ SessionEnds(i) \/ PutRead(i) \/ PutFails(i)
           \/ RefreshRead(i) \/ RefreshApply(i) \/ RefreshFails(i)
    PROVE  LInv'
<1>1. UNCHANGED <<given, server>>
  BY DEF SellOffline, SellOnline, Return, Pickup, SendNew, Ask, CancelToWallet, EditOnline, EditOffline,
         Posted, FallBack, Recorded, SessionEnds, PutRead, PutFails, RefreshRead, RefreshApply, RefreshFails
<1>2. UNCHANGED <<ledger, opening, migration>> /\ UNCHANGED <<balance, sum, torn>>
  BY <1>1 DEF given, server, account
<1> QED
  BY <1>2, LedgerSame

LEMMA LedgerReplay == ASSUME TypeOK, LInv, Replay PROVE LInv'
<1>1. PICK op \in queue : ReplayEntry(op) \/ ReplayRefused(op) \/ ReplayRead(op) \/ ReplayDone(op)
  BY DEF Replay
<1>2. op.amount \in Int
  BY <1>1 DEF TypeOK, Op
<1>3. UNCHANGED <<ledger, opening, migration>> /\ UNCHANGED torn
  BY DEF Replay, given
<1>4. Enter(op) \/ UNCHANGED account
  BY <1>1 DEF ReplayEntry, ReplayRefused, ReplayRead, ReplayDone
<1>5. CASE UNCHANGED account
  BY <1>3, <1>5, LedgerSame DEF account
<1>6. CASE balance' = balance + op.amount /\ sum' = sum + op.amount
  <2>1. Alike
    BY <1>2, <1>6 DEF Alike
  <2> QED
    BY <1>3, <2>1, LedgerFrame
<1> QED
  BY <1>4, <1>5, <1>6 DEF Enter

LEMMA LedgerStep == ASSUME TypeOK, LInv, [Next]_vars PROVE LInv'
<1>1. CASE OtherTill \/ MigrateRead \/ MigrateSum \/ MigrateWrite
  BY <1>1, LedgerServer
<1>2. CASE \E i \in Tickets :
            \/ \E d \in Changes : SellOffline(i, d) \/ \E pays \in BOOLEAN : SellOnline(i, d, pays)
            \/ \E j \in Tickets : Return(i, j)
            \/ Pickup(i) \/ CancelToWallet(i) \/ EditOnline(i) \/ EditOffline(i)
            \/ Posted(i) \/ FallBack(i) \/ SessionEnds(i) \/ PutRead(i) \/ PutFails(i)
            \/ RefreshRead(i) \/ RefreshApply(i) \/ RefreshFails(i)
  BY <1>2, LedgerTill
<1>3. CASE \E i \in Tickets : PutWrites(i)
  <2> PICK i \in Tickets : PutWrites(i)
    BY <1>3
  <2>1. ticket[i].seen \in Int /\ ticket[i].before + ticket[i].delta \in Int
    BY DEF TypeOK, Ticket
  <2>2. Write(ticket[i].seen, ticket[i].before + ticket[i].delta) /\ UNCHANGED <<ledger, opening, migration>>
    BY DEF PutWrites, given
  <2> QED
    BY <2>1, <2>2, LedgerWrite
<1>4. CASE Probe \/ HydrateRead \/ HydrateApply \/ Reload
  <2>1. UNCHANGED <<given, server>>
    BY <1>4 DEF Probe, HydrateRead, HydrateApply, Reload
  <2> QED
    BY <2>1, LedgerSame DEF given, server, account
<1>5. CASE Replay
  BY <1>5, LedgerReplay
<1>6. CASE ReplayWrites
  <2>1. sending.read \in Int /\ sending.target \in Int
    BY DEF TypeOK
  <2>2. Write(sending.read, sending.target) /\ UNCHANGED <<ledger, opening, migration>>
    BY <1>6 DEF ReplayWrites, given
  <2> QED
    BY <2>1, <2>2, LedgerWrite
<1>7. CASE UNCHANGED vars
  BY <1>7, LedgerSame DEF vars
<1> QED
  BY <1>1, <1>2, <1>3, <1>4, <1>5, <1>6, <1>7 DEF Next

(* The balance of the student is the sum of his entries, and of the opening *)
(* balance until generate_opening_balance_entries has written it, whatever  *)
(* the tills do meanwhile, unless what was read before a change is written. *)
THEOREM LedgerTheorem == Spec => []LedgerMatches
<1>1. Init => LInv
  <2> SUFFICES ASSUME Init PROVE LInv
    OBVIOUS
  <2>1. balance = opening /\ sum = 0 /\ opening \in Int /\ migration.pc = "none"
    BY AmountsAssumption DEF Init
  <2> QED
    BY <2>1 DEF LInv, LedgerMatches, Pending
<1>2. TypeOK /\ LInv /\ [Next]_vars => LInv'
  BY LedgerStep
<1>3. LInv => LedgerMatches
  BY DEF LInv
<1> QED
  BY <1>1, <1>2, <1>3, TypeCorrect, PTL DEF Spec

-----------------------------------------------------------------------------
(* What has been recorded reaches the balance once.                         *)
Due == opening + others + owed

(* What the tickets, the operations of the queue and the request under way  *)
(* have to do with each other, whatever has been lost.                      *)
TicketOk(t) ==
    /\ t.kind = "edit" => t.delta = 0
    /\ t.pc = "post" => t.kind = "sale" /\ ~t.queued /\ (t.delta # 0 => t.pays)

OpOk(op) ==
    /\ op.of <= used /\ ticket[op.of].queued
    /\ op.kind = "edit" <=> ticket[op.of].kind = "edit"
    /\ op.kind = "entry" => ledger /\ op.amount = ticket[op.of].delta
    /\ op.kind = "set" => ~ledger
    /\ ledger /\ op.done => op.kind = "edit"

SendingOk ==
    sending.on => /\ sending.of \in Tickets /\ sending.of <= used
                  /\ ledger => ticket[sending.of].kind = "edit"

Shape ==
    /\ \A i \in Tickets : i > used => ticket[i] = NoTicket
    /\ \A i \in Tickets : TicketOk(ticket[i])
    /\ \A op \in queue : OpOk(op)
    /\ \A op, o \in queue : op.of = o.of \/ Key(op) = Key(o) => op = o
    /\ SendingOk

(* With the ledger: an entry with the id of a queued operation is its own,   *)
(* and the balance lacks what is outstanding.                               *)
OwnEntries == \A op \in queue : op.kind = "entry" => \A e \in entered : e[1] = op.id => e[2] = op.of

Outstandings == [i \in Tickets |-> Outstanding(i)]

WithLedger == OwnEntries /\ balance + Total(Outstandings) = Due

(* Without it: one request at most is under way beside the queue, everything *)
(* that will be written is what is due, unless a newer operation follows it, *)
(* and the balance is what is due, or something that is left will make it so. *)
Follows(op) == op.kind = "set" /\ ~op.done /\ op.of # sending.of

SetAims == \A op \in queue : op.kind = "set" => op.amount = Due

TicketAims ==
    \A i \in Tickets : LET t == ticket[i] IN
        /\ t.pc = "post" => online /\ queue = {} /\ ~sending.on /\ t.before = Due /\ balance = Due
        /\ t.pc \in {"put", "putting"} => t.before + t.delta = Due
        /\ t.pc = "putting" /\ t.seen = Due => balance = Due

OneInFlight == \A i, j \in Tickets : ticket[i].pc \in InFlight /\ ticket[j].pc \in InFlight => i = j

Alone == \A i \in Tickets : ticket[i].pc \notin InFlight

SendingAims ==
    sending.on /\ ticket[sending.of].kind # "edit" =>
        \/ sending.target = Due /\ (sending.read = Due => balance = Due)
        \/ (\E op \in queue : Follows(op)) /\ Alone

Carried ==
    \/ balance = Due
    \/ \E op \in queue : op.kind = "set" /\ ~op.done
    \/ \E i \in Tickets : ticket[i].pc \in {"put", "putting"} /\ ~ticket[i].queued /\ ticket[i].delta # 0

WithoutLedger == SetAims /\ TicketAims /\ OneInFlight /\ SendingAims /\ Carried

CInv == Shape /\ (~disturbed => IF ledger THEN WithLedger ELSE WithoutLedger)
-----------------------------------------------------------------------------
(* Induction over the numbers up to N, for the elements of a set: a number   *)
(* that is missing would leave a finite set that is mapped into less than    *)
(* itself.                                                                   *)
LEMMA SetInduction ==
    ASSUME NEW N \in Nat, NEW S, 0 \in S, \A n \in S : n < N => n + 1 \in S
    PROVE  0..N \subseteq S
<1> SUFFICES ASSUME NEW m \in 0..N, m \notin S PROVE FALSE
  OBVIOUS
<1> DEFINE T == S \cap (0..m)
           f == [x \in T |-> x + 1]
<1>1. IsFiniteSet(0..m) 
  BY FS_Interval
<1>2. IsFiniteSet(T) 
  BY <1>1, FS_Subset
<1>3. 0 \in T
  OBVIOUS
<1>4. IsFiniteSet(T \ {0}) /\ Cardinality(T \ {0}) = Cardinality(T) - 1
  BY <1>2, <1>3, FS_RemoveElement
<1>5. \A x \in T : x + 1 \in T \ {0} /\ x \in Int
  OBVIOUS
<1>6. f \in Injection(T, T \ {0})
  <2>1. f \in [T -> T \ {0}]
    BY <1>5
  <2>2. \A x, y \in T : f[x] = f[y] => x = y
    BY <1>5
  <2> QED
    BY <2>1, <2>2 DEF Injection, IsInjective
<1> HIDE DEF T, f
<1>7. Cardinality(T) <= Cardinality(T \ {0})
  BY <1>4, <1>6, FS_Injection
<1>8. Cardinality(T) \in Nat
  BY <1>2, FS_CardinalityType
<1> QED
  BY <1>4, <1>7, <1>8


\* The sum of f over the tickets up to each number.
IsPartial(g, f, n) == g = [k \in 0..n |-> IF k = 0 THEN 0 ELSE g[k - 1] + f[k]]

Partial(f) == CHOOSE g : IsPartial(g, f, MaxTickets)

LEMMA TotalPartial == \A f : Total(f) = Partial(f)[MaxTickets]
BY DEF Total, Partial, IsPartial

LEMMA PartialExists == \A f : \E g : IsPartial(g, f, MaxTickets)
<1> SUFFICES ASSUME NEW f PROVE \E g : IsPartial(g, f, MaxTickets)
  OBVIOUS
<1> DEFINE S == {n \in 0..MaxTickets : \E g : IsPartial(g, f, n)}
<1>1. 0 \in S
  <2>1. IsPartial([k \in 0..0 |-> 0], f, 0)
    BY DEF IsPartial
  <2> QED
    BY <2>1, BoundsAssumption
<1>2. ASSUME NEW n \in S, n < MaxTickets PROVE n + 1 \in S
  <2>1. PICK g : IsPartial(g, f, n)
    OBVIOUS
  <2>2. n \in Nat /\ n + 1 \in 0..MaxTickets
    BY <1>2, BoundsAssumption
  <2> DEFINE h == [k \in 0..(n + 1) |-> IF k = n + 1 THEN g[n] + f[n + 1] ELSE g[k]]
  <2>3. \A k \in 0..n : g[k] = IF k = 0 THEN 0 ELSE g[k - 1] + f[k]
    BY <2>1 DEF IsPartial
  <2>4. \A k \in 0..(n + 1) : h[k] = IF k = 0 THEN 0 ELSE h[k - 1] + f[k]
    <3> SUFFICES ASSUME NEW k \in 0..(n + 1) PROVE h[k] = IF k = 0 THEN 0 ELSE h[k - 1] + f[k]
      OBVIOUS
    <3>1. CASE k = n + 1
      BY <2>2, <3>1
    <3>2. CASE k # n + 1
      BY <2>2, <2>3, <3>2
    <3> QED
      BY <3>1, <3>2
  <2>5. h = [k \in 0..(n + 1) |-> IF k = 0 THEN 0 ELSE h[k - 1] + f[k]]
    BY <2>4
  <2> QED
    BY <2>2, <2>5 DEF IsPartial
<1>3. 0..MaxTickets \subseteq S
  <2> HIDE DEF S
  <2> QED
    BY <1>1, <1>2, SetInduction, BoundsAssumption
<1> QED
  BY <1>3, BoundsAssumption

LEMMA PartialStep ==
    ASSUME NEW f
    PROVE  /\ Partial(f)[0] = 0
           /\ \A n \in Tickets : Partial(f)[n] = Partial(f)[n - 1] + f[n]
<1> DEFINE g == Partial(f)
<1>1. IsPartial(g, f, MaxTickets)
  BY PartialExists DEF Partial
<1> HIDE DEF g
<1>2. \A n \in 0..MaxTickets : g[n] = IF n = 0 THEN 0 ELSE g[n - 1] + f[n]
  BY <1>1 DEF IsPartial
<1> QED
  BY <1>2, BoundsAssumption DEF Tickets, g

LEMMA PartialType ==
    ASSUME NEW f \in [Tickets -> Int]
    PROVE  \A n \in 0..MaxTickets : Partial(f)[n] \in Int
<1> DEFINE S == {n \in 0..MaxTickets : Partial(f)[n] \in Int}
<1>1. 0 \in S
  BY PartialStep, BoundsAssumption
<1>2. ASSUME NEW n \in S, n < MaxTickets PROVE n + 1 \in S
  <2>1. n + 1 \in Tickets /\ n + 1 \in 0..MaxTickets /\ (n + 1) - 1 = n
    BY <1>2, BoundsAssumption DEF Tickets
  <2>2. Partial(f)[n + 1] = Partial(f)[n] + f[n + 1] /\ f[n + 1] \in Int
    BY <2>1, PartialStep
  <2> QED
    BY <2>1, <2>2
<1> HIDE DEF S
<1>3. 0..MaxTickets \subseteq S
  BY <1>1, <1>2, SetInduction, BoundsAssumption
<1> QED
  BY <1>3 DEF S

LEMMA TotalType == ASSUME NEW f \in [Tickets -> Int] PROVE Total(f) \in Int
BY TotalPartial, PartialType, BoundsAssumption

(* A sum changes by what one of its terms does. *)
LEMMA TotalUpdate ==
    ASSUME NEW f \in [Tickets -> Int], NEW h \in [Tickets -> Int], NEW j \in Tickets,
           \A i \in Tickets \ {j} : h[i] = f[i]
    PROVE  Total(h) = Total(f) + (h[j] - f[j])
<1> DEFINE more(n) == IF n < j THEN 0 ELSE h[j] - f[j]
           S == {n \in 0..MaxTickets : Partial(h)[n] = Partial(f)[n] + more(n)}
<1>0. j \in Nat /\ 0 < j /\ j <= MaxTickets /\ h[j] \in Int /\ f[j] \in Int
  BY BoundsAssumption DEF Tickets
<1>1. 0 \in S
  BY PartialStep, BoundsAssumption, <1>0
<1>2. ASSUME NEW n \in S, n < MaxTickets PROVE n + 1 \in S
  <2>1. n \in Nat /\ n + 1 \in Tickets /\ n + 1 \in 0..MaxTickets /\ (n + 1) - 1 = n
    BY <1>2, BoundsAssumption DEF Tickets
  <2>2. /\ Partial(f)[n + 1] = Partial(f)[n] + f[n + 1] /\ f[n + 1] \in Int
        /\ Partial(h)[n + 1] = Partial(h)[n] + h[n + 1] /\ h[n + 1] \in Int
    BY <2>1, PartialStep
  <2>3. Partial(f)[n] \in Int /\ Partial(h)[n] = Partial(f)[n] + more(n)
    BY PartialType
  <2>4. more(n + 1) = more(n) + (h[n + 1] - f[n + 1])
    <3>1. CASE n + 1 = j
      BY <2>1, <2>2, <1>0, <3>1
    <3>2. CASE n + 1 # j
      <4>1. h[n + 1] = f[n + 1]
        BY <2>1, <3>2
      <4> QED
        BY <2>1, <2>2, <1>0, <3>2, <4>1
    <3> QED
      BY <3>1, <3>2
  <2>5. more(n) \in Int
    BY <1>0
  <2> HIDE DEF more
  <2>6. Partial(h)[n + 1] = Partial(f)[n + 1] + more(n + 1)
    BY <2>2, <2>3, <2>4, <2>5
  <2> QED
    BY <2>1, <2>6
<1>3. 0..MaxTickets \subseteq S
  <2> HIDE DEF S
  <2> QED
    BY <1>1, <1>2, SetInduction, BoundsAssumption
<1> QED
  BY <1>0, <1>3, TotalPartial, BoundsAssumption

LEMMA TotalZero == Total([i \in Tickets |-> 0]) = 0
<1> DEFINE f == [i \in Tickets |-> 0]
           S == {n \in 0..MaxTickets : Partial(f)[n] = 0}
<1>1. 0 \in S
  BY PartialStep, BoundsAssumption
<1>2. ASSUME NEW n \in S, n < MaxTickets PROVE n + 1 \in S
  <2>1. n + 1 \in Tickets /\ n + 1 \in 0..MaxTickets /\ (n + 1) - 1 = n
    BY <1>2, BoundsAssumption DEF Tickets
  <2>2. Partial(f)[n + 1] = Partial(f)[n] + f[n + 1] /\ f[n + 1] = 0
    BY <2>1, PartialStep
  <2> QED
    BY <2>1, <2>2
<1>3. 0..MaxTickets \subseteq S
  <2> HIDE DEF S
  <2> QED
    BY <1>1, <1>2, SetInduction, BoundsAssumption
<1> QED
  BY <1>3, TotalPartial, BoundsAssumption
-----------------------------------------------------------------------------
(* The shape.                                                               *)
LEMMA ShapeInit == Init => Shape
BY DEF Init, Shape, TicketOk, SendingOk, NoTicket, NotSending

\* Ticket i becomes u, and may be new.
Becomes(i, u) ==
    /\ ticket' = [ticket EXCEPT ![i] = u]
    /\ used <= used' /\ i <= used'
    /\ \A j \in Tickets : j > used' => j > used

LEMMA BecomesAt ==
    ASSUME TypeOK, TypeOK', NEW i \in Tickets, NEW u, Becomes(i, u)
    PROVE  /\ ticket'[i] = u /\ u \in Ticket
           /\ \A j \in Tickets \ {i} : ticket'[j] = ticket[j]
           /\ used \in Nat /\ used' \in Nat /\ i \in Nat
<1>1. ticket \in [Tickets -> Ticket] /\ ticket' \in [Tickets -> Ticket]
  BY DEF TypeOK
<1>2. used \in Nat /\ used' \in Nat /\ i \in Nat
  BY BoundsAssumption DEF TypeOK, Tickets
<1>3. ticket'[i] = u /\ \A j \in Tickets \ {i} : ticket'[j] = ticket[j]
  BY <1>1 DEF Becomes
<1>4. u \in Ticket
  BY <1>1, <1>3
<1> QED
  BY <1>2, <1>3, <1>4

LEMMA OpFacts ==
    ASSUME TypeOK
    PROVE  /\ \A op \in queue : op \in Op
           /\ \A op \in Op : /\ op.of \in Tickets /\ op.of \in Nat
                              /\ op.kind \in {"set", "edit", "entry"} /\ op.amount \in Int
           /\ used \in Nat
BY BoundsAssumption DEF TypeOK, Op, Tickets

LEMMA UnusedHasNone ==
    ASSUME TypeOK, Shape, NEW i \in Tickets, i > used
    PROVE  \A op \in queue : op.of # i
<1>1. i \in Nat /\ used \in Nat
  BY OpFacts, BoundsAssumption DEF Tickets
<1> QED
  BY <1>1, OpFacts DEF Shape, OpOk

LEMMA UsedTicket ==
    ASSUME TypeOK, Shape, NEW i \in Tickets, ticket[i].pc # "none"
    PROVE  i <= used
<1>1. i \in Nat /\ used \in Nat
  BY OpFacts, BoundsAssumption DEF Tickets
<1> QED
  BY <1>1 DEF Shape, NoTicket

LEMMA ShapeTicket ==
    ASSUME TypeOK, TypeOK', Shape, NEW i \in Tickets, NEW u, Becomes(i, u), TicketOk(u),
           \/ i > used
           \/ u.kind = ticket[i].kind /\ u.delta = ticket[i].delta /\ u.queued = ticket[i].queued,
           UNCHANGED <<ledger, queue, sending>>
    PROVE  Shape'
<1>1. /\ ticket'[i] = u /\ u \in Ticket /\ used \in Nat /\ used' \in Nat /\ i \in Nat
      /\ \A j \in Tickets \ {i} : ticket'[j] = ticket[j]
  BY BecomesAt
<1>2. \A j \in Tickets : j > used' => ticket'[j] = NoTicket
  BY <1>1, BoundsAssumption DEF Becomes, Shape, Tickets
<1>3. \A j \in Tickets : TicketOk(ticket'[j])
  BY <1>1 DEF Shape
<1>4. \A op \in queue : OpOk(op)'
  <2> SUFFICES ASSUME NEW op \in queue PROVE OpOk(op)'
    OBVIOUS
  <2>1. OpOk(op) /\ op.of \in Tickets /\ op.of \in Nat
    BY OpFacts DEF Shape
  <2>2. CASE op.of = i
    <3>1. ~(i > used)
      BY <2>2, UnusedHasNone
    <3> QED
      BY <1>1, <2>1, <2>2, <3>1 DEF OpOk, Becomes
  <2>3. CASE op.of # i
    BY <1>1, <2>1, <2>3 DEF OpOk, Becomes
  <2> QED
    BY <2>2, <2>3
<1>5. SendingOk'
  <2> SUFFICES ASSUME sending.on PROVE SendingOk'
    BY DEF SendingOk
  <2>1. /\ sending.of \in Tickets /\ sending.of <= used /\ sending.of \in Nat
        /\ ledger => ticket[sending.of].kind = "edit"
    BY BoundsAssumption DEF Shape, SendingOk, Tickets
  <2> QED
    BY <1>1, <2>1 DEF SendingOk, Becomes
<1>6. \A op, o \in queue' : op.of = o.of \/ Key(op) = Key(o) => op = o
  BY DEF Shape
<1> QED
  BY <1>2, <1>3, <1>4, <1>5, <1>6 DEF Shape, TicketOk, Key

LEMMA WalletOpIs ==
    ASSUME TypeOK, NEW i \in Tickets, NEW t \in Ticket
    PROVE  LET op == WalletOp(i, t) IN
           /\ op \in Op /\ op.of = i /\ ~op.done /\ ~op.dead /\ op.id = <<t.kind, t.number, t.delta>>
           /\ op.kind = IF t.kind = "edit" THEN "edit" ELSE IF ledger THEN "entry" ELSE "set"
           /\ op.amount = IF op.kind = "entry" THEN t.delta ELSE t.before + t.delta
<1>1. WalletOp(i, t) \in Op
  BY WalletOpType
<1> QED
  BY <1>1 DEF WalletOp

(* The operation of ticket i, which has none yet, is queued. *)
LEMMA ShapeQueued ==
    ASSUME TypeOK, TypeOK', Shape, NEW i \in Tickets, NEW t \in Ticket, NEW u, Becomes(i, u), TicketOk(u),
           u.kind = t.kind, u.delta = t.delta, u.queued,
           i > used \/ u.kind = ticket[i].kind,
           \A op \in queue : op.of # i,
           queue' \in {queue, Enqueue(WalletOp(i, t))},
           UNCHANGED <<ledger, sending>>
    PROVE  Shape'
<1>1. /\ ticket'[i] = u /\ u \in Ticket /\ used \in Nat /\ used' \in Nat /\ i \in Nat
      /\ \A j \in Tickets \ {i} : ticket'[j] = ticket[j]
  BY BecomesAt
<1>2. \A j \in Tickets : j > used' => ticket'[j] = NoTicket
  BY <1>1, BoundsAssumption DEF Becomes, Shape, Tickets
<1>3. \A j \in Tickets : TicketOk(ticket'[j])
  BY <1>1 DEF Shape
<1>a. PICK new \in Op : new = WalletOp(i, t)
  BY WalletOpIs
<1>4. /\ new \in Op /\ new.of = i /\ ~new.done
      /\ new.kind = IF t.kind = "edit" THEN "edit" ELSE IF ledger THEN "entry" ELSE "set"
      /\ new.kind = "entry" => new.amount = t.delta
  BY <1>a, WalletOpIs
<1>5. \A op \in queue : OpOk(op)'
  <2> SUFFICES ASSUME NEW op \in queue PROVE OpOk(op)'
    OBVIOUS
  <2>1. OpOk(op) /\ op.of \in Tickets /\ op.of \in Nat /\ op.of # i
    BY OpFacts DEF Shape
  <2> QED
    BY <1>1, <2>1 DEF OpOk, Becomes
<1>6. OpOk(new)'
  BY <1>1, <1>4 DEF OpOk, Becomes
<1>7. SendingOk'
  <2> SUFFICES ASSUME sending.on PROVE SendingOk'
    BY DEF SendingOk
  <2>1. /\ sending.of \in Tickets /\ sending.of <= used /\ sending.of \in Nat
        /\ ledger => ticket[sending.of].kind = "edit"
    BY BoundsAssumption DEF Shape, SendingOk, Tickets
  <2> QED
    BY <1>1, <2>1 DEF SendingOk, Becomes
<1>8. queue' \subseteq queue \cup {new}
  BY <1>a DEF Enqueue
<1>9. \A op, o \in queue' : op.of = o.of \/ Key(op) = Key(o) => op = o
  <2>1. CASE queue' = queue
    BY <2>1 DEF Shape
  <2>2. CASE queue' = {o \in queue : Key(o) # Key(new)} \cup {new}
    BY <1>4, <2>2 DEF Shape
  <2> QED
    BY <2>1, <2>2, <1>a DEF Enqueue
<1>10. \A op \in queue' : OpOk(op)'
  BY <1>5, <1>6, <1>8
<1> QED
  BY <1>2, <1>3, <1>7, <1>9, <1>10 DEF Shape, TicketOk, Key

LEMMA ShapeFewer ==
    ASSUME TypeOK, Shape, queue' \subseteq queue, UNCHANGED <<ledger, ticket, used>>,
           sending' = sending \/ ~sending'.on
    PROVE  Shape'
<1>1. \A op \in queue' : OpOk(op)'
  BY DEF Shape, OpOk
<1>2. SendingOk'
  BY DEF Shape, SendingOk
<1> QED
  BY <1>1, <1>2 DEF Shape, TicketOk, Key
-----------------------------------------------------------------------------
(* With the ledger.                                                         *)
Queued(i) == \E op \in queue : op.of = i /\ <<op.id, i>> \notin entered

InPut(i) == ~ticket[i].queued /\ ticket[i].pc \in {"put", "putting"}

LEMMA OutstandingIs == \A i : Outstanding(i) = IF Queued(i) \/ InPut(i) THEN ticket[i].delta ELSE 0
BY DEF Outstanding, Queued, InPut

LEMMA OutstandingNextIs == \A i : Outstanding(i)' = IF Queued(i)' \/ InPut(i)' THEN ticket'[i].delta ELSE 0
BY DEF Outstanding, Queued, InPut

LEMMA OutstandingType == ASSUME TypeOK PROVE \A i \in Tickets : Outstanding(i) \in Int
<1>1. \A i \in Tickets : ticket[i].delta \in Int
  BY DEF TypeOK, Ticket
<1> QED
  BY <1>1, OutstandingIs

LEMMA OutstandingNextType == ASSUME TypeOK' PROVE \A i \in Tickets : Outstanding(i)' \in Int
<1>1. \A i \in Tickets : ticket'[i].delta \in Int
  BY DEF TypeOK, Ticket
<1> QED
  BY <1>1, OutstandingNextIs

Balanced == balance + Total(Outstandings) = Due

LEMMA BalancedStep ==
    ASSUME TypeOK, TypeOK', Balanced, NEW i \in Tickets,
           \A j \in Tickets \ {i} : Outstanding(j)' = Outstanding(j),
           (balance' - balance) + (Outstanding(i)' - Outstanding(i)) = Due' - Due
    PROVE  Balanced'
<1>1. Outstandings \in [Tickets -> Int] /\ Outstandings' \in [Tickets -> Int]
  BY OutstandingType, OutstandingNextType DEF Outstandings
<1>2. \A j \in Tickets \ {i} : Outstandings'[j] = Outstandings[j]
  BY DEF Outstandings
<1>3. Total(Outstandings') = Total(Outstandings) + (Outstandings'[i] - Outstandings[i])
  BY <1>1, <1>2, TotalUpdate
<1>4. Outstandings'[i] = Outstanding(i)' /\ Outstandings[i] = Outstanding(i)
  BY DEF Outstandings
<1>5. balance \in Int /\ balance' \in Int /\ Due \in Int /\ Due' \in Int
  BY DEF TypeOK, Due
<1>6. Outstanding(i) \in Int /\ Outstanding(i)' \in Int
  BY OutstandingType, OutstandingNextType
<1>7. Total(Outstandings) \in Int /\ Total(Outstandings') \in Int
  BY <1>1, TotalType
<1>8. balance + Total(Outstandings) = Due
  BY DEF Balanced
<1>9. balance' + Total(Outstandings') = Due'
  BY <1>3, <1>4, <1>5, <1>6, <1>7, <1>8
<1> QED
  BY <1>9 DEF Balanced

LEMMA BalancedSame ==
    ASSUME TypeOK, TypeOK', Balanced, NEW d \in Int, balance' = balance + d, Due' = Due + d,
           \A j \in Tickets : Outstanding(j)' = Outstanding(j)
    PROVE  Balanced'
<1>1. Outstandings' = Outstandings
  BY DEF Outstandings
<1>2. Outstandings \in [Tickets -> Int]
  BY OutstandingType DEF Outstandings
<1>3. Total(Outstandings) \in Int
  BY <1>2, TotalType
<1>4. balance \in Int /\ Due \in Int
  BY DEF TypeOK, Due
<1>5. balance' + Total(Outstandings) = Due'
  BY <1>3, <1>4 DEF Balanced
<1> QED
  BY <1>1, <1>5 DEF Balanced

(* Ticket i moves on, and nothing is queued. *)
LEMMA LedgerTicket ==
    ASSUME TypeOK, TypeOK', Shape, WithLedger, NEW i \in Tickets, NEW u, Becomes(i, u),
           UNCHANGED <<queue, entered>>,
           LET was == IF Queued(i) \/ InPut(i) THEN ticket[i].delta ELSE 0
               is == IF Queued(i) \/ (~u.queued /\ u.pc \in {"put", "putting"}) THEN u.delta ELSE 0
           IN  (balance' - balance) + (is - was) = Due' - Due
    PROVE  WithLedger'
<1>1. ticket'[i] = u /\ \A j \in Tickets \ {i} : ticket'[j] = ticket[j]
  BY BecomesAt
<1>2. \A j : Queued(j)' <=> Queued(j)
  BY DEF Queued
<1>3. \A j \in Tickets \ {i} : Outstanding(j)' = Outstanding(j)
  BY <1>1, <1>2, OutstandingIs, OutstandingNextIs DEF InPut
<1>4. Outstanding(i)' = IF Queued(i) \/ (~u.queued /\ u.pc \in {"put", "putting"}) THEN u.delta ELSE 0
  BY <1>1, <1>2, OutstandingNextIs DEF InPut
<1>5. Outstanding(i) = IF Queued(i) \/ InPut(i) THEN ticket[i].delta ELSE 0
  BY OutstandingIs
<1>6. (balance' - balance) + (Outstanding(i)' - Outstanding(i)) = Due' - Due
  BY <1>4, <1>5, Zenon
<1>7. Balanced'
  BY <1>3, <1>6, BalancedStep DEF WithLedger, Balanced
<1> QED
  BY <1>7 DEF WithLedger, Balanced, OwnEntries

(* The operation of ticket i, which has none yet, is queued: it has a new id. *)
LEMMA LedgerQueued ==
    ASSUME TypeOK, TypeOK', Shape, WithLedger, ledger,
           NEW i \in Tickets, NEW t \in Ticket, NEW u, Becomes(i, u),
           u.delta = t.delta, u.queued, t.kind # "edit",
           \A op \in queue : op.of # i,
           ~InPut(i),
           IF t.delta = 0 THEN queue' = queue
           ELSE queue' = Enqueue(WalletOp(i, t)) /\ ~Loses(i, t),
           UNCHANGED <<balance, entered>>, Due' = Due + t.delta
    PROVE  WithLedger'
<1>1. ticket'[i] = u /\ \A j \in Tickets \ {i} : ticket'[j] = ticket[j]
  BY BecomesAt
<1>2. ~Queued(i) /\ Outstanding(i) = 0
  BY OutstandingIs DEF Queued
<1>3. balance \in Int /\ Due \in Int /\ t.delta \in Int /\ UNCHANGED balance
  BY DEF TypeOK, Due, Ticket
<1>4. ~InPut(i)'
  BY <1>1 DEF InPut
<1>5. CASE t.delta = 0
  <2>1. queue' = queue
    BY <1>5
  <2>2. \A j : Queued(j)' <=> Queued(j)
    BY <2>1 DEF Queued
  <2>3. Outstanding(i)' = 0
    BY <1>2, <1>4, <2>2, OutstandingNextIs
  <2>4. \A j \in Tickets \ {i} : Outstanding(j)' = Outstanding(j)
    BY <1>1, <2>2, OutstandingIs, OutstandingNextIs DEF InPut
  <2>5. Due' = Due + 0
    BY <1>5
  <2>6. Balanced'
    BY <1>2, <1>3, <2>3, <2>4, <2>5, BalancedStep DEF WithLedger, Balanced
  <2> QED
    BY <2>1, <2>6 DEF WithLedger, Balanced, OwnEntries
<1>6. CASE t.delta # 0
  <2>a. PICK new \in Op : new = WalletOp(i, t)
    BY WalletOpIs
  <2>1. new.of = i /\ new.kind = "entry"
    BY <2>a, WalletOpIs
  <2>2. ~Known(new.id) /\ ~\E op \in queue : op.id = new.id
    BY <1>6, <2>a DEF Loses
  <2>3. \A op \in queue : Key(op) # Key(new)
    BY <2>1, <2>2 DEF Key
  <2>4. queue' = queue \cup {new}
    BY <1>6, <2>a, <2>3 DEF Enqueue
  <2>5. \A e \in entered : e[1] # new.id
    BY <2>2 DEF Known
  <2>6. <<new.id, i>> \notin entered
    BY <2>5
  <2>7. Queued(i)'
    BY <2>1, <2>4, <2>6 DEF Queued
  <2>8. \A j \in Tickets \ {i} : Queued(j)' <=> Queued(j)
    BY <2>1, <2>4 DEF Queued
  <2>9. \A j \in Tickets \ {i} : Outstanding(j)' = Outstanding(j)
    BY <1>1, <2>8, OutstandingIs, OutstandingNextIs DEF InPut
  <2>10. Outstanding(i)' = t.delta
    BY <1>1, <2>7, OutstandingNextIs
  <2>11. Balanced'
    BY <1>2, <1>3, <2>9, <2>10, BalancedStep DEF WithLedger, Balanced
  <2>12. OwnEntries'
    BY <2>4, <2>5 DEF WithLedger, OwnEntries
  <2> QED
    BY <2>11, <2>12 DEF WithLedger, Balanced
<1> QED
  BY <1>5, <1>6

(* Nothing that counts is changed. *)
LEMMA LedgerKept ==
    ASSUME TypeOK, TypeOK', WithLedger, NEW d \in Int, balance' = balance + d, Due' = Due + d,
           UNCHANGED <<ticket, queue, entered>>
    PROVE  WithLedger'
<1>1. \A j \in Tickets : Outstanding(j)' = Outstanding(j)
  BY OutstandingIs, OutstandingNextIs DEF Queued, InPut
<1>2. Balanced'
  BY <1>1, BalancedSame DEF WithLedger, Balanced
<1> QED
  BY <1>2 DEF WithLedger, Balanced, OwnEntries
-----------------------------------------------------------------------------
(* Without the ledger.                                                      *)
LEMMA DueType == ASSUME TypeOK PROVE Due \in Int /\ balance \in Int
BY DEF TypeOK, Due

(* A ticket that is under way moves on, or one that is not stays so; what is *)
(* written is what is due.                                                  *)
LEMMA AimsMove ==
    ASSUME TypeOK, TypeOK', Shape, WithoutLedger, NEW i \in Tickets, NEW u, Becomes(i, u),
           i > used \/ u.kind = ticket[i].kind,
           UNCHANGED <<online, queue, sending>>, Due' = Due, balance' = balance \/ balance' = Due,
           u.pc # "post",
           u.pc \in InFlight => ticket[i].pc \in InFlight /\ u.before + u.delta = Due,
           u.pc = "putting" /\ u.seen = Due => balance' = Due,
           \/ balance' = Due
           \/ ~(ticket[i].pc \in {"put", "putting"} /\ ~ticket[i].queued /\ ticket[i].delta # 0)
           \/ u.pc \in {"put", "putting"} /\ ~u.queued /\ u.delta # 0
    PROVE  WithoutLedger'
<1>1. ticket'[i] = u /\ \A j \in Tickets \ {i} : ticket'[j] = ticket[j]
  BY BecomesAt
<1>2. SetAims'
  BY DEF WithoutLedger, SetAims
<1>3. TicketAims'
  <2> SUFFICES ASSUME NEW j \in Tickets
               PROVE  /\ ticket'[j].pc = "post" =>
                           online' /\ queue = {} /\ ~sending.on /\ ticket'[j].before = Due /\ balance' = Due
                      /\ ticket'[j].pc \in {"put", "putting"} => ticket'[j].before + ticket'[j].delta = Due
                      /\ ticket'[j].pc = "putting" /\ ticket'[j].seen = Due => balance' = Due
    BY DEF TicketAims
  <2>1. CASE j = i
    BY <1>1, <2>1 DEF InFlight
  <2>2. CASE j # i
    BY <1>1, <2>2 DEF WithoutLedger, TicketAims
  <2> QED
    BY <2>1, <2>2
<1>4. OneInFlight'
  BY <1>1 DEF WithoutLedger, OneInFlight
<1>5. SendingAims'
  <2> SUFFICES ASSUME sending.on, ticket'[sending.of].kind # "edit"
               PROVE  \/ sending.target = Due /\ (sending.read = Due => balance' = Due)
                      \/ (\E op \in queue : Follows(op)) /\ Alone'
    BY DEF SendingAims, Follows
  <2>1. sending.of \in Tickets /\ sending.of <= used /\ sending.of \in Nat /\ used \in Nat
    BY BoundsAssumption DEF Shape, SendingOk, Tickets, TypeOK
  <2>2. ticket[sending.of].kind # "edit"
    BY <1>1, <2>1
  <2>3. Alone => Alone'
    BY <1>1 DEF Alone
  <2> QED
    BY <2>2, <2>3 DEF WithoutLedger, SendingAims
<1>6. Carried'
  <2>1. CASE balance' = Due
    BY <2>1 DEF Carried
  <2>2. CASE balance = Due /\ balance' # Due
    BY <2>2
  <2>3. CASE \E op \in queue : op.kind = "set" /\ ~op.done
    BY <2>3 DEF Carried
  <2>4. ASSUME NEW j \in Tickets, balance' # Due,
               ticket[j].pc \in {"put", "putting"} /\ ~ticket[j].queued /\ ticket[j].delta # 0
        PROVE  Carried'
    <3>1. ticket'[j].pc \in {"put", "putting"} /\ ~ticket'[j].queued /\ ticket'[j].delta # 0
      BY <1>1, <2>4
    <3> QED
      BY <3>1 DEF Carried
  <2> QED
    BY <2>1, <2>2, <2>3, <2>4 DEF WithoutLedger, Carried
<1> QED
  BY <1>2, <1>3, <1>4, <1>5, <1>6 DEF WithoutLedger

(* A new request, when nothing else is under way. *)
LEMMA AimsAsk ==
    ASSUME TypeOK, TypeOK', Shape, WithoutLedger, NEW i \in Tickets, NEW u, Becomes(i, u),
           ~Sending, online, u.before = Due, u.pc \in {"post", "put"}, u.pc = "put" => u.delta = 0,
           UNCHANGED <<online, queue, sending>>, Due' = Due, balance' = balance
    PROVE  WithoutLedger'
<1>1. ticket'[i] = u /\ \A j \in Tickets \ {i} : ticket'[j] = ticket[j]
  BY BecomesAt
<1>2. queue = {} /\ ~sending.on /\ \A j \in Tickets : ticket[j].pc \notin InFlight
  BY DEF Sending
<1>3. balance = Due
  BY <1>2 DEF WithoutLedger, Carried, InFlight
<1>4. \A j \in Tickets \ {i} : ticket'[j].pc \notin {"post", "put", "putting"}
  BY <1>1, <1>2 DEF InFlight
<1>5. u.pc \in {"put", "putting"} => u.before + u.delta = Due
  BY DueType
<1>6. TicketAims'
  <2> SUFFICES ASSUME NEW j \in Tickets
               PROVE  /\ ticket'[j].pc = "post" =>
                           online' /\ queue = {} /\ ~sending.on /\ ticket'[j].before = Due /\ balance' = Due
                      /\ ticket'[j].pc \in {"put", "putting"} => ticket'[j].before + ticket'[j].delta = Due
                      /\ ticket'[j].pc = "putting" /\ ticket'[j].seen = Due => balance' = Due
    BY DEF TicketAims
  <2>1. CASE j = i
    BY <1>1, <1>2, <1>3, <1>5, <2>1
  <2>2. CASE j # i
    BY <1>4, <2>2
  <2> QED
    BY <2>1, <2>2
<1>7. OneInFlight'
  BY <1>1, <1>2 DEF OneInFlight
<1>8. SetAims' /\ SendingAims' /\ Carried'
  BY <1>2, <1>3 DEF SetAims, SendingAims, Carried
<1> QED
  BY <1>6, <1>7, <1>8 DEF WithoutLedger

(* The sale of ticket i, which alone is under way, is recorded: its request   *)
(* for the balance follows, when there is a change to send.                  *)
LEMMA AimsPosted ==
    ASSUME TypeOK, TypeOK', Shape, WithoutLedger, NEW i \in Tickets, NEW u, Becomes(i, u),
           ticket[i].pc = "post", u.before = ticket[i].before, u.delta = ticket[i].delta, ~u.queued,
           u.pc \in {"put", "refresh"}, u.delta # 0 => u.pc = "put",
           UNCHANGED <<queue, sending>>, Due' = Due + u.delta, balance' = balance
    PROVE  WithoutLedger'
<1>1. ticket'[i] = u /\ u \in Ticket /\ \A j \in Tickets \ {i} : ticket'[j] = ticket[j]
  BY BecomesAt
<1>2. queue = {} /\ ~sending.on /\ u.before = Due /\ balance = Due
  BY DEF WithoutLedger, TicketAims
<1>3. \A j \in Tickets \ {i} : ticket'[j].pc \notin {"post", "put", "putting"}
  BY <1>1 DEF WithoutLedger, OneInFlight, InFlight
<1>4. u.before + u.delta = Due' /\ (u.delta = 0 => Due' = Due)
  BY <1>2, DueType
<1>5. TicketAims'
  <2> SUFFICES ASSUME NEW j \in Tickets
               PROVE  /\ ticket'[j].pc # "post" /\ ticket'[j].pc # "putting"
                      /\ ticket'[j].pc = "put" => ticket'[j].before + ticket'[j].delta = Due'
    BY DEF TicketAims
  <2>1. CASE j = i
    BY <1>1, <1>4, <2>1
  <2>2. CASE j # i
    BY <1>3, <2>2
  <2> QED
    BY <2>1, <2>2
<1>6. OneInFlight'
  BY <1>1, <1>3 DEF OneInFlight, InFlight
<1>7. SetAims' /\ SendingAims'
  BY <1>2 DEF SetAims, SendingAims
<1>8. Carried'
  <2>1. CASE u.delta = 0
    BY <1>2, <1>4, <2>1 DEF Carried
  <2>2. CASE u.delta # 0
    BY <1>1, <2>2 DEF Carried
  <2> QED
    BY <2>1, <2>2
<1> QED
  BY <1>5, <1>6, <1>7, <1>8 DEF WithoutLedger

(* What ticket i has recorded is queued when nothing else is under way beside *)
(* the queue, and from the balance that is due.                              *)
LEMMA AimsQueued ==
    ASSUME TypeOK, TypeOK', Shape, WithoutLedger, ~ledger,
           NEW i \in Tickets, NEW t \in Ticket, NEW u, Becomes(i, u),
           i > used \/ (u.kind = ticket[i].kind /\ ~sending.on),
           t.kind # "edit", t.before = u.before, t.delta = u.delta, u.queued,
           u.pc \in {"put", "refresh", "done"}, u.pc = "put" => ~sending.on,
           queue' = Enqueue(WalletOp(i, t)), ~Loses(i, t), UNCHANGED sending,
           Due' = Due + u.delta, balance' = balance
    PROVE  WithoutLedger'
<1>1. ticket'[i] = u /\ u \in Ticket /\ \A j \in Tickets \ {i} : ticket'[j] = ticket[j]
  BY BecomesAt
<1>2. ~Busy(i) /\ u.before = Due
  BY DEF Loses, Due
<1>3. \A j \in Tickets \ {i} : ticket'[j].pc \notin {"post", "put", "putting"}
  BY <1>1, <1>2 DEF Busy, InFlight
<1>4. u.before + u.delta = Due'
  BY <1>2
<1>a. PICK new \in Op : new = WalletOp(i, t)
  BY WalletOpIs
<1>5. new.of = i /\ new.kind = "set" /\ ~new.done /\ new.amount = Due'
  BY <1>4, <1>a, WalletOpIs
<1>6. new \in queue' /\ \A op \in queue' : op.kind = "set" => op = new
  BY <1>a, <1>5 DEF Enqueue, Key
<1>7. SetAims' /\ Carried'
  BY <1>5, <1>6 DEF SetAims, Carried
<1>8. TicketAims'
  <2> SUFFICES ASSUME NEW j \in Tickets
               PROVE  /\ ticket'[j].pc # "post" /\ ticket'[j].pc # "putting"
                      /\ ticket'[j].pc = "put" => ticket'[j].before + ticket'[j].delta = Due'
    BY DEF TicketAims
  <2>1. CASE j = i
    BY <1>1, <1>4, <2>1
  <2>2. CASE j # i
    BY <1>3, <2>2
  <2> QED
    BY <2>1, <2>2
<1>9. OneInFlight'
  BY <1>1, <1>3 DEF OneInFlight, InFlight
<1>10. SendingAims'
  <2> SUFFICES ASSUME sending.on PROVE SendingAims'
    BY DEF SendingAims
  <2>1. sending.of # i
    BY BoundsAssumption DEF Shape, SendingOk, TypeOK, Tickets
  <2>2. Follows(new)'
    BY <1>5, <2>1 DEF Follows
  <2>3. Alone'
    BY <1>1, <1>3 DEF Alone, InFlight
  <2> QED
    BY <1>6, <2>2, <2>3 DEF SendingAims
<1> QED
  BY <1>7, <1>8, <1>9, <1>10 DEF WithoutLedger

(* The balances that the queue holds, and what is due, stay the same. *)
LEMMA AimsKept ==
    ASSUME TypeOK, TypeOK', Shape, WithoutLedger,
           \A j \in Tickets : ticket'[j] = ticket[j] \/ (j > used /\ ticket'[j].pc = "done"),
           UNCHANGED sending, Due' = Due, balance' = balance,
           online => online' /\ (queue # {} \/ queue' = {}),
           \A op \in queue : op.kind = "set" /\ ~op.done
                => \E o \in queue' : o.kind = "set" /\ ~o.done /\ o.of = op.of,
           \A o \in queue' : o.kind = "set" => \E op \in queue : op.kind = "set" /\ o.amount = op.amount
    PROVE  WithoutLedger'
<1>1. SetAims'
  BY DEF WithoutLedger, SetAims
<1>2. \A j \in Tickets : ticket'[j] = ticket[j] \/ ticket'[j].pc = "done"
  OBVIOUS
<1>3. TicketAims'
  <2> SUFFICES ASSUME NEW j \in Tickets
               PROVE  /\ ticket'[j].pc = "post" =>
                           online' /\ queue' = {} /\ ~sending.on /\ ticket'[j].before = Due /\ balance = Due
                      /\ ticket'[j].pc \in {"put", "putting"} => ticket'[j].before + ticket'[j].delta = Due
                      /\ ticket'[j].pc = "putting" /\ ticket'[j].seen = Due => balance = Due
    BY DEF TicketAims
  <2> QED
    BY <1>2 DEF WithoutLedger, TicketAims
<1>4. OneInFlight'
  BY <1>2 DEF WithoutLedger, OneInFlight, InFlight
<1>5. SendingAims'
  <2> SUFFICES ASSUME sending.on, ticket'[sending.of].kind # "edit" PROVE SendingAims'
    BY DEF SendingAims
  <2>a. sending.of \in Tickets /\ sending.of <= used /\ used \in Nat
    BY OpFacts DEF Shape, SendingOk
  <2>1. sending.of \in Tickets /\ ~(sending.of > used)
    BY <2>a, BoundsAssumption DEF Tickets
  <2>2. ticket'[sending.of] = ticket[sending.of]
    BY <2>1
  <2>3. Alone => Alone'
    BY <1>2 DEF Alone, InFlight
  <2> QED
    BY <2>2, <2>3 DEF WithoutLedger, SendingAims, Follows
<1>6. Carried'
  <2>1. CASE \E j \in Tickets : ticket[j].pc \in {"put", "putting"} /\ ~ticket[j].queued /\ ticket[j].delta # 0
    <3>1. PICK j \in Tickets : ticket[j].pc \in {"put", "putting"} /\ ~ticket[j].queued /\ ticket[j].delta # 0
      BY <2>1
    <3>2. ~(j > used)
      BY <3>1 DEF Shape, NoTicket
    <3>3. ticket'[j] = ticket[j]
      BY <3>2
    <3> QED
      BY <3>1, <3>3 DEF Carried
  <2>2. CASE balance = Due \/ \E op \in queue : op.kind = "set" /\ ~op.done
    BY <2>2 DEF Carried
  <2> QED
    BY <2>1, <2>2 DEF WithoutLedger, Carried
<1> QED
  BY <1>1, <1>3, <1>4, <1>5, <1>6 DEF WithoutLedger
-----------------------------------------------------------------------------
(* The steps of the till.                                                   *)
LEMMA Parts ==
    ASSUME UNCHANGED ledger, Shape',
           ~disturbed' /\ ledger => WithLedger', ~disturbed' /\ ~ledger => WithoutLedger'
    PROVE  CInv'
BY DEF CInv

LEMMA UseBecomes ==
    ASSUME TypeOK, NEW i \in Tickets, NEW u, Use(i), ticket' = [ticket EXCEPT ![i] = u]
    PROVE  Becomes(i, u) /\ i > used
BY BoundsAssumption DEF TypeOK, Use, Becomes, Tickets

LEMMA OldBecomes ==
    ASSUME TypeOK, Shape, NEW i \in Tickets, NEW u, ticket[i].pc # "none",
           ticket' = [ticket EXCEPT ![i] = u], UNCHANGED used
    PROVE  Becomes(i, u)
BY UsedTicket, OpFacts DEF Becomes

LEMMA UnusedIs ==
    ASSUME TypeOK, Shape, NEW i \in Tickets, i > used
    PROVE  ~Queued(i) /\ ~InPut(i) /\ ticket[i].pc = "none"
<1>1. ticket[i] = NoTicket
  BY DEF Shape
<1>2. ticket[i].pc = "none"
  BY <1>1 DEF NoTicket
<1> QED
  BY <1>2, UnusedHasNone DEF Queued, InPut

LEMMA SendNewCounts ==
    ASSUME TypeOK, TypeOK', CInv, NEW i \in Tickets, NEW t \in Ticket,
           t.kind \notin {"none", "edit"}, SendNew(i, t)
    PROVE  CInv'
<1> DEFINE u == [t EXCEPT !.pc = "done", !.queued = TRUE]
<1>1. /\ u.kind = t.kind /\ u.delta = t.delta /\ u.before = t.before /\ u.queued /\ u.pc = "done"
      /\ t.delta \in Int
  BY DEF Ticket
<1> HIDE DEF u
<1>2. ticket' = [ticket EXCEPT ![i] = u] /\ Use(i) /\ Send(i, t) /\ owed' = owed + t.delta
  BY DEF SendNew, Record, u
<1>3. UNCHANGED <<ledger, opening, sending, balance, entered, others>>
  BY DEF SendNew, given, server, account
<1>4. Becomes(i, u) /\ i > used
  BY <1>2, UseBecomes
<1>5. Shape
  BY DEF CInv
<1>6. TicketOk(u) /\ \A op \in queue : op.of # i
  BY <1>1, <1>4, <1>5, UnusedHasNone DEF TicketOk
<1>7. Due' = Due + t.delta /\ balance' = balance
  BY <1>1, <1>2, <1>3 DEF Due, TypeOK
<1>8. queue' \in {queue, Enqueue(WalletOp(i, t))}
  BY <1>2 DEF Send
<1>9. Shape'
  BY <1>1, <1>3, <1>4, <1>5, <1>6, <1>8, ShapeQueued
<1>10. ASSUME ~disturbed', ledger PROVE WithLedger'
  <2>1. ~disturbed
    BY <1>2, <1>10 DEF Send
  <2>2. WithLedger
    BY <1>10, <2>1 DEF CInv
  <2>3. IF t.delta = 0 THEN queue' = queue ELSE queue' = Enqueue(WalletOp(i, t)) /\ ~Loses(i, t)
    BY <1>2, <1>10 DEF Send
  <2>4. ~InPut(i)
    BY <1>4, <1>5, UnusedIs
  <2>5. t.kind # "edit" /\ UNCHANGED <<balance, entered>>
    BY <1>3
  <2> QED
    BY <1>1, <1>4, <1>5, <1>6, <1>7, <1>10, <2>2, <2>3, <2>4, <2>5, LedgerQueued
<1>11. ASSUME ~disturbed', ~ledger PROVE WithoutLedger'
  <2>1. ~disturbed /\ queue' = Enqueue(WalletOp(i, t)) /\ ~Loses(i, t)
    BY <1>2, <1>11 DEF Send
  <2>2. WithoutLedger
    BY <1>11, <2>1 DEF CInv
  <2>3. /\ Due' = Due + u.delta /\ u.pc = "done" /\ u.pc \in {"put", "refresh", "done"}
        /\ t.before = u.before /\ t.delta = u.delta
        /\ t.kind # "edit" /\ UNCHANGED sending
    BY <1>1, <1>3, <1>7
  <2> QED
    BY <1>1, <1>4, <1>5, <1>7, <1>11, <2>1, <2>2, <2>3, AimsQueued
<1> QED
  BY <1>3, <1>9, <1>10, <1>11, Parts

LEMMA AskCounts ==
    ASSUME TypeOK, TypeOK', CInv, NEW i \in Tickets, NEW u, Ask(i, u), TicketOk(u), ~u.queued,
           u.pc \in {"post", "put"}, u.pc = "put" => u.delta = 0
    PROVE  CInv'
<1>1. /\ ticket' = [ticket EXCEPT ![i] = u] /\ Use(i) /\ online
      /\ disturbed' = (disturbed \/ (~ledger /\ (Sending \/ Loses(i, u))))
  BY DEF Ask
<1>2. UNCHANGED <<ledger, opening, sending, balance, entered, others, online, queue, owed>>
  BY DEF Ask, given, server, account
<1>3. Becomes(i, u) /\ i > used
  BY <1>1, UseBecomes
<1>4. Shape
  BY DEF CInv
<1>5. Due' = Due /\ balance' = balance
  BY <1>2 DEF Due
<1>6. Shape'
  BY <1>2, <1>3, <1>4, ShapeTicket
<1>7. ASSUME ~disturbed', ledger PROVE WithLedger'
  <2>1. WithLedger
    BY <1>1, <1>7 DEF CInv
  <2>2. ~Queued(i) /\ ~InPut(i)
    BY <1>3, <1>4, UnusedIs
  <2>3. LET was == IF Queued(i) \/ InPut(i) THEN ticket[i].delta ELSE 0
            is == IF Queued(i) \/ (~u.queued /\ u.pc \in {"put", "putting"}) THEN u.delta ELSE 0
        IN  (balance' - balance) + (is - was) = Due' - Due
    BY <1>5, <2>2, DueType
  <2> QED
    BY <1>2, <1>3, <1>4, <2>1, <2>3, LedgerTicket
<1>8. ASSUME ~disturbed', ~ledger PROVE WithoutLedger'
  <2>1. WithoutLedger /\ ~Sending /\ ~Loses(i, u)
    BY <1>1, <1>8 DEF CInv
  <2>2. u.before = Due
    BY <1>8, <2>1 DEF Loses, Due
  <2> QED
    BY <1>1, <1>2, <1>3, <1>4, <1>5, <2>1, <2>2, AimsAsk
<1> QED
  BY <1>2, <1>6, <1>7, <1>8, Parts

(* With the ledger, an operation that lists the student changes no balance. *)
LEMMA LedgerEdits ==
    ASSUME TypeOK, TypeOK', Shape, Shape', WithLedger, ledger,
           UNCHANGED <<ledger, entered>>, Due' = Due, balance' = balance,
           \A j \in Tickets : ticket'[j] = ticket[j] \/ (j > used /\ ticket'[j].kind = "edit"),
           \A op \in Op : op.kind = "entry" => (op \in queue' <=> op \in queue)
    PROVE  WithLedger'
<1>1. \A op \in queue : op \in Op /\ OpOk(op)
  BY OpFacts DEF Shape
<1>2. \A op \in queue' : op \in Op /\ OpOk(op)'
  BY DEF Shape, TypeOK
<1>3. \A j \in Tickets : Outstanding(j)' = Outstanding(j)
  <2> SUFFICES ASSUME NEW j \in Tickets PROVE Outstanding(j)' = Outstanding(j)
    OBVIOUS
  <2>1. ticket[j].delta \in Int /\ TicketOk(ticket[j]) /\ TicketOk(ticket'[j])
    BY DEF Shape, TypeOK, Ticket
  <2>2. CASE ticket'[j] = ticket[j] /\ ticket[j].kind = "edit"
    <3>1. ticket[j].delta = 0 /\ ticket'[j].delta = 0
      BY <2>1, <2>2 DEF TicketOk
    <3> QED
      BY <3>1, OutstandingIs, OutstandingNextIs
  <2>3. CASE ticket'[j] = ticket[j] /\ ticket[j].kind # "edit"
    <3>1. \A op \in queue : op.of = j => op.kind = "entry"
      BY <1>1, <2>3, OpFacts DEF OpOk
    <3>2. \A op \in queue' : op.of = j => op.kind = "entry"
      BY <1>2, <2>3, OpFacts DEF OpOk
    <3>3. Queued(j)' <=> Queued(j)
      BY <1>1, <1>2, <3>1, <3>2 DEF Queued
    <3> QED
      BY <2>3, <3>3, OutstandingIs, OutstandingNextIs DEF InPut
  <2>4. CASE j > used /\ ticket'[j].kind = "edit"
    <3>1. ticket'[j].delta = 0
      BY <2>1, <2>4 DEF TicketOk
    <3>2. ~Queued(j) /\ ~InPut(j)
      BY <2>4, UnusedIs
    <3> QED
      BY <3>1, <3>2, OutstandingIs, OutstandingNextIs
  <2> QED
    BY <2>2, <2>3, <2>4
<1>4. Due \in Int /\ balance \in Int
  BY DueType
<1>5. balance' = balance + 0 /\ Due' = Due + 0 /\ 0 \in Int
  BY <1>4
<1>6. Balanced'
  BY <1>3, <1>5, BalancedSame DEF WithLedger, Balanced
<1>7. OwnEntries'
  BY <1>2 DEF WithLedger, OwnEntries
<1> QED
  BY <1>6, <1>7 DEF WithLedger, Balanced

LEMMA EditOfflineCounts == ASSUME TypeOK, TypeOK', CInv, NEW i \in Tickets, EditOffline(i) PROVE CInv'
<1> DEFINE n == NewTicket("edit", 0)
<1>1. n \in Ticket /\ n.kind = "edit" /\ n.delta = 0
  <2>1. NewTicket("edit", 0) \in Ticket /\ NewTicket("edit", 0).kind = "edit"
    BY NewTicketType, KindsType
  <2>2. NewTicket("edit", 0).delta = 0
    BY DEF NewTicket, NoTicket
  <2> QED
    BY <2>1, <2>2
<1> HIDE DEF n
<1>a. PICK t \in Ticket : t = [n EXCEPT !.pc = "done", !.queued = TRUE]
  BY <1>1 DEF Ticket, Pc
<1>2. t.kind = "edit" /\ t.delta = 0 /\ t.pc = "done" /\ t.queued
  BY <1>1, <1>a DEF Ticket
<1>3. /\ ~online /\ Use(i) /\ ticket' = [ticket EXCEPT ![i] = t] /\ queue' = Enqueue(WalletOp(i, t))
      /\ UNCHANGED <<ledger, opening, sending, balance, entered, others, owed, online, disturbed>>
  BY <1>a DEF EditOffline, given, server, account, n
<1>4. Becomes(i, t) /\ i > used
  BY <1>3, UseBecomes
<1>5. Shape
  BY DEF CInv
<1>6. /\ TicketOk(t) /\ (\A op \in queue : op.of # i)
      /\ UNCHANGED <<ledger, sending>> /\ queue' \in {queue, Enqueue(WalletOp(i, t))}
  BY <1>2, <1>3, <1>4, <1>5, UnusedHasNone DEF TicketOk
<1>7. Shape'
  BY <1>2, <1>4, <1>5, <1>6, ShapeQueued
<1>8. Due' = Due /\ balance' = balance /\ entered' = entered
  BY <1>3 DEF Due
<1>9. ticket'[i] = t /\ \A j \in Tickets \ {i} : ticket'[j] = ticket[j]
  BY <1>4, BecomesAt
<1>b. PICK new \in Op : new = WalletOp(i, t)
  BY WalletOpIs
<1>10. new.kind = "edit"
  BY <1>2, <1>b, WalletOpIs
<1>11. \A op \in Op : op.kind # "edit" => (op \in queue' <=> op \in queue)
  <2>1. \A op \in Op : op.kind # "edit" => Key(op) # Key(new)
    BY <1>10 DEF Key
  <2> QED
    BY <1>3, <1>b, <1>10, <2>1 DEF Enqueue
<1>12. ASSUME ~disturbed', ledger PROVE WithLedger'
  <2>1. WithLedger /\ UNCHANGED <<ledger, entered>>
    BY <1>3, <1>12 DEF CInv
  <2>2. \A j \in Tickets : ticket'[j] = ticket[j] \/ (j > used /\ ticket'[j].kind = "edit")
    BY <1>2, <1>4, <1>9
  <2>3. \A op \in Op : op.kind = "entry" => (op \in queue' <=> op \in queue)
    BY <1>11
  <2> QED
    BY <1>5, <1>7, <1>8, <1>12, <2>1, <2>2, <2>3, LedgerEdits
<1>13. ASSUME ~disturbed', ~ledger PROVE WithoutLedger'
  <2>1. WithoutLedger /\ UNCHANGED sending
    BY <1>3, <1>13 DEF CInv
  <2>2. \A j \in Tickets : ticket'[j] = ticket[j] \/ (j > used /\ ticket'[j].pc = "done")
    BY <1>2, <1>4, <1>9
  <2>3. \A op \in Op : op.kind = "set" => (op \in queue' <=> op \in queue)
    BY <1>11
  <2>4. queue \subseteq Op /\ queue' \subseteq Op
    BY DEF TypeOK
  <2>5. \A op \in queue : op.kind = "set" /\ ~op.done
           => \E o \in queue' : o.kind = "set" /\ ~o.done /\ o.of = op.of
    BY <2>3, <2>4
  <2>6. \A o \in queue' : o.kind = "set" => \E op \in queue : op.kind = "set" /\ o.amount = op.amount
    BY <2>3, <2>4
  <2> QED
    BY <1>3, <1>5, <1>8, <2>1, <2>2, <2>5, <2>6, AimsKept
<1> QED
  BY <1>6, <1>7, <1>12, <1>13, Parts

LEMMA NewIs ==
    ASSUME TypeOK, NEW kind \in Kinds, NEW d \in Int
    PROVE  LET n == NewTicket(kind, d) IN
           n \in Ticket /\ n.kind = kind /\ n.delta = d /\ ~n.queued /\ n.pc = "none"
<1>1. NewTicket(kind, d) \in Ticket /\ NewTicket(kind, d).kind = kind
  BY NewTicketType
<1>2. NewTicket(kind, d).delta = d /\ ~NewTicket(kind, d).queued /\ NewTicket(kind, d).pc = "none"
  BY DEF NewTicket, NoTicket
<1> QED
  BY <1>1, <1>2

LEMMA TillCounts ==
    ASSUME TypeOK, TypeOK', CInv, NEW i \in Tickets,
           \/ \E d \in Changes : SellOffline(i, d) \/ \E pays \in BOOLEAN : SellOnline(i, d, pays)
           \/ \E j \in Tickets : Return(i, j)
           \/ Pickup(i) \/ CancelToWallet(i) \/ EditOnline(i) \/ EditOffline(i)
    PROVE  CInv'
<1>0. Price \in Int /\ -Price \in Int /\ Changes \subseteq Int
  BY AmountsAssumption
<1>1. ASSUME NEW d \in Changes, SellOffline(i, d) PROVE CInv'
  <2>a. d \in Int /\ "sale" \in Kinds
    BY <1>0, KindsType
  <2>b. PICK t : t = NewTicket("sale", d)
    OBVIOUS
  <2>1. t \in Ticket /\ t.kind = "sale"
    BY <2>a, <2>b, NewTicketType
  <2>2. SendNew(i, t)
    BY <1>1, <2>b DEF SellOffline
  <2> QED
    BY <2>1, <2>2, SendNewCounts
<1>2. ASSUME NEW d \in Changes, NEW pays \in BOOLEAN, SellOnline(i, d, pays) PROVE CInv'
  <2>a. d \in Int /\ "sale" \in Kinds
    BY <1>0, KindsType
  <2>b. PICK t : t = NewTicket("sale", d)
    OBVIOUS
  <2>1. t \in Ticket /\ t.kind = "sale" /\ t.delta = d /\ ~t.queued
    BY <2>a, <2>b, NewIs
  <2>c. PICK u : u = [t EXCEPT !.pc = "post", !.pays = pays]
    OBVIOUS
  <2>2. Ask(i, u) /\ (d # 0 => pays)
    BY <1>2, <2>b, <2>c DEF SellOnline
  <2>3. u.kind = "sale" /\ u.delta = d /\ ~u.queued /\ u.pc = "post" /\ u.pays = pays
    BY <2>1, <2>c DEF Ticket
  <2>4. TicketOk(u)
    BY <2>2, <2>3 DEF TicketOk
  <2>5. u.pc \in {"post", "put"} /\ (u.pc = "put" => u.delta = 0)
    BY <2>3
  <2> QED
    BY <2>2, <2>3, <2>4, <2>5, AskCounts
<1>3. ASSUME NEW j \in Tickets, Return(i, j) PROVE CInv'
  <2>1. ticket[j] \in Ticket
    BY DEF TypeOK
  <2>a. PICK t : t = [ticket[j] EXCEPT !.kind = "return", !.delta = Price, !.pays = FALSE,
                                       !.seen = NoTicket.seen]
    OBVIOUS
  <2>2. t \in Ticket /\ t.kind = "return"
    BY <2>1, <2>a, ReturnTicketType
  <2>3. SendNew(i, t)
    BY <1>3, <2>a DEF Return
  <2> QED
    BY <2>2, <2>3, SendNewCounts
<1>4. CASE Pickup(i)
  <2>b. PICK t : t = NewTicket("pickup", -Price)
    OBVIOUS
  <2>1. t \in Ticket /\ t.kind = "pickup"
    BY <1>0, <2>b, NewTicketType, KindsType
  <2>2. SendNew(i, t)
    BY <1>4, <2>b DEF Pickup
  <2> QED
    BY <2>1, <2>2, SendNewCounts
<1>5. CASE CancelToWallet(i)
  <2>b. PICK t : t = NewTicket("cancel", Price)
    OBVIOUS
  <2>1. t \in Ticket /\ t.kind = "cancel"
    BY <1>0, <2>b, NewTicketType, KindsType
  <2>c. PICK u : u = [t EXCEPT !.pc = "done"]
    OBVIOUS
  <2>2. u.kind = "cancel" /\ u.pc = "done"
    BY <2>1, <2>c DEF Ticket
  <2>3. /\ Use(i) /\ ticket' = [ticket EXCEPT ![i] = u] /\ disturbed'
        /\ UNCHANGED <<ledger, queue, sending>>
    BY <1>5, <2>b, <2>c DEF CancelToWallet, given, server
  <2>4. Becomes(i, u) /\ i > used
    BY <2>3, UseBecomes
  <2>5. TicketOk(u) /\ Shape
    BY <2>2 DEF TicketOk, CInv
  <2>6. Shape'
    BY <2>3, <2>4, <2>5, ShapeTicket
  <2> QED
    BY <2>3, <2>6, Parts
<1>6. CASE EditOnline(i)
  <2>b. PICK t : t = NewTicket("edit", 0)
    OBVIOUS
  <2>1. t \in Ticket /\ t.kind = "edit" /\ t.delta = 0 /\ ~t.queued
    BY <2>b, NewIs, KindsType
  <2>c. PICK u : u = [t EXCEPT !.pc = "put"]
    OBVIOUS
  <2>2. u.kind = "edit" /\ u.pc = "put" /\ u.delta = 0 /\ ~u.queued
    BY <2>1, <2>c DEF Ticket
  <2>3. Ask(i, u)
    BY <1>6, <2>b, <2>c DEF EditOnline
  <2>4. TicketOk(u) /\ u.pc \in {"post", "put"}
    BY <2>2 DEF TicketOk
  <2> QED
    BY <2>2, <2>3, <2>4, AskCounts
<1>7. CASE EditOffline(i)
  BY <1>7, EditOfflineCounts
<1> QED
  BY <1>1, <1>2, <1>3, <1>4, <1>5, <1>6, <1>7

(* A ticket that keeps what it recorded moves on; what its request writes is *)
(* what changes the balance.                                                *)
LEMMA MoveCounts ==
    ASSUME TypeOK, TypeOK', CInv, NEW i \in Tickets, NEW u, ticket' = [ticket EXCEPT ![i] = u],
           ticket[i].pc # "none", u.pc \notin {"none", "post"},
           u.kind = ticket[i].kind, u.before = ticket[i].before, u.delta = ticket[i].delta,
           u.queued = ticket[i].queued,
           UNCHANGED <<ledger, online, opening, sending, entered, others, owed, queue, used>>,
           disturbed => disturbed',
           u.pc \in InFlight => ticket[i].pc \in {"put", "putting"},
           IF ledger
           THEN ~disturbed' => balance' = balance + IF InPut(i) /\ u.pc \notin {"put", "putting"} THEN u.delta ELSE 0
           ELSE \/ balance' = u.before + u.delta /\ ticket[i].pc \in {"put", "putting"} /\ u.pc # "putting"
                \/ /\ balance' = balance
                   /\ u.pc = "putting" => u.seen = balance
                   /\ ~disturbed' => ~InPut(i) \/ u.delta = 0 \/ u.pc \in InFlight
                \/ balance' = balance /\ ticket[i].pc = "putting" /\ ticket[i].seen = u.before + u.delta
                     /\ u.pc # "putting"
    PROVE  CInv'
<1>1. Shape /\ ticket[i] \in Ticket
  BY DEF CInv, TypeOK
<1>2. Becomes(i, u)
  BY <1>1, OldBecomes
<1>3. TicketOk(u)
  BY <1>1 DEF TicketOk, Shape
<1>4. UNCHANGED <<ledger, queue, sending>>
  OBVIOUS
<1>5. Shape'
  BY <1>1, <1>2, <1>3, <1>4, ShapeTicket
<1>6. Due' = Due
  BY DEF Due
<1>7. balance \in Int /\ balance' \in Int /\ Due \in Int /\ u.delta \in Int /\ u.before \in Int
  <2>1. ticket[i].delta \in Int /\ ticket[i].before \in Int
    BY <1>1 DEF Ticket
  <2>2. balance' \in Int
    BY DEF TypeOK
  <2> QED
    BY <2>1, <2>2, DueType
<1>8. ASSUME ~disturbed', ledger PROVE WithLedger'
  <2>1. WithLedger
    BY <1>8 DEF CInv
  <2>2. Queued(i) => ticket[i].queued
    BY <1>1 DEF Queued, Shape, OpOk
  <2>3. InPut(i) <=> ~u.queued /\ ticket[i].pc \in {"put", "putting"}
    BY DEF InPut
  <2> DEFINE was == IF Queued(i) \/ InPut(i) THEN ticket[i].delta ELSE 0
             is == IF Queued(i) \/ (~u.queued /\ u.pc \in {"put", "putting"}) THEN u.delta ELSE 0
  <2>4. balance' = balance + (was - is)
    <3>1. CASE Queued(i)
      <4>1. ~InPut(i)
        BY <2>2, <2>3, <3>1
      <4>2. was = u.delta /\ is = u.delta /\ balance' = balance + 0
        BY <1>8, <3>1, <4>1
      <4> QED
        BY <1>7, <4>2
    <3>2. CASE ~Queued(i) /\ InPut(i)
      <4>1. CASE u.pc \in {"put", "putting"}
        <5>1. was = u.delta /\ is = u.delta /\ balance' = balance + 0
          BY <1>8, <2>3, <3>2, <4>1
        <5> QED
          BY <1>7, <5>1
      <4>2. CASE u.pc \notin {"put", "putting"}
        <5>1. was = u.delta /\ is = 0 /\ balance' = balance + u.delta
          BY <1>8, <2>3, <3>2, <4>2
        <5> QED
          BY <1>7, <5>1
      <4> QED
        BY <4>1, <4>2
    <3>3. CASE ~Queued(i) /\ ~InPut(i)
      <4>1. ~(~u.queued /\ u.pc \in {"put", "putting"})
        BY <2>3, <3>3 DEF InFlight
      <4>2. was = 0 /\ is = 0 /\ balance' = balance + 0
        BY <1>8, <3>3, <4>1
      <4> QED
        BY <1>7, <4>2
    <3> QED
      BY <3>1, <3>2, <3>3
  <2>5. was \in Int /\ is \in Int
    BY <1>7
  <2>6. (balance' - balance) + (is - was) = Due' - Due
    <3> HIDE DEF was, is
    <3> QED
      BY <1>6, <1>7, <2>4, <2>5
  <2> QED
    BY <1>1, <1>2, <1>4, <2>1, <2>6, LedgerTicket
<1>9. ASSUME ~disturbed', ~ledger PROVE WithoutLedger'
  <2>1. WithoutLedger /\ TicketAims
    BY <1>9 DEF CInv, WithoutLedger
  <2>2. ticket[i].pc \in {"put", "putting"} => u.before + u.delta = Due
    BY <2>1 DEF TicketAims
  <2>3. /\ balance' = balance \/ balance' = Due
        /\ u.pc \in InFlight => ticket[i].pc \in InFlight /\ u.before + u.delta = Due
        /\ u.pc = "putting" /\ u.seen = Due => balance' = Due
        /\ \/ balance' = Due
           \/ ~(ticket[i].pc \in {"put", "putting"} /\ ~ticket[i].queued /\ ticket[i].delta # 0)
           \/ u.pc \in {"put", "putting"} /\ ~u.queued /\ u.delta # 0
    <3>1. u.pc \in InFlight => ticket[i].pc \in InFlight /\ u.before + u.delta = Due
      BY <2>2 DEF InFlight
    <3>2. CASE balance' = u.before + u.delta /\ ticket[i].pc \in {"put", "putting"} /\ u.pc # "putting"
      BY <2>2, <3>1, <3>2
    <3>3. CASE /\ balance' = balance
               /\ u.pc = "putting" => u.seen = balance
               /\ ~InPut(i) \/ u.delta = 0 \/ u.pc \in InFlight
      BY <3>1, <3>3 DEF InPut, InFlight
    <3>4. CASE /\ balance' = balance /\ ticket[i].pc = "putting"
               /\ ticket[i].seen = u.before + u.delta /\ u.pc # "putting"
      <4>1. balance = Due
        BY <2>1, <2>2, <3>4 DEF TicketAims
      <4> QED
        BY <3>1, <3>4, <4>1
    <3> QED
      BY <1>9, <3>2, <3>3, <3>4
  <2>4. UNCHANGED <<online, queue, sending>> /\ u.pc # "post"
    OBVIOUS
  <2> QED
    BY <1>1, <1>2, <1>6, <2>1, <2>3, <2>4, AimsMove
<1> QED
  BY <1>4, <1>5, <1>8, <1>9, Parts

LEMMA MovedIs ==
    ASSUME TypeOK, NEW i \in Tickets, NEW pc, NEW seen
    PROVE  LET u == [ticket[i] EXCEPT !.pc = pc, !.seen = seen] IN
           /\ u.kind = ticket[i].kind /\ u.before = ticket[i].before /\ u.delta = ticket[i].delta
           /\ u.queued = ticket[i].queued /\ u.pc = pc /\ u.seen = seen
BY DEF TypeOK, Ticket

LEMMA PutWritesCounts == ASSUME TypeOK, TypeOK', CInv, NEW i \in Tickets, PutWrites(i) PROVE CInv'
<1> DEFINE t == ticket[i]
<1>1. /\ t.pc = "putting" /\ Write(t.seen, t.before + t.delta)
      /\ disturbed' = (disturbed \/ (ledger /\ (\/ (t.queued /\ t.delta # 0)
                                                \/ {t.seen, balance} # {t.before})))
  BY DEF PutWrites, At
<1>2. UNCHANGED <<ledger, online, opening, sending, entered, others, owed, queue, used>>
  BY DEF PutWrites, given
<1>3. \E pc \in {"refresh", "reading", "done"}, seen \in Int : See(i, pc, seen)
  <2>1. NoTicket.seen \in Int /\ balance' \in Int
    BY DEF NoTicket, TypeOK
  <2>2. Goto(i, "refresh") \/ See(i, "reading", balance') \/ Goto(i, "done")
    BY DEF PutWrites
  <2> QED
    BY <2>1, <2>2 DEF Goto
<1>4. PICK pc \in {"refresh", "reading", "done"}, seen \in Int : See(i, pc, seen)
  BY <1>3
<1>5. PICK u : u = [t EXCEPT !.pc = pc, !.seen = seen]
  OBVIOUS
<1>6. ticket' = [ticket EXCEPT ![i] = u]
  BY <1>4, <1>5 DEF See
<1>7. /\ u.kind = t.kind /\ u.before = t.before /\ u.delta = t.delta /\ u.queued = t.queued /\ u.pc = pc
  BY <1>5, MovedIs
<1>8. t.before \in Int /\ t.delta \in Int /\ t.seen \in Int /\ balance \in Int
  BY DEF TypeOK, Ticket
<1>9. balance' = IF t.before + t.delta # t.seen THEN t.before + t.delta ELSE balance
  BY <1>1 DEF Write
<1>10. IF ledger
       THEN ~disturbed' => balance' = balance + IF InPut(i) /\ u.pc \notin {"put", "putting"} THEN u.delta ELSE 0
       ELSE \/ balance' = u.before + u.delta /\ t.pc \in {"put", "putting"} /\ u.pc # "putting"
            \/ balance' = balance /\ t.pc = "putting" /\ t.seen = u.before + u.delta /\ u.pc # "putting"
  <2>1. ASSUME ledger, ~disturbed'
        PROVE  balance' = balance + IF InPut(i) /\ u.pc \notin {"put", "putting"} THEN u.delta ELSE 0
    <3>1. t.seen = t.before /\ balance = t.before
      BY <1>1, <2>1
    <3>2. balance' = balance + t.delta
      BY <1>8, <1>9, <3>1
    <3>3. t.queued => t.delta = 0
      BY <1>1, <2>1
    <3>4. InPut(i) <=> ~t.queued
      BY <1>1 DEF InPut
    <3>5. u.pc \notin {"put", "putting"}
      BY <1>7
    <3> QED
      BY <1>7, <1>8, <3>2, <3>3, <3>4, <3>5
  <2>2. ASSUME ~ledger
        PROVE  \/ balance' = u.before + u.delta /\ t.pc \in {"put", "putting"} /\ u.pc # "putting"
               \/ balance' = balance /\ t.pc = "putting" /\ t.seen = u.before + u.delta /\ u.pc # "putting"
    BY <1>1, <1>7, <1>9
  <2> QED
    BY <2>1, <2>2
<1>11. u.pc \notin {"none", "post"} /\ u.pc \notin InFlight /\ t.pc # "none"
  BY <1>1, <1>7 DEF InFlight
<1>12. disturbed => disturbed'
  BY <1>1
<1> HIDE DEF t
<1> QED
  BY <1>2, <1>6, <1>7, <1>10, <1>11, <1>12, MoveCounts DEF t

LEMMA SaleMoves ==
    ASSUME TypeOK, TypeOK', CInv, NEW i \in Tickets,
           \/ SessionEnds(i) \/ PutRead(i) \/ PutFails(i) \/ RefreshRead(i) \/ RefreshApply(i) \/ RefreshFails(i)
    PROVE  CInv'
<1>1. /\ UNCHANGED <<ledger, online, opening, sending, entered, others, owed, queue, used>>
      /\ UNCHANGED balance
  BY DEF SessionEnds, PutRead, PutFails, RefreshRead, RefreshApply, RefreshFails, given, server, account
<1>2. balance \in Int /\ NoTicket.seen \in Int /\ ticket[i].delta \in Int
  BY DEF TypeOK, NoTicket, Ticket
<1>3. \E pc \in Pc \ {"none", "post"}, seen \in Int :
         /\ See(i, pc, seen) /\ ticket[i].pc # "none"
         /\ disturbed => disturbed'
         /\ pc \in InFlight => ticket[i].pc \in {"put", "putting"} /\ pc = "putting" /\ seen = balance
         /\ ~disturbed' => ~InPut(i) \/ ticket[i].delta = 0 \/ pc \in InFlight
  <2>1. CASE SessionEnds(i)
    <3>1. See(i, "gone", NoTicket.seen) /\ UNCHANGED disturbed /\ ticket[i].pc = "post"
      BY <2>1 DEF SessionEnds, Goto, At
    <3> QED
      BY <1>2, <3>1 DEF Pc, InFlight, InPut
  <2>2. CASE PutRead(i)
    <3>1. See(i, "putting", balance) /\ UNCHANGED disturbed /\ ticket[i].pc = "put"
      BY <2>2 DEF PutRead, At
    <3> QED
      BY <1>2, <3>1 DEF Pc, InFlight, InPut
  <2>3. CASE PutFails(i)
    <3>1. See(i, "done", NoTicket.seen) /\ ticket[i].pc = "put"
          /\ disturbed' = (disturbed \/ (~ticket[i].queued /\ ticket[i].delta # 0))
      BY <2>3 DEF PutFails, Goto, At
    <3> QED
      BY <1>2, <3>1 DEF Pc, InFlight, InPut
  <2>4. CASE RefreshRead(i)
    <3>1. See(i, "reading", balance) /\ UNCHANGED disturbed /\ ticket[i].pc = "refresh"
      BY <2>4 DEF RefreshRead, At
    <3> QED
      BY <1>2, <3>1 DEF Pc, InFlight, InPut
  <2>5. CASE RefreshApply(i)
    <3>1. See(i, "done", NoTicket.seen) /\ UNCHANGED disturbed /\ ticket[i].pc = "reading"
      BY <2>5 DEF RefreshApply, Goto, At
    <3> QED
      BY <1>2, <3>1 DEF Pc, InFlight, InPut
  <2>6. CASE RefreshFails(i)
    <3>1. See(i, "done", NoTicket.seen) /\ UNCHANGED disturbed /\ ticket[i].pc = "refresh"
      BY <2>6 DEF RefreshFails, Goto, At
    <3> QED
      BY <1>2, <3>1 DEF Pc, InFlight, InPut
  <2> QED
    BY <2>1, <2>2, <2>3, <2>4, <2>5, <2>6
<1>4. PICK pc \in Pc \ {"none", "post"}, seen \in Int :
         /\ See(i, pc, seen) /\ ticket[i].pc # "none"
         /\ disturbed => disturbed'
         /\ pc \in InFlight => ticket[i].pc \in {"put", "putting"} /\ pc = "putting" /\ seen = balance
         /\ ~disturbed' => ~InPut(i) \/ ticket[i].delta = 0 \/ pc \in InFlight
  BY <1>3
<1>5. PICK u : u = [ticket[i] EXCEPT !.pc = pc, !.seen = seen]
  OBVIOUS
<1>6. ticket' = [ticket EXCEPT ![i] = u]
  BY <1>4, <1>5 DEF See
<1>7. /\ u.kind = ticket[i].kind /\ u.before = ticket[i].before /\ u.delta = ticket[i].delta
      /\ u.queued = ticket[i].queued /\ u.pc = pc /\ u.seen = seen
  BY <1>5, MovedIs
<1>8. ~disturbed' => balance' = balance + IF InPut(i) /\ u.pc \notin {"put", "putting"} THEN u.delta ELSE 0
  <2>1. SUFFICES ASSUME ~disturbed', InPut(i), u.pc \notin {"put", "putting"} PROVE u.delta = 0
    BY <1>1, <1>2
  <2> QED
    BY <1>4, <1>7, <2>1 DEF InFlight
<1>9. /\ balance' = balance
      /\ u.pc = "putting" => u.seen = balance
      /\ ~disturbed' => ~InPut(i) \/ u.delta = 0 \/ u.pc \in InFlight
  BY <1>1, <1>4, <1>7 DEF InFlight
<1>10. /\ u.pc \notin {"none", "post"} /\ ticket[i].pc # "none"
       /\ u.pc \in InFlight => ticket[i].pc \in {"put", "putting"}
  BY <1>4, <1>7
<1>11. disturbed => disturbed'
  BY <1>4
<1> QED
  BY <1>1, <1>6, <1>7, <1>8, <1>9, <1>10, <1>11, MoveCounts

LEMMA RecordedIs ==
    ASSUME TypeOK, Shape, NEW i \in Tickets, ticket[i].pc = "post", NEW queued \in BOOLEAN, Recorded(i, queued)
    PROVE  \E u : /\ ticket' = [ticket EXCEPT ![i] = u] /\ Becomes(i, u) /\ TicketOk(u)
                  /\ u.kind = "sale" /\ u.before = ticket[i].before /\ u.delta = ticket[i].delta /\ u.queued = queued
                  /\ u.pc \in {"put", "refresh"} /\ (u.delta # 0 => u.pc = "put")
                  /\ Due' = Due + u.delta /\ u.delta \in Int
                  /\ UNCHANGED <<ledger, sending, balance, entered>> /\ ticket[i] \in Ticket
<1>0. ticket[i] \in Ticket
  BY DEF TypeOK
<1>1. ticket[i].kind = "sale" /\ ~ticket[i].queued /\ (ticket[i].delta # 0 => ticket[i].pays)
  BY DEF Shape, TicketOk
<1>2. PICK u : u = [ticket[i] EXCEPT !.pc = IF ticket[i].pays THEN "put" ELSE "refresh", !.queued = queued]
  OBVIOUS
<1>3. ticket' = [ticket EXCEPT ![i] = u] /\ owed' = owed + ticket[i].delta
      /\ UNCHANGED <<ledger, opening, sending, balance, entered, others, used>>
  BY <1>2 DEF Recorded, Record, given, server, account
<1>4. /\ u.kind = "sale" /\ u.before = ticket[i].before /\ u.delta = ticket[i].delta /\ u.queued = queued
      /\ u.pc = IF ticket[i].pays THEN "put" ELSE "refresh"
  BY <1>0, <1>1, <1>2 DEF Ticket
<1>5. Becomes(i, u)
  BY <1>3, OldBecomes
<1>6. u.delta \in Int
  BY <1>0, <1>4 DEF Ticket
<1>7. Due' = Due + u.delta
  BY <1>3, <1>4, <1>6 DEF Due, TypeOK
<1>8. TicketOk(u)
  BY <1>4 DEF TicketOk
<1> QED
  BY <1>0, <1>1, <1>3, <1>4, <1>5, <1>6, <1>7, <1>8

LEMMA PostedCounts == ASSUME TypeOK, TypeOK', CInv, NEW i \in Tickets, Posted(i) PROVE CInv'
<1>1. /\ ticket[i].pc = "post" /\ Recorded(i, FALSE)
      /\ UNCHANGED <<online, queue, disturbed>>
  BY DEF Posted, At
<1>2. Shape
  BY DEF CInv
<1>3. PICK u : /\ ticket' = [ticket EXCEPT ![i] = u] /\ Becomes(i, u) /\ TicketOk(u)
               /\ u.kind = "sale" /\ u.before = ticket[i].before /\ u.delta = ticket[i].delta /\ u.queued = FALSE
               /\ u.pc \in {"put", "refresh"} /\ (u.delta # 0 => u.pc = "put")
               /\ Due' = Due + u.delta /\ u.delta \in Int
               /\ UNCHANGED <<ledger, sending, balance, entered>> /\ ticket[i] \in Ticket
  BY <1>1, <1>2, RecordedIs
<1>4. ticket[i].kind = "sale" /\ ~ticket[i].queued
  BY <1>1, <1>2 DEF Shape, TicketOk
<1>5. Shape'
  <2>1. u.kind = ticket[i].kind /\ u.delta = ticket[i].delta /\ u.queued = ticket[i].queued
    BY <1>3, <1>4 DEF Ticket
  <2> QED
    BY <1>1, <1>2, <1>3, <2>1, ShapeTicket
<1>6. ASSUME ~disturbed', ledger PROVE WithLedger'
  <2>1. WithLedger
    BY <1>1, <1>6 DEF CInv
  <2>2. ~Queued(i) /\ ~InPut(i)
    BY <1>1, <1>2, <1>4 DEF Queued, InPut, Shape, OpOk
  <2>3. LET was == IF Queued(i) \/ InPut(i) THEN ticket[i].delta ELSE 0
            is == IF Queued(i) \/ (~u.queued /\ u.pc \in {"put", "putting"}) THEN u.delta ELSE 0
        IN  (balance' - balance) + (is - was) = Due' - Due
    <3>1. CASE u.pc = "put"
      BY <1>3, <2>2, <3>1, DueType
    <3>2. CASE u.pc # "put"
      <4>1. u.delta = 0 /\ u.pc \notin {"put", "putting"}
        BY <1>3, <3>2
      <4> QED
        BY <1>3, <2>2, <4>1, DueType
    <3> QED
      BY <3>1, <3>2
  <2> QED
    BY <1>1, <1>2, <1>3, <2>1, <2>3, LedgerTicket
<1>7. ASSUME ~disturbed', ~ledger PROVE WithoutLedger'
  <2>1. WithoutLedger
    BY <1>1, <1>7 DEF CInv
  <2> QED
    BY <1>1, <1>2, <1>3, <2>1, AimsPosted
<1> QED
  BY <1>3, <1>5, <1>6, <1>7, Parts

LEMMA FallBackCounts == ASSUME TypeOK, TypeOK', CInv, NEW i \in Tickets, FallBack(i) PROVE CInv'
<1>1. /\ ticket[i].pc = "post" /\ Recorded(i, TRUE) /\ Send(i, ticket[i])
  BY DEF FallBack, At
<1>2. Shape
  BY DEF CInv
<1>3. PICK u : /\ ticket' = [ticket EXCEPT ![i] = u] /\ Becomes(i, u) /\ TicketOk(u)
               /\ u.kind = "sale" /\ u.before = ticket[i].before /\ u.delta = ticket[i].delta /\ u.queued = TRUE
               /\ u.pc \in {"put", "refresh"} /\ (u.delta # 0 => u.pc = "put")
               /\ Due' = Due + u.delta /\ u.delta \in Int
               /\ UNCHANGED <<ledger, sending, balance, entered>> /\ ticket[i] \in Ticket
  BY <1>1, <1>2, RecordedIs
<1>a. PICK t \in Ticket : t = ticket[i]
  BY <1>3
<1>4. t.kind = "sale" /\ u.kind = t.kind /\ u.delta = t.delta /\ t.before = u.before /\ ~ticket[i].queued
  BY <1>1, <1>2, <1>3, <1>a DEF Shape, TicketOk
<1>5. \A op \in queue : op.of # i
  BY <1>2, <1>4 DEF Shape, OpOk
<1>6. queue' \in {queue, Enqueue(WalletOp(i, t))} /\ u.queued /\ UNCHANGED <<ledger, sending>>
  BY <1>1, <1>3, <1>a DEF Send
<1>7. u.kind = ticket[i].kind
  BY <1>4, <1>a
<1>8. Shape'
  BY <1>2, <1>3, <1>4, <1>5, <1>6, <1>7, ShapeQueued
<1>9. ASSUME ~disturbed', ledger PROVE WithLedger'
  <2>1. ~disturbed
    BY <1>1, <1>9 DEF Send
  <2>2. WithLedger
    BY <1>9, <2>1 DEF CInv
  <2>3. IF t.delta = 0 THEN queue' = queue ELSE queue' = Enqueue(WalletOp(i, t)) /\ ~Loses(i, t)
    BY <1>1, <1>9, <1>a DEF Send
  <2>4. ~InPut(i)
    BY <1>1 DEF InPut
  <2>5. t.kind # "edit" /\ UNCHANGED <<balance, entered>> /\ Due' = Due + t.delta
    BY <1>3, <1>4
  <2> QED
    BY <1>2, <1>3, <1>4, <1>5, <1>6, <1>9, <2>2, <2>3, <2>4, <2>5, LedgerQueued
<1>10. ASSUME ~disturbed', ~ledger PROVE WithoutLedger'
  <2>1. ~disturbed /\ queue' = Enqueue(WalletOp(i, t)) /\ ~Loses(i, t)
    BY <1>1, <1>10, <1>a DEF Send
  <2>2. WithoutLedger
    BY <1>10, <2>1 DEF CInv
  <2>3. ~sending.on
    BY <1>1, <2>2 DEF WithoutLedger, TicketAims
  <2>4. t.kind # "edit" /\ UNCHANGED sending /\ u.pc \in {"put", "refresh", "done"} /\ balance' = balance
    BY <1>3, <1>4
  <2> QED
    BY <1>2, <1>3, <1>4, <1>6, <1>7, <1>10, <2>1, <2>2, <2>3, <2>4, AimsQueued
<1> QED
  BY <1>3, <1>8, <1>9, <1>10, Parts

-----------------------------------------------------------------------------
(* The steps that leave the tickets alone.                                  *)
LEMMA StillCounts ==
    ASSUME TypeOK, TypeOK', CInv,
           \/ Probe \/ HydrateRead \/ HydrateApply \/ Reload
           \/ MigrateRead \/ MigrateSum \/ MigrateWrite \/ UNCHANGED vars
    PROVE  CInv'
<1>1. /\ UNCHANGED <<ledger, opening, sending, balance, entered, others, owed, queue, used, ticket, disturbed>>
      /\ online => online'
  <2>1. CASE Probe
    BY <2>1 DEF Probe, given, server, account
  <2>2. CASE HydrateRead \/ HydrateApply
    BY <2>2 DEF HydrateRead, HydrateApply, given, server, account
  <2>3. CASE Reload
    BY <2>3 DEF Reload, given, server, account
  <2>4. CASE MigrateRead
    BY <2>4 DEF MigrateRead, given, till, account
  <2>5. CASE MigrateSum
    BY <2>5 DEF MigrateSum, given, till, account
  <2>6. CASE MigrateWrite
    BY <2>6 DEF MigrateWrite, given, till
  <2>7. CASE UNCHANGED vars
    BY <2>7 DEF vars
  <2> QED
    BY <2>1, <2>2, <2>3, <2>4, <2>5, <2>6, <2>7
<1>2. Shape
  BY DEF CInv
<1>3. Due' = Due /\ balance' = balance /\ Due \in Int /\ balance \in Int
  BY <1>1, DueType DEF Due
<1>4. queue' \subseteq queue /\ UNCHANGED <<ledger, ticket, used>> /\ sending' = sending
  BY <1>1
<1>5. Shape'
  BY <1>2, <1>4, ShapeFewer
<1>6. ASSUME ~disturbed', ledger PROVE WithLedger'
  <2>1. WithLedger
    BY <1>1, <1>6 DEF CInv
  <2>2. balance' = balance + 0 /\ Due' = Due + 0 /\ 0 \in Int /\ UNCHANGED <<ticket, queue, entered>>
    BY <1>1, <1>3
  <2> QED
    BY <2>1, <2>2, LedgerKept
<1>7. ASSUME ~disturbed', ~ledger PROVE WithoutLedger'
  <2>1. WithoutLedger
    BY <1>1, <1>7 DEF CInv
  <2>2. online => online' /\ (queue # {} \/ queue' = {})
    BY <1>1
  <2>3. UNCHANGED <<ticket, sending, queue>>
    BY <1>1
  <2> QED
    BY <1>2, <1>3, <2>1, <2>2, <2>3, AimsKept
<1> QED
  BY <1>1, <1>5, <1>6, <1>7, Parts

LEMMA OtherTillCounts == ASSUME TypeOK, TypeOK', CInv, OtherTill PROVE CInv'
<1>1. PICK d \in Changes : balance' = balance + d /\ others' = others + d
  BY DEF OtherTill
<1>2. /\ UNCHANGED <<ledger, opening, sending, entered, owed, queue, used, ticket>>
      /\ disturbed' = (disturbed \/ (~ledger /\ Sending))
  BY DEF OtherTill, given, till
<1>3. Shape /\ d \in Int
  BY AmountsAssumption DEF CInv
<1>4. Due' = Due + d
  BY <1>1, <1>2, <1>3 DEF Due, TypeOK
<1>5. Shape'
  <2>1. queue' \subseteq queue /\ UNCHANGED <<ledger, ticket, used>> /\ sending' = sending
    BY <1>2
  <2> QED
    BY <1>3, <2>1, ShapeFewer
<1>6. ASSUME ~disturbed', ledger PROVE WithLedger'
  <2>1. WithLedger /\ UNCHANGED <<ticket, queue, entered>>
    BY <1>2, <1>6 DEF CInv
  <2> QED
    BY <1>1, <1>3, <1>4, <2>1, LedgerKept
<1>7. ASSUME ~disturbed', ~ledger PROVE WithoutLedger'
  <2>1. WithoutLedger /\ ~Sending
    BY <1>2, <1>7 DEF CInv
  <2>2. queue = {} /\ ~sending.on /\ \A i \in Tickets : ticket[i].pc \notin InFlight
    BY <2>1 DEF Sending
  <2>3. balance' = Due'
    BY <1>1, <1>3, <1>4, <2>1, <2>2 DEF WithoutLedger, Carried, InFlight
  <2>4. \A i \in Tickets : ticket'[i].pc \notin {"post", "put", "putting"}
    BY <1>2, <2>2 DEF InFlight
  <2>5. queue' = {} /\ ~sending'.on
    BY <1>2, <2>2
  <2>6. SetAims' /\ SendingAims' /\ Carried'
    BY <2>3, <2>5 DEF SetAims, SendingAims, Carried
  <2>7. TicketAims' /\ OneInFlight'
    BY <2>4 DEF TicketAims, OneInFlight, InFlight
  <2> QED
    BY <2>6, <2>7 DEF WithoutLedger
<1> QED
  BY <1>2, <1>5, <1>6, <1>7, Parts

-----------------------------------------------------------------------------
(* The replay.                                                              *)
\* What every step of the replay keeps.
ReplayKeeps ==
    /\ UNCHANGED <<ledger, opening, others, owed, used, ticket, disturbed>>
    /\ online /\ online' /\ ~sending.on

LEMMA EntryCounts ==
    ASSUME TypeOK, TypeOK', CInv, ReplayKeeps, NEW op \in queue, ReplayEntry(op) PROVE CInv'
<1>1. /\ UNCHANGED <<ledger, opening, others, owed, used, ticket, disturbed, sending>>
      /\ op.kind = "entry" /\ Enter(op) /\ queue' \in {queue \ {op}, queue}
  BY DEF ReplayKeeps, ReplayEntry
<1>2. Shape /\ op \in Op /\ op.of \in Tickets
  BY OpFacts DEF CInv
<1>3. ledger /\ op.amount = ticket[op.of].delta /\ ticket[op.of].queued
  BY <1>1, <1>2 DEF Shape, OpOk
<1>4. Shape'
  <2>1. queue' \subseteq queue /\ UNCHANGED <<ledger, ticket, used>> /\ sending' = sending
    BY <1>1
  <2> QED
    BY <1>2, <2>1, ShapeFewer
<1>5. Due' = Due
  BY <1>1 DEF Due
<1>6. \A o \in queue : o \in Op /\ o.of \in Tickets
  BY OpFacts
<1> DEFINE i == op.of
<1>7. ~InPut(i) /\ ~InPut(i)'
  BY <1>1, <1>3 DEF InPut
<1>8. \A o \in queue : o.of = i => o = op
  BY <1>2 DEF Shape
<1>9. ASSUME ~disturbed' PROVE WithLedger'
  <2>1. WithLedger
    BY <1>1, <1>3, <1>9 DEF CInv
  <2>2. CASE Known(op.id)
    <3>1. UNCHANGED <<balance, entered>>
      BY <1>1, <2>2 DEF Enter, account
    <3>2. PICK e \in entered : e[1] = op.id
      BY <2>2 DEF Known
    <3>3. e[2] = i /\ e \in Ids \X Tickets
      BY <1>1, <2>1, <3>2 DEF WithLedger, OwnEntries, TypeOK
    <3>4. <<op.id, i>> \in entered
      BY <3>2, <3>3
    <3>5. \A j \in Tickets : Queued(j)' <=> Queued(j)
      BY <1>1, <1>8, <3>1, <3>4 DEF Queued
    <3>6. \A j \in Tickets : Outstanding(j)' = Outstanding(j)
      BY <1>1, <3>5, OutstandingIs, OutstandingNextIs DEF InPut
    <3>7. balance' = balance + 0 /\ Due' = Due + 0 /\ 0 \in Int
      BY <1>5, <3>1, DueType
    <3>8. Balanced'
      BY <2>1, <3>6, <3>7, BalancedSame DEF WithLedger, Balanced
    <3>9. OwnEntries'
      BY <1>1, <2>1, <3>1 DEF WithLedger, OwnEntries
    <3> QED
      BY <3>8, <3>9 DEF WithLedger, Balanced
  <2>3. CASE ~Known(op.id)
    <3>1. balance' = balance + op.amount /\ entered' = entered \cup {<<op.id, i>>}
      BY <1>1, <2>3 DEF Enter
    <3>2. <<op.id, i>> \notin entered
      BY <2>3 DEF Known
    <3>3. Queued(i) /\ ~Queued(i)'
      BY <1>1, <1>8, <3>1, <3>2 DEF Queued
    <3>4. Outstanding(i) = op.amount /\ Outstanding(i)' = 0
      BY <1>3, <1>7, <3>3, OutstandingIs, OutstandingNextIs
    <3>5. \A j \in Tickets \ {i} : Queued(j)' <=> Queued(j)
      BY <1>1, <3>1 DEF Queued
    <3>6. \A j \in Tickets \ {i} : Outstanding(j)' = Outstanding(j)
      BY <1>1, <3>5, OutstandingIs, OutstandingNextIs DEF InPut
    <3>7. (balance' - balance) + (Outstanding(i)' - Outstanding(i)) = Due' - Due
      BY <1>5, <3>1, <3>4, OpFacts, DueType
    <3>8. Balanced'
      BY <1>2, <2>1, <3>6, <3>7, BalancedStep DEF WithLedger, Balanced
    <3>9. OwnEntries'
      <4> SUFFICES ASSUME NEW o \in queue, o.kind = "entry", NEW e \in entered', e[1] = o.id PROVE e[2] = o.of
        BY <1>1 DEF OwnEntries
      <4>1. CASE e \in entered
        BY <2>1, <4>1 DEF WithLedger, OwnEntries
      <4>2. CASE e = <<op.id, i>>
        <5>1. Key(o) = Key(op)
          BY <1>1, <4>2 DEF Key
        <5>2. o = op
          BY <1>2, <5>1 DEF Shape
        <5> QED
          BY <4>2, <5>2
      <4> QED
        BY <3>1, <4>1, <4>2
    <3> QED
      BY <3>8, <3>9 DEF WithLedger, Balanced
  <2> QED
    BY <2>2, <2>3
<1> QED
  BY <1>1, <1>3, <1>4, <1>9, Parts

LEMMA RefusedCounts ==
    ASSUME TypeOK, TypeOK', CInv, ReplayKeeps, NEW op \in queue, ReplayRefused(op) PROVE CInv'
<1>1. /\ UNCHANGED <<ledger, opening, others, owed, used, ticket, disturbed, sending, balance, entered>>
      /\ queue' = (queue \ {op}) \cup {[op EXCEPT !.dead = TRUE]}
      /\ online /\ online'
  BY DEF ReplayKeeps, ReplayRefused, account
<1>2. Shape /\ op \in Op
  BY OpFacts DEF CInv
<1>3. PICK dead \in Op : dead = [op EXCEPT !.dead = TRUE]
  BY <1>2 DEF Op
<1>4. /\ dead.kind = op.kind /\ dead.of = op.of /\ dead.id = op.id /\ dead.amount = op.amount
      /\ dead.done = op.done
  BY <1>2, <1>3 DEF Op
<1>5. queue' = (queue \ {op}) \cup {dead}
  BY <1>1, <1>3
<1>6. Key(dead) = Key(op)
  BY <1>4 DEF Key
<1>7. \A o \in queue' : OpOk(o)'
  <2>1. \A o \in queue : OpOk(o)'
    BY <1>1, <1>2 DEF Shape, OpOk
  <2>2. OpOk(dead)'
    BY <1>4, <2>1 DEF OpOk
  <2> QED
    BY <1>5, <2>1, <2>2
<1>8. \A o, p \in queue' : o.of = p.of \/ Key(o) = Key(p) => o = p
  BY <1>2, <1>4, <1>5, <1>6 DEF Shape
<1>9. Shape'
  <2>1. SendingOk'
    BY <1>1, <1>2 DEF Shape, SendingOk
  <2> QED
    BY <1>1, <1>2, <1>7, <1>8, <2>1 DEF Shape, TicketOk, Key
<1>10. Due' = Due /\ balance' = balance
  BY <1>1 DEF Due
<1>11. ASSUME ~disturbed', ledger PROVE WithLedger'
  <2>1. WithLedger
    BY <1>1, <1>11 DEF CInv
  <2>2. \A j \in Tickets : Queued(j)' <=> Queued(j)
    BY <1>1, <1>4, <1>5 DEF Queued
  <2>3. \A j \in Tickets : Outstanding(j)' = Outstanding(j)
    BY <1>1, <2>2, OutstandingIs, OutstandingNextIs DEF InPut
  <2>4. balance' = balance + 0 /\ Due' = Due + 0 /\ 0 \in Int
    BY <1>10, DueType
  <2>5. Balanced'
    BY <2>1, <2>3, <2>4, BalancedSame DEF WithLedger, Balanced
  <2>6. OwnEntries'
    BY <1>1, <1>4, <1>5, <2>1 DEF WithLedger, OwnEntries
  <2> QED
    BY <2>5, <2>6 DEF WithLedger, Balanced
<1>12. ASSUME ~disturbed', ~ledger PROVE WithoutLedger'
  <2>1. WithoutLedger
    BY <1>1, <1>12 DEF CInv
  <2>2. \A o \in queue : o.kind = "set" /\ ~o.done => \E p \in queue' : p.kind = "set" /\ ~p.done /\ p.of = o.of
    BY <1>4, <1>5
  <2>3. \A p \in queue' : p.kind = "set" => \E o \in queue : o.kind = "set" /\ p.amount = o.amount
    BY <1>4, <1>5
  <2>4. online => online' /\ (queue # {} \/ queue' = {})
    BY <1>1
  <2>5. UNCHANGED sending /\ \A j \in Tickets : ticket'[j] = ticket[j]
    BY <1>1
  <2> QED
    BY <1>2, <1>10, <2>1, <2>2, <2>3, <2>4, <2>5, AimsKept
<1> QED
  BY <1>1, <1>9, <1>11, <1>12, Parts

LEMMA DoneCounts ==
    ASSUME TypeOK, TypeOK', CInv, ReplayKeeps, NEW op \in queue, ReplayDone(op) PROVE CInv'
<1>1. /\ UNCHANGED <<ledger, opening, others, owed, used, ticket, disturbed, sending, balance, entered>>
      /\ op.done /\ queue' = queue \ {op}
      /\ online /\ online'
  BY DEF ReplayKeeps, ReplayDone, account
<1>2. Shape /\ op \in Op
  BY OpFacts DEF CInv
<1>3. Shape'
  <2>1. queue' \subseteq queue /\ UNCHANGED <<ledger, ticket, used>> /\ sending' = sending
    BY <1>1
  <2> QED
    BY <1>2, <2>1, ShapeFewer
<1>4. Due' = Due /\ balance' = balance
  BY <1>1 DEF Due
<1>5. ASSUME ~disturbed', ledger PROVE WithLedger'
  <2>1. WithLedger /\ UNCHANGED <<ledger, entered>>
    BY <1>1, <1>5 DEF CInv
  <2>2. op.kind = "edit"
    BY <1>1, <1>2, <1>5 DEF Shape, OpOk
  <2>3. \A o \in Op : o.kind = "entry" => (o \in queue' <=> o \in queue)
    BY <1>1, <2>2
  <2>4. \A j \in Tickets : ticket'[j] = ticket[j]
    BY <1>1
  <2> QED
    BY <1>2, <1>3, <1>4, <1>5, <2>1, <2>3, <2>4, LedgerEdits
<1>6. ASSUME ~disturbed', ~ledger PROVE WithoutLedger'
  <2>1. WithoutLedger
    BY <1>1, <1>6 DEF CInv
  <2>2. \A o \in queue : o.kind = "set" /\ ~o.done => \E p \in queue' : p.kind = "set" /\ ~p.done /\ p.of = o.of
    BY <1>1
  <2>3. \A p \in queue' : p.kind = "set" => \E o \in queue : o.kind = "set" /\ p.amount = o.amount
    BY <1>1
  <2>4. online => online' /\ (queue # {} \/ queue' = {})
    BY <1>1
  <2>5. UNCHANGED sending /\ \A j \in Tickets : ticket'[j] = ticket[j]
    BY <1>1
  <2> QED
    BY <1>2, <1>4, <2>1, <2>2, <2>3, <2>4, <2>5, AimsKept
<1> QED
  BY <1>1, <1>3, <1>5, <1>6, Parts

LEMMA ReadCounts ==
    ASSUME TypeOK, TypeOK', CInv, ReplayKeeps, NEW op \in queue, ReplayRead(op) PROVE CInv'
<1>1. /\ UNCHANGED <<ledger, opening, others, owed, used, ticket, disturbed, queue, balance, entered, queue>>
      /\ op.kind # "entry" /\ ~op.done
      /\ sending' = [on |-> TRUE, of |-> op.of, target |-> op.amount, read |-> balance]
      /\ online /\ online'
  BY DEF ReplayKeeps, ReplayRead, account
<1>2. Shape /\ op \in Op /\ op.of \in Tickets
  BY OpFacts DEF CInv
<1>3. OpOk(op)
  BY <1>2 DEF Shape
<1>4. sending'.on /\ sending'.of = op.of /\ sending'.target = op.amount /\ sending'.read = balance
  BY <1>1
<1>5. Shape'
  <2>1. ledger => ticket[op.of].kind = "edit"
    BY <1>1, <1>2, <1>3, OpFacts DEF OpOk
  <2>2. SendingOk'
    BY <1>1, <1>2, <1>3, <1>4, <2>1 DEF SendingOk, OpOk
  <2>3. \A o \in queue' : OpOk(o)'
    BY <1>1, <1>2 DEF Shape, OpOk
  <2> QED
    BY <1>1, <1>2, <2>2, <2>3 DEF Shape, TicketOk, Key
<1>6. Due' = Due /\ balance' = balance
  BY <1>1 DEF Due
<1>7. ASSUME ~disturbed', ledger PROVE WithLedger'
  <2>1. WithLedger
    BY <1>1, <1>7 DEF CInv
  <2>2. balance' = balance + 0 /\ Due' = Due + 0 /\ 0 \in Int /\ UNCHANGED <<ticket, queue, entered>>
    BY <1>1, <1>6, DueType
  <2> QED
    BY <2>1, <2>2, LedgerKept
<1>8. ASSUME ~disturbed', ~ledger PROVE WithoutLedger'
  <2>1. WithoutLedger
    BY <1>1, <1>8 DEF CInv
  <2>2. SetAims' /\ OneInFlight' /\ Carried'
    BY <1>1, <1>6, <2>1 DEF WithoutLedger, SetAims, OneInFlight, Carried
  <2>3. queue # {} /\ UNCHANGED <<ticket, queue>>
    BY <1>1
  <2>4. TicketAims'
    BY <1>6, <2>1, <2>3 DEF WithoutLedger, TicketAims
  <2>5. SendingAims'
    <3>1. CASE op.kind = "edit"
      BY <1>1, <1>3, <1>4, <3>1 DEF SendingAims, OpOk
    <3>2. CASE op.kind = "set"
      <4>1. op.amount = Due
        BY <2>1, <3>2 DEF WithoutLedger, SetAims
      <4> QED
        BY <1>4, <1>6, <4>1 DEF SendingAims
    <3> QED
      BY <1>1, <1>2, <3>1, <3>2, OpFacts
  <2> QED
    BY <2>2, <2>4, <2>5 DEF WithoutLedger
<1> QED
  BY <1>1, <1>5, <1>7, <1>8, Parts

LEMMA ReplayCounts == ASSUME TypeOK, TypeOK', CInv, Replay PROVE CInv'
<1>1. PICK op \in queue : ReplayEntry(op) \/ ReplayRefused(op) \/ ReplayRead(op) \/ ReplayDone(op)
  BY DEF Replay
<1>2. ReplayKeeps
  BY DEF Replay, ReplayKeeps, given
<1> QED
  BY <1>1, <1>2, EntryCounts, RefusedCounts, ReadCounts, DoneCounts

(* The balance that was replayed is written.  Its operation is left, marked,  *)
(* when the answer is lost.                                                 *)
LEMMA WritesShape ==
    ASSUME TypeOK, TypeOK', CInv, ReplayWrites
    PROVE  /\ Shape' /\ UNCHANGED <<ledger, opening, others, owed, used, ticket, entered, online>>
           /\ ~sending'.on
           /\ \A o \in queue' : \E op \in queue :
                /\ o.kind = op.kind /\ o.of = op.of /\ o.id = op.id /\ o.amount = op.amount
                /\ o.of # sending.of => o = op
                /\ o.of = sending.of => o = [op EXCEPT !.done = TRUE]
           /\ \A op \in queue : op.of # sending.of => op \in queue'
<1>1. /\ sending.on
      /\ UNCHANGED <<ledger, opening, others, owed, used, ticket, entered, online>>
      /\ sending' = NotSending
      /\ \/ queue' = {op \in queue : op.of # sending.of}
         \/ queue' = {IF op.of = sending.of THEN [op EXCEPT !.done = TRUE] ELSE op : op \in queue}
  BY DEF ReplayWrites, given
<1>2. Shape /\ \A op \in queue : op \in Op
  BY OpFacts DEF CInv
<1>3. ~sending'.on
  BY <1>1 DEF NotSending
<1>4. \A op \in Op : LET o == [op EXCEPT !.done = TRUE] IN
        /\ o.kind = op.kind /\ o.of = op.of /\ o.id = op.id /\ o.amount = op.amount
  BY DEF Op
<1>5. /\ \A o \in queue' : \E op \in queue :
           /\ o.kind = op.kind /\ o.of = op.of /\ o.id = op.id /\ o.amount = op.amount
           /\ o.of # sending.of => o = op
           /\ o.of = sending.of => o = [op EXCEPT !.done = TRUE]
      /\ \A op \in queue : op.of # sending.of => op \in queue'
  <2>1. CASE queue' = {op \in queue : op.of # sending.of}
    BY <2>1
  <2>2. CASE queue' = {IF op.of = sending.of THEN [op EXCEPT !.done = TRUE] ELSE op : op \in queue}
    <3>1. ASSUME NEW o \in queue'
          PROVE  \E op \in queue : /\ o.kind = op.kind /\ o.of = op.of /\ o.id = op.id /\ o.amount = op.amount
                                   /\ o.of # sending.of => o = op
                                   /\ o.of = sending.of => o = [op EXCEPT !.done = TRUE]
      <4>1. PICK op \in queue : o = IF op.of = sending.of THEN [op EXCEPT !.done = TRUE] ELSE op
        BY <2>2, <3>1
      <4>2. op \in Op
        BY <1>2
      <4>3. CASE op.of = sending.of
        BY <1>4, <4>1, <4>2, <4>3
      <4>4. CASE op.of # sending.of
        BY <4>1, <4>4
      <4> QED
        BY <4>3, <4>4
    <3>2. \A op \in queue : op.of # sending.of => op \in queue'
      BY <2>2
    <3> QED
      BY <3>1, <3>2
  <2> QED
    BY <1>1, <2>1, <2>2
<1>6. \A o \in queue' : OpOk(o)'
  <2> SUFFICES ASSUME NEW o \in queue' PROVE OpOk(o)'
    OBVIOUS
  <2>1. PICK op \in queue : /\ o.kind = op.kind /\ o.of = op.of /\ o.id = op.id /\ o.amount = op.amount
                            /\ o.of # sending.of => o = op
    BY <1>5
  <2>2. OpOk(op)
    BY <1>2 DEF Shape
  <2>3. ledger /\ o.done => o.kind = "edit"
    <3>1. CASE o.of = sending.of
      BY <1>1, <1>2, <2>1, <2>2, <3>1 DEF OpOk, Shape, SendingOk
    <3>2. CASE o.of # sending.of
      BY <2>1, <2>2, <3>2 DEF OpOk
    <3> QED
      BY <3>1, <3>2
  <2> QED
    BY <1>1, <2>1, <2>2, <2>3 DEF OpOk
<1>7. \A o, p \in queue' : o.of = p.of \/ Key(o) = Key(p) => o = p
  <2> SUFFICES ASSUME NEW o \in queue', NEW p \in queue', o.of = p.of \/ Key(o) = Key(p) PROVE o = p
    OBVIOUS
  <2>1. PICK a \in queue : /\ o.kind = a.kind /\ o.of = a.of /\ o.id = a.id
                           /\ o.of # sending.of => o = a
                           /\ o.of = sending.of => o = [a EXCEPT !.done = TRUE]
    BY <1>5
  <2>2. PICK b \in queue : /\ p.kind = b.kind /\ p.of = b.of /\ p.id = b.id
                           /\ p.of # sending.of => p = b
                           /\ p.of = sending.of => p = [b EXCEPT !.done = TRUE]
    BY <1>5
  <2>3. Key(o) = Key(a) /\ Key(p) = Key(b)
    BY <2>1, <2>2 DEF Key
  <2>4. a = b
    BY <1>2, <2>1, <2>2, <2>3 DEF Shape
  <2> QED
    BY <2>1, <2>2, <2>4
<1>8. Shape'
  BY <1>1, <1>2, <1>3, <1>6, <1>7 DEF Shape, TicketOk, Key, SendingOk
<1> QED
  BY <1>1, <1>3, <1>5, <1>8

LEMMA ReplayWritesCounts == ASSUME TypeOK, TypeOK', CInv, ReplayWrites PROVE CInv'
<1>1. /\ Shape' /\ UNCHANGED <<ledger, opening, others, owed, used, ticket, entered, online>>
      /\ ~sending'.on
      /\ \A o \in queue' : \E op \in queue :
           /\ o.kind = op.kind /\ o.of = op.of /\ o.id = op.id /\ o.amount = op.amount
           /\ o.of # sending.of => o = op
           /\ o.of = sending.of => o = [op EXCEPT !.done = TRUE]
      /\ \A op \in queue : op.of # sending.of => op \in queue'
  BY WritesShape
<1>2. /\ sending.on /\ balance' = IF sending.target # sending.read THEN sending.target ELSE balance
      /\ disturbed' = (disturbed \/ (/\ ticket[sending.of].kind = "edit"
                                     /\ sending.target # sending.read))
  BY DEF ReplayWrites, Write
<1>3. Shape /\ sending.of \in Tickets /\ (ledger => ticket[sending.of].kind = "edit")
  BY <1>2 DEF CInv, Shape, SendingOk
<1>4. Due' = Due
  BY <1>1 DEF Due
<1>5. \A op \in queue : op \in Op /\ OpOk(op)
  BY <1>3, OpFacts DEF Shape
<1>6. \A op \in queue' : op \in Op
  BY DEF TypeOK
<1>7. ASSUME ~disturbed', ledger PROVE WithLedger'
  <2>1. WithLedger /\ ticket[sending.of].kind = "edit" /\ balance' = balance
    BY <1>2, <1>3, <1>7 DEF CInv
  <2>2. \A op \in queue : op.kind = "entry" => op.of # sending.of
    BY <1>5, <2>1 DEF OpOk
  <2>3. \A op \in Op : op.kind = "entry" => (op \in queue' <=> op \in queue)
    BY <1>1, <2>2
  <2>4. UNCHANGED <<ledger, entered>> /\ \A j \in Tickets : ticket'[j] = ticket[j]
    BY <1>1
  <2> QED
    BY <1>1, <1>3, <1>4, <1>7, <2>1, <2>3, <2>4, LedgerEdits
<1>8. ASSUME ~disturbed', ~ledger PROVE WithoutLedger'
  <2>1. WithoutLedger /\ SetAims /\ TicketAims /\ OneInFlight /\ SendingAims /\ Carried
    BY <1>2, <1>8 DEF CInv, WithoutLedger
  <2>2. SetAims'
    BY <1>1, <1>4, <2>1 DEF SetAims
  <2>3. OneInFlight' /\ SendingAims'
    BY <1>1, <2>1 DEF OneInFlight, SendingAims
  <2>4. \A j \in Tickets : ticket[j].pc # "post" /\ ticket'[j] = ticket[j]
    BY <1>1, <1>2, <2>1 DEF TicketAims
  <2>5. CASE ticket[sending.of].kind = "edit"
    <3>1. balance' = balance
      BY <1>2, <1>8, <2>5
    <3>2. \A op \in queue : op.kind = "set" => op \in queue'
      BY <1>1, <1>5, <2>5 DEF OpOk
    <3>3. TicketAims'
      BY <1>4, <2>1, <2>4, <3>1 DEF TicketAims
    <3>4. Carried'
      BY <1>1, <1>4, <2>1, <3>1, <3>2 DEF Carried
    <3> QED
      BY <2>2, <2>3, <3>3, <3>4 DEF WithoutLedger
  <2>6. CASE ticket[sending.of].kind # "edit"
    <3>1. CASE sending.target = Due /\ (sending.read = Due => balance = Due)
      <4>1. balance' = Due
        BY <1>2, <3>1
      <4>2. TicketAims'
        BY <1>4, <2>1, <2>4, <4>1 DEF TicketAims
      <4>3. Carried'
        BY <1>4, <4>1 DEF Carried
      <4> QED
        BY <2>2, <2>3, <4>2, <4>3 DEF WithoutLedger
    <3>2. CASE (\E op \in queue : Follows(op)) /\ Alone
      <4>1. \E op \in queue' : op.kind = "set" /\ ~op.done
        BY <1>1, <3>2 DEF Follows
      <4>2. Carried'
        BY <4>1 DEF Carried
      <4>3. TicketAims'
        BY <2>4, <3>2 DEF TicketAims, Alone, InFlight
      <4> QED
        BY <2>2, <2>3, <4>2, <4>3 DEF WithoutLedger
    <3> QED
      BY <2>1, <2>6, <1>2, <3>1, <3>2 DEF SendingAims
  <2> QED
    BY <2>5, <2>6
<1> QED
  BY <1>1, <1>7, <1>8, Parts

LEMMA CountsStep == ASSUME TypeOK, CInv, [Next]_vars PROVE CInv'
<1>0. TypeOK'
  BY TypeStep
<1>1. CASE OtherTill
  BY <1>0, <1>1, OtherTillCounts
<1>2. CASE \E i \in Tickets :
            \/ \E d \in Changes : SellOffline(i, d) \/ \E pays \in BOOLEAN : SellOnline(i, d, pays)
            \/ \E j \in Tickets : Return(i, j)
            \/ Pickup(i) \/ CancelToWallet(i) \/ EditOnline(i) \/ EditOffline(i)
  BY <1>0, <1>2, TillCounts
<1>3. CASE \E i \in Tickets : Posted(i)
  BY <1>0, <1>3, PostedCounts
<1>4. CASE \E i \in Tickets : FallBack(i)
  BY <1>0, <1>4, FallBackCounts
<1>5. CASE \E i \in Tickets :
            \/ SessionEnds(i) \/ PutRead(i) \/ PutFails(i) \/ RefreshRead(i) \/ RefreshApply(i) \/ RefreshFails(i)
  BY <1>0, <1>5, SaleMoves
<1>6. CASE \E i \in Tickets : PutWrites(i)
  BY <1>0, <1>6, PutWritesCounts
<1>7. CASE \/ Probe \/ HydrateRead \/ HydrateApply \/ Reload
           \/ MigrateRead \/ MigrateSum \/ MigrateWrite \/ UNCHANGED vars
  BY <1>0, <1>7, StillCounts
<1>8. CASE Replay
  BY <1>0, <1>8, ReplayCounts
<1>9. CASE ReplayWrites
  BY <1>0, <1>9, ReplayWritesCounts
<1> QED
  BY <1>1, <1>2, <1>3, <1>4, <1>5, <1>6, <1>7, <1>8, <1>9 DEF Next

LEMMA CountsInit == Init => CInv
<1> SUFFICES ASSUME Init PROVE CInv
  OBVIOUS
<1>1. Shape
  BY ShapeInit
<1>2. queue = {} /\ balance = opening /\ others = 0 /\ owed = 0 /\ opening \in Int /\ ~sending.on
  BY AmountsAssumption DEF Init, NotSending
<1>3. balance = Due
  BY <1>2 DEF Due
<1>4. \A i \in Tickets : ticket[i].pc = "none"
  BY DEF Init, NoTicket
<1>5. WithLedger
  <2>1. \A i \in Tickets : Outstanding(i) = 0
    BY <1>2, <1>4, OutstandingIs DEF Queued, InPut
  <2>2. Outstandings = [i \in Tickets |-> 0]
    BY <2>1 DEF Outstandings
  <2>3. Total(Outstandings) = 0
    BY <2>2, TotalZero
  <2>4. balance + Total(Outstandings) = Due
    BY <1>2, <1>3, <2>3
  <2> QED
    BY <1>2, <2>4 DEF WithLedger, OwnEntries
<1>6. WithoutLedger
  BY <1>2, <1>3, <1>4 DEF WithoutLedger, SetAims, TicketAims, OneInFlight, SendingAims, Carried, InFlight
<1> QED
  BY <1>1, <1>5, <1>6 DEF CInv

LEMMA CountsHolds == ASSUME TypeOK, CInv PROVE EveryChangeCounts
<1> SUFFICES ASSUME ~disturbed
             PROVE  IF ledger THEN balance + Total([i \in Tickets |-> Outstanding(i)]) = Due
                    ELSE Sending \/ balance = Due
  BY DEF EveryChangeCounts, Due
<1>1. ASSUME ledger PROVE balance + Total([i \in Tickets |-> Outstanding(i)]) = Due
  BY <1>1 DEF CInv, WithLedger, Outstandings
<1>2. ASSUME ~ledger PROVE Sending \/ balance = Due
  BY <1>2 DEF CInv, WithoutLedger, Carried, Sending, InFlight
<1> QED
  BY <1>1, <1>2

(* What the tills have recorded reaches the balance once, through lost         *)
(* answers, retries, falling back, other tills and the migration, for any      *)
(* number of tickets and any amounts, unless one of the named losses happened. *)
THEOREM CountsTheorem == Spec => []EveryChangeCounts
<1>1. Init => CInv
  BY CountsInit
<1>2. TypeOK /\ CInv /\ [Next]_vars => CInv'
  BY CountsStep
<1>3. TypeOK /\ CInv => EveryChangeCounts
  BY CountsHolds
<1> QED
  BY <1>1, <1>2, <1>3, TypeCorrect, PTL DEF Spec

=============================================================================
