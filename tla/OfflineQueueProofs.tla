-------------------------- MODULE OfflineQueueProofs --------------------------
(***************************************************************************)
(* Proofs about the offline queue of a tab, for any queue of operations,   *)
(* any number of overlapping replay cycles and of failures.                *)
(***************************************************************************)
EXTENDS OfflineQueue, TLAPS

(* An item is never the absent one. *)
LEMMA ItemNotAbsent == Absent \notin Item
BY DEF Absent, Item

LEMMA EmptyQueue == Empty \in Queue /\ Members(Empty) = {}
BY DEF Empty, Queue, Members

LEMMA MembersType == ASSUME NEW q PROVE Members(q) \subseteq Ops
BY DEF Members

LEMMA MemberItem == ASSUME NEW q \in Queue, NEW o \in Members(q) PROVE q[o] \in Item /\ o \in Ops
BY DEF Queue, Members

(* Writing an item changes the membership of its operation only. *)
LEMMA PutMember ==
    ASSUME NEW q \in Queue, NEW o \in Ops, NEW i \in Item
    PROVE  /\ [q EXCEPT ![o] = i] \in Queue
           /\ Members([q EXCEPT ![o] = i]) = Members(q) \cup {o}
BY ItemNotAbsent DEF Queue, Members

LEMMA RemoveMember ==
    ASSUME NEW q \in Queue, NEW o \in Ops
    PROVE  /\ [q EXCEPT ![o] = Absent] \in Queue
           /\ Members([q EXCEPT ![o] = Absent]) = Members(q) \ {o}
BY DEF Queue, Members

(* What the step of a cycle does to the cycles. *)
LEMMA CycleType ==
    ASSUME TypeOK, NEW c \in Cycles
    PROVE  /\ cycle[c] \in Cycle
           /\ Copy(c) \in Queue
           /\ cycle[c].pc \in Pc
           /\ Op(c) \in 0..Last
BY DEF TypeOK, Cycle, Copy, Op

LEMMA GotoEffect ==
    ASSUME TypeOK, NEW c \in Cycles, NEW pc \in Pc, Goto(c, pc)
    PROVE  /\ cycle' \in [Cycles -> Cycle]
           /\ cycle'[c].pc = pc
           /\ Copy(c)' = Copy(c)
           /\ Op(c)' = Op(c)
           /\ \A b \in Cycles \ {c} : cycle'[b] = cycle[b]
BY DEF TypeOK, Goto, Cycle, Copy, Op

LEMMA TakeEffect ==
    ASSUME TypeOK, NEW c \in Cycles, NEW pc \in Pc, NEW q \in Queue, Take(c, q, pc)
    PROVE  /\ cycle' \in [Cycles -> Cycle]
           /\ cycle'[c].pc = pc
           /\ Copy(c)' = q
           /\ Op(c)' = Op(c)
           /\ \A b \in Cycles \ {c} : cycle'[b] = cycle[b]
BY DEF TypeOK, Take, Cycle, Copy, Op

LEMMA LeaveEffect ==
    ASSUME TypeOK, NEW c \in Cycles, Leave(c)
    PROVE  /\ cycle' \in [Cycles -> Cycle]
           /\ cycle'[c].pc = "idle"
           /\ \A b \in Cycles \ {c} : cycle'[b] = cycle[b]
<1>1. Idle \in Cycle
  BY EmptyQueue, LastAssumption DEF Idle, Cycle, Pc
<1> QED
  BY <1>1 DEF TypeOK, Leave, Idle

(* The head that Mark takes, and the copy it leaves. *)
LEMMA MarkEffect ==
    ASSUME TypeOK, NEW c \in Cycles, Mark(c)
    PROVE  /\ cycle' \in [Cycles -> Cycle]
           /\ cycle'[c].pc = "marked"
           /\ Copy(c)' \in Queue
           /\ store' = Copy(c)'
           /\ Members(Copy(c)') = Members(Copy(c))
           /\ Op(c)' \in Members(Copy(c))
           /\ BlockedBy(Copy(c), Op(c)') = {}
           /\ ~Terminal(Copy(c)'[Op(c)'])
           /\ \A b \in Cycles \ {c} : cycle'[b] = cycle[b]
<1>1. PICK o \in Heads(Copy(c)) :
        /\ ~Terminal(Copy(c)[o])
        /\ BlockedBy(Copy(c), o) = {}
        /\ cycle' = [cycle EXCEPT ![c] = [pc |-> "marked",
                        copy |-> [Copy(c) EXCEPT ![o].later = FALSE], op |-> o]]
        /\ store' = [Copy(c) EXCEPT ![o].later = FALSE]
  BY DEF Mark
<1> DEFINE q == Copy(c)
           i == [q[o] EXCEPT !.later = FALSE]
           m == [q EXCEPT ![o].later = FALSE]
<1>2. q \in Queue /\ o \in Members(q)
  BY <1>1, CycleType DEF Heads
<1>3. q[o] \in Item /\ o \in Ops
  BY <1>2, MemberItem
<1>4. i \in Item
  BY <1>3 DEF Item
<1>5. m = [q EXCEPT ![o] = i]
  BY <1>2, <1>3 DEF Queue
<1>6. m \in Queue /\ Members(m) = Members(q)
  <2> HIDE DEF i, q
  <2> QED
    BY <1>2, <1>3, <1>4, <1>5, PutMember
<1>7. [pc |-> "marked", copy |-> m, op |-> o] \in Cycle
  <2> HIDE DEF m
  <2> QED
    BY <1>3, <1>6, LastAssumption DEF Cycle, Pc, Ops
<1>8. /\ cycle' \in [Cycles -> Cycle]
      /\ cycle'[c] = [pc |-> "marked", copy |-> m, op |-> o]
      /\ \A b \in Cycles \ {c} : cycle'[b] = cycle[b]
  <2> HIDE DEF m
  <2>1. cycle' = [cycle EXCEPT ![c] = [pc |-> "marked", copy |-> m, op |-> o]]
    BY <1>1 DEF m
  <2> QED
    BY <2>1, <1>7 DEF TypeOK
<1>9. Copy(c)' = m /\ Op(c)' = o /\ cycle'[c].pc = "marked"
  <2> HIDE DEF m
  <2> QED
    BY <1>8 DEF Copy, Op
<1>12. ~Terminal(m[o])
  <2>1. m[o] = i
    BY <1>2, <1>3, <1>5 DEF Queue
  <2>2. i.status = q[o].status
    BY <1>3 DEF Item
  <2> HIDE DEF i, m
  <2> QED
    BY <2>1, <2>2, <1>1 DEF Terminal, q
<1> HIDE DEF m, q
<1>10. store' = m
  BY <1>1 DEF m, q
<1>11. BlockedBy(q, o) = {} /\ q = Copy(c)
  BY <1>1 DEF q
<1> QED
  BY <1>2, <1>6, <1>8, <1>9, <1>10, <1>11, <1>12

(* A retry of an operation that is not terminal is a well-formed item. *)
LEMMA RetriedItem ==
    ASSUME NEW i \in Item, ~Terminal(i), NEW action \in {"retry", "quarantine", "drop"}
    PROVE  Retried(i, action) \in Item
<1>1. i.status = "pending" /\ i.retries \in 0..(MaxRetries - 1)
  BY DEF Item, Terminal
<1>2. i.retries + 1 \in 1..MaxRetries
  BY <1>1, MaxRetriesAssumption
<1>3. CASE action = "retry" /\ i.retries + 1 < MaxRetries
  <2>1. Retried(i, action) = [status |-> "pending", retries |-> i.retries + 1, later |-> TRUE]
    BY <1>3 DEF Retried
  <2>2. i.retries + 1 \in 0..(MaxRetries - 1)
    BY <1>1, <1>3, MaxRetriesAssumption
  <2> QED
    BY <2>1, <2>2 DEF Item
<1>4. CASE ~(action = "retry" /\ i.retries + 1 < MaxRetries)
  <2>1. Retried(i, action) =
            [status |-> IF action = "quarantine" THEN "quarantined" ELSE "failed_permanent",
             retries |-> i.retries + 1, later |-> FALSE]
    BY <1>4 DEF Retried
  <2> QED
    BY <2>1, <1>2 DEF Item
<1> QED
  BY <1>3, <1>4

(* The cycles that take no step keep what they hold in hand. *)
LEMMA InHandStep ==
    ASSUME InHand, NEW c \in Cycles,
           \A b \in Cycles \ {c} : cycle'[b] = cycle[b],
           cycle'[c].pc \in {"marked", "send"} =>
               Op(c)' \in Members(Copy(c)') /\ ~Terminal(Copy(c)'[Op(c)'])
    PROVE  InHand'
<1> SUFFICES ASSUME NEW b \in Cycles, cycle'[b].pc \in {"marked", "send"}
             PROVE  Op(b)' \in Members(Copy(b)') /\ ~Terminal(Copy(b)'[Op(b)'])
  BY DEF InHand
<1>1. CASE b = c
  BY <1>1
<1>2. CASE b # c
  <2>1. cycle'[b] = cycle[b]
    BY <1>2
  <2>2. Op(b)' = Op(b) /\ Copy(b)' = Copy(b)
    BY <2>1 DEF Op, Copy
  <2>3. Op(b) \in Members(Copy(b)) /\ ~Terminal(Copy(b)[Op(b)])
    BY <2>1 DEF InHand
  <2> QED
    BY <2>2, <2>3
<1> QED
  BY <1>1, <1>2

-----------------------------------------------------------------------------
(* Types.  A cycle sends the operation it holds in hand, so that the types   *)
(* are inductive together with InHand.                                       *)
Typed == TypeOK /\ InHand

LEMMA TypedInit == Init => Typed
<1> SUFFICES ASSUME Init PROVE Typed
  OBVIOUS
<1>1. Idle \in Cycle /\ Idle.pc = "idle"
  BY EmptyQueue, LastAssumption DEF Idle, Cycle, Pc
<1>2. TypeOK
  <2>1. due \in [Ops -> BOOLEAN] /\ deps \in [Ops -> SUBSET Ops]
    BY DEF Init
  <2>2. enqueued \in 0..Last /\ failures \in 0..MaxFailures
    BY LastAssumption, MaxFailuresAssumption DEF Init
  <2>3. /\ store \in Queue /\ mem \in Queue /\ cycle \in [Cycles -> Cycle]
        /\ dirty \in BOOLEAN /\ inFlight \in BOOLEAN /\ signedIn \in BOOLEAN
    BY <1>1, EmptyQueue DEF Init
  <2> QED
    BY <2>1, <2>2, <2>3 DEF TypeOK, Init
<1>3. InHand
  BY <1>1 DEF Init, InHand
<1> QED
  BY <1>2, <1>3 DEF Typed

LEMMA EnqueueTyped ==
    ASSUME Typed, NEW deferred \in BOOLEAN, Enqueue(deferred) PROVE Typed'
<1> USE DEF Typed
<1> DEFINE o == enqueued + 1
           new == [status |-> "pending", retries |-> 0, later |-> FALSE]
           replaced == {p \in 1..enqueued : Key[p] = Key[o]}
           queue == [p \in Ops |-> IF p = o THEN new
                                   ELSE IF p \in replaced THEN Absent ELSE mem[p]]
<1>1. new \in Item
  BY MaxRetriesAssumption DEF Item
<1>2. queue \in Queue
  <2> HIDE DEF new, replaced, o
  <2> QED
    BY <1>1 DEF TypeOK, Queue
<1>3. mem' = queue /\ dirty' = TRUE /\ store' \in {Empty, queue}
  BY DEF Enqueue, SetMem
<1>4. o \in Ops /\ enqueued' = o /\ o \in 0..Last /\ replaced \subseteq Ops
  BY LastAssumption DEF Enqueue, Ops, TypeOK
<1>5. deps' \in [Ops -> SUBSET Ops]
  BY NeedsAssumption, MembersType DEF Enqueue, TypeOK
<1>6. superseded' \subseteq Ops
  BY <1>4 DEF Enqueue, TypeOK
<1>7. exposed' \subseteq Ops
  <2>1. exposed' \in {exposed \cup 1..o, exposed \cup {o}, exposed}
    BY DEF Enqueue
  <2>2. 1..o \subseteq Ops
    BY <1>4, LastAssumption DEF Ops
  <2> HIDE DEF o
  <2> QED
    BY <2>1, <2>2, <1>4 DEF TypeOK
<1>8. UNCHANGED <<cycle, inFlight, signedIn, due, delivered, failures>>
  BY DEF Enqueue
<1>9. TypeOK'
  <2> HIDE DEF o, queue, replaced
  <2> QED
    BY <1>2, <1>3, <1>4, <1>5, <1>6, <1>7, <1>8, EmptyQueue DEF TypeOK
<1>10. InHand'
  BY <1>8 DEF InHand, Copy, Op
<1> QED
  BY <1>9, <1>10

(* The steps of the tab itself. *)
LEMMA TabTyped ==
    ASSUME Typed,
           PersistEffect \/ Logout \/ Login \/ Reload \/ \E o \in Ops : Elapse(o)
    PROVE  Typed'
<1> USE DEF Typed
<1>1. CASE PersistEffect
  BY <1>1 DEF PersistEffect, TypeOK, InHand, Copy, Op
<1>2. CASE Logout
  <2>1. 1..enqueued \subseteq Ops
    BY LastAssumption DEF TypeOK, Ops
  <2>2. failures' \in 0..MaxFailures
    BY <1>2, MaxFailuresAssumption DEF Logout, Fail, TypeOK
  <2> QED
    BY <1>2, <2>1, <2>2, EmptyQueue DEF Logout, Purge, TypeOK, InHand, Copy, Op
<1>3. CASE Login
  BY <1>3 DEF Login, TypeOK, InHand, Copy, Op
<1>4. CASE Reload
  <2>1. Idle \in Cycle /\ Idle.pc = "idle"
    BY EmptyQueue, LastAssumption DEF Idle, Cycle, Pc
  <2>2. failures' \in 0..MaxFailures
    BY <1>4, MaxFailuresAssumption DEF Reload, Fail, TypeOK
  <2>3. cycle' \in [Cycles -> Cycle] /\ InHand'
    BY <1>4, <2>1 DEF Reload, InHand
  <2> QED
    BY <1>4, <2>2, <2>3 DEF Reload, SetMem, TypeOK
<1>5. CASE \E o \in Ops : Elapse(o)
  BY <1>5 DEF Elapse, TypeOK, InHand, Copy, Op
<1> QED
  BY <1>1, <1>2, <1>3, <1>4, <1>5

(* The steps of a cycle outside a request: its next step is not "send" but   *)
(* after Show, which keeps what Mark took in hand.                           *)
LEMMA WalkTyped ==
    ASSUME Typed, NEW c \in Cycles,
           \/ Start(c) \/ ReadLive(c) \/ PublishLive(c) \/ Skip(c) \/ Load(c) \/ Enter(c)
           \/ Authenticate(c) \/ AuthenticateFails(c) \/ Stop(c) \/ Mark(c) \/ Show(c)
    PROVE  Typed'
<1> USE DEF Typed
<1>0. Copy(c) \in Queue
  BY CycleType
<1>1. CASE Start(c)
  <2>1. cycle' \in [Cycles -> Cycle] /\ InHand'
    BY <1>1, GotoEffect, InHandStep DEF Start, Pc
  <2> QED
    BY <1>1, <2>1 DEF Start, TypeOK
<1>2. CASE ReadLive(c)
  <2>1. cycle' \in [Cycles -> Cycle] /\ InHand'
    BY <1>2, TakeEffect, InHandStep DEF ReadLive, Pc, TypeOK
  <2> QED
    BY <1>2, <2>1 DEF ReadLive, TypeOK
<1>3. CASE PublishLive(c)
  <2>1. cycle' \in [Cycles -> Cycle] /\ InHand'
    BY <1>3, TakeEffect, InHandStep, EmptyQueue DEF PublishLive, Pc
  <2> QED
    BY <1>3, <2>1, <1>0 DEF PublishLive, SetMem, TypeOK
<1>4. CASE Skip(c)
  <2>1. cycle' \in [Cycles -> Cycle] /\ InHand'
    BY <1>4, LeaveEffect, InHandStep DEF Skip
  <2> QED
    BY <1>4, <2>1 DEF Skip, TypeOK
<1>5. CASE Load(c)
  <2>1. cycle' \in [Cycles -> Cycle] /\ InHand'
    BY <1>5, TakeEffect, InHandStep DEF Load, Pc, TypeOK
  <2> QED
    BY <1>5, <2>1 DEF Load, TypeOK
<1>6. CASE Enter(c)
  <2>1. CASE Copy(c) = Empty
    <3>1. cycle' \in [Cycles -> Cycle] /\ InHand'
      BY <1>6, <2>1, LeaveEffect, InHandStep DEF Enter
    <3> QED
      BY <1>6, <2>1, <3>1, <1>0 DEF Enter, SetMem, TypeOK
  <2>2. CASE Copy(c) # Empty
    <3>1. cycle' \in [Cycles -> Cycle] /\ InHand'
      BY <1>6, <2>2, GotoEffect, InHandStep DEF Enter, Pc
    <3> QED
      BY <1>6, <2>2, <3>1, <1>0 DEF Enter, SetMem, TypeOK
  <2> QED
    BY <2>1, <2>2
<1>7. CASE Authenticate(c)
  <2>1. cycle' \in [Cycles -> Cycle] /\ InHand'
    BY <1>7, GotoEffect, InHandStep DEF Authenticate, Pc
  <2> QED
    BY <1>7, <2>1 DEF Authenticate, TypeOK
<1>8. CASE AuthenticateFails(c)
  <2>1. cycle' \in [Cycles -> Cycle] /\ InHand'
    BY <1>8, LeaveEffect, InHandStep DEF AuthenticateFails
  <2>2. failures' \in 0..MaxFailures
    BY <1>8, MaxFailuresAssumption DEF AuthenticateFails, Fail, TypeOK
  <2> QED
    BY <1>8, <2>1, <2>2 DEF AuthenticateFails, TypeOK
<1>9. CASE Stop(c)
  <2>1. cycle' \in [Cycles -> Cycle] /\ InHand'
    BY <1>9, LeaveEffect, InHandStep DEF Stop
  <2> QED
    BY <1>9, <2>1 DEF Stop, TypeOK
<1>10. CASE Mark(c)
  <2>1. cycle' \in [Cycles -> Cycle] /\ InHand' /\ store' \in Queue
    BY <1>10, MarkEffect, InHandStep
  <2> QED
    BY <1>10, <2>1 DEF Mark, TypeOK
<1>11. CASE Show(c)
  <2>1. /\ cycle' \in [Cycles -> Cycle]
        /\ Copy(c)' = Copy(c) /\ Op(c)' = Op(c)
        /\ \A b \in Cycles \ {c} : cycle'[b] = cycle[b]
    BY <1>11, GotoEffect DEF Show, Pc
  <2>2. Op(c) \in Members(Copy(c)) /\ ~Terminal(Copy(c)[Op(c)])
    BY <1>11 DEF Show, At, InHand
  <2>3. InHand'
    BY <2>1, <2>2, InHandStep
  <2> QED
    BY <1>11, <2>1, <2>3, <1>0 DEF Show, SetMem, TypeOK
<1> QED
  BY <1>1, <1>2, <1>3, <1>4, <1>5, <1>6, <1>7, <1>8, <1>9, <1>10, <1>11

(* What the answers to a request do to the copy: the operation leaves it, or *)
(* is put back with one more retry.                                          *)
LEMMA SucceedEffect ==
    ASSUME Typed, NEW c \in Cycles, Succeed(c)
    PROVE  /\ Op(c) \in Members(Copy(c)) /\ Op(c) \in Ops
           /\ cycle' \in [Cycles -> Cycle]
           /\ cycle'[c].pc = "removed"
           /\ Members(Copy(c)') = Members(Copy(c)) \ {Op(c)}
           /\ \A b \in Cycles \ {c} : cycle'[b] = cycle[b]
<1>1. Op(c) \in Members(Copy(c)) /\ Copy(c) \in Queue
  BY CycleType DEF Typed, Succeed, At, InHand
<1>2. PICK o \in Ops : o = Op(c)
  BY <1>1 DEF Members
<1>3. PICK q \in Queue : q = Copy(c)
  BY <1>1
<1>4. [q EXCEPT ![o] = Absent] \in Queue /\ Members([q EXCEPT ![o] = Absent]) = Members(q) \ {o}
  BY RemoveMember
<1>5. Take(c, [q EXCEPT ![o] = Absent], "removed")
  BY <1>2, <1>3 DEF Succeed
<1>6. /\ cycle' \in [Cycles -> Cycle] /\ cycle'[c].pc = "removed"
      /\ Copy(c)' = [q EXCEPT ![o] = Absent]
      /\ \A b \in Cycles \ {c} : cycle'[b] = cycle[b]
  BY <1>4, <1>5, TakeEffect DEF Pc, Typed
<1> QED
  BY <1>1, <1>2, <1>3, <1>4, <1>6

LEMMA RefuseEffect ==
    ASSUME Typed, NEW c \in Cycles, Refuse(c)
    PROVE  /\ Op(c) \in Members(Copy(c)) /\ Op(c) \in Ops
           /\ cycle' \in [Cycles -> Cycle]
           /\ cycle'[c].pc = "returned"
           /\ Members(Copy(c)') = Members(Copy(c))
           /\ \A b \in Cycles \ {c} : cycle'[b] = cycle[b]
           /\ delivered' \subseteq delivered \cup {Op(c)} /\ delivered \subseteq delivered'
<1>1. Op(c) \in Members(Copy(c)) /\ Copy(c) \in Queue /\ ~Terminal(Copy(c)[Op(c)])
  BY CycleType DEF Typed, Refuse, At, InHand
<1>2. PICK o \in Ops : o = Op(c)
  BY <1>1 DEF Members
<1>3. PICK q \in Queue : q = Copy(c)
  BY <1>1
<1>4. PICK action \in {"retry", "quarantine", "drop"} :
        /\ delivered' \in {delivered} \cup
              (IF action = "retry" THEN {delivered \cup {Op(c)}} ELSE {})
        /\ Take(c, [q EXCEPT ![o] = Retried(@, action)], "returned")
  BY <1>2, <1>3 DEF Refuse
<1>5. q[o] \in Item /\ ~Terminal(q[o]) /\ o \in Members(q)
  BY <1>1, <1>2, <1>3, MemberItem
<1>6. PICK i \in Item : i = Retried(q[o], action)
  BY <1>5, RetriedItem
<1>7. [q EXCEPT ![o] = i] \in Queue /\ Members([q EXCEPT ![o] = i]) = Members(q)
  BY <1>5, PutMember
<1>8. Take(c, [q EXCEPT ![o] = i], "returned")
  BY <1>4, <1>6
<1>9. /\ cycle' \in [Cycles -> Cycle] /\ cycle'[c].pc = "returned"
      /\ Copy(c)' = [q EXCEPT ![o] = i]
      /\ \A b \in Cycles \ {c} : cycle'[b] = cycle[b]
  BY <1>7, <1>8, TakeEffect DEF Pc, Typed
<1> QED
  BY <1>1, <1>2, <1>3, <1>4, <1>7, <1>9

LEMMA SettleEffect ==
    ASSUME TypeOK, NEW c \in Cycles, Settle(c), At(c, "shifted")
    PROVE  /\ cycle' \in [Cycles -> Cycle]
           /\ cycle'[c].pc = "pick"
           /\ Copy(c)' = Copy(c)
           /\ \A b \in Cycles \ {c} : cycle'[b] = cycle[b]
<1>1. PICK q \in Queue : q = Copy(c)
  BY CycleType
<1>2. cycle' = [cycle EXCEPT ![c] = [pc |-> "pick", copy |-> q, op |-> 0]]
  BY <1>1 DEF Settle
<1>3. [pc |-> "pick", copy |-> q, op |-> 0] \in Cycle
  BY LastAssumption DEF Cycle, Pc
<1> QED
  BY <1>1, <1>2, <1>3 DEF TypeOK, Copy

LEMMA SendTyped ==
    ASSUME Typed, NEW c \in Cycles,
           Succeed(c) \/ Refuse(c) \/ Expire(c) \/ WriteBack(c) \/ Settle(c)
    PROVE  Typed'
<1> USE DEF Typed
<1>0. Copy(c) \in Queue
  BY CycleType
<1>1. CASE Succeed(c)
  <2>1. /\ cycle' \in [Cycles -> Cycle] /\ cycle'[c].pc = "removed" /\ Op(c) \in Ops
        /\ \A b \in Cycles \ {c} : cycle'[b] = cycle[b]
    BY <1>1, SucceedEffect
  <2>2. InHand'
    BY <2>1, InHandStep
  <2> QED
    BY <1>1, <2>1, <2>2 DEF Succeed, TypeOK
<1>2. CASE Refuse(c)
  <2>1. /\ cycle' \in [Cycles -> Cycle] /\ cycle'[c].pc = "returned" /\ Op(c) \in Ops
        /\ \A b \in Cycles \ {c} : cycle'[b] = cycle[b]
        /\ delivered' \subseteq delivered \cup {Op(c)}
    BY <1>2, RefuseEffect
  <2>2. InHand'
    BY <2>1, InHandStep
  <2>3. failures' \in 0..MaxFailures
    BY <1>2, MaxFailuresAssumption DEF Refuse, Fail, TypeOK
  <2>4. due' \in [Ops -> BOOLEAN]
    BY <1>2 DEF Refuse, TypeOK
  <2> QED
    BY <1>2, <2>1, <2>2, <2>3, <2>4 DEF Refuse, TypeOK
<1>3. CASE Expire(c)
  <2>1. cycle' \in [Cycles -> Cycle] /\ InHand'
    BY <1>3, LeaveEffect, InHandStep DEF Expire
  <2>2. failures' \in 0..MaxFailures
    BY <1>3, MaxFailuresAssumption DEF Expire, Fail, TypeOK
  <2>3. 1..enqueued \subseteq Ops
    BY LastAssumption DEF TypeOK, Ops
  <2> QED
    BY <1>3, <2>1, <2>2, <2>3, EmptyQueue DEF Expire, Purge, TypeOK
<1>4. CASE WriteBack(c)
  <2>1. PICK pc \in {"shifted", "failed"} : Goto(c, pc)
    BY <1>4 DEF WriteBack
  <2>2. cycle' \in [Cycles -> Cycle] /\ InHand'
    BY <2>1, GotoEffect, InHandStep DEF Pc
  <2> QED
    BY <1>4, <2>2, <1>0 DEF WriteBack, TypeOK
<1>5. CASE Settle(c)
  <2>1. cycle' \in [Cycles -> Cycle] /\ InHand' /\ inFlight' \in BOOLEAN
    <3>1. CASE At(c, "shifted")
      BY <1>5, <3>1, SettleEffect, InHandStep DEF Settle, TypeOK
    <3>2. CASE ~At(c, "shifted")
      BY <1>5, <3>2, LeaveEffect, InHandStep DEF Settle
    <3> QED
      BY <3>1, <3>2
  <2> QED
    BY <1>5, <2>1, <1>0 DEF Settle, SetMem, TypeOK
<1> QED
  BY <1>1, <1>2, <1>3, <1>4, <1>5

LEMMA TypedStep == Typed /\ [Next]_vars => Typed'
<1> SUFFICES ASSUME Typed, [Next]_vars PROVE Typed'
  OBVIOUS
<1>1. CASE \E deferred \in BOOLEAN : Enqueue(deferred)
  BY <1>1, EnqueueTyped
<1>2. CASE PersistEffect \/ Logout \/ Login \/ Reload \/ \E o \in Ops : Elapse(o)
  BY <1>2, TabTyped
<1>3. CASE \E c \in Cycles : Start(c) \/ Advance(c) \/ Trouble(c)
  BY <1>3, WalkTyped, SendTyped DEF Advance, Trouble
<1>4. CASE UNCHANGED vars
  BY <1>4 DEF vars, Typed, TypeOK, InHand, Copy, Op
<1> QED
  BY <1>1, <1>2, <1>3, <1>4 DEF Next

(* Every variable of the queue keeps its type: an operation never has more   *)
(* attempts than MaxRetries, and one with an attempt left is never terminal. *)
THEOREM TypeCorrect == Spec => []TypeOK
<1>1. Spec => []Typed
  BY TypedInit, TypedStep, PTL DEF Spec
<1> QED
  BY <1>1, PTL DEF Typed

-----------------------------------------------------------------------------
(* The traffic between the copies.  Every step but Enqueue writes copies     *)
(* that exist already, less what it delivers (a purge empties the store and  *)
(* exposes everything).                                                      *)
Follows(m, D) == \E n \in Copies : n \ D \subseteq m /\ m \subseteq n

Sent == {Op(c) : c \in {b \in Cycles : cycle[b].pc = "send"}}

Flow(D) ==
    /\ D \subseteq Sent
    /\ delivered' = delivered \cup D
    /\ UNCHANGED <<enqueued, deps, superseded>>
    /\ exposed \subseteq exposed'
    /\ \A m \in Copies' : Follows(m, D) \/ (m = {} /\ 1..enqueued \subseteq exposed')

LEMMA CopiesHave ==
    /\ Members(store) \in Copies
    /\ Members(mem) \in Copies
    /\ \A c \in Cycles : cycle[c].pc \in Holding => Members(Copy(c)) \in Copies
BY DEF Copies

(* The copies after a step of one cycle. *)
LEMMA CopiesAfter ==
    ASSUME NEW c \in Cycles, NEW S,
           \A b \in Cycles \ {c} : cycle'[b] = cycle[b],
           Copies \subseteq S,
           Members(store') \in S, Members(mem') \in S,
           cycle'[c].pc \in Holding => Members(Copy(c)') \in S
    PROVE  Copies' \subseteq S
<1> SUFFICES ASSUME NEW m \in Copies', m \notin S PROVE FALSE
  OBVIOUS
<1>1. PICK b \in Cycles : cycle'[b].pc \in Holding /\ m = Members(Copy(b)')
  BY DEF Copies
<1>2. b # c
  BY <1>1
<1>3. cycle'[b] = cycle[b] /\ Copy(b)' = Copy(b)
  BY <1>2 DEF Copy
<1>4. m \in Copies
  BY <1>1, <1>3, CopiesHave
<1> QED
  BY <1>4

(* A step that copies, and neither delivers nor exposes. *)
LEMMA KeptFlow ==
    ASSUME Copies' \subseteq Copies,
           UNCHANGED <<enqueued, deps, delivered, superseded, exposed>>
    PROVE  Flow({})
BY DEF Flow, Follows

LEMMA WalkKept ==
    ASSUME Typed, NEW c \in Cycles,
           \/ Start(c) \/ ReadLive(c) \/ PublishLive(c) \/ Skip(c) \/ Load(c) \/ Enter(c)
           \/ Authenticate(c) \/ AuthenticateFails(c) \/ Stop(c) \/ Mark(c) \/ Show(c)
    PROVE  Copies' \subseteq Copies
<1> USE DEF Typed
<1>0. /\ Copy(c) \in Queue /\ store \in Queue
      /\ Members(store) \in Copies /\ Members(mem) \in Copies
      /\ cycle[c].pc \in Holding => Members(Copy(c)) \in Copies
  BY CycleType, CopiesHave DEF TypeOK
<1>1. CASE Start(c)
  <2>1. cycle'[c].pc = "reading" /\ \A b \in Cycles \ {c} : cycle'[b] = cycle[b]
    BY <1>1, GotoEffect DEF Start, Pc
  <2> QED
    BY <1>0, <1>1, <2>1, CopiesAfter DEF Start, Holding
<1>2. CASE ReadLive(c) \/ Load(c)
  <2>1. Copy(c)' = store /\ \A b \in Cycles \ {c} : cycle'[b] = cycle[b]
    BY <1>0, <1>2, TakeEffect DEF ReadLive, Load, Pc
  <2> QED
    BY <1>0, <1>2, <2>1, CopiesAfter DEF ReadLive, Load
<1>3. CASE PublishLive(c)
  <2>1. cycle'[c].pc = "check" /\ \A b \in Cycles \ {c} : cycle'[b] = cycle[b]
    BY <1>3, TakeEffect, EmptyQueue DEF PublishLive, Pc
  <2> QED
    BY <1>0, <1>3, <2>1, CopiesAfter DEF PublishLive, SetMem, At, Holding
<1>4. CASE Skip(c) \/ AuthenticateFails(c) \/ Stop(c)
  <2>1. cycle'[c].pc = "idle" /\ \A b \in Cycles \ {c} : cycle'[b] = cycle[b]
    BY <1>4, LeaveEffect DEF Skip, AuthenticateFails, Stop
  <2> QED
    BY <1>0, <1>4, <2>1, CopiesAfter DEF Skip, AuthenticateFails, Stop, Holding
<1>5. CASE Enter(c)
  <2>1. /\ cycle'[c].pc \in Holding => Copy(c)' = Copy(c)
        /\ \A b \in Cycles \ {c} : cycle'[b] = cycle[b]
    <3>1. CASE Copy(c) = Empty
      BY <1>5, <3>1, LeaveEffect DEF Enter, Holding
    <3>2. CASE Copy(c) # Empty
      BY <1>5, <3>2, GotoEffect DEF Enter, Pc
    <3> QED
      BY <3>1, <3>2
  <2> QED
    BY <1>0, <1>5, <2>1, CopiesAfter DEF Enter, SetMem, At, Holding
<1>6. CASE Authenticate(c)
  <2>1. Copy(c)' = Copy(c) /\ \A b \in Cycles \ {c} : cycle'[b] = cycle[b]
    BY <1>6, GotoEffect DEF Authenticate, Pc
  <2> QED
    BY <1>0, <1>6, <2>1, CopiesAfter DEF Authenticate, At, Holding
<1>7. CASE Mark(c)
  <2>1. /\ store' = Copy(c)' /\ Members(Copy(c)') = Members(Copy(c))
        /\ \A b \in Cycles \ {c} : cycle'[b] = cycle[b]
    BY <1>7, MarkEffect
  <2>2. Members(store') = Members(Copy(c)) /\ mem' = mem
    BY <1>7, <2>1 DEF Mark
  <2> QED
    BY <1>0, <1>7, <2>1, <2>2, CopiesAfter DEF Mark, At, Holding
<1>8. CASE Show(c)
  <2>1. Copy(c)' = Copy(c) /\ \A b \in Cycles \ {c} : cycle'[b] = cycle[b]
    BY <1>8, GotoEffect DEF Show, Pc
  <2> QED
    BY <1>0, <1>8, <2>1, CopiesAfter DEF Show, SetMem, At, Holding
<1> QED
  BY <1>1, <1>2, <1>3, <1>4, <1>5, <1>6, <1>7, <1>8

LEMMA SucceedFlow ==
    ASSUME Typed, NEW c \in Cycles, Succeed(c)
    PROVE  Flow({Op(c)})
<1>1. /\ cycle[c].pc = "send" /\ Members(Copy(c)) \in Copies
      /\ Members(store) \in Copies /\ Members(mem) \in Copies
  BY CopiesHave DEF Succeed, At, Holding
<1>2. /\ Members(Copy(c)') = Members(Copy(c)) \ {Op(c)}
      /\ \A b \in Cycles \ {c} : cycle'[b] = cycle[b]
  BY SucceedEffect
<1>3. PICK S : S = Copies \cup {Members(Copy(c)) \ {Op(c)}}
  OBVIOUS
<1>4. Copies' \subseteq S
  BY <1>1, <1>2, <1>3, CopiesAfter DEF Succeed
<1>5. \A m \in S : Follows(m, {Op(c)})
  BY <1>1, <1>3 DEF Follows
<1>6. {Op(c)} \subseteq Sent
  BY <1>1 DEF Sent
<1> QED
  BY <1>4, <1>5, <1>6 DEF Flow, Succeed

LEMMA RefuseFlow ==
    ASSUME Typed, NEW c \in Cycles, Refuse(c)
    PROVE  \E D : Flow(D)
<1>1. /\ cycle[c].pc = "send" /\ Members(Copy(c)) \in Copies
      /\ Members(store) \in Copies /\ Members(mem) \in Copies
  BY CopiesHave DEF Refuse, At, Holding
<1>2. /\ Members(Copy(c)') = Members(Copy(c))
      /\ \A b \in Cycles \ {c} : cycle'[b] = cycle[b]
      /\ delivered' \subseteq delivered \cup {Op(c)} /\ delivered \subseteq delivered'
  BY RefuseEffect
<1>3. Copies' \subseteq Copies
  BY <1>1, <1>2, CopiesAfter DEF Refuse
<1>4. PICK D \in {{}, {Op(c)}} : delivered' = delivered \cup D
  <2>1. delivered' = delivered \cup {} \/ delivered' = delivered \cup {Op(c)}
    BY <1>2
  <2> QED
    BY <2>1
<1>5. \A m \in Copies : Follows(m, D)
  BY DEF Follows
<1>6. D \subseteq Sent
  BY <1>1, <1>4 DEF Sent
<1>7. UNCHANGED <<enqueued, deps, superseded, exposed>>
  BY DEF Refuse
<1> QED
  BY <1>3, <1>4, <1>5, <1>6, <1>7 DEF Flow

LEMMA PurgeFlow ==
    ASSUME Typed, Logout \/ \E c \in Cycles : Expire(c)
    PROVE  Flow({})
<1>0. /\ Members(mem) \in Copies /\ Copies \subseteq Copies \cup {{}}
      /\ \A c \in Cycles : cycle[c].pc \in Holding => Members(Copy(c)) \in Copies
  BY CopiesHave
<1>1. Copies' \subseteq Copies \cup {{}}
  <2>1. CASE Logout
    <3>1. cycle' = cycle /\ mem' = mem /\ store' = Empty
      BY <2>1 DEF Logout, Purge
    <3> QED
      BY <1>0, <3>1, EmptyQueue DEF Copies, Copy
  <2>2. ASSUME NEW c \in Cycles, Expire(c) PROVE Copies' \subseteq Copies \cup {{}}
    <3>1. cycle'[c].pc = "idle" /\ \A b \in Cycles \ {c} : cycle'[b] = cycle[b]
      BY <2>2, LeaveEffect DEF Expire, Typed
    <3>2. mem' = mem /\ store' = Empty
      BY <2>2 DEF Expire, Purge
    <3>3. PICK S : S = Copies \cup {{}}
      OBVIOUS
    <3>4. Copies \subseteq S /\ Members(store') \in S /\ Members(mem') \in S
      BY <1>0, <3>2, <3>3, EmptyQueue
    <3> QED
      BY <3>1, <3>3, <3>4, CopiesAfter DEF Holding
  <2> QED
    BY <2>1, <2>2
<1>2. exposed' = exposed \cup 1..enqueued /\ UNCHANGED <<enqueued, deps, delivered, superseded>>
  BY DEF Logout, Expire, Purge
<1>3. \A m \in Copies : Follows(m, {})
  BY DEF Follows
<1> QED
  BY <1>1, <1>2, <1>3 DEF Flow

(* Every step but Enqueue flows. *)
LEMMA FlowStep ==
    ASSUME Typed, [Next]_vars, ~ \E deferred \in BOOLEAN : Enqueue(deferred)
    PROVE  \E D : Flow(D)
<1>0. /\ Members(store) \in Copies /\ Members(mem) \in Copies
      /\ \A c \in Cycles : cycle[c].pc \in Holding => Members(Copy(c)) \in Copies
  BY CopiesHave
<1>1. CASE PersistEffect \/ Login \/ \E o \in Ops : Elapse(o)
  <2>1. cycle' = cycle /\ mem' = mem /\ store' \in {store, mem}
    BY <1>1 DEF PersistEffect, Login, Elapse
  <2>2. Copies' \subseteq Copies
    <3>1. Members(store') \in Copies /\ Members(mem') \in Copies
      BY <1>0, <2>1
    <3> QED
      BY <3>1, <2>1 DEF Copies, Copy
  <2>3. UNCHANGED <<enqueued, deps, delivered, superseded, exposed>>
    BY <1>1 DEF PersistEffect, Login, Elapse
  <2> QED
    BY <2>2, <2>3, KeptFlow
<1>2. CASE Reload
  <2>1. cycle' = [c \in Cycles |-> Idle] /\ mem' = store /\ store' = store
    BY <1>2 DEF Reload, SetMem
  <2>2. \A c \in Cycles : cycle'[c].pc = "idle"
    BY <2>1 DEF Idle
  <2>3. Copies' \subseteq Copies
    BY <1>0, <2>1, <2>2 DEF Copies, Holding
  <2>4. UNCHANGED <<enqueued, deps, delivered, superseded, exposed>>
    BY <1>2 DEF Reload
  <2> QED
    BY <2>3, <2>4, KeptFlow
<1>3. CASE Logout \/ \E c \in Cycles : Expire(c)
  BY <1>3, PurgeFlow
<1>4. ASSUME NEW c \in Cycles,
             \/ Start(c) \/ ReadLive(c) \/ PublishLive(c) \/ Skip(c) \/ Load(c) \/ Enter(c)
             \/ Authenticate(c) \/ AuthenticateFails(c) \/ Stop(c) \/ Mark(c) \/ Show(c)
      PROVE  \E D : Flow(D)
  <2>1. Copies' \subseteq Copies
    BY <1>4, WalkKept
  <2>2. UNCHANGED <<enqueued, deps, delivered, superseded, exposed>>
    BY <1>4 DEF Start, ReadLive, PublishLive, Skip, Load, Enter, Authenticate,
                AuthenticateFails, Stop, Mark, Show
  <2> QED
    BY <2>1, <2>2, KeptFlow
<1>5. ASSUME NEW c \in Cycles, Succeed(c) \/ Refuse(c) PROVE \E D : Flow(D)
  BY <1>5, SucceedFlow, RefuseFlow
<1>6. ASSUME NEW c \in Cycles, WriteBack(c) \/ Settle(c) PROVE \E D : Flow(D)
  <2>0. Typed
    OBVIOUS
  <2>1. /\ \A b \in Cycles \ {c} : cycle'[b] = cycle[b]
        /\ cycle'[c].pc \in Holding => Copy(c)' = Copy(c)
        /\ cycle[c].pc \in Holding
    <3>1. CASE WriteBack(c)
      <4>1. PICK pc \in {"shifted", "failed"} : Goto(c, pc)
        BY <3>1 DEF WriteBack
      <4> QED
        BY <2>0, <3>1, <4>1, GotoEffect DEF WriteBack, Holding, Pc, Typed
    <3>2. CASE Settle(c) /\ At(c, "shifted")
      BY <2>0, <3>2, SettleEffect DEF Settle, Holding, Typed
    <3>3. CASE Settle(c) /\ ~At(c, "shifted")
      BY <2>0, <3>3, LeaveEffect DEF Settle, Holding, Typed
    <3> QED
      BY <1>6, <3>1, <3>2, <3>3
  <2>2. store' \in {store, Copy(c)} /\ mem' \in {mem, Copy(c)}
    BY <1>6 DEF WriteBack, Settle, SetMem
  <2>3. Copies' \subseteq Copies
    BY <1>0, <2>1, <2>2, CopiesAfter
  <2>4. UNCHANGED <<enqueued, deps, delivered, superseded, exposed>>
    BY <1>6 DEF WriteBack, Settle
  <2> QED
    BY <2>3, <2>4, KeptFlow
<1>7. CASE UNCHANGED vars
  <2>1. Copies' \subseteq Copies /\ UNCHANGED <<enqueued, deps, delivered, superseded, exposed>>
    BY <1>7 DEF vars, Copies, Copy
  <2> QED
    BY <2>1, KeptFlow
<1> QED
  BY <1>1, <1>2, <1>3, <1>4, <1>5, <1>6, <1>7 DEF Next, Advance, Trouble

(* What Enqueue writes: the state without the operations the new one         *)
(* replaces and with the new one, or nothing when the update is deferred.    *)
Replaced == {p \in 1..enqueued : Key[p] = Key[enqueued + 1]}

Enlarged == (Members(mem) \ Replaced) \cup {enqueued + 1}

LEMMA EnqueueFlow ==
    ASSUME Typed, NEW deferred \in BOOLEAN, Enqueue(deferred)
    PROVE  /\ enqueued + 1 \in Ops /\ enqueued' = enqueued + 1
           /\ deps' = [deps EXCEPT ![enqueued + 1] = Needs[enqueued + 1] \cap Members(mem)]
           /\ superseded' = superseded \cup Replaced
           /\ UNCHANGED <<cycle, delivered>>
           /\ exposed \subseteq exposed'
           /\ Copies' \subseteq Copies \cup {{}, Enlarged}
           /\ \/ 1..(enqueued + 1) \subseteq exposed'
              \/ exposed' = exposed \cup {enqueued + 1} /\ Copies' \subseteq Copies \cup {Enlarged}
              \/ Copies' = {Enlarged}
<1> USE DEF Typed
<1> DEFINE new == [status |-> "pending", retries |-> 0, later |-> FALSE]
           queue == [p \in Ops |-> IF p = enqueued + 1 THEN new
                                   ELSE IF p \in Replaced THEN Absent ELSE mem[p]]
<1>1. new # Absent
  BY DEF Absent
<1>2. enqueued + 1 \in Ops /\ enqueued \in Nat
  BY LastAssumption DEF Enqueue, TypeOK
<1>3. Members(queue) = Enlarged
  <2>1. enqueued + 1 \notin Replaced
    BY <1>2 DEF Replaced
  <2> HIDE DEF new
  <2> QED
    BY <1>1, <1>2, <2>1 DEF Members, Enlarged, TypeOK, Queue
<1>4. mem' = queue /\ store' \in {Empty, queue} /\ (~deferred => store' = queue)
  BY DEF Enqueue, SetMem, Replaced
<1>5. Members(mem') = Enlarged /\ Members(store') \in {{}, Enlarged}
      /\ (~deferred => Members(store') = Enlarged)
  <2> HIDE DEF queue
  <2> QED
    BY <1>3, <1>4, EmptyQueue
<1>6. cycle' = cycle
  BY DEF Enqueue
<1>7. Copies' \subseteq Copies \cup {{}, Enlarged}
  BY <1>5, <1>6 DEF Copies, Copy
<1>8. ~deferred => Copies' \subseteq Copies \cup {Enlarged}
  BY <1>5, <1>6 DEF Copies, Copy
<1>9. CASE deferred
  <2>1. exposed' = exposed \cup 1..(enqueued + 1)
    BY <1>9 DEF Enqueue
  <2>2. exposed \subseteq exposed' /\ 1..(enqueued + 1) \subseteq exposed'
    BY <2>1
  <2> QED
    BY <2>1, <2>2, <1>2, <1>7 DEF Enqueue, Replaced
<1>10. CASE ~deferred /\ \E c \in Cycles : cycle[c].pc \in Holding
  <2>1. exposed' = exposed \cup {enqueued + 1}
    BY <1>10 DEF Enqueue
  <2> QED
    BY <2>1, <1>2, <1>7, <1>8, <1>10 DEF Enqueue, Replaced
<1>11. CASE ~deferred /\ ~ \E c \in Cycles : cycle[c].pc \in Holding
  <2>1. exposed' = exposed
    BY <1>11 DEF Enqueue
  <2>2. Copies' = {Enlarged}
    BY <1>5, <1>6, <1>11 DEF Copies
  <2> QED
    BY <2>1, <2>2, <1>2, <1>7 DEF Enqueue, Replaced
<1> QED
  BY <1>9, <1>10, <1>11

-----------------------------------------------------------------------------
(* One operation of a key.  A copy holds operations that exist only, so that *)
(* Enqueue replaces every older one of its key.                              *)
Existing == \A m \in Copies : m \subseteq 1..enqueued

LEMMA ExistingStep == Typed /\ Existing /\ [Next]_vars => Existing'
<1> SUFFICES ASSUME Typed, Existing, [Next]_vars PROVE Existing'
  OBVIOUS
<1>1. ASSUME NEW deferred \in BOOLEAN, Enqueue(deferred) PROVE Existing'
  <2>1. /\ enqueued + 1 \in Ops /\ enqueued' = enqueued + 1 /\ enqueued \in Nat
        /\ Copies' \subseteq Copies \cup {{}, Enlarged}
    BY <1>1, EnqueueFlow, LastAssumption DEF Typed, TypeOK
  <2>2. 1..enqueued \subseteq 1..(enqueued + 1) /\ enqueued + 1 \in 1..(enqueued + 1)
    BY <2>1
  <2>3. Members(mem) \subseteq 1..enqueued
    BY CopiesHave DEF Existing
  <2>4. Enlarged \subseteq 1..(enqueued + 1)
    BY <2>2, <2>3 DEF Enlarged
  <2>5. \A m \in Copies' : m \subseteq 1..(enqueued + 1)
    BY <2>1, <2>2, <2>4 DEF Existing
  <2> QED
    BY <2>1, <2>5 DEF Existing
<1>2. ASSUME NEW D, Flow(D) PROVE Existing'
  BY <1>2 DEF Existing, Flow, Follows
<1> QED
  BY <1>1, <1>2, FlowStep

LEMMA OneKeyStep == Typed /\ Existing /\ OnePerKey /\ [Next]_vars => OnePerKey'
<1> SUFFICES ASSUME Typed, Existing, OnePerKey, [Next]_vars PROVE OnePerKey'
  OBVIOUS
<1>1. ASSUME NEW deferred \in BOOLEAN, Enqueue(deferred) PROVE OnePerKey'
  <2>1. Copies' \subseteq Copies \cup {{}, Enlarged}
    BY <1>1, EnqueueFlow
  <2>2. Members(mem) \in Copies /\ Members(mem) \subseteq 1..enqueued
    BY CopiesHave DEF Existing
  <2>3. \A o, p \in Enlarged : Key[o] = Key[p] => o = p
    BY <2>2 DEF Enlarged, Replaced, OnePerKey
  <2> QED
    BY <2>1, <2>3 DEF OnePerKey
<1>2. ASSUME NEW D, Flow(D) PROVE OnePerKey'
  BY <1>2 DEF OnePerKey, Flow, Follows
<1> QED
  BY <1>1, <1>2, FlowStep

LEMMA CopiesInit == Init => Copies = {{}}
BY EmptyQueue DEF Init, Copies, Idle, Holding

(* dedupeQueue keeps one operation of each key in every copy of the queue,   *)
(* however its copies overwrite each other.                                  *)
THEOREM OneKeyTheorem == Spec => []OnePerKey
<1>1. Init => Typed /\ Existing /\ OnePerKey
  BY TypedInit, CopiesInit DEF Existing, OnePerKey
<1>2. Typed /\ Existing /\ OnePerKey /\ [Next]_vars => (Typed /\ Existing /\ OnePerKey)'
  BY TypedStep, ExistingStep, OneKeyStep
<1> QED
  BY <1>1, <1>2, PTL DEF Spec

-----------------------------------------------------------------------------
(* No operation is lost by the traffic between the copies.                   *)
LEMMA EverywhereStep == Typed /\ UnexposedIsEverywhere /\ [Next]_vars => UnexposedIsEverywhere'
<1> SUFFICES ASSUME Typed, UnexposedIsEverywhere, [Next]_vars,
                    NEW o \in 1..enqueued', o \notin exposed' \cup delivered' \cup superseded',
                    NEW m \in Copies'
             PROVE  o \in m
  BY DEF UnexposedIsEverywhere
<1>1. ASSUME NEW deferred \in BOOLEAN, Enqueue(deferred) PROVE o \in m
  <2>1. /\ enqueued' = enqueued + 1 /\ enqueued \in Nat
        /\ superseded' = superseded \cup Replaced /\ delivered' = delivered
        /\ exposed \subseteq exposed'
        /\ \/ exposed' = exposed \cup {enqueued + 1} /\ Copies' \subseteq Copies \cup {Enlarged}
           \/ Copies' = {Enlarged}
    BY <1>1, EnqueueFlow, LastAssumption DEF Typed, TypeOK
  <2>2. CASE o = enqueued + 1
    BY <2>1, <2>2 DEF Enlarged
  <2>3. CASE o # enqueued + 1
    <3>1. o \in 1..enqueued
      BY <2>1, <2>3
    <3>2. \A n \in Copies : o \in n
      BY <2>1, <3>1 DEF UnexposedIsEverywhere
    <3>3. o \in Members(mem) /\ o \notin Replaced
      BY <3>2, <2>1, CopiesHave
    <3> QED
      BY <2>1, <3>2, <3>3 DEF Enlarged
  <2> QED
    BY <2>2, <2>3
<1>2. ASSUME NEW D, Flow(D) PROVE o \in m
  <2>1. /\ o \in 1..enqueued /\ o \notin exposed \cup delivered \cup superseded /\ o \notin D
        /\ ~(1..enqueued \subseteq exposed')
    BY <1>2 DEF Flow
  <2>2. PICK n \in Copies : n \ D \subseteq m
    BY <1>2, <2>1 DEF Flow, Follows
  <2>3. o \in n
    BY <2>1 DEF UnexposedIsEverywhere
  <2> QED
    BY <2>1, <2>2, <2>3
<1> QED
  BY <1>1, <1>2, FlowStep

(* An operation that was not enqueued while a cycle held a copy, nor wiped   *)
(* by a deferred enqueue or purged, stays in every copy until it is          *)
(* delivered or superseded: overlapping cycles, reloads, retries and stale   *)
(* writes lose nothing else.                                                 *)
THEOREM EverywhereTheorem == Spec => []UnexposedIsEverywhere
<1>1. Init => Typed /\ UnexposedIsEverywhere
  <2>1. Init => 1..enqueued = {}
    BY DEF Init
  <2> QED
    BY <2>1, TypedInit DEF UnexposedIsEverywhere
<1>2. Typed /\ UnexposedIsEverywhere /\ [Next]_vars => (Typed /\ UnexposedIsEverywhere)'
  BY TypedStep, EverywhereStep
<1> QED
  BY <1>1, <1>2, PTL DEF Spec

-----------------------------------------------------------------------------
(* Dependencies first.  A copy is closed under the dependencies that are not *)
(* applied or superseded; an operation is sent from a copy that holds none.  *)
Closed == \A m \in Copies : \A o \in m : deps[o] \subseteq m \cup delivered \cup superseded

Irreflexive == \A o \in Ops : o \notin deps[o]

Ready ==
    \A c \in Cycles :
        cycle[c].pc \in {"marked", "send"} => deps[Op(c)] \subseteq delivered \cup superseded

LEMMA IrreflexiveStep == Typed /\ Irreflexive /\ [Next]_vars => Irreflexive'
<1> SUFFICES ASSUME Typed, Irreflexive, [Next]_vars PROVE Irreflexive'
  OBVIOUS
<1>1. ASSUME NEW deferred \in BOOLEAN, Enqueue(deferred) PROVE Irreflexive'
  <2>1. /\ enqueued + 1 \in Ops
        /\ deps' = [deps EXCEPT ![enqueued + 1] = Needs[enqueued + 1] \cap Members(mem)]
    BY <1>1, EnqueueFlow
  <2>2. enqueued + 1 \notin Needs[enqueued + 1]
    <3>1. ASSUME enqueued + 1 \in Needs[enqueued + 1] PROVE FALSE
      <4>1. enqueued + 1 < enqueued + 1
        BY <2>1, <3>1, NeedsAssumption
      <4> QED
        BY <4>1 DEF Typed, TypeOK
    <3> QED
      BY <3>1
  <2> QED
    BY <2>1, <2>2 DEF Irreflexive, Typed, TypeOK
<1>2. ASSUME NEW D, Flow(D) PROVE Irreflexive'
  BY <1>2 DEF Flow, Irreflexive
<1> QED
  BY <1>1, <1>2, FlowStep

LEMMA ClosedStep == Typed /\ Existing /\ Closed /\ [Next]_vars => Closed'
<1> SUFFICES ASSUME Typed, Existing, Closed, [Next]_vars PROVE Closed'
  OBVIOUS
<1>1. ASSUME NEW deferred \in BOOLEAN, Enqueue(deferred) PROVE Closed'
  <2> DEFINE last == enqueued + 1
  <2>1. /\ last \in Ops /\ enqueued \in Nat
        /\ deps' = [deps EXCEPT ![last] = Needs[last] \cap Members(mem)]
        /\ superseded' = superseded \cup Replaced /\ delivered' = delivered
        /\ Copies' \subseteq Copies \cup {{}, Enlarged}
    BY <1>1, EnqueueFlow, LastAssumption DEF Typed, TypeOK
  <2>2. \A m \in Copies : m \subseteq Ops /\ last \notin m
    BY <2>1, LastAssumption DEF Existing, Typed, TypeOK, Ops
  <2>3. deps'[last] \subseteq Members(mem) /\ \A o \in Ops \ {last} : deps'[o] = deps[o]
    BY <2>1 DEF Typed, TypeOK
  <2>4. \A m \in Copies : \A o \in m : deps'[o] \subseteq m \cup delivered' \cup superseded'
    BY <2>1, <2>2, <2>3 DEF Closed
  <2>5. \A o \in Enlarged : deps'[o] \subseteq Enlarged \cup delivered' \cup superseded'
    <3>1. Members(mem) \in Copies
      BY CopiesHave
    <3>2. Members(mem) \subseteq Enlarged \cup superseded'
      BY <2>1 DEF Enlarged
    <3> QED
      BY <3>1, <3>2, <2>3, <2>4 DEF Enlarged
  <2> QED
    BY <2>1, <2>4, <2>5 DEF Closed
<1>2. ASSUME NEW D, Flow(D) PROVE Closed'
  <2> SUFFICES ASSUME NEW m \in Copies', NEW o \in m
               PROVE  deps'[o] \subseteq m \cup delivered' \cup superseded'
    BY DEF Closed
  <2>1. deps' = deps /\ superseded' = superseded /\ delivered' = delivered \cup D
    BY <1>2 DEF Flow
  <2>2. PICK n \in Copies : n \ D \subseteq m /\ m \subseteq n
    BY <1>2 DEF Flow, Follows
  <2>3. deps[o] \subseteq n \cup delivered \cup superseded
    BY <2>2 DEF Closed
  <2> QED
    BY <2>1, <2>2, <2>3
<1> QED
  BY <1>1, <1>2, FlowStep

(* The operation a cycle sends after a step is the one it sent before, or    *)
(* one that Mark has just taken.                                             *)
LEMMA SendsBefore ==
    ASSUME Typed, [Next]_vars, NEW b \in Cycles, cycle'[b].pc \in {"marked", "send"}
    PROVE  \/ cycle[b].pc \in {"marked", "send"} /\ Op(b)' = Op(b)
           \/ Mark(b)
<1> USE DEF Typed
<1>1. CASE cycle' = cycle
  BY <1>1 DEF Op
<1>2. CASE Reload
  BY <1>2 DEF Reload, Idle
<1>3. ASSUME NEW c \in Cycles, Start(c) \/ Advance(c) \/ Trouble(c), b # c
      PROVE  cycle[b].pc \in {"marked", "send"} /\ Op(b)' = Op(b)
  <2>1. cycle'[b] = cycle[b]
    BY <1>3 DEF TypeOK, Start, Advance, Trouble, ReadLive, PublishLive, Skip, Load, Enter,
           Authenticate, AuthenticateFails, Stop, Mark, Show, Succeed, Refuse, Expire,
           WriteBack, Settle, Goto, Take, Leave
  <2> QED
    BY <2>1 DEF Op
<1>4. CASE Start(b) \/ ReadLive(b) \/ PublishLive(b) \/ Load(b) \/ Authenticate(b)
  <2>1. PICK pc \in {"reading", "read", "check", "loaded", "pick"} : cycle'[b].pc = pc
    <3>1. CASE Start(b) \/ Authenticate(b)
      BY <3>1, GotoEffect DEF Start, Authenticate, Pc
    <3>2. CASE ReadLive(b) \/ Load(b)
      BY <3>2, TakeEffect DEF ReadLive, Load, Pc, TypeOK
    <3>3. CASE PublishLive(b)
      BY <3>3, TakeEffect, EmptyQueue DEF PublishLive, Pc
    <3> QED
      BY <1>4, <3>1, <3>2, <3>3
  <2> QED
    BY <2>1
<1>5. CASE Skip(b) \/ AuthenticateFails(b) \/ Stop(b) \/ Expire(b)
  <2>1. cycle'[b].pc = "idle"
    BY <1>5, LeaveEffect DEF Skip, AuthenticateFails, Stop, Expire
  <2> QED
    BY <2>1
<1>6. CASE Enter(b)
  <2>1. cycle'[b].pc \in {"idle", "auth"}
    BY <1>6, LeaveEffect, GotoEffect DEF Enter, Pc
  <2> QED
    BY <2>1
<1>7. CASE Show(b)
  BY <1>7, GotoEffect DEF Show, At, Pc
<1>8. CASE Succeed(b) \/ Refuse(b)
  <2>1. cycle'[b].pc \in {"removed", "returned"}
    BY <1>8, SucceedEffect, RefuseEffect
  <2> QED
    BY <2>1
<1>9. CASE WriteBack(b)
  <2>1. PICK pc \in {"shifted", "failed"} : Goto(b, pc)
    BY <1>9 DEF WriteBack
  <2>2. cycle'[b].pc = pc
    BY <2>1, GotoEffect DEF Pc
  <2> QED
    BY <2>2
<1>10. CASE Settle(b)
  <2>1. cycle'[b].pc \in {"pick", "idle"}
    BY <1>10, SettleEffect, LeaveEffect DEF Settle
  <2> QED
    BY <2>1
<1>11. cycle' = cycle \/ Reload \/ \E c \in Cycles : Start(c) \/ Advance(c) \/ Trouble(c)
  BY DEF Next, vars, Enqueue, PersistEffect, Logout, Login, Elapse
<1> QED
  BY <1>1, <1>2, <1>3, <1>4, <1>5, <1>6, <1>7, <1>8, <1>9, <1>10, <1>11 DEF Advance, Trouble

Invariant == Typed /\ Existing /\ Closed /\ Irreflexive /\ Ready

LEMMA ReadyStep == Invariant /\ [Next]_vars => Ready'
<1> SUFFICES ASSUME Invariant, [Next]_vars,
                    NEW b \in Cycles, cycle'[b].pc \in {"marked", "send"}
             PROVE  deps'[Op(b)'] \subseteq delivered' \cup superseded'
  BY DEF Ready
<1> USE DEF Invariant
<1>1. ASSUME NEW deferred \in BOOLEAN, Enqueue(deferred)
      PROVE  deps'[Op(b)'] \subseteq delivered' \cup superseded'
  <2>1. /\ cycle' = cycle /\ delivered' = delivered /\ enqueued \in Nat
        /\ deps' = [deps EXCEPT ![enqueued + 1] = Needs[enqueued + 1] \cap Members(mem)]
        /\ superseded' = superseded \cup Replaced
    BY <1>1, EnqueueFlow, LastAssumption DEF Typed, TypeOK
  <2>2. Op(b)' = Op(b) /\ cycle[b].pc \in {"marked", "send"}
    BY <2>1 DEF Op
  <2>3. Op(b) \in Members(Copy(b)) /\ Members(Copy(b)) \in Copies
    BY <2>2, CopiesHave DEF Typed, InHand, Holding
  <2>4. Op(b) \in 1..enqueued
    BY <2>3 DEF Existing
  <2>5. deps'[Op(b)] = deps[Op(b)]
    BY <2>1, <2>4 DEF Typed, TypeOK
  <2>6. deps[Op(b)] \subseteq delivered \cup superseded
    BY <2>2 DEF Ready
  <2> QED
    BY <2>1, <2>2, <2>5, <2>6
<1>2. ASSUME NEW D, Flow(D), cycle[b].pc \in {"marked", "send"}, Op(b)' = Op(b)
      PROVE  deps'[Op(b)'] \subseteq delivered' \cup superseded'
  <2>1. deps[Op(b)] \subseteq delivered \cup superseded
    BY <1>2 DEF Ready
  <2> QED
    BY <2>1, <1>2 DEF Flow
<1>3. ASSUME Mark(b)
      PROVE  deps'[Op(b)'] \subseteq delivered' \cup superseded'
  <2>1. PICK o \in Members(Copy(b)) : o = Op(b)' /\ BlockedBy(Copy(b), o) = {}
    BY <1>3, MarkEffect DEF Typed
  <2>2. Members(Copy(b)) \in Copies /\ o \in Ops
    BY <1>3, CopiesHave DEF Mark, At, Holding, Members
  <2>3. deps[o] \subseteq Members(Copy(b)) \cup delivered \cup superseded /\ o \notin deps[o]
    BY <2>1, <2>2 DEF Closed, Irreflexive
  <2>4. deps[o] \subseteq delivered \cup superseded
    BY <2>1, <2>3 DEF BlockedBy
  <2>5. UNCHANGED <<deps, delivered, superseded>>
    BY <1>3 DEF Mark
  <2> QED
    BY <2>1, <2>4, <2>5
<1> QED
  BY <1>1, <1>2, <1>3, FlowStep, SendsBefore

LEMMA InvariantInit == Init => Invariant
<1> SUFFICES ASSUME Init PROVE Invariant
  OBVIOUS
<1>1. Typed /\ Copies = {{}}
  BY TypedInit, CopiesInit
<1>2. Existing /\ Closed
  BY <1>1 DEF Existing, Closed
<1>3. Irreflexive
  BY DEF Init, Irreflexive
<1>4. Ready
  BY DEF Init, Ready, Idle
<1> QED
  BY <1>1, <1>2, <1>3, <1>4 DEF Invariant

LEMMA InvariantStep == Invariant /\ [Next]_vars => Invariant'
<1> SUFFICES ASSUME Invariant, [Next]_vars PROVE Invariant'
  OBVIOUS
<1>1. Typed'
  BY TypedStep DEF Invariant
<1>2. Existing' /\ Closed' /\ Irreflexive'
  BY ExistingStep, ClosedStep, IrreflexiveStep DEF Invariant
<1>3. Ready'
  BY ReadyStep
<1> QED
  BY <1>1, <1>2, <1>3 DEF Invariant

(* Every copy of the queue is closed under the dependencies that are neither *)
(* applied nor superseded, and what a cycle sends has no other.              *)
THEOREM ClosedTheorem == Spec => []DependenciesClosed
<1>1. Invariant => DependenciesClosed
  BY DEF Invariant, Typed, Existing, Closed, Irreflexive, Ready, DependenciesClosed
<1> QED
  BY <1>1, InvariantInit, InvariantStep, PTL DEF Spec

(* The dependency order of resolveDependencies survives stale copies,        *)
(* overlapping cycles, lost operations and reloads: an operation is applied  *)
(* only after what it was recorded to depend on is applied or superseded.    *)
THEOREM DependenciesFirstTheorem == Spec => DependenciesFirst
<1>1. Invariant /\ [Next]_vars =>
        [\A o \in delivered' \ delivered : deps[o] \subseteq delivered \cup superseded]_vars
  <2> SUFFICES ASSUME Invariant, [Next]_vars, NEW o \in delivered' \ delivered
               PROVE  deps[o] \subseteq delivered \cup superseded
    OBVIOUS
  <2>1. ~ \E deferred \in BOOLEAN : Enqueue(deferred)
    BY DEF Enqueue
  <2>2. PICK D : Flow(D)
    BY <2>1, FlowStep DEF Invariant
  <2>3. o \in Sent
    BY <2>2 DEF Flow
  <2> QED
    BY <2>3 DEF Sent, Invariant, Ready
<1> QED
  BY <1>1, InvariantInit, InvariantStep, PTL DEF Spec, DependenciesFirst
=============================================================================
