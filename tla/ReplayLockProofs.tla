--------------------------- MODULE ReplayLockProofs ---------------------------
(***************************************************************************)
(* Proofs about the replay lock, for any number of tabs, of cycles in each  *)
(* of them and for any time to live.                                        *)
(***************************************************************************)
EXTENDS ReplayLock, TLAPS

Steps == {"idle", "holding"} \cup Calling

LEMMA TypeInit == Init => TypeOK
<1> SUFFICES ASSUME Init PROVE TypeOK
  OBVIOUS
<1>1. None \in Lock
  BY TTLAssumption DEF None, Lock
<1>2. lock \in Lock /\ saw \in [Cycles -> Lock]
  BY <1>1 DEF Init
<1>3. pc \in [Cycles -> Steps] /\ lease \in [Cycles -> 0..TTL]
  BY TTLAssumption DEF Init, Steps
<1>4. closes \in 0..MaxCloses
  BY MaxClosesAssumption DEF Init
<1>5. shared \in BOOLEAN /\ raced \in BOOLEAN
  BY Zenon DEF Init
<1> QED
  BY <1>2, <1>3, <1>4, <1>5 DEF TypeOK, Steps

LEMMA TokenType ==
    ASSUME TypeOK, NEW c \in Cycles, NEW token \in SUBSET Cycles
    PROVE  [set |-> TRUE, token |-> token, left |-> TTL] \in Lock
BY TTLAssumption DEF Lock

LEMMA TypeStep == TypeOK /\ [Next]_vars => TypeOK'
<1> SUFFICES ASSUME TypeOK, [Next]_vars PROVE TypeOK'
  OBVIOUS
<1> USE DEF TypeOK
<1>1. CASE UNCHANGED vars
  BY <1>1 DEF vars
<1>2. ASSUME NEW c \in Cycles, ReadLock(c) \/ ReadBeat(c) PROVE TypeOK'
  BY <1>2 DEF ReadLock, ReadBeat, Goto, Calling
<1>3. ASSUME NEW c \in Cycles, WriteLock(c) PROVE TypeOK'
  <2>1. PICK token \in SUBSET Cycles : lock' = [set |-> TRUE, token |-> token, left |-> TTL]
    BY <1>3 DEF WriteLock, Lock
  <2>2. lock' \in Lock
    BY <2>1, TokenType
  <2>3. saw' \in [Cycles -> Lock]
    BY <1>3, TTLAssumption DEF WriteLock, Forget, None, Lock
  <2> QED
    BY <1>3, <2>2, <2>3 DEF WriteLock, Goto, Calling
<1>4. ASSUME NEW c \in Cycles, Confirm(c) PROVE TypeOK'
  BY <1>4, TTLAssumption DEF Confirm, Goto, Lease, Calling
<1>5. ASSUME NEW c \in Cycles, WriteBeat(c) PROVE TypeOK'
  <2>1. lock' \in Lock
    BY <1>5, TTLAssumption DEF WriteBeat, Lock
  <2>2. saw' \in [Cycles -> Lock] /\ lease' \in [Cycles -> 0..TTL]
    BY <1>5, TTLAssumption DEF WriteBeat, Forget, Lease, None, Lock
  <2> QED
    BY <1>5, <2>1, <2>2 DEF WriteBeat, Goto, Calling
<1>6. ASSUME NEW c \in Cycles, ReadRelease(c) PROVE TypeOK'
  BY <1>6, TTLAssumption DEF ReadRelease, Goto, Drop, Calling
<1>7. ASSUME NEW c \in Cycles, RemoveLock(c) PROVE TypeOK'
  <2>1. lock' \in Lock /\ lease' \in [Cycles -> 0..TTL]
    BY <1>7, TTLAssumption DEF RemoveLock, Drop, None, Lock
  <2> QED
    BY <1>7, <2>1 DEF RemoveLock, Goto, Calling
<1>8. ASSUME NEW t \in Tabs, Close(t) PROVE TypeOK'
  <2>1. lock' \in Lock
    BY <1>8 DEF Close, Lock
  <2>2. saw' \in [Cycles -> Lock] /\ lease' \in [Cycles -> 0..TTL]
    BY <1>8, TTLAssumption DEF Close, None, Lock
  <2>3. pc' \in [Cycles -> Steps] /\ closes' \in 0..MaxCloses
    BY <1>8, MaxClosesAssumption DEF Close, Steps
  <2> QED
    BY <1>8, <2>1, <2>2, <2>3 DEF Close, Steps
<1>9. CASE Tick
  <2>1. lock' \in Lock
    BY <1>9, TTLAssumption DEF Tick, Lock
  <2>2. lease' \in [Cycles -> 0..TTL]
    BY <1>9, TTLAssumption DEF Tick
  <2> QED
    BY <1>9, <2>1, <2>2 DEF Tick
<1> QED
  BY <1>1, <1>2, <1>3, <1>4, <1>5, <1>6, <1>7, <1>8, <1>9 DEF Next, Call

(* Every variable keeps its type; no lease is ever longer than the TTL. *)
THEOREM TypeCorrect == Spec => []TypeOK
BY TypeInit, TypeStep, PTL DEF Spec

-----------------------------------------------------------------------------
(* A tab runs one call at a time, and all tabs together do when isolated.    *)
SerialCalls ==
    \A c, d \in Cycles :
        c # d /\ pc[c] \in Calling /\ pc[d] \in Calling => TabOf[c] # TabOf[d] /\ ~Isolated

LEMMA SerialStep == TypeOK /\ SerialCalls /\ [Next]_vars => SerialCalls'
<1> SUFFICES ASSUME TypeOK, SerialCalls, [Next]_vars PROVE SerialCalls'
  OBVIOUS
<1>1. ASSUME NEW c \in Cycles, NEW step, Goto(c, step), step \in Calling => Free(c) \/ pc[c] \in Calling
      PROVE  SerialCalls'
  <2>1. \A d \in Cycles \ {c} : pc'[d] = pc[d]
    BY <1>1 DEF Goto, TypeOK
  <2>2. pc'[c] = step
    BY <1>1 DEF Goto, TypeOK
  <2> QED
    BY <1>1, <2>1, <2>2 DEF SerialCalls, Free
<1>2. ASSUME NEW c \in Cycles, ReadLock(c) \/ ReadBeat(c) \/ ReadRelease(c) PROVE SerialCalls'
  BY <1>1, <1>2 DEF ReadLock, ReadBeat, ReadRelease, Calling
<1>3. ASSUME NEW c \in Cycles, Call(c) PROVE SerialCalls'
  <2>1. pc[c] \in Calling
    BY <1>3 DEF Call, WriteLock, Confirm, WriteBeat, RemoveLock, Calling
  <2>2. PICK step : Goto(c, step)
    BY <1>3 DEF Call, WriteLock, Confirm, WriteBeat, RemoveLock
  <2> QED
    BY <1>1, <2>1, <2>2
<1>4. ASSUME NEW t \in Tabs, Close(t) PROVE SerialCalls'
  <2>1. \A c \in Cycles : pc'[c] \in Calling => pc[c] \in Calling
    BY <1>4 DEF Close, Calling
  <2> QED
    BY <2>1 DEF SerialCalls
<1>5. CASE Tick \/ UNCHANGED vars
  BY <1>5 DEF Tick, vars, SerialCalls
<1> QED
  BY <1>2, <1>3, <1>4, <1>5 DEF Next

(* A token is of one tab, and a heartbeat writes back the token it has read. *)
Tokens ==
    /\ \A c, d \in lock.token : TabOf[c] = TabOf[d]
    /\ \A b \in Cycles : \A c, d \in saw[b].token : TabOf[c] = TabOf[d]
    /\ \A c \in Cycles : pc[c] = "beating" => c \in saw[c].token
    /\ \A c \in Cycles : pc[c] = "beating" /\ c \in lock.token => saw[c].token = lock.token
    /\ \A c \in Cycles : pc[c] = "confirming" /\ c \in lock.token => lock.left = TTL

(* Unless a lock was shared, one cycle of a tab at most is past acquire.     *)
Active(c) == pc[c] \in {"confirming", "holding", "beating", "removing"}

OneActive ==
    shared \/ \A c, d \in Cycles : TabOf[c] = TabOf[d] /\ Active(c) /\ Active(d) => c = d

LEMMA OneActiveStep == TypeOK /\ SerialCalls /\ OneActive /\ [Next]_vars => OneActive'
<1> SUFFICES ASSUME TypeOK, SerialCalls, OneActive, [Next]_vars PROVE OneActive'
  OBVIOUS
<1>1. ASSUME shared' = shared, \A c \in Cycles : Active(c)' => Active(c) PROVE OneActive'
  BY <1>1 DEF OneActive
<1>2. ASSUME NEW c \in Cycles, NEW step, Goto(c, step), shared' = shared,
             step \notin {"confirming", "holding", "beating", "removing"} \/ Active(c)
      PROVE  OneActive'
  <2>1. \A d \in Cycles : Active(d)' => Active(d)
    BY <1>2 DEF Goto, Active, TypeOK
  <2> QED
    BY <1>1, <1>2, <2>1
<1>3. ASSUME NEW c \in Cycles, ReadLock(c) PROVE OneActive'
  BY <1>2, <1>3 DEF ReadLock
<1>4. ASSUME NEW c \in Cycles, WriteLock(c) PROVE OneActive'
  <2>1. /\ pc'[c] = "confirming" /\ pc[c] = "writing"
        /\ \A d \in Cycles \ {c} : pc'[d] = pc[d]
        /\ shared' = (shared \/ \E d \in Siblings(c) \ {c} : pc[d] = "holding")
    BY <1>4 DEF WriteLock, Goto, TypeOK
  <2>2. ASSUME NEW d \in Cycles, d # c, TabOf[d] = TabOf[c], Active(d) PROVE shared'
    <3>1. pc[d] \notin Calling
      BY <2>1, <2>2 DEF SerialCalls, Calling
    <3>2. pc[d] = "holding"
      BY <2>2, <3>1 DEF Active, Calling
    <3> QED
      BY <2>1, <2>2, <3>2 DEF Siblings
  <2> QED
    BY <2>1, <2>2 DEF OneActive, Active
<1>5. ASSUME NEW c \in Cycles, Confirm(c) \/ ReadBeat(c) \/ WriteBeat(c) \/ ReadRelease(c) \/ RemoveLock(c)
      PROVE  OneActive'
  <2>1. Active(c) /\ shared' = shared /\ \E step : Goto(c, step)
    BY <1>5 DEF Confirm, ReadBeat, WriteBeat, ReadRelease, RemoveLock, Active
  <2> QED
    BY <1>2, <2>1
<1>6. ASSUME NEW t \in Tabs, Close(t) PROVE OneActive'
  BY <1>1, <1>6 DEF Close, Active
<1>7. CASE Tick \/ UNCHANGED vars
  BY <1>1, <1>7 DEF Tick, vars, Active
<1> QED
  BY <1>3, <1>4, <1>5, <1>6, <1>7 DEF Next, Call

LEMMA TokensStep == TypeOK /\ SerialCalls /\ Tokens /\ [Next]_vars => Tokens'
<1> SUFFICES ASSUME TypeOK, SerialCalls, Tokens, [Next]_vars PROVE Tokens'
  OBVIOUS
<1>1. ASSUME NEW c \in Cycles, ReadLock(c) PROVE Tokens'
  BY <1>1 DEF ReadLock, Goto, Tokens, TypeOK
<1>2. ASSUME NEW c \in Cycles, WriteLock(c) PROVE Tokens'
  <2>1. PICK token \in SUBSET Cycles :
          /\ lock' = [set |-> TRUE, token |-> token, left |-> TTL]
          /\ \A d \in token : TabOf[d] = TabOf[c]
    <3>1. saw[c] \in Lock /\ {c} \subseteq Siblings(c) /\ Siblings(c) \subseteq Cycles
      BY DEF TypeOK, Siblings
    <3>2. PICK token : /\ token \in {{c}} \cup (IF Owned(c, saw[c]) /\ saw[c].left = TTL THEN {saw[c].token \cup {c}} ELSE {})
                       /\ lock' = [set |-> TRUE, token |-> token, left |-> TTL]
      BY <1>2 DEF WriteLock
    <3>3. token = {c} \/ (Owned(c, saw[c]) /\ token = saw[c].token \cup {c})
      BY <3>2
    <3>4. token \subseteq Siblings(c)
      BY <3>1, <3>3 DEF Owned
    <3> QED
      BY <3>1, <3>2, <3>4 DEF Siblings
  <2>2. /\ pc[c] = "writing" /\ pc'[c] = "confirming"
        /\ \A d \in Cycles \ {c} : pc'[d] = pc[d] /\ saw'[d] = saw[d]
        /\ saw'[c] = None
    BY <1>2 DEF WriteLock, Goto, Forget, TypeOK
  <2>3. \A d \in Cycles : pc'[d] = "beating" => d \notin lock'.token
    BY <2>1, <2>2 DEF SerialCalls, Calling
  <2> QED
    BY <2>1, <2>2, <2>3 DEF Tokens, None
<1>3. ASSUME NEW c \in Cycles, Confirm(c) \/ ReadRelease(c) PROVE Tokens'
  <2>1. /\ \A d \in Cycles : pc'[d] \in {"beating", "confirming"} => pc'[d] = pc[d]
        /\ lock' = lock /\ saw' = saw
    BY <1>3 DEF Confirm, ReadRelease, Goto, TypeOK
  <2> QED
    BY <2>1 DEF Tokens
<1>4. ASSUME NEW c \in Cycles, ReadBeat(c) PROVE Tokens'
  BY <1>4 DEF ReadBeat, Goto, Tokens, TypeOK
<1>5. ASSUME NEW c \in Cycles, WriteBeat(c) PROVE Tokens'
  <2>1. /\ lock'.token = saw[c].token /\ lock'.left = TTL
        /\ pc[c] = "beating" /\ pc'[c] = "holding"
        /\ \A d \in Cycles \ {c} : pc'[d] = pc[d] /\ saw'[d] = saw[d]
        /\ saw'[c] = None
    BY <1>5 DEF WriteBeat, Goto, Forget, TypeOK, Lock
  <2>2. \A d \in Cycles : pc'[d] = "beating" => d \notin lock'.token
    BY <2>1 DEF SerialCalls, Calling, Tokens
  <2> QED
    BY <2>1, <2>2 DEF Tokens, None
<1>6. ASSUME NEW c \in Cycles, RemoveLock(c) PROVE Tokens'
  <2>1. /\ lock'.token = {} /\ saw' = saw
        /\ \A d \in Cycles : pc'[d] = "beating" => pc[d] = "beating"
    BY <1>6 DEF RemoveLock, Goto, None, TypeOK
  <2> QED
    BY <2>1 DEF Tokens
<1>7. ASSUME NEW t \in Tabs, Close(t) PROVE Tokens'
  <2>1. /\ lock'.token = {c \in lock.token : TabOf[c] # t} /\ lock'.left = lock.left
        /\ \A c \in Cycles : /\ pc'[c] \in {"beating", "confirming"} => pc'[c] = pc[c] /\ TabOf[c] # t
                             /\ saw'[c] = IF TabOf[c] = t THEN None ELSE saw[c]
    BY <1>7 DEF Close, TypeOK, Lock
  <2>2. ASSUME NEW c \in Cycles, pc'[c] = "beating", c \in lock'.token PROVE saw'[c].token = lock'.token
    <3>1. lock'.token = lock.token
      BY <2>1, <2>2 DEF Tokens
    <3> QED
      BY <2>1, <2>2, <3>1 DEF Tokens
  <2> QED
    BY <2>1, <2>2 DEF Tokens, None
<1>8. CASE Tick
  BY <1>8 DEF Tick, Tokens, Calling, TypeOK, Lock
<1>9. CASE UNCHANGED vars
  BY <1>9 DEF vars, Tokens
<1> QED
  BY <1>1, <1>2, <1>3, <1>4, <1>5, <1>6, <1>7, <1>8, <1>9 DEF Next, Call

(* What a cycle that replays within its lease may count on. *)
Held ==
    shared \/ raced \/ \A c \in Cycles : Leased(c) => c \in lock.token /\ lease[c] <= lock.left

LEMMA HistoryStep == [Next]_vars => (shared => shared') /\ (raced => raced')
<1>1. ASSUME NEW c \in Cycles, ReadLock(c) \/ Confirm(c) \/ ReadBeat(c) \/ ReadRelease(c)
      PROVE  (shared => shared') /\ (raced => raced')
  BY <1>1 DEF ReadLock, Confirm, ReadBeat, ReadRelease
<1>2. ASSUME NEW c \in Cycles, WriteLock(c) PROVE (shared => shared') /\ (raced => raced')
  BY <1>2, Zenon DEF WriteLock
<1>3. ASSUME NEW c \in Cycles, WriteBeat(c) \/ RemoveLock(c) PROVE (shared => shared') /\ (raced => raced')
  <2>1. shared' = shared
    BY <1>3 DEF WriteBeat, RemoveLock
  <2>2. raced => raced'
    BY <1>3, Zenon DEF WriteBeat, RemoveLock
  <2> QED
    BY <2>1, <2>2
<1>4. ASSUME NEW t \in Tabs, Close(t) PROVE (shared => shared') /\ (raced => raced')
  BY <1>4 DEF Close
<1>5. CASE Tick \/ UNCHANGED vars
  BY <1>5 DEF Tick, vars
<1> QED
  BY <1>1, <1>2, <1>3, <1>4, <1>5, Zenon DEF Next, Call

LEMMA HeldStep == TypeOK /\ SerialCalls /\ Tokens /\ OneActive /\ Held /\ [Next]_vars => Held'
<1> SUFFICES ASSUME TypeOK, SerialCalls, Tokens, OneActive, Held, [Next]_vars,
                    ~shared', ~raced',
                    NEW c \in Cycles, Leased(c)'
             PROVE  c \in lock'.token /\ lease'[c] <= lock'.left
  BY DEF Held
<1>0. ~shared /\ ~raced
  BY HistoryStep
<1>1. Leased(c) => c \in lock.token /\ lease[c] <= lock.left
  BY <1>0 DEF Held
<1>2. lock \in Lock /\ lease[c] \in 0..TTL /\ TTL \in Nat /\ lock.left \in 0..TTL
  BY TTLAssumption DEF TypeOK, Lock
<1>3. ASSUME NEW d \in Cycles, ReadLock(d) \/ ReadBeat(d) PROVE c \in lock'.token /\ lease'[c] <= lock'.left
  <2>1. Leased(c)
    BY <1>3 DEF ReadLock, ReadBeat, Goto, Leased, Replaying, TypeOK
  <2> QED
    BY <1>1, <1>3, <2>1 DEF ReadLock, ReadBeat
<1>4. ASSUME NEW d \in Cycles, WriteLock(d) PROVE FALSE
  <2>1. c # d /\ Leased(c) /\ pc[d] = "writing"
    BY <1>4 DEF WriteLock, Goto, Leased, Replaying, TypeOK
  <2>2. Available(d, lock)
    BY <1>4, Zenon DEF WriteLock
  <2>3. TabOf[c] = TabOf[d]
    <3>1. lock.left # 0
      BY <1>1, <1>2, <2>1 DEF Leased
    <3> QED
      BY <1>1, <2>1, <2>2, <3>1 DEF Available, Owned, Siblings
  <2>4. pc[c] = "holding"
    BY <2>1, <2>3 DEF SerialCalls, Leased, Replaying, Calling
  <2> QED
    BY <1>4, <2>1, <2>3, <2>4 DEF WriteLock, Siblings
<1>5. ASSUME NEW d \in Cycles, Confirm(d) PROVE c \in lock'.token /\ lease'[c] <= lock'.left
  <2>1. CASE c = d
    <3>1. d \in lock.token /\ lease'[d] = TTL
      BY <1>5, <2>1 DEF Confirm, Goto, Lease, Leased, Replaying, TypeOK
    <3>2. lock.left = TTL
      BY <1>5, <3>1 DEF Confirm, Tokens
    <3> QED
      BY <1>2, <1>5, <2>1, <3>1, <3>2 DEF Confirm
  <2>2. CASE c # d
    <3>1. Leased(c) /\ lease'[c] = lease[c]
      BY <1>5, <2>2 DEF Confirm, Goto, Lease, Leased, Replaying, TypeOK
    <3> QED
      BY <1>1, <1>5, <3>1 DEF Confirm
  <2> QED
    BY <2>1, <2>2
<1>6. ASSUME NEW d \in Cycles, WriteBeat(d) PROVE c \in lock'.token /\ lease'[c] <= lock'.left
  <2>1. /\ d \in lock.token /\ pc[d] = "beating"
        /\ lock'.token = saw[d].token /\ lock'.left = TTL
    BY <1>6 DEF WriteBeat, TypeOK, Lock
  <2>2. lock'.token = lock.token
    BY <2>1 DEF Tokens
  <2>3. lease'[c] \in 0..TTL /\ (c = d \/ Leased(c))
    BY <1>2, <1>6 DEF WriteBeat, Lease, Goto, Leased, Replaying, TypeOK
  <2> QED
    BY <1>1, <1>2, <2>1, <2>2, <2>3
<1>7. ASSUME NEW d \in Cycles, ReadRelease(d) PROVE c \in lock'.token /\ lease'[c] <= lock'.left
  <2>1. Leased(c) /\ lease'[c] = lease[c]
    BY <1>7 DEF ReadRelease, Goto, Drop, Leased, Replaying, TypeOK
  <2> QED
    BY <1>1, <1>7, <2>1 DEF ReadRelease
<1>8. ASSUME NEW d \in Cycles, RemoveLock(d) PROVE FALSE
  <2>1. d \in lock.token /\ pc[d] = "removing" /\ c # d /\ Leased(c)
    BY <1>8 DEF RemoveLock, Goto, Drop, Leased, Replaying, TypeOK
  <2>2. TabOf[c] = TabOf[d]
    BY <1>1, <2>1 DEF Tokens
  <2>3. Active(c) /\ Active(d)
    BY <2>1 DEF Active, Leased, Replaying
  <2> QED
    BY <1>0, <2>1, <2>2, <2>3 DEF OneActive
<1>9. ASSUME NEW t \in Tabs, Close(t) PROVE c \in lock'.token /\ lease'[c] <= lock'.left
  <2>1. TabOf[c] # t /\ Leased(c) /\ lease'[c] = lease[c]
    BY <1>9 DEF Close, Leased, Replaying, TypeOK
  <2>2. lock'.token = {b \in lock.token : TabOf[b] # t} /\ lock'.left = lock.left
    BY <1>9, <1>2 DEF Close, Lock
  <2> QED
    BY <1>1, <2>1, <2>2
<1>10. CASE Tick
  <2>1. /\ lock'.token = lock.token /\ lock'.left = (IF lock.left > 0 THEN lock.left - 1 ELSE 0)
        /\ lease'[c] = (IF lease[c] > 0 THEN lease[c] - 1 ELSE 0) /\ pc' = pc
    BY <1>10, <1>2 DEF Tick, Lock, TypeOK
  <2>2. Leased(c)
    BY <1>2, <2>1 DEF Leased, Replaying
  <2> QED
    BY <1>1, <1>2, <2>1, <2>2
<1>11. CASE UNCHANGED vars
  BY <1>1, <1>11 DEF vars, Leased, Replaying
<1> QED
  BY <1>3, <1>4, <1>5, <1>6, <1>7, <1>8, <1>9, <1>10, <1>11 DEF Next, Call

-----------------------------------------------------------------------------
LockInv == TypeOK /\ SerialCalls /\ Tokens /\ OneActive /\ Held

LEMMA LockInvariant == Spec => []LockInv
<1>1. Init => LockInv
  BY TypeInit DEF Init, LockInv, SerialCalls, Tokens, OneActive, Held, Active, Leased, Replaying, Calling, None
<1>2. LockInv /\ [Next]_vars => LockInv'
  BY TypeStep, SerialStep, TokensStep, OneActiveStep, HeldStep DEF LockInv
<1> QED
  BY <1>1, <1>2, PTL DEF Spec

(* A cycle whose lease lasts has its token in a record that lasts as long:   *)
(* neither the heartbeats nor the takeovers of other tabs part the two.      *)
THEOREM LeaseTheorem == Spec => []LeaseIsInTheLock
<1>1. LockInv => LeaseIsInTheLock
  BY DEF LockInv, LeaseIsInTheLock, Tokens, Held
<1> QED
  BY <1>1, LockInvariant, PTL

(* Two tabs replay at once, each within its lease, only after a tab was given *)
(* its own lock again or a call acted on a stale record.                     *)
THEOREM OneTabTheorem == Spec => []OneTabOwnsUnlessDisturbed
<1>1. LockInv => OneTabOwnsUnlessDisturbed
  BY DEF LockInv, OneTabOwnsUnlessDisturbed, OneTabOwns, Tokens, Held
<1> QED
  BY <1>1, LockInvariant, PTL

-----------------------------------------------------------------------------
(* What a call has found still stands when it writes.                        *)
FoundStands ==
    Isolated =>
        /\ ~raced
        /\ \A c \in Cycles : pc[c] = "writing" => Available(c, lock)
        /\ \A c \in Cycles : pc[c] \in {"beating", "removing"} => c \in lock.token

LEMMA FoundStep == TypeOK /\ SerialCalls /\ FoundStands /\ [Next]_vars => FoundStands'
<1> SUFFICES ASSUME TypeOK, SerialCalls, FoundStands, [Next]_vars, Isolated PROVE FoundStands'
  BY DEF FoundStands
<1>1. ASSUME NEW c \in Cycles, ReadLock(c) \/ ReadBeat(c) \/ ReadRelease(c) PROVE FoundStands'
  <2>1. lock' = lock /\ raced' = raced
    BY <1>1 DEF ReadLock, ReadBeat, ReadRelease
  <2>2. ASSUME NEW d \in Cycles, pc'[d] # pc[d]
        PROVE  (pc'[d] = "writing" => Available(d, lock)) /\ (pc'[d] \in {"beating", "removing"} => d \in lock.token)
    BY <1>1, <2>2 DEF ReadLock, ReadBeat, ReadRelease, Goto, TypeOK
  <2> QED
    BY <2>1, <2>2 DEF FoundStands, Available, Owned
<1>2. ASSUME NEW c \in Cycles, Call(c) PROVE FoundStands'
  <2>1. pc[c] \in Calling /\ pc'[c] \in {"confirming", "idle", "holding"}
    BY <1>2 DEF Call, WriteLock, Confirm, WriteBeat, RemoveLock, Goto, Calling, TypeOK
  <2>2. \A d \in Cycles \ {c} : pc'[d] = pc[d] /\ pc[d] \notin Calling
    BY <1>2, <2>1 DEF Call, WriteLock, Confirm, WriteBeat, RemoveLock, Goto, TypeOK, SerialCalls
  <2>3. ~raced'
    BY <1>2 DEF Call, WriteLock, Confirm, WriteBeat, RemoveLock, FoundStands
  <2> QED
    BY <2>1, <2>2, <2>3 DEF FoundStands, Calling
<1>3. ASSUME NEW t \in Tabs, Close(t) PROVE FoundStands'
  <2>1. /\ lock'.token = {c \in lock.token : TabOf[c] # t} /\ lock'.left = lock.left /\ raced' = raced
        /\ \A c \in Cycles : pc'[c] # "idle" => pc'[c] = pc[c] /\ TabOf[c] # t
    BY <1>3 DEF Close, TypeOK, Lock
  <2>2. ASSUME NEW c \in Cycles, pc'[c] = "writing" PROVE Available(c, lock)'
    <3>1. TabOf[c] # t /\ Available(c, lock)
      BY <2>1, <2>2 DEF FoundStands
    <3>2. Owned(c, lock) => lock'.token = lock.token
      BY <2>1, <3>1 DEF Owned, Siblings
    <3> QED
      BY <2>1, <3>1, <3>2 DEF Available, Owned, Siblings
  <2> QED
    BY <2>1, <2>2 DEF FoundStands
<1>4. CASE Tick
  BY <1>4 DEF Tick, FoundStands, Calling
<1>5. CASE UNCHANGED vars
  BY <1>5 DEF vars, FoundStands, Available, Owned
<1> QED
  BY <1>1, <1>2, <1>3, <1>4, <1>5 DEF Next

(* When the accesses of a call exclude those of other tabs, no call acts on  *)
(* a stale record: what remains is only the lock a tab shares with itself.   *)
THEOREM IsolationTheorem == Spec => []IsolationPreventsRaces
<1>1. Init => FoundStands
  BY DEF Init, FoundStands
<1>2. LockInv /\ FoundStands /\ [Next]_vars => FoundStands'
  BY FoundStep DEF LockInv
<1>3. FoundStands => IsolationPreventsRaces
  BY DEF FoundStands, IsolationPreventsRaces
<1> QED
  BY <1>1, <1>2, <1>3, LockInvariant, PTL DEF Spec
=============================================================================
