------------------------------ MODULE ReplayLock ------------------------------
(***************************************************************************)
(* The lock in localStorage that elects the tab which replays the offline   *)
(* queue (modules/sync/syncLocks.js, taken by runReplayCycle of             *)
(* replayManager.js).                                                       *)
(*                                                                         *)
(* Each call of acquire, heartbeat and release reads the record and then    *)
(* writes or removes it.  A tab runs one call at a time; another tab may    *)
(* come between the two accesses unless Isolated.  A tab gets its own lock   *)
(* again, and the cycles of one tab overlap.                                *)
(***************************************************************************)
EXTENDS Naturals, FiniteSets

CONSTANTS
    Tabs,           \* the open tabs
    Cycles,         \* the replay cycles of all tabs
    TabOf,          \* the tab of each cycle
    TTL,            \* DEFAULT_TTL_MS, in ticks of the clock
    Isolated,       \* the accesses of one call exclude those of other tabs
    MaxCloses       \* bound: how often a tab is closed or reloaded

ASSUME TabOfAssumption == TabOf \in [Cycles -> Tabs]
ASSUME TTLAssumption == TTL \in Nat \ {0}
ASSUME IsolatedAssumption == Isolated \in BOOLEAN
ASSUME MaxClosesAssumption == MaxCloses \in Nat

VARIABLES
    lock,           \* the record: the cycles that have its token, and the time left
    pc,             \* the step of each cycle
    saw,            \* the record each cycle has read in its present call
    lease,          \* the time left of the last lease each cycle was given
    shared,         \* history: a tab was given the lock its own cycle holds
    raced,          \* history: a call wrote what it would no longer have written
    closes          \* how often a tab was closed

vars == <<lock, pc, saw, lease, shared, raced, closes>>

(* The record.  The cycles of one tab that acquire the lock within one       *)
(* millisecond have the same token; nobody has the token of a closed tab.    *)
Lock == [set : BOOLEAN, token : SUBSET Cycles, left : 0..TTL]

None == [set |-> FALSE, token |-> {}, left |-> 0]

\* The steps at which a cycle is between two accesses of one call.
Calling == {"writing", "confirming", "beating", "removing"}

TypeOK ==
    /\ lock \in Lock
    /\ pc \in [Cycles -> {"idle", "holding"} \cup Calling]
    /\ saw \in [Cycles -> Lock]
    /\ lease \in [Cycles -> 0..TTL]
    /\ shared \in BOOLEAN
    /\ raced \in BOOLEAN
    /\ closes \in 0..MaxCloses

Init ==
    /\ lock = None
    /\ pc = [c \in Cycles |-> "idle"]
    /\ saw = [c \in Cycles |-> None]
    /\ lease = [c \in Cycles |-> 0]
    /\ shared = FALSE
    /\ raced = FALSE
    /\ closes = 0

-----------------------------------------------------------------------------
Siblings(c) == {d \in Cycles : TabOf[d] = TabOf[c]}

(* No call of the tab, nor of any tab when they are isolated, is under way. *)
Free(c) ==
    \A d \in Cycles : pc[d] \in Calling => TabOf[d] # TabOf[c] /\ ~Isolated

Owned(c, record) == record.token # {} /\ record.token \subseteq Siblings(c)

\* Mutant of Available: the time a lock expires is not looked at.
AvailableUnowned(c, record) == Owned(c, record) \/ ~record.set

\* Mutant of Available: an expired lock is tested one tick too early.
AvailableEarly(c, record) == Owned(c, record) \/ record.left <= 1

(* acquire takes a lock of its own tab, an expired one, or none. *)
Available(c, record) == Owned(c, record) \/ record.left = 0

Goto(c, step) == pc' = [pc EXCEPT ![c] = step]

Lease(c) == lease' = [lease EXCEPT ![c] = TTL]

Forget(c) == saw' = [saw EXCEPT ![c] = None]

Drop(c) == lease' = [lease EXCEPT ![c] = 0]

(* acquire: the record is read and found available ... *)
ReadLock(c) ==
    /\ pc[c] = "idle"
    /\ Free(c)
    /\ Available(c, lock)
    /\ saw' = [saw EXCEPT ![c] = lock]
    /\ Goto(c, "writing")
    /\ UNCHANGED <<lock, lease, shared, raced, closes>>

(* ... replaced; the token holds the time, so that it may be the old one ... *)
WriteLock(c) ==
    /\ pc[c] = "writing"
    /\ \E token \in {{c}} \cup
            (IF Owned(c, saw[c]) /\ saw[c].left = TTL THEN {saw[c].token \cup {c}} ELSE {}) :
        lock' = [set |-> TRUE, token |-> token, left |-> TTL]
    /\ Goto(c, "confirming")
    /\ shared' = (shared \/ \E d \in Siblings(c) \ {c} : pc[d] = "holding")
    /\ raced' = (raced \/ ~Available(c, lock))
    /\ Forget(c)
    /\ UNCHANGED <<lease, closes>>

(* ... and read again. *)
Confirm(c) ==
    /\ pc[c] = "confirming"
    /\ IF c \in lock.token THEN Goto(c, "holding") /\ Lease(c) ELSE Goto(c, "idle") /\ UNCHANGED lease
    /\ UNCHANGED <<lock, saw, shared, raced, closes>>

(* heartbeat of a cycle that finds its token, even in an expired record; the *)
(* heartbeat of any other changes nothing, and its cycle goes on.            *)
ReadBeat(c) ==
    /\ pc[c] = "holding"
    /\ Free(c)
    /\ c \in lock.token
    /\ saw' = [saw EXCEPT ![c] = lock]
    /\ Goto(c, "beating")
    /\ UNCHANGED <<lock, lease, shared, raced, closes>>

\* Mutant of WriteBeat: the time is added to what is left.
WriteBeatAdds(c) ==
    /\ pc[c] = "beating"
    /\ lock' = [saw[c] EXCEPT !.left = @ + TTL]
    /\ Lease(c)
    /\ Goto(c, "holding")
    /\ raced' = (raced \/ c \notin lock.token)
    /\ Forget(c)
    /\ UNCHANGED <<shared, closes>>

WriteBeat(c) ==
    /\ pc[c] = "beating"
    /\ lock' = [saw[c] EXCEPT !.left = TTL]
    /\ Lease(c)
    /\ Goto(c, "holding")
    /\ raced' = (raced \/ c \notin lock.token)
    /\ Forget(c)
    /\ UNCHANGED <<shared, closes>>

(* release, when the cycle ends. *)
ReadRelease(c) ==
    /\ pc[c] = "holding"
    /\ Free(c)
    /\ IF c \in lock.token THEN Goto(c, "removing") /\ UNCHANGED lease ELSE Goto(c, "idle") /\ Drop(c)
    /\ UNCHANGED <<lock, saw, shared, raced, closes>>

RemoveLock(c) ==
    /\ pc[c] = "removing"
    /\ lock' = None
    /\ Drop(c)
    /\ Goto(c, "idle")
    /\ raced' = (raced \/ c \notin lock.token)
    /\ UNCHANGED <<saw, shared, closes>>

(* A tab is closed or reloaded: its cycles end without a release, and the    *)
(* owner id of the record belongs to nobody any more.                        *)
Close(t) ==
    /\ closes < MaxCloses
    /\ closes' = closes + 1
    /\ pc' = [c \in Cycles |-> IF TabOf[c] = t THEN "idle" ELSE pc[c]]
    /\ lease' = [c \in Cycles |-> IF TabOf[c] = t THEN 0 ELSE lease[c]]
    /\ saw' = [c \in Cycles |-> IF TabOf[c] = t THEN None ELSE saw[c]]
    /\ lock' = [lock EXCEPT !.token = {c \in @ : TabOf[c] # t}]
    /\ UNCHANGED <<shared, raced>>

(* The clock; a call takes no time. *)
Tick ==
    /\ \A c \in Cycles : pc[c] \notin Calling
    /\ lock' = [lock EXCEPT !.left = IF @ > 0 THEN @ - 1 ELSE 0]
    /\ lease' = [c \in Cycles |-> IF lease[c] > 0 THEN lease[c] - 1 ELSE 0]
    /\ UNCHANGED <<pc, saw, shared, raced, closes>>

Call(c) == WriteLock(c) \/ Confirm(c) \/ WriteBeat(c) \/ RemoveLock(c)

Next ==
    \/ \E c \in Cycles : ReadLock(c) \/ ReadBeat(c) \/ ReadRelease(c) \/ Call(c)
    \/ \E t \in Tabs : Close(t)
    \/ Tick

Spec == Init /\ [][Next]_vars

(* Time passes, a call goes on, every tab keeps starting cycles, and a cycle *)
(* comes to its end (each request of a replay is bounded by its timeout).    *)
Fairness ==
    /\ WF_vars(Tick)
    /\ \A c \in Cycles :
        WF_vars(ReadLock(c)) /\ WF_vars(Call(c)) /\ SF_vars(ReadRelease(c))

FairSpec == Spec /\ Fairness

-----------------------------------------------------------------------------
Replaying(c) == pc[c] \in {"holding", "beating", "removing"}

\* A cycle that replays within the time its last lease gave it.
Leased(c) == Replaying(c) /\ lease[c] > 0

(* The lock prevents different tabs from owning it simultaneously.           *)
OneTabOwns == \A c, d \in Cycles : Leased(c) /\ Leased(d) => TabOf[c] = TabOf[d]

(* It does so unless a tab was given the lock that another of its cycles     *)
(* holds, or a call acted on a record that had changed since it was read.    *)
OneTabOwnsUnlessDisturbed == shared \/ raced \/ OneTabOwns

(* What this rests on: a cycle whose lease lasts has its token in a record    *)
(* that lasts as long, and a token is of one tab.                            *)
LeaseIsInTheLock ==
    /\ \A c, d \in lock.token : TabOf[c] = TabOf[d]
    /\ shared \/ raced \/ \A c \in Cycles : Leased(c) => c \in lock.token /\ lease[c] <= lock.left

(* When the calls of the tabs exclude each other, no call acts on a stale     *)
(* record.                                                                   *)
IsolationPreventsRaces == Isolated => ~raced

(* A tab that is closed while it replays, and never releases the lock, does   *)
(* not stop the replay for good.                                             *)
ReplayGoesOn == []<>(\E c \in Cycles : pc[c] = "holding")
=============================================================================
