----------------------------- MODULE OfflineQueue -----------------------------
(***************************************************************************)
(* The offline queue of one browser tab and the cycles that replay it      *)
(* (modules/sync/queueManager.js, syncManager.js, replayManager.js and     *)
(* their wiring in App.jsx).                                               *)
(*                                                                         *)
(* The queue exists in several copies: the IndexedDB store, the React      *)
(* state, and the array each replay cycle works on.  Every write replaces  *)
(* a whole copy by another, and the code runs other callbacks at every     *)
(* await, so a copy may be stale when it is written.  A tab re-acquires    *)
(* its own replay lock, so several cycles of one tab overlap; several tabs *)
(* are the subject of ReplayLock.                                          *)
(***************************************************************************)
EXTENDS Naturals, FiniteSets

CONSTANTS
    Last,           \* the operations are 1..Last, in the order they are enqueued
    Weight,         \* priorityWeight of each operation: 0 high, 1 medium, 2 low
    Needs,          \* the earlier operations each one relies on
    Key,            \* dedupe key of each operation
    MaxRetries,     \* attempts after which an operation fails for good
    Cycles,         \* calls of runReplayCycle that may overlap
    MaxFailures     \* bound: failed requests, reloads and ends of the session

Ops == 1..Last

ASSUME LastAssumption == Last \in Nat
ASSUME WeightAssumption == Weight \in [Ops -> Nat]
ASSUME NeedsAssumption == Needs \in [Ops -> SUBSET Ops] /\ \A o \in Ops : \A d \in Needs[o] : d < o
ASSUME MaxRetriesAssumption == MaxRetries \in Nat \ {0}
ASSUME MaxFailuresAssumption == MaxFailures \in Nat

VARIABLES
    store,          \* the queue in IndexedDB
    mem,            \* the React state syncQueue, pending updates applied
    dirty,          \* the effects of the last change of mem have not run
    cycle,          \* the step and the queue copy of each replay cycle
    inFlight,       \* syncInFlightRef
    signedIn,       \* authUser is set
    due,            \* the retry time of each operation has come
    enqueued,       \* operations 1..enqueued exist
    deps,           \* the dependencies recorded in each operation
    delivered,      \* history: operations the server has applied
    superseded,     \* history: operations a later one of the same key replaced
    exposed,        \* history: operations that a write may have dropped
    failures        \* failures so far

vars == <<store, mem, dirty, cycle, inFlight, signedIn, due, enqueued, deps,
          delivered, superseded, exposed, failures>>

(* The item of an operation in a copy of the queue; pending stands for      *)
(* in_progress too, which no guard tells apart from it.                     *)
Item ==
    [status : {"pending"}, retries : 0..(MaxRetries - 1), later : BOOLEAN] \cup
    [status : {"quarantined", "failed_permanent"}, retries : 1..MaxRetries, later : {FALSE}]

Absent == [status |-> "absent"]

Queue == [Ops -> Item \cup {Absent}]

Empty == [o \in Ops |-> Absent]

Members(q) == {o \in Ops : q[o] # Absent}

Idle == [pc |-> "idle", copy |-> Empty, op |-> 0]

Pc == {"idle", "reading", "read", "check", "loaded", "auth", "pick", "marked",
       "send", "removed", "shifted", "returned", "failed"}

\* A cycle at one of these steps will write the copy it holds.
Holding == {"read", "loaded", "auth", "pick", "marked", "send", "removed", "shifted",
            "returned", "failed"}

Cycle == [pc : Pc, copy : Queue, op : 0..Last]

TypeOK ==
    /\ store \in Queue
    /\ mem \in Queue
    /\ dirty \in BOOLEAN
    /\ cycle \in [Cycles -> Cycle]
    /\ inFlight \in BOOLEAN
    /\ signedIn \in BOOLEAN
    /\ due \in [Ops -> BOOLEAN]
    /\ enqueued \in 0..Last
    /\ deps \in [Ops -> SUBSET Ops]
    /\ delivered \subseteq Ops
    /\ superseded \subseteq Ops
    /\ exposed \subseteq Ops
    /\ failures \in 0..MaxFailures

Init ==
    /\ store = Empty
    /\ mem = Empty
    /\ dirty = FALSE
    /\ cycle = [c \in Cycles |-> Idle]
    /\ inFlight = FALSE
    /\ signedIn = TRUE
    /\ due = [o \in Ops |-> TRUE]
    /\ enqueued = 0
    /\ deps = [o \in Ops |-> {}]
    /\ delivered = {}
    /\ superseded = {}
    /\ exposed = {}
    /\ failures = 0

-----------------------------------------------------------------------------
(* The order of sortReplayQueue: nextRetryAt first (none counts as zero),   *)
(* then the priority, then the time of creation.                            *)
Precedes(q, p, o) ==
    \/ ~q[p].later /\ q[o].later
    \/ /\ ~q[p].later /\ ~q[o].later
       /\ Weight[p] < Weight[o] \/ (Weight[p] = Weight[o] /\ p < o)
    \/ q[p].later /\ q[o].later /\ due[p] /\ ~due[o]

Heads(q) == {o \in Members(q) : \A p \in Members(q) \ {o} : ~Precedes(q, p, o)}

Terminal(item) == item.status \in {"quarantined", "failed_permanent"}

\* Mutant of BlockedBy: only a dependency that failed for good blocks.
BlockedByTerminal(q, o) == {d \in deps[o] \cap (Members(q) \ {o}) : Terminal(q[d])}

\* resolveDependencies: those that are still in the queue.
BlockedBy(q, o) == deps[o] \cap (Members(q) \ {o})

At(c, pc) == cycle[c].pc = pc

Copy(c) == cycle[c].copy

Op(c) == cycle[c].op

Goto(c, pc) == cycle' = [cycle EXCEPT ![c].pc = pc]

Take(c, q, pc) == cycle' = [cycle EXCEPT ![c].copy = q, ![c].pc = pc]

Leave(c) == cycle' = [cycle EXCEPT ![c] = Idle]

(* setSyncQueue: the effects that depend on the queue run after the render. *)
SetMem(q) == mem' = q /\ dirty' = TRUE

Fail == failures < MaxFailures /\ failures' = failures + 1

-----------------------------------------------------------------------------
(* Mutant of Enqueue: the state is set and the store left to the effect, as  *)
(* in enqueueSyncOperation of syncManager.js, which nothing calls.          *)
EnqueueStateOnly(deferred) ==
    LET o == enqueued + 1
        replaced == {p \in 1..enqueued : Key[p] = Key[o]}
    IN  /\ signedIn
        /\ o \in Ops
        /\ enqueued' = o
        /\ SetMem([p \in Ops |->
                IF p = o THEN [status |-> "pending", retries |-> 0, later |-> FALSE]
                ELSE IF p \in replaced THEN Absent ELSE mem[p]])
        /\ deps' = [deps EXCEPT ![o] = Needs[o] \cap Members(mem)]
        /\ superseded' = superseded \cup replaced
        /\ UNCHANGED <<store, cycle, inFlight, signedIn, due, delivered, exposed, failures>>

(* Mutant of Enqueue: dedupeQueue is left out. *)
EnqueueNoDedupe(deferred) ==
    LET o == enqueued + 1
        queue == [mem EXCEPT ![o] = [status |-> "pending", retries |-> 0, later |-> FALSE]]
    IN  /\ signedIn
        /\ o \in Ops
        /\ enqueued' = o
        /\ SetMem(queue)
        /\ store' = IF deferred THEN Empty ELSE queue
        /\ deps' = [deps EXCEPT ![o] = Needs[o] \cap Members(mem)]
        /\ UNCHANGED <<cycle, inFlight, signedIn, due, delivered, superseded, exposed, failures>>

(* enqueueOperation.  React calls the updater at once when no other update  *)
(* of the component is pending, and else at the next render: nextQueue is   *)
(* then still the empty array when it is written to the store.              *)
Enqueue(deferred) ==
    LET o == enqueued + 1
        replaced == {p \in 1..enqueued : Key[p] = Key[o]}
        queue == [p \in Ops |->
            IF p = o THEN [status |-> "pending", retries |-> 0, later |-> FALSE]
            ELSE IF p \in replaced THEN Absent ELSE mem[p]]
    IN  /\ signedIn
        /\ o \in Ops
        /\ enqueued' = o
        /\ SetMem(queue)
        /\ store' = IF deferred THEN Empty ELSE queue
        /\ deps' = [deps EXCEPT ![o] = Needs[o] \cap Members(mem)]
        /\ superseded' = superseded \cup replaced
        /\ exposed' = IF deferred THEN exposed \cup 1..o
                      ELSE IF \E c \in Cycles : cycle[c].pc \in Holding THEN exposed \cup {o}
                      ELSE exposed
        /\ UNCHANGED <<cycle, inFlight, signedIn, due, delivered, failures>>

(* The effect persistQueueState(syncQueue). *)
PersistEffect ==
    /\ dirty
    /\ store' = mem
    /\ dirty' = FALSE
    /\ UNCHANGED <<mem, cycle, inFlight, signedIn, due, enqueued, deps,
                   delivered, superseded, exposed, failures>>

(* The retry time of an operation comes. *)
Elapse(o) ==
    /\ ~due[o]
    /\ due' = [due EXCEPT ![o] = TRUE]
    /\ UNCHANGED <<store, mem, dirty, cycle, inFlight, signedIn, enqueued, deps,
                   delivered, superseded, exposed, failures>>

(* clearOfflineStorage at the end of a session: the store is emptied, the   *)
(* React state is not.                                                      *)
Purge ==
    /\ store' = Empty
    /\ signedIn' = FALSE
    /\ exposed' = exposed \cup 1..enqueued

(* handleLogout: React runs the pending effects before it handles a click. *)
Logout ==
    /\ signedIn
    /\ ~dirty
    /\ Fail
    /\ Purge
    /\ UNCHANGED <<mem, dirty, cycle, inFlight, due, enqueued, deps, delivered, superseded>>

(* handleLogin *)
Login ==
    /\ ~signedIn
    /\ signedIn' = TRUE
    /\ UNCHANGED <<store, mem, dirty, cycle, inFlight, due, enqueued, deps,
                   delivered, superseded, exposed, failures>>

(* The page is closed or reloaded; useOfflineSnapshot hydrates the state    *)
(* from the store.                                                          *)
Reload ==
    /\ Fail
    /\ SetMem(store)
    /\ cycle' = [c \in Cycles |-> Idle]
    /\ inFlight' = FALSE
    /\ UNCHANGED <<store, signedIn, due, enqueued, deps, delivered, superseded, exposed>>

-----------------------------------------------------------------------------
(* processSyncQueue is called by the effect on syncQueue, by the timer of   *)
(* the reconnect manager and by the online event.                           *)
Start(c) ==
    /\ At(c, "idle")
    /\ signedIn
    /\ Members(mem) # {}
    /\ Goto(c, "reading")
    /\ UNCHANGED <<store, mem, dirty, inFlight, signedIn, due, enqueued, deps,
                   delivered, superseded, exposed, failures>>

(* runReplayCycle: liveQueue = await getSyncQueue() ... *)
ReadLive(c) ==
    /\ At(c, "reading")
    /\ Take(c, store, "read")
    /\ UNCHANGED <<store, mem, dirty, inFlight, signedIn, due, enqueued, deps,
                   delivered, superseded, exposed, failures>>

(* ... and setQueueState(liveQueue). *)
PublishLive(c) ==
    /\ At(c, "read")
    /\ SetMem(Copy(c))
    /\ Take(c, Empty, "check")
    /\ UNCHANGED <<store, inFlight, signedIn, due, enqueued, deps,
                   delivered, superseded, exposed, failures>>

(* processSyncQueueOnce: syncInFlightRef is tested ... *)
Skip(c) ==
    /\ At(c, "check")
    /\ inFlight
    /\ Leave(c)
    /\ UNCHANGED <<store, mem, dirty, inFlight, signedIn, due, enqueued, deps,
                   delivered, superseded, exposed, failures>>

(* ... before the store is read, ... *)
Load(c) ==
    /\ At(c, "check")
    /\ ~inFlight
    /\ Take(c, store, "loaded")
    /\ UNCHANGED <<store, mem, dirty, inFlight, signedIn, due, enqueued, deps,
                   delivered, superseded, exposed, failures>>

(* ... and set after it.                                                    *)
Enter(c) ==
    /\ At(c, "loaded")
    /\ SetMem(Copy(c))
    /\ IF Copy(c) = Empty
       THEN Leave(c) /\ UNCHANGED inFlight
       ELSE Goto(c, "auth") /\ inFlight' = TRUE
    /\ UNCHANGED <<store, signedIn, due, enqueued, deps,
                   delivered, superseded, exposed, failures>>

(* The request /auth/me that opens the batch. *)
Authenticate(c) ==
    /\ At(c, "auth")
    /\ Goto(c, "pick")
    /\ UNCHANGED <<store, mem, dirty, inFlight, signedIn, due, enqueued, deps,
                   delivered, superseded, exposed, failures>>

AuthenticateFails(c) ==
    /\ At(c, "auth")
    /\ Fail
    /\ Leave(c)
    /\ inFlight' = FALSE
    /\ UNCHANGED <<store, mem, dirty, signedIn, due, enqueued, deps,
                   delivered, superseded, exposed>>

(* The batch ends: nothing is left, or the first operation is terminal,     *)
(* waits for its retry time, or waits for another operation.                *)
Stop(c) ==
    /\ At(c, "pick")
    /\ \/ Copy(c) = Empty
       \/ \E o \in Heads(Copy(c)) :
            \/ Terminal(Copy(c)[o])
            \/ Copy(c)[o].later /\ ~due[o]
            \/ BlockedBy(Copy(c), o) # {}
    /\ Leave(c)
    /\ inFlight' = FALSE
    /\ UNCHANGED <<store, mem, dirty, signedIn, due, enqueued, deps,
                   delivered, superseded, exposed, failures>>

(* The first operation is taken: persistQueue writes the store ... *)
Mark(c) ==
    /\ At(c, "pick")
    /\ \E o \in Heads(Copy(c)) :
        LET marked == [Copy(c) EXCEPT ![o].later = FALSE]
        IN  /\ ~Terminal(Copy(c)[o])
            /\ Copy(c)[o].later => due[o]
            /\ BlockedBy(Copy(c), o) = {}
            /\ cycle' = [cycle EXCEPT ![c] = [pc |-> "marked", copy |-> marked, op |-> o]]
            /\ store' = marked
    /\ UNCHANGED <<mem, dirty, inFlight, signedIn, due, enqueued, deps,
                   delivered, superseded, exposed, failures>>

(* ... and then the state, before the request is sent.                      *)
Show(c) ==
    /\ At(c, "marked")
    /\ SetMem(Copy(c))
    /\ Goto(c, "send")
    /\ UNCHANGED <<store, inFlight, signedIn, due, enqueued, deps,
                   delivered, superseded, exposed, failures>>

(* The request is answered with success: the operation is shifted away.     *)
Succeed(c) ==
    /\ At(c, "send")
    /\ delivered' = delivered \cup {Op(c)}
    /\ Take(c, [Copy(c) EXCEPT ![Op(c)] = Absent], "removed")
    /\ UNCHANGED <<store, mem, dirty, inFlight, signedIn, due, enqueued, deps,
                   superseded, exposed, failures>>

\* Mutant of Retried: one attempt more than maxRetries.
RetriedOnceMore(item, action) ==
    LET retries == item.retries + 1
    IN  IF action = "retry" /\ retries <= MaxRetries
        THEN [status |-> "pending", retries |-> retries, later |-> TRUE]
        ELSE [status |-> IF action = "quarantine" THEN "quarantined" ELSE "failed_permanent",
              retries |-> retries, later |-> FALSE]

(* buildRetriableOperation *)
Retried(item, action) ==
    LET retries == item.retries + 1
    IN  IF action = "retry" /\ retries < MaxRetries
        THEN [status |-> "pending", retries |-> retries, later |-> TRUE]
        ELSE [status |-> IF action = "quarantine" THEN "quarantined" ELSE "failed_permanent",
              retries |-> retries, later |-> FALSE]

(* The request fails.  A retry is due to an answer of the server or to none *)
(* at all, and the server may have applied the operation in both cases; it  *)
(* has not when it refuses it.                                              *)
Refuse(c) ==
    /\ At(c, "send")
    /\ Fail
    /\ \E action \in {"retry", "quarantine", "drop"} :
        /\ delivered' \in {delivered} \cup
              (IF action = "retry" THEN {delivered \cup {Op(c)}} ELSE {})
        /\ Take(c, [Copy(c) EXCEPT ![Op(c)] = Retried(@, action)], "returned")
    /\ due' = [due EXCEPT ![Op(c)] = FALSE]
    /\ UNCHANGED <<store, mem, dirty, inFlight, signedIn, enqueued, deps, superseded, exposed>>

(* The request meets a 401 or a 403: handleSessionExpired.                  *)
Expire(c) ==
    /\ At(c, "send")
    /\ Fail
    /\ Purge
    /\ Leave(c)
    /\ inFlight' = FALSE
    /\ UNCHANGED <<mem, dirty, due, enqueued, deps, delivered, superseded>>

(* persistQueue after the answer: the store ... *)
WriteBack(c) ==
    /\ cycle[c].pc \in {"removed", "returned"}
    /\ store' = Copy(c)
    /\ Goto(c, IF At(c, "removed") THEN "shifted" ELSE "failed")
    /\ UNCHANGED <<mem, dirty, inFlight, signedIn, due, enqueued, deps,
                   delivered, superseded, exposed, failures>>

(* Mutant of Settle: inFlight is left set by a batch that ends in a failure.  *)
SettleInFlight(c) ==
    /\ cycle[c].pc \in {"shifted", "failed"}
    /\ SetMem(Copy(c))
    /\ IF At(c, "shifted")
       THEN cycle' = [cycle EXCEPT ![c] = [pc |-> "pick", copy |-> Copy(c), op |-> 0]]
       ELSE Leave(c)
    /\ UNCHANGED <<store, inFlight, signedIn, due, enqueued, deps,
                   delivered, superseded, exposed, failures>>

(* ... and the state; the batch goes on after a success, and ends after a   *)
(* failure.                                                                 *)
Settle(c) ==
    /\ cycle[c].pc \in {"shifted", "failed"}
    /\ SetMem(Copy(c))
    /\ IF At(c, "shifted")
       THEN /\ cycle' = [cycle EXCEPT ![c] = [pc |-> "pick", copy |-> Copy(c), op |-> 0]]
            /\ UNCHANGED inFlight
       ELSE Leave(c) /\ inFlight' = FALSE
    /\ UNCHANGED <<store, signedIn, due, enqueued, deps,
                   delivered, superseded, exposed, failures>>

-----------------------------------------------------------------------------
(* What a cycle does once it is started, whatever the server answers. *)
Advance(c) ==
    \/ ReadLive(c) \/ PublishLive(c) \/ Skip(c) \/ Load(c) \/ Enter(c)
    \/ Authenticate(c) \/ Stop(c) \/ Mark(c) \/ Show(c) \/ Succeed(c)
    \/ WriteBack(c) \/ Settle(c)

Trouble(c) == AuthenticateFails(c) \/ Refuse(c) \/ Expire(c)

Next ==
    \/ \E deferred \in BOOLEAN : Enqueue(deferred)
    \/ PersistEffect \/ Logout \/ Login \/ Reload
    \/ \E o \in Ops : Elapse(o)
    \/ \E c \in Cycles : Start(c) \/ Advance(c) \/ Trouble(c)

Spec == Init /\ [][Next]_vars

(* The effects run after a render, the timer of the reconnect manager keeps *)
(* starting cycles, a started cycle goes on, retry times come and a user    *)
(* signs in again.                                                          *)
Fairness ==
    /\ WF_vars(PersistEffect)
    /\ WF_vars(Login)
    /\ \A o \in Ops : WF_vars(Elapse(o))
    /\ \A c \in Cycles : WF_vars(Start(c)) /\ WF_vars(Advance(c))

FairSpec == Spec /\ Fairness

-----------------------------------------------------------------------------
(* The operations of each copy of the queue that is read or will be written. *)
Copies ==
    {Members(store), Members(mem)} \cup
    {Members(Copy(c)) : c \in {b \in Cycles : cycle[b].pc \in Holding}}

(* No operation is lost by the traffic between the copies: unless it was    *)
(* enqueued while a cycle held a copy, wiped by a deferred enqueue or purged *)
(* with a session, an operation that is neither delivered nor superseded is  *)
(* in the store, in the state and in every copy that will be written.        *)
UnexposedIsEverywhere ==
    \A o \in 1..enqueued \ (exposed \cup delivered \cup superseded) : \A m \in Copies : o \in m

(* An operation is applied by the server only after each operation it was    *)
(* recorded to depend on has been applied or superseded, in spite of stale   *)
(* copies, lost operations, reloads and sessions that end.                   *)
DependenciesFirst ==
    [][\A o \in delivered' \ delivered : deps[o] \subseteq delivered \cup superseded]_vars

(* dedupeQueue keeps one operation of a key: no copy ever holds two.         *)
OnePerKey == \A m \in Copies : \A o, p \in m : Key[o] = Key[p] => o = p

(* The operation a cycle sends is in the copy it holds, and may be retried.  *)
InHand ==
    \A c \in Cycles :
        cycle[c].pc \in {"marked", "send"} =>
            Op(c) \in Members(Copy(c)) /\ ~Terminal(Copy(c)[Op(c)])

(* What DependenciesFirst rests on: a copy is closed under the dependencies  *)
(* that are neither applied nor superseded, and a cycle sends an operation   *)
(* that has no other.                                                        *)
DependenciesClosed ==
    /\ InHand
    /\ \A m \in Copies : m \subseteq 1..enqueued
    /\ \A m \in Copies : \A o \in m : deps[o] \subseteq m \cup delivered \cup superseded
    /\ \A o \in Ops : o \notin deps[o]
    /\ \A c \in Cycles :
        cycle[c].pc \in {"marked", "send"} =>
            deps[Op(c)] \subseteq delivered \cup superseded

(* An operation that is not exposed is delivered in the end, or its tab       *)
(* holds an operation that needs intervention.                               *)
EventuallyDelivered ==
    \A o \in Ops :
        o \in 1..enqueued ~>
            \/ o \in delivered \cup superseded \cup exposed
            \/ \E p \in Members(mem) : Terminal(mem[p])
=============================================================================
