------------------------------ MODULE SyncReplay ------------------------------
(***************************************************************************)
(* The server's replay guard (app/services/sync_replay.py) with the        *)
(* request handlers that call it.                                          *)
(*                                                                         *)
(* A request that replays an offline operation carries an operation id, a  *)
(* fingerprint of its payload and the token of the attempt.  Its handler   *)
(* runs begin_sync_replay in a database session of its own, then its own   *)
(* business transaction, then complete_sync_replay or fail_sync_replay in  *)
(* a third session.  Each of the three commits alone: other handlers, a    *)
(* crash of the process or an exception can fall between any two of them.  *)
(***************************************************************************)
EXTENDS Naturals, FiniteSets

CONSTANTS
    Ops,            \* operation ids ("<queue item>:<step>")
    Guarded,        \* those whose handler records every exception as a failure
    Tokens,         \* replay tokens, one for each attempt of a client
    None,           \* no token header; no row
    Fingerprints,   \* payload fingerprints
    Workers,        \* server threads that serve requests
    MaxRequests     \* bound: requests sent

ASSUME GuardedAssumption == Guarded \subseteq Ops
ASSUME NoneAssumption == None \notin Tokens \cup Fingerprints
ASSUME MaxRequestsAssumption == MaxRequests \in Nat

VARIABLES
    record,         \* the row of sync_replay_records of each operation
    worker,         \* what each worker is doing
    applied,        \* committed business transactions of each operation
    answers,        \* history: the kinds of answer given for each operation
    disturbed,      \* history: what went wrong while an operation was served
    requests        \* requests sent so far

vars == <<record, worker, applied, answers, disturbed, requests>>

Token == Tokens \cup {None}

Status == {"absent", "processing", "succeeded", "failed", "conflict"}

Record == [status : Status, token : Token, fingerprint : Fingerprints \cup {None}]

Answer == {"acknowledged", "duplicate", "conflict", "locked", "rejected", "error"}

(***************************************************************************)
(* The three ways in which the serving of an operation is disturbed:       *)
(*   lost_ack   a worker committed the effect and stopped before the       *)
(*              record said so;                                            *)
(*   overlap    a worker took the operation while another executed it;     *)
(*   reopened   a record that said succeeded was overwritten, or taken     *)
(*              over by a worker that had read it before.                  *)
(***************************************************************************)
Disturbance == {"lost_ack", "overlap", "reopened"}

Idle == [pc |-> "idle"]

Serving == [pc : {"lookup", "claim", "execute", "committed"}, op : Ops,
            token : Token, fingerprint : Fingerprints, seen : Record]

NoRecord == [status |-> "absent", token |-> None, fingerprint |-> None]

TypeOK ==
    /\ record \in [Ops -> Record]
    /\ worker \in [Workers -> Serving \cup {Idle}]
    /\ applied \in [Ops -> Nat]
    /\ answers \in [Ops -> SUBSET Answer]
    /\ disturbed \in [Ops -> SUBSET Disturbance]
    /\ requests \in 0..MaxRequests

Init ==
    /\ record = [o \in Ops |-> NoRecord]
    /\ worker = [w \in Workers |-> Idle]
    /\ applied = [o \in Ops |-> 0]
    /\ answers = [o \in Ops |-> {}]
    /\ disturbed = [o \in Ops |-> {}]
    /\ requests = 0

-----------------------------------------------------------------------------
At(w, pc) == worker[w].pc = pc

Op(w) == worker[w].op

Seen(w) == worker[w].seen

\* The workers inside the business transaction of o, or just past its commit.
Executing(o) == {w \in Workers : worker[w].pc \in {"execute", "committed"} /\ worker[w].op = o}

Goto(w, pc) == worker' = [worker EXCEPT ![w].pc = pc]

Finish(w) == worker' = [worker EXCEPT ![w] = Idle]

Reply(w, kind) ==
    /\ Finish(w)
    /\ answers' = [answers EXCEPT ![Op(w)] = @ \cup {kind}]

\* The disturbances of a step that gives the record of o the status `status`
\* and is, in addition, a disturbance of each kind in `kinds`.
Disturb(o, status, kinds) ==
    disturbed' = [disturbed EXCEPT ![o] = @ \cup kinds \cup
        (IF record[o].status = "succeeded" /\ status # "succeeded"
         THEN {"reopened"} ELSE {})]

SetStatus(o, status, kinds) ==
    /\ record' = [record EXCEPT ![o].status = status]
    /\ Disturb(o, status, kinds)

-----------------------------------------------------------------------------
(* A client sends a request: any operation, token and fingerprint. *)
Receive(w, o, t, f) ==
    /\ At(w, "idle")
    /\ requests < MaxRequests
    /\ requests' = requests + 1
    /\ worker' = [worker EXCEPT ![w] =
            [pc |-> "lookup", op |-> o, token |-> t, fingerprint |-> f, seen |-> NoRecord]]
    /\ UNCHANGED <<record, applied, answers, disturbed>>

(* begin_sync_replay, its SELECT: no lock is taken on the row. *)
Lookup(w) ==
    /\ At(w, "lookup")
    /\ worker' = [worker EXCEPT ![w].pc = "claim", ![w].seen = record[Op(w)]]
    /\ UNCHANGED <<record, applied, answers, disturbed, requests>>

(* Mutant of Insert: no unique constraint on the operation id. *)
InsertNotUnique(w) ==
    /\ At(w, "claim")
    /\ Seen(w).status = "absent"
    /\ record' = [record EXCEPT ![Op(w)] =
            [status |-> "processing", token |-> worker[w].token,
             fingerprint |-> worker[w].fingerprint]]
    /\ Goto(w, "execute")
    /\ UNCHANGED <<applied, answers, disturbed, requests>>

(* begin_sync_replay, no row was seen: the INSERT, or the IntegrityError of *)
(* the unique operation id and another try.                                 *)
Insert(w) ==
    /\ At(w, "claim")
    /\ Seen(w).status = "absent"
    /\ IF record[Op(w)].status = "absent"
       THEN /\ record' = [record EXCEPT ![Op(w)] =
                    [status |-> "processing", token |-> worker[w].token,
                     fingerprint |-> worker[w].fingerprint]]
            /\ Goto(w, "execute")
       ELSE /\ Goto(w, "lookup")
            /\ UNCHANGED record
    /\ UNCHANGED <<applied, answers, disturbed, requests>>

(* The ORM writes a column only when the value assigned differs from the   *)
(* value the SELECT loaded.                                                *)
Written(loaded, assigned, current) == IF loaded = assigned THEN current ELSE assigned

RejectMismatch(w) ==
    /\ At(w, "claim")
    /\ Seen(w).status # "absent"
    /\ Seen(w).fingerprint # worker[w].fingerprint
    /\ SetStatus(Op(w), Written(Seen(w).status, "conflict", record[Op(w)].status), {})
    /\ Reply(w, "conflict")
    /\ UNCHANGED <<applied, requests>>

(* Mutant of AnswerDuplicate: a row that fails or is being processed also   *)
(* counts as a duplicate.                                                   *)
AnswerAnyRow(w) ==
    /\ At(w, "claim")
    /\ Seen(w).fingerprint = worker[w].fingerprint
    /\ Seen(w).status # "absent"
    /\ Reply(w, "duplicate")
    /\ UNCHANGED <<record, applied, disturbed, requests>>

AnswerDuplicate(w) ==
    /\ At(w, "claim")
    /\ Seen(w).fingerprint = worker[w].fingerprint
    /\ Seen(w).status = "succeeded"
    /\ Reply(w, "duplicate")
    /\ UNCHANGED <<record, applied, disturbed, requests>>

\* The row is being processed for another attempt.
LockedOut(w) ==
    /\ Seen(w).status = "processing"
    /\ Seen(w).token # None
    /\ worker[w].token # None
    /\ Seen(w).token # worker[w].token

RejectLocked(w) ==
    /\ At(w, "claim")
    /\ Seen(w).fingerprint = worker[w].fingerprint
    /\ LockedOut(w)
    /\ Reply(w, "locked")
    /\ UNCHANGED <<record, applied, disturbed, requests>>

(* Mutant of Resume: a row that says succeeded is taken over as well. *)
ResumeAnyRow(w) ==
    LET o == Op(w)
    IN  /\ At(w, "claim")
        /\ Seen(w).fingerprint = worker[w].fingerprint
        /\ Seen(w).status # "absent"
        /\ ~LockedOut(w)
        /\ record' = [record EXCEPT ![o].status = "processing", ![o].token = worker[w].token]
        /\ Disturb(o, "processing", {})
        /\ Goto(w, "execute")
        /\ UNCHANGED <<applied, answers, requests>>

(* Failed, in conflict, or processing for the same attempt: take it over. *)
Resume(w) ==
    LET o == Op(w)
        status == Written(Seen(w).status, "processing", record[o].status)
        token == Written(Seen(w).token, worker[w].token, record[o].token)
    IN  /\ At(w, "claim")
        /\ Seen(w).fingerprint = worker[w].fingerprint
        /\ Seen(w).status \notin {"absent", "succeeded"}
        /\ ~LockedOut(w)
        /\ record' = [record EXCEPT ![o] =
                [status |-> status, token |-> token, fingerprint |-> @.fingerprint]]
        /\ Disturb(o, status,
                   (IF Executing(o) # {} THEN {"overlap"} ELSE {}) \cup
                   (IF record[o].status = "succeeded" THEN {"reopened"} ELSE {}))
        /\ Goto(w, "execute")
        /\ UNCHANGED <<applied, answers, requests>>

-----------------------------------------------------------------------------
(* The business transaction commits. *)
Execute(w) ==
    /\ At(w, "execute")
    /\ applied' = [applied EXCEPT ![Op(w)] = @ + 1]
    /\ Goto(w, "committed")
    /\ UNCHANGED <<record, answers, disturbed, requests>>

(* Mutant of Reject: an outcome no other part of the guard knows. *)
RejectUnknown(w) ==
    /\ At(w, "execute")
    /\ SetStatus(Op(w), "rejected", {})
    /\ Reply(w, "rejected")
    /\ UNCHANGED <<applied, requests>>

(* A business rule refuses the request: fail_sync_replay, then the error.  *)
Reject(w) ==
    /\ At(w, "execute")
    /\ \E outcome \in {"failed", "conflict"} : SetStatus(Op(w), outcome, {})
    /\ Reply(w, "rejected")
    /\ UNCHANGED <<applied, requests>>

(* A refusal raised without a call of fail_sync_replay: the range checks of *)
(* update_student and update_book, a closed period met by                   *)
(* create_reservation.                                                      *)
RejectUnrecorded(w) ==
    /\ At(w, "execute")
    /\ Op(w) \notin Guarded
    /\ Reply(w, "rejected")
    /\ UNCHANGED <<record, applied, disturbed, requests>>

(* Mutant of Complete: the record succeeds before the handler commits. *)
CompleteBeforeCommit(w) ==
    /\ worker[w].pc \in {"execute", "committed"}
    /\ SetStatus(Op(w), "succeeded", {})
    /\ Reply(w, "acknowledged")
    /\ UNCHANGED <<applied, requests>>

(* complete_sync_replay, after the commit. *)
Complete(w) ==
    /\ At(w, "committed")
    /\ SetStatus(Op(w), "succeeded", {})
    /\ Reply(w, "acknowledged")
    /\ UNCHANGED <<applied, requests>>

(* An exception no rule raised, before the commit or after it.  The handler *)
(* of a guarded operation records a failure; the others let it propagate.   *)
Break(w) ==
    LET kinds == IF At(w, "committed") THEN {"lost_ack"} ELSE {}
    IN  /\ worker[w].pc \in {"execute", "committed"}
        /\ IF Op(w) \in Guarded
           THEN SetStatus(Op(w), "failed", kinds)
           ELSE /\ Disturb(Op(w), record[Op(w)].status, kinds)
                /\ UNCHANGED record
        /\ Reply(w, "error")
        /\ UNCHANGED <<applied, requests>>

(* The process stops while it serves a request: no answer, no clean-up. *)
Crash(w) ==
    /\ ~At(w, "idle")
    /\ Finish(w)
    /\ Disturb(Op(w), record[Op(w)].status,
               IF At(w, "committed") THEN {"lost_ack"} ELSE {})
    /\ UNCHANGED <<record, applied, answers, requests>>

-----------------------------------------------------------------------------
Begin(w) ==
    Lookup(w) \/ Insert(w) \/ RejectMismatch(w) \/ AnswerDuplicate(w) \/ RejectLocked(w) \/ Resume(w)

Handle(w) == Execute(w) \/ Reject(w) \/ RejectUnrecorded(w) \/ Complete(w) \/ Break(w)

Next ==
    \E w \in Workers :
        \/ \E o \in Ops, t \in Token, f \in Fingerprints : Receive(w, o, t, f)
        \/ Begin(w)
        \/ Handle(w)
        \/ Crash(w)

Spec == Init /\ [][Next]_vars

-----------------------------------------------------------------------------
(* What the guard promises its clients, see ReplayContract. *)
Contract ==
    INSTANCE ReplayContract WITH
        effects  <- applied,
        promised <- {o \in Ops : answers[o] \cap {"acknowledged", "duplicate"} # {}},
        exposed  <- {o \in Ops : disturbed[o] # {}}

(* Every behaviour of the guard is one that the contract allows: a success  *)
(* is answered only after the commit, and a second commit needs a recorded  *)
(* disturbance.                                                             *)
ImplementsContract == Contract!Spec

(* No answer claims more than was done: an operation a client was told has *)
(* succeeded, by complete_sync_replay or by the cached response of a       *)
(* duplicate, has committed its business transaction.                      *)
AcknowledgedIsApplied ==
    \A o \in Ops :
        answers[o] \cap {"acknowledged", "duplicate"} # {} => applied[o] > 0

(* The unique operation id and the status of its row keep an operation      *)
(* from being applied twice, whatever requests arrive and however their     *)
(* handlers interleave, except through one of the three disturbances.       *)
AppliedOnceUnlessDisturbed ==
    \A o \in Ops : applied[o] > 1 => disturbed[o] # {}

(* What AcknowledgedIsApplied rests on: wherever the guard has noted success  *)
(* (the row, what a worker read of it, a worker past its commit) the effect   *)
(* took place.                                                                *)
SuccessIsApplied ==
    /\ \A o \in Ops : record[o].status = "succeeded" => applied[o] > 0
    /\ \A w \in Workers :
        /\ At(w, "committed") => applied[Op(w)] > 0
        /\ ~At(w, "idle") /\ Seen(w).status = "succeeded" => applied[Op(w)] > 0

(* A row is never deleted, so what a worker saw of it is still there, and    *)
(* every worker that executes has one.                                       *)
RowStays ==
    \A w \in Workers :
        \/ worker[w].pc \in {"execute", "committed"}
        \/ ~At(w, "idle") /\ Seen(w).status # "absent"
        => record[Op(w)].status # "absent"

(* What AppliedOnceUnlessDisturbed rests on: an operation nothing disturbed   *)
(* has one worker at most, none once its row says succeeded, and its effect   *)
(* has taken place exactly when that worker is past its commit or the row     *)
(* says so.                                                                   *)
OneOwner(o) ==
    /\ \A v, w \in Executing(o) : v = w
    /\ record[o].status \in {"absent", "succeeded"} => Executing(o) = {}
    /\ applied[o] =
        IF record[o].status = "succeeded" \/ \E w \in Executing(o) : At(w, "committed")
        THEN 1 ELSE 0

UndisturbedHasOneOwner == \A o \in Ops : disturbed[o] = {} => OneOwner(o)

(* The inductive invariant. *)
ReplayInvariant == TypeOK /\ SuccessIsApplied /\ RowStays /\ UndisturbedHasOneOwner

(* Once a row says succeeded, a request that looks it up afterwards cannot  *)
(* take that back with the right fingerprint: only a mismatch does, or a    *)
(* worker that had looked before.                                           *)
SucceededIsFinal ==
    [][\A o \in Ops :
        record[o].status = "succeeded" /\ record'[o].status # "succeeded" =>
            \E w \in Workers :
                /\ worker[w].pc \in {"claim", "execute", "committed"}
                /\ Op(w) = o
                /\ \/ Seen(w).status # "succeeded"
                   \/ Seen(w).fingerprint # worker[w].fingerprint]_vars
=============================================================================
