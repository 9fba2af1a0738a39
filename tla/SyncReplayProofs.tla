--------------------------- MODULE SyncReplayProofs ---------------------------
(***************************************************************************)
(* Proofs about the replay guard, for any number of operations, workers,   *)
(* tokens, fingerprints and requests.                                      *)
(***************************************************************************)
EXTENDS SyncReplay, TLAPS

(* A worker that is not idle serves a request. *)
LEMMA ServingType ==
    ASSUME TypeOK, NEW w \in Workers, ~At(w, "idle")
    PROVE  /\ worker[w] \in Serving
           /\ Op(w) \in Ops
           /\ worker[w].token \in Token
           /\ worker[w].fingerprint \in Fingerprints
           /\ Seen(w) \in Record
BY DEF TypeOK, At, Op, Seen, Serving, Idle

(* Moving a serving worker to another step keeps the type of worker. *)
LEMMA GotoType ==
    ASSUME TypeOK, NEW w \in Workers, ~At(w, "idle"),
           NEW pc \in {"lookup", "claim", "execute", "committed"}, Goto(w, pc)
    PROVE  worker' \in [Workers -> Serving \cup {Idle}]
<1>1. worker[w] \in Serving
  BY ServingType
<1>2. [worker[w] EXCEPT !.pc = pc] \in Serving
  BY <1>1 DEF Serving
<1> QED
  BY <1>2 DEF Goto, TypeOK

(* An answer keeps the types of worker and answers. *)
LEMMA ReplyType ==
    ASSUME TypeOK, NEW w \in Workers, ~At(w, "idle"), NEW kind \in Answer, Reply(w, kind)
    PROVE  /\ worker' \in [Workers -> Serving \cup {Idle}]
           /\ answers' \in [Ops -> SUBSET Answer]
<1>1. Op(w) \in Ops
  BY ServingType
<1> QED
  BY <1>1 DEF Reply, Finish, TypeOK

LEMMA DisturbType ==
    ASSUME TypeOK, NEW o \in Ops, NEW status \in Status,
           NEW kinds \in SUBSET Disturbance, Disturb(o, status, kinds)
    PROVE  disturbed' \in [Ops -> SUBSET Disturbance]
<1>1. "reopened" \in Disturbance
  BY DEF Disturbance
<1> QED
  BY <1>1 DEF Disturb, TypeOK

LEMMA SetStatusType ==
    ASSUME TypeOK, NEW o \in Ops, NEW status \in Status,
           NEW kinds \in SUBSET Disturbance, SetStatus(o, status, kinds)
    PROVE  /\ record' \in [Ops -> Record]
           /\ disturbed' \in [Ops -> SUBSET Disturbance]
<1>1. record[o] \in Record
  BY DEF TypeOK
<1>2. [record[o] EXCEPT !.status = status] \in Record
  BY <1>1 DEF Record
<1>3. record' \in [Ops -> Record]
  BY <1>2 DEF SetStatus, TypeOK
<1>4. disturbed' \in [Ops -> SUBSET Disturbance]
  BY DisturbType DEF SetStatus
<1> QED
  BY <1>3, <1>4

(* Every step keeps the types. *)
LEMMA TypeStep ==
    ASSUME TypeOK, [Next]_vars
    PROVE  TypeOK'
<1>1. ASSUME NEW w \in Workers, NEW o \in Ops, NEW t \in Token, NEW f \in Fingerprints,
             Receive(w, o, t, f)
      PROVE  TypeOK'
  <2>1. NoRecord \in Record
    BY DEF NoRecord, Record, Status, Token
  <2>2. [pc |-> "lookup", op |-> o, token |-> t, fingerprint |-> f, seen |-> NoRecord] \in Serving
    BY <2>1 DEF Serving
  <2>3. requests' \in 0..MaxRequests
    BY <1>1, MaxRequestsAssumption DEF Receive, TypeOK
  <2> QED
    BY <1>1, <2>2, <2>3 DEF Receive, TypeOK
<1>2. ASSUME NEW w \in Workers, Lookup(w)
      PROVE  TypeOK'
  <2>1. worker[w] \in Serving /\ Op(w) \in Ops
    BY <1>2, ServingType DEF Lookup, At
  <2>2. record[Op(w)] \in Record
    BY <2>1 DEF TypeOK
  <2>3. [worker[w] EXCEPT !.pc = "claim", !.seen = record[Op(w)]] \in Serving
    BY <2>1, <2>2 DEF Serving
  <2> QED
    BY <1>2, <2>3 DEF Lookup, TypeOK
<1>3. ASSUME NEW w \in Workers, Insert(w)
      PROVE  TypeOK'
  <2>1. /\ ~At(w, "idle")
        /\ Op(w) \in Ops
        /\ worker[w].token \in Token
        /\ worker[w].fingerprint \in Fingerprints
    BY <1>3, ServingType DEF Insert, At
  <2>2. [status |-> "processing", token |-> worker[w].token,
         fingerprint |-> worker[w].fingerprint] \in Record
    BY <2>1 DEF Record, Status
  <2>3. record' \in [Ops -> Record]
    BY <1>3, <2>1, <2>2 DEF Insert, TypeOK
  <2>4. worker' \in [Workers -> Serving \cup {Idle}]
    BY <1>3, <2>1, GotoType DEF Insert
  <2> QED
    BY <1>3, <2>3, <2>4 DEF Insert, TypeOK
<1>4. ASSUME NEW w \in Workers, RejectMismatch(w)
      PROVE  TypeOK'
  <2> DEFINE status == Written(Seen(w).status, "conflict", record[Op(w)].status)
  <2>1. ~At(w, "idle") /\ Op(w) \in Ops
    BY <1>4, ServingType DEF RejectMismatch, At
  <2>2. status \in Status
    BY <2>1 DEF TypeOK, Written, Record, Status
  <2>3. record' \in [Ops -> Record] /\ disturbed' \in [Ops -> SUBSET Disturbance]
    BY <1>4, <2>1, <2>2, SetStatusType DEF RejectMismatch
  <2>4. worker' \in [Workers -> Serving \cup {Idle}] /\ answers' \in [Ops -> SUBSET Answer]
    BY <1>4, <2>1, ReplyType DEF RejectMismatch, Answer
  <2> QED
    BY <1>4, <2>3, <2>4 DEF RejectMismatch, TypeOK
<1>5. ASSUME NEW w \in Workers, AnswerDuplicate(w)
      PROVE  TypeOK'
  <2>1. ~At(w, "idle")
    BY <1>5 DEF AnswerDuplicate, At
  <2>2. worker' \in [Workers -> Serving \cup {Idle}] /\ answers' \in [Ops -> SUBSET Answer]
    BY <1>5, <2>1, ReplyType DEF AnswerDuplicate, Answer
  <2> QED
    BY <1>5, <2>2 DEF AnswerDuplicate, TypeOK
<1>6. ASSUME NEW w \in Workers, RejectLocked(w)
      PROVE  TypeOK'
  <2>1. ~At(w, "idle")
    BY <1>6 DEF RejectLocked, At
  <2>2. worker' \in [Workers -> Serving \cup {Idle}] /\ answers' \in [Ops -> SUBSET Answer]
    BY <1>6, <2>1, ReplyType DEF RejectLocked, Answer
  <2> QED
    BY <1>6, <2>2 DEF RejectLocked, TypeOK
<1>7. ASSUME NEW w \in Workers, Resume(w)
      PROVE  TypeOK'
  <2> DEFINE o == Op(w)
             status == Written(Seen(w).status, "processing", record[o].status)
             token == Written(Seen(w).token, worker[w].token, record[o].token)
             kinds == (IF Executing(o) # {} THEN {"overlap"} ELSE {}) \cup
                      (IF record[o].status = "succeeded" THEN {"reopened"} ELSE {})
  <2>1. ~At(w, "idle") /\ o \in Ops /\ worker[w].token \in Token
    BY <1>7, ServingType DEF Resume, At
  <2>2. record[o] \in Record
    BY <2>1 DEF TypeOK
  <2>3. status \in Status /\ token \in Token
    BY <2>1, <2>2 DEF Written, Record, Status
  <2>4. [status |-> status, token |-> token, fingerprint |-> record[o].fingerprint] \in Record
    BY <2>2, <2>3 DEF Record
  <2>6. record' \in [Ops -> Record]
    BY <1>7, <2>1, <2>4 DEF Resume, TypeOK
  <2>7. kinds \in SUBSET Disturbance
    BY DEF Disturbance
  <2>8. Disturb(o, status, kinds)
    BY <1>7 DEF Resume
  <2>9. disturbed' \in [Ops -> SUBSET Disturbance]
    <3> HIDE DEF status, kinds, o
    <3> QED
      BY <2>1, <2>3, <2>7, <2>8, DisturbType
  <2>10. worker' \in [Workers -> Serving \cup {Idle}]
    BY <1>7, <2>1, GotoType DEF Resume
  <2> QED
    BY <1>7, <2>6, <2>9, <2>10 DEF Resume, TypeOK
<1>8. ASSUME NEW w \in Workers, Execute(w)
      PROVE  TypeOK'
  <2>1. ~At(w, "idle") /\ Op(w) \in Ops
    BY <1>8, ServingType DEF Execute, At
  <2>2. worker' \in [Workers -> Serving \cup {Idle}]
    BY <1>8, <2>1, GotoType DEF Execute
  <2> QED
    BY <1>8, <2>1, <2>2 DEF Execute, TypeOK
<1>9. ASSUME NEW w \in Workers, Reject(w)
      PROVE  TypeOK'
  <2>1. ~At(w, "idle") /\ Op(w) \in Ops
    BY <1>9, ServingType DEF Reject, At
  <2>2. record' \in [Ops -> Record] /\ disturbed' \in [Ops -> SUBSET Disturbance]
    BY <1>9, <2>1, SetStatusType DEF Reject, Status
  <2>3. worker' \in [Workers -> Serving \cup {Idle}] /\ answers' \in [Ops -> SUBSET Answer]
    BY <1>9, <2>1, ReplyType DEF Reject, Answer
  <2> QED
    BY <1>9, <2>2, <2>3 DEF Reject, TypeOK
<1>10. ASSUME NEW w \in Workers, RejectUnrecorded(w)
       PROVE  TypeOK'
  <2>1. ~At(w, "idle")
    BY <1>10 DEF RejectUnrecorded, At
  <2>2. worker' \in [Workers -> Serving \cup {Idle}] /\ answers' \in [Ops -> SUBSET Answer]
    BY <1>10, <2>1, ReplyType DEF RejectUnrecorded, Answer
  <2> QED
    BY <1>10, <2>2 DEF RejectUnrecorded, TypeOK
<1>11. ASSUME NEW w \in Workers, Complete(w)
       PROVE  TypeOK'
  <2>1. ~At(w, "idle") /\ Op(w) \in Ops
    BY <1>11, ServingType DEF Complete, At
  <2>2. record' \in [Ops -> Record] /\ disturbed' \in [Ops -> SUBSET Disturbance]
    BY <1>11, <2>1, SetStatusType DEF Complete, Status
  <2>3. worker' \in [Workers -> Serving \cup {Idle}] /\ answers' \in [Ops -> SUBSET Answer]
    BY <1>11, <2>1, ReplyType DEF Complete, Answer
  <2> QED
    BY <1>11, <2>2, <2>3 DEF Complete, TypeOK
<1>12. ASSUME NEW w \in Workers, Break(w)
       PROVE  TypeOK'
  <2> DEFINE kinds == IF At(w, "committed") THEN {"lost_ack"} ELSE {}
  <2>1. ~At(w, "idle") /\ Op(w) \in Ops
    BY <1>12, ServingType DEF Break, At
  <2>2. kinds \in SUBSET Disturbance
    BY DEF Disturbance
  <2>3. record[Op(w)].status \in Status
    BY <2>1 DEF TypeOK, Record
  <2>4. /\ record' \in [Ops -> Record]
        /\ disturbed' \in [Ops -> SUBSET Disturbance]
    <3>1. CASE Op(w) \in Guarded
      <4>1. SetStatus(Op(w), "failed", kinds)
        BY <1>12, <3>1 DEF Break
      <4> HIDE DEF kinds
      <4> QED
        BY <2>1, <2>2, <4>1, SetStatusType DEF Status
    <3>2. CASE Op(w) \notin Guarded
      <4>1. Disturb(Op(w), record[Op(w)].status, kinds) /\ UNCHANGED record
        BY <1>12, <3>2 DEF Break
      <4> HIDE DEF kinds
      <4> QED
        BY <2>1, <2>2, <2>3, <4>1, DisturbType DEF TypeOK
    <3> QED
      BY <3>1, <3>2
  <2>5. worker' \in [Workers -> Serving \cup {Idle}] /\ answers' \in [Ops -> SUBSET Answer]
    BY <1>12, <2>1, ReplyType DEF Break, Answer
  <2> QED
    BY <1>12, <2>4, <2>5 DEF Break, TypeOK
<1>13. ASSUME NEW w \in Workers, Crash(w)
       PROVE  TypeOK'
  <2> DEFINE kinds == IF At(w, "committed") THEN {"lost_ack"} ELSE {}
  <2>1. ~At(w, "idle") /\ Op(w) \in Ops
    BY <1>13, ServingType DEF Crash
  <2>2. kinds \in SUBSET Disturbance
    BY DEF Disturbance
  <2>3. record[Op(w)].status \in Status
    BY <2>1 DEF TypeOK, Record
  <2>4. Disturb(Op(w), record[Op(w)].status, kinds)
    BY <1>13 DEF Crash
  <2>5. disturbed' \in [Ops -> SUBSET Disturbance]
    <3> HIDE DEF kinds
    <3> QED
      BY <2>1, <2>2, <2>3, <2>4, DisturbType
  <2> QED
    BY <1>13, <2>5 DEF Crash, Finish, TypeOK
<1>14. CASE UNCHANGED vars
  BY <1>14 DEF vars, TypeOK
<1> QED
  BY <1>1, <1>2, <1>3, <1>4, <1>5, <1>6, <1>7, <1>8, <1>9, <1>10, <1>11, <1>12, <1>13, <1>14
  DEF Next, Begin, Handle

(* The variables have their types in every reachable state.               *)
THEOREM TypeCorrect == Spec => []TypeOK
<1>1. Init => TypeOK
  BY MaxRequestsAssumption
  DEF Init, TypeOK, NoRecord, Record, Status, Token, Idle
<1>2. TypeOK /\ [Next]_vars => TypeOK'
  BY TypeStep
<1> QED
  BY <1>1, <1>2, PTL DEF Spec

-----------------------------------------------------------------------------
(* What a step does to the worker that takes it and to the others.        *)
LEMMA GotoEffect ==
    ASSUME TypeOK, NEW w \in Workers, ~At(w, "idle"), NEW pc, Goto(w, pc)
    PROVE  /\ worker'[w].pc = pc
           /\ Op(w)' = Op(w)
           /\ Seen(w)' = Seen(w)
           /\ \A v \in Workers \ {w} : worker'[v] = worker[v]
BY ServingType DEF TypeOK, Goto, Op, Seen, Serving

LEMMA FinishEffect ==
    ASSUME TypeOK, NEW w \in Workers, Finish(w)
    PROVE  /\ worker'[w].pc = "idle"
           /\ \A v \in Workers \ {w} : worker'[v] = worker[v]
BY DEF TypeOK, Finish, Idle

(* The workers that execute an operation after a step of w. *)
LEMMA ExecutingEffect ==
    ASSUME TypeOK, NEW w \in Workers, NEW o,
           \A v \in Workers \ {w} : worker'[v] = worker[v]
    PROVE  /\ Executing(o)' \ {w} = Executing(o) \ {w}
           /\ w \in Executing(o)' <=>
                 worker'[w].pc \in {"execute", "committed"} /\ Op(w)' = o
BY DEF Executing, Op

(* The success answers given so far rest on effects.                      *)
LEMMA StatusEffect ==
    ASSUME TypeOK, NEW o \in Ops, NEW status, NEW kinds, SetStatus(o, status, kinds)
    PROVE  /\ record'[o].status = status
           /\ \A p \in Ops \ {o} : record'[p] = record[p] /\ disturbed'[p] = disturbed[p]
           /\ kinds \subseteq disturbed'[o]
           /\ disturbed'[o] = {} =>
                 disturbed[o] = {} /\ (record[o].status = "succeeded" => status = "succeeded")
BY DEF TypeOK, SetStatus, Disturb, Record

(* What a takeover does to the row: the status it had or processing. *)
LEMMA ResumeEffect ==
    ASSUME TypeOK, NEW w \in Workers, Resume(w)
    PROVE  /\ ~At(w, "idle")
           /\ Op(w) \in Ops
           /\ record'[Op(w)].status \in {"processing", record[Op(w)].status}
           /\ \A p \in Ops \ {Op(w)} : record'[p] = record[p] /\ disturbed'[p] = disturbed[p]
           /\ disturbed'[Op(w)] = {} =>
                 /\ disturbed[Op(w)] = {}
                 /\ Executing(Op(w)) = {}
                 /\ record[Op(w)].status # "succeeded"
<1>1. ~At(w, "idle") /\ Op(w) \in Ops
  BY ServingType DEF Resume, At
<1> DEFINE o == Op(w)
           status == Written(Seen(w).status, "processing", record[o].status)
           token == Written(Seen(w).token, worker[w].token, record[o].token)
           row == [status |-> status, token |-> token, fingerprint |-> record[o].fingerprint]
<1>2. record' = [record EXCEPT ![o] = row]
  BY DEF Resume
<1>3. status \in {"processing", record[o].status}
  BY DEF Written
<1>4. record \in [Ops -> Record] /\ row.status = status
  BY DEF TypeOK
<1>5. record'[o].status = status /\ \A p \in Ops \ {o} : record'[p] = record[p]
  <2> HIDE DEF row, status
  <2>1. record'[o] = row /\ \A p \in Ops \ {o} : record'[p] = record[p]
    BY <1>1, <1>2, <1>4
  <2> QED
    BY <1>4, <2>1
<1>6. Disturb(o, status, (IF Executing(o) # {} THEN {"overlap"} ELSE {}) \cup
                         (IF record[o].status = "succeeded" THEN {"reopened"} ELSE {}))
  BY DEF Resume
<1>7. /\ \A p \in Ops \ {o} : disturbed'[p] = disturbed[p]
      /\ disturbed'[o] = {} =>
            disturbed[o] = {} /\ Executing(o) = {} /\ record[o].status # "succeeded"
  <2> HIDE DEF status, token
  <2> QED
    BY <1>1, <1>6 DEF Disturb, TypeOK
<1> QED
  BY <1>1, <1>3, <1>5, <1>7

(* SuccessIsApplied is preserved. *)
LEMMA SuccessStep ==
    ASSUME TypeOK, SuccessIsApplied, [Next]_vars
    PROVE  SuccessIsApplied'
<1>1. ASSUME NEW w \in Workers, NEW o \in Ops, NEW t \in Token, NEW f \in Fingerprints,
             Receive(w, o, t, f)
      PROVE  SuccessIsApplied'
  BY <1>1 DEF Receive, TypeOK, SuccessIsApplied, At, Op, Seen, NoRecord
<1>2. ASSUME NEW w \in Workers, Lookup(w)
      PROVE  SuccessIsApplied'
  BY <1>2, ServingType DEF Lookup, Goto, TypeOK, SuccessIsApplied, At, Op, Seen, Serving
<1>3. ASSUME NEW w \in Workers, Insert(w)
      PROVE  SuccessIsApplied'
  BY <1>3, ServingType DEF Insert, Goto, TypeOK, SuccessIsApplied, At, Op, Seen, Serving
<1>4. ASSUME NEW w \in Workers, RejectMismatch(w)
      PROVE  SuccessIsApplied'
  BY <1>4, ServingType DEF RejectMismatch, SetStatus, Reply, Finish, TypeOK, SuccessIsApplied, At, Op, Seen, Idle, Written
<1>5. ASSUME NEW w \in Workers, AnswerDuplicate(w)
      PROVE  SuccessIsApplied'
  BY <1>5, ServingType DEF AnswerDuplicate, Reply, Finish, TypeOK, SuccessIsApplied, At, Op, Seen, Idle
<1>6. ASSUME NEW w \in Workers, RejectLocked(w)
      PROVE  SuccessIsApplied'
  BY <1>6, ServingType DEF RejectLocked, Reply, Finish, TypeOK, SuccessIsApplied, At, Op, Seen, Idle
<1>7. ASSUME NEW w \in Workers, Resume(w)
      PROVE  SuccessIsApplied'
  BY <1>7, ServingType DEF Resume, Goto, TypeOK, SuccessIsApplied, At, Op, Seen, Serving, Written
<1>8. ASSUME NEW w \in Workers, Execute(w)
      PROVE  SuccessIsApplied'
  BY <1>8, ServingType DEF Execute, Goto, TypeOK, SuccessIsApplied, At, Op, Seen, Serving
<1>9. ASSUME NEW w \in Workers, Reject(w)
      PROVE  SuccessIsApplied'
  BY <1>9, ServingType DEF Reject, SetStatus, Reply, Finish, TypeOK, SuccessIsApplied, At, Op, Seen, Idle
<1>10. ASSUME NEW w \in Workers, RejectUnrecorded(w)
      PROVE  SuccessIsApplied'
  BY <1>10, ServingType DEF RejectUnrecorded, Reply, Finish, TypeOK, SuccessIsApplied, At, Op, Seen, Idle
<1>11. ASSUME NEW w \in Workers, Complete(w)
      PROVE  SuccessIsApplied'
  BY <1>11, ServingType DEF Complete, SetStatus, Reply, Finish, TypeOK, SuccessIsApplied, At, Op, Seen, Idle
<1>12. ASSUME NEW w \in Workers, Break(w)
      PROVE  SuccessIsApplied'
  <2>1. /\ ~At(w, "idle")
        /\ Op(w) \in Ops
        /\ Reply(w, "error")
        /\ UNCHANGED <<applied, requests>>
    BY <1>12, ServingType DEF Break, At
  <2>2. /\ \A p \in Ops \ {Op(w)} : record'[p] = record[p]
        /\ record'[Op(w)].status \in {"failed", record[Op(w)].status}
    BY <1>12, <2>1, StatusEffect DEF Break
  <2> QED
    BY <2>1, <2>2, FinishEffect DEF Reply, SuccessIsApplied, At, Op, Seen
<1>13. ASSUME NEW w \in Workers, Crash(w)
      PROVE  SuccessIsApplied'
  BY <1>13, ServingType DEF Crash, Reply, Finish, TypeOK, SuccessIsApplied, At, Op, Seen, Idle
<1>14. CASE UNCHANGED vars
  BY <1>14 DEF vars, SuccessIsApplied, At, Op, Seen
<1> QED
  BY <1>1, <1>2, <1>3, <1>4, <1>5, <1>6, <1>7, <1>8, <1>9, <1>10, <1>11, <1>12, <1>13, <1>14
  DEF Next, Begin, Handle

(* RowStays is preserved. *)
LEMMA RowStep ==
    ASSUME TypeOK, RowStays, [Next]_vars
    PROVE  RowStays'
<1>1. ASSUME NEW w \in Workers, NEW o \in Ops, NEW t \in Token, NEW f \in Fingerprints,
             Receive(w, o, t, f)
      PROVE  RowStays'
  BY <1>1 DEF Receive, TypeOK, RowStays, At, Op, Seen, NoRecord
<1>2. ASSUME NEW w \in Workers, Lookup(w)
      PROVE  RowStays'
  BY <1>2, ServingType DEF Lookup, Goto, TypeOK, RowStays, At, Op, Seen, Serving
<1>3. ASSUME NEW w \in Workers, Insert(w)
      PROVE  RowStays'
  BY <1>3, ServingType DEF Insert, Goto, TypeOK, RowStays, At, Op, Seen, Serving
<1>4. ASSUME NEW w \in Workers, RejectMismatch(w)
      PROVE  RowStays'
  BY <1>4, ServingType DEF RejectMismatch, SetStatus, Reply, Finish, TypeOK, RowStays, At, Op, Seen, Idle, Written
<1>5. ASSUME NEW w \in Workers, AnswerDuplicate(w)
      PROVE  RowStays'
  BY <1>5, ServingType DEF AnswerDuplicate, Reply, Finish, TypeOK, RowStays, At, Op, Seen, Idle
<1>6. ASSUME NEW w \in Workers, RejectLocked(w)
      PROVE  RowStays'
  BY <1>6, ServingType DEF RejectLocked, Reply, Finish, TypeOK, RowStays, At, Op, Seen, Idle
<1>7. ASSUME NEW w \in Workers, Resume(w)
      PROVE  RowStays'
  BY <1>7, ServingType DEF Resume, Goto, TypeOK, RowStays, At, Op, Seen, Serving, Written
<1>8. ASSUME NEW w \in Workers, Execute(w)
      PROVE  RowStays'
  BY <1>8, ServingType DEF Execute, Goto, TypeOK, RowStays, At, Op, Seen, Serving
<1>9. ASSUME NEW w \in Workers, Reject(w)
      PROVE  RowStays'
  BY <1>9, ServingType DEF Reject, SetStatus, Reply, Finish, TypeOK, RowStays, At, Op, Seen, Idle
<1>10. ASSUME NEW w \in Workers, RejectUnrecorded(w)
      PROVE  RowStays'
  BY <1>10, ServingType DEF RejectUnrecorded, Reply, Finish, TypeOK, RowStays, At, Op, Seen, Idle
<1>11. ASSUME NEW w \in Workers, Complete(w)
      PROVE  RowStays'
  BY <1>11, ServingType DEF Complete, SetStatus, Reply, Finish, TypeOK, RowStays, At, Op, Seen, Idle
<1>12. ASSUME NEW w \in Workers, Break(w)
      PROVE  RowStays'
  <2>1. /\ ~At(w, "idle")
        /\ Op(w) \in Ops
        /\ Reply(w, "error")
        /\ UNCHANGED <<applied, requests>>
    BY <1>12, ServingType DEF Break, At
  <2>2. /\ \A p \in Ops \ {Op(w)} : record'[p] = record[p]
        /\ record'[Op(w)].status \in {"failed", record[Op(w)].status}
    BY <1>12, <2>1, StatusEffect DEF Break
  <2> QED
    BY <2>1, <2>2, FinishEffect, ServingType DEF Reply, RowStays, At, Op, Seen
<1>13. ASSUME NEW w \in Workers, Crash(w)
      PROVE  RowStays'
  BY <1>13, ServingType DEF Crash, Reply, Finish, TypeOK, RowStays, At, Op, Seen, Idle
<1>14. CASE UNCHANGED vars
  BY <1>14 DEF vars, RowStays, At, Op, Seen
<1> QED
  BY <1>1, <1>2, <1>3, <1>4, <1>5, <1>6, <1>7, <1>8, <1>9, <1>10, <1>11, <1>12, <1>13, <1>14
  DEF Next, Begin, Handle

(* An operation that a step of w neither enters nor leaves keeps its owner. *)
LEMMA OneOwnerFrame ==
    ASSUME TypeOK, NEW w \in Workers, NEW p \in Ops, OneOwner(p),
           \A v \in Workers \ {w} : worker'[v] = worker[v],
           w \notin Executing(p), w \notin Executing(p)',
           applied'[p] = applied[p],
           \/ record'[p].status = record[p].status
           \/ {record[p].status, record'[p].status} \cap {"absent", "succeeded"} = {}
    PROVE  OneOwner(p)'
<1>1. Executing(p)' = Executing(p)
  BY ExecutingEffect
<1>2. (\E v \in Executing(p) : At(v, "committed"))' <=> \E v \in Executing(p) : At(v, "committed")
  BY <1>1 DEF At, Executing
<1> QED
  BY <1>1, <1>2 DEF OneOwner

(* The only owner of an operation finishes without an effect. *)
LEMMA OwnerLeaves ==
    ASSUME TypeOK, NEW w \in Workers, NEW p \in Ops, OneOwner(p),
           At(w, "execute"), Op(w) = p, Finish(w), applied'[p] = applied[p],
           record'[p].status \in {"failed", "conflict", record[p].status}
    PROVE  OneOwner(p)'
<1>1. w \in Executing(p) /\ ~At(w, "committed")
  BY DEF Executing, Op, At
<1>2. Executing(p) = {w}
  BY <1>1 DEF OneOwner
<1>3. applied[p] = 0 /\ record[p].status \notin {"absent", "succeeded"}
  BY <1>1, <1>2 DEF OneOwner
<1>4. Executing(p)' = {}
  BY <1>2, FinishEffect DEF Executing
<1> QED
  BY <1>3, <1>4 DEF OneOwner

(* An operation without an owner or an effect gets one. *)
LEMMA OwnerEnters ==
    ASSUME TypeOK, NEW w \in Workers, NEW p \in Ops, Executing(p) = {}, applied[p] = 0,
           ~At(w, "idle"), Op(w) = p, Goto(w, "execute"), applied'[p] = 0,
           record'[p].status \notin {"absent", "succeeded"}
    PROVE  OneOwner(p)'
<1>1. Executing(p)' = {w} /\ worker'[w].pc = "execute"
  BY GotoEffect DEF Executing, Op
<1> QED
  BY <1>1 DEF OneOwner, At

(* UndisturbedHasOneOwner is preserved. *)
LEMMA OneOwnerStep ==
    ASSUME TypeOK, RowStays, UndisturbedHasOneOwner, [Next]_vars
    PROVE  UndisturbedHasOneOwner'
<1> SUFFICES ASSUME NEW p \in Ops, disturbed'[p] = {}
             PROVE  OneOwner(p)'
  BY DEF UndisturbedHasOneOwner
<1> USE DEF UndisturbedHasOneOwner
<1>1. ASSUME NEW w \in Workers, NEW o \in Ops, NEW t \in Token, NEW f \in Fingerprints,
             Receive(w, o, t, f)
      PROVE  OneOwner(p)'
  <2>1. worker'[w].pc = "lookup" /\ \A v \in Workers \ {w} : worker'[v] = worker[v]
    BY <1>1 DEF Receive, TypeOK
  <2>2. w \notin Executing(p) /\ w \notin Executing(p)'
    BY <1>1, <2>1 DEF Receive, Executing, At
  <2> QED
    BY <1>1, <2>1, <2>2, OneOwnerFrame DEF Receive
<1>2. ASSUME NEW w \in Workers, Lookup(w)
      PROVE  OneOwner(p)'
  <2>1. worker'[w].pc = "claim" /\ \A v \in Workers \ {w} : worker'[v] = worker[v]
    BY <1>2, ServingType DEF Lookup, TypeOK, At, Serving
  <2>2. w \notin Executing(p) /\ w \notin Executing(p)'
    BY <1>2, <2>1 DEF Lookup, Executing, At
  <2> QED
    BY <1>2, <2>1, <2>2, OneOwnerFrame DEF Lookup
<1>3. ASSUME NEW w \in Workers, Insert(w)
      PROVE  OneOwner(p)'
  <2>1. ~At(w, "idle") /\ Op(w) \in Ops /\ w \notin Executing(p)
    BY <1>3, ServingType DEF Insert, At, Executing
  <2>2. OneOwner(p)
    BY <1>3 DEF Insert
  <2>3. CASE record[Op(w)].status = "absent" /\ p = Op(w)
    <3>1. record'[p].status = "processing"
      BY <1>3, <2>1, <2>3 DEF Insert, TypeOK
    <3>2. Executing(p) = {} /\ applied[p] = 0
      BY <2>2, <2>3 DEF OneOwner
    <3> QED
      BY <1>3, <2>1, <2>3, <3>1, <3>2, OwnerEnters DEF Insert
  <2>4. CASE ~(record[Op(w)].status = "absent" /\ p = Op(w))
    <3>1. /\ record'[p] = record[p]
          /\ \E pc \in {"execute", "lookup"} :
                Goto(w, pc) /\ (pc = "execute" => p # Op(w))
      BY <1>3, <2>1, <2>4 DEF Insert, TypeOK
    <3>2. \A v \in Workers \ {w} : worker'[v] = worker[v]
      BY <2>1, <3>1, GotoEffect
    <3>3. w \notin Executing(p)'
      BY <2>1, <3>1, GotoEffect DEF Executing, Op
    <3> QED
      BY <1>3, <2>1, <2>2, <3>1, <3>2, <3>3, OneOwnerFrame DEF Insert
  <2> QED
    BY <2>3, <2>4
<1>4. ASSUME NEW w \in Workers, RejectMismatch(w)
      PROVE  OneOwner(p)'
  <2> DEFINE status == Written(Seen(w).status, "conflict", record[Op(w)].status)
  <2>1. ~At(w, "idle") /\ Op(w) \in Ops /\ w \notin Executing(p)
    BY <1>4, ServingType DEF RejectMismatch, At, Executing
  <2>2. SetStatus(Op(w), status, {}) /\ Finish(w) /\ applied' = applied
    BY <1>4 DEF RejectMismatch, Reply
  <2>3. status \in {"conflict", record[Op(w)].status}
    BY DEF Written
  <2>4. record[Op(w)].status # "absent"
    BY <1>4, <2>1 DEF RowStays, RejectMismatch
  <2>5. /\ \A v \in Workers \ {w} : worker'[v] = worker[v]
        /\ w \notin Executing(p)'
    BY <2>2, FinishEffect DEF Executing
  <2>6. disturbed[p] = {} /\ (\/ record'[p].status = record[p].status
                            \/ {record[p].status, record'[p].status} \cap {"absent", "succeeded"} = {})
    <3> HIDE DEF status
    <3> QED
      BY <2>1, <2>2, <2>3, <2>4, StatusEffect
  <2> QED
    BY <2>1, <2>2, <2>5, <2>6, OneOwnerFrame
<1>5. ASSUME NEW w \in Workers, AnswerDuplicate(w) \/ RejectLocked(w)
      PROVE  OneOwner(p)'
  <2>1. /\ w \notin Executing(p)
        /\ Finish(w)
        /\ UNCHANGED <<record, applied, disturbed>>
    BY <1>5 DEF AnswerDuplicate, RejectLocked, Reply, At, Executing
  <2>2. w \notin Executing(p)' /\ \A v \in Workers \ {w} : worker'[v] = worker[v]
    BY <2>1, FinishEffect DEF Executing
  <2> QED
    BY <2>1, <2>2, OneOwnerFrame
<1>6. ASSUME NEW w \in Workers, Resume(w)
      PROVE  OneOwner(p)'
  <2>1. ~At(w, "idle") /\ Op(w) \in Ops /\ w \notin Executing(p)
    BY <1>6, ServingType DEF Resume, At, Executing
  <2>2. Goto(w, "execute") /\ applied' = applied
    BY <1>6 DEF Resume
  <2>3. CASE p = Op(w)
    <3>1. disturbed[p] = {} /\ Executing(p) = {} /\ record[p].status # "succeeded"
      BY <1>6, <2>3, ResumeEffect
    <3>2. record[p].status # "absent"
      BY <1>6, <2>1, <2>3 DEF RowStays, Resume
    <3>3. applied[p] = 0
      BY <3>1 DEF OneOwner
    <3>4. record'[p].status \notin {"absent", "succeeded"}
      BY <1>6, <2>3, <3>1, <3>2, ResumeEffect
    <3> QED
      BY <2>1, <2>2, <2>3, <3>1, <3>3, <3>4, OwnerEnters
  <2>4. CASE p # Op(w)
    <3>1. record'[p] = record[p] /\ disturbed'[p] = disturbed[p]
      BY <1>6, <2>4, ResumeEffect
    <3>2. w \notin Executing(p)' /\ \A v \in Workers \ {w} : worker'[v] = worker[v]
      BY <2>1, <2>2, <2>4, GotoEffect DEF Executing, Op
    <3> QED
      BY <2>1, <2>2, <3>1, <3>2, OneOwnerFrame
  <2> QED
    BY <2>3, <2>4
<1>7. ASSUME NEW w \in Workers, Execute(w)
      PROVE  OneOwner(p)'
  <2>1. ~At(w, "idle") /\ At(w, "execute") /\ Op(w) \in Ops /\ Goto(w, "committed")
    BY <1>7, ServingType DEF Execute, At
  <2>2. /\ worker'[w].pc = "committed"
        /\ Op(w)' = Op(w)
        /\ \A v \in Workers \ {w} : worker'[v] = worker[v]
    BY <2>1, GotoEffect
  <2>3. OneOwner(p) /\ record' = record
    BY <1>7 DEF Execute
  <2>4. CASE p = Op(w)
    <3>1. w \in Executing(p) /\ ~At(w, "committed")
      BY <2>1, <2>4 DEF Executing, Op, At
    <3>2. Executing(p) = {w} /\ record[p].status \notin {"absent", "succeeded"}
      BY <2>3, <3>1 DEF OneOwner
    <3>3. applied[p] = 0
      BY <2>3, <3>1, <3>2 DEF OneOwner
    <3>4. applied'[p] = 1
      BY <1>7, <2>4, <3>3 DEF Execute, TypeOK
    <3>5. Executing(p)' = {w}
      BY <2>2, <2>4, <3>2 DEF Executing, Op
    <3> QED
      BY <2>2, <2>3, <3>2, <3>4, <3>5 DEF OneOwner, At
  <2>5. CASE p # Op(w)
    <3>1. applied'[p] = applied[p]
      BY <1>7, <2>1, <2>5 DEF Execute, TypeOK
    <3>2. w \notin Executing(p) /\ w \notin Executing(p)'
      BY <2>2, <2>5 DEF Executing, Op
    <3> QED
      BY <2>2, <2>3, <3>1, <3>2, OneOwnerFrame
  <2> QED
    BY <2>4, <2>5
<1>8. ASSUME NEW w \in Workers, Reject(w)
      PROVE  OneOwner(p)'
  <2>1. PICK outcome \in {"failed", "conflict"} : SetStatus(Op(w), outcome, {})
    BY <1>8 DEF Reject
  <2>2. /\ ~At(w, "idle") /\ At(w, "execute") /\ Op(w) \in Ops
        /\ Finish(w) /\ applied' = applied
    BY <1>8, ServingType DEF Reject, At, Reply
  <2>3. disturbed[p] = {}
    BY <2>1, <2>2, StatusEffect
  <2>4. CASE p = Op(w)
    <3>1. record'[p].status = outcome
      BY <2>1, <2>2, <2>4, StatusEffect
    <3> QED
      BY <2>2, <2>3, <2>4, <3>1, OwnerLeaves
  <2>5. CASE p # Op(w)
    <3>1. record'[p] = record[p]
      BY <2>1, <2>2, <2>5, StatusEffect
    <3>2. /\ w \notin Executing(p) /\ w \notin Executing(p)'
          /\ \A v \in Workers \ {w} : worker'[v] = worker[v]
      BY <2>2, <2>5, FinishEffect DEF Executing, Op
    <3> QED
      BY <2>2, <2>3, <3>1, <3>2, OneOwnerFrame
  <2> QED
    BY <2>4, <2>5
<1>9. ASSUME NEW w \in Workers, RejectUnrecorded(w)
      PROVE  OneOwner(p)'
  <2>1. /\ ~At(w, "idle") /\ At(w, "execute") /\ Op(w) \in Ops /\ Finish(w)
        /\ UNCHANGED <<record, applied, disturbed>>
    BY <1>9, ServingType DEF RejectUnrecorded, At, Reply
  <2>2. CASE p = Op(w)
    BY <2>1, <2>2, OwnerLeaves
  <2>3. CASE p # Op(w)
    <3>1. /\ w \notin Executing(p) /\ w \notin Executing(p)'
          /\ \A v \in Workers \ {w} : worker'[v] = worker[v]
      BY <2>1, <2>3, FinishEffect DEF Executing, Op
    <3> QED
      BY <2>1, <3>1, OneOwnerFrame
  <2> QED
    BY <2>2, <2>3
<1>10. ASSUME NEW w \in Workers, Complete(w)
       PROVE  OneOwner(p)'
  <2>1. /\ ~At(w, "idle") /\ At(w, "committed") /\ Op(w) \in Ops /\ Finish(w)
        /\ SetStatus(Op(w), "succeeded", {}) /\ applied' = applied
    BY <1>10, ServingType DEF Complete, At, Reply
  <2>2. OneOwner(p)
    BY <2>1, StatusEffect
  <2>3. /\ worker'[w].pc = "idle"
        /\ \A v \in Workers \ {w} : worker'[v] = worker[v]
    BY <2>1, FinishEffect
  <2>4. CASE p = Op(w)
    <3>1. w \in Executing(p)
      BY <2>1, <2>4 DEF Executing, Op, At
    <3>2. Executing(p) = {w} /\ applied[p] = 1
      BY <2>1, <2>2, <3>1 DEF OneOwner
    <3>3. Executing(p)' = {}
      BY <2>3, <3>2 DEF Executing
    <3>4. record'[p].status = "succeeded"
      BY <2>1, <2>4, StatusEffect
    <3> QED
      BY <2>1, <3>2, <3>3, <3>4 DEF OneOwner
  <2>5. CASE p # Op(w)
    <3>1. record'[p] = record[p]
      BY <2>1, <2>5, StatusEffect
    <3>2. w \notin Executing(p) /\ w \notin Executing(p)'
      BY <2>3, <2>5 DEF Executing, Op
    <3> QED
      BY <2>1, <2>2, <2>3, <3>1, <3>2, OneOwnerFrame
  <2> QED
    BY <2>4, <2>5
<1>11. ASSUME NEW w \in Workers, Break(w) \/ Crash(w)
       PROVE  OneOwner(p)'
  <2> DEFINE kinds == IF At(w, "committed") THEN {"lost_ack"} ELSE {}
  <2>1. /\ ~At(w, "idle") /\ Op(w) \in Ops /\ Finish(w) /\ applied' = applied
    BY <1>11, ServingType DEF Break, Crash, At, Reply
  <2>2. \/ SetStatus(Op(w), "failed", kinds) /\ worker[w].pc \in {"execute", "committed"}
        \/ Disturb(Op(w), record[Op(w)].status, kinds) /\ UNCHANGED record
    BY <1>11 DEF Break, Crash
  <2>3. /\ disturbed[p] = {}
        /\ p # Op(w) => record'[p] = record[p]
        /\ p = Op(w) => /\ kinds = {}
                        /\ record'[p].status \in {"failed", record[p].status}
                        /\ ~At(w, "execute") => record'[p] = record[p]
    <3>1. CASE SetStatus(Op(w), "failed", kinds) /\ worker[w].pc \in {"execute", "committed"}
      <4>1. /\ disturbed[p] = {}
            /\ p # Op(w) => record'[p] = record[p]
            /\ p = Op(w) => kinds = {} /\ record'[p].status = "failed"
        <5> HIDE DEF kinds
        <5> QED
          BY <2>1, <3>1, StatusEffect
      <4>2. p = Op(w) => At(w, "execute")
        BY <3>1, <4>1 DEF At
      <4> QED
        BY <4>1, <4>2
    <3>2. CASE Disturb(Op(w), record[Op(w)].status, kinds) /\ UNCHANGED record
      <4>1. disturbed[p] = {} /\ (p = Op(w) => kinds = {})
        <5> HIDE DEF kinds
        <5> QED
          BY <2>1, <3>2 DEF Disturb, TypeOK
      <4> QED
        BY <3>2, <4>1
    <3> QED
      BY <2>2, <3>1, <3>2
  <2>4. OneOwner(p)
    BY <2>3
  <2>5. CASE p = Op(w) /\ At(w, "execute")
    BY <2>1, <2>3, <2>4, <2>5, OwnerLeaves
  <2>6. CASE p # Op(w) \/ ~At(w, "execute")
    <3>1. /\ w \notin Executing(p) /\ w \notin Executing(p)'
          /\ \A v \in Workers \ {w} : worker'[v] = worker[v]
      BY <2>1, <2>3, <2>6, FinishEffect DEF Executing, Op, At
    <3> QED
      BY <2>1, <2>3, <2>4, <2>6, <3>1, OneOwnerFrame
  <2> QED
    BY <2>5, <2>6
<1>12. CASE UNCHANGED vars
  BY <1>12 DEF vars, OneOwner, Executing, At
<1> QED
  BY <1>1, <1>2, <1>3, <1>4, <1>5, <1>6, <1>7, <1>8, <1>9, <1>10, <1>11, <1>12
  DEF Next, Begin, Handle

-----------------------------------------------------------------------------
(* The inductive invariant of the guard holds in every reachable state: the *)
(* row of an operation, the workers that serve it and the number of its     *)
(* commits agree.                                                           *)
THEOREM InvariantHolds == Spec => []ReplayInvariant
<1>1. Init => SuccessIsApplied /\ RowStays /\ UndisturbedHasOneOwner
  BY DEF Init, SuccessIsApplied, RowStays, UndisturbedHasOneOwner, OneOwner, Executing,
         At, NoRecord, Idle
<1>2. TypeOK /\ SuccessIsApplied /\ RowStays /\ UndisturbedHasOneOwner /\ [Next]_vars
      => (SuccessIsApplied /\ RowStays /\ UndisturbedHasOneOwner)'
  BY SuccessStep, RowStep, OneOwnerStep
<1> QED
  BY <1>1, <1>2, TypeCorrect, PTL DEF Spec, ReplayInvariant

(* The applied counters change in Execute only, by one. *)
LEMMA AppliedEffect ==
    ASSUME TypeOK, [Next]_vars, NEW o \in Ops
    PROVE  applied'[o] = applied[o] \/
           (applied'[o] = applied[o] + 1 /\ \E w \in Workers : Execute(w) /\ Op(w) = o)
<1>1. applied' = applied \/ \E w \in Workers : Execute(w)
  BY DEF Next, Begin, Handle, vars, Receive, Lookup, Insert, RejectMismatch, AnswerDuplicate,
         RejectLocked, Resume, Reject, RejectUnrecorded, Complete, Break, Crash
<1> QED
  BY <1>1 DEF Execute, TypeOK

(* A step that adds a success answer for an operation finds it applied, and *)
(* leaves the applied counters alone.                                       *)
LEMMA AnswerStep ==
    ASSUME ReplayInvariant, [Next]_vars, NEW o \in Ops,
           answers'[o] \cap {"acknowledged", "duplicate"} #
               answers[o] \cap {"acknowledged", "duplicate"}
    PROVE  applied[o] > 0 /\ UNCHANGED <<applied, disturbed>>
<1> USE DEF ReplayInvariant
<1>1. PICK w \in Workers, kind \in Answer :
        /\ answers' = [answers EXCEPT ![Op(w)] = @ \cup {kind}]
        /\ kind \in {"acknowledged", "duplicate"} => AnswerDuplicate(w) \/ Complete(w)
  BY DEF Next, Begin, Handle, vars, Receive, Lookup, Insert, RejectMismatch, AnswerDuplicate,
         RejectLocked, Resume, Execute, Reject, RejectUnrecorded, Complete, Break, Crash,
         Reply, Answer
<1>2. o = Op(w) /\ kind \in {"acknowledged", "duplicate"}
  BY <1>1 DEF TypeOK
<1>3. CASE AnswerDuplicate(w)
  BY <1>2, <1>3 DEF AnswerDuplicate, SuccessIsApplied, At
<1>4. CASE Complete(w)
  <2>1. At(w, "committed") /\ applied' = applied /\ Disturb(o, "succeeded", {})
    BY <1>2, <1>4 DEF Complete, SetStatus
  <2>2. disturbed' = disturbed
    BY <2>1 DEF Disturb, TypeOK
  <2> QED
    BY <1>2, <2>1, <2>2 DEF SuccessIsApplied
<1> QED
  BY <1>1, <1>2, <1>3, <1>4

(* Every operation that a client was told has succeeded is applied.         *)
THEOREM AcknowledgedTheorem == Spec => []AcknowledgedIsApplied
<1>1. Init => AcknowledgedIsApplied
  BY DEF Init, AcknowledgedIsApplied
<1>2. ReplayInvariant /\ AcknowledgedIsApplied /\ [Next]_vars => AcknowledgedIsApplied'
  <2> SUFFICES ASSUME ReplayInvariant, AcknowledgedIsApplied, [Next]_vars, NEW o \in Ops,
                      answers'[o] \cap {"acknowledged", "duplicate"} # {}
               PROVE  applied'[o] > 0
    BY DEF AcknowledgedIsApplied
  <2>1. applied[o] > 0
    BY AnswerStep DEF AcknowledgedIsApplied
  <2> QED
    BY <2>1, AppliedEffect DEF ReplayInvariant, TypeOK
<1> QED
  BY <1>1, <1>2, InvariantHolds, PTL DEF Spec

(* An operation nothing disturbed is applied once at most.                  *)
THEOREM OnceTheorem == Spec => []AppliedOnceUnlessDisturbed
<1>1. ReplayInvariant => AppliedOnceUnlessDisturbed
  BY DEF ReplayInvariant, UndisturbedHasOneOwner, OneOwner, AppliedOnceUnlessDisturbed
<1> QED
  BY <1>1, InvariantHolds, PTL

(* A worker executes an operation only after it read a row that did not say  *)
(* succeeded, or no row.                                                     *)
SawNoSuccess ==
    \A w \in Workers : worker[w].pc \in {"execute", "committed"} => Seen(w).status # "succeeded"

LEMMA SawNoSuccessHolds == Spec => []SawNoSuccess
<1>1. Init => SawNoSuccess
  BY DEF Init, SawNoSuccess, Idle
<1>2. TypeOK /\ SawNoSuccess /\ [Next]_vars => SawNoSuccess'
  <2> SUFFICES ASSUME TypeOK, SawNoSuccess, [Next]_vars
               PROVE  SawNoSuccess'
    OBVIOUS
  <2>1. ASSUME NEW w \in Workers, NEW pc \in {"lookup", "claim", "execute", "committed"},
               ~At(w, "idle"), Goto(w, pc),
               pc \in {"execute", "committed"} => Seen(w).status # "succeeded"
        PROVE  SawNoSuccess'
    BY <2>1, GotoEffect DEF SawNoSuccess, Seen
  <2>2. ASSUME NEW w \in Workers, Finish(w)
        PROVE  SawNoSuccess'
    BY <2>2, FinishEffect DEF SawNoSuccess, Seen
  <2>3. ASSUME NEW w \in Workers, NEW o \in Ops, NEW t \in Token, NEW f \in Fingerprints,
               Receive(w, o, t, f)
        PROVE  SawNoSuccess'
    BY <2>3 DEF Receive, TypeOK, SawNoSuccess, Seen
  <2>4. ASSUME NEW w \in Workers, Lookup(w)
        PROVE  SawNoSuccess'
    BY <2>4, ServingType DEF Lookup, TypeOK, SawNoSuccess, Seen, At, Serving
  <2>5. ASSUME NEW w \in Workers, Insert(w) \/ Resume(w) \/ Execute(w)
        PROVE  SawNoSuccess'
    BY <2>1, <2>5 DEF Insert, Resume, Execute, At, SawNoSuccess
  <2>6. ASSUME NEW w \in Workers,
               \/ RejectMismatch(w) \/ AnswerDuplicate(w) \/ RejectLocked(w) \/ Reject(w)
               \/ RejectUnrecorded(w) \/ Complete(w) \/ Break(w) \/ Crash(w)
        PROVE  SawNoSuccess'
    BY <2>2, <2>6
    DEF RejectMismatch, AnswerDuplicate, RejectLocked, Reject, RejectUnrecorded, Complete,
        Break, Crash, Reply
  <2>7. CASE UNCHANGED vars
    BY <2>7 DEF vars, SawNoSuccess, Seen
  <2> QED
    BY <2>3, <2>4, <2>5, <2>6, <2>7 DEF Next, Begin, Handle
<1> QED
  BY <1>1, <1>2, TypeCorrect, PTL DEF Spec

(* A row that says succeeded is taken back only by a request with another    *)
(* fingerprint, or by a worker that looked it up before it succeeded.        *)
THEOREM FinalTheorem == Spec => SucceededIsFinal
<1> DEFINE Taker(w, o) ==
        /\ worker[w].pc \in {"claim", "execute", "committed"}
        /\ Op(w) = o
        /\ \/ Seen(w).status # "succeeded"
           \/ Seen(w).fingerprint # worker[w].fingerprint
    TakenBack(o) == record[o].status = "succeeded" /\ record'[o].status # "succeeded"
    Final == \A o \in Ops : TakenBack(o) => \E w \in Workers : Taker(w, o)
<1>1. TypeOK /\ SawNoSuccess /\ [Next]_vars => [Final]_vars
  <2> SUFFICES ASSUME TypeOK, SawNoSuccess, Next, NEW o \in Ops, TakenBack(o)
               PROVE  \E w \in Workers : Taker(w, o)
    OBVIOUS
  <2>1. ASSUME NEW w \in Workers, NEW status, NEW kinds, ~At(w, "idle"),
               SetStatus(Op(w), status, kinds)
        PROVE  Op(w) = o
    BY <2>1, ServingType, StatusEffect
  <2>2. ASSUME NEW w \in Workers, Insert(w)
        PROVE  FALSE
    BY <2>2, ServingType DEF Insert, TypeOK, At
  <2>3. ASSUME NEW w \in Workers, RejectMismatch(w)
        PROVE  Taker(w, o)
    BY <2>1, <2>3 DEF RejectMismatch, At
  <2>4. ASSUME NEW w \in Workers, Resume(w)
        PROVE  Taker(w, o)
    <3>1. Op(w) = o
      BY <2>4, ResumeEffect
    <3> QED
      BY <2>4, <3>1 DEF Resume, At
  <2>5. ASSUME NEW w \in Workers, Reject(w)
        PROVE  Taker(w, o)
    BY <2>1, <2>5 DEF Reject, At, SawNoSuccess
  <2>6. ASSUME NEW w \in Workers, Complete(w)
        PROVE  FALSE
    BY <2>6, ServingType, StatusEffect DEF Complete, At
  <2>7. ASSUME NEW w \in Workers, Break(w)
        PROVE  Taker(w, o)
    <3> DEFINE kinds == IF At(w, "committed") THEN {"lost_ack"} ELSE {}
    <3>1. SetStatus(Op(w), "failed", kinds) /\ worker[w].pc \in {"execute", "committed"}
      BY <2>7 DEF Break
    <3>2. Op(w) = o
      <4> HIDE DEF kinds
      <4> QED
        BY <2>1, <3>1 DEF At
    <3> QED
      BY <3>1, <3>2 DEF SawNoSuccess
  <2>8. ASSUME NEW w \in Workers,
               \/ Lookup(w) \/ AnswerDuplicate(w) \/ RejectLocked(w) \/ Execute(w)
               \/ RejectUnrecorded(w) \/ Crash(w)
               \/ \E p \in Ops, t \in Token, f \in Fingerprints : Receive(w, p, t, f)
        PROVE  FALSE
    BY <2>8
    DEF Lookup, AnswerDuplicate, RejectLocked, Execute, RejectUnrecorded, Crash, Receive
  <2> HIDE DEF Taker, TakenBack
  <2> QED
    BY <2>2, <2>3, <2>4, <2>5, <2>6, <2>7, <2>8 DEF Next, Begin, Handle
<1>2. [][Final]_vars => SucceededIsFinal
  BY DEF SucceededIsFinal
<1> QED
  BY <1>1, <1>2, TypeCorrect, SawNoSuccessHolds, PTL DEF Spec

-----------------------------------------------------------------------------
(* The refinement mapping, named for the proof. *)
Promised == {o \in Ops : answers[o] \cap {"acknowledged", "duplicate"} # {}}

Exposed == {o \in Ops : disturbed[o] # {}}

(* A step that is disturbed or answers no success maps to an exposure of its *)
(* operation or to a stuttering step.                                        *)
LEMMA ExposeStep ==
    ASSUME TypeOK, NEW o \in Ops, applied' = applied, NEW kinds, NEW kind \in Answer,
           kind \notin {"acknowledged", "duplicate"},
           answers' \in {answers, [answers EXCEPT ![o] = @ \cup {kind}]},
           disturbed' \in {disturbed, [disturbed EXCEPT ![o] = @ \cup kinds]}
    PROVE  Contract!Expose(o) \/ UNCHANGED <<applied, Promised, Exposed>>
<1>1. Promised' = Promised
  BY DEF TypeOK, Promised
<1>2. Exposed' = Exposed \/ Exposed' = Exposed \cup {o}
  BY DEF TypeOK, Exposed
<1> QED
  BY <1>1, <1>2 DEF Contract!Expose, Promised, Exposed

LEMMA PromiseStep ==
    ASSUME TypeOK, NEW o \in Ops, applied' = applied, disturbed' = disturbed, applied[o] > 0,
           NEW kind \in {"acknowledged", "duplicate"},
           answers' = [answers EXCEPT ![o] = @ \cup {kind}]
    PROVE  Contract!Promise(o)
<1>1. Promised' = Promised \cup {o}
  BY DEF TypeOK, Promised
<1> QED
  BY <1>1 DEF Contract!Promise, Promised

(* The guard implements its contract.                                       *)
THEOREM ContractTheorem == Spec => ImplementsContract
<1>1. Init => Contract!Init
  BY DEF Init, Contract!Init
<1>2. ReplayInvariant /\ [Next]_vars => [Contract!Next]_(Contract!vars)
  <2> SUFFICES ASSUME ReplayInvariant, [Next]_vars
               PROVE  Contract!Next \/ UNCHANGED <<applied, Promised, Exposed>>
    BY DEF Contract!vars, Promised, Exposed
  <2> USE DEF ReplayInvariant
  <2>1. ASSUME NEW w \in Workers,
               \/ Lookup(w) \/ Insert(w)
               \/ \E o \in Ops, t \in Token, f \in Fingerprints : Receive(w, o, t, f)
        PROVE  UNCHANGED <<applied, Promised, Exposed>>
    BY <2>1 DEF Lookup, Insert, Receive, Promised, Exposed
  <2>2. ASSUME NEW w \in Workers, Execute(w)
        PROVE  Contract!Next
    <3>1. Op(w) \in Ops /\ w \in Executing(Op(w))
      BY <2>2, ServingType DEF Execute, At, Executing, Op
    <3>2. applied[Op(w)] = 0 \/ disturbed[Op(w)] # {}
      <4> SUFFICES ASSUME disturbed[Op(w)] = {}
                   PROVE  applied[Op(w)] = 0
        OBVIOUS
      <4>1. OneOwner(Op(w))
        BY <3>1 DEF UndisturbedHasOneOwner
      <4>2. Executing(Op(w)) = {w} /\ ~At(w, "committed")
        BY <2>2, <3>1, <4>1 DEF OneOwner, Execute, At
      <4> QED
        BY <4>1, <4>2 DEF OneOwner
    <3>3. Contract!TakeEffect(Op(w))
      BY <2>2, <3>1, <3>2 DEF Contract!TakeEffect, Execute
    <3> QED
      BY <3>1, <3>3 DEF Contract!Next
  <2>3. ASSUME NEW w \in Workers, AnswerDuplicate(w)
        PROVE  Contract!Next
    <3>1. PICK o \in Ops : o = Op(w) /\ applied[o] > 0
      BY <2>3, ServingType DEF AnswerDuplicate, SuccessIsApplied, At
    <3>2. Contract!Promise(o)
      BY <2>3, <3>1, PromiseStep DEF AnswerDuplicate, Reply
    <3> QED
      BY <3>2 DEF Contract!Next
  <2>4. ASSUME NEW w \in Workers, Complete(w)
        PROVE  Contract!Next
    <3>1. PICK o \in Ops : o = Op(w) /\ applied[o] > 0
      BY <2>4, ServingType DEF Complete, SuccessIsApplied, At
    <3>2. disturbed' = disturbed
      BY <2>4, <3>1 DEF Complete, SetStatus, Disturb, TypeOK
    <3>3. Contract!Promise(o)
      BY <2>4, <3>1, <3>2, PromiseStep DEF Complete, Reply
    <3> QED
      BY <3>3 DEF Contract!Next
  <2>5. ASSUME NEW w \in Workers,
               \/ RejectMismatch(w) \/ RejectLocked(w) \/ Resume(w) \/ Reject(w)
               \/ RejectUnrecorded(w) \/ Break(w) \/ Crash(w)
        PROVE  Contract!Next \/ UNCHANGED <<applied, Promised, Exposed>>
    <3>1. PICK o \in Ops : o = Op(w)
      BY <2>5, ServingType
      DEF RejectMismatch, RejectLocked, Resume, Reject, RejectUnrecorded, Break, Crash, At
    <3>2. applied' = applied
      BY <2>5, <3>1
      DEF RejectMismatch, RejectLocked, Resume, Reject, RejectUnrecorded, Break, Crash
    <3>3. \E kind \in Answer \ {"acknowledged", "duplicate"} :
            answers' \in {answers, [answers EXCEPT ![o] = @ \cup {kind}]}
      BY <2>5, <3>1
      DEF RejectMismatch, RejectLocked, Resume, Reject, RejectUnrecorded, Break, Crash,
          Reply, Answer
    <3>4. disturbed' = disturbed \/ \E status, kinds : Disturb(o, status, kinds)
      BY <2>5, <3>1
      DEF RejectMismatch, RejectLocked, Resume, Reject, RejectUnrecorded, Break, Crash, SetStatus
    <3>5. \E kinds : disturbed' \in {disturbed, [disturbed EXCEPT ![o] = @ \cup kinds]}
      <4>1. CASE disturbed' = disturbed
        BY <4>1
      <4>2. ASSUME NEW status, NEW kinds, Disturb(o, status, kinds)
            PROVE  \E all : disturbed' = [disturbed EXCEPT ![o] = @ \cup all]
        <5> DEFINE more == IF record[o].status = "succeeded" /\ status # "succeeded"
                           THEN {"reopened"} ELSE {}
        <5>1. disturbed' = [disturbed EXCEPT ![o] = (@ \cup kinds) \cup more]
          BY <4>2 DEF Disturb
        <5>2. disturbed' = [disturbed EXCEPT ![o] = @ \cup (kinds \cup more)]
          <6> HIDE DEF more
          <6> QED
            BY <5>1, Zenon
        <5> QED
          BY <5>2
      <4> QED
        BY <3>4, <4>1, <4>2
    <3>6. Contract!Expose(o) \/ UNCHANGED <<applied, Promised, Exposed>>
      BY <3>1, <3>2, <3>3, <3>5, ExposeStep
    <3> QED
      BY <3>6 DEF Contract!Next
  <2>6. CASE UNCHANGED vars
    BY <2>6 DEF vars, Promised, Exposed
  <2> QED
    BY <2>1, <2>2, <2>3, <2>4, <2>5, <2>6 DEF Next, Begin, Handle
<1> QED
  BY <1>1, <1>2, InvariantHolds, PTL DEF Spec, Contract!Spec, ImplementsContract
=============================================================================
