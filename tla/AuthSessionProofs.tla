--------------------------- MODULE AuthSessionProofs ---------------------------
(***************************************************************************)
(* Proofs about the session of a browser, for any number of tabs, requests, *)
(* pairs of tokens and faults.                                              *)
(***************************************************************************)
EXTENDS AuthSession, TLAPS

Record == [pc : Pc, pair : Pairs \cup {NoPair}, retried : BOOLEAN]

(* What the steps of a request have in common: it moves, the others stay. *)
Moves(c, pc, p) ==
    /\ call' \in [Calls -> Record]
    /\ call'[c].pc = pc /\ call'[c].pair = p
    /\ \A d \in Calls \ {c} : call'[d] = call[d]

LEMMA GotoMoves ==
    ASSUME TypeOK, NEW c \in Calls, NEW pc \in Pc, Goto(c, pc) PROVE Moves(c, pc, Pair(c))
BY DEF TypeOK, Goto, Pair, Moves, Record

LEMMA SendWithMoves ==
    ASSUME TypeOK, NEW c \in Calls, NEW pc \in Pc, NEW p \in Pairs \cup {NoPair}, SendWith(c, pc, p)
    PROVE  Moves(c, pc, p)
BY DEF TypeOK, SendWith, Moves, Record

LEMMA EndMoves ==
    ASSUME TypeOK, NEW c \in Calls, End(c) PROVE Moves(c, "idle", NoPair)
BY DEF TypeOK, End, Moves, Record, Idle, Pc

LEMMA PcValues ==
    \A pc \in {"idle", "request", "refresh", "rotating", "rotated", "renewed", "refused", "expired"} :
        pc \in Pc
BY DEF Pc

LEMMA SendRefreshMoves ==
    ASSUME TypeOK, NEW c \in Calls, NEW again \in BOOLEAN, SendRefresh(c, again)
    PROVE  \/ saved = NoPair /\ Moves(c, "expired", Pair(c)) /\ UNCHANGED disturbed
           \/ /\ saved # NoPair /\ Moves(c, "refresh", saved)
              /\ \/ disturbed' = TRUE
                 \/ UNCHANGED disturbed /\ \A d \in Calls \ {c} : call[d].pc \notin Trading
<1>1. CASE saved = NoPair
  BY <1>1, GotoMoves, PcValues DEF SendRefresh
<1>2. CASE saved # NoPair
  <2>1. call' = [call EXCEPT ![c].pc = "refresh", ![c].pair = saved, ![c].retried = again]
    BY <1>2 DEF SendRefresh
  <2>2. Moves(c, "refresh", saved)
    BY <2>1, PcValues DEF TypeOK, Moves, Record
  <2> QED
    BY <1>2, <2>2 DEF SendRefresh, Disturb
<1> QED
  BY <1>1, <1>2

-----------------------------------------------------------------------------
(* Types, and that nothing refers to a pair that does not exist yet. *)
Fresh ==
    /\ saved <= issued
    /\ \A t \in Tabs : leaving[t] <= issued
    /\ \A p \in Pairs : p > issued => refresh[p] = "none" /\ parent[p] = NoPair

TInv == TypeOK /\ Fresh

\* A step that leaves the tokens of the server alone.
LEMMA TypeQuiet ==
    ASSUME TInv, UNCHANGED server, leaving' = leaving \/ (\E t \in Tabs : leaving' = [leaving EXCEPT ![t] = saved])
                                   \/ (\E t \in Tabs : leaving' = [leaving EXCEPT ![t] = NoPair]),
           call' \in [Calls -> Record],
           \A c \in Calls : call'[c].pc \in {"request"} \cup Trading => call'[c].pair \in 1..issued,
           saved' \in Pairs \cup {NoPair}, saved' <= issued, shown' \subseteq Tabs, stale' \subseteq Pairs,
           disturbed' \in BOOLEAN,
           starts' \in 0..MaxStarts, logins' \in 0..MaxLogins, faults' \in 0..MaxFaults
    PROVE  TInv'
<1>1. UNCHANGED <<refresh, issued, parent, raced>>
  BY DEF server
<1>2. leaving' \in [Tabs -> Pairs \cup {NoPair}] /\ \A t \in Tabs : leaving'[t] <= issued
  BY DEF TInv, TypeOK, Fresh, NoPair
<1>3. Fresh'
  BY <1>1, <1>2 DEF TInv, Fresh
<1>4. TypeOK'
  BY <1>1, <1>2 DEF TInv, TypeOK, Record
<1> QED
  BY <1>3, <1>4 DEF TInv

\* A request whose step does not touch the pairs.
LEMMA TypeMove ==
    ASSUME TInv, NEW c \in Calls, NEW pc \in Pc, NEW p \in Pairs \cup {NoPair}, Moves(c, pc, p),
           pc \in {"request"} \cup Trading => p \in 1..issued
    PROVE  /\ call' \in [Calls -> Record]
           /\ \A d \in Calls : call'[d].pc \in {"request"} \cup Trading => call'[d].pair \in 1..issued
BY DEF TInv, TypeOK, Moves

LEMMA FaultType == ASSUME TypeOK, Fault PROVE faults' \in 0..MaxFaults
BY BoundsAssumption DEF TypeOK, Fault

LEMMA SavedIssued == ASSUME TInv PROVE saved \in Pairs \cup {NoPair} /\ (saved # NoPair => saved \in 1..issued)
BY DEF TInv, TypeOK, Fresh, Pairs, NoPair

LEMMA PairIssued ==
    ASSUME TInv, NEW c \in Calls
    PROVE  /\ Pair(c) \in Pairs \cup {NoPair}
           /\ call[c].pc \in {"request"} \cup Trading => Pair(c) \in 1..issued /\ Pair(c) \in Pairs
<1>1. Pair(c) \in Pairs \cup {NoPair} /\ (call[c].pc \in {"request"} \cup Trading => Pair(c) \in 1..issued)
  BY DEF TInv, TypeOK, Pair
<1>2. issued \in 0..MaxPairs /\ MaxPairs \in Nat
  BY BoundsAssumption DEF TInv, TypeOK
<1> QED
  BY <1>1, <1>2 DEF Pairs

LEMMA RefreshMoveType ==
    ASSUME TInv, NEW c \in Calls, NEW again \in BOOLEAN, SendRefresh(c, again)
    PROVE  /\ call' \in [Calls -> Record] /\ disturbed' \in BOOLEAN
           /\ \A d \in Calls : call'[d].pc \in {"request"} \cup Trading => call'[d].pair \in 1..issued
<1>1. TypeOK
  BY DEF TInv
<1>2. CASE saved = NoPair /\ Moves(c, "expired", Pair(c)) /\ UNCHANGED disturbed
  BY <1>1, <1>2, TypeMove, PairIssued, PcValues DEF TypeOK, Trading
<1>3. CASE /\ saved # NoPair /\ Moves(c, "refresh", saved)
           /\ disturbed' = TRUE \/ UNCHANGED disturbed
  <2>1. saved \in 1..issued /\ saved \in Pairs \cup {NoPair}
    BY <1>3, SavedIssued
  <2> QED
    BY <1>1, <1>3, <2>1, TypeMove, PcValues DEF TypeOK
<1> QED
  BY <1>1, <1>2, <1>3, SendRefreshMoves

\* The steps of a request that do not change the saved pair.
LEMMA TypeRequest ==
    ASSUME TInv, NEW c \in Calls,
           \/ Begin(c) \/ Answered(c) \/ Rejected(c) \/ Forbidden(c) \/ Lost(c) \/ RefreshBreaks(c)
           \/ Ignored(c)
    PROVE  TInv'
<1>0. /\ TypeOK /\ saved \in Pairs \cup {NoPair} /\ saved <= issued /\ shown \subseteq Tabs
      /\ stale \subseteq Pairs /\ disturbed \in BOOLEAN
      /\ starts \in 0..MaxStarts /\ logins \in 0..MaxLogins /\ faults \in 0..MaxFaults
  BY DEF TInv, TypeOK, Fresh
<1> DEFINE Calling == /\ call' \in [Calls -> Record]
                      /\ \A d \in Calls : call'[d].pc \in {"request"} \cup Trading =>
                                              call'[d].pair \in 1..issued
<1>1. CASE Begin(c)
  <2>1. /\ UNCHANGED <<saved, shown, leaving, server, stale, logins, faults>>
        /\ starts < MaxStarts /\ starts' = starts + 1
    BY <1>1 DEF Begin
  <2>2. Calling /\ disturbed' \in BOOLEAN
    <3>1. CASE Goto(c, "expired") /\ UNCHANGED disturbed
      BY <3>1, <1>0, GotoMoves, TypeMove, PairIssued, PcValues DEF Trading
    <3>2. CASE saved # NoPair /\ SendWith(c, "request", saved) /\ UNCHANGED disturbed
      BY <3>2, <1>0, SendWithMoves, TypeMove, SavedIssued, PcValues
    <3>3. CASE SendRefresh(c, FALSE)
      BY <3>3, RefreshMoveType
    <3> QED
      BY <1>1, <3>1, <3>2, <3>3 DEF Begin
  <2>3. starts' \in 0..MaxStarts
    BY <2>1, <1>0, BoundsAssumption
  <2> QED
    BY <2>1, <2>2, <2>3, <1>0, TypeQuiet
<1>2. CASE Answered(c) \/ Ignored(c)
  <2>1. End(c) /\ UNCHANGED <<saved, shown, leaving, server, stale, disturbed, starts, logins, faults>>
    BY <1>2 DEF Answered, Ignored, bounds
  <2>2. Calling
    BY <2>1, <1>0, EndMoves, TypeMove, PcValues DEF Trading
  <2> QED
    BY <2>1, <2>2, <1>0, TypeQuiet
<1>3. CASE Rejected(c)
  <2>1. UNCHANGED <<saved, shown, leaving, server, stale, starts, logins, faults>>
    BY <1>3 DEF Rejected, bounds
  <2>2. Calling /\ disturbed' \in BOOLEAN
    <3>1. CASE Goto(c, "expired") /\ Disturb
      BY <3>1, <1>0, GotoMoves, TypeMove, PairIssued, PcValues DEF Trading, Disturb
    <3>2. CASE SendRefresh(c, TRUE)
      BY <3>2, RefreshMoveType
    <3> QED
      BY <1>3, <3>1, <3>2 DEF Rejected
  <2> QED
    BY <2>1, <2>2, <1>0, TypeQuiet
<1>4. CASE Forbidden(c) \/ Lost(c) \/ RefreshBreaks(c)
  <2>1. /\ UNCHANGED <<saved, shown, leaving, server, stale, starts, logins>>
        /\ Fault /\ disturbed' = TRUE
        /\ \/ Goto(c, "expired") \/ End(c)
           \/ Goto(c, "refused") /\ call[c].pc \in Trading
    BY <1>4 DEF Forbidden, Lost, RefreshBreaks, Disturb, Trading
  <2>2. Calling
    <3>1. CASE Goto(c, "expired")
      BY <3>1, <1>0, GotoMoves, TypeMove, PairIssued, PcValues DEF Trading
    <3>2. CASE End(c)
      BY <3>2, <1>0, EndMoves, TypeMove, PcValues DEF Trading
    <3>3. CASE Goto(c, "refused") /\ call[c].pc \in Trading
      BY <3>3, <1>0, GotoMoves, TypeMove, PairIssued, PcValues
    <3> QED
      BY <2>1, <3>1, <3>2, <3>3
  <2>3. faults' \in 0..MaxFaults
    BY <2>1, <1>0, FaultType
  <2> QED
    BY <2>1, <2>2, <2>3, <1>0, TypeQuiet
<1> QED
  BY <1>1, <1>2, <1>3, <1>4

\* The steps of a request that change the saved pair.
LEMMA TypeSaving ==
    ASSUME TInv, NEW c \in Calls, Renew(c) \/ Refuse(c) \/ SessionExpired(c) PROVE TInv'
<1>0. /\ TypeOK /\ shown \subseteq Tabs /\ shown \ {TabOf[c]} \subseteq Tabs
      /\ stale \subseteq Pairs /\ disturbed \in BOOLEAN /\ issued \in Nat
      /\ starts \in 0..MaxStarts /\ logins \in 0..MaxLogins /\ faults \in 0..MaxFaults
  BY BoundsAssumption DEF TInv, TypeOK
<1>1. CASE Renew(c)
  <2>1. /\ call[c].pc = "renewed" /\ saved' = Pair(c) /\ Goto(c, "request")
        /\ UNCHANGED <<shown, leaving, server, stale, disturbed, starts, logins, faults>>
    BY <1>1 DEF Renew, At, bounds
  <2>2. Pair(c) \in 1..issued /\ Pair(c) \in Pairs \cup {NoPair}
    BY <2>1, PairIssued DEF Trading
  <2>3. saved' \in Pairs \cup {NoPair} /\ saved' <= issued
    BY <2>1, <2>2, <1>0
  <2>4. /\ call' \in [Calls -> Record]
        /\ \A d \in Calls : call'[d].pc \in {"request"} \cup Trading => call'[d].pair \in 1..issued
    BY <2>1, <2>2, <1>0, GotoMoves, TypeMove, PcValues
  <2> QED
    BY <2>1, <2>3, <2>4, <1>0, TypeQuiet
<1>2. CASE Refuse(c) \/ SessionExpired(c)
  <2>1. /\ saved' = NoPair /\ (Goto(c, "expired") \/ End(c))
        /\ shown' = shown \/ shown' = shown \ {TabOf[c]}
        /\ UNCHANGED <<leaving, server, stale, disturbed, starts, logins, faults>>
    BY <1>2 DEF Refuse, SessionExpired, bounds
  <2>2. saved' \in Pairs \cup {NoPair} /\ saved' <= issued
    BY <2>1, <1>0 DEF NoPair
  <2>3. /\ call' \in [Calls -> Record]
        /\ \A d \in Calls : call'[d].pc \in {"request"} \cup Trading => call'[d].pair \in 1..issued
    <3>1. CASE Goto(c, "expired")
      BY <3>1, <1>0, GotoMoves, TypeMove, PairIssued, PcValues DEF Trading
    <3>2. CASE End(c)
      BY <3>2, <1>0, EndMoves, TypeMove, PcValues DEF Trading
    <3> QED
      BY <2>1, <3>1, <3>2
  <2> QED
    BY <2>1, <2>2, <2>3, <1>0, TypeQuiet
<1> QED
  BY <1>1, <1>2

LEMMA IssueType ==
    ASSUME TInv, NEW from \in Pairs \cup {NoPair}, Issue(from)
    PROVE  /\ issued + 1 \in Pairs /\ issued' = issued + 1 /\ issued' \in 0..MaxPairs
           /\ refresh' \in [Pairs -> {"none", "live", "revoked", "expired"}]
           /\ parent' \in [Pairs -> Pairs \cup {NoPair}]
           /\ \A p \in Pairs : p > issued' => refresh'[p] = "none" /\ parent'[p] = NoPair
           /\ refresh'[issued + 1] = "live" /\ parent'[issued + 1] = from
           /\ \A p \in Pairs : p # issued + 1 => refresh'[p] = refresh[p] /\ parent'[p] = parent[p]
<1>1. issued \in 0..MaxPairs /\ MaxPairs \in Nat /\ issued < MaxPairs /\ issued' = issued + 1
  BY BoundsAssumption DEF TInv, TypeOK, Issue
<1>2. issued + 1 \in Pairs /\ issued' \in 0..MaxPairs
  BY <1>1 DEF Pairs
<1>3. /\ refresh \in [Pairs -> {"none", "live", "revoked", "expired"}]
      /\ parent \in [Pairs -> Pairs \cup {NoPair}]
      /\ \A p \in Pairs : p > issued => refresh[p] = "none" /\ parent[p] = NoPair
  BY DEF TInv, TypeOK, Fresh
<1>4. /\ refresh' = [refresh EXCEPT ![issued + 1] = "live"]
      /\ parent' = [parent EXCEPT ![issued + 1] = from]
  BY DEF Issue
<1>5. \A p \in Pairs : p > issued' => p > issued /\ p # issued + 1
  BY <1>1 DEF Pairs
<1> QED
  BY <1>1, <1>2, <1>3, <1>4, <1>5

LEMMA TypeRotate ==
    ASSUME TInv, NEW c \in Calls, RotateRead(c) \/ RotateRevoke(c) \/ RotateIssue(c) PROVE TInv'
<1>0. TypeOK
  BY DEF TInv
<1>1. CASE RotateRead(c)
  <2> DEFINE next == IF refresh[Pair(c)] = "live" THEN "rotating" ELSE "refused"
  <2>1. /\ call[c].pc = "refresh" /\ Goto(c, next)
        /\ UNCHANGED <<saved, shown, leaving, refresh, issued, parent, stale, disturbed>>
        /\ UNCHANGED <<starts, logins, faults>>
    BY <1>1 DEF RotateRead, At, bounds
  <2>2. Pair(c) \in 1..issued /\ Pair(c) \in Pairs
    BY <2>1, PairIssued DEF Trading
  <2>3. /\ call' \in [Calls -> Record]
        /\ \A d \in Calls : call'[d].pc \in {"request"} \cup Trading => call'[d].pair \in 1..issued
    <3>1. next \in Pc
      BY PcValues
    <3> HIDE DEF next
    <3> QED
      BY <3>1, <2>1, <2>2, <1>0, GotoMoves, TypeMove
  <2>4. raced' \subseteq Pairs
    BY <1>1, <2>2 DEF RotateRead, TInv, TypeOK
  <2>5. Fresh'
    BY <2>1 DEF TInv, Fresh
  <2> QED
    BY <2>1, <2>3, <2>4, <2>5 DEF TInv, TypeOK, Record
<1>2. CASE RotateRevoke(c)
  <2>1. /\ call[c].pc = "rotating" /\ Goto(c, "rotated")
        /\ refresh' = [refresh EXCEPT ![Pair(c)] = "revoked"]
        /\ UNCHANGED <<saved, shown, leaving, issued, parent, raced, stale, disturbed>>
        /\ UNCHANGED <<starts, logins, faults>>
    BY <1>2 DEF RotateRevoke, At, bounds
  <2>2. Pair(c) \in 1..issued /\ Pair(c) \in Pairs
    BY <2>1, PairIssued DEF Trading
  <2>3. /\ call' \in [Calls -> Record]
        /\ \A d \in Calls : call'[d].pc \in {"request"} \cup Trading => call'[d].pair \in 1..issued
    BY <2>1, <2>2, <1>0, GotoMoves, TypeMove, PcValues
  <2>4. Fresh'
    BY <2>1, <2>2 DEF TInv, TypeOK, Fresh, Pairs
  <2> QED
    BY <2>1, <2>3, <2>4 DEF TInv, TypeOK, Record
<1>3. CASE RotateIssue(c)
  <2>1. /\ call[c].pc = "rotated" /\ Issue(Pair(c)) /\ SendWith(c, "renewed", issued + 1)
        /\ UNCHANGED <<saved, shown, leaving, raced, stale, disturbed, starts, logins, faults>>
    BY <1>3 DEF RotateIssue, At, bounds
  <2>2. Pair(c) \in Pairs
    BY <2>1, PairIssued DEF Trading
  <2>3. /\ issued + 1 \in Pairs /\ issued' = issued + 1 /\ issued' \in 0..MaxPairs
        /\ refresh' \in [Pairs -> {"none", "live", "revoked", "expired"}]
        /\ parent' \in [Pairs -> Pairs \cup {NoPair}]
        /\ \A p \in Pairs : p > issued' => refresh'[p] = "none" /\ parent'[p] = NoPair
    BY <2>1, <2>2, IssueType
  <2>4. issued \in Nat
    BY <1>0, BoundsAssumption DEF TypeOK
  <2>5. /\ call' \in [Calls -> Record]
        /\ \A d \in Calls : call'[d].pc \in {"request"} \cup Trading => call'[d].pair \in 1..issued'
    <3>1. Moves(c, "renewed", issued + 1)
      BY <2>1, <2>3, <1>0, SendWithMoves, PcValues
    <3>2. \A d \in Calls : call[d].pc \in {"request"} \cup Trading => call[d].pair \in 1..issued
      BY <1>0 DEF TypeOK
    <3> QED
      BY <3>1, <3>2, <2>3, <2>4 DEF Moves
  <2>6. Fresh'
    <3>1. /\ saved <= issued /\ \A t \in Tabs : leaving[t] <= issued
          /\ saved \in Nat /\ \A t \in Tabs : leaving[t] \in Nat
      BY <1>0 DEF TInv, TypeOK, Fresh, Pairs, NoPair
    <3> QED
      BY <3>1, <2>1, <2>3, <2>4 DEF Fresh
  <2> QED
    BY <2>1, <2>3, <2>5, <2>6 DEF TInv, TypeOK, Record
<1> QED
  BY <1>1, <1>2, <1>3

LEMMA TypeTab ==
    ASSUME TInv, NEW t \in Tabs, Login(t) \/ Open(t) \/ Logout(t) \/ Revoke(t) \/ LoggedOut(t)
    PROVE  TInv'
<1>0. /\ TypeOK /\ saved \in Pairs \cup {NoPair} /\ saved <= issued /\ shown \subseteq Tabs
      /\ stale \subseteq Pairs /\ disturbed \in BOOLEAN /\ issued \in Nat
      /\ starts \in 0..MaxStarts /\ logins \in 0..MaxLogins /\ faults \in 0..MaxFaults
      /\ call \in [Calls -> Record]
      /\ \A d \in Calls : call[d].pc \in {"request"} \cup Trading => call[d].pair \in 1..issued
      /\ leaving \in [Tabs -> Pairs \cup {NoPair}] /\ \A s \in Tabs : leaving[s] <= issued
  BY BoundsAssumption DEF TInv, TypeOK, Fresh, Record
<1>1. CASE Login(t)
  <2>1. /\ Issue(NoPair) /\ saved' = issued + 1 /\ shown' = shown \cup {t}
        /\ logins < MaxLogins /\ logins' = logins + 1
        /\ disturbed' = TRUE \/ UNCHANGED disturbed
        /\ UNCHANGED <<call, leaving, raced, stale, starts, faults>>
    BY <1>1 DEF Login, Disturb
  <2>2. /\ issued + 1 \in Pairs /\ issued' = issued + 1 /\ issued' \in 0..MaxPairs
        /\ refresh' \in [Pairs -> {"none", "live", "revoked", "expired"}]
        /\ parent' \in [Pairs -> Pairs \cup {NoPair}]
        /\ \A p \in Pairs : p > issued' => refresh'[p] = "none" /\ parent'[p] = NoPair
    BY <2>1, IssueType
  <2>3. logins' \in 0..MaxLogins
    BY <2>1, <1>0, BoundsAssumption
  <2>4. Fresh'
    <3>1. \A s \in Tabs : leaving[s] \in Nat
      BY <1>0 DEF Pairs, NoPair
    <3> QED
      BY <3>1, <2>1, <2>2, <1>0 DEF Fresh
  <2>5. \A d \in Calls : call'[d].pc \in {"request"} \cup Trading => call'[d].pair \in 1..issued'
    BY <2>1, <2>2, <1>0
  <2>6. shown' \subseteq Tabs /\ disturbed' \in BOOLEAN
    BY <2>1, <1>0
  <2> QED
    BY <2>1, <2>2, <2>3, <2>4, <2>5, <2>6, <1>0 DEF TInv, TypeOK, Record
<1>2. CASE Open(t)
  <2>1. shown' = shown \cup {t} /\ UNCHANGED <<saved, call, leaving, server, stale, disturbed>>
        /\ UNCHANGED <<starts, logins, faults, issued>>
    BY <1>2 DEF Open, bounds, server
  <2> QED
    BY <2>1, <1>0, TypeQuiet
<1>3. CASE Logout(t)
  <2>1. /\ leaving' = [leaving EXCEPT ![t] = saved] /\ (shown' = shown \/ shown' = shown \ {t})
        /\ disturbed' = TRUE /\ UNCHANGED <<saved, call, server, stale, starts, logins, faults, issued>>
    BY <1>3 DEF Logout, bounds, server, Disturb
  <2> QED
    BY <2>1, <1>0, TypeQuiet
<1>4. CASE Revoke(t)
  <2>1. /\ refresh' = [refresh EXCEPT ![leaving[t]] = "revoked"] /\ leaving[t] # NoPair
        /\ UNCHANGED <<saved, shown, call, leaving, issued, parent, raced, stale, disturbed>>
        /\ UNCHANGED <<starts, logins, faults>>
    BY <1>4 DEF Revoke, bounds
  <2>2. leaving[t] \in Pairs /\ leaving[t] <= issued
    BY <2>1, <1>0
  <2>3. Fresh'
    BY <2>1, <2>2, <1>0 DEF TInv, TypeOK, Fresh, Pairs
  <2> QED
    BY <2>1, <2>2, <2>3, <1>0 DEF TInv, TypeOK
<1>5. CASE LoggedOut(t)
  <2>1. /\ leaving' = [leaving EXCEPT ![t] = NoPair] /\ saved' = NoPair /\ shown' = shown \ {t}
        /\ UNCHANGED <<call, server, stale, disturbed, starts, logins, faults, issued>>
    BY <1>5 DEF LoggedOut, bounds, server
  <2>2. saved' \in Pairs \cup {NoPair} /\ saved' <= issued
    BY <2>1, <1>0 DEF NoPair
  <2> QED
    BY <2>1, <2>2, <1>0, TypeQuiet
<1> QED
  BY <1>1, <1>2, <1>3, <1>4, <1>5

LEMMA TypeTime ==
    ASSUME TInv, NEW p \in Pairs, Expire(p) \/ RefreshExpires(p) PROVE TInv'
<1>0. TypeOK
  BY DEF TInv
<1>1. CASE Expire(p)
  <2>1. /\ stale' = stale \cup {p} /\ UNCHANGED <<saved, shown, call, leaving, disturbed>>
        /\ UNCHANGED <<refresh, issued, parent, raced, starts, logins, faults>>
    BY <1>1 DEF Expire, bounds, server
  <2> QED
    BY <2>1 DEF TInv, TypeOK, Fresh
<1>2. CASE RefreshExpires(p)
  <2>1. /\ refresh' = [refresh EXCEPT ![p] = "expired"] /\ refresh[p] = "live"
        /\ UNCHANGED <<saved, shown, call, leaving, issued, parent, raced, stale, disturbed>>
        /\ UNCHANGED <<starts, logins, faults>>
    BY <1>2 DEF RefreshExpires, bounds
  <2>2. Fresh'
    BY <2>1, <1>0 DEF TInv, TypeOK, Fresh
  <2> QED
    BY <2>1, <2>2, <1>0 DEF TInv, TypeOK
<1> QED
  BY <1>1, <1>2

LEMMA TypeInit == Init => TInv
<1> SUFFICES ASSUME Init PROVE TInv
  OBVIOUS
<1>1. TypeOK
  <2>1. Idle \in Record /\ Idle.pc = "idle"
    BY PcValues DEF Idle, Record
  <2>2. call \in [Calls -> Record] /\ \A c \in Calls : call[c].pc = "idle"
    BY <2>1 DEF Init
  <2>3. \A c \in Calls : call[c].pc \in {"request"} \cup Trading => call[c].pair \in 1..issued
    BY <2>2 DEF Trading
  <2>4. issued \in 0..MaxPairs /\ starts \in 0..MaxStarts /\ logins \in 0..MaxLogins /\ faults \in 0..MaxFaults
    BY BoundsAssumption DEF Init
  <2>5. /\ saved \in Pairs \cup {NoPair} /\ shown \subseteq Tabs /\ stale \subseteq Pairs /\ raced \subseteq Pairs
        /\ leaving \in [Tabs -> Pairs \cup {NoPair}] /\ parent \in [Pairs -> Pairs \cup {NoPair}]
        /\ refresh \in [Pairs -> {"none", "live", "revoked", "expired"}] /\ disturbed \in BOOLEAN
    BY DEF Init
  <2> QED
    BY <2>2, <2>3, <2>4, <2>5 DEF TypeOK, Record
<1>2. Fresh
  BY DEF Init, Fresh, NoPair
<1> QED
  BY <1>1, <1>2 DEF TInv

LEMMA TypeStep == ASSUME TInv, [Next]_vars PROVE TInv'
<1>1. CASE \E c \in Calls : Begin(c) \/ Serve(c) \/ Forbidden(c) \/ Lost(c) \/ RefreshBreaks(c) \/ Ignored(c)
  BY <1>1, TypeRequest, TypeSaving, TypeRotate DEF Serve
<1>2. CASE \E t \in Tabs : Login(t) \/ Open(t) \/ Logout(t) \/ Revoke(t) \/ LoggedOut(t)
  BY <1>2, TypeTab
<1>3. CASE \E p \in Pairs : Expire(p) \/ RefreshExpires(p)
  BY <1>3, TypeTime
<1>4. CASE UNCHANGED vars
  BY <1>4 DEF vars, TInv, TypeOK, Fresh
<1> QED
  BY <1>1, <1>2, <1>3, <1>4 DEF Next

LEMMA TypeInvariant == Spec => []TInv
<1> QED
  BY TypeInit, TypeStep, PTL DEF Spec

(* Every variable keeps its type, and a request carries a pair the server   *)
(* has issued.                                                              *)
THEOREM TypeCorrect == Spec => []TypeOK
<1>1. TInv => TypeOK
  BY DEF TInv
<1> QED
  BY <1>1, TypeInvariant, PTL

-----------------------------------------------------------------------------
(* Rotation.  A token in rotation has no successor yet, and no other request *)
(* rotates it, unless two of them had read it: then it is in raced.         *)
Rotating == {"rotating", "rotated"}

RotatedIsRevoked == \A c \in Calls : call[c].pc = "rotated" => refresh[Pair(c)] = "revoked"

ParentIsRevoked == \A p \in Pairs : parent[p] # NoPair => refresh[parent[p]] = "revoked"

OneRotates ==
    \A c, d \in Calls :
        c # d /\ call[c].pc \in Rotating /\ call[d].pc \in Rotating /\ Pair(c) = Pair(d) => Pair(c) \in raced

NoSuccessorYet ==
    \A c \in Calls, p \in Pairs : call[c].pc \in Rotating /\ parent[p] = Pair(c) => Pair(c) \in raced

RInv == RotatedIsRevoked /\ ParentIsRevoked /\ OneRotates /\ NoSuccessorYet /\ OneSuccessorUnlessRaced

\* The requests in rotation are among those that were, and the tokens are revoked or as they were.
LEMMA RotationFrame ==
    ASSUME TInv, TInv', RInv, UNCHANGED <<parent, raced>>,
           \A p \in Pairs : refresh[p] = "revoked" => refresh'[p] = "revoked",
           \A c \in Calls : call'[c].pc \in Rotating => call'[c] = call[c]
    PROVE  RInv'
<1>0. \A c \in Calls : call[c].pc \in Rotating => Pair(c) \in Pairs
  BY PairIssued DEF Rotating, Trading
<1>1. parent \in [Pairs -> Pairs \cup {NoPair}]
  BY DEF TInv, TypeOK
<1>2. RotatedIsRevoked'
  BY <1>0 DEF RInv, RotatedIsRevoked, Pair, Rotating
<1>3. ParentIsRevoked'
  BY <1>1 DEF RInv, ParentIsRevoked
<1>4. OneRotates'
  BY DEF RInv, OneRotates, Pair
<1>5. NoSuccessorYet'
  BY DEF RInv, NoSuccessorYet, Pair
<1>6. OneSuccessorUnlessRaced'
  BY DEF RInv, OneSuccessorUnlessRaced
<1> QED
  BY <1>2, <1>3, <1>4, <1>5, <1>6 DEF RInv

\* A request moves, and not into a rotation.
LEMMA RotationMove ==
    ASSUME TInv, TInv', RInv, NEW c \in Calls, NEW pc, NEW p, Moves(c, pc, p), pc \notin Rotating,
           UNCHANGED server
    PROVE  RInv'
<1>1. \A d \in Calls : call'[d].pc \in Rotating => call'[d] = call[d]
  BY DEF Moves
<1> QED
  BY <1>1, RotationFrame DEF server

LEMMA RotationRead ==
    ASSUME TInv, TInv', RInv, NEW c \in Calls, RotateRead(c) PROVE RInv'
<1> DEFINE next == IF refresh[Pair(c)] = "live" THEN "rotating" ELSE "refused"
<1>1. /\ raced' = raced \cup {p \in {Pair(c)} : \E d \in Calls \ {c} : At(d, "rotating") /\ Pair(d) = p}
      /\ Goto(c, next) /\ call[c].pc = "refresh" /\ UNCHANGED <<refresh, issued, parent>>
  BY DEF RotateRead, At
<1>2. Pair(c) \in Pairs /\ \A d \in Calls : call[d].pc \in Rotating => Pair(d) \in Pairs
  BY <1>1, PairIssued DEF Rotating, Trading
<1>3. Moves(c, next, Pair(c))
  <2>1. next \in Pc /\ TypeOK
    BY PcValues DEF TInv
  <2> HIDE DEF next
  <2> QED
    BY <2>1, <1>1, GotoMoves
<1>4. /\ \A d \in Calls : Pair(d)' = Pair(d)
      /\ \A d \in Calls \ {c} : call'[d].pc = call[d].pc
      /\ call'[c].pc \in Rotating => call'[c].pc = "rotating" /\ refresh[Pair(c)] = "live"
      /\ call'[c].pc # "rotated"
  BY <1>3 DEF Moves, Pair, Rotating
<1>5. RotatedIsRevoked'
  BY <1>1, <1>4 DEF RInv, RotatedIsRevoked
<1>6. ParentIsRevoked' /\ OneSuccessorUnlessRaced'
  BY <1>1 DEF RInv, ParentIsRevoked, OneSuccessorUnlessRaced
<1>7. \A d \in Calls \ {c} :
        call'[c].pc \in Rotating /\ call'[d].pc \in Rotating /\ Pair(d) = Pair(c) => Pair(c) \in raced'
  <2> SUFFICES ASSUME NEW d \in Calls \ {c}, call'[c].pc \in Rotating, call[d].pc \in Rotating,
                      Pair(d) = Pair(c)
               PROVE  Pair(c) \in raced'
    BY <1>4
  <2>1. call[d].pc = "rotating"
    BY <1>4 DEF RInv, RotatedIsRevoked, Rotating
  <2> QED
    BY <2>1, <1>1 DEF At
<1>8. OneRotates'
  <2> SUFFICES ASSUME NEW d \in Calls, NEW e \in Calls, d # e, call'[d].pc \in Rotating,
                      call'[e].pc \in Rotating, Pair(d) = Pair(e)
               PROVE  Pair(d) \in raced'
    BY <1>4 DEF OneRotates
  <2>1. CASE d = c \/ e = c
    BY <2>1, <1>7
  <2>2. CASE d # c /\ e # c
    BY <2>2, <1>1, <1>4 DEF RInv, OneRotates
  <2> QED
    BY <2>1, <2>2
<1>9. NoSuccessorYet'
  <2> SUFFICES ASSUME NEW d \in Calls, NEW p \in Pairs, call'[d].pc \in Rotating, parent[p] = Pair(d)
               PROVE  Pair(d) \in raced'
    BY <1>1, <1>4 DEF NoSuccessorYet
  <2>1. CASE d = c
    BY <2>1, <1>2, <1>4 DEF RInv, ParentIsRevoked, Pairs, NoPair
  <2>2. CASE d # c
    BY <2>2, <1>1, <1>4 DEF RInv, NoSuccessorYet
  <2> QED
    BY <2>1, <2>2
<1> QED
  BY <1>5, <1>6, <1>8, <1>9 DEF RInv

LEMMA RotationRevoke ==
    ASSUME TInv, TInv', RInv, NEW c \in Calls, RotateRevoke(c) PROVE RInv'
<1>1. /\ refresh' = [refresh EXCEPT ![Pair(c)] = "revoked"] /\ Goto(c, "rotated")
      /\ call[c].pc = "rotating" /\ UNCHANGED <<issued, parent, raced>>
  BY DEF RotateRevoke, At
<1>2. Pair(c) \in Pairs /\ refresh \in [Pairs -> {"none", "live", "revoked", "expired"}]
      /\ parent \in [Pairs -> Pairs \cup {NoPair}]
  BY <1>1, PairIssued DEF Trading, TInv, TypeOK
<1>3. Moves(c, "rotated", Pair(c))
  BY <1>1, GotoMoves, PcValues DEF TInv
<1>4. /\ \A d \in Calls : Pair(d)' = Pair(d) /\ (call'[d].pc \in Rotating => call[d].pc \in Rotating)
      /\ \A d \in Calls \ {c} : call'[d].pc = call[d].pc
  BY <1>1, <1>3 DEF Moves, Pair, Rotating
<1>5. refresh'[Pair(c)] = "revoked" /\ \A p \in Pairs : refresh[p] = "revoked" => refresh'[p] = "revoked"
  BY <1>1, <1>2
<1>6. RotatedIsRevoked'
  <2>1. \A d \in Calls : call[d].pc \in Rotating => Pair(d) \in Pairs
    BY PairIssued DEF Rotating, Trading
  <2> QED
    BY <2>1, <1>4, <1>5 DEF RInv, RotatedIsRevoked, Rotating
<1>7. ParentIsRevoked'
  BY <1>1, <1>2, <1>5 DEF RInv, ParentIsRevoked
<1>8. OneRotates' /\ NoSuccessorYet' /\ OneSuccessorUnlessRaced'
  BY <1>1, <1>4 DEF RInv, OneRotates, NoSuccessorYet, OneSuccessorUnlessRaced
<1> QED
  BY <1>6, <1>7, <1>8 DEF RInv

\* A new pair is nobody's parent and in nobody's rotation.
LEMMA RotationNew ==
    ASSUME TInv, RInv, NEW from \in Pairs \cup {NoPair}, Issue(from)
    PROVE  /\ \A p \in Pairs : refresh[p] = "revoked" => refresh'[p] = "revoked"
           /\ \A p \in Pairs : parent[p] # issued + 1
           /\ from # NoPair /\ refresh[from] = "revoked" => ParentIsRevoked'
           /\ from = NoPair => ParentIsRevoked'
<1>1. /\ issued + 1 \in Pairs /\ issued \in Nat
      /\ refresh'[issued + 1] = "live" /\ parent'[issued + 1] = from
      /\ \A p \in Pairs : p # issued + 1 => refresh'[p] = refresh[p] /\ parent'[p] = parent[p]
  BY IssueType, BoundsAssumption DEF TInv, TypeOK
<1>2. refresh[issued + 1] = "none"
  BY <1>1 DEF TInv, Fresh
<1>3. \A p \in Pairs : refresh[p] = "revoked" => refresh'[p] = "revoked"
  BY <1>1, <1>2
<1>4. parent \in [Pairs -> Pairs \cup {NoPair}] /\ NoPair # issued + 1
  BY <1>1 DEF TInv, TypeOK, NoPair
<1>5. \A p \in Pairs : parent[p] # issued + 1
  BY <1>2, <1>4 DEF RInv, ParentIsRevoked
<1>6. ASSUME from # NoPair => refresh[from] = "revoked" PROVE ParentIsRevoked'
  BY <1>1, <1>3, <1>4, <1>6 DEF RInv, ParentIsRevoked
<1> QED
  BY <1>3, <1>5, <1>6

LEMMA RotationIssue ==
    ASSUME TInv, TInv', RInv, NEW c \in Calls, RotateIssue(c) PROVE RInv'
<1>1. Issue(Pair(c)) /\ SendWith(c, "renewed", issued + 1) /\ call[c].pc = "rotated" /\ raced' = raced
  BY DEF RotateIssue, At
<1>2. Pair(c) \in Pairs /\ Pair(c) # NoPair /\ refresh[Pair(c)] = "revoked"
  BY <1>1, PairIssued DEF Trading, RInv, RotatedIsRevoked, Pairs, NoPair
<1>3. /\ issued + 1 \in Pairs /\ parent'[issued + 1] = Pair(c)
      /\ \A p \in Pairs : p # issued + 1 => parent'[p] = parent[p]
  BY <1>1, <1>2, IssueType
<1>4. ParentIsRevoked' /\ \A p \in Pairs : refresh[p] = "revoked" => refresh'[p] = "revoked"
  BY <1>1, <1>2, RotationNew
<1>5. Moves(c, "renewed", issued + 1)
  BY <1>1, <1>3, SendWithMoves, PcValues DEF TInv
<1>6. \A d \in Calls : call'[d].pc \in Rotating =>
        d # c /\ call'[d].pc = call[d].pc /\ Pair(d)' = Pair(d) /\ Pair(d) \in Pairs
  BY <1>5, PairIssued DEF Moves, Pair, Rotating, Trading
<1>7. RotatedIsRevoked'
  BY <1>4, <1>6 DEF RInv, RotatedIsRevoked, Rotating
<1>8. OneRotates'
  BY <1>1, <1>6 DEF RInv, OneRotates
<1>9. NoSuccessorYet'
  <2> SUFFICES ASSUME NEW d \in Calls, NEW p \in Pairs, call'[d].pc \in Rotating, parent'[p] = Pair(d)
               PROVE  Pair(d) \in raced
    BY <1>1, <1>6 DEF NoSuccessorYet
  <2>1. CASE p = issued + 1
    BY <2>1, <1>1, <1>3, <1>6 DEF RInv, OneRotates, Rotating
  <2>2. CASE p # issued + 1
    BY <2>2, <1>3, <1>6 DEF RInv, NoSuccessorYet
  <2> QED
    BY <2>1, <2>2
<1>10. \A p \in Pairs : parent[p] = Pair(c) => Pair(c) \in raced
  BY <1>1 DEF RInv, NoSuccessorYet, Rotating
<1>11. OneSuccessorUnlessRaced'
  <2> SUFFICES ASSUME NEW p \in Pairs, NEW q \in Pairs, parent'[p] # NoPair, parent'[p] = parent'[q], p # q
               PROVE  parent'[p] \in raced
    BY <1>1 DEF OneSuccessorUnlessRaced
  <2>1. CASE p = issued + 1 \/ q = issued + 1
    BY <2>1, <1>3, <1>10
  <2>2. CASE p # issued + 1 /\ q # issued + 1
    BY <2>2, <1>3 DEF RInv, OneSuccessorUnlessRaced
  <2> QED
    BY <2>1, <2>2
<1> QED
  BY <1>4, <1>7, <1>8, <1>9, <1>11 DEF RInv

LEMMA RotationLogin ==
    ASSUME TInv, TInv', RInv, NEW t \in Tabs, Login(t) PROVE RInv'
<1>1. Issue(NoPair) /\ UNCHANGED <<call, raced>>
  BY DEF Login
<1>2. /\ issued + 1 \in Pairs /\ parent'[issued + 1] = NoPair
      /\ \A p \in Pairs : p # issued + 1 => parent'[p] = parent[p]
  BY <1>1, IssueType
<1>3. ParentIsRevoked' /\ \A p \in Pairs : refresh[p] = "revoked" => refresh'[p] = "revoked"
  BY <1>1, RotationNew
<1>4. \A d \in Calls : Pair(d)' = Pair(d)
                       /\ (call[d].pc \in Rotating => Pair(d) \in Pairs /\ Pair(d) # NoPair)
  BY <1>1, PairIssued DEF Pair, Rotating, Trading, Pairs, NoPair
<1>5. RotatedIsRevoked'
  BY <1>1, <1>3, <1>4 DEF RInv, RotatedIsRevoked, Rotating
<1>6. OneRotates'
  BY <1>1, <1>4 DEF RInv, OneRotates
<1>7. NoSuccessorYet'
  BY <1>1, <1>2, <1>4 DEF RInv, NoSuccessorYet
<1>8. OneSuccessorUnlessRaced'
  BY <1>1, <1>2 DEF RInv, OneSuccessorUnlessRaced
<1> QED
  BY <1>3, <1>5, <1>6, <1>7, <1>8 DEF RInv

\* The steps of a request outside the rotation.
LEMMA RotationRequest ==
    ASSUME TInv, TInv', RInv, NEW c \in Calls,
           \/ Begin(c) \/ Answered(c) \/ Rejected(c) \/ Forbidden(c) \/ Lost(c) \/ RefreshBreaks(c)
           \/ Ignored(c) \/ Renew(c) \/ Refuse(c) \/ SessionExpired(c)
    PROVE  RInv'
<1>0. UNCHANGED server /\ TypeOK /\ saved \in Pairs \cup {NoPair}
  BY SavedIssued DEF TInv, Begin, Answered, Rejected, Forbidden, Lost, RefreshBreaks, Ignored, Renew,
                     Refuse, SessionExpired
<1>1. \/ \E pc \in {"expired", "request", "refused"} : Goto(c, pc)
      \/ SendWith(c, "request", saved)
      \/ End(c)
      \/ \E again \in BOOLEAN : SendRefresh(c, again)
  BY DEF Begin, Answered, Rejected, Forbidden, Lost, RefreshBreaks, Ignored, Renew, Refuse, SessionExpired
<1>2. \A pc \in {"expired", "request", "refused", "refresh", "idle"} : pc \notin Rotating /\ pc \in Pc
  BY PcValues DEF Rotating
<1>3. \E pc \in {"expired", "request", "refused", "refresh", "idle"} : \E p \in Pairs \cup {NoPair} : Moves(c, pc, p)
  <2>0. Pair(c) \in Pairs \cup {NoPair} /\ NoPair \in Pairs \cup {NoPair}
    BY PairIssued
  <2>1. CASE \E pc \in {"expired", "request", "refused"} : Goto(c, pc)
    BY <2>0, <2>1, <1>0, <1>2, GotoMoves
  <2>2. CASE SendWith(c, "request", saved)
    BY <2>2, <1>0, <1>2, SendWithMoves
  <2>3. CASE End(c)
    BY <2>0, <2>3, <1>0, EndMoves
  <2>4. CASE \E again \in BOOLEAN : SendRefresh(c, again)
    BY <2>0, <2>4, <1>0, SendRefreshMoves
  <2> QED
    BY <1>1, <2>1, <2>2, <2>3, <2>4
<1> QED
  BY <1>0, <1>2, <1>3, RotationMove

LEMMA RotationStep == ASSUME TInv, TInv', RInv, [Next]_vars PROVE RInv'
<1>1. CASE \E c \in Calls : Begin(c) \/ Serve(c) \/ Forbidden(c) \/ Lost(c) \/ RefreshBreaks(c) \/ Ignored(c)
  BY <1>1, RotationRequest, RotationRead, RotationRevoke, RotationIssue DEF Serve
<1>2. CASE \E t \in Tabs : Login(t)
  BY <1>2, RotationLogin
<1>3. CASE \E t \in Tabs : Open(t) \/ Logout(t) \/ Revoke(t) \/ LoggedOut(t)
  <2>1. UNCHANGED <<parent, raced, call>>
    BY <1>3 DEF Open, Logout, Revoke, LoggedOut, server
  <2>2. \A p \in Pairs : refresh[p] = "revoked" => refresh'[p] = "revoked"
    <3>1. PICK t \in Tabs : refresh' = refresh \/ refresh' = [refresh EXCEPT ![leaving[t]] = "revoked"]
      BY <1>3 DEF Open, Logout, Revoke, LoggedOut, server
    <3> QED
      BY <3>1 DEF TInv, TypeOK
  <2> QED
    BY <2>1, <2>2, RotationFrame
<1>4. CASE \E p \in Pairs : Expire(p) \/ RefreshExpires(p)
  <2>1. UNCHANGED <<parent, raced, call>>
    BY <1>4 DEF Expire, RefreshExpires, server
  <2>2. \A p \in Pairs : refresh[p] = "revoked" => refresh'[p] = "revoked"
    <3>1. PICK q \in Pairs : refresh' = refresh \/ (refresh[q] = "live" /\ refresh' = [refresh EXCEPT ![q] = "expired"])
      BY <1>4 DEF Expire, RefreshExpires, server
    <3> QED
      BY <3>1 DEF TInv, TypeOK
  <2> QED
    BY <2>1, <2>2, RotationFrame
<1>5. CASE UNCHANGED vars
  BY <1>5, RotationFrame DEF vars
<1> QED
  BY <1>1, <1>2, <1>3, <1>4, <1>5 DEF Next

LEMMA RotationInvariant == Spec => []RInv
<1>1. Init => RInv
  <2> SUFFICES ASSUME Init PROVE RInv
    OBVIOUS
  <2>1. \A c \in Calls : call[c].pc = "idle"
    BY DEF Init, Idle
  <2>2. \A p \in Pairs : parent[p] = NoPair
    BY DEF Init
  <2>3. RotatedIsRevoked /\ OneRotates /\ NoSuccessorYet
    BY <2>1 DEF RotatedIsRevoked, OneRotates, NoSuccessorYet, Rotating
  <2>4. ParentIsRevoked /\ OneSuccessorUnlessRaced
    BY <2>2 DEF ParentIsRevoked, OneSuccessorUnlessRaced
  <2> QED
    BY <2>3, <2>4 DEF RInv
<1>2. TInv /\ TInv' /\ RInv /\ [Next]_vars => RInv'
  BY RotationStep
<1> QED
  BY <1>1, <1>2, TypeInvariant, PTL DEF Spec

(* A refresh token gives one new pair, unless two requests have read it      *)
(* while it was valid: rotate_refresh_token takes no lock.                   *)
THEOREM OneSuccessorTheorem == Spec => []OneSuccessorUnlessRaced
<1>1. RInv => OneSuccessorUnlessRaced
  BY DEF RInv
<1> QED
  BY <1>1, RotationInvariant, PTL

-----------------------------------------------------------------------------
(* The session of a browser that was left alone.                             *)
Live(p) == refresh[p] = "live"

Owned(p) == saved = p \/ \E c \in Calls : call[c].pc = "renewed" /\ Pair(c) = p

Alone == \A c, d \in Calls : c # d => call[c].pc \notin Trading \/ call[d].pc \notin Trading

\* Until the answer, a request trades the pair that is saved.
TradesSaved ==
    \A c \in Calls : call[c].pc \in {"refresh", "rotating", "rotated", "refused"} => Pair(c) = saved

LiveOwned == \A p \in Pairs : Live(p) => Owned(p)

RenewedOnly == \A c \in Calls, p \in Pairs : call[c].pc = "renewed" /\ Live(p) => Pair(c) = p

RefusedIsDead == \A c \in Calls, p \in Pairs : call[c].pc = "refused" => ~Live(p)

ExpiredIsEmpty == \A c \in Calls : call[c].pc = "expired" => saved = NoPair

EmptyHasNone == saved = NoPair => \A c \in Calls : call[c].pc # "renewed"

Undisturbed ==
    /\ Alone /\ TradesSaved /\ LiveOwned /\ RenewedOnly /\ RefusedIsDead /\ ExpiredIsEmpty /\ EmptyHasNone

SInv == /\ ~disturbed => Undisturbed
        /\ \A t \in Tabs : leaving[t] # NoPair => disturbed

\* A request that does not trade moves; nothing else changes.
LEMMA SessionMove ==
    ASSUME Undisturbed, NEW c \in Calls, NEW pc, NEW p, Moves(c, pc, p), UNCHANGED <<refresh, saved>>,
           call[c].pc \notin Trading,
           \/ pc = "idle" \/ pc = "request"
           \/ pc = "expired" /\ saved = NoPair
           \/ /\ pc = "refresh" /\ p = saved /\ saved # NoPair
              /\ \A d \in Calls \ {c} : call[d].pc \notin Trading
    PROVE  Undisturbed'
<1>1. /\ \A d \in Calls \ {c} : call'[d].pc = call[d].pc /\ Pair(d)' = Pair(d)
      /\ call'[c].pc = pc /\ Pair(c)' = p
  BY DEF Moves, Pair
<1>2. pc \in Trading => pc = "refresh"
  BY DEF Trading
<1>3. call[c].pc # "renewed" /\ pc # "renewed" /\ pc # "refused" /\ pc # "rotating" /\ pc # "rotated"
  BY DEF Trading
<1>4. Alone'
  BY <1>1, <1>2 DEF Undisturbed, Alone
<1>5. TradesSaved'
  BY <1>1, <1>3 DEF Undisturbed, TradesSaved
<1>6. LiveOwned'
  BY <1>1, <1>3 DEF Undisturbed, LiveOwned, Live, Owned
<1>7. RenewedOnly'
  BY <1>1, <1>3 DEF Undisturbed, RenewedOnly, Live
<1>8. RefusedIsDead'
  BY <1>1, <1>3 DEF Undisturbed, RefusedIsDead, Live
<1>9. ExpiredIsEmpty'
  BY <1>1 DEF Undisturbed, ExpiredIsEmpty
<1>10. EmptyHasNone'
  BY <1>1, <1>3 DEF Undisturbed, EmptyHasNone
<1> QED
  BY <1>4, <1>5, <1>6, <1>7, <1>8, <1>9, <1>10 DEF Undisturbed

LEMMA SessionRequest ==
    ASSUME TInv, Undisturbed, NEW c \in Calls,
           \/ Begin(c) \/ Answered(c) \/ Rejected(c) \/ Forbidden(c) \/ Lost(c) \/ RefreshBreaks(c)
           \/ Ignored(c),
           ~disturbed'
    PROVE  Undisturbed'
<1>0. TypeOK /\ saved \in Pairs \cup {NoPair}
  BY SavedIssued DEF TInv
<1>1. Begin(c) \/ Answered(c) \/ Rejected(c) \/ Ignored(c)
  BY DEF Forbidden, Lost, RefreshBreaks, Disturb
<1>2. UNCHANGED <<refresh, saved>> /\ call[c].pc \notin Trading
  BY <1>1 DEF Begin, Answered, Rejected, Ignored, server, At, Trading
<1>3. \/ Goto(c, "expired") /\ saved = NoPair
      \/ SendWith(c, "request", saved)
      \/ End(c)
      \/ \E again \in BOOLEAN : SendRefresh(c, again)
  BY <1>1 DEF Begin, Answered, Rejected, Ignored, Disturb
<1>4. CASE Goto(c, "expired") /\ saved = NoPair
  BY <1>0, <1>2, <1>4, GotoMoves, PcValues, SessionMove
<1>5. CASE SendWith(c, "request", saved)
  BY <1>0, <1>2, <1>5, SendWithMoves, PcValues, SessionMove
<1>6. CASE End(c)
  BY <1>0, <1>2, <1>6, EndMoves, SessionMove
<1>7. CASE \E again \in BOOLEAN : SendRefresh(c, again)
  <2>1. \/ saved = NoPair /\ Moves(c, "expired", Pair(c))
        \/ /\ saved # NoPair /\ Moves(c, "refresh", saved)
           /\ \A d \in Calls \ {c} : call[d].pc \notin Trading
    BY <1>0, <1>7, SendRefreshMoves
  <2> QED
    BY <2>1, <1>2, SessionMove
<1> QED
  BY <1>3, <1>4, <1>5, <1>6, <1>7

\* What a request in the middle of its trade knows.
LEMMA TradingAlone ==
    ASSUME TInv, Undisturbed, NEW c \in Calls, call[c].pc \in Trading
    PROVE  /\ \A d \in Calls \ {c} : call[d].pc \notin Trading
           /\ Pair(c) \in Pairs
           /\ call[c].pc # "renewed" /\ call[c].pc # "refused" =>
                /\ Pair(c) = saved /\ saved # NoPair
                /\ \A p \in Pairs : Live(p) => p = saved
                /\ \A d \in Calls : call[d].pc # "expired"
<1>1. \A d \in Calls \ {c} : call[d].pc \notin Trading
  BY DEF Undisturbed, Alone
<1>2. Pair(c) \in Pairs /\ Pair(c) # NoPair
  BY PairIssued DEF Pairs, NoPair
<1>3. ASSUME call[c].pc # "renewed", call[c].pc # "refused"
      PROVE  /\ Pair(c) = saved /\ saved # NoPair
             /\ \A p \in Pairs : Live(p) => p = saved
             /\ \A d \in Calls : call[d].pc # "expired"
  <2>1. Pair(c) = saved
    BY <1>3 DEF Undisturbed, TradesSaved, Trading
  <2>2. \A d \in Calls : call[d].pc # "renewed"
    BY <1>1, <1>3 DEF Trading
  <2>3. \A p \in Pairs : Live(p) => p = saved
    BY <2>2 DEF Undisturbed, LiveOwned, Owned
  <2>4. \A d \in Calls : call[d].pc # "expired"
    BY <2>1, <1>2 DEF Undisturbed, ExpiredIsEmpty
  <2> QED
    BY <2>1, <2>3, <2>4, <1>2
<1> QED
  BY <1>1, <1>2, <1>3

LEMMA SessionRotate ==
    ASSUME TInv, RInv, Undisturbed, NEW c \in Calls, RotateRead(c) \/ RotateRevoke(c) \/ RotateIssue(c)
    PROVE  Undisturbed'
<1>0. TypeOK /\ UNCHANGED saved
  BY DEF TInv, RotateRead, RotateRevoke, RotateIssue
<1>a. call[c].pc \in Trading /\ call[c].pc # "renewed" /\ call[c].pc # "refused"
  BY DEF RotateRead, RotateRevoke, RotateIssue, At, Trading
<1>b. /\ \A d \in Calls \ {c} : call[d].pc \notin Trading
      /\ Pair(c) \in Pairs /\ Pair(c) = saved /\ saved # NoPair
      /\ \A p \in Pairs : Live(p) => p = saved
      /\ \A d \in Calls : call[d].pc # "expired"
  BY <1>a, TradingAlone
<1>c. ASSUME NEW pc, NEW p, Moves(c, pc, p), pc \in {"rotating", "rotated", "refused"} => p = saved,
             pc = "refused" => \A q \in Pairs : ~Live(q)',
             pc = "renewed" => \A q \in Pairs : Live(q)' => q = p,
             pc # "renewed" => \A q \in Pairs : Live(q)' => Live(q),
             pc \in Trading, pc # "refresh"
      PROVE  Undisturbed'
  <2>1. /\ \A d \in Calls \ {c} : call'[d].pc = call[d].pc /\ Pair(d)' = Pair(d) /\ call'[d].pc \notin Trading
        /\ call'[c].pc = pc /\ Pair(c)' = p
    BY <1>b, <1>c DEF Moves, Pair
  <2>2. \A d \in Calls : call'[d].pc \in Trading => d = c
    BY <2>1
  <2>3. Alone'
    BY <2>2 DEF Alone
  <2>4. TradesSaved'
    BY <2>1, <2>2, <1>c, <1>0 DEF TradesSaved, Trading
  <2>5. LiveOwned'
    BY <2>1, <1>0, <1>b, <1>c DEF LiveOwned, Owned
  <2>6. RenewedOnly'
    BY <2>1, <2>2, <1>c DEF RenewedOnly, Trading
  <2>7. RefusedIsDead'
    BY <2>1, <2>2, <1>c DEF RefusedIsDead, Trading
  <2>8. ExpiredIsEmpty'
    <3>1. pc # "expired"
      BY <1>c DEF Trading
    <3> QED
      BY <3>1, <2>1, <1>b DEF ExpiredIsEmpty
  <2>9. EmptyHasNone'
    BY <1>0, <1>b DEF EmptyHasNone
  <2> QED
    BY <2>3, <2>4, <2>5, <2>6, <2>7, <2>8, <2>9 DEF Undisturbed
<1>1. CASE RotateRead(c)
  <2> DEFINE next == IF refresh[Pair(c)] = "live" THEN "rotating" ELSE "refused"
  <2>1. Goto(c, next) /\ UNCHANGED refresh
    BY <1>1 DEF RotateRead
  <2>2. /\ next \in Pc /\ next \in Trading /\ next # "refresh" /\ next # "renewed"
        /\ next = "refused" => ~Live(saved)
    BY <1>b, PcValues DEF Live, Trading
  <2>3. next = "refused" => \A q \in Pairs : ~Live(q)
    BY <2>2, <1>b
  <2> HIDE DEF next
  <2>4. Moves(c, next, Pair(c))
    BY <2>1, <2>2, <1>0, GotoMoves
  <2> QED
    BY <2>1, <2>2, <2>3, <2>4, <1>b, <1>c DEF Live
<1>2. CASE RotateRevoke(c)
  <2>1. Goto(c, "rotated") /\ refresh' = [refresh EXCEPT ![Pair(c)] = "revoked"]
    BY <1>2 DEF RotateRevoke
  <2>2. \A q \in Pairs : Live(q)' => Live(q)
    BY <2>1, <1>0 DEF TypeOK, Live
  <2>3. Moves(c, "rotated", Pair(c))
    BY <2>1, <1>0, GotoMoves, PcValues
  <2> QED
    BY <2>2, <2>3, <1>b, <1>c DEF Trading
<1>3. CASE RotateIssue(c)
  <2>1. Issue(Pair(c)) /\ SendWith(c, "renewed", issued + 1) /\ call[c].pc = "rotated"
    BY <1>3 DEF RotateIssue, At
  <2>2. issued + 1 \in Pairs /\ \A q \in Pairs : q # issued + 1 => refresh'[q] = refresh[q]
    BY <2>1, <1>b, IssueType
  <2>3. refresh[saved] = "revoked"
    BY <2>1, <1>b DEF RInv, RotatedIsRevoked
  <2>4. \A q \in Pairs : Live(q)' => q = issued + 1
    BY <2>2, <2>3, <1>b DEF Live
  <2>5. Moves(c, "renewed", issued + 1)
    BY <2>1, <2>2, <1>0, SendWithMoves, PcValues
  <2> QED
    BY <2>4, <2>5, <1>c DEF Trading
<1> QED
  BY <1>1, <1>2, <1>3

LEMMA SessionRenew ==
    ASSUME TInv, Undisturbed, NEW c \in Calls, Renew(c) PROVE Undisturbed'
<1>1. call[c].pc = "renewed" /\ saved' = Pair(c) /\ Goto(c, "request") /\ UNCHANGED refresh /\ TypeOK
  BY DEF Renew, At, server, TInv
<1>2. /\ \A d \in Calls \ {c} : call[d].pc \notin Trading
      /\ Pair(c) \in Pairs
  BY <1>1, TradingAlone DEF Trading
<1>3. \A d \in Calls : call[d].pc # "expired"
  BY <1>1 DEF Undisturbed, ExpiredIsEmpty, EmptyHasNone
<1>4. \A p \in Pairs : Live(p) => p = Pair(c)
  BY <1>1 DEF Undisturbed, RenewedOnly
<1>5. Moves(c, "request", Pair(c))
  BY <1>1, GotoMoves, PcValues
<1>6. \A d \in Calls : call'[d].pc \notin Trading /\ call'[d].pc # "expired"
  BY <1>2, <1>3, <1>5 DEF Moves, Trading
<1>7. LiveOwned'
  BY <1>1, <1>4 DEF LiveOwned, Live, Owned
<1> QED
  BY <1>6, <1>7 DEF Undisturbed, Alone, TradesSaved, RenewedOnly, RefusedIsDead, ExpiredIsEmpty,
                    EmptyHasNone, Trading

\* No request is left that trades, and no refresh token that is valid.
LEMMA SessionOver ==
    ASSUME saved' = NoPair, \A p \in Pairs : ~Live(p)', \A d \in Calls : call'[d].pc \notin Trading
    PROVE  Undisturbed'
BY DEF Undisturbed, Alone, TradesSaved, LiveOwned, RenewedOnly, RefusedIsDead, ExpiredIsEmpty,
       EmptyHasNone, Trading

LEMMA SessionRefuse ==
    ASSUME TInv, Undisturbed, NEW c \in Calls, Refuse(c) PROVE Undisturbed'
<1>1. call[c].pc = "refused" /\ saved' = NoPair /\ Goto(c, "expired") /\ UNCHANGED refresh /\ TypeOK
  BY DEF Refuse, At, server, TInv
<1>2. \A d \in Calls \ {c} : call[d].pc \notin Trading
  BY <1>1, TradingAlone DEF Trading
<1>3. Moves(c, "expired", Pair(c))
  BY <1>1, GotoMoves, PcValues
<1>4. \A d \in Calls : call'[d].pc \notin Trading
  BY <1>2, <1>3 DEF Moves, Trading
<1>5. \A p \in Pairs : ~Live(p)'
  BY <1>1 DEF Undisturbed, RefusedIsDead, Live
<1> QED
  BY <1>1, <1>4, <1>5, SessionOver

\* The handler of the end of the session: it was over already.
LEMMA SessionEnds ==
    ASSUME TInv, Undisturbed, NEW c \in Calls, SessionExpired(c) PROVE Undisturbed'
<1>1. call[c].pc = "expired" /\ saved' = NoPair /\ End(c) /\ UNCHANGED refresh /\ TypeOK
  BY DEF SessionExpired, At, server, TInv
<1>2. UNCHANGED saved
  BY <1>1 DEF Undisturbed, ExpiredIsEmpty
<1>3. Moves(c, "idle", NoPair) /\ call[c].pc \notin Trading
  BY <1>1, EndMoves DEF Trading
<1> QED
  BY <1>1, <1>2, <1>3, SessionMove

LEMMA SessionLogin ==
    ASSUME TInv, Undisturbed, NEW t \in Tabs, Login(t), ~disturbed' PROVE Undisturbed'
<1>1. /\ Issue(NoPair) /\ saved' = issued + 1 /\ UNCHANGED call
      /\ \A p \in Pairs : ~Live(p)
      /\ \A c \in Calls : call[c].pc = "idle"
  BY DEF Login, Disturb, Live, At
<1>2. \A p \in Pairs : Live(p)' => p = saved'
  BY <1>1, IssueType DEF Live
<1> QED
  BY <1>1, <1>2 DEF Undisturbed, Alone, TradesSaved, LiveOwned, Owned, RenewedOnly, RefusedIsDead,
                    ExpiredIsEmpty, EmptyHasNone, Trading

\* The tokens expire; the requests stay.
LEMMA SessionStill ==
    ASSUME Undisturbed, UNCHANGED <<call, saved>>, \A p \in Pairs : Live(p)' => Live(p)
    PROVE  Undisturbed'
<1>1. \A c \in Calls : Pair(c)' = Pair(c)
  BY DEF Pair
<1>2. Alone' /\ TradesSaved' /\ ExpiredIsEmpty' /\ EmptyHasNone'
  BY <1>1 DEF Undisturbed, Alone, TradesSaved, ExpiredIsEmpty, EmptyHasNone
<1>3. LiveOwned' /\ RenewedOnly' /\ RefusedIsDead'
  BY <1>1 DEF Undisturbed, LiveOwned, Owned, RenewedOnly, RefusedIsDead
<1> QED
  BY <1>2, <1>3 DEF Undisturbed

LEMMA SessionStep == ASSUME TInv, RInv, SInv, [Next]_vars PROVE SInv'
<1>0. disturbed => disturbed'
  <2>1. ASSUME NEW c \in Calls, NEW again \in BOOLEAN, SendRefresh(c, again)
        PROVE  disturbed' = TRUE \/ UNCHANGED disturbed
    BY <2>1, SendRefreshMoves DEF TInv
  <2>2. disturbed' = TRUE \/ UNCHANGED disturbed
    BY <2>1 DEF Next, Serve, Begin, Answered, Rejected, RotateRead, RotateRevoke, RotateIssue, Renew,
        Refuse, SessionExpired, Forbidden, Lost, RefreshBreaks, Ignored, Login, Open, Logout, Revoke,
        LoggedOut, Expire, RefreshExpires, Disturb, vars
  <2> QED
    BY <2>2
<1>1. \A t \in Tabs : leaving'[t] # NoPair => disturbed'
  <2>1. CASE UNCHANGED leaving
    BY <2>1, <1>0 DEF SInv
  <2>2. CASE \E t \in Tabs : Logout(t)
    BY <2>2 DEF Logout, Disturb
  <2>3. CASE \E t \in Tabs : LoggedOut(t)
    BY <2>3, <1>0 DEF SInv, LoggedOut, TInv, TypeOK
  <2> QED
    BY <2>1, <2>2, <2>3 DEF Next, Serve, Begin, Answered, Rejected, RotateRead, RotateRevoke,
        RotateIssue, Renew, Refuse, SessionExpired, Forbidden, Lost, RefreshBreaks, Ignored, Login, Open,
        Revoke, Expire, RefreshExpires, vars
<1>2. ASSUME ~disturbed' PROVE Undisturbed'
  <2>0. Undisturbed /\ \A t \in Tabs : leaving[t] = NoPair
    BY <1>0, <1>2 DEF SInv
  <2>1. CASE \E c \in Calls : Begin(c) \/ Serve(c) \/ Forbidden(c) \/ Lost(c) \/ RefreshBreaks(c) \/ Ignored(c)
    BY <2>0, <2>1, <1>2, SessionRequest, SessionRotate, SessionRenew, SessionRefuse, SessionEnds DEF Serve
  <2>2. CASE \E t \in Tabs : Login(t)
    BY <2>0, <2>2, <1>2, SessionLogin
  <2>3. CASE \E t \in Tabs : Open(t) \/ Logout(t) \/ Revoke(t) \/ LoggedOut(t)
    <3>1. UNCHANGED <<call, saved, refresh>>
      BY <2>0, <2>3, <1>2 DEF Open, Logout, Revoke, LoggedOut, Disturb, server
    <3> QED
      BY <3>1, <2>0, SessionStill DEF Live
  <2>4. CASE \E p \in Pairs : Expire(p) \/ RefreshExpires(p)
    <3>1. UNCHANGED <<call, saved>> /\ \A p \in Pairs : Live(p)' => Live(p)
      BY <2>4 DEF Expire, RefreshExpires, server, Live, TInv, TypeOK
    <3> QED
      BY <3>1, <2>0, SessionStill
  <2>5. CASE UNCHANGED vars
    BY <2>0, <2>5, SessionStill DEF vars, Live
  <2> QED
    BY <2>1, <2>2, <2>3, <2>4, <2>5 DEF Next
<1> QED
  BY <1>1, <1>2 DEF SInv

LEMMA SessionInvariant == Spec => []SInv
<1>1. Init => SInv
  <2> SUFFICES ASSUME Init PROVE SInv
    OBVIOUS
  <2>1. /\ saved = NoPair /\ \A d \in Calls : call[d].pc = "idle"
        /\ \A p \in Pairs : ~Live(p) /\ \A t \in Tabs : leaving[t] = NoPair
    BY DEF Init, Idle, Live
  <2>2. Undisturbed
    BY <2>1 DEF Undisturbed, Alone, TradesSaved, LiveOwned, RenewedOnly, RefusedIsDead, ExpiredIsEmpty,
                EmptyHasNone, Trading
  <2>3. \A t \in Tabs : leaving[t] = NoPair
    BY DEF Init
  <2> QED
    BY <2>2, <2>3 DEF SInv
<1>2. TInv /\ RInv /\ SInv /\ [Next]_vars => SInv'
  BY SessionStep
<1> QED
  BY <1>1, <1>2, TypeInvariant, RotationInvariant, PTL DEF Spec

(* In a browser that was left alone, the one valid refresh token is saved,   *)
(* or in the answer to the one request that trades it.                       *)
THEOREM LiveIsSavedTheorem == Spec => []LiveIsSaved
<1>1. SInv => LiveIsSaved
  BY DEF SInv, Undisturbed, LiveOwned, Owned, Live, LiveIsSaved, At
<1> QED
  BY <1>1, SessionInvariant, PTL

(* In a browser that was left alone, a request that reports the end of the   *)
(* session has no valid refresh token left to use.                           *)
THEOREM ExpiredIsDeadTheorem == Spec => []ExpiredIsDead
<1>1. SInv => ExpiredIsDead
  <2> SUFFICES ASSUME SInv, ~disturbed, NEW c \in Calls, call[c].pc = "expired", NEW p \in Pairs
               PROVE  ~Live(p)
    BY DEF ExpiredIsDead, At, Live
  <2>1. Undisturbed
    BY DEF SInv
  <2>2. saved = NoPair /\ \A d \in Calls : call[d].pc # "renewed"
    BY <2>1 DEF Undisturbed, ExpiredIsEmpty, EmptyHasNone
  <2> QED
    BY <2>1, <2>2 DEF Undisturbed, LiveOwned, Owned, Pairs, NoPair
<1> QED
  BY <1>1, SessionInvariant, PTL

=============================================================================
