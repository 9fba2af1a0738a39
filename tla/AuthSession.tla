----------------------------- MODULE AuthSession -----------------------------
(***************************************************************************)
(* The session of one browser (authSession.js and the handlers of App.jsx) *)
(* against the refresh tokens of the server (auth/service.py).             *)
(*                                                                         *)
(* A login gives a pair of tokens.  The pair is kept in localStorage,      *)
(* which all tabs share.  A request whose access token has expired trades  *)
(* the refresh token for a new pair; nothing keeps several requests from   *)
(* doing so with the same token at the same time, and one that is refused  *)
(* ends the session and empties the offline storage.                       *)
(***************************************************************************)
EXTENDS Naturals, FiniteSets

CONSTANTS
    Tabs,           \* tabs of the browser
    Calls,          \* requests under way at the same time (authorizedApiRequest)
    TabOf,          \* the tab of each request
    MaxPairs,       \* bound: pairs of tokens
    MaxStarts,      \* bound: requests started
    MaxLogins,      \* bound: logins
    MaxFaults       \* bound: lost answers, answers 429 and 5xx, and 403

Pairs == 1..MaxPairs

NoPair == 0

ASSUME TabOfAssumption == TabOf \in [Calls -> Tabs]
ASSUME BoundsAssumption == /\ MaxPairs \in Nat  /\ MaxStarts \in Nat
                           /\ MaxLogins \in Nat /\ MaxFaults \in Nat

VARIABLES
    saved,          \* the pair in localStorage
    shown,          \* the tabs whose authState is set
    call,           \* the step of each request
    leaving,        \* the pair whose revocation each tab's logout waits for
    refresh,        \* the refresh token of each pair, in the database
    stale,          \* pairs whose access token expires within the skew, or has
    issued,         \* pairs 1..issued exist
    parent,         \* history: the pair each one was traded for
    raced,          \* history: pairs whose rotation two requests had begun
    disturbed,      \* history: two requests have traded a token at the same time, an answer
                    \* was lost, or was 403, 429 or 5xx, a new access token expired before
                    \* its first use, or somebody logged out, or in beside a session
    starts, logins, faults

vars == <<saved, shown, call, leaving, refresh, stale, issued, parent, raced,
          disturbed, starts, logins, faults>>

server == <<refresh, issued, parent, raced>>
bounds == <<starts, logins, faults>>

Idle == [pc |-> "idle", pair |-> NoPair, retried |-> FALSE]

\* request: sent with the access token of pair.  refresh, rotating, rotated: on its
\* way to, and in, rotate_refresh_token with the refresh token of pair.  renewed,
\* refused: the answer is on its way.  expired: AuthSessionError was thrown.
Pc == {"idle", "request", "refresh", "rotating", "rotated", "renewed", "refused", "expired"}

\* Trading the refresh token for a new pair.
Trading == {"refresh", "rotating", "rotated", "renewed", "refused"}

TypeOK ==
    /\ saved \in Pairs \cup {NoPair}
    /\ shown \subseteq Tabs
    /\ call \in [Calls -> [pc : Pc, pair : Pairs \cup {NoPair}, retried : BOOLEAN]]
    /\ \A c \in Calls : call[c].pc \in {"request"} \cup Trading => call[c].pair \in 1..issued
    /\ leaving \in [Tabs -> Pairs \cup {NoPair}]
    /\ refresh \in [Pairs -> {"none", "live", "revoked", "expired"}]
    /\ stale \subseteq Pairs
    /\ issued \in 0..MaxPairs
    /\ parent \in [Pairs -> Pairs \cup {NoPair}]
    /\ raced \subseteq Pairs
    /\ disturbed \in BOOLEAN
    /\ starts \in 0..MaxStarts
    /\ logins \in 0..MaxLogins
    /\ faults \in 0..MaxFaults

Init ==
    /\ saved = NoPair
    /\ shown = {}
    /\ call = [c \in Calls |-> Idle]
    /\ leaving = [t \in Tabs |-> NoPair]
    /\ refresh = [p \in Pairs |-> "none"]
    /\ stale = {}
    /\ issued = 0
    /\ parent = [p \in Pairs |-> NoPair]
    /\ raced = {}
    /\ disturbed = FALSE
    /\ starts = 0
    /\ logins = 0
    /\ faults = 0

-----------------------------------------------------------------------------
At(c, pc) == call[c].pc = pc

Pair(c) == call[c].pair

Goto(c, pc) == call' = [call EXCEPT ![c].pc = pc]

SendWith(c, pc, p) == call' = [call EXCEPT ![c].pc = pc, ![c].pair = p]

End(c) == call' = [call EXCEPT ![c] = Idle]

Disturb == disturbed' = TRUE

Fault == faults < MaxFaults /\ faults' = faults + 1

\* Mutant of SendRefresh: the missing token is sent.
SendRefreshUnchecked(c, again) ==
    /\ call' = [call EXCEPT ![c].pc = "refresh", ![c].pair = saved, ![c].retried = again]
    /\ UNCHANGED disturbed

(* refreshAuth up to its fetch: it reads the pair that is saved now.        *)
SendRefresh(c, again) ==
    IF saved = NoPair
    THEN Goto(c, "expired") /\ UNCHANGED disturbed
    ELSE /\ call' = [call EXCEPT ![c].pc = "refresh", ![c].pair = saved, ![c].retried = again]
         /\ IF \E d \in Calls \ {c} : call[d].pc \in Trading
            THEN Disturb ELSE UNCHANGED disturbed

(* ensureValidAuth, and the request itself when the token is still good.    *)
Begin(c) ==
    /\ At(c, "idle") /\ TabOf[c] \in shown /\ starts < MaxStarts
    /\ starts' = starts + 1
    /\ \/ saved = NoPair /\ Goto(c, "expired") /\ UNCHANGED disturbed
       \/ saved # NoPair /\ saved \notin stale /\ SendWith(c, "request", saved) /\ UNCHANGED disturbed
       \/ saved # NoPair /\ saved \in stale /\ SendRefresh(c, FALSE)
    /\ UNCHANGED <<saved, shown, leaving, server, stale, logins, faults>>

\* Mutant of Answered: the answer to a request that was retried is dropped.
AnsweredFirst(c) ==
    /\ At(c, "request") /\ ~call[c].retried
    /\ End(c)
    /\ UNCHANGED <<saved, shown, leaving, server, stale, disturbed, bounds>>

(* The request was answered: done, or an error the caller sees as such.     *)
Answered(c) ==
    /\ At(c, "request")
    /\ End(c)
    /\ UNCHANGED <<saved, shown, leaving, server, stale, disturbed, bounds>>

(* 401, because the access token had expired when it was looked at: one     *)
(* refresh and one retry, whose own 401 is an AuthSessionError.             *)
Rejected(c) ==
    /\ At(c, "request") /\ Pair(c) \in stale
    /\ IF call[c].retried
       THEN Goto(c, "expired") /\ Disturb
       ELSE SendRefresh(c, TRUE)
    /\ UNCHANGED <<saved, shown, leaving, server, stale, bounds>>

(* 403: the role of the user does not allow the operation, and the client   *)
(* takes it for the end of the session.                                     *)
Forbidden(c) ==
    /\ At(c, "request") /\ Fault
    /\ Goto(c, "expired") /\ Disturb
    /\ UNCHANGED <<saved, shown, leaving, server, stale, starts, logins>>

(* The network fails, for the request or its refresh, before or after the   *)
(* server acted: fetch throws an error that is not an AuthSessionError.     *)
Lost(c) ==
    /\ call[c].pc \in {"request"} \cup Trading /\ Fault
    /\ End(c) /\ Disturb
    /\ UNCHANGED <<saved, shown, leaving, server, stale, starts, logins>>

(* /auth/refresh is answered 429 or 5xx, or its worker dies in between.     *)
RefreshBreaks(c) ==
    /\ call[c].pc \in {"refresh", "rotating", "rotated"} /\ Fault
    /\ Goto(c, "refused") /\ Disturb
    /\ UNCHANGED <<saved, shown, leaving, server, stale, starts, logins>>

-----------------------------------------------------------------------------
(* rotate_refresh_token: the row of a token that is not revoked, without a  *)
(* lock.                                                                    *)
RotateRead(c) ==
    /\ At(c, "refresh")
    /\ raced' = raced \cup {p \in {Pair(c)} : \E d \in Calls \ {c} : At(d, "rotating") /\ Pair(d) = p}
    /\ Goto(c, IF refresh[Pair(c)] = "live" THEN "rotating" ELSE "refused")
    /\ UNCHANGED <<saved, shown, leaving, refresh, issued, parent, stale, disturbed, bounds>>

\* Mutant of RotateRevoke: the token traded in stays valid.
RotateKeep(c) ==
    /\ At(c, "rotating")
    /\ Goto(c, "rotated")
    /\ UNCHANGED <<saved, shown, leaving, server, stale, disturbed, bounds>>

(* ... revoked_at is set, whatever it has become, and committed; ...        *)
RotateRevoke(c) ==
    /\ At(c, "rotating")
    /\ refresh' = [refresh EXCEPT ![Pair(c)] = "revoked"]
    /\ Goto(c, "rotated")
    /\ UNCHANGED <<saved, shown, leaving, issued, parent, raced, stale, disturbed, bounds>>

(* issue_token_pair.                                                        *)
Issue(from) ==
    /\ issued < MaxPairs
    /\ issued' = issued + 1
    /\ refresh' = [refresh EXCEPT ![issued + 1] = "live"]
    /\ parent' = [parent EXCEPT ![issued + 1] = from]

(* ... and the new pair is issued in a transaction of its own.              *)
RotateIssue(c) ==
    /\ At(c, "rotated")
    /\ Issue(Pair(c))
    /\ SendWith(c, "renewed", issued + 1)
    /\ UNCHANGED <<saved, shown, leaving, raced, stale, disturbed, bounds>>

\* Mutant of Renew: the new pair is used and not saved.
RenewUnsaved(c) ==
    /\ At(c, "renewed")
    /\ Goto(c, "request")
    /\ UNCHANGED <<saved, shown, leaving, server, stale, disturbed, bounds>>

(* refreshAuth: the pair is saved, over whatever is saved by now, and the   *)
(* request is sent with it.                                                 *)
Renew(c) ==
    /\ At(c, "renewed")
    /\ saved' = Pair(c)
    /\ Goto(c, "request")
    /\ UNCHANGED <<shown, leaving, server, stale, disturbed, bounds>>

(* refreshAuth: clearAuthState, whatever is saved by now.                   *)
Refuse(c) ==
    /\ At(c, "refused")
    /\ saved' = NoPair
    /\ Goto(c, "expired")
    /\ UNCHANGED <<shown, leaving, server, stale, disturbed, bounds>>

(* handleSessionExpired.                                                    *)
SessionExpired(c) ==
    /\ At(c, "expired")
    /\ saved' = NoPair
    /\ shown' = shown \ {TabOf[c]}
    /\ End(c)
    /\ UNCHANGED <<leaving, server, stale, disturbed, bounds>>

(* Some callers only report the error (the probe, the views).               *)
Ignored(c) ==
    /\ At(c, "expired")
    /\ End(c)
    /\ UNCHANGED <<saved, shown, leaving, server, stale, disturbed, bounds>>

-----------------------------------------------------------------------------
(* handleLogin: the login page is there when no user is shown or saved.     *)
Login(t) ==
    /\ t \notin shown /\ saved = NoPair /\ logins < MaxLogins
    /\ logins' = logins + 1
    /\ Issue(NoPair)
    /\ saved' = issued + 1
    /\ shown' = shown \cup {t}
    /\ IF (\E p \in Pairs : refresh[p] = "live") \/ (\E c \in Calls : ~At(c, "idle"))
       THEN Disturb ELSE UNCHANGED disturbed
    /\ UNCHANGED <<call, leaving, raced, stale, starts, faults>>

(* A tab that is opened, or renders again, takes the user that is saved.    *)
Open(t) ==
    /\ t \notin shown /\ saved # NoPair
    /\ shown' = shown \cup {t}
    /\ UNCHANGED <<saved, call, leaving, server, stale, disturbed, bounds>>

(* handleLogout: the saved refresh token, if any, is sent to be revoked, ... *)
Logout(t) ==
    /\ t \in shown /\ leaving[t] = NoPair
    /\ leaving' = [leaving EXCEPT ![t] = saved]
    /\ shown' = IF saved = NoPair THEN shown \ {t} ELSE shown
    /\ Disturb
    /\ UNCHANGED <<saved, call, server, stale, bounds>>

(* ... revoke_refresh, ...                                                  *)
Revoke(t) ==
    /\ leaving[t] # NoPair
    /\ refresh' = [refresh EXCEPT ![leaving[t]] = "revoked"]
    /\ UNCHANGED <<saved, shown, call, leaving, issued, parent, raced, stale, disturbed, bounds>>

(* ... and the session ends here, whether or not the server was reached.    *)
LoggedOut(t) ==
    /\ leaving[t] # NoPair
    /\ leaving' = [leaving EXCEPT ![t] = NoPair]
    /\ saved' = NoPair
    /\ shown' = shown \ {t}
    /\ UNCHANGED <<call, server, stale, disturbed, bounds>>

(* Time passes: the access token of the saved pair expires, ...             *)
Expire(p) ==
    /\ p \notin stale
    /\ p = saved
    /\ stale' = stale \cup {p}
    /\ UNCHANGED <<saved, shown, call, leaving, server, disturbed, bounds>>

(* ... and after days without use its refresh token.                        *)
RefreshExpires(p) ==
    /\ p \in stale /\ refresh[p] = "live" /\ p = saved
    /\ refresh' = [refresh EXCEPT ![p] = "expired"]
    /\ UNCHANGED <<saved, shown, call, leaving, issued, parent, raced, stale, disturbed, bounds>>

Serve(c) ==
    \/ Answered(c) \/ Rejected(c) \/ RotateRead(c) \/ RotateRevoke(c) \/ RotateIssue(c)
    \/ Renew(c) \/ Refuse(c) \/ SessionExpired(c)

Next ==
    \/ \E c \in Calls : Begin(c) \/ Serve(c) \/ Forbidden(c) \/ Lost(c) \/ RefreshBreaks(c) \/ Ignored(c)
    \/ \E t \in Tabs : Login(t) \/ Open(t) \/ Logout(t) \/ Revoke(t) \/ LoggedOut(t)
    \/ \E p \in Pairs : Expire(p) \/ RefreshExpires(p)

Spec == Init /\ [][Next]_vars

FairSpec == Spec /\ \A c \in Calls : WF_vars(Serve(c))

-----------------------------------------------------------------------------
(* A refresh token gives one new pair, unless two requests had found it      *)
(* valid before either of them revoked it (rotate_refresh_token reads it     *)
(* without a lock).                                                          *)
OneSuccessorUnlessRaced ==
    \A p, q \in Pairs :
        parent[p] # NoPair /\ parent[p] = parent[q] /\ p # q => parent[p] \in raced

(* Left alone, a browser has one valid refresh token, and it is the one it   *)
(* has saved or the one in the answer to the request that trades it:         *)
(* nothing of a past session stays valid.                                    *)
LiveIsSaved ==
    ~disturbed =>
        \A p \in Pairs : refresh[p] = "live" =>
            saved = p \/ \E c \in Calls : At(c, "renewed") /\ Pair(c) = p

(* Left alone, a request is told that the session is over, which empties     *)
(* the offline storage, only when no valid refresh token is left.            *)
ExpiredIsDead ==
    ~disturbed =>
        \A c \in Calls : At(c, "expired") => \A p \in Pairs : refresh[p] # "live"

(* Every request ends: it is refreshed and retried at most once each.        *)
CallsEnd == \A c \in Calls : ~At(c, "idle") ~> At(c, "idle")

=============================================================================
