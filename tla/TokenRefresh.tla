---------------------------- MODULE TokenRefresh ----------------------------
(***************************************************************************)
(* _refresh_token_via_obscura: the browser login that renews an account's  *)
(* token, shared by the requests that need it (one leader runs the         *)
(* browser, the others wait for it), and the backoff after a login that    *)
(* produced no token.  Requests, the operator's endpoints that set a token *)
(* or clear the backoff, and the clock interleave.                         *)
(***************************************************************************)
EXTENDS Integers

CONSTANTS
  Caller,        \* requests that may need a refresh, one call at a time each
  Key,           \* accounts with credentials, by cfg.identifier
  Cancellable,   \* callers whose client may leave
  BackoffTicks,  \* backoffs, one per reason (120, 180 and 600 s), in ticks
  WaitTicks,     \* how long a follower waits (180 s), in ticks
  MaxEvents      \* bound: how many refreshes are begun

ASSUME RefreshAssumption ==
  /\ Cancellable \subseteq Caller
  /\ BackoffTicks \subseteq Nat \ {0}
  /\ {WaitTicks, MaxEvents} \subseteq Nat

Event == 1..MaxEvents
NoEvent == 0

VARIABLES
  inflight,  \* _TOKEN_REFRESH_INFLIGHT: the event of the running refresh
  made,      \* events created so far
  isSet,     \* events that are set
  hint,      \* _TOKEN_REFRESH_BAN_HINT: did the last login show a ban?
  backoff,   \* _LOGIN_FAIL_UNTIL: ticks the backoff still lasts
  token,     \* the account's cfg.token: "stale", "fresh" or "manual"
  clearing,  \* accounts whose PUT token handler has still to clear the backoff
  pc,        \* where each caller is
  key,       \* the account of the caller's last call
  event,     \* the event of the caller's last call
  left,      \* ticks until a follower stops waiting
  result,    \* what the login found (leader) or the call returns
  login      \* history: what the login of each event found

sharedVars == <<inflight, made, isSet, hint, backoff, token, clearing>>
callVars == <<pc, key, event, left, result>>
vars == <<sharedVars, callVars, login>>

\* (token_or_None, login_banned): "got" says whether and which token came back.
Result == [got : {"none", "stale", "fresh", "manual"}, banned : BOOLEAN]
Nothing == [got |-> "none", banned |-> FALSE]

Leading(c) == pc[c] \in {"lead", "login", "hint", "store", "clean"}

\* An entry is taken back when its event is set: nobody who comes later waits for
\* a refresh that is over.
EntriesOpen == \A k \in Key : inflight[k] \notin isSet

TypeOK ==
  /\ inflight \in [Key -> Event \cup {NoEvent}]
  /\ made \in 0..MaxEvents
  /\ isSet \subseteq Event
  /\ hint \in [Key -> BOOLEAN]
  /\ backoff \in [Key -> Nat]
  /\ token \in [Key -> {"stale", "fresh", "manual"}]
  /\ clearing \subseteq Key
  /\ pc \in [Caller -> {"idle", "lead", "login", "hint", "store", "clean",
                        "wait", "readBan"}]
  /\ key \in [Caller -> Key]
  /\ event \in [Caller -> Event \cup {NoEvent}]
  /\ left \in [Caller -> Nat]
  /\ result \in [Caller -> Result]
  /\ login \in [Event -> Result]
  /\ EntriesOpen

Init ==
  /\ inflight = [k \in Key |-> NoEvent]
  /\ made = 0
  /\ isSet = {}
  /\ hint = [k \in Key |-> FALSE]
  /\ backoff = [k \in Key |-> 0]
  /\ token = [k \in Key |-> "stale"]
  /\ clearing = {}
  /\ pc = [c \in Caller |-> "idle"]
  /\ key \in {[c \in Caller |-> k] : k \in Key}
  /\ event = [c \in Caller |-> NoEvent]
  /\ left = [c \in Caller |-> 0]
  /\ result = [c \in Caller |-> Nothing]
  /\ login = [e \in Event |-> Nothing]

Goto(c, from, to) ==
  /\ pc[c] = from
  /\ pc' = [pc EXCEPT ![c] = to]

\* The call returns r.
Return(c, from, r) ==
  /\ Goto(c, from, "idle")
  /\ result' = [result EXCEPT ![c] = r]

-----------------------------------------------------------------------------
(* Entering: the leader registers its event, a follower takes the leader's *)

Lead_NoRegister(c, k) ==
  /\ inflight[k] = NoEvent
  /\ made < MaxEvents
  /\ Goto(c, "idle", "lead")
  /\ made' = made + 1
  /\ key' = [key EXCEPT ![c] = k]
  /\ event' = [event EXCEPT ![c] = made + 1]
  /\ UNCHANGED <<inflight, isSet, hint, backoff, token, clearing, left, result, login>>

Lead(c, k) ==
  /\ inflight[k] = NoEvent
  /\ made < MaxEvents
  /\ Goto(c, "idle", "lead")
  /\ made' = made + 1
  /\ inflight' = [inflight EXCEPT ![k] = made + 1]
  /\ key' = [key EXCEPT ![c] = k]
  /\ event' = [event EXCEPT ![c] = made + 1]
  /\ UNCHANGED <<isSet, hint, backoff, token, clearing, left, result, login>>

Follow(c, k) ==
  /\ inflight[k] # NoEvent
  /\ Goto(c, "idle", "wait")
  /\ key' = [key EXCEPT ![c] = k]
  /\ event' = [event EXCEPT ![c] = inflight[k]]
  /\ left' = [left EXCEPT ![c] = WaitTicks]
  /\ UNCHANGED <<sharedVars, result, login>>

-----------------------------------------------------------------------------
(* The leader                                                              *)

\* A recent fruitless login: return before the try block, and so without its
\* "finally" that takes the event back.
SkipLogin(c) ==
  /\ backoff[key[c]] > 0
  /\ Return(c, "lead", Nothing)
  /\ UNCHANGED <<sharedVars, key, event, left, login>>

StartLogin(c) ==
  /\ backoff[key[c]] = 0
  /\ Goto(c, "lead", "login")
  /\ UNCHANGED <<sharedVars, key, event, left, result, login>>

\* The browser is done: with a token or not, on a suspension page or not.
LoginEnds(c, found) ==
  /\ found.got \in {"none", "fresh"}
  /\ Goto(c, "login", "hint")
  /\ result' = [result EXCEPT ![c] = found]
  /\ login' = [login EXCEPT ![event[c]] = found]
  /\ UNCHANGED <<sharedVars, key, event, left>>

WriteHint_AndWake(c) ==
  /\ Goto(c, "hint", "store")
  /\ hint' = [hint EXCEPT ![key[c]] = result[c].banned]
  /\ inflight' = [inflight EXCEPT ![key[c]] = NoEvent]
  /\ isSet' = isSet \cup {event[c]}
  /\ UNCHANGED <<made, backoff, token, clearing, key, event, left, result, login>>

WriteHint_Kept(c) ==
  /\ Goto(c, "hint", "store")
  /\ UNCHANGED <<sharedVars, key, event, left, result, login>>

WriteHint(c) ==
  /\ Goto(c, "hint", "store")
  /\ hint' = [hint EXCEPT ![key[c]] = result[c].banned]
  /\ UNCHANGED <<inflight, made, isSet, backoff, token, clearing,
                 key, event, left, result, login>>

\* A token is stored, a ban clears the backoff, anything else begins one.
StoreOutcome(c) ==
  /\ Goto(c, "store", "clean")
  /\ token' = IF result[c].got = "fresh" THEN [token EXCEPT ![key[c]] = "fresh"] ELSE token
  /\ IF result[c].got = "fresh" \/ result[c].banned
     THEN backoff' = [backoff EXCEPT ![key[c]] = 0]
     ELSE \E n \in BackoffTicks : backoff' = [backoff EXCEPT ![key[c]] = n]
  /\ UNCHANGED <<inflight, made, isSet, hint, clearing, key, event, left, result, login>>

\* A bug to find: the entry is forgotten.
CleanUp_KeepsEntry(c) ==
  /\ Return(c, "clean", result[c])
  /\ isSet' = isSet \cup {event[c]}
  /\ UNCHANGED <<inflight, made, hint, backoff, token, clearing, key, event, left, login>>

\* The "finally": take the entry of this account away, wake the followers.
CleanUp(c) ==
  /\ Return(c, "clean", result[c])
  /\ inflight' = [inflight EXCEPT ![key[c]] = NoEvent]
  /\ isSet' = isSet \cup {event[c]}
  /\ UNCHANGED <<made, hint, backoff, token, clearing, key, event, left, login>>

-----------------------------------------------------------------------------
(* A follower                                                              *)

FollowerLeaves(c) ==
  /\ c \in Cancellable
  /\ Return(c, "wait", Nothing)
  /\ UNCHANGED <<sharedVars, key, event, left, login>>

ReadToken_NoDeadline(c) ==
  /\ event[c] \in isSet
  /\ Goto(c, "wait", "readBan")
  /\ result' = [result EXCEPT ![c] = [got |-> token[key[c]], banned |-> FALSE]]
  /\ UNCHANGED <<sharedVars, key, event, left, login>>

\* Woken, or tired of waiting: whatever token the account has now.
ReadToken(c) ==
  /\ event[c] \in isSet \/ left[c] = 0
  /\ Goto(c, "wait", "readBan")
  /\ result' = [result EXCEPT ![c] = [got |-> token[key[c]], banned |-> FALSE]]
  /\ UNCHANGED <<sharedVars, key, event, left, login>>

ReadBan(c) ==
  /\ Return(c, "readBan", [result[c] EXCEPT !.banned = hint[key[c]]])
  /\ UNCHANGED <<sharedVars, key, event, left, login>>

-----------------------------------------------------------------------------
(* The operator and the clock                                              *)

\* PUT /v1/accounts/{id}/token: the token first, the backoff at the end.
PutToken(k) ==
  /\ token' = [token EXCEPT ![k] = "manual"]
  /\ clearing' = clearing \cup {k}
  /\ UNCHANGED <<inflight, made, isSet, hint, backoff, callVars, login>>

FinishPutToken(k) ==
  /\ k \in clearing
  /\ clearing' = clearing \ {k}
  /\ backoff' = [backoff EXCEPT ![k] = 0]
  /\ UNCHANGED <<inflight, made, isSet, hint, token, callVars, login>>

\* POST /v1/accounts/unblock, for one account or for all.
Unblock(S) ==
  /\ backoff' = [k \in Key |-> IF k \in S THEN 0 ELSE backoff[k]]
  /\ UNCHANGED <<inflight, made, isSet, hint, token, clearing, callVars, login>>

CountDown(n) == IF n > 0 THEN n - 1 ELSE 0

Tick ==
  /\ \A c \in Caller : pc[c] = "wait" => left[c] > 0
  /\ backoff' = [k \in Key |-> CountDown(backoff[k])]
  /\ left' = [c \in Caller |-> CountDown(left[c])]
  /\ UNCHANGED <<inflight, made, isSet, hint, token, clearing, pc, key, event, result, login>>

Enter(c) == \E k \in Key : Lead(c, k) \/ Follow(c, k)

Step(c) ==
  \/ SkipLogin(c)
  \/ StartLogin(c)
  \/ \E found \in Result : LoginEnds(c, found)
  \/ WriteHint(c)
  \/ StoreOutcome(c)
  \/ CleanUp(c)
  \/ ReadToken(c)
  \/ ReadBan(c)

Operator ==
  \/ \E k \in Key : PutToken(k) \/ FinishPutToken(k)
  \/ \E S \in {Key} \cup {{k} : k \in Key} : Unblock(S)

Next ==
  \/ \E c \in Caller : Enter(c) \/ Step(c) \/ FollowerLeaves(c)
  \/ Operator
  \/ Tick

Spec == Init /\ [][Next]_vars

\* Threads keep running, the browser login ends (it has timeouts), time passes.
FairSpec == Spec /\ (\A c \in Caller : WF_vars(Step(c))) /\ WF_vars(Tick)

-----------------------------------------------------------------------------
(* Properties                                                              *)

\* Concurrent refreshes of one account share one browser run.
OneLoginPerAccount ==
  \A c, d \in Caller :
    c # d /\ Leading(c) /\ Leading(d) => key[c] # key[d]

\* No browser login runs for an account while its backoff lasts: the backoff of
\* the last login is in place before the next leader can look at it.
NoLoginDuringBackoff ==
  \A c \in Caller : pc[c] = "login" => backoff[key[c]] = 0

\* A follower woken by a login that found a token does not come back with the
\* stale one.
FollowerGetsToken ==
  [][\A c \in Caller :
       (/\ pc[c] = "wait" /\ pc'[c] = "readBan"
        /\ event[c] \in isSet
        /\ login[event[c]].got = "fresh")
       => result'[c].got # "stale"]_vars

\* A follower woken by a login that met a suspension page reports the ban, unless
\* another refresh has begun since.
FollowerGetsBan ==
  [][\A c \in Caller :
       (/\ pc[c] = "readBan" /\ pc'[c] = "idle"
        /\ event[c] \in isSet
        /\ login[event[c]].banned
        /\ made = event[c])
       => result'[c].banned]_vars

\* Every call returns: a leader's because the login ends, a follower's at the
\* latest when its own wait is over.
EveryCallReturns ==
  \A c \in Caller : pc[c] # "idle" ~> pc[c] = "idle"

\* Whoever waits for a refresh waits for one that is running.
WaitsForALeader ==
  \A c \in Caller :
    pc[c] = "wait" /\ event[c] \notin isSet
      => \E d \in Caller : Leading(d) /\ event[d] = event[c]
=============================================================================
