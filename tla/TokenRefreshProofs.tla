------------------------- MODULE TokenRefreshProofs -------------------------
(***************************************************************************)
(* Theorems about TokenRefresh, for any number of callers and accounts.    *)
(*                                                                         *)
(* The entry in "inflight" is what keeps leaders apart: while a caller     *)
(* leads, the entry of its account is its own event (LeadInv).  From that  *)
(* the backoff of one login is in place before the next leader of the      *)
(* account looks at it, and the event a follower waits for is set only     *)
(* after the token of that login was stored (EventInv, OutcomeInv).        *)
(***************************************************************************)
EXTENDS TokenRefresh, TLAPS

\* The entry of a leader's account is the leader's event; entries are events
\* made so far, and no event stands in two of them.
LeadInv ==
  /\ \A c \in Caller : Leading(c) => inflight[key[c]] = event[c] /\ event[c] # NoEvent
  /\ \A k \in Key : inflight[k] <= made
  /\ \A j, k \in Key : inflight[j] = inflight[k] /\ inflight[j] # NoEvent => j = k

\* The event a caller waits for belongs to the caller's account; an entry's event
\* is not set yet.
EventInv ==
  /\ \A c \in Caller : pc[c] = "wait" => event[c] # NoEvent /\ event[c] <= made
  /\ \A c \in Caller, k \in Key :
       pc[c] = "wait" /\ inflight[k] = event[c] => key[c] = k
  /\ \A e \in isSet : e <= made
  /\ \A k \in Key : inflight[k] \notin isSet

\* What a login found stays known until its event is set, and by then its token
\* is the account's.
OutcomeInv ==
  /\ \A c \in Caller :
       pc[c] \in {"hint", "store", "clean"} => result[c] = login[event[c]]
  /\ \A c \in Caller :
       pc[c] = "clean" /\ result[c].got = "fresh" => token[key[c]] # "stale"
  /\ \A c \in Caller :
       pc[c] = "wait" /\ event[c] \in isSet /\ login[event[c]].got = "fresh"
         => token[key[c]] # "stale"

Inv ==
  /\ TypeOK
  /\ OneLoginPerAccount
  /\ NoLoginDuringBackoff
  /\ LeadInv
  /\ EventInv
  /\ OutcomeInv

-----------------------------------------------------------------------------
(* Types                                                                   *)

LEMMA InitInv == Init => Inv
BY RefreshAssumption
   DEF Init, Inv, TypeOK, OneLoginPerAccount, NoLoginDuringBackoff, LeadInv, EventInv,
       EntriesOpen, OutcomeInv, Leading, Nothing, Result, NoEvent, Event

LEMMA CountDownType == \A n \in Nat : CountDown(n) \in Nat
BY DEF CountDown

LEMMA TypeStep == TypeOK /\ LeadInv /\ EventInv' /\ [Next]_vars => TypeOK'
<1> SUFFICES ASSUME TypeOK, LeadInv, EventInv', [Next]_vars PROVE TypeOK'
  OBVIOUS
<1>0. EntriesOpen'
  BY DEF EventInv, EntriesOpen
<1> USE <1>0
<1> USE DEF TypeOK, Goto, Return, NoEvent
<1>1. ASSUME NEW c \in Caller, NEW k \in Key, Lead(c, k) PROVE TypeOK'
  <2>1. made + 1 \in Event
    BY <1>1, RefreshAssumption DEF Lead, Event
  <2>2. made' \in 0..MaxEvents
    BY <1>1, RefreshAssumption DEF Lead
  <2> QED BY <1>1, <2>1, <2>2 DEF Lead
<1>2. ASSUME NEW c \in Caller, NEW k \in Key, Follow(c, k) PROVE TypeOK'
  BY <1>2, RefreshAssumption DEF Follow, sharedVars
<1>3. ASSUME NEW c \in Caller, SkipLogin(c) PROVE TypeOK'
  BY <1>3 DEF SkipLogin, sharedVars, Nothing, Result
<1>4. ASSUME NEW c \in Caller, StartLogin(c) PROVE TypeOK'
  BY <1>4 DEF StartLogin, sharedVars
<1>5. ASSUME NEW c \in Caller, NEW found \in Result, LoginEnds(c, found) PROVE TypeOK'
  BY <1>5 DEF LoginEnds, sharedVars
<1>6. ASSUME NEW c \in Caller, WriteHint(c) PROVE TypeOK'
  BY <1>6 DEF WriteHint, Result
<1>7. ASSUME NEW c \in Caller, StoreOutcome(c) PROVE TypeOK'
  <2>1. token' \in [Key -> {"stale", "fresh", "manual"}]
    BY <1>7 DEF StoreOutcome
  <2>2. backoff' \in [Key -> Nat]
    BY <1>7, RefreshAssumption DEF StoreOutcome
  <2> QED BY <1>7, <2>1, <2>2 DEF StoreOutcome
<1>8. ASSUME NEW c \in Caller, CleanUp(c) PROVE TypeOK'
  <2>1. inflight' \in [Key -> Event \cup {NoEvent}]
    BY <1>8 DEF CleanUp
  <2>2. isSet' \subseteq Event
    BY <1>8 DEF CleanUp, LeadInv, Leading
  <2> QED BY <1>8, <2>1, <2>2 DEF CleanUp
<1>9. ASSUME NEW c \in Caller, FollowerLeaves(c) PROVE TypeOK'
  BY <1>9 DEF FollowerLeaves, sharedVars, Nothing, Result
<1>10. ASSUME NEW c \in Caller, ReadToken(c) PROVE TypeOK'
  BY <1>10 DEF ReadToken, sharedVars, Result
<1>11. ASSUME NEW c \in Caller, ReadBan(c) PROVE TypeOK'
  BY <1>11 DEF ReadBan, sharedVars, Result
<1>12. ASSUME NEW k \in Key, PutToken(k) PROVE TypeOK'
  BY <1>12 DEF PutToken, callVars
<1>13. ASSUME NEW k \in Key, FinishPutToken(k) PROVE TypeOK'
  BY <1>13 DEF FinishPutToken, callVars
<1>14. ASSUME NEW S, Unblock(S) PROVE TypeOK'
  BY <1>14 DEF Unblock, callVars
<1>15. ASSUME Tick PROVE TypeOK'
  BY <1>15, CountDownType DEF Tick
<1>16. ASSUME UNCHANGED vars PROVE TypeOK'
  BY <1>16 DEF vars, sharedVars, callVars
<1> QED
  BY <1>1, <1>2, <1>3, <1>4, <1>5, <1>6, <1>7, <1>8, <1>9, <1>10, <1>11, <1>12, <1>13,
     <1>14, <1>15, <1>16 DEF Next, Enter, Step, Operator

-----------------------------------------------------------------------------
(* Leaders                                                                 *)

\* A step that makes no leader and leaves the entries and the events of those
\* there are.
LEMMA LeadersKept ==
  ASSUME TypeOK, LeadInv, OneLoginPerAccount,
         UNCHANGED <<inflight, made>>,
         \A c \in Caller : Leading(c)' => /\ Leading(c)
                                        /\ key'[c] = key[c] /\ event'[c] = event[c]
  PROVE  LeadInv' /\ OneLoginPerAccount'
BY DEF LeadInv, OneLoginPerAccount, Leading

LEMMA LeadStep ==
  TypeOK /\ LeadInv /\ OneLoginPerAccount /\ [Next]_vars => LeadInv' /\ OneLoginPerAccount'
<1> SUFFICES ASSUME TypeOK, LeadInv, OneLoginPerAccount, [Next]_vars
             PROVE  LeadInv' /\ OneLoginPerAccount'
  OBVIOUS
<1> USE DEF Goto, Return
<1>1. ASSUME NEW c \in Caller, NEW k \in Key, Lead(c, k)
      PROVE  LeadInv' /\ OneLoginPerAccount'
  <2>1. made + 1 # NoEvent /\ made + 1 > made /\ made' = made + 1
    BY <1>1 DEF Lead, TypeOK, NoEvent
  <2>2. \A d \in Caller : Leading(d)' /\ d # c =>
          Leading(d) /\ key'[d] = key[d] /\ event'[d] = event[d] /\ key[d] # k
    BY <1>1 DEF Lead, LeadInv, Leading, TypeOK
  <2>3. key'[c] = k /\ event'[c] = made + 1
    BY <1>1 DEF Lead, TypeOK
  <2>4. \A j \in Key : inflight[j] \in Int /\ inflight'[j] = IF j = k THEN made + 1 ELSE inflight[j]
    BY <1>1 DEF Lead, TypeOK, Event, NoEvent
  <2>5. OneLoginPerAccount'
    BY <2>2, <2>3 DEF OneLoginPerAccount, LeadInv
  <2>6. LeadInv'
    BY <2>1, <2>2, <2>3, <2>4 DEF LeadInv, TypeOK
  <2> QED BY <2>5, <2>6
<1>2. ASSUME NEW c \in Caller, CleanUp(c)
      PROVE  LeadInv' /\ OneLoginPerAccount'
  <2>1. \A d \in Caller : Leading(d)' =>
          Leading(d) /\ key'[d] = key[d] /\ event'[d] = event[d] /\ key[d] # key[c]
    BY <1>2 DEF CleanUp, OneLoginPerAccount, Leading, TypeOK
  <2>2. \A j \in Key : inflight'[j] = IF j = key[c] THEN NoEvent ELSE inflight[j]
    BY <1>2 DEF CleanUp, TypeOK
  <2>3. made' = made /\ NoEvent <= made
    BY <1>2 DEF CleanUp, TypeOK, NoEvent
  <2>4. OneLoginPerAccount'
    BY <2>1 DEF OneLoginPerAccount
  <2>5. LeadInv'
    BY <2>1, <2>2, <2>3 DEF LeadInv, TypeOK
  <2> QED BY <2>4, <2>5
<1>3. ASSUME NEW c \in Caller,
             \/ \E k \in Key : Follow(c, k)
             \/ SkipLogin(c)
             \/ StartLogin(c)
             \/ \E found \in Result : LoginEnds(c, found)
             \/ WriteHint(c)
             \/ StoreOutcome(c)
             \/ ReadToken(c)
             \/ ReadBan(c)
             \/ FollowerLeaves(c)
      PROVE  LeadInv' /\ OneLoginPerAccount'
  <2>1. UNCHANGED <<inflight, made>>
    BY <1>3 DEF Follow, SkipLogin, StartLogin, LoginEnds, WriteHint, StoreOutcome,
                ReadToken, ReadBan, FollowerLeaves, sharedVars
  <2>2. \A d \in Caller : Leading(d)' => /\ Leading(d)
                                        /\ key'[d] = key[d] /\ event'[d] = event[d]
    BY <1>3 DEF Follow, SkipLogin, StartLogin, LoginEnds, WriteHint, StoreOutcome,
                ReadToken, ReadBan, FollowerLeaves, Leading, TypeOK
  <2> QED BY <2>1, <2>2, LeadersKept
<1>4. CASE Operator \/ Tick \/ UNCHANGED vars
  <2>1. UNCHANGED <<inflight, made, pc, key, event>>
    BY <1>4 DEF Operator, PutToken, FinishPutToken, Unblock, Tick, vars, sharedVars, callVars
  <2> QED BY <2>1, LeadersKept DEF Leading
<1> QED
  BY <1>1, <1>2, <1>3, <1>4 DEF Next, Enter, Step

-----------------------------------------------------------------------------
(* The backoff and the browser                                             *)

\* Only the leader of an account begins a backoff of it, after its own login.
LEMMA BackoffStep ==
  TypeOK /\ OneLoginPerAccount /\ NoLoginDuringBackoff /\ [Next]_vars => NoLoginDuringBackoff'
<1> SUFFICES ASSUME TypeOK, OneLoginPerAccount, NoLoginDuringBackoff, [Next]_vars,
                    NEW d \in Caller, pc'[d] = "login"
             PROVE  backoff'[key'[d]] = 0
  BY DEF NoLoginDuringBackoff
<1> USE DEF Goto, Return
<1>1. ASSUME NEW c \in Caller, StartLogin(c) PROVE backoff'[key'[d]] = 0
  BY <1>1 DEF StartLogin, sharedVars, NoLoginDuringBackoff, TypeOK
<1>2. ASSUME NEW c \in Caller, StoreOutcome(c) PROVE backoff'[key'[d]] = 0
  <2>1. c # d /\ Leading(c) /\ Leading(d) /\ pc[d] = "login" /\ key' = key
    BY <1>2 DEF StoreOutcome, Leading, TypeOK
  <2>2. key[c] # key[d] /\ key[d] \in Key
    BY <2>1 DEF OneLoginPerAccount, TypeOK
  <2>3. backoff'[key[d]] = backoff[key[d]]
    BY <1>2, <2>2 DEF StoreOutcome, TypeOK
  <2> QED BY <2>1, <2>3 DEF NoLoginDuringBackoff
<1>3. ASSUME NEW c \in Caller,
             \/ \E k \in Key : Lead(c, k) \/ Follow(c, k)
             \/ SkipLogin(c)
             \/ \E found \in Result : LoginEnds(c, found)
             \/ WriteHint(c)
             \/ CleanUp(c)
             \/ ReadToken(c)
             \/ ReadBan(c)
             \/ FollowerLeaves(c)
      PROVE  backoff'[key'[d]] = 0
  <2>1. pc[d] = "login" /\ key'[d] = key[d] /\ backoff' = backoff
    BY <1>3 DEF Lead, Follow, SkipLogin, LoginEnds, WriteHint, CleanUp, ReadToken, ReadBan,
                FollowerLeaves, sharedVars, TypeOK
  <2> QED BY <2>1 DEF NoLoginDuringBackoff
<1>4. CASE Operator \/ Tick \/ UNCHANGED vars
  <2>1. pc[d] = "login" /\ key' = key /\ key[d] \in Key
    BY <1>4 DEF Operator, PutToken, FinishPutToken, Unblock, Tick, vars, sharedVars, callVars,
                TypeOK
  <2>2. \A k \in Key : backoff[k] = 0 => backoff'[k] = 0
    BY <1>4 DEF Operator, PutToken, FinishPutToken, Unblock, Tick, CountDown, vars, sharedVars,
                callVars, TypeOK
  <2> QED BY <2>1, <2>2 DEF NoLoginDuringBackoff
<1> QED
  BY <1>1, <1>2, <1>3, <1>4 DEF Next, Enter, Step

-----------------------------------------------------------------------------
(* Events                                                                  *)

\* A step that sets no event, changes no entry and brings nobody new to lead or
\* to wait.
LEMMA EventsKept ==
  ASSUME TypeOK, EventInv, UNCHANGED <<inflight, made, isSet>>,
         \A c \in Caller : /\ pc'[c] = "wait" => pc[c] = "wait"
                           /\ Leading(c)' => Leading(c)
                           /\ key'[c] = key[c] /\ event'[c] = event[c]
  PROVE  EventInv'
BY DEF EventInv

LEMMA EventStep ==
  TypeOK /\ OneLoginPerAccount /\ LeadInv /\ EventInv /\ [Next]_vars => EventInv'
<1> SUFFICES ASSUME TypeOK, OneLoginPerAccount, LeadInv, EventInv, [Next]_vars
             PROVE  EventInv'
  OBVIOUS
<1> USE DEF Goto, Return
<1>1. ASSUME NEW c \in Caller, NEW k \in Key, Lead(c, k) PROVE EventInv'
  <2>1. /\ made + 1 # NoEvent /\ made' = made + 1 /\ isSet' = isSet
        /\ \A n \in Nat : n <= made => n # made + 1 /\ n <= made + 1
    BY <1>1 DEF Lead, TypeOK, NoEvent
  <2>2. \A d \in Caller : d # c =>
          pc'[d] = pc[d] /\ key'[d] = key[d] /\ event'[d] = event[d] /\ event[d] \in Nat
    BY <1>1 DEF Lead, TypeOK, Event, NoEvent
  <2>3. pc'[c] = "lead" /\ key'[c] = k /\ event'[c] = made + 1
    BY <1>1 DEF Lead, TypeOK
  <2>4. \A j \in Key : inflight'[j] = IF j = k THEN made + 1 ELSE inflight[j]
    BY <1>1 DEF Lead, TypeOK
  <2>5. made + 1 \notin isSet /\ \A e \in isSet : e <= made + 1
    BY <2>1 DEF EventInv, TypeOK, Event
  <2>6. \A d \in Caller : pc'[d] = "wait" => event'[d] # NoEvent /\ event'[d] <= made'
    BY <2>1, <2>2, <2>3 DEF EventInv
  <2>7. \A d \in Caller, j \in Key :
          pc'[d] = "wait" /\ inflight'[j] = event'[d] => key'[d] = j
    BY <2>1, <2>2, <2>3, <2>4 DEF EventInv
  <2>8. \A j \in Key : inflight'[j] \notin isSet
    BY <2>4, <2>5 DEF EventInv
  <2> QED BY <2>1, <2>5, <2>6, <2>7, <2>8 DEF EventInv
<1>2. ASSUME NEW c \in Caller, NEW k \in Key, Follow(c, k) PROVE EventInv'
  <2>1. UNCHANGED <<inflight, made, isSet>>
    BY <1>2 DEF Follow, sharedVars
  <2>2. \A d \in Caller : d # c =>
          pc'[d] = pc[d] /\ key'[d] = key[d] /\ event'[d] = event[d]
    BY <1>2 DEF Follow, TypeOK
  <2>3. pc'[c] = "wait" /\ key'[c] = k /\ event'[c] = inflight[k] /\ inflight[k] # NoEvent
    BY <1>2 DEF Follow, TypeOK
  <2>4. \A j \in Key : inflight[j] = inflight[k] => j = k
    BY <2>3 DEF LeadInv
  <2>5. inflight[k] <= made
    BY DEF LeadInv
  <2> QED BY <2>1, <2>2, <2>3, <2>4, <2>5 DEF EventInv, Leading
<1>3. ASSUME NEW c \in Caller, CleanUp(c) PROVE EventInv'
  <2>1. \A d \in Caller : key'[d] = key[d] /\ event'[d] = event[d]
    BY <1>3 DEF CleanUp
  <2>2. \A d \in Caller : pc'[d] = "wait" => pc[d] = "wait"
    BY <1>3 DEF CleanUp, TypeOK
  <2>3. \A j \in Key : inflight'[j] = IF j = key[c] THEN NoEvent ELSE inflight[j]
    BY <1>3 DEF CleanUp, TypeOK
  <2>4. made' = made /\ isSet' = isSet \cup {event[c]} /\ Leading(c)
    BY <1>3 DEF CleanUp, Leading
  <2>5. \A j \in Key : inflight'[j] # NoEvent => inflight'[j] = inflight[j]
    BY <1>3 DEF CleanUp, TypeOK
  <2>6. event[c] <= made
    BY <2>4 DEF LeadInv, TypeOK
  <2>7. \A j \in Key : inflight'[j] \notin isSet'
    <3>1. NoEvent \notin isSet /\ event[c] # NoEvent /\ inflight[key[c]] = event[c]
      BY <2>4 DEF LeadInv, TypeOK, Event, NoEvent
    <3>2. key[c] \in Key
      BY DEF TypeOK
    <3>3. \A j \in Key : j # key[c] => inflight[j] # event[c]
      BY <3>1, <3>2 DEF LeadInv
    <3> QED BY <2>3, <2>4, <3>1, <3>3 DEF EventInv
  <2>8. \A d \in Caller, j \in Key :
          pc'[d] = "wait" /\ inflight'[j] = event'[d] => key'[d] = j
    BY <2>1, <2>2, <2>5 DEF EventInv
  <2> QED BY <2>1, <2>2, <2>3, <2>4, <2>6, <2>7, <2>8 DEF EventInv
<1>4. ASSUME NEW c \in Caller,
             \/ SkipLogin(c)
             \/ StartLogin(c)
             \/ \E found \in Result : LoginEnds(c, found)
             \/ WriteHint(c)
             \/ StoreOutcome(c)
             \/ ReadToken(c)
             \/ ReadBan(c)
             \/ FollowerLeaves(c)
      PROVE  EventInv'
  <2>1. UNCHANGED <<inflight, made, isSet, key, event>>
    BY <1>4 DEF SkipLogin, StartLogin, LoginEnds, WriteHint, StoreOutcome, ReadToken,
                ReadBan, FollowerLeaves, sharedVars
  <2>2. \A d \in Caller : /\ pc'[d] = "wait" => pc[d] = "wait"
                          /\ Leading(d)' => Leading(d)
    BY <1>4 DEF SkipLogin, StartLogin, LoginEnds, WriteHint, StoreOutcome, ReadToken,
                ReadBan, FollowerLeaves, Leading, TypeOK
  <2> QED BY <2>1, <2>2, EventsKept
<1>5. CASE Operator \/ Tick \/ UNCHANGED vars
  <2>1. UNCHANGED <<inflight, made, isSet, pc, key, event>>
    BY <1>5 DEF Operator, PutToken, FinishPutToken, Unblock, Tick, vars, sharedVars, callVars
  <2> QED BY <2>1, EventsKept DEF Leading
<1> QED
  BY <1>1, <1>2, <1>3, <1>4, <1>5 DEF Next, Enter, Step

-----------------------------------------------------------------------------
(* What a login found                                                      *)

\* No step makes a token stale again.
LEMMA TokenStaysRenewed ==
  ASSUME TypeOK, [Next]_vars, NEW k \in Key, token[k] # "stale"
  PROVE  token'[k] # "stale"
BY DEF Next, Enter, Step, Operator, Lead, Follow, SkipLogin, StartLogin, LoginEnds, WriteHint,
       StoreOutcome, CleanUp, FollowerLeaves, ReadToken, ReadBan, PutToken, FinishPutToken,
       Unblock, Tick, vars, sharedVars, callVars, TypeOK

\* A step that leaves logins, results and set events, and moves nobody to where
\* OutcomeInv speaks of.
LEMMA OutcomesKept ==
  ASSUME TypeOK, OutcomeInv, [Next]_vars, UNCHANGED <<isSet, login>>,
         \A c \in Caller :
           /\ pc'[c] = "wait" => pc[c] = "wait"
           /\ pc'[c] = "clean" => pc[c] = "clean"
           /\ pc'[c] \in {"hint", "store", "clean"}
                => pc[c] \in {"hint", "store", "clean"} /\ result'[c] = result[c]
           /\ key'[c] = key[c] /\ event'[c] = event[c]
  PROVE  OutcomeInv'
<1>1. \A c \in Caller : token[key[c]] # "stale" => token'[key[c]] # "stale"
  BY TokenStaysRenewed DEF TypeOK
<1> QED BY <1>1 DEF OutcomeInv

LEMMA OutcomeStep ==
  /\ TypeOK /\ OneLoginPerAccount /\ LeadInv /\ EventInv /\ OutcomeInv
  /\ [Next]_vars
  => OutcomeInv'
<1> SUFFICES ASSUME TypeOK, OneLoginPerAccount, LeadInv, EventInv, OutcomeInv, [Next]_vars
             PROVE  OutcomeInv'
  OBVIOUS
<1> USE DEF Goto, Return
<1>t. \A c \in Caller : token[key[c]] # "stale" => token'[key[c]] # "stale"
  BY TokenStaysRenewed DEF TypeOK
<1>1. ASSUME NEW c \in Caller, NEW k \in Key, Lead(c, k) PROVE OutcomeInv'
  <2>1. UNCHANGED <<isSet, login, result>> /\ pc'[c] = "lead"
    BY <1>1 DEF Lead, TypeOK
  <2>2. \A d \in Caller : d # c =>
          pc'[d] = pc[d] /\ key'[d] = key[d] /\ event'[d] = event[d]
    BY <1>1 DEF Lead, TypeOK
  <2> QED BY <2>1, <2>2, <1>t DEF OutcomeInv
<1>2. ASSUME NEW c \in Caller, NEW k \in Key, Follow(c, k) PROVE OutcomeInv'
  <2>1. UNCHANGED <<isSet, login, result>> /\ pc'[c] = "wait" /\ event'[c] \notin isSet
    BY <1>2 DEF Follow, sharedVars, TypeOK, EventInv
  <2>2. \A d \in Caller : d # c =>
          pc'[d] = pc[d] /\ key'[d] = key[d] /\ event'[d] = event[d]
    BY <1>2 DEF Follow, TypeOK
  <2> QED BY <2>1, <2>2, <1>t DEF OutcomeInv
<1>3. ASSUME NEW c \in Caller, NEW found \in Result, LoginEnds(c, found) PROVE OutcomeInv'
  <2>1. UNCHANGED <<isSet, token, key, event>>
    BY <1>3 DEF LoginEnds, sharedVars
  <2>2. Leading(c) /\ event[c] \notin isSet /\ event[c] \in Event
    BY <1>3 DEF LoginEnds, Leading, LeadInv, EventInv, TypeOK
  <2>3. /\ pc'[c] = "hint" /\ result'[c] = found
        /\ \A e \in Event : login'[e] = IF e = event[c] THEN found ELSE login[e]
    BY <1>3, <2>2 DEF LoginEnds, TypeOK
  <2>4. \A d \in Caller : d # c => pc'[d] = pc[d] /\ result'[d] = result[d]
    BY <1>3 DEF LoginEnds, TypeOK
  <2>5. \A d \in Caller : Leading(d) /\ d # c => event[d] # event[c] /\ event[d] \in Event
    BY <2>2 DEF LeadInv, OneLoginPerAccount, TypeOK
  <2>6. \A d \in Caller : pc'[d] \in {"hint", "store", "clean"} =>
          result'[d] = login'[event[d]]
    BY <2>2, <2>3, <2>4, <2>5 DEF OutcomeInv, Leading
  <2>7. \A d \in Caller : pc'[d] = "wait" /\ event[d] \in isSet =>
          pc[d] = "wait" /\ login'[event[d]] = login[event[d]]
    BY <2>2, <2>3, <2>4 DEF TypeOK
  <2>8. \A d \in Caller : pc'[d] = "clean" => pc[d] = "clean" /\ result'[d] = result[d]
    BY <2>3, <2>4
  <2> QED BY <2>1, <2>6, <2>7, <2>8 DEF OutcomeInv
<1>4. ASSUME NEW c \in Caller, StoreOutcome(c) PROVE OutcomeInv'
  <2>1. UNCHANGED <<isSet, login, key, event, result>>
    BY <1>4 DEF StoreOutcome
  <2>2. \A d \in Caller : d # c => pc'[d] = pc[d]
    BY <1>4 DEF StoreOutcome, TypeOK
  <2>3. pc[c] = "store" /\ pc'[c] = "clean"
    BY <1>4 DEF StoreOutcome, TypeOK
  <2>4. result[c].got = "fresh" => token'[key[c]] # "stale"
    BY <1>4 DEF StoreOutcome, TypeOK
  <2> QED BY <2>1, <2>2, <2>3, <2>4, <1>t DEF OutcomeInv
<1>5. ASSUME NEW c \in Caller, CleanUp(c) PROVE OutcomeInv'
  <2>1. UNCHANGED <<login, key, event, token>> /\ isSet' = isSet \cup {event[c]}
    BY <1>5 DEF CleanUp
  <2>2. \A d \in Caller : d # c => pc'[d] = pc[d] /\ result'[d] = result[d]
    BY <1>5 DEF CleanUp, TypeOK
  <2>3. pc[c] = "clean" /\ pc'[c] = "idle" /\ inflight[key[c]] = event[c]
    BY <1>5 DEF CleanUp, TypeOK, LeadInv, Leading
  <2>4. \A d \in Caller : pc[d] = "wait" /\ event[d] = event[c] => key[d] = key[c]
    BY <2>3 DEF EventInv, TypeOK
  <2>5. login[event[c]].got = "fresh" => token[key[c]] # "stale"
    BY <2>3 DEF OutcomeInv
  <2> QED BY <2>1, <2>2, <2>3, <2>4, <2>5 DEF OutcomeInv
<1>6. ASSUME NEW c \in Caller,
             \/ SkipLogin(c)
             \/ StartLogin(c)
             \/ WriteHint(c)
             \/ ReadToken(c)
             \/ ReadBan(c)
             \/ FollowerLeaves(c)
      PROVE  OutcomeInv'
  <2>1. UNCHANGED <<isSet, login, key, event>>
    BY <1>6 DEF SkipLogin, StartLogin, WriteHint, ReadToken, ReadBan, FollowerLeaves,
                sharedVars
  <2>2. \A d \in Caller :
          /\ pc'[d] = "wait" => pc[d] = "wait"
          /\ pc'[d] = "clean" => pc[d] = "clean"
          /\ pc'[d] \in {"hint", "store", "clean"}
               => pc[d] \in {"hint", "store", "clean"} /\ result'[d] = result[d]
    BY <1>6 DEF SkipLogin, StartLogin, WriteHint, ReadToken, ReadBan, FollowerLeaves, TypeOK
  <2> QED BY <2>1, <2>2, OutcomesKept
<1>7. CASE Operator \/ Tick \/ UNCHANGED vars
  <2>1. UNCHANGED <<isSet, login, pc, key, event, result>>
    BY <1>7 DEF Operator, PutToken, FinishPutToken, Unblock, Tick, vars, sharedVars, callVars
  <2> QED BY <2>1, OutcomesKept
<1> QED
  BY <1>1, <1>2, <1>3, <1>4, <1>5, <1>6, <1>7 DEF Next, Enter, Step

-----------------------------------------------------------------------------
(* The theorems                                                            *)

LEMMA Invariance == Spec => []Inv
<1>1. Inv /\ [Next]_vars => Inv'
  BY TypeStep, LeadStep, BackoffStep, EventStep, OutcomeStep DEF Inv
<1> QED BY <1>1, InitInv, PTL DEF Spec

\* Every variable of the refresh keeps its type (_refresh_token_via_obscura and
\* the endpoints that touch its state).
THEOREM RefreshTypeCorrect == Spec => []TypeOK
BY Invariance, PTL DEF Inv

\* Two requests never run the browser for one account at a time: the entry in
\* _TOKEN_REFRESH_INFLIGHT stands from the leader's first step to its last.
THEOREM OneLoginPerAccountHolds == Spec => []OneLoginPerAccount
BY Invariance, PTL DEF Inv

\* No login runs for an account whose last login told it to wait: the backoff is
\* written before the entry is taken away.
THEOREM NoLoginDuringBackoffHolds == Spec => []NoLoginDuringBackoff
BY Invariance, PTL DEF Inv

\* A follower that was woken by a login with a token does not return the stale
\* one: the token is stored before the event is set.
THEOREM FollowerGetsTokenHolds == Spec => FollowerGetsToken
<1>1. ASSUME Inv, [Next]_vars, NEW c \in Caller,
             pc[c] = "wait", pc'[c] = "readBan", event[c] \in isSet,
             login[event[c]].got = "fresh"
      PROVE  result'[c].got # "stale"
  <2>1. ReadToken(c)
    BY <1>1 DEF Next, Enter, Step, Operator, Lead, Follow, SkipLogin, StartLogin, LoginEnds,
                WriteHint, StoreOutcome, CleanUp, FollowerLeaves, ReadToken, ReadBan, PutToken,
                FinishPutToken, Unblock, Tick, vars, sharedVars, callVars, Inv, TypeOK, Goto,
                Return
  <2>2. result'[c].got = token[key[c]]
    BY <1>1, <2>1 DEF ReadToken, Inv, TypeOK
  <2> QED BY <1>1, <2>2 DEF Inv, OutcomeInv
<1>2. Inv /\ [Next]_vars =>
        [\A c \in Caller :
           (/\ pc[c] = "wait" /\ pc'[c] = "readBan"
            /\ event[c] \in isSet
            /\ login[event[c]].got = "fresh")
           => result'[c].got # "stale"]_vars
  BY <1>1
<1> QED BY <1>2, Invariance, PTL DEF Spec, FollowerGetsToken

-----------------------------------------------------------------------------
(* Followers and the ban hint                                              *)
(*                                                                         *)
(* The hint is kept by account, not by login: what a follower reads may be *)
(* a later login's.  While its event is the last one made, no other leader *)
(* of the account can have written the hint in between, because the entry  *)
(* of an account only ever gets younger than what its followers wait for.  *)

Following(c) == pc[c] \in {"wait", "readBan"}

HintInv ==
  /\ \A c \in Caller : pc[c] \in {"store", "clean"} => hint[key[c]] = result[c].banned
  /\ \A c \in Caller : Following(c) => event[c] # NoEvent /\ event[c] <= made
  /\ \A c \in Caller, k \in Key : Following(c) /\ inflight[k] = event[c] => key[c] = k
  /\ \A c \in Caller :
       Following(c) /\ inflight[key[c]] # NoEvent => event[c] <= inflight[key[c]]
  /\ \A c \in Caller :
       /\ Following(c) /\ event[c] = made
       /\ event[c] \in isSet /\ login[event[c]].banned
       => hint[key[c]]

\* A step that changes no entry, event, hint or login that was found, and brings
\* nobody new to follow or to have written a hint.
LEMMA HintsKept ==
  ASSUME HintInv, UNCHANGED <<inflight, made, isSet, hint, login, key, event>>,
         \A c \in Caller :
           /\ Following(c)' => Following(c)
           /\ pc'[c] \in {"store", "clean"}
                => pc[c] \in {"store", "clean"} /\ result'[c] = result[c]
  PROVE  HintInv'
BY DEF HintInv

LEMMA HintStep ==
  /\ TypeOK /\ OneLoginPerAccount /\ LeadInv /\ EventInv /\ OutcomeInv /\ HintInv
  /\ [Next]_vars
  => HintInv'
<1> SUFFICES ASSUME TypeOK, OneLoginPerAccount, LeadInv, EventInv, OutcomeInv, HintInv,
                    [Next]_vars
             PROVE  HintInv'
  OBVIOUS
<1> USE DEF Goto, Return
<1>t. /\ \A k \in Key : inflight[k] \in Nat /\ inflight[k] <= made
      /\ \A c \in Caller : event[c] \in Nat /\ key[c] \in Key
      /\ made \in Nat /\ isSet \subseteq Nat
  BY RefreshAssumption DEF TypeOK, LeadInv, Event, NoEvent
<1>1. ASSUME NEW c \in Caller, NEW k \in Key, Lead(c, k) PROVE HintInv'
  <2>1. /\ UNCHANGED <<isSet, login, hint, result>> /\ ~Following(c)' /\ pc'[c] = "lead"
        /\ made' = made + 1 /\ made + 1 # NoEvent
        /\ \A j \in Key : inflight'[j] = IF j = k THEN made + 1 ELSE inflight[j]
    BY <1>1, <1>t DEF Lead, TypeOK, Following, NoEvent
  <2>2. \A d \in Caller : d # c =>
          pc'[d] = pc[d] /\ key'[d] = key[d] /\ event'[d] = event[d]
    BY <1>1 DEF Lead, TypeOK
  <2>3. \A d \in Caller : Following(d)' =>
          Following(d) /\ d # c /\ event[d] # NoEvent /\ event[d] < made'
    BY <2>1, <2>2, <1>t DEF HintInv, Following
  <2>4. \A d \in Caller : pc'[d] \in {"store", "clean"} => hint'[key'[d]] = result'[d].banned
    BY <2>1, <2>2 DEF HintInv
  <2>5. \A d \in Caller, j \in Key :
          Following(d)' /\ inflight'[j] = event'[d] => key'[d] = j
    BY <2>1, <2>2, <2>3, <1>t DEF HintInv
  <2>6. \A d \in Caller :
          Following(d)' /\ inflight'[key'[d]] # NoEvent => event'[d] <= inflight'[key'[d]]
    BY <2>1, <2>2, <2>3, <1>t DEF HintInv
  <2>7. \A d \in Caller :
          Following(d)' => event'[d] # NoEvent /\ event'[d] <= made' /\ event'[d] # made'
    BY <2>2, <2>3, <2>1, <1>t
  <2> QED BY <2>4, <2>5, <2>6, <2>7 DEF HintInv
<1>2. ASSUME NEW c \in Caller, NEW k \in Key, Follow(c, k) PROVE HintInv'
  <2>1. /\ UNCHANGED <<inflight, made, isSet, hint, login, result>>
        /\ pc'[c] = "wait" /\ key'[c] = k /\ event'[c] = inflight[k] /\ inflight[k] # NoEvent
        /\ inflight[k] \notin isSet
    BY <1>2 DEF Follow, sharedVars, TypeOK, EventInv
  <2>2. \A d \in Caller : d # c =>
          pc'[d] = pc[d] /\ key'[d] = key[d] /\ event'[d] = event[d]
    BY <1>2 DEF Follow, TypeOK
  <2>3. \A d \in Caller : pc'[d] \in {"store", "clean"} => hint'[key'[d]] = result'[d].banned
    BY <2>1, <2>2 DEF HintInv
  <2>4. \A d \in Caller : Following(d)' =>
          /\ event'[d] # NoEvent /\ event'[d] <= made'
          /\ inflight'[key'[d]] # NoEvent => event'[d] <= inflight'[key'[d]]
    BY <2>1, <2>2, <1>t DEF HintInv, Following
  <2>5. \A d \in Caller, j \in Key :
          Following(d)' /\ inflight'[j] = event'[d] => key'[d] = j
    BY <2>1, <2>2, <1>t DEF HintInv, Following, LeadInv
  <2>6. \A d \in Caller :
          /\ Following(d)' /\ event'[d] = made'
          /\ event'[d] \in isSet' /\ login'[event'[d]].banned
          => hint'[key'[d]]
    BY <2>1, <2>2 DEF HintInv, Following
  <2> QED BY <2>3, <2>4, <2>5, <2>6 DEF HintInv
<1>3. ASSUME NEW c \in Caller, NEW found \in Result, LoginEnds(c, found) PROVE HintInv'
  <2>1. /\ UNCHANGED <<inflight, made, isSet, hint, key, event>>
        /\ pc'[c] = "hint" /\ event[c] \notin isSet
    BY <1>3 DEF LoginEnds, sharedVars, TypeOK, Leading, LeadInv, EventInv
  <2>2. \A d \in Caller : d # c => pc'[d] = pc[d] /\ result'[d] = result[d]
    BY <1>3 DEF LoginEnds, TypeOK
  <2>3. \A e \in isSet : login'[e] = login[e]
    BY <1>3, <2>1 DEF LoginEnds, TypeOK
  <2>4. \A d \in Caller : Following(d)' => Following(d)
    BY <2>1, <2>2 DEF Following
  <2>5. \A d \in Caller : pc'[d] \in {"store", "clean"} => hint'[key'[d]] = result'[d].banned
    BY <2>1, <2>2 DEF HintInv
  <2> QED BY <2>1, <2>3, <2>4, <2>5 DEF HintInv
<1>4. ASSUME NEW c \in Caller, WriteHint(c) PROVE HintInv'
  <2>1. /\ UNCHANGED <<inflight, made, isSet, login, key, event, result>>
        /\ Leading(c) /\ pc'[c] = "store"
        /\ inflight[key[c]] = event[c] /\ event[c] \notin isSet /\ event[c] # NoEvent
    BY <1>4 DEF WriteHint, TypeOK, Leading, LeadInv, EventInv
  <2>2. \A d \in Caller : d # c => pc'[d] = pc[d]
    BY <1>4 DEF WriteHint, TypeOK
  <2>3. hint'[key[c]] = result[c].banned /\ \A j \in Key : j # key[c] => hint'[j] = hint[j]
    BY <1>4, <1>t DEF WriteHint, TypeOK
  <2>4. \A d \in Caller : pc'[d] \in {"store", "clean"} => hint'[key'[d]] = result'[d].banned
    <3>1. \A d \in Caller \ {c} : pc'[d] \in {"store", "clean"} => key[d] # key[c]
      BY <2>1, <2>2 DEF OneLoginPerAccount, Leading
    <3> QED BY <2>1, <2>2, <2>3, <3>1, <1>t DEF HintInv
  <2>5. \A d \in Caller : Following(d)' => Following(d)
    BY <2>1, <2>2 DEF Following
  <2>6. \A d \in Caller : Following(d) /\ event[d] = made /\ event[d] \in isSet => key[d] # key[c]
    BY <2>1, <1>t DEF HintInv
  <2>7. \A d \in Caller :
          /\ Following(d)' /\ event'[d] = made'
          /\ event'[d] \in isSet' /\ login'[event'[d]].banned
          => hint'[key'[d]]
    BY <2>1, <2>3, <2>5, <2>6, <1>t DEF HintInv
  <2> QED BY <2>1, <2>4, <2>5, <2>7 DEF HintInv
<1>5. ASSUME NEW c \in Caller, StoreOutcome(c) PROVE HintInv'
  <2>1. UNCHANGED <<inflight, made, isSet, hint, login, key, event, result>>
    BY <1>5 DEF StoreOutcome
  <2>2. \A d \in Caller :
          /\ Following(d)' => Following(d)
          /\ pc'[d] \in {"store", "clean"} => pc[d] \in {"store", "clean"}
    BY <1>5 DEF StoreOutcome, TypeOK, Following
  <2> QED BY <2>1, <2>2, HintsKept
<1>6. ASSUME NEW c \in Caller, CleanUp(c) PROVE HintInv'
  <2>1. /\ UNCHANGED <<made, hint, login, key, event>> /\ isSet' = isSet \cup {event[c]}
        /\ pc[c] = "clean" /\ pc'[c] = "idle" /\ inflight[key[c]] = event[c]
        /\ \A j \in Key : inflight'[j] = IF j = key[c] THEN NoEvent ELSE inflight[j]
    BY <1>6 DEF CleanUp, TypeOK, LeadInv, Leading
  <2>2. \A d \in Caller : d # c => pc'[d] = pc[d] /\ result'[d] = result[d]
    BY <1>6 DEF CleanUp, TypeOK
  <2>3. \A d \in Caller : Following(d)' => Following(d)
    BY <2>1, <2>2 DEF Following
  <2>4. \A d \in Caller : pc'[d] \in {"store", "clean"} => hint'[key'[d]] = result'[d].banned
    BY <2>1, <2>2 DEF HintInv
  <2>5. hint[key[c]] = login[event[c]].banned
    BY <2>1 DEF HintInv, OutcomeInv
  <2>6. \A d \in Caller : Following(d) /\ event[d] = event[c] => key[d] = key[c]
    BY <2>1, <1>t DEF HintInv
  <2>7. \A d \in Caller :
          /\ Following(d)' /\ event'[d] = made'
          /\ event'[d] \in isSet' /\ login'[event'[d]].banned
          => hint'[key'[d]]
    BY <2>1, <2>3, <2>5, <2>6 DEF HintInv
  <2>8. /\ \A d \in Caller : Following(d)' => event'[d] # NoEvent /\ event'[d] <= made'
        /\ \A d \in Caller, j \in Key :
             Following(d)' /\ inflight'[j] = event'[d] => key'[d] = j
        /\ \A d \in Caller :
             Following(d)' /\ inflight'[key'[d]] # NoEvent => event'[d] <= inflight'[key'[d]]
    BY <2>1, <2>3, <1>t DEF HintInv
  <2> QED BY <2>4, <2>7, <2>8 DEF HintInv
<1>7. ASSUME NEW c \in Caller,
             \/ SkipLogin(c)
             \/ StartLogin(c)
             \/ ReadToken(c)
             \/ ReadBan(c)
             \/ FollowerLeaves(c)
      PROVE  HintInv'
  <2>1. UNCHANGED <<inflight, made, isSet, hint, login, key, event>>
    BY <1>7 DEF SkipLogin, StartLogin, ReadToken, ReadBan, FollowerLeaves, sharedVars
  <2>2. \A d \in Caller :
          /\ Following(d)' => Following(d)
          /\ pc'[d] \in {"store", "clean"}
               => pc[d] \in {"store", "clean"} /\ result'[d] = result[d]
    BY <1>7 DEF SkipLogin, StartLogin, ReadToken, ReadBan, FollowerLeaves, Following, TypeOK
  <2> QED BY <2>1, <2>2, HintsKept
<1>8. CASE Operator \/ Tick \/ UNCHANGED vars
  <2>1. UNCHANGED <<inflight, made, isSet, hint, login, pc, key, event, result>>
    BY <1>8 DEF Operator, PutToken, FinishPutToken, Unblock, Tick, vars, sharedVars, callVars
  <2> QED BY <2>1, HintsKept DEF Following
<1> QED
  BY <1>1, <1>2, <1>3, <1>4, <1>5, <1>6, <1>7, <1>8 DEF Next, Enter, Step

\* A follower that was woken by a login that met a suspension page returns the
\* ban, although it reads the hint of the account and not of that login: no later
\* refresh has begun, so nobody has written the hint since.
THEOREM FollowerGetsBanHolds == Spec => FollowerGetsBan
<1>1. Init => HintInv
  BY DEF Init, HintInv, Following
<1>2. Inv /\ HintInv /\ [Next]_vars => HintInv'
  BY HintStep DEF Inv
<1>3. ASSUME Inv, HintInv, [Next]_vars, NEW c \in Caller,
             pc[c] = "readBan", pc'[c] = "idle", event[c] \in isSet,
             login[event[c]].banned, made = event[c]
      PROVE  result'[c].banned
  <2>1. ReadBan(c)
    BY <1>3 DEF Next, Enter, Step, Operator, Lead, Follow, SkipLogin, StartLogin, LoginEnds,
                WriteHint, StoreOutcome, CleanUp, FollowerLeaves, ReadToken, ReadBan, PutToken,
                FinishPutToken, Unblock, Tick, vars, sharedVars, callVars, Inv, TypeOK, Goto,
                Return
  <2>2. result'[c].banned = hint[key[c]]
    BY <1>3, <2>1 DEF ReadBan, Return, Inv, TypeOK, Result
  <2> QED BY <1>3, <2>2 DEF HintInv, Following
<1>4. Inv /\ HintInv /\ [Next]_vars =>
        [\A c \in Caller :
           (/\ pc[c] = "readBan" /\ pc'[c] = "idle"
            /\ event[c] \in isSet
            /\ login[event[c]].banned
            /\ made = event[c])
           => result'[c].banned]_vars
  BY <1>3
<1> QED BY <1>1, <1>2, <1>4, Invariance, PTL DEF Spec, FollowerGetsBan
=============================================================================
