------------------------------ MODULE Failover ------------------------------
(***************************************************************************)
(* Chat requests running on the account pool: _acquire_slot_or_499 and the *)
(* /v1/chat/completions handler, the failover loop                         *)
(* _complete_with_failover_sync, the slot hand-back around a WAF refresh,  *)
(* and the operator's calls that change the pool meanwhile.                *)
(*                                                                         *)
(* What happens inside one completion (_run_completion_core) is its effect *)
(* on the account: it succeeds, marks the account banned and raises 403,   *)
(* raises 401, raises another error, stops because the client left, or     *)
(* gives the slot away while WAF cookies are refreshed.                    *)
(***************************************************************************)
EXTENDS AccountPool, FiniteSets

CONSTANTS
  Request,          \* the requests that arrive
  Cancellable,      \* requests whose cancel event may be set: the client leaves
  WafBlocked,       \* requests that may meet an upstream WAF block
  UseMultiple,      \* the values settings.use_multiple_accounts may have
  OperatorCalls,    \* which operator calls occur: "select", "unblock", "add", ...
  InitialPool,      \* the accounts read from config.json
  InitialCurrent,   \* possible values of the saved active_account
  InitialBans,      \* possible saved bans: functions from objects to ban ends
  QueueTicks,       \* the 90 s wait for a slot, in ticks
  FailoverTicks,    \* FAILOVER_ACQUIRE_TIMEOUT, in ticks
  InvalidTicks,     \* INVALID_TOKEN_COOLDOWN_SECONDS, in ticks
  MaxRetries        \* settings.max_retries

None == "none"

ASSUME RequestAssumption ==
  /\ None \notin Request \cup Item
  /\ Cancellable \subseteq Request
  /\ WafBlocked \subseteq Request
  /\ UseMultiple \subseteq BOOLEAN
  /\ InitialPool \in Seq(Item)
  /\ InitialCurrent \subseteq Account \cup {NoAccount}
  /\ \A saved \in InitialBans :
       /\ DOMAIN saved \subseteq Item
       /\ \A i \in DOMAIN saved : saved[i] \in BanTicks \cup {0, NoExpiry}
  /\ {QueueTicks, FailoverTicks, MaxRetries} \subseteq Nat
  /\ InvalidTicks \in Nat \ {0}

VARIABLES
  pc,         \* where each request is
  cancelled,  \* cancelled[r]: the request's cancel event is set
  order,      \* order[r]: objects the running scan has still to try
  cur,        \* cur[r]: the object the request holds, or held last
  loc,        \* loc[r]: the other locals of the request, see Local
  refused     \* history: while r fails over from a 401, the object that answered it,
              \* as long as nobody cuts the cooldown short that it gets for it

requestVars == <<pc, cancelled, order, cur, loc, refused>>
vars == <<poolVars, requestVars>>

Local ==
  [multi    : BOOLEAN,                          \* use_multiple_accounts, as read
   left     : Nat,                              \* ticks to acquire()'s deadline
   exc      : {None, "ban", "auth", "other"},   \* error of the last attempt
   failed   : Item \cup {None},                 \* failed_item
   tries    : Nat,                              \* attempts that were failed over
   maxTries : Nat,                              \* max_tries
   waf      : Nat,                              \* WAF retries left in this attempt
   mark     : Nat]                              \* the cooldown mark_banned will write

NoLocal == [multi |-> TRUE, left |-> 0, exc |-> None, failed |-> None, tries |-> 0,
            maxTries |-> 0, waf |-> 0, mark |-> 0]

PC == BanPlace \cup
      {"idle", "snap", "scan", "try", "check", "granted", "start", "run",
       "reacquire", "orphan", "marking", "marked", "failing", "decide", "won",
       "switch", "finish", "done"}

\* The requests that hold the lock of cur[r], as far as the code knows.
HoldsSlot(r) ==
  pc[r] \in {"check", "granted", "start", "run", "marking", "marked", "failing",
             "won", "switch", "finish"}

\* The requests inside acquire() or aacquire(), and those of them in failover.
Acquiring(r) == pc[r] \in BanPlace \cup {"snap", "scan", "try", "check"}
InFailover(r) == loc[r].tries > 0

\* Some request is inside mark_banned for object i.
BeingMarked(i) == \E r \in Request : pc[r] \in {"marking", "marked"} /\ cur[r] = i

\* aacquire() runs on the event loop and only yields between two scans.
OnLoop(r) ==
  ~InFailover(r) /\ pc[r] \in BanPlace \cup {"scan", "try", "check", "granted"}

TypeOK ==
  /\ PoolTypeOK
  /\ pc \in [Request -> PC]
  /\ cancelled \in [Request -> BOOLEAN]
  /\ order \in [Request -> Seq(Item)]
  /\ cur \in [Request -> Item \cup {None}]
  /\ loc \in [Request -> Local]
  /\ refused \in [Request -> Item \cup {None}]

Init ==
  /\ \E saved \in InitialBans, selected \in InitialCurrent :
       InitPool(InitialPool, selected, saved)
  /\ pc = [r \in Request |-> "idle"]
  /\ cancelled = [r \in Request |-> FALSE]
  /\ order = [r \in Request |-> <<>>]
  /\ cur = [r \in Request |-> None]
  /\ loc = [r \in Request |-> NoLocal]
  /\ refused = [r \in Request |-> None]

Goto(r, from, to) ==
  /\ pc[r] = from
  /\ pc' = [pc EXCEPT ![r] = to]

\* The request is answered: its locals are gone.
Answer(r, from) ==
  /\ Goto(r, from, "done")
  /\ cancelled' = [cancelled EXCEPT ![r] = FALSE]
  /\ order' = [order EXCEPT ![r] = <<>>]
  /\ cur' = [cur EXCEPT ![r] = None]
  /\ loc' = [loc EXCEPT ![r] = NoLocal]
  /\ refused' = [refused EXCEPT ![r] = None]

\* A step that changes nothing of the pool but the lock of the request's object.
OnlyLock == UNCHANGED <<pool, cursor, current, banVars, unborn, threads>>
OnlyMarks == UNCHANGED <<pool, cursor, current, locked, unborn>>

\* A step that shortens the cooldown of object i makes it usable for those it refused.
Forgiving(i) ==
  refused' = [r \in Request |->
                IF refused[r] = i /\ badLeft'[i] < badLeft[i] THEN None ELSE refused[r]]

-----------------------------------------------------------------------------
(* Waiting for a slot: aacquire() for a new request, acquire() in failover *)

\* The chat handler, up to _acquire_slot_or_499.
Arrive(r) ==
  /\ Goto(r, "idle", "snap")
  /\ \E multi \in UseMultiple :
       loc' = [loc EXCEPT ![r].multi = multi, ![r].left = QueueTicks]
  /\ UNCHANGED <<poolVars, cancelled, order, cur, refused>>

LoopFree == \A r \in Request : ~OnLoop(r)

\* Top of the loop: snapshot, cursor and order, under the pool's guard.
Snapshot(r) ==
  /\ InFailover(r) \/ LoopFree
  /\ pool # <<>>
  /\ Goto(r, "snap", "scan")
  /\ order' = [order EXCEPT ![r] = CandidateOrder(~InFailover(r) /\ ~loc[r].multi)]
  /\ cursor' = (cursor + 1) % CursorCycle
  /\ UNCHANGED <<pool, current, locked, banVars, unborn, threads>>
  /\ UNCHANGED <<cancelled, cur, loc, refused>>

\* An empty pool: 503 for a new request, the first error for one in failover.
NoAccounts(r) ==
  /\ pool = <<>>
  /\ Answer(r, "snap")
  /\ UNCHANGED poolVars

Candidate(r) == Head(order[r])
Skip(r) == order' = [order EXCEPT ![r] = Tail(order[r])]

\* Membership and cooldown of the next candidate.
Consider(r) ==
  /\ order[r] # <<>>
  /\ \/ /\ Candidate(r) \notin Members \/ Cooling(Candidate(r))
        /\ Goto(r, "scan", "scan")
        /\ Skip(r)
     \/ /\ Candidate(r) \in Members /\ ~Cooling(Candidate(r))
        /\ Goto(r, "scan", "flag")
        /\ UNCHANGED order
  /\ UNCHANGED <<poolVars, cancelled, cur, loc, refused>>

\* Its ban, still before the lock: each access of PooledAccount.banned is a step.
CheckBan(r, to) ==
  /\ pc[r] \in BanPlace
  /\ ReadBan(Candidate(r), pc[r], to)
  /\ pc' = [pc EXCEPT ![r] = CASE to = "usable" -> "try"
                               [] to = "banned" -> "scan"
                               [] OTHER -> to]
  /\ IF to = "banned" THEN Skip(r) ELSE UNCHANGED order
  /\ Forgiving(Candidate(r))
  /\ OnlyMarks
  /\ UNCHANGED <<threads, cancelled, cur, loc>>

\* lock.acquire(blocking=False)
TryLock(r) ==
  /\ pc[r] = "try"
  /\ IF LockFree(Candidate(r))
     THEN /\ Goto(r, "try", "check")
          /\ Lock(Candidate(r))
          /\ cur' = [cur EXCEPT ![r] = Candidate(r)]
          /\ UNCHANGED order
     ELSE Goto(r, "try", "scan") /\ Skip(r) /\ UNCHANGED <<locked, cur>>
  /\ OnlyLock
  /\ UNCHANGED <<cancelled, loc, refused>>

\* What acquire() checks again once it has the lock.
StillUsable(i) == i \in Members /\ ~Cooling(i)

\* An attempt begins.
BeginAttempt(l) == [l EXCEPT !.left = 0, !.waf = MaxRetries]

\* The slot is the request's.
KeepLock(r) ==
  /\ pc[r] = "check"
  /\ StillUsable(cur[r])
  /\ order' = [order EXCEPT ![r] = <<>>]
  /\ IF InFailover(r)
     THEN /\ Goto(r, "check", "run")
          /\ loc' = [loc EXCEPT ![r] = BeginAttempt(@)]
     ELSE Goto(r, "check", "granted") /\ UNCHANGED loc
  /\ refused' = [refused EXCEPT ![r] = None]
  /\ UNCHANGED <<poolVars, cancelled, cur>>

\* The object was removed or marked meanwhile.
PutLockBack(r) ==
  /\ Goto(r, "check", "scan")
  /\ ~StillUsable(cur[r])
  /\ Unlock(cur[r])
  /\ Skip(r)
  /\ OnlyLock
  /\ UNCHANGED <<cancelled, cur, loc, refused>>

Exhausted_NoDeadline(r) ==
  /\ order[r] = <<>>
  /\ \/ ~InFailover(r) /\ cancelled[r] /\ Answer(r, "scan")
     \/ Goto(r, "scan", "snap") /\ UNCHANGED <<cancelled, order, cur, loc, refused>>
  /\ UNCHANGED poolVars

(***************************************************************************)
(* Nothing was free.  At the deadline acquire() raises TimeoutError: a new *)
(* request answers 429, one in failover its first error.  A new request    *)
(* waits in chunks and answers 499 at the end of one if its client left.   *)
(***************************************************************************)
Exhausted(r) ==
  /\ order[r] = <<>>
  /\ \/ loc[r].left = 0 /\ Answer(r, "scan")
     \/ ~InFailover(r) /\ cancelled[r] /\ Answer(r, "scan")
     \/ /\ loc[r].left > 0
        /\ Goto(r, "scan", "snap")
        /\ UNCHANGED <<cancelled, order, cur, loc, refused>>
  /\ UNCHANGED poolVars

-----------------------------------------------------------------------------
(* Running a completion on the slot                                        *)

Granted_KeepsSlot(r) ==
  /\ IF cancelled[r]
     THEN Answer(r, "granted")
     ELSE Goto(r, "granted", "start") /\ UNCHANGED <<cancelled, order, cur, loc, refused>>
  /\ UNCHANGED poolVars

\* The handler looks at the client once more before it starts anything.
Granted(r) ==
  /\ IF cancelled[r]
     THEN /\ Answer(r, "granted")
          /\ Unlock(cur[r])
     ELSE /\ Goto(r, "granted", "start")
          /\ UNCHANGED <<locked, cancelled, order, cur, loc, refused>>
  /\ OnlyLock

\* _complete_with_failover_sync, up to the first _run_completion_core.
TryBudget(multi) == IF multi /\ pool # <<>> THEN Len(pool) ELSE 1

Start(r) ==
  /\ Goto(r, "start", "run")
  /\ loc' = [loc EXCEPT ![r] =
                 [BeginAttempt(@) EXCEPT !.maxTries = TryBudget(loc[r].multi)]]
  /\ UNCHANGED <<poolVars, cancelled, order, cur, refused>>

Succeed(r) ==
  /\ Goto(r, "run", "won")
  /\ UNCHANGED <<poolVars, cancelled, order, cur, loc, refused>>

\* _ban_403_for_item enters mark_banned while the slot is still held: the end ...
RaiseBan(r, until) ==
  /\ Goto(r, "run", "marking")
  /\ MarkEnd(cur[r], until)
  /\ loc' = [loc EXCEPT ![r].exc = "ban", ![r].mark = BanCooldown(until)]
  /\ OnlyMarks
  /\ UNCHANGED <<threads, cancelled, order, cur, refused>>

\* ... the flag ...
SetFlag(r) ==
  /\ Goto(r, "marking", "marked")
  /\ MarkFlag(cur[r])
  /\ OnlyMarks
  /\ UNCHANGED <<threads, cancelled, order, cur, loc, refused>>

\* ... and the cooldown.
SetCooldown(r) ==
  /\ Goto(r, "marked", "failing")
  /\ MarkCooldown(cur[r], loc[r].mark)
  /\ loc' = [loc EXCEPT ![r].mark = 0]
  /\ Forgiving(cur[r])
  /\ OnlyMarks
  /\ UNCHANGED <<threads, cancelled, order, cur>>

\* A 401 marks nothing here; any other HTTP error or exception is the caller's.
RaiseOther(r, kind) ==
  /\ Goto(r, "run", "failing")
  /\ loc' = [loc EXCEPT ![r].exc = kind]
  /\ UNCHANGED <<poolVars, cancelled, order, cur, refused>>

\* _StreamCancelled from any checkpoint of the completion.
StopCancelled(r) ==
  /\ cancelled[r]
  /\ Goto(r, "run", "finish")
  /\ UNCHANGED <<poolVars, cancelled, order, cur, loc, refused>>

-----------------------------------------------------------------------------
(* _refresh_waf_without_account_lock                                       *)

GiveSlotForWaf_Unbounded(r) ==
  /\ r \in WafBlocked
  /\ ~cancelled[r]
  /\ Goto(r, "run", IF LockFree(cur[r]) THEN "run" ELSE "reacquire")
  /\ Unlock(cur[r])
  /\ loc' = [loc EXCEPT ![r].waf = @ - 1]
  /\ OnlyLock
  /\ UNCHANGED <<cancelled, order, cur, refused>>

\* The slot is given up for the warmup; a lock found open is only warmed for.
GiveSlotForWaf(r) ==
  /\ r \in WafBlocked
  /\ loc[r].waf > 0
  /\ ~cancelled[r]
  /\ Goto(r, "run", IF LockFree(cur[r]) THEN "run" ELSE "reacquire")
  /\ Unlock(cur[r])
  /\ loc' = [loc EXCEPT ![r].waf = @ - 1]
  /\ OnlyLock
  /\ UNCHANGED <<cancelled, order, cur, refused>>

Reacquire_Blind(r) ==
  /\ Goto(r, "reacquire", "run")
  /\ UNCHANGED <<poolVars, cancelled, order, cur, loc, refused>>

Reacquire(r) ==
  /\ Goto(r, "reacquire", "run")
  /\ LockFree(cur[r])
  /\ Lock(cur[r])
  /\ OnlyLock
  /\ UNCHANGED <<cancelled, order, cur, loc, refused>>

\* The client left while the slot was given up: _StreamCancelled without it.
AbandonReacquire(r) ==
  /\ cancelled[r]
  /\ Goto(r, "reacquire", "orphan")
  /\ UNCHANGED <<poolVars, cancelled, order, cur, loc, refused>>

-----------------------------------------------------------------------------
(* The failover loop after an attempt                                      *)

ReleaseFailed(r) ==
  /\ Goto(r, "failing", "decide")
  /\ Unlock(cur[r])
  /\ OnlyLock
  /\ UNCHANGED <<cancelled, order, cur, loc, refused>>

Retryable(r) ==
  /\ loc[r].exc \in {"ban", "auth"}
  /\ ~cancelled[r]
  /\ loc[r].tries + 1 < loc[r].maxTries

Surface(r) ==
  /\ Answer(r, "decide")
  /\ ~Retryable(r)
  /\ UNCHANGED poolVars

\* A 401 cools the account down only now, after its slot was released.
FailOver(r) ==
  /\ Goto(r, "decide", "snap")
  /\ Retryable(r)
  /\ loc' = [loc EXCEPT ![r].failed = IF InFailover(r) THEN @ ELSE cur[r],
                        ![r].tries = @ + 1,
                        ![r].left = FailoverTicks]
  /\ IF loc[r].exc = "auth"
     THEN /\ MarkBad(cur[r], InvalidTicks)
          /\ refused' = [refused EXCEPT ![r] = cur[r]]
     ELSE UNCHANGED <<banVars, refused>>
  /\ OnlyMarks
  /\ UNCHANGED <<threads, cancelled, order, cur>>

\* _switch_current_after_ban_failover: the decision, then set_current().
SwitchesCurrent(r) ==
  /\ loc[r].failed # None
  /\ current # NoAccount
  /\ AccountOf[loc[r].failed] = current
  /\ AccountOf[cur[r]] # current

DecideSwitch(r) ==
  /\ pc[r] = "won"
  /\ Goto(r, "won", IF SwitchesCurrent(r) THEN "switch" ELSE "finish")
  /\ UNCHANGED <<poolVars, cancelled, order, cur, loc, refused>>

SwitchCurrent(r) ==
  /\ Goto(r, "switch", "finish")
  /\ SetCurrent(AccountOf[cur[r]])
  /\ UNCHANGED <<pool, cursor, locked, banVars, unborn, threads>>
  /\ UNCHANGED <<cancelled, order, cur, loc, refused>>

\* AccountPool.release on success and after _StreamCancelled.
Finish(r) ==
  /\ \/ Answer(r, "finish")
     \/ Answer(r, "orphan")
  /\ Unlock(cur[r])
  /\ OnlyLock

-----------------------------------------------------------------------------
(* The environment: clients, the clock and the operator                    *)

\* A watcher or the response generator, both on the event loop, sets the event.
ClientLeaves(r) ==
  /\ r \in Cancellable
  /\ ~cancelled[r]
  /\ pc[r] \notin {"idle", "done"}
  /\ LoopFree
  /\ cancelled' = [cancelled EXCEPT ![r] = TRUE]
  /\ UNCHANGED <<poolVars, pc, order, cur, loc, refused>>

(***************************************************************************)
(* A tick is some tens of seconds: none falls between the moment a         *)
(* candidate is found free of a ban and its lock, or between two writes of *)
(* mark_banned, and no acquire() outlives its deadline by a tick.          *)
(***************************************************************************)
Hurried == {"unend", "uncool", "try", "check", "marking", "marked"}

Tick ==
  /\ \A r \in Request : pc[r] \notin Hurried
  /\ \A r \in Request : Acquiring(r) => loc[r].left > 0
  /\ TickPool
  /\ loc' = [r \in Request |-> [loc[r] EXCEPT !.left = Countdown(@)]]
  /\ UNCHANGED <<pc, cancelled, order, cur, refused>>

SelectAccount(a) ==
  /\ "select" \in OperatorCalls
  /\ SetCurrent(a)
  /\ UNCHANGED <<pool, cursor, locked, banVars, unborn, threads, requestVars>>

\* Unblocking, or setting a token, enters clear_cooldown in a thread of its own.
Unblock(S) ==
  /\ "unblock" \in OperatorCalls
  /\ ClearCooldown(S)
  /\ OnlyMarks
  /\ UNCHANGED <<banVars, listing, requestVars>>

ClearStep(k) ==
  /\ ClearNext(k)
  /\ Forgiving(pool[k])
  /\ OnlyMarks
  /\ UNCHANGED <<listing, pc, cancelled, order, cur, loc>>

\* add_account makes the new account CURRENT.
AddAccount(i) ==
  /\ "add" \in OperatorCalls
  /\ Add(i)
  /\ current' = AccountOf[i]
  /\ UNCHANGED requestVars

RemoveAccount(k) ==
  /\ "remove" \in OperatorCalls
  /\ RemoveItem(k)
  /\ UNCHANGED requestVars

\* GET /v1/accounts reads PooledAccount.banned of each object, also in a thread.  One
\* object is being read at a time: a bound.
ReadStatus(i) ==
  /\ "status" \in OperatorCalls
  /\ \A j \in Item : listing[j] = "idle"
  /\ listing' = [listing EXCEPT ![i] = "flag"]
  /\ OnlyMarks
  /\ UNCHANGED <<banVars, clearing, requestVars>>

StatusStep(i, to) ==
  /\ listing[i] # "idle"
  /\ ReadBan(i, listing[i], to)
  /\ listing' = [listing EXCEPT ![i] = IF to \in BanPlace THEN to ELSE "idle"]
  /\ Forgiving(i)
  /\ OnlyMarks
  /\ UNCHANGED <<clearing, pc, cancelled, order, cur, loc>>

Operator ==
  \/ \E a \in Account \cup {NoAccount} : SelectAccount(a)
  \/ \E S \in {Item} \cup {{i} : i \in Item} : Unblock(S)
  \/ \E i \in Item : AddAccount(i)
  \/ \E k \in DOMAIN pool : RemoveAccount(k)
  \/ \E k \in DOMAIN pool : ClearStep(k)
  \/ \E i \in Members : ReadStatus(i)
  \/ \E i \in Item, to \in Reading : StatusStep(i, to)

Acquire(r) ==
  \/ Snapshot(r)
  \/ NoAccounts(r)
  \/ Consider(r)
  \/ \E to \in Reading : CheckBan(r, to)
  \/ TryLock(r)
  \/ KeepLock(r)
  \/ PutLockBack(r)
  \/ Exhausted(r)

Complete(r) ==
  \/ Granted(r)
  \/ Start(r)
  \/ Succeed(r)
  \/ \E until \in BanTicks \cup {NoExpiry} : RaiseBan(r, until)
  \/ SetFlag(r)
  \/ SetCooldown(r)
  \/ \E kind \in {"auth", "other"} : RaiseOther(r, kind)
  \/ StopCancelled(r)
  \/ GiveSlotForWaf(r)
  \/ Reacquire(r)
  \/ AbandonReacquire(r)

AfterAttempt(r) ==
  \/ ReleaseFailed(r)
  \/ Surface(r)
  \/ FailOver(r)
  \/ DecideSwitch(r)
  \/ SwitchCurrent(r)
  \/ Finish(r)

Step(r) == Acquire(r) \/ Complete(r) \/ AfterAttempt(r)

Next ==
  \/ \E r \in Request : Arrive(r) \/ ClientLeaves(r) \/ Step(r)
  \/ Tick
  \/ Operator

Spec == Init /\ [][Next]_vars

(***************************************************************************)
(* Every thread of the program keeps running, upstream calls end (they     *)
(* carry timeouts) and time passes.                                        *)
(***************************************************************************)
FairSpec == Spec /\ (\A r \in Request : WF_vars(Step(r))) /\ SF_vars(Tick)

-----------------------------------------------------------------------------
(* Properties                                                              *)

\* Two requests never hold the slot of one pool object (README: one in-flight
\* stream per account, enforced with per-account locks).
OneStreamPerSlot ==
  \A r, s \in Request :
    r # s /\ HoldsSlot(r) /\ HoldsSlot(s) => cur[r] # cur[s]

\* A taken lock has a request that will release it: no slot is lost for good.
NoLeakedSlot ==
  \A i \in Item : locked[i] => \E r \in Request : HoldsSlot(r) /\ cur[r] = i

(***************************************************************************)
(* A ban stands once mark_banned is through with the object, until the     *)
(* user's clear_cooldown begins to clear it.  The exception is a ban whose *)
(* cooldown was taken along when an earlier, lapsed ban was cleared late.  *)
(***************************************************************************)
BanStands(i) ==
  Banned(i) /\ ~BeingMarked(i) /\ clearing[i] = 0 /\ i \notin wiped

\* acquire() never hands out an account whose ban stands, although it tests the ban
\* before it has the lock and only the cooldown after, and the ban's three marks are
\* written and cleared one by one by threads that hold no lock.
NoBannedHandout ==
  [][\A r \in Request :
       pc[r] = "check" /\ pc'[r] \in {"granted", "run"} => ~BanStands(cur[r])]_vars

\* A request does not take the object again that last answered it 401, unless somebody
\* cut its cooldown short meanwhile: it was cooled for longer than failover waits.
NoReturnAfter401 ==
  [][\A r \in Request :
       pc[r] = "try" /\ pc'[r] = "check" /\ refused[r] # None
         => cur'[r] # refused[r]]_vars

\* A ban without a known end stays until the user clears it (PooledAccount.banned).
UnknownBansStay ==
  [][\A i \in Item :
       banned[i] /\ banLeft[i] = NoExpiry /\ ~banned'[i] => clearing[i] # 0]_vars

\* CURRENT never comes to name an account that is not in the pool.
CurrentValid == current = NoAccount \/ AccountInPool(current)
CurrentStaysValid == [][CurrentValid => CurrentValid']_vars

\* The locks of the pool implement the abstract slots of AccountSlots: a slot is
\* taken only when free and given back only by the request that has it.
holder == [i \in Item |->
             IF \E r \in Request : HoldsSlot(r) /\ cur[r] = i
             THEN CHOOSE r \in Request : HoldsSlot(r) /\ cur[r] = i
             ELSE None]

Slots == INSTANCE AccountSlots WITH Nobody <- None
SlotsSpec == Slots!Spec

\* Every request that arrived is answered.
EveryRequestEnds == \A r \in Request : pc[r] = "snap" ~> pc[r] = "done"

=============================================================================
