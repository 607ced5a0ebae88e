---------------------------- MODULE AccountPool ----------------------------
(***************************************************************************)
(* The pool of DeepSeek accounts: class PooledAccount and class            *)
(* AccountPool of accounts.py.  This module holds the pool's state and one *)
(* operator per method or per step of a method; module Failover runs       *)
(* requests and an operator against them.                                  *)
(*                                                                         *)
(* Time is kept as countdowns.  A timestamp of the code (bad_until,        *)
(* banned_until) is the number of ticks left until it is reached, so       *)
(* "bad_until > now" is "badLeft > 0".                                     *)
(*                                                                         *)
(* The three marks of an object (bad_until, cfg.banned, cfg.banned_until)  *)
(* are guarded by no lock.  Every thread reads and writes them one at a    *)
(* time, and so do the operators below.                                    *)
(***************************************************************************)
EXTENDS Integers, Sequences, SequencesExt

CONSTANTS
  Item,             \* PooledAccount objects: each add() makes a fresh one
  Account,          \* DeepSeek accounts, as told apart by _matches/_is_duplicate
  AccountOf,        \* the account an object stands for
  NoAccount,        \* pool._current = "": no CURRENT account is selected
  NoExpiry,         \* cfg.banned_until = 0.0: the ban has no known end
  CursorCycle,      \* a common multiple of the pool's sizes: _cursor modulo it
  CooldownTicks,    \* COOLDOWN_SECONDS, in ticks
  BanTicks          \* how far ahead an upstream ban's known end can be, in ticks

ASSUME AccountAssumption ==
  /\ AccountOf \in [Item -> Account]
  /\ NoAccount \notin Account

ASSUME TimerAssumption ==
  /\ CursorCycle \in Nat \ {0}
  /\ CooldownTicks \in Nat \ {0}
  /\ BanTicks \subseteq Nat \ {0}
  /\ NoExpiry \notin Nat

VARIABLES
  pool,      \* AccountPool._items, a sequence of objects
  cursor,    \* AccountPool._cursor
  current,   \* AccountPool._current
  locked,    \* locked[i]: the object's threading.Lock is taken (by anyone)
  badLeft,   \* badLeft[i]: ticks until PooledAccount.bad_until
  banned,    \* banned[i]: cfg.banned
  banLeft,   \* banLeft[i]: ticks until cfg.banned_until, or NoExpiry
  unborn,    \* objects add() has not created yet
  listing,   \* listing[i]: where a thread of status() is in reading the ban of i
  clearing,  \* clearing[i]: the next of clear_cooldown's writes to i, 0 for none
  wiped      \* history: objects whose running cooldown a lapsed ban took along

banVars  == <<badLeft, banned, banLeft, wiped>>
threads  == <<listing, clearing>>
poolVars == <<pool, cursor, current, locked, banVars, unborn, threads>>

\* The places inside PooledAccount.banned, each named for its next access.
BanPlace == {"flag", "end", "unflag", "unend", "uncool"}
Reading == BanPlace \cup {"usable", "banned"}

PoolTypeOK ==
  /\ pool \in Seq(Item)
  /\ cursor \in 0..(CursorCycle - 1)
  /\ current \in Account \cup {NoAccount}
  /\ locked \in [Item -> BOOLEAN]
  /\ badLeft \in [Item -> Nat]
  /\ banned \in [Item -> BOOLEAN]
  /\ banLeft \in [Item -> Nat \cup {NoExpiry}]
  /\ unborn \in SUBSET Item
  /\ listing \in [Item -> BanPlace \cup {"idle"}]
  /\ clearing \in [Item -> 0..3]
  /\ wiped \in SUBSET Item

(***************************************************************************)
(* AccountPool(accounts, current): the objects of "loaded" in order and    *)
(* the saved selection, taken unchecked.  PooledAccount.__post_init__      *)
(* turns a ban read from config.json into a cooldown; such a ban, in       *)
(* "saved", is a number of ticks (0 when it ended meanwhile) or NoExpiry.  *)
(***************************************************************************)
LoadedCooldown(saved, i) ==
  IF i \notin DOMAIN saved THEN 0
  ELSE IF saved[i] \in {0, NoExpiry} THEN CooldownTicks ELSE saved[i]

InitPool(loaded, selected, saved) ==
  /\ pool = loaded
  /\ cursor = 0
  /\ current = selected
  /\ locked = [i \in Item |-> FALSE]
  /\ banned = [i \in Item |-> i \in DOMAIN saved]
  /\ banLeft = [i \in Item |-> IF i \in DOMAIN saved THEN saved[i] ELSE NoExpiry]
  /\ badLeft = [i \in Item |-> LoadedCooldown(saved, i)]
  /\ unborn = {i \in Item : \A k \in DOMAIN loaded : loaded[k] # i}
  /\ listing = [i \in Item |-> "idle"]
  /\ clearing = [i \in Item |-> 0]
  /\ wiped = {}

-----------------------------------------------------------------------------
(* Reading the pool                                                        *)

Members == {pool[k] : k \in DOMAIN pool}

Cooling(i) == badLeft[i] > 0

\* The marker counts until the known end of its ban.
Banned(i) == banned[i] /\ banLeft[i] # 0

(***************************************************************************)
(* PooledAccount.banned, from one place to the next: the flag, then the    *)
(* end, and for a ban whose end has passed the writes that clear it.  It   *)
(* comes out "banned" or "usable".  The last write lifts whatever cooldown *)
(* the object has by then.                                                 *)
(***************************************************************************)
ReadBan(i, from, to) ==
  \/ /\ from = "flag"
     /\ to = IF banned[i] THEN "end" ELSE "usable"
     /\ UNCHANGED banVars
  \/ /\ from = "end"
     /\ to = IF banLeft[i] = 0 THEN "unflag" ELSE "banned"
     /\ UNCHANGED banVars
  \/ /\ from = "unflag" /\ to = "unend"
     /\ banned' = [banned EXCEPT ![i] = FALSE]
     /\ UNCHANGED <<badLeft, banLeft, wiped>>
  \/ /\ from = "unend" /\ to = "uncool"
     /\ banLeft' = [banLeft EXCEPT ![i] = NoExpiry]
     /\ UNCHANGED <<badLeft, banned, wiped>>
  \/ /\ from = "uncool" /\ to = "usable"
     /\ badLeft' = [badLeft EXCEPT ![i] = 0]
     /\ wiped' = IF Cooling(i) THEN wiped \cup {i} ELSE wiped
     /\ UNCHANGED <<banned, banLeft>>

(***************************************************************************)
(* The order in which acquire() tries the objects of its snapshot: the     *)
(* rotation from the cursor with CURRENT first or, when the request sticks *)
(* to CURRENT and CURRENT is in the pool, CURRENT alone.                   *)
(***************************************************************************)
Rotation ==
  LET start == cursor % Len(pool)
  IN  SubSeq(pool, start + 1, Len(pool)) \o SubSeq(pool, 1, start)

CandidateOrder(sticky) ==
  LET isCurrent == {k \in DOMAIN Rotation : AccountOf[Rotation[k]] = current}
  IN  IF isCurrent = {}
      THEN Rotation
      ELSE LET k == CHOOSE k \in isCurrent : TRUE
           IN  IF sticky
               THEN <<Rotation[k]>>
               ELSE <<Rotation[k]>> \o RemoveAt(Rotation, k)

-----------------------------------------------------------------------------
(* The per-object lock                                                     *)

LockFree_Assumed(i) == TRUE

LockFree(i) == ~locked[i]

Lock(i) == locked' = [locked EXCEPT ![i] = TRUE]

(***************************************************************************)
(* threading.Lock has no owner: whoever calls release() opens it, and      *)
(* AccountPool.release swallows the error when it was open already.        *)
(***************************************************************************)
Unlock(i) == locked' = [locked EXCEPT ![i] = FALSE]

-----------------------------------------------------------------------------
(* Marking                                                                 *)

MarkBad_Forgotten(i, ticks) == UNCHANGED banVars

\* mark_bad overwrites bad_until, whatever it was.
MarkBad(i, ticks) ==
  /\ badLeft' = [badLeft EXCEPT ![i] = ticks]
  /\ wiped' = wiped \ {i}
  /\ UNCHANGED <<banned, banLeft>>

\* The three writes of mark_banned(item, until), in their order: the end (a number
\* of ticks or NoExpiry), the flag and the cooldown.
MarkEnd(i, until) ==
  /\ banLeft' = [banLeft EXCEPT ![i] = until]
  /\ UNCHANGED <<badLeft, banned, wiped>>

MarkFlag(i) ==
  /\ banned' = [banned EXCEPT ![i] = TRUE]
  /\ UNCHANGED <<badLeft, banLeft, wiped>>

MarkCooldown(i, ticks) ==
  /\ badLeft' = [badLeft EXCEPT ![i] = ticks]
  /\ wiped' = wiped \ {i}
  /\ UNCHANGED <<banned, banLeft>>

\* The cooldown that goes with a ban.
BanCooldown(until) == IF until = NoExpiry THEN CooldownTicks ELSE until

ClearOrder_CooldownLast == <<"flag", "end", "cooldown">>

\* The order in which clear_cooldown resets the marks of an object.
ClearOrder == <<"cooldown", "flag", "end">>

Reset(i, mark) ==
  /\ badLeft' = [badLeft EXCEPT ![i] = IF mark = "cooldown" THEN 0 ELSE @]
  /\ banned'  = [banned EXCEPT ![i] = @ /\ mark # "flag"]
  /\ banLeft' = [banLeft EXCEPT ![i] = IF mark = "end" THEN NoExpiry ELSE @]
  /\ UNCHANGED wiped

\* clear_cooldown for the objects of S that are in the pool, under its guard.
GuardFree == \A i \in Item : clearing[i] = 0

ClearCooldown(S) ==
  /\ GuardFree
  /\ clearing' = [i \in Item |-> IF i \in S \cap Members THEN 1 ELSE 0]

\* It goes through the pool object by object.
ClearNext(k) ==
  LET i == pool[k]
  IN  /\ clearing[i] # 0
      /\ \A j \in 1..(k - 1) : clearing[pool[j]] = 0
      /\ Reset(i, ClearOrder[clearing[i]])
      /\ clearing' = [clearing EXCEPT ![i] = (@ + 1) % 4]

\* One tick of the wall clock against every timestamp of the pool.
Countdown(n) == IF n > 0 THEN n - 1 ELSE 0

TickPool ==
  /\ badLeft' = [i \in Item |-> Countdown(badLeft[i])]
  /\ banLeft' = [i \in Item |-> IF banLeft[i] = NoExpiry
                                THEN NoExpiry ELSE Countdown(banLeft[i])]
  /\ UNCHANGED <<pool, cursor, current, locked, banned, unborn, threads, wiped>>

-----------------------------------------------------------------------------
(* Membership and CURRENT                                                  *)

AccountInPool(a) == \E i \in Members : AccountOf[i] = a

\* add() refuses a duplicate account; the object is fresh.
Add(i) ==
  /\ GuardFree
  /\ i \in unborn
  /\ ~AccountInPool(AccountOf[i])
  /\ pool' = Append(pool, i)
  /\ unborn' = unborn \ {i}
  /\ UNCHANGED <<cursor, locked, banVars, threads>>

\* remove(): the object leaves the pool, in flight or not.
RemoveItem(k) ==
  /\ GuardFree
  /\ pool' = RemoveAt(pool, k)
  /\ current' = IF AccountOf[pool[k]] = current THEN NoAccount ELSE current
  /\ UNCHANGED <<cursor, locked, banVars, unborn, threads>>

\* set_current(): NoAccount clears, an account that is not in the pool is refused.
SetCurrent(a) ==
  current' = IF a = NoAccount \/ AccountInPool(a) THEN a ELSE current

=============================================================================
