--------------------------- MODULE FailoverProofs ---------------------------
(***************************************************************************)
(* Proofs about module Failover, for every pool, every number of requests  *)
(* and every value of the time constants.                                  *)
(***************************************************************************)
EXTENDS Failover, SequenceTheorems, TLAPS

(***************************************************************************)
(* What the pc of a request says of its locals: a candidate under          *)
(* examination exists, the object under the second check is that           *)
(* candidate, from then on cur[r] is an object, and a ban is written with  *)
(* a cooldown.                                                             *)
(***************************************************************************)
Engaged(r) ==
  pc[r] \in {"check", "granted", "start", "run", "reacquire", "orphan", "marking",
             "marked", "failing", "decide", "won", "switch", "finish"}

\* A request that examines the candidate Head(order[r]) further than its cooldown.
Examining(r) == pc[r] \in BanPlace \cup {"try", "check"}

LocalInv ==
  \A r \in Request :
    /\ Examining(r) => order[r] # <<>>
    /\ pc[r] = "check" => cur[r] = Candidate(r)
    /\ Engaged(r) => cur[r] \in Item
    /\ pc[r] \in {"marking", "marked"} => loc[r].mark > 0

TypeInv == TypeOK /\ LocalInv

-----------------------------------------------------------------------------
(* The order in which a scan tries the objects                             *)

\* The rotation from any cursor lists objects, as many as the pool has.
LEMMA RotationIsSequence ==
  ASSUME pool \in Seq(Item), pool # <<>>, cursor \in Nat
  PROVE  Rotation \in Seq(Item) /\ Len(Rotation) = Len(pool)
<1> DEFINE n == Len(pool)
           start == cursor % n
<1>1. n \in Nat \ {0} /\ \A k \in 1..n : pool[k] \in Item
  BY EmptySeq, LenProperties, ElementOfSeq
<1>2. start \in 0..(n - 1)
  BY <1>1
<1>3. /\ SubSeq(pool, start + 1, n) \in Seq(Item)
      /\ Len(SubSeq(pool, start + 1, n)) = n - start
  <2>1. \A k \in (start + 1)..n : pool[k] \in Item
    BY <1>1, <1>2
  <2>2. start + 1 \in Int /\ n \in Int /\ start + 1 <= n
    BY <1>1, <1>2
  <2> HIDE DEF start, n
  <2> QED BY <2>1, <2>2, <1>2, SubSeqProperties
<1>4. /\ SubSeq(pool, 1, start) \in Seq(Item)
      /\ Len(SubSeq(pool, 1, start)) = start
  <2>1. \A k \in 1..start : pool[k] \in Item
    BY <1>1, <1>2
  <2>2. start \in Int /\ 0 <= start
    BY <1>2
  <2> HIDE DEF start, n
  <2> QED BY <2>1, <2>2, SubSeqProperties
<1>5. Rotation = SubSeq(pool, start + 1, n) \o SubSeq(pool, 1, start)
  BY DEF Rotation
<1>6. /\ Rotation \in Seq(Item)
      /\ Len(Rotation) = n - start + start
  <2> DEFINE front == SubSeq(pool, start + 1, n)
             back == SubSeq(pool, 1, start)
  <2>1. /\ front \o back \in Seq(Item)
        /\ Len(front \o back) = Len(front) + Len(back)
    <3> HIDE DEF front, back
    <3> QED BY <1>3, <1>4, ConcatProperties DEF front, back
  <2> QED BY <2>1, <1>3, <1>4, <1>5
<1> QED
  BY <1>1, <1>2, <1>6

\* Removing one object leaves a sequence of objects.
LEMMA RemoveAtType ==
  ASSUME NEW s \in Seq(Item), NEW k \in DOMAIN s
  PROVE  RemoveAt(s, k) \in Seq(Item)
<1>1. Len(s) \in Nat /\ k \in 1..Len(s)
  BY LenProperties
<1>2. \A j \in 1..Len(s) : s[j] \in Item
  BY ElementOfSeq
<1>3. SubSeq(s, 1, k - 1) \in Seq(Item)
  <2>1. \A j \in 1..(k - 1) : s[j] \in Item
    BY <1>1, <1>2
  <2> QED BY <1>1, <2>1, SubSeqProperties
<1>4. SubSeq(s, k + 1, Len(s)) \in Seq(Item)
  <2>1. \A j \in (k + 1)..Len(s) : s[j] \in Item
    BY <1>1, <1>2
  <2> QED BY <1>1, <2>1, SubSeqProperties
<1> QED BY <1>3, <1>4, ConcatProperties DEF RemoveAt

\* A scan's order lists objects only, whichever account is CURRENT.
LEMMA OrderIsSequence ==
  ASSUME pool \in Seq(Item), pool # <<>>, cursor \in Nat, NEW sticky \in BOOLEAN
  PROVE  CandidateOrder(sticky) \in Seq(Item)
<1> DEFINE rot == Rotation
           isCurrent == {k \in DOMAIN rot : AccountOf[rot[k]] = current}
           k == CHOOSE k \in isCurrent : TRUE
<1>1. rot \in Seq(Item)
  BY RotationIsSequence
<1>2. CASE isCurrent = {}
  BY <1>1, <1>2 DEF CandidateOrder
<1>3. CASE isCurrent # {}
  <2>1. k \in 1..Len(rot)
    BY <1>1, <1>3, LenProperties
  <2>2. \A j \in 1..Len(rot) : rot[j] \in Item
    BY <1>1, ElementOfSeq
  <2>3. <<rot[k]>> \in Seq(Item)
    BY <2>1, <2>2
  <2>4. RemoveAt(rot, k) \in Seq(Item)
    BY <1>1, <2>1, RemoveAtType, LenProperties
  <2>5. <<rot[k]>> \o RemoveAt(rot, k) \in Seq(Item)
    <3> HIDE DEF k, rot
    <3> QED BY <2>3, <2>4, ConcatProperties
  <2>6. CandidateOrder(sticky) \in {<<rot[k]>>, <<rot[k]>> \o RemoveAt(rot, k)}
    BY <1>3 DEF CandidateOrder
  <2> QED BY <2>3, <2>5, <2>6
<1> QED BY <1>2, <1>3

-----------------------------------------------------------------------------
(* Types, and the locals behind the pc                                     *)

LEMMA TypeInvInit == Init => TypeInv
<1> SUFFICES ASSUME Init PROVE TypeInv
  OBVIOUS
<1>1. PICK saved \in InitialBans, selected \in InitialCurrent :
        InitPool(InitialPool, selected, saved)
  BY DEF Init
<1>2. \A i \in DOMAIN saved : saved[i] \in Nat \cup {NoExpiry}
  <2>1. \A i \in DOMAIN saved : saved[i] \in BanTicks \cup {0, NoExpiry}
    BY <1>1, RequestAssumption
  <2>2. BanTicks \subseteq Nat
    BY TimerAssumption
  <2>3. 0 \in Nat
    OBVIOUS
  <2> QED BY <2>1, <2>2, <2>3, Zenon
<1>3. \A i \in Item : LoadedCooldown(saved, i) \in Nat
  BY <1>2, TimerAssumption DEF LoadedCooldown
<1>5. PoolTypeOK
  <2>1. badLeft \in [Item -> Nat]
    BY <1>1, <1>3 DEF InitPool
  <2>2. banLeft \in [Item -> Nat \cup {NoExpiry}]
    BY <1>1, <1>2 DEF InitPool
  <2> QED
    BY <1>1, <2>1, <2>2, RequestAssumption, TimerAssumption DEF PoolTypeOK, InitPool
<1>4. NoLocal \in Local
  BY DEF NoLocal, Local
<1>6. TypeOK
  BY <1>5, <1>4 DEF Init, TypeOK, PC
<1>7. LocalInv
  BY DEF Init, LocalInv, Engaged, Examining, BanPlace
<1> QED
  BY <1>6, <1>7 DEF TypeInv

\* Answering a request clears its locals.
LEMMA AnswerKeepsType ==
  ASSUME TypeInv, NEW r \in Request, NEW from, Answer(r, from), PoolTypeOK'
  PROVE  TypeInv'
<1>1. NoLocal \in Local
  BY DEF NoLocal, Local
<1>2. TypeOK'
  BY <1>1 DEF TypeInv, TypeOK, Answer, Goto, PC
<1>3. LocalInv'
  BY DEF TypeInv, TypeOK, LocalInv, Engaged, Examining, BanPlace, Candidate, Answer, Goto
<1> QED BY <1>2, <1>3 DEF TypeInv

\* Where the reading of a ban goes from each of its places.
LEMMA ReadBanPlaces ==
  ASSUME NEW i, NEW from, NEW to, ReadBan(i, from, to)
  PROVE  /\ from \in BanPlace
         /\ from = "flag" => to \in {"end", "usable"}
         /\ from = "end" => to \in {"unflag", "banned"}
         /\ from = "unflag" => to = "unend"
         /\ from = "unend" => to = "uncool"
         /\ from = "uncool" => to = "usable"
BY DEF ReadBan, BanPlace

\* Reading a ban keeps the marks well typed, whatever it clears.
LEMMA ReadBanKeepsType ==
  ASSUME TypeOK, NEW i, NEW from, NEW to, ReadBan(i, from, to), i \in Item
  PROVE  /\ badLeft' \in [Item -> Nat]
         /\ banned' \in [Item -> BOOLEAN]
         /\ banLeft' \in [Item -> Nat \cup {NoExpiry}]
         /\ wiped' \in SUBSET Item
<1>1. badLeft' \in [Item -> Nat]
  <2>1. badLeft' = badLeft \/ badLeft' = [badLeft EXCEPT ![i] = 0]
    BY DEF ReadBan, banVars
  <2>2. badLeft \in [Item -> Nat]
    BY DEF TypeOK, PoolTypeOK
  <2> QED BY <2>1, <2>2
<1>2. banned' \in [Item -> BOOLEAN]
  BY DEF ReadBan, banVars, TypeOK, PoolTypeOK
<1>3. banLeft' \in [Item -> Nat \cup {NoExpiry}]
  BY DEF ReadBan, banVars, TypeOK, PoolTypeOK
<1>4. wiped' \in SUBSET Item
  BY DEF ReadBan, banVars, TypeOK, PoolTypeOK
<1> QED BY <1>1, <1>2, <1>3, <1>4

LEMMA ForgivingKeepsType ==
  ASSUME TypeOK, NEW i, Forgiving(i)
  PROVE  refused' \in [Request -> Item \cup {None}]
BY DEF Forgiving, TypeOK

\* The locals of an attempt that begins.
LEMMA BeginAttemptType ==
  ASSUME NEW l \in Local
  PROVE  BeginAttempt(l) \in Local
BY RequestAssumption DEF Local, BeginAttempt

LEMMA AcquireKeepsType ==
  ASSUME TypeInv, NEW r \in Request, Acquire(r)
  PROVE  TypeInv'
<1> USE DEF TypeInv
<1>1. CASE Snapshot(r)
  <2>1. CandidateOrder(~InFailover(r) /\ ~loc[r].multi) \in Seq(Item)
    <3>1. pool \in Seq(Item) /\ pool # <<>> /\ cursor \in Nat
      BY <1>1, TimerAssumption DEF TypeOK, PoolTypeOK, Snapshot
    <3>2. (~InFailover(r) /\ ~loc[r].multi) \in BOOLEAN
      OBVIOUS
    <3> QED BY <3>1, <3>2, OrderIsSequence
  <2>2. TypeOK'
    BY <1>1, <2>1, TimerAssumption DEF TypeOK, PoolTypeOK, Snapshot, Goto, PC, banVars, threads
  <2>3. LocalInv'
    BY <1>1 DEF TypeOK, LocalInv, Engaged, Examining, BanPlace, Candidate, Snapshot, Goto
  <2> QED BY <2>2, <2>3
<1>2. CASE NoAccounts(r)
  BY <1>2, AnswerKeepsType DEF NoAccounts, TypeOK, PoolTypeOK, poolVars, banVars, threads
<1>3. CASE Consider(r)
  <2>1. Tail(order[r]) \in Seq(Item)
    <3>1. order[r] \in Seq(Item) /\ order[r] # <<>>
      BY <1>3 DEF TypeOK, Consider
    <3> QED BY <3>1, HeadTailProperties
  <2>2. pc' \in [Request -> PC] /\ order' \in [Request -> Seq(Item)]
    BY <1>3, <2>1 DEF TypeOK, Consider, Skip, Goto, PC, BanPlace
  <2>3. TypeOK'
    BY <1>3, <2>2 DEF TypeOK, PoolTypeOK, Consider, poolVars, banVars, threads
  <2>4. LocalInv'
    BY <1>3 DEF TypeOK, LocalInv, Engaged, Examining, BanPlace, Candidate, Consider, Skip, Goto
  <2> QED BY <2>3, <2>4
<1>8. ASSUME NEW to \in Reading, CheckBan(r, to) PROVE TypeInv'
  <2>1. Tail(order[r]) \in Seq(Item) /\ Candidate(r) \in Item
    BY <1>8, HeadTailProperties DEF TypeOK, LocalInv, Examining, CheckBan, Candidate
  <2>2. /\ badLeft' \in [Item -> Nat]
        /\ banned' \in [Item -> BOOLEAN]
        /\ banLeft' \in [Item -> Nat \cup {NoExpiry}]
        /\ wiped' \in SUBSET Item
    BY <1>8, <2>1, ReadBanKeepsType DEF CheckBan
  <2>3. PoolTypeOK'
    BY <1>8, <2>2 DEF TypeOK, PoolTypeOK, CheckBan, OnlyMarks, threads
  <2>4. /\ pc' = [pc EXCEPT ![r] = pc'[r]]
        /\ pc'[r] \in {"try", "end", "unflag", "unend", "uncool", "scan"}
        /\ to = "banned" <=> pc'[r] = "scan"
    BY <1>8, ReadBanPlaces DEF CheckBan, BanPlace, TypeOK
  <2>5. order' = order \/ order' = [order EXCEPT ![r] = Tail(order[r])]
    BY <1>8 DEF CheckBan, Skip
  <2>6. order' \in [Request -> Seq(Item)]
    BY <2>1, <2>5 DEF TypeOK
  <2>7. TypeOK'
    BY <1>8, <2>3, <2>4, <2>6, ForgivingKeepsType DEF TypeOK, CheckBan, PC, BanPlace
  <2>8. LocalInv'
    BY <1>8, <2>4 DEF TypeOK, LocalInv, Engaged, Examining, Candidate, CheckBan, Skip, BanPlace
  <2> QED BY <2>7, <2>8
<1>4. CASE TryLock(r)
  <2>1. Tail(order[r]) \in Seq(Item) /\ Candidate(r) \in Item
    BY <1>4, HeadTailProperties DEF TypeOK, LocalInv, Examining, TryLock, Candidate
  <2>2. TypeOK'
    BY <1>4, <2>1 DEF TypeOK, PoolTypeOK, TryLock, Skip, Lock, OnlyLock, banVars, threads, Goto, PC
  <2>3. LocalInv'
    BY <1>4, <2>1 DEF TypeOK, LocalInv, Engaged, Examining, BanPlace, Candidate, TryLock, Skip, Goto
  <2> QED BY <2>2, <2>3
<1>5. CASE KeepLock(r)
  <2>1. cur[r] \in Item
    BY <1>5 DEF LocalInv, Engaged, KeepLock
  <2>2. BeginAttempt(loc[r]) \in Local
    BY <2>1, BeginAttemptType DEF TypeOK
  <2>3. TypeOK'
    <3>1. loc' \in [Request -> Local]
      BY <1>5, <2>2 DEF TypeOK, KeepLock
    <3>2. pc' \in [Request -> PC]
      BY <1>5 DEF TypeOK, KeepLock, Goto, PC
    <3>3. order' \in [Request -> Seq(Item)]
      BY <1>5 DEF TypeOK, KeepLock
    <3> QED BY <1>5, <3>1, <3>2, <3>3 DEF TypeOK, PoolTypeOK, KeepLock, poolVars, banVars, threads
  <2>4. LocalInv'
    BY <1>5 DEF TypeOK, LocalInv, Engaged, Examining, BanPlace, Candidate, KeepLock, Goto
  <2> QED BY <2>3, <2>4
<1>6. CASE PutLockBack(r)
  <2>1. Tail(order[r]) \in Seq(Item)
    BY <1>6, HeadTailProperties DEF TypeOK, LocalInv, Examining, PutLockBack, Goto
  <2>2. TypeOK'
    BY <1>6, <2>1 DEF TypeOK, PoolTypeOK, PutLockBack, Skip, Unlock, OnlyLock, banVars, threads, Goto, PC
  <2>3. LocalInv'
    BY <1>6 DEF TypeOK, LocalInv, Engaged, Examining, BanPlace, Candidate, PutLockBack, Skip, Goto
  <2> QED BY <2>2, <2>3
<1>7. CASE Exhausted(r)
  <2>1. PoolTypeOK'
    BY <1>7 DEF TypeOK, PoolTypeOK, Exhausted, poolVars, banVars, threads
  <2>2. CASE Answer(r, "scan")
    BY <2>1, <2>2, AnswerKeepsType
  <2>3. CASE Goto(r, "scan", "snap") /\ UNCHANGED <<cancelled, order, cur, loc, refused>>
    <3>1. TypeOK'
      BY <2>1, <2>3 DEF TypeOK, Goto, PC
    <3>2. LocalInv'
      BY <2>3 DEF TypeOK, LocalInv, Engaged, Examining, BanPlace, Candidate, Goto
    <3> QED BY <3>1, <3>2
  <2> QED BY <1>7, <2>2, <2>3 DEF Exhausted
<1> QED
  BY <1>1, <1>2, <1>3, <1>4, <1>5, <1>6, <1>7, <1>8 DEF Acquire

LEMMA CompleteKeepsType ==
  ASSUME TypeInv, NEW r \in Request, Complete(r)
  PROVE  TypeInv'
<1> USE DEF TypeInv
<1>1. CASE Granted(r)
  <2>1. PoolTypeOK'
    BY <1>1 DEF TypeOK, PoolTypeOK, Granted, Unlock, OnlyLock, banVars, threads
  <2>2. CASE Answer(r, "granted")
    BY <2>1, <2>2, AnswerKeepsType
  <2>3. CASE Goto(r, "granted", "start") /\ UNCHANGED <<cancelled, order, cur, loc, refused>>
    <3>1. TypeOK'
      BY <2>1, <2>3 DEF TypeOK, Goto, PC
    <3>2. LocalInv'
      BY <2>3 DEF TypeOK, LocalInv, Engaged, Examining, BanPlace, Candidate, Goto
    <3> QED BY <3>1, <3>2
  <2> QED BY <1>1, <2>2, <2>3 DEF Granted
<1>2. CASE Start(r)
  <2> DEFINE begun == BeginAttempt(loc[r])
             budget == TryBudget(loc[r].multi)
  <2>1. begun \in Local
    BY <1>2, BeginAttemptType DEF TypeOK, LocalInv, Engaged, Start, Goto
  <2>2. budget \in Nat
    BY LenProperties DEF TypeOK, PoolTypeOK, TryBudget
  <2>3. [begun EXCEPT !.maxTries = budget] \in Local
    <3> HIDE DEF begun, budget
    <3> QED BY <2>1, <2>2 DEF Local
  <2>4. TypeOK'
    BY <1>2, <2>3 DEF TypeOK, PoolTypeOK, Start, poolVars, banVars, threads, Goto, PC
  <2>5. LocalInv'
    BY <1>2 DEF TypeOK, LocalInv, Engaged, Examining, BanPlace, Candidate, Start, Goto
  <2> QED BY <2>4, <2>5
<1>3. CASE Succeed(r)
  BY <1>3 DEF TypeOK, PoolTypeOK, LocalInv, Engaged, Examining, BanPlace, Candidate, Succeed, poolVars, banVars, threads, Goto, PC
<1>4. ASSUME NEW until \in BanTicks \cup {NoExpiry}, RaiseBan(r, until)
      PROVE  TypeInv'
  <2> DEFINE ticks == BanCooldown(until)
  <2>1. ticks \in Nat /\ ticks > 0
    BY <1>4, TimerAssumption DEF BanCooldown
  <2>2. PoolTypeOK'
    <3>1. banLeft' \in [Item -> Nat \cup {NoExpiry}]
      BY <1>4, TimerAssumption DEF TypeOK, PoolTypeOK, RaiseBan, MarkEnd
    <3> QED BY <1>4, <3>1 DEF TypeOK, PoolTypeOK, RaiseBan, MarkEnd, OnlyMarks, threads
  <2>3. /\ loc' = [loc EXCEPT ![r] = [loc[r] EXCEPT !.exc = "ban", !.mark = ticks]]
        /\ loc[r] \in Local
    BY <1>4 DEF RaiseBan, TypeOK
  <2>4. [loc[r] EXCEPT !.exc = "ban", !.mark = ticks] \in Local
    <3> HIDE DEF ticks
    <3> QED BY <2>1, <2>3 DEF Local
  <2>5. loc'[r].mark > 0
    <3> HIDE DEF ticks
    <3> QED BY <2>1, <2>3 DEF Local, TypeOK
  <2>6. TypeOK'
    <3>1. loc' \in [Request -> Local]
      BY <2>3, <2>4 DEF TypeOK
    <3> QED BY <1>4, <2>2, <3>1 DEF TypeOK, RaiseBan, Goto, PC
  <2>7. LocalInv'
    <3>1. \A q \in Request \ {r} : loc'[q] = loc[q]
      BY <2>3 DEF TypeOK
    <3> QED
      BY <1>4, <2>5, <3>1
         DEF TypeOK, LocalInv, Engaged, Examining, BanPlace, Candidate, RaiseBan, Goto
  <2> QED BY <2>6, <2>7
<1>10. CASE SetFlag(r)
  <2>1. PoolTypeOK'
    BY <1>10 DEF TypeOK, PoolTypeOK, SetFlag, MarkFlag, OnlyMarks, threads
  <2>2. TypeOK'
    BY <1>10, <2>1 DEF TypeOK, SetFlag, Goto, PC
  <2>3. LocalInv'
    BY <1>10 DEF TypeOK, LocalInv, Engaged, Examining, BanPlace, Candidate, SetFlag, Goto
  <2> QED BY <2>2, <2>3
<1>11. CASE SetCooldown(r)
  <2>1. cur[r] \in Item /\ loc[r].mark \in Nat /\ loc[r] \in Local
    BY <1>11 DEF TypeOK, LocalInv, Engaged, SetCooldown, Goto, Local
  <2>2. badLeft' \in [Item -> Nat]
    BY <1>11, <2>1 DEF TypeOK, PoolTypeOK, SetCooldown, MarkCooldown
  <2>3. PoolTypeOK'
    BY <1>11, <2>2 DEF TypeOK, PoolTypeOK, SetCooldown, MarkCooldown, OnlyMarks, threads
  <2>4. loc' \in [Request -> Local]
    <3>1. [loc[r] EXCEPT !.mark = 0] \in Local
      BY <2>1 DEF Local
    <3> QED BY <1>11, <3>1 DEF TypeOK, SetCooldown
  <2>5. TypeOK'
    BY <1>11, <2>3, <2>4, ForgivingKeepsType DEF TypeOK, SetCooldown, Goto, PC
  <2>6. LocalInv'
    BY <1>11 DEF TypeOK, LocalInv, Engaged, Examining, BanPlace, Candidate, SetCooldown, Goto
  <2> QED BY <2>5, <2>6
<1>5. ASSUME NEW kind \in {"auth", "other"}, RaiseOther(r, kind)
      PROVE  TypeInv'
  <2>1. loc' \in [Request -> Local]
    BY <1>5, ZenonT(40) DEF TypeOK, Local, RaiseOther
  <2>2. TypeOK'
    BY <1>5, <2>1 DEF TypeOK, PoolTypeOK, RaiseOther, poolVars, banVars, threads, Goto, PC
  <2>3. LocalInv'
    BY <1>5 DEF TypeOK, LocalInv, Engaged, Examining, BanPlace, Candidate, RaiseOther, Goto
  <2> QED BY <2>2, <2>3
<1>6. CASE StopCancelled(r)
  BY <1>6 DEF TypeOK, PoolTypeOK, LocalInv, Engaged, Examining, BanPlace, Candidate, StopCancelled,
              poolVars, banVars, threads, Goto, PC
<1>7. CASE GiveSlotForWaf(r)
  <2>1. loc' \in [Request -> Local]
    <3>1. loc[r] \in Local /\ loc[r].waf - 1 \in Nat
      BY <1>7 DEF TypeOK, Local, GiveSlotForWaf
    <3>2. [loc[r] EXCEPT !.waf = @ - 1] \in Local
      BY <3>1 DEF Local
    <3> QED BY <1>7, <3>2 DEF TypeOK, GiveSlotForWaf
  <2>2. TypeOK'
    BY <1>7, <2>1 DEF TypeOK, PoolTypeOK, GiveSlotForWaf, Unlock, OnlyLock, banVars, threads, Goto, PC
  <2>3. LocalInv'
    BY <1>7 DEF TypeOK, LocalInv, Engaged, Examining, BanPlace, Candidate, GiveSlotForWaf, Goto
  <2> QED BY <2>2, <2>3
<1>8. CASE Reacquire(r)
  BY <1>8 DEF TypeOK, PoolTypeOK, LocalInv, Engaged, Examining, BanPlace, Candidate, Reacquire, Lock,
              OnlyLock, banVars, threads, Goto, PC
<1>9. CASE AbandonReacquire(r)
  BY <1>9 DEF TypeOK, PoolTypeOK, LocalInv, Engaged, Examining, BanPlace, Candidate, AbandonReacquire,
              poolVars, banVars, threads, Goto, PC
<1> QED
  BY <1>1, <1>2, <1>3, <1>4, <1>5, <1>6, <1>7, <1>8, <1>9, <1>10, <1>11 DEF Complete

LEMMA AfterAttemptKeepsType ==
  ASSUME TypeInv, NEW r \in Request, AfterAttempt(r)
  PROVE  TypeInv'
<1> USE DEF TypeInv
<1>1. CASE ReleaseFailed(r)
  BY <1>1 DEF TypeOK, PoolTypeOK, LocalInv, Engaged, Examining, BanPlace, Candidate, ReleaseFailed, Unlock,
              OnlyLock, banVars, threads, Goto, PC
<1>2. CASE Surface(r)
  BY <1>2, AnswerKeepsType DEF Surface, TypeOK, PoolTypeOK, poolVars, banVars, threads
<1>3. CASE FailOver(r)
  <2>1. cur[r] \in Item /\ loc[r] \in Local
    BY <1>3 DEF TypeOK, LocalInv, Engaged, FailOver, Goto
  <2>2. loc' \in [Request -> Local]
    <3> DEFINE failed == IF InFailover(r) THEN loc[r].failed ELSE cur[r]
               tries == loc[r].tries + 1
    <3>1. failed \in Item \cup {None} /\ tries \in Nat /\ FailoverTicks \in Nat
      <4>1. loc[r].failed \in Item \cup {None} /\ loc[r].tries \in Nat
        BY <2>1 DEF Local
      <4> QED BY <2>1, <4>1, RequestAssumption
    <3>2. [loc[r] EXCEPT !.failed = failed, !.tries = tries, !.left = FailoverTicks]
            \in Local
      <4> HIDE DEF failed, tries
      <4> QED BY <2>1, <3>1 DEF Local
    <3> QED BY <1>3, <3>2 DEF TypeOK, FailOver
  <2>3. badLeft' \in [Item -> Nat]
    <3>1. CASE loc[r].exc = "auth"
      <4>1. InvalidTicks \in Nat
        BY RequestAssumption
      <4>2. badLeft' = [badLeft EXCEPT ![cur[r]] = InvalidTicks]
        BY <1>3, <3>1 DEF FailOver, MarkBad
      <4> QED BY <4>1, <4>2 DEF TypeOK, PoolTypeOK
    <3>2. CASE loc[r].exc # "auth"
      BY <1>3, <3>2 DEF TypeOK, PoolTypeOK, FailOver, banVars
    <3> QED BY <3>1, <3>2
  <2>4. TypeOK'
    BY <1>3, <2>2, <2>3 DEF TypeOK, PoolTypeOK, FailOver, MarkBad, OnlyMarks, banVars, threads, Goto, PC
  <2>5. LocalInv'
    BY <1>3 DEF TypeOK, LocalInv, Engaged, Examining, BanPlace, Candidate, FailOver, Goto
  <2> QED BY <2>4, <2>5
<1>4. CASE DecideSwitch(r)
  BY <1>4 DEF TypeOK, PoolTypeOK, LocalInv, Engaged, Examining, BanPlace, Candidate, DecideSwitch,
              poolVars, banVars, threads, Goto, PC
<1>5. CASE SwitchCurrent(r)
  <2>1. AccountOf[cur[r]] \in Account
    BY <1>5, AccountAssumption DEF LocalInv, Engaged, SwitchCurrent, Goto
  <2>2. TypeOK'
    BY <1>5, <2>1 DEF TypeOK, PoolTypeOK, SwitchCurrent, SetCurrent, banVars, threads, Goto, PC
  <2>3. LocalInv'
    BY <1>5 DEF TypeOK, LocalInv, Engaged, Examining, BanPlace, Candidate, SwitchCurrent, Goto
  <2> QED BY <2>2, <2>3
<1>6. CASE Finish(r)
  <2>1. PoolTypeOK'
    BY <1>6 DEF TypeOK, PoolTypeOK, Finish, Unlock, OnlyLock, banVars, threads
  <2> QED BY <1>6, <2>1, AnswerKeepsType DEF Finish
<1> QED
  BY <1>1, <1>2, <1>3, <1>4, <1>5, <1>6 DEF AfterAttempt

LEMMA EnvironmentKeepsType ==
  ASSUME TypeInv, Tick \/ Operator \/ \E r \in Request : Arrive(r) \/ ClientLeaves(r)
  PROVE  TypeInv'
<1> USE DEF TypeInv
<1>1. CASE Tick
  <2>1. PoolTypeOK'
    <3>1. badLeft' \in [Item -> Nat]
      BY <1>1 DEF TypeOK, PoolTypeOK, Tick, TickPool, Countdown
    <3>2. banLeft' \in [Item -> Nat \cup {NoExpiry}]
      BY <1>1 DEF TypeOK, PoolTypeOK, Tick, TickPool, Countdown
    <3> QED BY <1>1, <3>1, <3>2 DEF TypeOK, PoolTypeOK, Tick, TickPool, threads
  <2>2. \A r \in Request : [loc[r] EXCEPT !.left = Countdown(@)] \in Local
    <3> SUFFICES ASSUME NEW r \in Request
                 PROVE  [loc[r] EXCEPT !.left = Countdown(@)] \in Local
      OBVIOUS
    <3>1. loc[r] \in Local /\ Countdown(loc[r].left) \in Nat
      BY DEF TypeOK, Local, Countdown
    <3> QED BY <3>1 DEF Local
  <2>3. TypeOK'
    BY <1>1, <2>1, <2>2 DEF TypeOK, Tick
  <2>4. LocalInv'
    BY <1>1 DEF LocalInv, Engaged, Examining, BanPlace, Candidate, Tick, Hurried
  <2> QED BY <2>3, <2>4
<1>2. CASE Operator
  <2>1. UNCHANGED requestVars => LocalInv'
    BY DEF LocalInv, Engaged, Examining, BanPlace, Candidate, requestVars
  <2>2. PoolTypeOK' /\ UNCHANGED requestVars => TypeInv'
    BY <2>1 DEF TypeOK, requestVars
  <2>3. ASSUME NEW a \in Account \cup {NoAccount}, SelectAccount(a)
        PROVE  PoolTypeOK' /\ UNCHANGED requestVars
    BY <2>3 DEF TypeOK, PoolTypeOK, SelectAccount, SetCurrent, banVars, threads, requestVars
  <2>4. ASSUME NEW S \in {Item} \cup {{i} : i \in Item}, Unblock(S)
        PROVE  PoolTypeOK' /\ UNCHANGED requestVars
    BY <2>4 DEF TypeOK, PoolTypeOK, Unblock, ClearCooldown, OnlyMarks, banVars, requestVars
  <2>5. ASSUME NEW i \in Item, AddAccount(i)
        PROVE  PoolTypeOK' /\ UNCHANGED requestVars
    BY <2>5, AccountAssumption, AppendProperties
       DEF TypeOK, PoolTypeOK, AddAccount, Add, banVars, threads, requestVars
  <2>6. ASSUME NEW k \in DOMAIN pool, RemoveAccount(k)
        PROVE  PoolTypeOK' /\ UNCHANGED requestVars
    <3>1. RemoveAt(pool, k) \in Seq(Item)
      BY RemoveAtType DEF TypeOK, PoolTypeOK
    <3> QED BY <2>6, <3>1
            DEF TypeOK, PoolTypeOK, RemoveAccount, RemoveItem, banVars, threads, requestVars
  <2>7. ASSUME NEW k \in DOMAIN pool, ClearStep(k)
        PROVE  TypeInv'
    <3>1. pool[k] \in Item
      BY ElementOfSeq, LenProperties DEF TypeOK, PoolTypeOK
    <3>2. badLeft' \in [Item -> Nat]
      BY <2>7 DEF TypeOK, PoolTypeOK, ClearStep, ClearNext, Reset
    <3>3. banned' \in [Item -> BOOLEAN]
      BY <2>7 DEF TypeOK, PoolTypeOK, ClearStep, ClearNext, Reset
    <3>4. banLeft' \in [Item -> Nat \cup {NoExpiry}]
      BY <2>7 DEF TypeOK, PoolTypeOK, ClearStep, ClearNext, Reset
    <3>5. clearing' \in [Item -> 0..3]
      <4>1. clearing' = [clearing EXCEPT ![pool[k]] = (clearing[pool[k]] + 1) % 4]
        BY <2>7 DEF ClearStep, ClearNext
      <4>2. clearing[pool[k]] \in 0..3
        BY <3>1 DEF TypeOK, PoolTypeOK
      <4>3. (clearing[pool[k]] + 1) % 4 \in 0..3
        BY <4>2
      <4> QED BY <4>1, <4>3 DEF TypeOK, PoolTypeOK
    <3>6. wiped' = wiped
      BY <2>7 DEF ClearStep, ClearNext, Reset
    <3>7. PoolTypeOK'
      BY <2>7, <3>2, <3>3, <3>4, <3>5, <3>6 DEF TypeOK, PoolTypeOK, ClearStep, OnlyMarks
    <3>8. TypeOK'
      BY <2>7, <3>7, ForgivingKeepsType DEF TypeOK, ClearStep
    <3>9. LocalInv'
      BY <2>7 DEF LocalInv, Engaged, Examining, BanPlace, Candidate, ClearStep
    <3> QED BY <3>8, <3>9
  <2>8. ASSUME NEW i \in Members, ReadStatus(i)
        PROVE  PoolTypeOK' /\ UNCHANGED requestVars
    BY <2>8 DEF TypeOK, PoolTypeOK, ReadStatus, OnlyMarks, banVars, BanPlace, requestVars
  <2>9. ASSUME NEW i \in Item, NEW to \in Reading, StatusStep(i, to)
        PROVE  TypeInv'
    <3>1. /\ badLeft' \in [Item -> Nat]
          /\ banned' \in [Item -> BOOLEAN]
          /\ banLeft' \in [Item -> Nat \cup {NoExpiry}]
          /\ wiped' \in SUBSET Item
      BY <2>9, ReadBanKeepsType DEF StatusStep
    <3>2. PoolTypeOK'
      BY <2>9, <3>1 DEF TypeOK, PoolTypeOK, StatusStep, OnlyMarks
    <3>3. TypeOK'
      BY <2>9, <3>2, ForgivingKeepsType DEF TypeOK, StatusStep
    <3>4. LocalInv'
      BY <2>9 DEF LocalInv, Engaged, Examining, BanPlace, Candidate, StatusStep
    <3> QED BY <3>3, <3>4
  <2> QED BY <1>2, <2>2, <2>3, <2>4, <2>5, <2>6, <2>7, <2>8, <2>9 DEF Operator
<1>3. ASSUME NEW r \in Request, Arrive(r)
      PROVE  TypeInv'
  <2>1. loc' \in [Request -> Local]
    <3>1. PICK multi \in UseMultiple :
            loc' = [loc EXCEPT ![r].multi = multi, ![r].left = QueueTicks]
      BY <1>3 DEF Arrive
    <3>2. multi \in BOOLEAN /\ QueueTicks \in Nat /\ loc[r] \in Local
      BY RequestAssumption DEF TypeOK
    <3>3. [loc[r] EXCEPT !.multi = multi, !.left = QueueTicks] \in Local
      BY <3>2 DEF Local
    <3> QED BY <3>1, <3>3 DEF TypeOK
  <2>2. TypeOK'
    BY <1>3, <2>1 DEF TypeOK, PoolTypeOK, Arrive, poolVars, banVars, threads, Goto, PC
  <2>3. LocalInv'
    BY <1>3 DEF TypeOK, LocalInv, Engaged, Examining, BanPlace, Candidate, Arrive, Goto
  <2> QED BY <2>2, <2>3
<1>4. ASSUME NEW r \in Request, ClientLeaves(r)
      PROVE  TypeInv'
  BY <1>4 DEF TypeOK, PoolTypeOK, LocalInv, Engaged, Examining, BanPlace, Candidate, ClientLeaves, poolVars, banVars, threads
<1> QED BY <1>1, <1>2, <1>3, <1>4

LEMMA TypeInvStep == TypeInv /\ [Next]_vars => TypeInv'
<1> SUFFICES ASSUME TypeInv, [Next]_vars PROVE TypeInv'
  OBVIOUS
<1>1. CASE UNCHANGED vars
  <2>1. TypeOK'
    BY <1>1 DEF vars, poolVars, banVars, threads, requestVars, TypeInv, TypeOK, PoolTypeOK
  <2>2. LocalInv'
    BY <1>1 DEF vars, requestVars, TypeInv, LocalInv, Engaged, Examining, Candidate
  <2> QED BY <2>1, <2>2 DEF TypeInv
<1>2. ASSUME NEW r \in Request, Step(r) PROVE TypeInv'
  BY <1>2, AcquireKeepsType, CompleteKeepsType, AfterAttemptKeepsType DEF Step
<1> QED
  BY <1>1, <1>2, EnvironmentKeepsType DEF Next

LEMMA TypeInvariant == Spec => []TypeInv
BY TypeInvInit, TypeInvStep, PTL DEF Spec

\* Every variable of the pool and of the requests keeps its type.
THEOREM TypeCorrect == Spec => []TypeOK
<1>1. TypeInv => TypeOK
  BY DEF TypeInv
<1> QED BY <1>1, TypeInvariant, PTL

-----------------------------------------------------------------------------
(* Slots                                                                   *)

(***************************************************************************)
(* A request that is orphaned, cancelled while it waits to take its slot   *)
(* back after a WAF refresh, releases a lock it does not hold.  Slots are  *)
(* exclusive as long as that never opens the lock of another request.      *)
(***************************************************************************)
ForeignRelease ==
  \E r \in Request :
    /\ pc[r] = "orphan" /\ pc'[r] = "done"
    /\ \E s \in Request \ {r} : HoldsSlot(s) /\ cur[s] = cur[r]

SlotInv ==
  /\ \A r \in Request : HoldsSlot(r) => locked[cur[r]]
  /\ OneStreamPerSlot
  /\ NoLeakedSlot

\* The four things a step can do to the slots.
Kept(r) ==
  /\ HoldsSlot(r)' <=> HoldsSlot(r)
  /\ HoldsSlot(r) => cur'[r] = cur[r]

SlotsKept == locked' = locked /\ \A r \in Request : Kept(r)

SlotTaken(r, i) ==
  /\ LockFree(i) /\ Lock(i)
  /\ ~HoldsSlot(r) /\ HoldsSlot(r)' /\ cur'[r] = i
  /\ \A s \in Request \ {r} : Kept(s)

SlotGivenBack(r) ==
  /\ HoldsSlot(r) /\ ~HoldsSlot(r)'
  /\ Unlock(cur[r])
  /\ \A s \in Request \ {r} : Kept(s)

SlotOpened(r) ==
  /\ pc[r] = "orphan" /\ pc'[r] = "done"
  /\ Unlock(cur[r])
  /\ \A s \in Request : Kept(s)

SlotStep ==
  \/ SlotsKept
  \/ \E r \in Request, i \in Item : SlotTaken(r, i)
  \/ \E r \in Request : SlotGivenBack(r)
  \/ \E r \in Request : SlotOpened(r)

\* A request's object is one of the pool's while it holds a slot.
LEMMA HolderHasObject ==
  ASSUME TypeInv, NEW r \in Request, HoldsSlot(r)
  PROVE  cur[r] \in Item
BY DEF TypeInv, LocalInv, HoldsSlot, Engaged

LEMMA LockTypes ==
  ASSUME TypeInv
  PROVE  /\ locked \in [Item -> BOOLEAN]
         /\ \A r \in Request : HoldsSlot(r) => cur[r] \in Item
BY HolderHasObject DEF TypeInv, TypeOK, PoolTypeOK

\* No kind of step leaves a lock behind, not even the release of a lock not held.
LEMMA SlotStepLeaksNothing ==
  ASSUME TypeInv, NoLeakedSlot, SlotStep
  PROVE  NoLeakedSlot'
<1> USE DEF NoLeakedSlot, Kept
<1>0. locked \in [Item -> BOOLEAN]
  BY LockTypes
<1>1. CASE SlotsKept
  BY <1>1 DEF SlotsKept
<1>2. ASSUME NEW r \in Request, NEW i \in Item, SlotTaken(r, i)
      PROVE  NoLeakedSlot'
  BY <1>0, <1>2 DEF SlotTaken, LockFree, Lock
<1>3. ASSUME NEW r \in Request, SlotGivenBack(r)
      PROVE  NoLeakedSlot'
  BY <1>0, <1>3 DEF SlotGivenBack, Unlock
<1>4. ASSUME NEW r \in Request, SlotOpened(r)
      PROVE  NoLeakedSlot'
  BY <1>0, <1>4 DEF SlotOpened, Unlock
<1> QED BY <1>1, <1>2, <1>3, <1>4 DEF SlotStep

\* Each kind of step keeps the slots exclusive and accounted for.
LEMMA SlotStepKeepsInv ==
  ASSUME TypeInv, SlotInv, SlotStep, ~ForeignRelease
  PROVE  SlotInv'
<1>0. NoLeakedSlot'
  BY SlotStepLeaksNothing DEF SlotInv
<1> USE LockTypes DEF Kept
<1> DEFINE HoldersLocked == \A r \in Request : HoldsSlot(r) => locked[cur[r]]
<1>1. CASE SlotsKept
  BY <1>0, <1>1 DEF SlotsKept, SlotInv, OneStreamPerSlot
<1>2. ASSUME NEW r \in Request, NEW i \in Item, SlotTaken(r, i)
      PROVE  SlotInv'
  <2>1. HoldersLocked'
    BY <1>2 DEF SlotTaken, LockFree, Lock, SlotInv
  <2>2. OneStreamPerSlot'
    BY <1>2 DEF SlotTaken, LockFree, Lock, SlotInv, OneStreamPerSlot
  <2> QED BY <1>0, <2>1, <2>2 DEF SlotInv
<1>3. ASSUME NEW r \in Request, SlotGivenBack(r)
      PROVE  SlotInv'
  <2>1. HoldersLocked'
    BY <1>3 DEF SlotGivenBack, Unlock, SlotInv, OneStreamPerSlot
  <2>2. OneStreamPerSlot'
    BY <1>3 DEF SlotGivenBack, Unlock, SlotInv, OneStreamPerSlot
  <2> QED BY <1>0, <2>1, <2>2 DEF SlotInv
<1>4. ASSUME NEW r \in Request, SlotOpened(r)
      PROVE  SlotInv'
  <2>1. \A s \in Request : HoldsSlot(s) => cur[s] # cur[r]
    BY <1>4 DEF SlotOpened, ForeignRelease, HoldsSlot
  <2>2. HoldersLocked'
    BY <1>4, <2>1 DEF SlotOpened, Unlock, SlotInv
  <2>3. OneStreamPerSlot'
    BY <1>4 DEF SlotOpened, SlotInv, OneStreamPerSlot
  <2> QED BY <1>0, <2>2, <2>3 DEF SlotInv
<1> QED BY <1>1, <1>2, <1>3, <1>4 DEF SlotStep

\* Every step of the program is one of the four.
LEMMA StepIsSlotStep ==
  ASSUME TypeInv, [Next]_vars
  PROVE  SlotStep
<1> USE DEF Kept, HoldsSlot
<1>1. CASE UNCHANGED vars
  BY <1>1 DEF SlotStep, SlotsKept, vars, poolVars, requestVars
<1>2. ASSUME NEW r \in Request, Acquire(r) PROVE SlotStep
  <2> USE <1>2 DEF TypeInv, TypeOK, PoolTypeOK, Goto, Answer, poolVars
  <2>1. CASE Snapshot(r)
    BY <2>1 DEF SlotStep, SlotsKept, Snapshot
  <2>2. CASE NoAccounts(r)
    BY <2>2 DEF SlotStep, SlotsKept, NoAccounts
  <2>3. CASE Consider(r)
    BY <2>3 DEF SlotStep, SlotsKept, Consider
  <2>4. CASE TryLock(r)
    <3>1. CASE LockFree(Candidate(r))
      <4>1. PICK i \in Item : i = Candidate(r)
        BY <2>4, HeadTailProperties DEF LocalInv, Examining, TryLock, Candidate
      <4>2. SlotTaken(r, i)
        BY <2>4, <3>1, <4>1 DEF SlotTaken, TryLock
      <4> QED BY <4>1, <4>2 DEF SlotStep
    <3>2. CASE ~LockFree(Candidate(r))
      BY <2>4, <3>2 DEF SlotStep, SlotsKept, TryLock
    <3> QED BY <3>1, <3>2
  <2>5. CASE KeepLock(r)
    BY <2>5 DEF SlotStep, SlotsKept, KeepLock
  <2>6. CASE PutLockBack(r)
    BY <2>6 DEF SlotStep, SlotGivenBack, PutLockBack
  <2>7. CASE Exhausted(r)
    BY <2>7 DEF SlotStep, SlotsKept, Exhausted
  <2>8. ASSUME NEW to \in Reading, CheckBan(r, to) PROVE SlotStep
    <3>1. /\ pc' = [pc EXCEPT ![r] = pc'[r]]
          /\ pc[r] \in BanPlace
          /\ pc'[r] \in {"try", "end", "unflag", "unend", "uncool", "scan"}
          /\ locked' = locked /\ cur' = cur
      BY <2>8, ReadBanPlaces DEF CheckBan, BanPlace, OnlyMarks
    <3> QED BY <3>1 DEF SlotStep, SlotsKept, BanPlace
  <2> QED BY <2>1, <2>2, <2>3, <2>4, <2>5, <2>6, <2>7, <2>8 DEF Acquire
<1>3. ASSUME NEW r \in Request, Complete(r) PROVE SlotStep
  <2> USE <1>3 DEF TypeInv, TypeOK, PoolTypeOK, Goto, Answer, poolVars
  <2>1. CASE Granted(r)
    <3>1. CASE cancelled[r]
      <4>1. SlotGivenBack(r)
        BY <2>1, <3>1 DEF SlotGivenBack, Granted
      <4> QED BY <4>1 DEF SlotStep
    <3>2. CASE ~cancelled[r]
      BY <2>1, <3>2 DEF SlotStep, SlotsKept, Granted
    <3> QED BY <3>1, <3>2
  <2>2. CASE Start(r) \/ Succeed(r) \/ StopCancelled(r) \/ AbandonReacquire(r)
    BY <2>2 DEF SlotStep, SlotsKept, Start, Succeed, StopCancelled, AbandonReacquire
  <2>3. ASSUME NEW until \in BanTicks \cup {NoExpiry}, RaiseBan(r, until)
        PROVE  SlotStep
    BY <2>3 DEF SlotStep, SlotsKept, RaiseBan, OnlyMarks
  <2>4. ASSUME NEW kind \in {"auth", "other"}, RaiseOther(r, kind)
        PROVE  SlotStep
    BY <2>4 DEF SlotStep, SlotsKept, RaiseOther
  <2>5. CASE GiveSlotForWaf(r)
    <3>1. CASE LockFree(cur[r])
      <4>1. locked' = locked /\ pc' = pc /\ cur' = cur
        BY <2>5, <3>1 DEF GiveSlotForWaf, LockFree, Unlock, LocalInv, Engaged
      <4> QED BY <4>1 DEF SlotStep, SlotsKept
    <3>2. CASE ~LockFree(cur[r])
      <4>1. SlotGivenBack(r)
        BY <2>5, <3>2 DEF SlotGivenBack, GiveSlotForWaf
      <4> QED BY <4>1 DEF SlotStep
    <3> QED BY <3>1, <3>2
  <2>6. CASE Reacquire(r)
    <3>1. PICK i \in Item : i = cur[r]
      BY <2>6 DEF LocalInv, Engaged, Reacquire
    <3>2. SlotTaken(r, i)
      BY <2>6, <3>1 DEF SlotTaken, Reacquire
    <3> QED BY <3>1, <3>2 DEF SlotStep
  <2>7. CASE SetFlag(r) \/ SetCooldown(r)
    BY <2>7 DEF SlotStep, SlotsKept, SetFlag, SetCooldown, OnlyMarks
  <2> QED BY <2>1, <2>2, <2>3, <2>4, <2>5, <2>6, <2>7 DEF Complete
<1>4. ASSUME NEW r \in Request, AfterAttempt(r) PROVE SlotStep
  <2> USE <1>4 DEF TypeInv, TypeOK, PoolTypeOK, Goto, Answer, poolVars
  <2>1. CASE ReleaseFailed(r)
    BY <2>1 DEF SlotStep, SlotGivenBack, ReleaseFailed
  <2>2. CASE Surface(r)
    BY <2>2 DEF SlotStep, SlotsKept, Surface
  <2>3. CASE FailOver(r)
    BY <2>3 DEF SlotStep, SlotsKept, FailOver, OnlyMarks
  <2>4. CASE DecideSwitch(r) \/ SwitchCurrent(r)
    BY <2>4 DEF SlotStep, SlotsKept, DecideSwitch, SwitchCurrent
  <2>5. CASE Finish(r)
    <3>1. CASE pc[r] = "finish"
      <4>1. SlotGivenBack(r)
        BY <2>5, <3>1 DEF SlotGivenBack, Finish
      <4> QED BY <4>1 DEF SlotStep
    <3>2. CASE pc[r] = "orphan"
      <4>1. SlotOpened(r)
        BY <2>5, <3>2 DEF SlotOpened, Finish
      <4> QED BY <4>1 DEF SlotStep
    <3> QED BY <2>5, <3>1, <3>2 DEF Finish
  <2> QED BY <2>1, <2>2, <2>3, <2>4, <2>5 DEF AfterAttempt
<1>5. ASSUME NEW r \in Request, Arrive(r) \/ ClientLeaves(r) PROVE SlotStep
  BY <1>5 DEF SlotStep, SlotsKept, Arrive, ClientLeaves, Goto, poolVars,
              TypeInv, TypeOK, PoolTypeOK
<1>6. CASE Tick
  BY <1>6 DEF SlotStep, SlotsKept, Tick, TickPool
<1>7. CASE Operator
  <2>1. UNCHANGED <<locked, pc, cur>>
    BY <1>7 DEF Operator, SelectAccount, Unblock, ClearStep, AddAccount, RemoveAccount,
                ReadStatus, StatusStep, Add, RemoveItem, OnlyMarks, requestVars
  <2> QED BY <2>1 DEF SlotStep, SlotsKept
<1> QED BY <1>1, <1>2, <1>3, <1>4, <1>5, <1>6, <1>7 DEF Next, Step

LEMMA SlotInvariant == Spec /\ [][~ForeignRelease]_vars => []SlotInv
<1>1. Init => SlotInv
  BY DEF Init, InitPool, SlotInv, OneStreamPerSlot, NoLeakedSlot, HoldsSlot
<1>2. TypeInv /\ SlotInv /\ [Next]_vars /\ [~ForeignRelease]_vars => SlotInv'
  <2>1. CASE UNCHANGED vars
    BY <2>1 DEF vars, poolVars, requestVars, SlotInv, OneStreamPerSlot, NoLeakedSlot, HoldsSlot
  <2>2. CASE ~ForeignRelease
    BY <2>2, StepIsSlotStep, SlotStepKeepsInv
  <2> QED BY <2>1, <2>2
<1> QED BY <1>1, <1>2, TypeInvariant, PTL DEF Spec

\* Two requests never hold the slot of one pool object, in every behaviour in which no
\* request that lost its client during a WAF refresh opens the lock of another
\* (completion_service.py, _refresh_waf_without_account_lock and the release that follows it).
THEOREM OneStream == Spec /\ [][~ForeignRelease]_vars => []OneStreamPerSlot
<1>1. SlotInv => OneStreamPerSlot
  BY DEF SlotInv
<1> QED BY <1>1, SlotInvariant, PTL

\* No lock stays taken without a request that will release it, whatever clients, WAF
\* blocks, the operator and the other requests do.
THEOREM NoSlotLeaks == Spec => []NoLeakedSlot
<1>1. Init => NoLeakedSlot
  BY DEF Init, InitPool, NoLeakedSlot
<1>2. TypeInv /\ NoLeakedSlot /\ [Next]_vars => NoLeakedSlot'
  BY StepIsSlotStep, SlotStepLeaksNothing
<1> QED BY <1>1, <1>2, TypeInvariant, PTL DEF Spec

-----------------------------------------------------------------------------
(* The locks implement the abstract slots                                  *)

HolderOK ==
  \A i \in Item :
    /\ \A r \in Request : holder[i] = r <=> HoldsSlot(r) /\ cur[r] = i
    /\ holder[i] = None <=> \A r \in Request : ~(HoldsSlot(r) /\ cur[r] = i)
    /\ holder[i] \in Request \cup {None}

\* With exclusive slots the mapping names the one request that holds a slot.
LEMMA HolderMap == OneStreamPerSlot => HolderOK
<1> SUFFICES ASSUME OneStreamPerSlot, NEW i \in Item
             PROVE  /\ \A r \in Request : holder[i] = r <=> HoldsSlot(r) /\ cur[r] = i
                    /\ holder[i] = None <=>
                         \A r \in Request : ~(HoldsSlot(r) /\ cur[r] = i)
                    /\ holder[i] \in Request \cup {None}
  BY DEF HolderOK
<1>1. None \notin Request
  BY RequestAssumption
<1>2. CASE \E r \in Request : HoldsSlot(r) /\ cur[r] = i
  <2>1. PICK h \in Request : HoldsSlot(h) /\ cur[h] = i
    BY <1>2
  <2>2. \A r \in Request : HoldsSlot(r) /\ cur[r] = i => r = h
    BY <2>1 DEF OneStreamPerSlot
  <2>3. holder[i] = h
    BY <2>1, <2>2 DEF holder
  <2> QED BY <1>1, <2>1, <2>2, <2>3
<1>3. CASE ~(\E r \in Request : HoldsSlot(r) /\ cur[r] = i)
  <2>1. holder[i] = None
    BY <1>3 DEF holder
  <2> QED BY <1>1, <1>3, <2>1
<1> QED BY <1>2, <1>3

LEMMA SlotStepRefines ==
  ASSUME TypeInv, SlotInv, HolderOK, HolderOK', SlotStep
  PROVE  [Slots!Next]_holder
<1> USE DEF HolderOK, Kept
<1>1. /\ holder = [i \in Item |-> holder[i]]
      /\ holder' = [i \in Item |-> holder'[i]]
  BY DEF holder
<1>2. CASE SlotsKept
  <2>1. \A i \in Item : holder'[i] = holder[i]
    BY <1>2 DEF SlotsKept
  <2> QED BY <1>1, <2>1
<1>3. ASSUME NEW r \in Request, NEW i \in Item, SlotTaken(r, i)
      PROVE  Slots!Next
  <2>1. holder[i] = None
    BY <1>3 DEF SlotTaken, LockFree, SlotInv
  <2>2. \A j \in Item : holder[j] # r
    BY <1>3 DEF SlotTaken
  <2>3. \A j \in Item : holder'[j] = IF j = i THEN r ELSE holder[j]
    <3> SUFFICES ASSUME NEW j \in Item
                 PROVE  holder'[j] = IF j = i THEN r ELSE holder[j]
      OBVIOUS
    <3>1. CASE j = i
      BY <1>3, <3>1 DEF SlotTaken
    <3>2. CASE j # i
      BY <1>3, <3>2 DEF SlotTaken
    <3> QED BY <3>1, <3>2
  <2>4. holder' = [holder EXCEPT ![i] = r]
    BY <1>1, <2>3
  <2> QED BY <2>1, <2>2, <2>4 DEF Slots!Next, Slots!Take
<1>4. ASSUME NEW r \in Request, SlotGivenBack(r)
      PROVE  Slots!Next
  <2>1. PICK i \in Item : i = cur[r]
    BY <1>4, HolderHasObject DEF SlotGivenBack
  <2>2. holder[i] = r
    BY <1>4, <2>1 DEF SlotGivenBack
  <2>3. \A j \in Item : holder'[j] = IF j = i THEN None ELSE holder[j]
    <3> SUFFICES ASSUME NEW j \in Item
                 PROVE  holder'[j] = IF j = i THEN None ELSE holder[j]
      OBVIOUS
    <3>1. CASE j = i
      <4>1. \A q \in Request : ~(HoldsSlot(q)' /\ cur'[q] = i)
        BY <1>4, <2>1 DEF SlotGivenBack, SlotInv, OneStreamPerSlot
      <4> QED BY <3>1, <4>1
    <3>2. CASE j # i
      BY <1>4, <2>1, <3>2 DEF SlotGivenBack
    <3> QED BY <3>1, <3>2
  <2>4. holder' = [holder EXCEPT ![i] = None]
    BY <1>1, <2>3
  <2> QED BY <2>2, <2>4 DEF Slots!Next, Slots!GiveBack
<1>5. ASSUME NEW r \in Request, SlotOpened(r)
      PROVE  holder' = holder
  <2>1. \A i \in Item : holder'[i] = holder[i]
    BY <1>5 DEF SlotOpened
  <2> QED BY <1>1, <2>1
<1> QED BY <1>2, <1>3, <1>4, <1>5 DEF SlotStep

\* The locks implement the slots of AccountSlots, under the condition of OneStream: a
\* slot is taken only when free and given back only by the request that has it.
THEOREM LocksImplementSlots == Spec /\ [][~ForeignRelease]_vars => SlotsSpec
<1>1. Init => Slots!Init
  BY DEF Init, Slots!Init, holder, HoldsSlot
<1>2. TypeInv /\ SlotInv /\ SlotInv' /\ [Next]_vars => [Slots!Next]_holder
  <2>1. SlotInv => HolderOK
    BY HolderMap DEF SlotInv
  <2>2. SlotInv' => HolderOK'
    BY <2>1, PTL
  <2> QED BY <2>1, <2>2, StepIsSlotStep, SlotStepRefines
<1> QED BY <1>1, <1>2, TypeInvariant, SlotInvariant, PTL DEF Spec, SlotsSpec, Slots!Spec

(* Who changes what                                                        *)

LEMMA CandidateIsItem ==
  ASSUME TypeInv, NEW r \in Request, Examining(r) \/ order[r] # <<>>
  PROVE  Candidate(r) \in Item
BY HeadTailProperties DEF TypeInv, TypeOK, LocalInv, Candidate

\* Every step of one request leaves the others alone.
LEMMA OthersLeftAlone ==
  ASSUME TypeInv, NEW q \in Request, Step(q) \/ Arrive(q) \/ ClientLeaves(q)
  PROVE  \A r \in Request \ {q} :
           pc'[r] = pc[r] /\ order'[r] = order[r] /\ cur'[r] = cur[r] /\ loc'[r] = loc[r]
<1> USE DEF TypeInv, TypeOK, Goto, Answer, Skip
<1>1. CASE Acquire(q)
  BY <1>1 DEF Acquire, Snapshot, NoAccounts, Consider, CheckBan, TryLock, KeepLock, PutLockBack,
     Exhausted
<1>2. CASE Complete(q)
  BY <1>2 DEF Complete, Granted, Start, Succeed, RaiseBan, SetFlag, SetCooldown, RaiseOther,
     StopCancelled, GiveSlotForWaf, Reacquire, AbandonReacquire
<1>3. CASE AfterAttempt(q)
  BY <1>3 DEF AfterAttempt, ReleaseFailed, Surface, FailOver, DecideSwitch, SwitchCurrent, Finish
<1>4. CASE Arrive(q) \/ ClientLeaves(q)
  BY <1>4 DEF Arrive, ClientLeaves
<1> QED
  BY <1>1, <1>2, <1>3, <1>4 DEF Step

\* The steps of a request that touch the marks of an object.
MarkingStep(q) ==
  \/ \E to \in Reading : CheckBan(q, to)
  \/ \E until \in BanTicks \cup {NoExpiry} : RaiseBan(q, until)
  \/ SetFlag(q) \/ SetCooldown(q) \/ FailOver(q)

LEMMA OtherStepsMarkNothing ==
  ASSUME TypeInv, NEW q \in Request, Step(q), ~MarkingStep(q)
  PROVE  /\ UNCHANGED <<badLeft, banned, banLeft, wiped, clearing>>
         /\ pc[q] \notin {"marking", "marked"}
         /\ \A r \in Request : refused'[r] \in {refused[r], None}
<1> USE DEF TypeInv, TypeOK, Goto, Answer
<1>1. CASE Acquire(q)
  BY <1>1 DEF Acquire, Snapshot, NoAccounts, Consider, TryLock, KeepLock, PutLockBack,
     Exhausted, MarkingStep, OnlyLock, poolVars, banVars, threads
<1>2. CASE Complete(q)
  BY <1>2 DEF Complete, Granted, Start, Succeed, RaiseOther, StopCancelled, GiveSlotForWaf,
     Reacquire, AbandonReacquire, MarkingStep, OnlyLock, poolVars, banVars, threads
<1>3. CASE AfterAttempt(q)
  BY <1>3 DEF AfterAttempt, ReleaseFailed, Surface, DecideSwitch, SwitchCurrent, Finish,
     MarkingStep, OnlyLock, poolVars, banVars, threads
<1> QED
  BY <1>1, <1>2, <1>3 DEF Step

\* The operator leaves the requests where they are.
LEMMA OperatorLeavesRequests ==
  ASSUME Operator
  PROVE  UNCHANGED <<pc, cancelled, order, cur, loc>>
BY DEF Operator, SelectAccount, Unblock, ClearStep, AddAccount, RemoveAccount, ReadStatus,
       StatusStep, requestVars

-----------------------------------------------------------------------------
(* Bans and slots                                                          *)

(***************************************************************************)
(* acquire() reads the ban before it has the lock and only the cooldown    *)
(* after.  That is enough because an object that gets a ban after it was   *)
(* found free of one has a cooldown too, unless mark_banned has still to   *)
(* write it, clear_cooldown has begun to clear both (the cooldown first),  *)
(* or the clearing of an earlier ban took the cooldown along.              *)
(***************************************************************************)
Covered(i) ==
  banned[i] => Cooling(i) \/ i \in wiped \/ BeingMarked(i) \/ clearing[i] = 2

\* A request that found its candidate free of a ban, or is clearing one that is over.
Trusting(r) == pc[r] \in {"unend", "uncool", "try", "check"}

BanInv == \A r \in Request : Trusting(r) => Covered(Candidate(r))

\* Reading the ban of any object keeps object i covered.
LEMMA ReadBanKeepsCover ==
  ASSUME TypeInv, NEW i \in Item, Covered(i), NEW j \in Item, NEW from, NEW to,
         ReadBan(j, from, to), clearing'[i] = clearing[i], BeingMarked(i) => BeingMarked(i)'
  PROVE  Covered(i)'
<1> USE DEF Covered, Cooling, TypeInv, TypeOK, PoolTypeOK
<1>1. CASE from \in {"flag", "end"}
  BY <1>1 DEF ReadBan, banVars
<1>2. CASE from \in {"unflag", "unend"}
  BY <1>2 DEF ReadBan
<1>3. CASE from = "uncool"
  BY <1>3 DEF ReadBan
<1> QED BY <1>1, <1>2, <1>3, ReadBanPlaces DEF BanPlace

\* Only mark_banned itself ends the marking of an object.
LEMMA MarkingGoesOn ==
  ASSUME TypeInv, NEW q \in Request, Step(q) \/ Arrive(q) \/ ClientLeaves(q), ~SetCooldown(q),
         NEW i, BeingMarked(i)
  PROVE  BeingMarked(i)'
<1>1. PICK r \in Request : pc[r] \in {"marking", "marked"} /\ cur[r] = i
  BY DEF BeingMarked
<1>2. CASE r # q
  BY <1>1, <1>2, OthersLeftAlone DEF BeingMarked
<1>3. CASE r = q
  <2>1. CASE SetFlag(q)
    BY <1>1, <1>3, <2>1 DEF SetFlag, Goto, BeingMarked, TypeInv, TypeOK
  <2>2. CASE ClientLeaves(q)
    BY <1>1, <1>3, <2>2 DEF ClientLeaves, BeingMarked
  <2>3. CASE Arrive(q)
    BY <1>1, <1>3, <2>3 DEF Arrive, Goto
  <2>4. CASE Step(q) /\ ~SetFlag(q)
    <3>1. CASE MarkingStep(q)
      BY <1>1, <1>3, <2>4, <3>1 DEF MarkingStep, CheckBan, RaiseBan, FailOver, Goto, BanPlace
    <3> QED BY <1>1, <1>3, <2>4, <3>1, OtherStepsMarkNothing
  <2> QED BY <2>1, <2>2, <2>3, <2>4
<1> QED BY <1>2, <1>3

\* A step of a request keeps every object covered.
LEMMA StepKeepsCover ==
  ASSUME TypeInv, NEW q \in Request, Step(q), NEW i \in Item, Covered(i)
  PROVE  Covered(i)'
<1> USE DEF TypeInv, TypeOK, PoolTypeOK
<1>1. CASE ~MarkingStep(q)
  <2>1. ~SetCooldown(q)
    BY <1>1 DEF MarkingStep
  <2> QED BY <1>1, <2>1, OtherStepsMarkNothing, MarkingGoesOn DEF Covered, Cooling
<1>2. ASSUME NEW to \in Reading, CheckBan(q, to) PROVE Covered(i)'
  <2>1. Candidate(q) \in Item
    BY <1>2, CandidateIsItem DEF CheckBan, Examining
  <2>2. ~SetCooldown(q) /\ clearing' = clearing
    BY <1>2 DEF CheckBan, SetCooldown, Goto, BanPlace, threads
  <2> QED BY <1>2, <2>1, <2>2, MarkingGoesOn, ReadBanKeepsCover DEF CheckBan
<1>3. ASSUME NEW until \in BanTicks \cup {NoExpiry}, RaiseBan(q, until) PROVE Covered(i)'
  <2>1. ~SetCooldown(q) /\ UNCHANGED <<badLeft, banned, wiped, clearing>>
    BY <1>3 DEF RaiseBan, SetCooldown, Goto, MarkEnd, threads
  <2> QED BY <2>1, MarkingGoesOn DEF Covered, Cooling
<1>4. CASE SetFlag(q)
  <2>1. ~SetCooldown(q) /\ UNCHANGED <<badLeft, wiped, clearing>>
    BY <1>4 DEF SetFlag, SetCooldown, Goto, MarkFlag, threads
  <2>2. CASE i = cur[q]
    BY <1>4, <2>2 DEF SetFlag, Goto, Covered, BeingMarked
  <2>3. CASE i # cur[q]
    <3>1. banned'[i] = banned[i]
      BY <1>4, <2>3 DEF SetFlag, MarkFlag
    <3> QED BY <2>1, <3>1, MarkingGoesOn DEF Covered, Cooling
  <2> QED BY <2>2, <2>3
<1>5. CASE SetCooldown(q)
  <2>1. /\ badLeft' = [badLeft EXCEPT ![cur[q]] = loc[q].mark] /\ loc[q].mark > 0
        /\ wiped' = wiped \ {cur[q]} /\ UNCHANGED <<banned, clearing>>
    BY <1>5 DEF SetCooldown, MarkCooldown, Goto, LocalInv, threads
  <2>2. CASE i = cur[q]
    BY <2>1, <2>2 DEF Covered, Cooling
  <2>3. CASE i # cur[q]
    <3>1. BeingMarked(i) => BeingMarked(i)'
      BY <2>3, OthersLeftAlone DEF BeingMarked
    <3> QED BY <2>1, <2>3, <3>1 DEF Covered, Cooling
  <2> QED BY <2>2, <2>3
<1>6. CASE FailOver(q)
  <2>1. ~SetCooldown(q) /\ UNCHANGED <<banned, clearing>>
    BY <1>6 DEF FailOver, SetCooldown, Goto, MarkBad, banVars, threads
  <2>2. \/ UNCHANGED <<badLeft, wiped>>
        \/ /\ badLeft' = [badLeft EXCEPT ![cur[q]] = InvalidTicks] /\ InvalidTicks > 0
           /\ wiped' = wiped \ {cur[q]}
    BY <1>6, RequestAssumption DEF FailOver, MarkBad, banVars
  <2> QED BY <2>1, <2>2, MarkingGoesOn DEF Covered, Cooling
<1> QED BY <1>1, <1>2, <1>3, <1>4, <1>5, <1>6 DEF MarkingStep

\* So does a step of the operator: clear_cooldown resets the cooldown before the ban.
LEMMA OperatorKeepsCover ==
  ASSUME TypeInv, Operator, NEW i \in Item, Covered(i)
  PROVE  Covered(i)'
<1> USE DEF TypeInv, TypeOK, PoolTypeOK
<1>1. BeingMarked(i) => BeingMarked(i)'
  BY OperatorLeavesRequests DEF BeingMarked
<1>2. CASE UNCHANGED <<badLeft, banned, wiped, clearing>>
  BY <1>1, <1>2 DEF Covered, Cooling
<1>3. ASSUME NEW S \in {Item} \cup {{j} : j \in Item}, Unblock(S) PROVE Covered(i)'
  <2>1. UNCHANGED <<badLeft, banned, wiped>> /\ clearing[i] = 0
    BY <1>3 DEF Unblock, ClearCooldown, GuardFree, banVars
  <2> QED BY <1>1, <2>1 DEF Covered, Cooling
<1>4. ASSUME NEW k \in DOMAIN pool, ClearStep(k) PROVE Covered(i)'
  <2> DEFINE j == pool[k]
  <2>1. j \in Item
    BY ElementOfSeq, LenProperties
  <2>2. /\ clearing[j] \in 1..3 /\ wiped' = wiped
        /\ Reset(j, ClearOrder[clearing[j]])
        /\ clearing' = [clearing EXCEPT ![j] = (clearing[j] + 1) % 4]
    BY <1>4, <2>1 DEF ClearStep, ClearNext, Reset
  <2> HIDE DEF j
  <2>3. CASE i # j
    BY <1>1, <2>1, <2>2, <2>3 DEF Covered, Cooling, Reset
  <2>4. CASE i = j /\ clearing[j] = 1
    BY <2>1, <2>2, <2>4 DEF Covered
  <2>5. CASE i = j /\ clearing[j] = 2
    <3>1. ClearOrder[2] = "flag"
      BY DEF ClearOrder
    <3>2. banned' = [banned EXCEPT ![j] = banned[j] /\ "flag" # "flag"]
      BY <2>2, <2>5, <3>1 DEF Reset
    <3> QED BY <2>1, <2>5, <3>2 DEF Covered
  <2>6. CASE i = j /\ clearing[j] = 3
    BY <1>1, <2>1, <2>2, <2>6 DEF Covered, Cooling, Reset, ClearOrder
  <2> QED BY <2>2, <2>3, <2>4, <2>5, <2>6
<1>5. ASSUME NEW j \in Item, NEW to \in Reading, StatusStep(j, to) PROVE Covered(i)'
  BY <1>1, <1>5, ReadBanKeepsCover DEF StatusStep
<1> QED
  BY <1>2, <1>3, <1>4, <1>5
     DEF Operator, SelectAccount, AddAccount, RemoveAccount, ReadStatus, Add, RemoveItem,
         banVars, threads

\* A request comes to trust a candidate only when it finds, or makes, its flag clear.
LEMMA TrustBegins ==
  ASSUME TypeInv, NEW r \in Request, Step(r), Trusting(r)'
  PROVE  /\ Candidate(r) \in Item /\ Candidate(r)' = Candidate(r)
         /\ Trusting(r) \/ ~banned'[Candidate(r)]
<1> USE DEF TypeInv, TypeOK, PoolTypeOK, Goto
<1>1. ASSUME NEW to \in Reading, CheckBan(r, to)
      PROVE  /\ Candidate(r) \in Item /\ Candidate(r)' = Candidate(r)
             /\ Trusting(r) \/ ~banned'[Candidate(r)]
  <2>1. Candidate(r) \in Item
    BY <1>1, CandidateIsItem DEF CheckBan, Examining
  <2>2. to # "banned" /\ order' = order
    BY <1>1, ReadBanPlaces DEF CheckBan, Trusting, BanPlace
  <2>3. CASE pc[r] = "flag"
    <3>1. to = "usable"
      BY <1>1, <2>3, ReadBanPlaces DEF CheckBan, Trusting
    <3>2. ~banned[Candidate(r)] /\ banned' = banned
      BY <1>1, <2>3, <3>1 DEF CheckBan, ReadBan, banVars
    <3> QED BY <2>1, <2>2, <3>2 DEF Candidate
  <2>4. CASE pc[r] = "end"
    BY <1>1, <2>2, <2>4, ReadBanPlaces DEF CheckBan, Trusting
  <2>5. CASE pc[r] = "unflag"
    <3>1. banned' = [banned EXCEPT ![Candidate(r)] = FALSE]
      BY <1>1, <2>5 DEF CheckBan, ReadBan
    <3> QED BY <2>1, <2>2, <3>1 DEF Candidate
  <2>6. CASE pc[r] \in {"unend", "uncool"}
    BY <2>1, <2>2, <2>6 DEF Candidate, Trusting
  <2> QED BY <1>1, <2>3, <2>4, <2>5, <2>6 DEF CheckBan, BanPlace
<1>2. CASE TryLock(r)
  <2>1. pc[r] = "try" /\ order' = order
    BY <1>2 DEF TryLock, Trusting
  <2> QED BY <2>1, CandidateIsItem DEF Examining, Candidate, Trusting
<1>3. CASE Acquire(r) /\ ~TryLock(r) /\ ~\E to \in Reading : CheckBan(r, to)
  BY <1>3 DEF Acquire, Snapshot, NoAccounts, Consider, KeepLock, PutLockBack, Exhausted,
     Answer, Trusting
<1>4. CASE Complete(r)
  BY <1>4 DEF Complete, Granted, Start, Succeed, RaiseBan, SetFlag, SetCooldown, RaiseOther,
     StopCancelled, GiveSlotForWaf, Reacquire, AbandonReacquire, Answer, Trusting
<1>5. CASE AfterAttempt(r)
  BY <1>5 DEF AfterAttempt, ReleaseFailed, Surface, FailOver, DecideSwitch, SwitchCurrent,
     Finish, Answer, Trusting
<1> QED BY <1>1, <1>2, <1>3, <1>4, <1>5 DEF Step

LEMMA BanInvStep == TypeInv /\ BanInv /\ [Next]_vars => BanInv'
<1> SUFFICES ASSUME TypeInv, BanInv, [Next]_vars, NEW r \in Request, Trusting(r)'
             PROVE  Covered(Candidate(r))'
  BY DEF BanInv
<1>1. ASSUME Trusting(r), UNCHANGED <<order, banned, badLeft, wiped, clearing, pc, cur>>
      PROVE  Covered(Candidate(r))'
  BY <1>1 DEF BanInv, Covered, Cooling, BeingMarked, Candidate
<1>2. CASE UNCHANGED vars
  BY <1>1, <1>2 DEF vars, poolVars, banVars, threads, requestVars, Trusting
<1>3. ASSUME NEW q \in Request, Step(q) PROVE Covered(Candidate(r))'
  <2>1. CASE q = r
    <3>1. /\ Candidate(r) \in Item /\ Candidate(r)' = Candidate(r)
          /\ Trusting(r) \/ ~banned'[Candidate(r)]
      BY <1>3, <2>1, TrustBegins
    <3>2. CASE Trusting(r)
      <4>1. PICK c \in Item : c = Candidate(r)
        BY <3>1
      <4>2. Covered(c)
        BY <3>2, <4>1 DEF BanInv
      <4>3. Covered(c)'
        BY <1>3, <4>2, StepKeepsCover
      <4> QED BY <3>1, <4>1, <4>3 DEF Covered, Cooling, BeingMarked
    <3>3. CASE ~banned'[Candidate(r)]
      BY <3>1, <3>3 DEF Covered
    <3> QED BY <3>1, <3>2, <3>3
  <2>2. CASE q # r
    <3>1. pc'[r] = pc[r] /\ order'[r] = order[r]
      BY <1>3, <2>2, OthersLeftAlone
    <3>2. Trusting(r) /\ Candidate(r)' = Candidate(r)
      BY <3>1 DEF Trusting, Candidate
    <3>3. PICK c \in Item : c = Candidate(r)
      BY <3>2, CandidateIsItem DEF Trusting, Examining, BanPlace
    <3>4. Covered(c)
      BY <3>2, <3>3 DEF BanInv
    <3>5. Covered(c)'
      BY <1>3, <3>4, StepKeepsCover
    <3> QED BY <3>2, <3>3, <3>5 DEF Covered, Cooling, BeingMarked
  <2> QED BY <2>1, <2>2
<1>4. CASE Operator
  <2>1. Trusting(r) /\ Candidate(r)' = Candidate(r)
    BY <1>4, OperatorLeavesRequests DEF Trusting, Candidate
  <2>2. PICK c \in Item : c = Candidate(r)
    BY <2>1, CandidateIsItem DEF Trusting, Examining, BanPlace
  <2>3. Covered(c)
    BY <2>1, <2>2 DEF BanInv
  <2>4. Covered(c)'
    BY <1>4, <2>3, OperatorKeepsCover
  <2> QED BY <2>1, <2>2, <2>4 DEF Covered, Cooling, BeingMarked
<1>5. CASE Tick
  BY <1>5 DEF Tick, Hurried, Trusting
<1>6. ASSUME NEW q \in Request, ClientLeaves(q) PROVE Covered(Candidate(r))'
  BY <1>1, <1>6 DEF ClientLeaves, poolVars, banVars, threads, Trusting
<1>7. ASSUME NEW q \in Request, Arrive(q) PROVE Covered(Candidate(r))'
  <2>1. q # r
    BY <1>7 DEF Arrive, Goto, Trusting, TypeInv, TypeOK
  <2>2. pc'[r] = pc[r] /\ order' = order
    BY <1>7, <2>1 DEF Arrive, Goto
  <2>3. \A i : BeingMarked(i) => BeingMarked(i)'
    BY <1>7, MarkingGoesOn DEF Arrive, SetCooldown, Goto
  <2> QED
    BY <1>7, <2>2, <2>3
       DEF BanInv, Covered, Cooling, Trusting, Candidate, Arrive, poolVars, banVars, threads
<1> QED BY <1>2, <1>3, <1>4, <1>5, <1>6, <1>7 DEF Next

LEMMA BanInvariant == Spec => []BanInv
<1>1. Init => BanInv
  BY DEF Init, BanInv, Trusting
<1> QED BY <1>1, BanInvStep, TypeInvariant, PTL DEF Spec

\* Only the second check hands out a slot.
LEMMA HandoutIsKeepLock ==
  ASSUME TypeInv, [Next]_vars, NEW r \in Request,
         pc[r] = "check", pc'[r] \in {"granted", "run"}
  PROVE  KeepLock(r)
<1> USE DEF TypeInv, TypeOK, Goto, Answer
<1>1. ASSUME NEW q \in Request, q # r, Step(q) PROVE pc'[r] = pc[r]
  BY <1>1, OthersLeftAlone
<1>2. CASE UNCHANGED vars
  BY <1>2 DEF vars, requestVars
<1>3. CASE Tick \/ Operator
  BY <1>3, OperatorLeavesRequests DEF Tick
<1>4. ASSUME NEW q \in Request, Arrive(q) \/ ClientLeaves(q) PROVE pc'[r] \in {pc[r], "snap"}
  BY <1>4 DEF Arrive, ClientLeaves
<1>5. CASE Step(r)
  BY <1>5 DEF Step, Acquire, Complete, AfterAttempt, Snapshot, NoAccounts, Consider, CheckBan,
       BanPlace, TryLock, PutLockBack, Exhausted, Granted, Start, Succeed, RaiseBan, SetFlag,
       SetCooldown, RaiseOther, StopCancelled, GiveSlotForWaf, Reacquire, AbandonReacquire,
       ReleaseFailed, Surface, FailOver, DecideSwitch, SwitchCurrent, Finish
<1> QED BY <1>1, <1>2, <1>3, <1>4, <1>5 DEF Next

\* acquire() never hands out an account whose ban stands, whatever the other requests
\* and the operator do between its two looks at the account, although no lock orders
\* their reads and writes of its marks (accounts.py, PooledAccount.banned, mark_banned
\* and clear_cooldown).
THEOREM NoBannedHandoutHolds == Spec => NoBannedHandout
<1>1. TypeInv /\ BanInv /\ [Next]_vars
        => [\A r \in Request :
              pc[r] = "check" /\ pc'[r] \in {"granted", "run"} => ~BanStands(cur[r])]_vars
  <2> SUFFICES ASSUME TypeInv, BanInv, [Next]_vars, NEW r \in Request,
                      pc[r] = "check", pc'[r] \in {"granted", "run"}
               PROVE  ~BanStands(cur[r])
    OBVIOUS
  <2>1. ~Cooling(cur[r])
    BY HandoutIsKeepLock DEF KeepLock, StillUsable
  <2>2. cur[r] = Candidate(r)
    BY DEF TypeInv, LocalInv
  <2>3. Covered(cur[r])
    BY <2>2 DEF BanInv, Trusting
  <2> QED BY <2>1, <2>3 DEF Covered, BanStands, Banned
<1> QED BY <1>1, TypeInvariant, BanInvariant, PTL DEF Spec, NoBannedHandout

-----------------------------------------------------------------------------
(* CURRENT                                                                 *)

\* Deleting an object that does not stand for CURRENT leaves CURRENT in the pool.
LEMMA RemovalKeepsOthers ==
  ASSUME TypeInv, NEW k \in DOMAIN pool, pool' = RemoveAt(pool, k),
         NEW a, AccountInPool(a), AccountOf[pool[k]] # a
  PROVE  AccountInPool(a)'
<1>1. pool \in Seq(Item) /\ Len(pool) \in Nat /\ DOMAIN pool = 1..Len(pool)
  BY LenProperties DEF TypeInv, TypeOK, PoolTypeOK
<1>2. PICK j \in DOMAIN pool : AccountOf[pool[j]] = a
  BY DEF AccountInPool, Members
<1> DEFINE front == SubSeq(pool, 1, k - 1)
           back == SubSeq(pool, k + 1, Len(pool))
           n == IF j < k THEN j ELSE j - 1
<1>3. \A i \in 1..Len(pool) : pool[i] \in Item
  BY <1>1, ElementOfSeq
<1>4. /\ front \in Seq(Item) /\ Len(front) = k - 1
      /\ \A i \in 1..(k - 1) : front[i] = pool[i]
  <2>1. \A i \in 1..(k - 1) : pool[i] \in Item
    BY <1>1, <1>3
  <2>2. /\ front \in Seq(Item)
        /\ Len(front) = IF 1 <= k - 1 THEN (k - 1) - 1 + 1 ELSE 0
        /\ \A i \in 1..((k - 1) - 1 + 1) : front[i] = pool[1 + i - 1]
    BY <1>1, <2>1, SubSeqProperties
  <2> HIDE DEF front
  <2> QED BY <1>1, <2>2
<1>5. /\ back \in Seq(Item) /\ Len(back) = Len(pool) - k
      /\ \A i \in 1..(Len(pool) - k) : back[i] = pool[k + i]
  <2>1. \A i \in (k + 1)..Len(pool) : pool[i] \in Item
    BY <1>1, <1>3
  <2>2. /\ back \in Seq(Item)
        /\ Len(back) = IF k + 1 <= Len(pool) THEN Len(pool) - (k + 1) + 1 ELSE 0
        /\ \A i \in 1..(Len(pool) - (k + 1) + 1) : back[i] = pool[(k + 1) + i - 1]
    BY <1>1, <2>1, SubSeqProperties
  <2>3. k \in 1..Len(pool) /\ Len(pool) - (k + 1) + 1 = Len(pool) - k
    BY <1>1
  <2> HIDE DEF back
  <2>4. Len(back) = Len(pool) - k
    BY <1>1, <2>2, <2>3
  <2>5. ASSUME NEW i \in 1..(Len(pool) - k) PROVE back[i] = pool[k + i]
    <3>1. i \in 1..(Len(pool) - (k + 1) + 1) /\ (k + 1) + i - 1 = k + i
      BY <1>1, <2>3
    <3> QED BY <2>2, <3>1
  <2> QED BY <2>2, <2>4, <2>5
<1>6. /\ Len(front \o back) = Len(front) + Len(back)
      /\ front \o back \in Seq(Item)
      /\ \A i \in 1..(Len(front) + Len(back)) :
           (front \o back)[i] = IF i <= Len(front) THEN front[i] ELSE back[i - Len(front)]
  <2> HIDE DEF front, back
  <2> QED BY <1>4, <1>5, ConcatProperties
<1>7. j # k
  BY <1>2
<1>8. pool' = front \o back
  BY DEF RemoveAt
<1>9. n \in DOMAIN pool' /\ pool'[n] = pool[j]
  <2> HIDE DEF front, back
  <2>1. /\ k \in 1..Len(pool) /\ j \in 1..Len(pool)
        /\ Len(front) + Len(back) = Len(pool) - 1
    BY <1>1, <1>2, <1>4, <1>5
  <2>2. DOMAIN pool' = 1..(Len(pool) - 1)
    BY <1>6, <1>8, <2>1, LenProperties
  <2>3. CASE j < k
    <3>1. n = j /\ n \in 1..(Len(pool) - 1) /\ n <= Len(front) /\ n \in 1..(k - 1)
      BY <1>1, <1>4, <2>1, <2>3
    <3>2. pool'[n] = front[n]
      BY <1>6, <1>8, <2>1, <3>1
    <3> QED BY <1>4, <2>2, <3>1, <3>2
  <2>4. CASE j > k
    <3>1. /\ n = j - 1 /\ n \in 1..(Len(pool) - 1)
          /\ ~(n <= Len(front)) /\ n - Len(front) = j - k
          /\ j - k \in 1..(Len(pool) - k) /\ k + (j - k) = j
      <4>1. Len(pool) \in Int /\ j \in Int /\ k \in Int /\ 1 <= k /\ j <= Len(pool)
        BY <1>1, <2>1
      <4>2. n = j - 1 /\ Len(front) = k - 1
        BY <1>4, <2>4, <4>1
      <4> HIDE DEF n
      <4>3. n \in 1..(Len(pool) - 1)
        BY <2>4, <4>1, <4>2
      <4>4. ~(n <= Len(front)) /\ n - Len(front) = j - k
        BY <2>4, <4>1, <4>2
      <4>5. j - k \in 1..(Len(pool) - k)
        BY <2>4, <4>1
      <4>6. k + (j - k) = j
        BY <4>1
      <4> QED BY <4>2, <4>3, <4>4, <4>5, <4>6
    <3>2. pool'[n] = back[n - Len(front)]
      BY <1>6, <1>8, <2>1, <3>1
    <3> QED BY <1>5, <2>2, <3>1, <3>2
  <2> QED BY <1>1, <1>7, <2>1, <2>3, <2>4
<1> QED BY <1>2, <1>9 DEF AccountInPool, Members

\* A CURRENT that names a pool account goes on doing so, and one that never did is
\* only ever replaced by one that does.
THEOREM CurrentStaysValidHolds == Spec => CurrentStaysValid
<1>1. TypeInv /\ [Next]_vars => [CurrentValid => CurrentValid']_vars
  <2> SUFFICES ASSUME TypeInv, [Next]_vars, CurrentValid PROVE CurrentValid'
    OBVIOUS
  <2>1. CASE UNCHANGED <<pool, current>>
    BY <2>1 DEF CurrentValid, AccountInPool, Members
  <2>2. ASSUME NEW a, SetCurrent(a), pool' = pool PROVE CurrentValid'
    BY <2>2 DEF SetCurrent, CurrentValid, AccountInPool, Members
  <2>3. ASSUME NEW r \in Request, Step(r) PROVE CurrentValid'
    <3>1. CASE SwitchCurrent(r)
      <4>1. PICK a : a = AccountOf[cur[r]]
        OBVIOUS
      <4> QED BY <2>2, <3>1, <4>1 DEF SwitchCurrent, SetCurrent, AccountInPool, Members
    <3>2. CASE ~SwitchCurrent(r)
      <4>1. UNCHANGED <<pool, current>>
        BY <2>3, <3>2 DEF Step, Acquire, Complete, AfterAttempt, Snapshot, NoAccounts, Consider,
             CheckBan, TryLock, KeepLock, PutLockBack, Exhausted, Granted, Start, Succeed,
             RaiseBan, SetFlag, SetCooldown, RaiseOther, StopCancelled, GiveSlotForWaf, Reacquire, AbandonReacquire,
             ReleaseFailed, Surface, FailOver, DecideSwitch, Finish, OnlyLock, OnlyMarks,
             poolVars
      <4> QED BY <2>1, <4>1
    <3> QED BY <3>1, <3>2
  <2>4. CASE Tick \/ (\E r \in Request : Arrive(r) \/ ClientLeaves(r)) \/ UNCHANGED vars
    <3>1. UNCHANGED <<pool, current>>
      BY <2>4 DEF Tick, TickPool, Arrive, ClientLeaves, poolVars, vars
    <3> QED BY <2>1, <3>1
  <2>5. ASSUME NEW a \in Account \cup {NoAccount}, SelectAccount(a) PROVE CurrentValid'
    BY <2>2, <2>5 DEF SelectAccount
  <2>6. CASE \/ \E S \in {Item} \cup {{i} : i \in Item} : Unblock(S)
             \/ \E k \in DOMAIN pool : ClearStep(k)
             \/ \E i \in Members : ReadStatus(i)
             \/ \E i \in Item, to \in Reading : StatusStep(i, to)
    BY <2>1, <2>6 DEF Unblock, ClearStep, ReadStatus, StatusStep, OnlyMarks
  <2>7. ASSUME NEW i \in Item, AddAccount(i) PROVE CurrentValid'
    <3>1. /\ Len(pool) + 1 \in DOMAIN pool'
          /\ pool'[Len(pool) + 1] = i
      BY <2>7, AppendProperties, LenProperties DEF AddAccount, Add, TypeInv, TypeOK, PoolTypeOK
    <3> QED BY <2>7, <3>1 DEF AddAccount, CurrentValid, AccountInPool, Members
  <2>8. ASSUME NEW k \in DOMAIN pool, RemoveAccount(k) PROVE CurrentValid'
    <3>1. CASE AccountOf[pool[k]] = current
      BY <2>8, <3>1 DEF RemoveAccount, RemoveItem, CurrentValid
    <3>2. CASE AccountOf[pool[k]] # current
      <4>1. PICK a : a = current
        OBVIOUS
      <4>2. a = NoAccount \/ AccountInPool(a)'
        BY <2>8, <3>2, <4>1, RemovalKeepsOthers DEF RemoveAccount, RemoveItem, CurrentValid
      <4>3. current' = a
        BY <2>8, <3>2, <4>1 DEF RemoveAccount, RemoveItem
      <4> QED BY <4>2, <4>3 DEF CurrentValid, AccountInPool, Members
    <3> QED BY <3>1, <3>2
  <2> QED BY <2>3, <2>4, <2>5, <2>6, <2>7, <2>8 DEF Next, Operator
<1> QED BY <1>1, TypeInvariant, PTL DEF Spec, CurrentStaysValid

-----------------------------------------------------------------------------
(* No return after a 401                                                   *)

(***************************************************************************)
(* While a request looks for another slot after a 401, the object that     *)
(* answered it cools down for longer than the request will wait, unless    *)
(* somebody cuts that short; so it is never a candidate found usable.      *)
(***************************************************************************)
Returning(r) ==
  /\ Acquiring(r)
  /\ refused[r] \in Item
  /\ loc[r].left <= FailoverTicks
  /\ badLeft[refused[r]] > loc[r].left
  /\ Examining(r) => Candidate(r) # refused[r]

ReturnInv == \A r \in Request : refused[r] # None => Returning(r)

\* After a step, r goes on avoiding the object, which still cools down long enough.
StillRefused(r) ==
  /\ refused'[r] = refused[r] /\ refused[r] \in Item
  /\ \/ badLeft'[refused[r]] >= badLeft[refused[r]]
     \/ badLeft'[refused[r]] > FailoverTicks

LEMMA TimesAreNat ==
  ASSUME TypeInv
  PROVE  /\ FailoverTicks \in Nat /\ InvalidTicks \in Nat
         /\ badLeft \in [Item -> Nat]
         /\ refused \in [Request -> Item \cup {None}]
         /\ \A r \in Request : loc[r].left \in Nat
BY RequestAssumption DEF TypeInv, TypeOK, PoolTypeOK, Local

\* A step that forgives those it helps, and shortens no other cooldown.
LEMMA ForgivingKeepsRefusals ==
  ASSUME TypeInv, TypeInv', NEW i, Forgiving(i),
         \A j \in Item \ {i} : badLeft'[j] = badLeft[j],
         NEW r \in Request, refused'[r] # None
  PROVE  StillRefused(r)
<1>1. /\ refused'[r] = refused[r]
      /\ ~(refused[r] = i /\ badLeft'[i] < badLeft[i])
  BY DEF Forgiving
<1>2. /\ refused[r] \in Item
      /\ badLeft'[refused[r]] \in Nat /\ badLeft[refused[r]] \in Nat
  BY <1>1, TimesAreNat DEF TypeInv, TypeOK, PoolTypeOK
<1>3. CASE refused[r] = i
  BY <1>1, <1>2, <1>3 DEF StillRefused
<1>4. CASE refused[r] # i
  BY <1>1, <1>2, <1>4 DEF StillRefused
<1> QED BY <1>3, <1>4

LEMMA ReadBanChangesOne ==
  ASSUME TypeInv, NEW i, NEW from, NEW to, ReadBan(i, from, to)
  PROVE  \A j \in Item \ {i} : badLeft'[j] = badLeft[j]
BY DEF ReadBan, banVars, TypeInv, TypeOK, PoolTypeOK

\* Every step of a request, but its own failover, leaves refusals standing.
LEMMA StepKeepsRefusals ==
  ASSUME TypeInv, TypeInv', InvalidTicks > FailoverTicks,
         NEW q \in Request, Step(q), NEW r \in Request, refused'[r] # None,
         ~(q = r /\ FailOver(q))
  PROVE  StillRefused(r)
<1> USE TimesAreNat
<1>1. CASE ~MarkingStep(q)
  <2>1. refused'[r] = refused[r] /\ badLeft' = badLeft
    BY <1>1, OtherStepsMarkNothing
  <2> QED BY <2>1 DEF StillRefused
<1>2. ASSUME NEW to \in Reading, CheckBan(q, to) PROVE StillRefused(r)
  BY <1>2, ReadBanChangesOne, ForgivingKeepsRefusals DEF CheckBan
<1>3. CASE SetFlag(q) \/ \E until \in BanTicks \cup {NoExpiry} : RaiseBan(q, until)
  <2>1. UNCHANGED <<badLeft, refused>>
    BY <1>3 DEF SetFlag, RaiseBan, MarkFlag, MarkEnd
  <2> QED BY <2>1 DEF StillRefused
<1>4. CASE SetCooldown(q)
  BY <1>4, ForgivingKeepsRefusals DEF SetCooldown, MarkCooldown
<1>5. CASE FailOver(q)
  <2>1. refused'[r] = refused[r]
    BY <1>5 DEF FailOver
  <2>2. badLeft' = badLeft \/ badLeft' = [badLeft EXCEPT ![cur[q]] = InvalidTicks]
    BY <1>5 DEF FailOver, MarkBad, banVars
  <2> QED BY <2>1, <2>2 DEF StillRefused
<1> QED BY <1>1, <1>2, <1>3, <1>4, <1>5 DEF MarkingStep

LEMMA OperatorKeepsRefusals ==
  ASSUME TypeInv, TypeInv', Operator, NEW r \in Request, refused'[r] # None
  PROVE  StillRefused(r)
<1>1. CASE UNCHANGED <<badLeft, refused>>
  BY <1>1, TimesAreNat DEF StillRefused
<1>2. ASSUME NEW k \in DOMAIN pool, ClearStep(k) PROVE StillRefused(r)
  <2>1. \A j \in Item \ {pool[k]} : badLeft'[j] = badLeft[j]
    BY <1>2, TimesAreNat DEF ClearStep, ClearNext, Reset
  <2> QED BY <1>2, <2>1, ForgivingKeepsRefusals DEF ClearStep
<1>3. ASSUME NEW i \in Item, NEW to \in Reading, StatusStep(i, to) PROVE StillRefused(r)
  BY <1>3, ReadBanChangesOne, ForgivingKeepsRefusals DEF StatusStep
<1> QED
  BY <1>1, <1>2, <1>3
     DEF Operator, SelectAccount, Unblock, AddAccount, RemoveAccount, ReadStatus, Add, RemoveItem,
         banVars, requestVars

\* A request that is left alone goes on avoiding the object.
LEMMA ReturningKept ==
  ASSUME TypeInv, TypeInv', NEW r \in Request, Returning(r), StillRefused(r),
         pc'[r] = pc[r], order'[r] = order[r], loc'[r] = loc[r]
  PROVE  Returning(r)'
<1>1. /\ badLeft[refused[r]] > loc[r].left /\ loc[r].left <= FailoverTicks
      /\ loc[r].left \in Nat /\ FailoverTicks \in Nat
      /\ badLeft[refused[r]] \in Nat
  BY TimesAreNat DEF Returning
<1>2. badLeft'[refused[r]] > loc[r].left
  <2>1. badLeft'[refused[r]] \in Nat
    BY DEF Returning, TypeInv, TypeOK, PoolTypeOK
  <2> QED BY <1>1, <2>1 DEF StillRefused
<1>3. Examining(r)' => Candidate(r)' # refused'[r]
  BY DEF Returning, StillRefused, Examining, Candidate
<1> QED BY <1>1, <1>2, <1>3 DEF Returning, StillRefused, Acquiring

\* A request's own steps, the failover apart.
LEMMA OwnStepReturns ==
  ASSUME TypeInv, TypeInv', ReturnInv, InvalidTicks > FailoverTicks,
         NEW r \in Request, Step(r), ~FailOver(r), refused'[r] # None
  PROVE  Returning(r)'
<1> USE DEF Goto, Skip, Answer
<1>1. StillRefused(r) /\ Returning(r)
  BY StepKeepsRefusals, RequestAssumption DEF StillRefused, ReturnInv
<1>2. /\ pc \in [Request -> PC] /\ order \in [Request -> Seq(Item)]
      /\ loc[r].left \in Nat /\ FailoverTicks \in Nat /\ badLeft[refused[r]] \in Nat
  BY <1>1, TimesAreNat DEF TypeInv, TypeOK, Returning
<1>3. badLeft'[refused[r]] > loc[r].left
  <2>1. badLeft'[refused[r]] \in Nat
    BY <1>1 DEF Returning, TypeInv, TypeOK, PoolTypeOK
  <2> QED BY <1>1, <1>2, <2>1 DEF StillRefused, Returning
<1>4. Acquire(r)
  BY <1>1, <1>2 DEF Returning, Acquiring, BanPlace, Step, Complete, AfterAttempt, Granted, Start,
     Succeed, RaiseBan, SetFlag, SetCooldown, RaiseOther, StopCancelled, GiveSlotForWaf,
     Reacquire, AbandonReacquire, ReleaseFailed, Surface, FailOver, DecideSwitch,
     SwitchCurrent, Finish
<1>5. ASSUME Acquiring(r)', loc'[r] = loc[r], Examining(r)' => Candidate(r)' # refused[r]
      PROVE  Returning(r)'
  BY <1>1, <1>2, <1>3, <1>5 DEF Returning, StillRefused
<1>6. CASE Snapshot(r)
  <2>1. pc'[r] = "scan" /\ loc' = loc
    BY <1>2, <1>6 DEF Snapshot
  <2> QED BY <1>5, <2>1 DEF Acquiring, Examining, BanPlace
<1>7. CASE NoAccounts(r) \/ KeepLock(r)
  BY <1>7, TimesAreNat DEF NoAccounts, KeepLock
<1>8. CASE Consider(r)
  <2>1. loc' = loc /\ pc'[r] \in {"scan", "flag"}
    BY <1>2, <1>8 DEF Consider
  <2>2. CASE pc'[r] = "scan"
    BY <1>5, <2>1, <2>2 DEF Acquiring, Examining, BanPlace
  <2>3. CASE pc'[r] = "flag"
    <3>1. ~Cooling(Candidate(r)) /\ order' = order
      BY <1>2, <1>8, <2>3 DEF Consider
    <3>2. Candidate(r) # refused[r]
      BY <1>1, <1>2, <3>1 DEF Cooling, Returning
    <3> QED BY <1>5, <2>1, <2>3, <3>1, <3>2 DEF Acquiring, BanPlace, Candidate
  <2> QED BY <2>1, <2>2, <2>3
<1>9. ASSUME NEW to \in Reading, CheckBan(r, to) PROVE Returning(r)'
  <2>1. /\ loc' = loc /\ Examining(r)
        /\ pc'[r] \in {"try", "end", "unflag", "unend", "uncool", "scan"}
        /\ pc'[r] # "scan" => order' = order
    BY <1>2, <1>9, ReadBanPlaces DEF CheckBan, BanPlace, Examining
  <2>2. Examining(r)' => Candidate(r)' # refused[r]
    BY <1>1, <2>1 DEF Returning, Examining, BanPlace, Candidate
  <2> QED BY <1>5, <2>1, <2>2 DEF Acquiring, BanPlace
<1>10. CASE TryLock(r)
  <2>1. /\ loc' = loc /\ Examining(r) /\ pc'[r] \in {"check", "scan"}
        /\ pc'[r] = "check" => order' = order
    BY <1>2, <1>10 DEF TryLock, Examining
  <2>2. Examining(r)' => Candidate(r)' # refused[r]
    BY <1>1, <2>1 DEF Returning, Examining, BanPlace, Candidate
  <2> QED BY <1>5, <2>1, <2>2 DEF Acquiring
<1>11. CASE PutLockBack(r)
  <2>1. loc' = loc /\ pc'[r] = "scan"
    BY <1>2, <1>11 DEF PutLockBack
  <2> QED BY <1>5, <2>1 DEF Acquiring, Examining, BanPlace
<1>12. CASE Exhausted(r)
  <2>1. loc' = loc /\ pc'[r] = "snap"
    BY <1>2, <1>12, TimesAreNat DEF Exhausted
  <2> QED BY <1>5, <2>1 DEF Acquiring, Examining, BanPlace
<1> QED BY <1>4, <1>6, <1>7, <1>8, <1>9, <1>10, <1>11, <1>12 DEF Acquire

LEMMA FailOverReturns ==
  ASSUME TypeInv, ReturnInv, InvalidTicks > FailoverTicks,
         NEW r \in Request, FailOver(r), refused'[r] # None
  PROVE  Returning(r)'
<1>1. /\ pc[r] = "decide" /\ pc'[r] = "snap" /\ cur[r] \in Item
      /\ loc' = [loc EXCEPT ![r].failed = IF InFailover(r) THEN loc[r].failed ELSE cur[r],
                            ![r].tries = loc[r].tries + 1, ![r].left = FailoverTicks]
      /\ loc \in [Request -> Local]
  BY DEF FailOver, Goto, TypeInv, TypeOK, LocalInv, Engaged
<1>2. loc'[r].left = FailoverTicks
  BY <1>1 DEF Local
<1>3. refused[r] = None
  BY <1>1 DEF ReturnInv, Returning, Acquiring, BanPlace
<1>4. /\ badLeft' = [badLeft EXCEPT ![cur[r]] = InvalidTicks]
      /\ refused' = [refused EXCEPT ![r] = cur[r]]
  BY <1>3 DEF FailOver, MarkBad
<1>5. refused'[r] = cur[r] /\ badLeft'[cur[r]] = InvalidTicks
  BY <1>1, <1>4, TimesAreNat
<1> QED
  BY <1>1, <1>2, <1>5, TimesAreNat DEF Returning, Acquiring, Examining, BanPlace

\* Time passes for the cooldown and for the request alike.
LEMMA TickReturns ==
  ASSUME TypeInv, ReturnInv, Tick, NEW r \in Request, refused'[r] # None
  PROVE  Returning(r)'
<1>1. /\ UNCHANGED <<pc, order, refused>>
      /\ badLeft' = [i \in Item |-> Countdown(badLeft[i])]
      /\ loc' = [q \in Request |-> [loc[q] EXCEPT !.left = Countdown(loc[q].left)]]
      /\ Acquiring(r) => loc[r].left > 0
  BY DEF Tick, TickPool
<1>2. Returning(r) /\ loc[r] \in Local
  BY <1>1 DEF ReturnInv, TypeInv, TypeOK
<1>3. loc'[r].left = Countdown(loc[r].left)
  BY <1>1, <1>2 DEF Local
<1>4. badLeft'[refused[r]] = Countdown(badLeft[refused[r]])
  BY <1>1, <1>2 DEF Returning
<1>5. /\ loc'[r].left <= FailoverTicks
      /\ badLeft'[refused[r]] > loc'[r].left
  BY <1>1, <1>2, <1>3, <1>4, TimesAreNat DEF Returning, Countdown
<1> QED
  BY <1>1, <1>2, <1>5 DEF Returning, Acquiring, Examining, Candidate

LEMMA ReturnInvStep ==
  ASSUME TypeInv, TypeInv', ReturnInv, InvalidTicks > FailoverTicks, [Next]_vars
  PROVE  ReturnInv'
<1> SUFFICES ASSUME NEW r \in Request, refused'[r] # None PROVE Returning(r)'
  BY DEF ReturnInv
<1>1. CASE UNCHANGED <<pc, order, loc, refused, badLeft>>
  BY <1>1 DEF ReturnInv, Returning, Acquiring, Examining, Candidate
<1>2. ASSUME NEW q \in Request, Step(q), q # r PROVE Returning(r)'
  <2>1. StillRefused(r)
    BY <1>2, StepKeepsRefusals
  <2> QED BY <1>2, <2>1, OthersLeftAlone, ReturningKept DEF ReturnInv, StillRefused
<1>3. CASE Step(r)
  BY <1>3, OwnStepReturns, FailOverReturns
<1>4. CASE Operator
  <2>1. StillRefused(r)
    BY <1>4, OperatorKeepsRefusals
  <2> QED BY <1>4, <2>1, OperatorLeavesRequests, ReturningKept DEF ReturnInv, StillRefused
<1>5. ASSUME NEW q \in Request, ClientLeaves(q) PROVE Returning(r)'
  BY <1>1, <1>5 DEF ClientLeaves, poolVars, banVars
<1>6. ASSUME NEW q \in Request, Arrive(q) PROVE Returning(r)'
  <2>1. UNCHANGED <<refused, badLeft>>
    BY <1>6 DEF Arrive, poolVars, banVars
  <2>2. q # r
    BY <1>6, <2>1 DEF Arrive, Goto, ReturnInv, Returning, Acquiring, BanPlace
  <2>3. StillRefused(r)
    BY <2>1, TimesAreNat DEF StillRefused
  <2> QED BY <1>6, <2>1, <2>2, <2>3, OthersLeftAlone, ReturningKept DEF ReturnInv
<1> QED
  BY <1>1, <1>2, <1>3, <1>4, <1>5, <1>6, TickReturns
     DEF Next, vars, poolVars, banVars, requestVars

LEMMA ReturnInvariant ==
  ASSUME InvalidTicks > FailoverTicks
  PROVE  Spec => []ReturnInv
<1>1. Init => ReturnInv
  BY DEF Init, ReturnInv
<1>2. TypeInv /\ TypeInv' /\ ReturnInv /\ [Next]_vars => ReturnInv'
  BY ReturnInvStep
<1> QED
  BY <1>1, <1>2, TypeInvariant, PTL DEF Spec

\* Only TryLock takes a lock in a scan.
LEMMA TryEndsInTryLock ==
  ASSUME TypeInv, [Next]_vars, NEW r \in Request, pc[r] = "try", pc'[r] = "check"
  PROVE  TryLock(r)
<1>1. PICK q \in Request : Step(q) \/ Arrive(q) \/ ClientLeaves(q)
  BY OperatorLeavesRequests DEF Next, vars, requestVars, Tick
<1>2. q = r
  BY <1>1, OthersLeftAlone
<1> QED
  BY <1>1, <1>2 DEF TypeInv, TypeOK, Step, Acquire, Complete, AfterAttempt, Snapshot, NoAccounts,
     Consider, CheckBan, BanPlace, KeepLock, PutLockBack, Exhausted, Granted, Start, Succeed,
     RaiseBan, SetFlag, SetCooldown, RaiseOther, StopCancelled, GiveSlotForWaf, Reacquire,
     AbandonReacquire, ReleaseFailed, Surface, FailOver, DecideSwitch, SwitchCurrent, Finish,
     Arrive, ClientLeaves, Goto, Answer

\* A request that has failed over from a 401 does not take the slot of the account that
\* answered it again, though it released that slot before it cooled the account down
\* (completion_service.py, _complete_with_failover_sync): the 60 s of the cooldown
\* outlast the 10 s a failover waits.
THEOREM NoReturnAfter401Holds ==
  ASSUME InvalidTicks > FailoverTicks
  PROVE  Spec => NoReturnAfter401
<1>1. TypeInv /\ ReturnInv /\ [Next]_vars
        => [\A r \in Request :
              pc[r] = "try" /\ pc'[r] = "check" /\ refused[r] # None
                => cur'[r] # refused[r]]_vars
  <2> SUFFICES ASSUME TypeInv, ReturnInv, [Next]_vars, NEW r \in Request,
                      pc[r] = "try", pc'[r] = "check", refused[r] # None
               PROVE  cur'[r] # refused[r]
    OBVIOUS
  <2>1. TryLock(r)
    BY TryEndsInTryLock
  <2>2. cur'[r] = Candidate(r)
    BY <2>1 DEF TryLock, Goto, TypeInv, TypeOK
  <2>3. Candidate(r) # refused[r]
    BY DEF ReturnInv, Returning, Examining
  <2> QED
    BY <2>2, <2>3
<1> QED
  BY <1>1, ReturnInvariant, TypeInvariant, PTL DEF Spec, NoReturnAfter401
=============================================================================
