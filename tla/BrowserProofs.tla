---------------------------- MODULE BrowserProofs ----------------------------
(***************************************************************************)
(* Theorems about BrowserProfile, for any number of threads that warm up   *)
(* or log in, and of their calls; about LoginPage, for any readings; and   *)
(* about McpClient, for any number of threads and of requests.             *)
(***************************************************************************)
EXTENDS BrowserProfile, LoginPage, McpClient, FiniteSetTheorems, TLAPS

\* The places inside profile_lock, and those of them with a process.
Running == {"pass1_runs", "dump_runs", "agent_runs", "init", "session"}
Holding == Running \cup {"pass1", "dump", "agent", "store", "locked", "closed"}

\* The places of a leader, from the registration of its event to the finally.
Leading == {"lead", "pass1", "pass1_runs", "dump", "dump_runs", "agent", "agent_runs", "store",
            "publish"}

\* The part of the types that the invariant needs.
PlacesOK ==
  /\ profileLock \in User \cup {NoUser}
  /\ browsers \subseteq User
  /\ inflight \in Warmer \cup {NoUser}
  /\ place \in [User -> ProfilePlaces]

\* A process runs under the lock, which is its user's.
LockInv ==
  /\ \A u \in User : place[u] \in Holding <=> profileLock = u
  /\ \A u \in User : u \in browsers <=> place[u] \in Running

\* The leader is the thread whose event is registered.
FlightInv == \A w \in User : place[w] \in Leading <=> inflight = w

ProfileInv == PlacesOK /\ LockInv /\ FlightInv

LEMMA ProfileInitInv == ProfileInit => ProfileInv
BY ProfileAssumption DEF ProfileInit, ProfileInv, PlacesOK, LockInv, FlightInv, Holding, Running,
   Leading, ProfilePlaces, User

-----------------------------------------------------------------------------
(* Every step keeps the invariant                                          *)

\* One thread goes on: it takes the lock, and the flight, only from nobody, gives
\* them up when it leaves, and has a process where the code runs one.
LEMMA StepInv ==
  ASSUME ProfileInv, NEW u \in User, NEW from, NEW to \in ProfilePlaces, Step(u, from, to),
         to \in Leading => u \in Warmer,
         from \notin Holding /\ to \in Holding => profileLock = NoUser,
         from \notin Leading /\ to \in Leading => inflight = NoUser,
         profileLock' = IF to \in Holding THEN u
                        ELSE IF from \in Holding THEN NoUser ELSE profileLock,
         browsers' = IF to \in Running THEN browsers \cup {u} ELSE browsers \ {u},
         inflight' = IF to \in Leading THEN u
                     ELSE IF from \in Leading THEN NoUser ELSE inflight
  PROVE  ProfileInv'
<1>1. /\ place[u] = from /\ place'[u] = to
      /\ \A v \in User \ {u} : place'[v] = place[v]
      /\ place' \in [User -> ProfilePlaces]
  BY DEF Step, ProfileInv, PlacesOK
<1>2. PlacesOK'
  BY <1>1 DEF ProfileInv, PlacesOK
<1>3. ASSUME NEW v \in User PROVE place'[v] \in Holding <=> profileLock' = v
  <2>1. from \in Holding <=> profileLock = u
    BY <1>1 DEF ProfileInv, LockInv
  <2>2. v # u => (place'[v] \in Holding <=> profileLock = v)
    BY <1>1 DEF ProfileInv, LockInv
  <2>3. v # NoUser /\ u # NoUser
    BY ProfileAssumption
  <2> QED
    BY <1>1, <2>1, <2>2, <2>3
<1>4. ASSUME NEW v \in User PROVE v \in browsers' <=> place'[v] \in Running
  BY <1>1 DEF ProfileInv, LockInv
<1>5. ASSUME NEW v \in User PROVE place'[v] \in Leading <=> inflight' = v
  <2>1. from \in Leading <=> inflight = u
    BY <1>1 DEF ProfileInv, FlightInv
  <2>2. v # u => (place'[v] \in Leading <=> inflight = v)
    BY <1>1 DEF ProfileInv, FlightInv
  <2>3. v # NoUser /\ u # NoUser
    BY ProfileAssumption
  <2> QED
    BY <1>1, <2>1, <2>2, <2>3
<1> QED
  BY <1>2, <1>3, <1>4, <1>5 DEF ProfileInv, LockInv, FlightInv

\* What the place of a thread says of the lock, its process and the flight.
LEMMA AtPlace ==
  ASSUME ProfileInv, NEW u \in User
  PROVE  /\ place[u] \in Holding => profileLock = u
         /\ place[u] \in Leading => inflight = u
         /\ place[u] \in Running <=> u \in browsers
BY DEF ProfileInv, LockInv, FlightInv

LEMMA WarmupInv == ASSUME ProfileInv, NEW w \in Warmer, Warmup(w) PROVE ProfileInv'
<1>1. w \in User /\ w \notin browsers
  BY AtPlace DEF Warmup, BeginCall, Step, User, Running
<1>2. PICK to \in {"idle", "follow", "lead"} : Step(w, "idle", to)
  BY DEF Warmup, BeginCall
<1>3. /\ UNCHANGED <<profileLock, browsers>>
      /\ to # "lead" => UNCHANGED inflight
      /\ to = "lead" => inflight = NoUser /\ inflight' = w
  BY <1>1, <1>2 DEF Warmup, BeginCall, Step, ProfileInv, PlacesOK
<1> QED
  BY <1>1, <1>2, <1>3, StepInv DEF Holding, Running, Leading, ProfilePlaces

LEMMA WarmupStepInv == ASSUME ProfileInv, NEW w \in Warmer, WarmupStep(w) PROVE ProfileInv'
<1>0. w \in User
  BY DEF User
<1>1. CASE FollowerTimesOut(w)
  <2>1. w \notin browsers /\ Step(w, "follow", "idle")
    BY <1>0, <1>1, AtPlace DEF FollowerTimesOut, Step, Running
  <2> QED
    BY <1>0, <1>1, <2>1, StepInv DEF FollowerTimesOut, Holding, Running, Leading, ProfilePlaces,
       Flight
<1>2. CASE LeaderLocks(w)
  <2>1. w \notin browsers /\ Step(w, "lead", "pass1") /\ inflight = w
    BY <1>0, <1>2, AtPlace DEF LeaderLocks, Step, Running, Leading
  <2> QED
    BY <1>0, <1>2, <2>1, StepInv DEF LeaderLocks, Holding, Running, Leading, ProfilePlaces
<1>3. CASE StartRun(w)
  <2>1. PICK from \in {"pass1", "dump", "agent"}, to \in {"pass1_runs", "dump_runs", "agent_runs"} :
          Step(w, from, to)
    BY <1>3 DEF StartRun
  <2>2. profileLock = w /\ inflight = w
    BY <1>0, <2>1, AtPlace DEF Step, Holding, Running, Leading
  <2> QED
    BY <1>0, <1>3, <2>1, <2>2, StepInv DEF StartRun, Holding, Running, Leading, ProfilePlaces, Flight
<1>4. CASE EndRun(w)
  <2>1. PICK from \in {"pass1_runs", "dump_runs"}, to \in {"dump", "agent"} : Step(w, from, to)
    BY <1>4 DEF EndRun
  <2>2. profileLock = w /\ inflight = w
    BY <1>0, <2>1, AtPlace DEF Step, Holding, Running, Leading
  <2> QED
    BY <1>0, <1>4, <2>1, <2>2, StepInv DEF EndRun, Holding, Running, Leading, ProfilePlaces
<1>5. CASE AgentKnown(w)
  <2>1. PICK from \in {"agent", "agent_runs"} : Step(w, from, "store")
    BY <1>5 DEF AgentKnown
  <2>2. profileLock = w /\ inflight = w
    BY <1>0, <2>1, AtPlace DEF Step, Holding, Running, Leading
  <2> QED
    BY <1>0, <1>5, <2>1, <2>2, StepInv DEF AgentKnown, Holding, Running, Leading, ProfilePlaces,
       Flight
<1>6. CASE Store(w)
  <2>1. w \notin browsers /\ Step(w, "store", "publish") /\ inflight = w
    BY <1>0, <1>6, AtPlace DEF Store, Step, Running, Leading
  <2> QED
    BY <1>0, <1>6, <2>1, StepInv DEF Store, Holding, Running, Leading, ProfilePlaces, Flight
<1>7. CASE Publish(w)
  <2>1. /\ place[w] = "publish" /\ inflight = w /\ inflight' = NoUser
        /\ UNCHANGED <<profileLock, browsers>>
    BY <1>0, <1>7, AtPlace DEF Publish, Leading
  <2>2. /\ place' \in [User -> ProfilePlaces]
        /\ \A u \in User : \/ place'[u] = place[u] /\ u # w
                           \/ place'[u] = "idle" /\ place[u] \in {"publish", "follow"}
    BY <1>7, <2>1 DEF Publish, ProfileInv, PlacesOK, ProfilePlaces
  <2>3. LockInv'
    BY <2>1, <2>2 DEF ProfileInv, LockInv, Holding, Running
  <2>4. \A u \in User : u # NoUser /\ (u # w => place[u] \notin Leading)
    BY <1>0, <2>1, ProfileAssumption DEF ProfileInv, FlightInv
  <2>5. FlightInv'
    BY <2>1, <2>2, <2>4 DEF FlightInv, Leading
  <2> QED
    BY <2>1, <2>2, <2>3, <2>5 DEF ProfileInv, PlacesOK
<1> QED
  BY <1>1, <1>2, <1>3, <1>4, <1>5, <1>6, <1>7 DEF WarmupStep

LEMMA LoginThreadInv ==
  ASSUME ProfileInv, NEW l \in LoginThread, Login(l) \/ LoginStep(l)
  PROVE  ProfileInv'
<1>0. l \in User /\ UNCHANGED inflight
  BY DEF User, Login, LoginStep, LoginLocks, LoginGivesUp, StartBrowser, Initialise, Close, Unlock,
     Flight
<1>1. CASE Login(l)
  <2>1. l \notin browsers /\ Step(l, "idle", "queue") /\ UNCHANGED <<profileLock, browsers>>
    BY <1>0, <1>1, AtPlace DEF Login, BeginCall, Step, Running
  <2> QED
    BY <1>0, <2>1, StepInv DEF Holding, Running, Leading, ProfilePlaces
<1>2. CASE LoginLocks(l)
  <2>1. l \notin browsers /\ Step(l, "queue", "locked")
    BY <1>0, <1>2, AtPlace DEF LoginLocks, Step, Running
  <2> QED
    BY <1>0, <1>2, <2>1, StepInv DEF LoginLocks, Holding, Running, Leading, ProfilePlaces
<1>3. CASE LoginGivesUp(l)
  <2>1. l \notin browsers /\ Step(l, "queue", "idle")
    BY <1>0, <1>3, AtPlace DEF LoginGivesUp, Step, Running
  <2> QED
    BY <1>0, <1>3, <2>1, StepInv DEF LoginGivesUp, Holding, Running, Leading, ProfilePlaces
<1>4. CASE StartBrowser(l)
  <2>1. /\ profileLock = l /\ l \notin browsers
        /\ \/ Step(l, "locked", "init") /\ browsers' = browsers \cup {l}
           \/ Step(l, "locked", "closed") /\ browsers' = browsers
        /\ UNCHANGED profileLock
    BY <1>0, <1>4, AtPlace DEF StartBrowser, Step, Holding, Running
  <2> QED
    BY <1>0, <2>1, StepInv DEF Holding, Running, Leading, ProfilePlaces
<1>5. CASE Initialise(l)
  <2>1. /\ profileLock = l /\ l \in browsers
        /\ \/ Step(l, "init", "session") /\ browsers' = browsers
           \/ Step(l, "init", "closed") /\ browsers' = browsers \ {l}
        /\ UNCHANGED profileLock
    BY <1>0, <1>5, AtPlace DEF Initialise, Step, Holding, Running
  <2> QED
    BY <1>0, <2>1, StepInv DEF Holding, Running, Leading, ProfilePlaces
<1>6. CASE Close(l)
  <2>1. profileLock = l /\ Step(l, "session", "closed")
    BY <1>0, <1>6, AtPlace DEF Close, Step, Holding, Running
  <2> QED
    BY <1>0, <1>6, <2>1, StepInv DEF Close, Holding, Running, Leading, ProfilePlaces
<1>7. CASE Unlock(l)
  <2>1. l \notin browsers /\ Step(l, "closed", "idle")
    BY <1>0, <1>7, AtPlace DEF Unlock, Step, Running
  <2> QED
    BY <1>0, <1>7, <2>1, StepInv DEF Unlock, Holding, Running, Leading, ProfilePlaces
<1> QED
  BY <1>1, <1>2, <1>3, <1>4, <1>5, <1>6, <1>7 DEF LoginStep

LEMMA ProfileNextInv == ASSUME ProfileInv, [ProfileNext]_profileVars PROVE ProfileInv'
<1>1. CASE UNCHANGED <<profileLock, browsers, inflight, place>>
  BY <1>1 DEF ProfileInv, PlacesOK, LockInv, FlightInv
<1> QED
  BY <1>1, WarmupInv, WarmupStepInv, LoginThreadInv DEF ProfileNext, SkipWindowEnds, Flight, profileVars

LEMMA ProfileInvHolds == ProfileSpec => []ProfileInv
BY ProfileInitInv, ProfileNextInv, PTL DEF ProfileSpec

-----------------------------------------------------------------------------
(* Theorems                                                                *)

\* However many warmups and logins queue for a profile, one of them at a time has
\* a process on it (profile_lock in warmup() and BrowserLogin.run).
THEOREM OneBrowserPerProfileHolds == ProfileSpec => []OneBrowserPerProfile
<1>1. ASSUME ProfileInv PROVE OneBrowserPerProfile
  <2>1. browsers \subseteq {profileLock}
    BY <1>1 DEF ProfileInv, PlacesOK, LockInv, Holding
  <2>2. IsFiniteSet({profileLock}) /\ Cardinality({profileLock}) = 1
    BY FS_Singleton
  <2>3. Cardinality(browsers) <= Cardinality({profileLock})
    BY <2>1, <2>2, FS_Subset
  <2> QED
    BY <2>2, <2>3 DEF OneBrowserPerProfile
<1> QED
  BY <1>1, ProfileInvHolds, PTL

\* Of the threads inside a warmup one at most does its work; the others wait for
\* it (_warm_inflight, the singleflight of warmup()).
OneLeader == \A v, w \in Warmer : place[v] \in Leading /\ place[w] \in Leading => v = w

THEOREM OneLeaderHolds == ProfileSpec => []OneLeader
<1>1. ProfileInv => OneLeader
  BY DEF ProfileInv, FlightInv, OneLeader, User
<1> QED
  BY <1>1, ProfileInvHolds, PTL

\* Until its process has failed to be initialised, or was closed, a call has left none
\* behind; the calls of the login threads from there on bound the orphans.
Unsettled == {"queue", "locked", "init", "session"}
Settled == {c \in LoginThread \X (1..MaxCalls) :
              c[2] <= calls[c[1]] /\ (c[2] = calls[c[1]] => place[c[1]] \notin Unsettled)}

OrphanInv ==
  /\ orphans \in Nat /\ orphans <= Cardinality(Settled)
  /\ \A l \in LoginThread : place[l] \in Unsettled => calls[l] > 0

ProfileTypes ==
  /\ cookies \in Cookies
  /\ {agent, recent} \subseteq BOOLEAN
  /\ dump \in [Warmer -> Cookies]
  /\ calls \in [User -> 0..MaxCalls]
  /\ OrphanInv

LEMMA CallsFinite ==
  ASSUME NEW S \in SUBSET (LoginThread \X (1..MaxCalls))
  PROVE  /\ IsFiniteSet(S) /\ Cardinality(S) \in Nat
         /\ Cardinality(S) <= MaxCalls * Cardinality(LoginThread)
<1>1. IsFiniteSet(1..MaxCalls) /\ Cardinality(1..MaxCalls) = MaxCalls
  BY FS_Interval, ProfileAssumption
<1> DEFINE all == LoginThread \X (1..MaxCalls)
<1>2. /\ IsFiniteSet(all)
      /\ Cardinality(all) = Cardinality(LoginThread) * Cardinality(1..MaxCalls)
  BY <1>1, FS_Product, ProfileAssumption
<1>4. Cardinality(LoginThread) \in Nat
  BY FS_CardinalityType, ProfileAssumption
<1>5. Cardinality(S) <= Cardinality(all) /\ IsFiniteSet(S)
  BY <1>2, FS_Subset
<1>6. Cardinality(S) \in Nat
  BY <1>5, FS_CardinalityType
<1>7. Cardinality(LoginThread) * MaxCalls = MaxCalls * Cardinality(LoginThread)
  BY <1>4, ProfileAssumption
<1> QED
  BY <1>1, <1>2, <1>5, <1>6, <1>7

\* What a step does to the calls: they are counted as they begin, and only a call
\* that begins, or is there already, is unsettled.
LEMMA CallsGo ==
  ASSUME ProfileInv, ProfileTypes, ProfileNext
  PROVE  /\ calls' \in [User -> 0..MaxCalls]
         /\ \A l \in LoginThread :
              /\ calls'[l] >= calls[l]
              /\ place'[l] \in Unsettled /\ calls'[l] = calls[l] => place[l] \in Unsettled
<1>0. /\ calls \in [User -> 0..MaxCalls] /\ place \in [User -> ProfilePlaces]
      /\ LoginThread \subseteq User /\ Warmer \subseteq User
  BY DEF ProfileInv, PlacesOK, ProfileTypes, User
<1>1. ASSUME NEW u \in User, NEW to, BeginCall(u, to)
      PROVE  /\ calls' \in [User -> 0..MaxCalls]
             /\ \A l \in User : calls'[l] >= calls[l]
             /\ \A l \in User : place'[l] \in Unsettled /\ calls'[l] = calls[l]
                                  => place[l] \in Unsettled
  BY <1>0, <1>1, ProfileAssumption DEF BeginCall, Step
<1>2. ASSUME NEW u \in User, NEW from, NEW to, Step(u, from, to), UNCHANGED calls,
             to \in Unsettled => from \in Unsettled
      PROVE  /\ calls' \in [User -> 0..MaxCalls]
             /\ \A l \in User : calls'[l] >= calls[l]
             /\ \A l \in User : place'[l] \in Unsettled /\ calls'[l] = calls[l]
                                  => place[l] \in Unsettled
  BY <1>0, <1>2, ProfileAssumption DEF Step
<1>3. CASE \E w \in Warmer : Warmup(w)
  BY <1>0, <1>1, <1>3 DEF Warmup
<1>4. CASE \E l \in LoginThread : Login(l)
  BY <1>0, <1>1, <1>4 DEF Login
<1>5. CASE \E w \in Warmer : WarmupStep(w)
  <2> PICK w \in Warmer : WarmupStep(w)
    BY <1>5
  <2>1. CASE Publish(w)
    BY <1>0, <2>1, ProfileAssumption DEF Publish, Unsettled
  <2>2. CASE ~Publish(w)
    <3>1. PICK from, to : /\ Step(w, from, to) /\ to \notin Unsettled
      BY <2>2 DEF WarmupStep, FollowerTimesOut, LeaderLocks, StartRun, EndRun, AgentKnown, Store,
         Unsettled
    <3>2. UNCHANGED calls
      BY <2>2 DEF WarmupStep, FollowerTimesOut, LeaderLocks, StartRun, EndRun, AgentKnown, Store
    <3> QED
      BY <1>0, <1>2, <3>1, <3>2
  <2> QED
    BY <2>1, <2>2
<1>6. CASE \E l \in LoginThread : LoginStep(l)
  <2> PICK l \in LoginThread : LoginStep(l)
    BY <1>6
  <2>1. PICK from, to : Step(l, from, to) /\ (to \in Unsettled => from \in Unsettled)
    BY DEF LoginStep, LoginLocks, LoginGivesUp, StartBrowser, Initialise, Close, Unlock, Unsettled
  <2>2. UNCHANGED calls
    BY DEF LoginStep, LoginLocks, LoginGivesUp, StartBrowser, Initialise, Close, Unlock
  <2> QED
    BY <1>0, <1>2, <2>1, <2>2
<1>7. CASE SkipWindowEnds
  BY <1>0, <1>7 DEF SkipWindowEnds
<1> QED
  BY <1>3, <1>4, <1>5, <1>6, <1>7 DEF ProfileNext

\* One process may be left behind at a time, by a call that settles.
LEMMA OrphansGo ==
  ASSUME ProfileInv, ProfileTypes, ProfileNext, ~UNCHANGED orphans
  PROVE  /\ orphans' = orphans + 1 /\ UNCHANGED calls
         /\ \E l \in LoginThread : Step(l, "init", "closed") \/ Step(l, "session", "closed")
BY DEF ProfileNext, Warmup, Login, WarmupStep, LoginStep, FollowerTimesOut, LeaderLocks, StartRun,
   EndRun, AgentKnown, Store, Publish, LoginLocks, LoginGivesUp, StartBrowser, Initialise, Close,
   Unlock, SkipWindowEnds

LEMMA OrphanNextInv ==
  ASSUME ProfileInv, ProfileTypes, ProfileNext
  PROVE  OrphanInv'
<1>0. /\ calls \in [User -> 0..MaxCalls] /\ calls' \in [User -> 0..MaxCalls]
      /\ LoginThread \subseteq User /\ OrphanInv /\ place \in [User -> ProfilePlaces]
  BY CallsGo DEF ProfileInv, PlacesOK, ProfileTypes, User
<1>1. Settled \subseteq Settled'
  BY <1>0, CallsGo, ProfileAssumption DEF Settled
<1>2. \A l \in LoginThread : place'[l] \in Unsettled => calls'[l] > 0
  <2> TAKE l \in LoginThread
  <2>1. calls[l] \in Nat /\ calls'[l] \in Nat
    BY <1>0, ProfileAssumption
  <2> QED
    BY <1>0, <2>1, CallsGo DEF OrphanInv
<1>3. IsFiniteSet(Settled') /\ Cardinality(Settled') \in Nat
  <2>1. Settled' \in SUBSET (LoginThread \X (1..MaxCalls))
    BY DEF Settled
  <2> QED
    BY <2>1, CallsFinite
<1>4. /\ Cardinality(Settled) <= Cardinality(Settled') /\ Cardinality(Settled) \in Nat
      /\ IsFiniteSet(Settled)
  BY <1>1, <1>3, FS_Subset, CallsFinite DEF Settled
<1>5. CASE UNCHANGED orphans
  BY <1>0, <1>2, <1>3, <1>4, <1>5 DEF OrphanInv
<1>6. CASE ~UNCHANGED orphans
  <2>1. PICK l \in LoginThread : Step(l, "init", "closed") \/ Step(l, "session", "closed")
    BY <1>6, OrphansGo
  <2>2. /\ orphans' = orphans + 1 /\ calls' = calls
        /\ place[l] \in {"init", "session"} /\ place'[l] = "closed"
    BY <1>0, <1>6, <2>1, OrphansGo DEF Step
  <2> DEFINE settles == <<l, calls[l]>>
  <2>3. settles \notin Settled
    BY <2>2 DEF Settled, Unsettled
  <2>4. settles \in Settled'
    <3>1. calls[l] \in 1..MaxCalls
      BY <1>0, <2>2, ProfileAssumption DEF OrphanInv, Unsettled
    <3> QED
      BY <2>2, <3>1 DEF Settled, Unsettled
  <2>5. Cardinality(Settled \cup {settles}) = Cardinality(Settled) + 1
    BY <1>4, <2>3, FS_AddElement
  <2>6. Cardinality(Settled \cup {settles}) <= Cardinality(Settled')
    BY <1>1, <1>3, <2>4, FS_Subset
  <2> QED
    BY <1>0, <1>2, <1>3, <1>4, <2>2, <2>5, <2>6 DEF OrphanInv
<1> QED
  BY <1>5, <1>6

LEMMA ProfileTypesNext ==
  ASSUME ProfileInv, ProfileTypes, [ProfileNext]_profileVars
  PROVE  ProfileTypes'
<1>1. CASE UNCHANGED profileVars
  BY <1>1 DEF profileVars, ProfileTypes, OrphanInv, Settled
<1>2. CASE ProfileNext
  <2>1. calls' \in [User -> 0..MaxCalls] /\ OrphanInv'
    BY <1>2, CallsGo, OrphanNextInv
  <2>2. /\ cookies' \in Cookies /\ {agent', recent'} \subseteq BOOLEAN
        /\ dump' \in [Warmer -> Cookies]
    <3>0. /\ cookies \in Cookies /\ {agent, recent} \subseteq BOOLEAN
          /\ dump \in [Warmer -> Cookies]
      BY DEF ProfileTypes
    <3>1. CASE UNCHANGED <<State, Flight>>
      BY <3>0, <3>1 DEF State, Flight
    <3>2. CASE UNCHANGED <<State, dump>>
      BY <3>0, <3>2 DEF State
    <3>3. ASSUME NEW w \in Warmer, LeaderLocks(w) \/ EndRun(w) PROVE <2>2!:
      BY <3>0, <3>3 DEF LeaderLocks, EndRun, State, Cookies
    <3>4. ASSUME NEW w \in Warmer, AgentKnown(w) \/ Store(w) PROVE <2>2!:
      BY <3>0, <3>4 DEF AgentKnown, Store, Flight
    <3>5. CASE SkipWindowEnds
      BY <3>0, <3>5 DEF SkipWindowEnds, Flight
    <3> QED
      BY <1>2, <3>1, <3>2, <3>3, <3>4, <3>5 DEF ProfileNext, Warmup, Login, WarmupStep, LoginStep,
         FollowerTimesOut, StartRun, Publish, LoginLocks, LoginGivesUp, StartBrowser, Initialise,
         Close, Unlock
  <2> QED
    BY <2>1, <2>2 DEF ProfileTypes
<1> QED
  BY <1>1, <1>2

\* The types of BrowserProfile; what takes an argument is that the processes left
\* behind are no more than the logins (a constructor that raises, or a close() whose
\* kill shows no effect in time, mcp_client.py).
THEOREM ProfileTypeCorrect == ProfileSpec => []ProfileTypeOK
<1>1. ProfileInit => ProfileTypes
  <2> SUFFICES ASSUME ProfileInit PROVE ProfileTypes
    OBVIOUS
  <2>1. Cardinality(Settled) \in Nat
    BY CallsFinite DEF Settled
  <2>2. \A l \in LoginThread : place[l] \notin Unsettled
    BY DEF ProfileInit, Unsettled, User
  <2>3. Cardinality(Settled) >= 0
    BY <2>1
  <2>4. OrphanInv
    BY <2>2, <2>3 DEF ProfileInit, OrphanInv
  <2>5. calls \in [User -> 0..MaxCalls]
    BY ProfileAssumption DEF ProfileInit
  <2> QED
    BY <2>4, <2>5 DEF ProfileInit, ProfileTypes, Cookies
<1>2. ProfileInv /\ ProfileTypes => ProfileTypeOK
  <2> SUFFICES ASSUME ProfileInv, ProfileTypes PROVE ProfileTypeOK
    OBVIOUS
  <2>1. MaxCalls * Cardinality(LoginThread) \in Nat
    BY FS_CardinalityType, ProfileAssumption
  <2>2. Cardinality(Settled) \in Nat /\ Cardinality(Settled) <= MaxCalls * Cardinality(LoginThread)
    BY CallsFinite DEF Settled
  <2>3. orphans \in 0..(MaxCalls * Cardinality(LoginThread))
    BY <2>1, <2>2 DEF ProfileTypes, OrphanInv
  <2> QED
    BY <2>3 DEF ProfileTypeOK, ProfileInv, PlacesOK, ProfileTypes
<1> QED
  BY <1>1, <1>2, ProfileInvHolds, ProfileTypesNext, PTL DEF ProfileSpec

-----------------------------------------------------------------------------
(* The login drivers                                                       *)

\* A reading that Obscura takes for a ban.
ShowsBan(page) == page.phrases = {"ban"} /\ ~page.captcha

\* The streak counts readings at the end that show a ban, the second ends the login;
\* the hint is the real browser's, and comes from a reading.
BanInv ==
  /\ readings \in Seq(Page)
  /\ streak \in 0..2 /\ hint \in BOOLEAN
  /\ streak <= Len(readings) /\ (driver # "obscura" => streak = 0)
  /\ \A i \in (Len(readings) - streak + 1)..Len(readings) : ShowsBan(readings[i])
  /\ driver = "none" => ~verdict.done
  /\ ~verdict.done => streak <= 1 /\ ~verdict.banned /\ verdict.token = "none"
  /\ hint => driver = "real" /\ \E i \in DOMAIN readings : "ban" \in readings[i].phrases

LoginInv == LoginTypeOK /\ BanInv /\ VerdictEarned

\* The pages of a login that has not ended, and what its verdict comes from.
LEMMA PageSays ==
  ASSUME NEW page \in Page
  PROVE  /\ page.captcha \in BOOLEAN /\ page.phrases \subseteq Kind
         /\ page.token \in Token /\ page.signIn \in BOOLEAN
         /\ Classify(page) = "ban" => ShowsBan(page)
         /\ Classify(page) = "none" => page.phrases = {} /\ ~page.captcha
         /\ Classify(page) \in {"captcha", "credential", "ban", "none"}
<1>1. page \in [captcha : BOOLEAN, phrases : SUBSET Kind, token : Token, signIn : BOOLEAN]
  BY LoginAssumption
<1>2. page.phrases \subseteq Kind /\ page.captcha \in BOOLEAN
  BY <1>1
<1> QED
  BY <1>1, <1>2 DEF Classify, ShowsBan, Kind

LEMMA LoginInitInv == ASSUME LoginInit PROVE LoginInv
<1>1. /\ driver = "none" /\ baseline = "none" /\ streak = 0 /\ hint = FALSE
      /\ verdict = [done |-> FALSE, token |-> "none", banned |-> FALSE]
      /\ readings = <<>>
  BY DEF LoginInit, Open
<1>2. readings \in Seq(Page) /\ Len(readings) = 0
  BY <1>1
<1>3. verdict \in [done : BOOLEAN, token : Token, banned : BOOLEAN]
  BY <1>1 DEF Token
<1>h. hint \in BOOLEAN /\ streak \in 0..2 /\ Len(readings) <= MaxReadings
  <2>1. hint \in BOOLEAN
    BY <1>1, Zenon
  <2> QED
    BY <1>1, <1>2, <2>1, LoginAssumption
<1>4. LoginTypeOK
  BY <1>1, <1>h, <1>3 DEF LoginTypeOK
<1>5. BanInv
  BY <1>1, <1>2, <1>h DEF BanInv
<1>6. VerdictEarned
  BY <1>1 DEF VerdictEarned
<1> QED
  BY <1>4, <1>5, <1>6 DEF LoginInv

\* What a reading adds to the ones before.
LEMMA Appended ==
  ASSUME readings \in Seq(Page), NEW page \in Page, readings' = Append(readings, page)
  PROVE  /\ readings' \in Seq(Page) /\ Len(readings') = Len(readings) + 1
         /\ readings'[Len(readings')] = page
         /\ \A i \in 1..Len(readings) : readings'[i] = readings[i]
         /\ DOMAIN readings = 1..Len(readings) /\ DOMAIN readings' = 1..(Len(readings) + 1)
         /\ Len(readings) \in Nat
OBVIOUS

LEMMA ObscuraInv ==
  ASSUME LoginInv, NEW page \in Page, Poll(page), driver = "obscura"
  PROVE  LoginInv'
<1> DEFINE kind == Classify(page)
<1>1. /\ ~verdict.done /\ Len(readings) < MaxReadings
      /\ streak' = Streak(kind) /\ hint' = hint /\ driver' = driver /\ baseline' = baseline
      /\ verdict' = CASE kind = "ban" /\ Streak(kind) >= 2 -> [NoLogin EXCEPT !.banned = TRUE]
                      [] kind \in {"captcha", "credential"} -> NoLogin
                      [] kind = "none" /\ Fresh(page) -> [NoLogin EXCEPT !.token = page.token]
                      [] OTHER -> Open
      /\ readings' = Append(readings, page)
  BY DEF Poll, Polling, ObscuraReads
<1>2. readings \in Seq(Page) /\ streak \in 0..1 /\ ~hint /\ streak <= Len(readings)
  BY <1>1 DEF LoginInv, BanInv
<1>3. /\ readings' \in Seq(Page) /\ Len(readings') = Len(readings) + 1
      /\ readings'[Len(readings')] = page
      /\ \A i \in 1..Len(readings) : readings'[i] = readings[i]
      /\ Len(readings) \in Nat
  BY <1>1, <1>2, Appended
<1>4. /\ streak' \in 0..2 /\ streak' <= Len(readings')
      /\ kind # "ban" => streak' = 0
      /\ kind = "ban" => streak' = streak + 1 /\ ShowsBan(page)
  BY <1>1, <1>2, <1>3, PageSays DEF Streak
<1>5. ASSUME NEW i \in (Len(readings') - streak' + 1)..Len(readings')
      PROVE  ShowsBan(readings'[i])
  <2>1. kind = "ban"
    BY <1>3, <1>4
  <2>2. CASE i = Len(readings')
    BY <1>3, <1>4, <2>1, <2>2
  <2>3. CASE i # Len(readings')
    <3>1. i \in (Len(readings) - streak + 1)..Len(readings) /\ i \in 1..Len(readings)
      BY <1>2, <1>3, <1>4, <1>5, <2>1, <2>3
    <3> QED
      BY <1>3, <3>1 DEF LoginInv, BanInv
  <2> QED
    BY <2>2, <2>3
<1>6. \/ verdict' = [done |-> TRUE, token |-> "none", banned |-> TRUE] /\ streak' >= 2
      \/ verdict' = [done |-> TRUE, token |-> "none", banned |-> FALSE]
      \/ /\ verdict' = [done |-> TRUE, token |-> page.token, banned |-> FALSE]
         /\ kind = "none" /\ Fresh(page)
      \/ /\ verdict' = [done |-> FALSE, token |-> "none", banned |-> FALSE]
         /\ streak' <= 1
  <2>1. kind \in {"captcha", "credential", "ban", "none"}
    BY PageSays
  <2>2. streak' >= 2 \/ streak' <= 1
    BY <1>4
  <2>3. Streak(kind) >= 2 <=> streak' >= 2
    BY <1>1
  <2>4. CASE kind = "ban" /\ streak' >= 2
    BY <1>1, <2>3, <2>4 DEF NoLogin, Open
  <2>5. CASE kind = "ban" /\ ~(streak' >= 2)
    BY <1>1, <2>2, <2>3, <2>5 DEF Open
  <2>6. CASE kind \in {"captcha", "credential"}
    BY <1>1, <2>6 DEF NoLogin, Open
  <2>7. CASE kind = "none" /\ Fresh(page)
    BY <1>1, <2>7 DEF NoLogin, Open
  <2>8. CASE kind = "none" /\ ~Fresh(page)
    BY <1>1, <1>4, <2>2, <2>8 DEF Open
  <2> QED
    BY <2>1, <2>4, <2>5, <2>6, <2>7, <2>8
<1>7. BanInv'
  <2>1. ~verdict'.done => streak' <= 1 /\ ~verdict'.banned /\ verdict'.token = "none"
    BY <1>6
  <2>2. hint' \in BOOLEAN /\ ~hint' /\ driver' = "obscura"
    BY <1>1, <1>2, Zenon DEF LoginInv, BanInv
  <2> QED
    BY <1>3, <1>4, <1>5, <2>1, <2>2 DEF BanInv
<1>8. VerdictEarned'
  <2>1. CASE verdict' = [done |-> TRUE, token |-> "none", banned |-> TRUE] /\ streak' >= 2
    <3>1. streak' = 2 /\ Len(readings') >= 2
      BY <1>3, <1>4, <2>1
    <3>2. \A i \in {Len(readings') - 1, Len(readings')} : ShowsBan(readings'[i])
      BY <1>3, <1>5, <3>1
    <3> QED
      BY <1>1, <2>1, <3>1, <3>2 DEF VerdictEarned, ShowsBan
  <2>2. CASE verdict'.token = "none" /\ ~verdict'.banned
    BY <2>2 DEF VerdictEarned
  <2>3. CASE /\ verdict' = [done |-> TRUE, token |-> page.token, banned |-> FALSE]
             /\ kind = "none" /\ Fresh(page)
    BY <1>1, <1>3, <2>3, PageSays DEF VerdictEarned, LastReading, Fresh
  <2> QED
    BY <1>6, <2>1, <2>2, <2>3
<1>9. LoginTypeOK'
  <2>1. page.token \in Token /\ "none" \in Token
    BY PageSays DEF Token
  <2>2. \E done \in BOOLEAN, token \in Token, banned \in BOOLEAN :
          verdict' = [done |-> done, token |-> token, banned |-> banned]
    BY <1>6, <2>1, Zenon
  <2>4. verdict' \in [done : BOOLEAN, token : Token, banned : BOOLEAN]
    BY <2>2
  <2>3. Len(readings') <= MaxReadings
    BY <1>1, <1>3, LoginAssumption
  <2> QED
    BY <1>1, <1>2, <1>4, <2>4, <2>3 DEF LoginInv, LoginTypeOK
<1> QED
  BY <1>7, <1>8, <1>9 DEF LoginInv

LEMMA RealInv ==
  ASSUME LoginInv, NEW page \in Page, Poll(page), driver = "real"
  PROVE  LoginInv'
<1>1. /\ ~verdict.done /\ Len(readings) < MaxReadings
      /\ hint' = (hint \/ (~page.captcha /\ "ban" \in page.phrases))
      /\ streak' = streak /\ driver' = driver /\ baseline' = baseline
      /\ verdict' = CASE page.captcha -> NoLogin
                      [] page.token # "none" /\ ~page.captcha ->
                           [done |-> TRUE, token |-> page.token, banned |-> hint']
                      [] page.token = "none" /\ ~page.captcha /\ "credential" \in page.phrases ->
                           [NoLogin EXCEPT !.banned = hint']
                      [] OTHER -> Open
      /\ readings' = Append(readings, page)
  BY DEF Poll, Polling, RealReads
<1>2. /\ readings \in Seq(Page) /\ streak = 0 /\ hint \in BOOLEAN
  BY <1>1 DEF LoginInv, BanInv
<1>3. /\ readings' \in Seq(Page) /\ Len(readings') = Len(readings) + 1
      /\ readings'[Len(readings')] = page
      /\ \A i \in 1..Len(readings) : readings'[i] = readings[i]
      /\ DOMAIN readings = 1..Len(readings) /\ DOMAIN readings' = 1..(Len(readings) + 1)
      /\ Len(readings) \in Nat
  BY <1>1, <1>2, Appended
<1>4. page.captcha \in BOOLEAN /\ page.token \in Token /\ "none" \in Token
  BY PageSays DEF Token
<1>5. hint' \in BOOLEAN /\ (hint' => \E i \in DOMAIN readings' : "ban" \in readings'[i].phrases)
  <2>1. CASE hint
    <3>1. PICK i \in DOMAIN readings : "ban" \in readings[i].phrases
      BY <2>1 DEF LoginInv, BanInv
    <3>2. i \in DOMAIN readings' /\ readings'[i] = readings[i]
      BY <1>3, <3>1
    <3> QED
      BY <1>1, <1>2, <3>1, <3>2
  <2>2. CASE ~hint
    BY <1>1, <1>2, <1>3, <1>4, <2>2
  <2> QED
    BY <1>2, <2>1, <2>2
<1>6. \/ verdict' = [done |-> TRUE, token |-> "none", banned |-> FALSE]
      \/ /\ verdict' = [done |-> TRUE, token |-> page.token, banned |-> hint']
         /\ page.token # "none" /\ ~page.captcha
      \/ verdict' = [done |-> TRUE, token |-> "none", banned |-> hint']
      \/ verdict' = [done |-> FALSE, token |-> "none", banned |-> FALSE]
  BY <1>1, <1>4 DEF NoLogin, Open
<1>7. BanInv'
  BY <1>1, <1>2, <1>3, <1>5, <1>6, SMTT(30) DEF BanInv
<1>8. VerdictEarned'
  BY <1>1, <1>3, <1>5, <1>6 DEF VerdictEarned, LastReading
<1>9. LoginTypeOK'
  <2>3. \E done \in BOOLEAN, token \in Token, banned \in BOOLEAN :
          verdict' = [done |-> done, token |-> token, banned |-> banned]
    BY <1>4, <1>5, <1>6, Zenon
  <2>1. verdict' \in [done : BOOLEAN, token : Token, banned : BOOLEAN]
    BY <2>3
  <2>2. Len(readings') <= MaxReadings
    BY <1>1, <1>3, LoginAssumption
  <2> QED
    BY <1>1, <1>2, <1>5, <2>1, <2>2 DEF LoginInv, LoginTypeOK
<1> QED
  BY <1>7, <1>8, <1>9 DEF LoginInv

LEMMA LoginNextInv == ASSUME LoginInv, [LoginNext]_loginVars PROVE LoginInv'
<1>1. CASE UNCHANGED loginVars
  BY <1>1 DEF loginVars, LoginInv, LoginTypeOK, BanInv, VerdictEarned, LastReading
<1>2. ASSUME NEW left \in {"none", "old"}, NEW d \in Driver, Submit(d, left) PROVE LoginInv'
  <2>1. /\ driver = "none" /\ driver' = d /\ baseline' \in {"none", "old"}
        /\ UNCHANGED <<streak, hint, verdict, readings>>
    BY <1>2 DEF Submit
  <2>2. streak = 0 /\ ~hint /\ ~verdict.done /\ ~verdict.banned /\ verdict.token = "none"
    BY <2>1 DEF LoginInv, BanInv
  <2>3. LoginTypeOK' /\ VerdictEarned'
    BY <2>1, <2>2 DEF LoginInv, LoginTypeOK, VerdictEarned
  <2>4. BanInv'
    BY <2>1, <2>2 DEF LoginInv, BanInv, Driver
  <2> QED
    BY <2>3, <2>4 DEF LoginInv
<1>3. ASSUME NEW d \in Driver, FormFails(d) PROVE LoginInv'
  <2>1. /\ driver = "none" /\ driver' = d /\ UNCHANGED <<baseline, streak, hint, readings>>
        /\ verdict' = [done |-> TRUE, token |-> "none", banned |-> FALSE]
    BY <1>3 DEF FormFails, NoLogin, Open
  <2>2. streak = 0 /\ ~hint
    BY <2>1 DEF LoginInv, BanInv
  <2> QED
    BY <2>1, <2>2 DEF LoginInv, LoginTypeOK, BanInv, VerdictEarned, Driver, Token
<1>4. ASSUME NEW page \in Page, Poll(page) PROVE LoginInv'
  <2>1. driver \in Driver
    BY <1>4 DEF Poll, Polling, LoginInv, LoginTypeOK
  <2> QED
    BY <1>4, <2>1, ObscuraInv, RealInv DEF Driver
<1>5. CASE DeadlinePasses
  <2>1. /\ ~verdict.done /\ UNCHANGED <<driver, baseline, streak, hint, readings>>
        /\ verdict' = [done |-> TRUE, token |-> "none", banned |-> hint]
    BY <1>5 DEF DeadlinePasses, Polling, NoLogin, Open
  <2>2. hint \in BOOLEAN /\ (hint => driver # "obscura")
    BY DEF LoginInv, BanInv
  <2>3. verdict' \in [done : BOOLEAN, token : Token, banned : BOOLEAN]
    <3>1. \E done \in BOOLEAN, token \in Token, banned \in BOOLEAN :
            verdict' = [done |-> done, token |-> token, banned |-> banned]
      BY <2>1, <2>2, Zenon DEF Token
    <3> QED
      BY <3>1
  <2>4. VerdictEarned'
    BY <2>1, <2>2 DEF LoginInv, BanInv, VerdictEarned
  <2>5. verdict'.done
    BY <2>1
  <2>6. LoginTypeOK'
    BY <2>1, <2>2, <2>3 DEF LoginInv, LoginTypeOK
  <2>7. driver # "none"
    BY <1>5 DEF DeadlinePasses, Polling
  <2>8. BanInv'
    BY <2>1, <2>5, <2>7 DEF LoginInv, BanInv
  <2> QED
    BY <2>4, <2>6, <2>8 DEF LoginInv
<1> QED
  BY <1>1, <1>2, <1>3, <1>4, <1>5 DEF LoginNext

\* Whatever a page shows and for however many readings, the drivers keep their types:
\* the streak of bans never passes two, for the second ends the login (auth.py, _run).
THEOREM LoginTypeCorrect == LoginSpec => []LoginTypeOK
<1>1. LoginInv => LoginTypeOK
  BY DEF LoginInv
<1> QED
  BY <1>1, LoginInitInv, LoginNextInv, PTL DEF LoginSpec

\* A token a login reports is that of its last reading, and a ban was shown: to Obscura
\* twice in a row and under no other sign, to the real browser once
\* (auth.py, _run; real_browser.py, login).
THEOREM VerdictEarnedHolds == LoginSpec => []VerdictEarned
<1>1. LoginInv => VerdictEarned
  BY DEF LoginInv
<1> QED
  BY <1>1, LoginInitInv, LoginNextInv, PTL DEF LoginSpec

-----------------------------------------------------------------------------
(* The MCP client                                                          *)

\* Callers about to draw an id: the bound on requests counts them.
Checked == {c \in Caller : stage[c] = "checked"}
IdInv == lastId = sent /\ sent + Cardinality(Checked) <= MaxIds

\* A request whose id is its number.
Numbered(r) == r.id = r.no

\* A caller under way waits for one of the requests made, and has found an answer
\* to it when it goes on.
CallInv ==
  \A c \in Caller :
    /\ stage[c] \in {"write", "wait", "got", "raise"} =>
         Numbered(request[c]) /\ request[c].id \in 1..sent
    /\ stage[c] = "got" => box[request[c].id] # {}

\* What travels keeps its number, so that a queue only gets the answer to its own
\* request.
LineInv == \A r \in asked \cup lines \cup {taken} : Numbered(r)
QueueInv == \A i \in Ids : box[i] \in {{}, None, {i}}

McpInv == McpTypeOK /\ IdInv /\ CallInv /\ LineInv /\ QueueInv /\ OwnAnswer

LEMMA McpInitInv == McpInit => McpInv
<1> SUFFICES ASSUME McpInit PROVE McpInv
  OBVIOUS
<1>1. Checked = {}
  BY DEF McpInit, Checked
<1>2. IdInv
  BY <1>1, FS_EmptySet, McpAssumption DEF McpInit, IdInv
<1>3. McpTypeOK
  <2>1. {lastId, sent} \subseteq 0..MaxIds
    BY McpAssumption DEF McpInit
  <2> QED
    BY <2>1 DEF McpInit, McpTypeOK
<1> QED
  BY <1>2, <1>3 DEF McpInit, McpInv, CallInv, LineInv, QueueInv, OwnAnswer, Numbered, NoRequest

-----------------------------------------------------------------------------
(* Every step of a caller keeps the invariant                              *)

LEMMA CheckedFinite == IsFiniteSet(Checked) /\ Cardinality(Checked) \in Nat
BY FS_Subset, FS_CardinalityType, McpAssumption DEF Checked

\* The callers about to draw an id, after a step of one.
LEMMA CheckedMoves ==
  ASSUME McpTypeOK, NEW c \in Caller, NEW from, NEW to, Advance(c, from, to)
  PROVE  Checked' = IF to = "checked" THEN Checked \cup {c} ELSE Checked \ {c}
BY DEF Advance, Checked, McpTypeOK

\* A caller under way has made a request, numbered by its id.
LEMMA Requested ==
  ASSUME McpInv, NEW c \in Caller, stage[c] \in {"write", "wait", "got", "raise"}
  PROVE  /\ request[c].id \in Ids /\ request[c].id = request[c].no
         /\ request[c] \in Requests
<1>1. request[c].id \in 1..sent /\ request[c].id = request[c].no
  BY DEF McpInv, CallInv, Numbered
<1>2. sent \in 0..MaxIds /\ MaxIds \in Nat
  BY McpAssumption DEF McpInv, McpTypeOK
<1>3. request[c] \in Requests \cup {NoRequest}
  BY DEF McpInv, McpTypeOK
<1> QED
  BY <1>1, <1>2, <1>3 DEF Ids, NoRequest

LEMMA SendInv == ASSUME McpInv, NEW c \in Caller, Send(c) PROVE McpInv'
<1>1. Checked' = Checked \cup {c} /\ c \notin Checked
  <2>1. Advance(c, "idle", "checked") /\ McpTypeOK
    BY DEF Send, McpInv
  <2> QED
    BY <2>1, CheckedMoves DEF Advance, Checked
<1>2. Cardinality(Checked') = Cardinality(Checked) + 1
  BY <1>1, CheckedFinite, FS_AddElement
<1>3. sent + Cardinality(Checked) < MaxIds /\ sent' = sent /\ lastId' = lastId
  BY DEF Send, Checked
<1>4. IdInv'
  BY <1>2, <1>3, CheckedFinite, McpAssumption DEF McpInv, McpTypeOK, IdInv
<1>5. stage' = [stage EXCEPT ![c] = "checked"] /\ stage[c] = "idle"
  BY DEF Send, Advance
<1>6. CallInv'
  BY <1>5 DEF Send, McpInv, McpTypeOK, CallInv, Numbered
<1> QED
  BY <1>4, <1>5, <1>6 DEF Send, McpInv, McpTypeOK, LineInv, QueueInv, OwnAnswer, Pipes, Numbered

LEMMA RegisterInv == ASSUME McpInv, NEW c \in Caller, Register(c) PROVE McpInv'
<1>1. Checked' = Checked \ {c} /\ c \in Checked
  <2>1. Advance(c, "checked", "write") /\ McpTypeOK
    BY DEF Register, McpInv
  <2>2. Checked' = IF "write" = "checked" THEN Checked \cup {c} ELSE Checked \ {c}
    BY <2>1, CheckedMoves
  <2> QED
    BY <2>1, <2>2 DEF Advance, Checked
<1>2. Cardinality(Checked') = Cardinality(Checked) - 1
  BY <1>1, CheckedFinite, FS_RemoveElement
<1>3. Cardinality(Checked') \in Nat
  BY <1>1, CheckedFinite, FS_RemoveElement, FS_CardinalityType
<1>4. /\ lastId' = sent + 1 /\ sent' = sent + 1 /\ NextId = sent + 1 /\ sent \in Nat
      /\ sent + 1 \in Ids
  BY <1>2, <1>3, CheckedFinite, McpAssumption DEF Register, NextId, McpInv, McpTypeOK, IdInv, Ids
<1>5. IdInv'
  BY <1>2, <1>3, <1>4, CheckedFinite, McpAssumption DEF McpInv, IdInv
<1>6. /\ stage' = [stage EXCEPT ![c] = "write"]
      /\ request' = [request EXCEPT ![c] = [id |-> sent + 1, no |-> sent + 1]]
      /\ box' = [box EXCEPT ![sent + 1] = {}]
      /\ pending' = pending \cup {sent + 1}
      /\ UNCHANGED <<returned, asked, lines, taken, reader, child, closed>>
  BY <1>4 DEF Register, Advance, Pipes
<1>7. CallInv'
  <2> SUFFICES ASSUME NEW d \in Caller
               PROVE  /\ stage'[d] \in {"write", "wait", "got", "raise"} =>
                           Numbered(request'[d]) /\ request'[d].id \in 1..sent'
                      /\ stage'[d] = "got" => box'[request'[d].id] # {}
    BY DEF CallInv, Numbered
  <2>1. CASE d = c
    BY <1>4, <1>6, <2>1 DEF McpInv, McpTypeOK, Numbered
  <2>2. CASE d # c
    <3>1. stage'[d] = stage[d] /\ request'[d] = request[d]
      BY <1>6, <2>2 DEF McpInv, McpTypeOK
    <3>2. request[d].id \in 1..sent => box'[request[d].id] = box[request[d].id]
      BY <1>4, <1>6 DEF McpInv, McpTypeOK, Ids
    <3> QED
      BY <1>4, <3>1, <3>2 DEF McpInv, CallInv
  <2> QED
    BY <2>1, <2>2
<1>8. QueueInv'
  BY <1>6 DEF McpInv, McpTypeOK, QueueInv, None
<1>9. McpTypeOK'
  BY <1>4, <1>6 DEF McpInv, McpTypeOK, Requests, Ids
<1> QED
  BY <1>5, <1>6, <1>7, <1>8, <1>9 DEF McpInv, LineInv, OwnAnswer, Numbered

LEMMA CheckedGoesDown ==
  ASSUME McpInv, NEW c \in Caller, NEW from, NEW to, to # "checked", Advance(c, from, to),
         UNCHANGED <<sent, lastId>>
  PROVE  IdInv'
<1>1. Checked' = Checked \ {c}
  BY CheckedMoves DEF McpInv
<1>2. Cardinality(Checked') <= Cardinality(Checked) /\ Cardinality(Checked') \in Nat
  <2>1. Checked \ {c} \subseteq Checked /\ IsFiniteSet(Checked)
    BY CheckedFinite
  <2> QED
    BY <1>1, <2>1, FS_Subset, FS_CardinalityType
<1> QED
  BY <1>2, CheckedFinite, McpAssumption DEF McpInv, McpTypeOK, IdInv

LEMMA WriteInv == ASSUME McpInv, NEW c \in Caller, Write(c) PROVE McpInv'
<1>1. /\ stage[c] = "write"
      /\ stage' = [stage EXCEPT ![c] = "wait"] \/ stage' = [stage EXCEPT ![c] = "raise"]
      /\ asked' \in {asked, asked \cup {request[c]}}
      /\ UNCHANGED <<lastId, sent, pending, box, request, returned, lines, taken, reader, child,
                     closed>>
  BY DEF Write, Advance
<1>2. IdInv'
  BY <1>1, CheckedGoesDown DEF Write
<1>3. Numbered(request[c]) /\ request[c] \in Requests
  BY <1>1, Requested DEF Numbered
<1>4. CallInv'
  BY <1>1 DEF McpInv, McpTypeOK, CallInv, Numbered
<1>5. McpTypeOK'
  BY <1>1, <1>3 DEF McpInv, McpTypeOK
<1>6. LineInv'
  BY <1>1, <1>3 DEF McpInv, LineInv, Numbered
<1> QED
  BY <1>1, <1>2, <1>4, <1>5, <1>6 DEF McpInv, QueueInv, OwnAnswer

LEMMA TakeInv == ASSUME McpInv, NEW c \in Caller, Take(c) PROVE McpInv'
<1>1. /\ stage[c] = "wait"
      /\ \/ stage' = [stage EXCEPT ![c] = "got"] /\ box[request[c].id] # {}
         \/ stage' = [stage EXCEPT ![c] = "raise"]
      /\ UNCHANGED <<lastId, sent, pending, box, request, returned, asked, lines, taken, reader,
                     child, closed>>
  BY DEF Take, Advance, Pipes
<1>2. IdInv'
  BY <1>1, CheckedGoesDown DEF Take
<1>3. CallInv'
  BY <1>1 DEF McpInv, McpTypeOK, CallInv, Numbered
<1>4. McpTypeOK'
  BY <1>1 DEF McpInv, McpTypeOK
<1> QED
  BY <1>1, <1>2, <1>3, <1>4 DEF McpInv, LineInv, QueueInv, OwnAnswer, Numbered

LEMMA ReturnInv == ASSUME McpInv, NEW c \in Caller, Return(c) PROVE McpInv'
<1>1. /\ stage[c] \in {"got", "raise"}
      /\ stage' = [stage EXCEPT ![c] = "idle"]
      /\ pending' = pending \ {request[c].id}
      /\ returned' = [returned EXCEPT ![c] = Outcome(c)]
      /\ request' = [request EXCEPT ![c] = NoRequest]
      /\ UNCHANGED <<lastId, sent, box, asked, lines, taken, reader, child, closed>>
  BY DEF Return, Advance, Pipes
<1>2. IdInv'
  BY <1>1, CheckedGoesDown DEF Return
<1>3. Outcome(c) \in {"own", "error"}
  <2>1. CASE stage[c] = "raise"
    BY <2>1 DEF Outcome
  <2>2. CASE stage[c] = "got"
    <3>1. /\ request[c].id \in Ids /\ request[c].id = request[c].no
          /\ box[request[c].id] # {}
      BY <2>2, Requested DEF McpInv, CallInv
    <3>2. box[request[c].id] \in {None, {request[c].no}}
      BY <3>1 DEF McpInv, QueueInv
    <3> QED
      BY <3>2 DEF Outcome
  <2> QED
    BY <1>1, <2>1, <2>2
<1>4. CallInv'
  BY <1>1 DEF McpInv, McpTypeOK, CallInv, Numbered
<1>5. McpTypeOK' /\ OwnAnswer'
  BY <1>1, <1>3 DEF McpInv, McpTypeOK, OwnAnswer
<1> QED
  BY <1>1, <1>2, <1>4, <1>5 DEF McpInv, LineInv, QueueInv, Numbered

-----------------------------------------------------------------------------
(* Every step of the reader, of the child and of close() keeps it          *)

\* What a step shows that leaves the callers alone.
LEMMA OthersInv ==
  ASSUME McpInv, UNCHANGED callVars \/ (UNCHANGED <<lastId, sent, request, stage, returned>>
                                        /\ pending' = {}),
         \A i \in Ids : box[i] # {} => box'[i] # {},
         McpTypeOK', LineInv', QueueInv'
  PROVE  McpInv'
<1>1. UNCHANGED <<lastId, sent, request, stage, returned>>
  BY DEF callVars
<1>2. \A c \in Caller : stage[c] = "got" => box'[request[c].id] # {}
  BY Requested DEF McpInv, CallInv
<1>3. CallInv'
  BY <1>1, <1>2 DEF McpInv, CallInv, Numbered
<1> QED
  BY <1>1, <1>3 DEF McpInv, IdInv, Checked, OwnAnswer

LEMMA ReadInv == ASSUME McpInv, NEW line \in lines, Read(line) PROVE McpInv'
<1>1. taken' \in {line, NoRequest} /\ lines' \subseteq lines
      /\ UNCHANGED <<callVars, box, asked, reader, child, closed>>
  BY DEF Read
<1>2. McpTypeOK'
  BY <1>1 DEF McpInv, McpTypeOK, callVars
<1>3. LineInv'
  BY <1>1 DEF McpInv, LineInv, Numbered, NoRequest
<1> QED
  BY <1>1, <1>2, <1>3, OthersInv DEF McpInv, QueueInv

LEMMA DeliverInv == ASSUME McpInv, Deliver PROVE McpInv'
<1>1. taken \in Requests /\ taken.id = taken.no /\ taken.id \in Ids
  BY DEF Deliver, McpInv, McpTypeOK, LineInv, Numbered, Requests
<1>2. /\ \A i \in Ids : box'[i] = box[i] \/ (i = taken.id /\ box'[i] = {i})
      /\ box' \in [Ids -> {{}, None} \cup {{n} : n \in Ids}]
      /\ \A i \in Ids : box[i] # {} => box'[i] # {}
  BY <1>1 DEF Deliver, McpInv, McpTypeOK
<1>3. QueueInv'
  BY <1>2 DEF McpInv, QueueInv
<1>4. McpTypeOK' /\ LineInv'
  BY <1>2 DEF Deliver, McpInv, McpTypeOK, LineInv, Numbered, NoRequest, callVars
<1> QED
  BY <1>2, <1>3, <1>4, OthersInv DEF Deliver

LEMMA WakeAllInv == ASSUME McpInv, WakeAll PROVE McpInv'
<1>1. /\ \A i \in Ids : box'[i] = box[i] \/ (box[i] = {} /\ box'[i] = None)
      /\ box' \in [Ids -> {{}, None} \cup {{n} : n \in Ids}]
  BY DEF WakeAll, McpInv, McpTypeOK
<1>2. QueueInv' /\ \A i \in Ids : box[i] # {} => box'[i] # {}
  BY <1>1 DEF McpInv, QueueInv
<1>3. McpTypeOK' /\ LineInv'
  BY <1>1 DEF WakeAll, McpInv, McpTypeOK, LineInv, Numbered
<1> QED
  BY <1>2, <1>3, OthersInv DEF WakeAll

LEMMA McpNextInv == ASSUME McpInv, [McpNext]_mcpVars PROVE McpInv'
<1>1. ASSUME NEW c \in Caller, Send(c) \/ CallerStep(c) PROVE McpInv'
  BY <1>1, SendInv, RegisterInv, WriteInv, TakeInv, ReturnInv DEF CallerStep
<1>2. CASE \E line \in lines : Read(line)
  BY <1>2, ReadInv
<1>3. CASE Deliver
  BY <1>3, DeliverInv
<1>4. CASE WakeAll
  BY <1>4, WakeAllInv
<1>5. ASSUME NEW line \in asked, ChildAnswers(line) PROVE McpInv'
  <2>1. McpTypeOK' /\ LineInv'
    BY <1>5 DEF ChildAnswers, McpInv, McpTypeOK, LineInv, Numbered, callVars
  <2> QED
    BY <1>5, <2>1, OthersInv DEF ChildAnswers, McpInv, QueueInv
<1>6. CASE EndOfOutput \/ Dies \/ CloseClient
  <2>1. McpTypeOK' /\ LineInv'
    BY <1>6 DEF EndOfOutput, Dies, CloseClient, McpInv, McpTypeOK, LineInv, Numbered, callVars
  <2> QED
    BY <1>6, <2>1, OthersInv DEF EndOfOutput, Dies, CloseClient, McpInv, QueueInv
<1>7. CASE UNCHANGED mcpVars
  <2>1. McpTypeOK' /\ LineInv'
    BY <1>7 DEF mcpVars, McpInv, McpTypeOK, LineInv, Numbered
  <2> QED
    BY <1>7, <2>1, OthersInv DEF mcpVars, callVars, McpInv, QueueInv
<1> QED
  BY <1>1, <1>2, <1>3, <1>4, <1>5, <1>6, <1>7 DEF McpNext, ReaderStep

LEMMA McpInvHolds == McpSpec => []McpInv
BY McpInitInv, McpNextInv, PTL DEF McpSpec

-----------------------------------------------------------------------------
(* Theorems                                                                *)

\* The client's tables stay in their types: an id drawn is one of the requests
\* made, and a queue holds one answer at most (mcp_client.py, _send).
THEOREM McpTypeCorrect == McpSpec => []McpTypeOK
BY McpInvHolds, PTL DEF McpInv

\* No call returns the answer to another request, whichever threads call and
\* however late and in whatever order the child answers (mcp_client.py, _send and
\* _read_loop).
THEOREM OwnAnswerHolds == McpSpec => []OwnAnswer
BY McpInvHolds, PTL DEF McpInv
=============================================================================
