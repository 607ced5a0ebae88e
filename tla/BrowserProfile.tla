--------------------------- MODULE BrowserProfile ---------------------------
(***************************************************************************)
(* Obscura processes on one --storage-dir: ObscuraBridge.warmup with its   *)
(* singleflight and its skip window (obscura_bridge.py), and               *)
(* auth.BrowserLogin.run, which starts an McpClient on the same profile.   *)
(* All of them hold profile_lock while a process of theirs runs.           *)
(***************************************************************************)
EXTENDS Naturals, FiniteSets

CONSTANTS
  Warmer,       \* threads that call warmup() of the app's bridge
  LoginThread,  \* threads that log in to an account
  NoUser,
  MaxCalls      \* bound: calls of each thread

User == Warmer \cup LoginThread

ASSUME ProfileAssumption ==
  NoUser \notin User /\ IsFiniteSet(LoginThread) /\ MaxCalls \in Nat

Cookies == {"none", "plain", "waf"}  \* no cookies, some, some with aws-waf-token

VARIABLES
  profileLock, \* who holds the profile's lock
  browsers,    \* users with a live process
  orphans,     \* live processes that nobody refers to any more
  cookies,     \* bridge.state.cookies; warmed is whether there are any
  agent,       \* whether bridge.state.user_agent is known
  recent,      \* _last_warmup_ok is less than WARMUP_SKIP_SECONDS old
  inflight,    \* the leader whose event _warm_inflight holds
  place,       \* where each thread is
  dump,        \* the cookies a leader has got so far
  calls        \* calls made so far

profileVars == <<profileLock, browsers, orphans, cookies, agent, recent, inflight, place,
                 dump, calls>>

ProfilePlaces == {"idle", "follow", "lead", "pass1", "pass1_runs", "dump", "dump_runs", "agent",
           "agent_runs", "store", "publish", "queue", "locked", "init", "session", "closed"}

ProfileTypeOK ==
  /\ profileLock \in User \cup {NoUser}
  /\ browsers \subseteq User
  /\ orphans \in 0..(MaxCalls * Cardinality(LoginThread))
  /\ cookies \in Cookies
  /\ {agent, recent} \subseteq BOOLEAN
  /\ inflight \in Warmer \cup {NoUser}
  /\ place \in [User -> ProfilePlaces]
  /\ dump \in [Warmer -> Cookies]
  /\ calls \in [User -> 0..MaxCalls]

ProfileInit ==
  /\ profileLock = NoUser
  /\ browsers = {} /\ orphans = 0
  /\ cookies = "none" /\ agent = FALSE /\ recent = FALSE
  /\ inflight = NoUser
  /\ place = [u \in User |-> "idle"]
  /\ dump = [w \in Warmer |-> "none"]
  /\ calls = [u \in User |-> 0]

Step(u, from, to) ==
  /\ place[u] = from
  /\ place' = [place EXCEPT ![u] = to]

BeginCall(u, to) ==
  /\ Step(u, "idle", to)
  /\ calls[u] < MaxCalls
  /\ calls' = [calls EXCEPT ![u] = @ + 1]

State == <<cookies, agent, recent>>
Flight == <<inflight, dump>>

-----------------------------------------------------------------------------
(* warmup()                                                                *)

Warm == recent /\ cookies = "waf"

\* Warm cookies are returned at once (the thread stays idle).
Warmup(w) ==
  /\ \/ Warm /\ BeginCall(w, "idle") /\ UNCHANGED inflight
     \/ ~Warm /\ inflight # NoUser /\ BeginCall(w, "follow") /\ UNCHANGED inflight
     \/ ~Warm /\ inflight = NoUser /\ BeginCall(w, "lead") /\ inflight' = w
  /\ UNCHANGED <<profileLock, browsers, orphans, State, dump>>

\* A follower waits for its leader's event (Publish) or its timeout.
FollowerTimesOut(w) ==
  /\ Step(w, "follow", "idle")
  /\ UNCHANGED <<profileLock, browsers, orphans, State, Flight, calls>>

\* The leader waits for the lock without a deadline.
LeaderLocks(w) ==
  /\ profileLock = NoUser
  /\ Step(w, "lead", "pass1")
  /\ profileLock' = w
  /\ dump' = [dump EXCEPT ![w] = "none"]
  /\ UNCHANGED <<browsers, orphans, State, inflight, calls>>

\* _run() starts a process; it has ended when _run() returns or raises.
StartRun(w) ==
  /\ \/ Step(w, "pass1", "pass1_runs") \/ Step(w, "dump", "dump_runs")
     \/ ~agent /\ Step(w, "agent", "agent_runs")
  /\ browsers' = browsers \cup {w}
  /\ UNCHANGED <<profileLock, orphans, State, Flight, calls>>

\* Cookies parsed from the output; none of a process that failed or timed out.
EndRun(w) ==
  /\ \E got \in Cookies :
       /\ \/ Step(w, "pass1_runs", IF got = "none" THEN "dump" ELSE "agent")
          \/ Step(w, "dump_runs", "agent")
       /\ dump' = [dump EXCEPT ![w] = IF got = "none" /\ place[w] = "dump_runs"
                                      THEN cookies ELSE got]  \* kept when empty
  /\ browsers' = browsers \ {w}
  /\ UNCHANGED <<profileLock, orphans, State, inflight, calls>>

AgentKnown(w) ==
  /\ \/ agent /\ Step(w, "agent", "store") /\ UNCHANGED agent
     \/ Step(w, "agent_runs", "store") /\ agent' \in BOOLEAN
  /\ browsers' = browsers \ {w}
  /\ UNCHANGED <<profileLock, orphans, cookies, recent, Flight, calls>>

\* The new state and its stamp; then the lock is let go.
Store(w) ==
  /\ Step(w, "store", "publish")
  /\ cookies' = dump[w]
  /\ recent' = (recent \/ dump[w] = "waf")
  /\ profileLock' = NoUser
  /\ UNCHANGED <<browsers, orphans, agent, Flight, calls>>

\* The finally: the flight is over, and its followers wake.
Publish(w) ==
  /\ place[w] = "publish"
  /\ place' = [u \in User |-> IF u = w \/ place[u] = "follow" THEN "idle" ELSE place[u]]
  /\ inflight' = NoUser
  /\ UNCHANGED <<profileLock, browsers, orphans, State, dump, calls>>

SkipWindowEnds ==
  /\ recent
  /\ recent' = FALSE
  /\ UNCHANGED <<profileLock, browsers, orphans, cookies, agent, Flight, place, calls>>

-----------------------------------------------------------------------------
(* BrowserLogin.run and McpClient's constructor and close()                *)

\* A bug to find: the profile's lock is one per bridge instance.
LoginLocks_OwnLock(l) ==
  /\ Step(l, "queue", "locked")
  /\ profileLock' = IF profileLock = NoUser THEN l ELSE profileLock
  /\ UNCHANGED <<browsers, orphans, State, Flight, calls>>

Login(l) ==
  /\ BeginCall(l, "queue")
  /\ UNCHANGED <<profileLock, browsers, orphans, State, Flight>>

LoginLocks(l) ==
  /\ profileLock = NoUser
  /\ Step(l, "queue", "locked")
  /\ profileLock' = l
  /\ UNCHANGED <<browsers, orphans, State, Flight, calls>>

\* "Obscura profile busy", after 180 s.
LoginGivesUp(l) ==
  /\ profileLock # NoUser
  /\ Step(l, "queue", "idle")
  /\ UNCHANGED <<profileLock, browsers, orphans, State, Flight, calls>>

\* Popen starts the process or raises.
StartBrowser(l) ==
  /\ \/ Step(l, "locked", "init") /\ browsers' = browsers \cup {l}
     \/ Step(l, "locked", "closed") /\ UNCHANGED browsers
  /\ UNCHANGED <<profileLock, orphans, State, Flight, calls>>

\* A bug to find: the lock is not released after a failed start.
Initialise_KeepsLock(l) ==
  /\ \/ Step(l, "init", "session") /\ UNCHANGED browsers
     \/ Step(l, "init", "idle") /\ browsers' = browsers \ {l}
  /\ UNCHANGED <<profileLock, orphans, State, Flight, calls>>

\* _init() succeeds, or raises because the process has ended, or because it
\* does not answer: then the constructor has raised, so that nobody can close
\* the process, and the reader thread keeps the object from being collected.
Initialise(l) ==
  /\ \/ Step(l, "init", "session") /\ UNCHANGED <<browsers, orphans>>
     \/ /\ Step(l, "init", "closed")
        /\ browsers' = browsers \ {l}
        /\ orphans' \in {orphans, orphans + 1}
  /\ UNCHANGED <<profileLock, State, Flight, calls>>

\* The end of the with block: close() waits for the process to end, terminates and
\* kills it; when even the wait after the kill times out, it goes on without it.
Close(l) ==
  /\ Step(l, "session", "closed")
  /\ browsers' = browsers \ {l}
  /\ orphans' \in {orphans, orphans + 1}
  /\ UNCHANGED <<profileLock, State, Flight, calls>>

Unlock(l) ==
  /\ Step(l, "closed", "idle")
  /\ profileLock' = NoUser
  /\ UNCHANGED <<browsers, orphans, State, Flight, calls>>

-----------------------------------------------------------------------------

WarmupStep(w) ==
  \/ FollowerTimesOut(w) \/ LeaderLocks(w) \/ StartRun(w) \/ EndRun(w) \/ AgentKnown(w)
  \/ Store(w) \/ Publish(w)
LoginStep(l) ==
  \/ LoginLocks(l) \/ LoginGivesUp(l) \/ StartBrowser(l) \/ Initialise(l) \/ Close(l)
  \/ Unlock(l)

ProfileNext ==
  \/ \E w \in Warmer : Warmup(w) \/ WarmupStep(w)
  \/ \E l \in LoginThread : Login(l) \/ LoginStep(l)
  \/ SkipWindowEnds

ProfileSpec == ProfileInit /\ [][ProfileNext]_profileVars

\* Threads run, processes answer or time out; nobody has to call.
ProfileFairness ==
  /\ \A w \in Warmer : WF_profileVars(WarmupStep(w))
  /\ \A l \in LoginThread : WF_profileVars(LoginStep(l))

-----------------------------------------------------------------------------

(* "Two obscura processes on one --storage-dir race on the cookie jar and  *)
(* corrupt it" (obscura_bridge.py, profile_lock): a warmup's process and a *)
(* login's, or two of either, never run at once.  Only a process that hung *)
(* while a login initialised it, or that outlasts its kill, outlives the   *)
(* lock (orphans).                                                         *)
OneBrowserPerProfile == Cardinality(browsers) <= 1

(* Every warmup and every login comes back, although a leader waits for    *)
(* the profile without a deadline.                                         *)
ProfileCallsReturn == \A u \in User : place[u] # "idle" ~> place[u] = "idle"
=============================================================================
