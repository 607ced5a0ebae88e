--------------------------- MODULE CompletionCore ---------------------------
(***************************************************************************)
(* One chat request inside _run_completion_core: opening an upstream       *)
(* session, the attempts and their chain of retries (PoW, session, token,  *)
(* WAF, overload), the browser login on an invalid token, what becomes of  *)
(* the upstream sessions, and the failover loop's next run.  The request's *)
(* thread interleaves with a client that leaves and with the job that      *)
(* creates a session for it.                                               *)
(*                                                                         *)
(* An error is the set of the signs the code looks for in its text; {} is  *)
(* no error and {"other"} an error without any of them.                    *)
(***************************************************************************)
EXTENDS Naturals, Sequences

CONSTANTS
  MaxRetries,     \* settings.max_retries
  MaxTries,       \* max_tries of the failover loop
  Parallel,       \* values settings.parallel_challenge_fetch may have
  AutoDelete,     \* values settings.auto_delete_session may have
  Live,           \* does text go to the client as it arrives?
  SetupErrors,    \* errors of create_session and fetch_pow
  AttemptErrors,  \* errors of a completion stream
  Textless        \* signs that only an error before any text carries

Sign == {"pow", "session", "token", "waf", "overload", "ban", "other"}

ASSUME ErrorAssumption ==
  /\ {MaxRetries, MaxTries} \subseteq Nat
  /\ Parallel \cup AutoDelete \cup Live \subseteq BOOLEAN
  /\ SetupErrors \cup AttemptErrors \subseteq SUBSET Sign \ {{}}
  /\ Textless \subseteq Sign

VARIABLES
  config,     \* the settings in force
  pc,         \* where the request is
  run,        \* the locals of the current _run_completion_core, see Run
  cancelled,  \* cancel_event is set
  tries,      \* failovers so far
  owner,      \* owner[s]: the token upstream session s of this run was created with
  asked,      \* deletions requested in this run: pairs of a session and a token
  abandoned,  \* sessions created by a job nobody waited for
  emitted     \* history: attempts of the request whose text went to the client

sessionVars == <<owner, asked, abandoned>>
outerVars == <<config, cancelled, tries>>
vars == <<pc, run, sessionVars, outerVars, emitted>>

\* The parts of the chain, in their order.
Position == [setup |-> 1, pow |-> 2, session |-> 3, token |-> 4, waf |-> 5, overload |-> 6]
Stage == DOMAIN Position
Sessions == DOMAIN owner
Token == {0, 1}  \* the account's token at the start, a renewed one
Outcome == {"run", "won", "ban", "auth", "other", "stopped"}

Run ==
  [stage     : Stage,                     \* the part of the chain it is in
   used      : [Stage -> Nat],            \* retries made in each
   err       : SUBSET Sign,               \* error of the last setup call or attempt
   text      : BOOLEAN,                   \* the last attempt brought text
   tok       : Token,                     \* token
   refreshed : BOOLEAN,                   \* token_refreshed
   logins    : Nat,                       \* history: token refreshes asked for
   sid       : Nat,                       \* session_id, 0 for None
   header    : Token,                     \* token of the next attempt's headers
   payload   : Nat,                       \* session of the next attempt's payload
   emitting  : BOOLEAN,                   \* emitted_live
   outcome   : Outcome,                   \* how it ended; "run" before
   marked    : BOOLEAN]                   \* it marked the account banned

NewRun ==
  [stage |-> "setup", used |-> [s \in Stage |-> 0], err |-> {}, text |-> FALSE,
   tok |-> 0, refreshed |-> FALSE, logins |-> 0, sid |-> 0, header |-> 0,
   payload |-> 0, emitting |-> FALSE, outcome |-> "run", marked |-> FALSE]

TypeOK ==
  /\ config \in [parallel : Parallel, autoDelete : AutoDelete, live : Live]
  /\ pc \in {"begin", "creating", "challenge", "setupFailed", "login", "probe", "solve",
             "attempt", "judge", "recreate", "warming", "cleanup", "ended"}
  /\ run \in Run
  /\ run.sid \in Sessions \cup {0} /\ run.payload \in Sessions \cup {0}
  /\ \A s \in Stage \ {"setup"} : run.used[s] <= MaxRetries
  /\ cancelled \in BOOLEAN
  /\ tries \in Nat /\ emitted \in Nat
  /\ owner \in Seq(Token)
  /\ asked \subseteq Sessions \X Token
  /\ abandoned \subseteq Sessions

Init ==
  /\ config \in [parallel : Parallel, autoDelete : AutoDelete, live : Live]
  /\ pc = "begin"
  /\ run = NewRun
  /\ cancelled = FALSE
  /\ tries = 0
  /\ owner = <<>>
  /\ asked = {}
  /\ abandoned = {}
  /\ emitted = 0

Goto(from, to) == pc = from /\ pc' = to

\* The run is over: an exception or the result, on its way through "finally".
End(from, how) ==
  /\ Goto(from, "cleanup")
  /\ run' = [run EXCEPT !.outcome = how, !.marked = (how = "ban")]

Stopped(from) == cancelled /\ End(from, "stopped")

-----------------------------------------------------------------------------
(* Setup: _ensure_token, then _open_session with its two rounds            *)

EnsureToken ==
  /\ \/ /\ Goto("begin", "ended")
        /\ run' = [run EXCEPT !.outcome = "auth"]
     \/ Goto("begin", "creating") /\ UNCHANGED run
  /\ UNCHANGED <<sessionVars, outerVars, emitted>>

\* With the two calls in parallel, one client that leaves also leaves the job
\* behind: it may have started, and then it creates a session.
LeaveCreate ==
  /\ Stopped("creating")
  /\ \/ UNCHANGED <<owner, abandoned>>
     \/ /\ config.parallel
        /\ owner' = Append(owner, run.tok)
        /\ abandoned' = {Len(owner')}
  /\ UNCHANGED <<asked, outerVars, emitted>>

Create ==
  /\ Goto("creating", "challenge")
  /\ owner' = Append(owner, run.tok)
  /\ UNCHANGED <<run, asked, abandoned, outerVars, emitted>>

CreateFails(e) ==
  /\ Goto("creating", "setupFailed")
  /\ run' = [run EXCEPT !.err = e]
  /\ UNCHANGED <<sessionVars, outerVars, emitted>>

\* delete_session, called with the headers the session was created with.
DeleteNew == asked' = asked \cup {<<Len(owner), run.tok>>}

LeaveChallenge ==
  /\ Stopped("challenge")
  /\ DeleteNew
  /\ UNCHANGED <<owner, abandoned, outerVars, emitted>>

ChallengeFails_Leaks(e) ==
  /\ Goto("challenge", "setupFailed")
  /\ run' = [run EXCEPT !.err = e]
  /\ UNCHANGED <<sessionVars, outerVars, emitted>>

ChallengeFails(e) ==
  /\ Goto("challenge", "setupFailed")
  /\ run' = [run EXCEPT !.err = e]
  /\ DeleteNew
  /\ UNCHANGED <<owner, abandoned, outerVars, emitted>>

\* The sequential calls look at the client once more after the challenge.
Challenge ==
  /\ config.parallel \/ ~cancelled
  /\ Goto("challenge", "solve")
  /\ run' = [run EXCEPT !.sid = Len(owner)]
  /\ UNCHANGED <<sessionVars, outerVars, emitted>>

\* A 40003 is probed for a ban, then the browser renews the token, once.
SetupFailed ==
  /\ \/ "ban" \in run.err /\ End("setupFailed", "ban")
     \/ /\ "ban" \notin run.err /\ "token" \in run.err
        /\ \/ run.used["setup"] = 0 /\ End("setupFailed", "ban")
           \/ run.used["setup"] = 0 /\ Goto("setupFailed", "login") /\ UNCHANGED run
           \/ run.used["setup"] = 1 /\ Goto("setupFailed", "probe") /\ UNCHANGED run
     \/ {"ban", "token"} \cap run.err = {} /\ End("setupFailed", "other")
  /\ UNCHANGED <<sessionVars, outerVars, emitted>>

\* The last probe of an account whose token stays invalid.
Probe ==
  /\ \E how \in {"ban", "auth"} : End("probe", how)
  /\ UNCHANGED <<sessionVars, outerVars, emitted>>

-----------------------------------------------------------------------------
(* _refresh_token_once, from setup and from the token stage                *)

LoginWanted_Always == TRUE

LoginWanted == ~run.refreshed

\* Renewed (the value may be the old one): setup starts over, the token stage
\* creates a new session.
TokenRenewed(t) ==
  /\ t \in {run.tok, 1}
  /\ IF run.stage = "setup"
     THEN /\ Goto("login", "creating")
          /\ run' = [run EXCEPT !.tok = t, !.refreshed = TRUE, !.logins = @ + 1,
                                !.err = {}, !.used["setup"] = 1]
     ELSE /\ Goto("login", "recreate")
          /\ run' = [run EXCEPT !.tok = t, !.refreshed = TRUE, !.logins = @ + 1]

\* No token: setup gives up, the token stage is left.
NoNewToken ==
  IF run.stage = "setup"
  THEN /\ Goto("login", "probe")
       /\ run' = [run EXCEPT !.logins = @ + 1]
  ELSE /\ Goto("login", "judge")
       /\ run' = [run EXCEPT !.stage = "waf",
                             !.logins = IF LoginWanted THEN @ + 1 ELSE @]

Login ==
  /\ \/ LoginWanted /\ Stopped("login")
     \/ LoginWanted /\ ~cancelled /\ End("login", "ban")
     \/ LoginWanted /\ ~cancelled /\ \E t \in Token : TokenRenewed(t)
     \/ LoginWanted /\ ~cancelled /\ NoNewToken
     \/ ~LoginWanted /\ NoNewToken
  /\ UNCHANGED <<sessionVars, outerVars, emitted>>

-----------------------------------------------------------------------------
(* PoW and the attempt                                                     *)

Solve_OldPayload ==
  /\ Goto("solve", "attempt")
  /\ run.stage = "setup" => ~cancelled
  /\ run' = [run EXCEPT !.header = run.tok,
                        !.payload = IF run.stage = "setup" THEN run.sid ELSE @]
  /\ UNCHANGED <<sessionVars, outerVars, emitted>>

\* Fresh headers; a new payload where the session may be a new one.
Solve ==
  /\ Goto("solve", "attempt")
  /\ run.stage = "setup" => ~cancelled
  /\ run' = [run EXCEPT !.header = run.tok,
                        !.payload = IF run.stage \in {"setup", "session", "token"}
                                    THEN run.sid ELSE @]
  /\ UNCHANGED <<sessionVars, outerVars, emitted>>

\* An overload retry goes on with the headers it has.
SolveFails ==
  /\ IF run.stage = "overload"
     THEN Goto("solve", "attempt") /\ UNCHANGED run
     ELSE End("solve", "other")
  /\ UNCHANGED <<sessionVars, outerVars, emitted>>

StopBeforeSolve ==
  /\ run.stage = "setup"
  /\ Stopped("solve")
  /\ UNCHANGED <<sessionVars, outerVars, emitted>>

\* _attempt: text, then perhaps an error event, or the client is found gone.
Attempt(t, e) ==
  /\ Goto("attempt", "judge")
  /\ t => e \cap Textless = {}
  /\ run' = [run EXCEPT !.text = t, !.err = e,
                        !.emitting = @ \/ (t /\ config.live),
                        !.stage = IF @ = "setup" THEN "pow" ELSE @]
  /\ emitted' = IF t /\ config.live THEN emitted + 1 ELSE emitted
  /\ UNCHANGED <<sessionVars, outerVars>>

\* The connection breaks: the exception is not handled here.
AttemptRaises(t) ==
  /\ End("attempt", "other")
  /\ emitted' = IF t /\ config.live THEN emitted + 1 ELSE emitted
  /\ UNCHANGED <<sessionVars, outerVars>>

-----------------------------------------------------------------------------
(* The chain of retry loops                                                *)

RetryDue_IgnoresEmitted(s) ==
  /\ ~cancelled
  /\ s \in run.err
  /\ run.used[s] < MaxRetries

RetryDue_IgnoresClient(s) ==
  /\ s \in run.err
  /\ run.used[s] < MaxRetries
  /\ s = "overload" => ~run.emitting

RetryDue_OnceMore(s) ==
  /\ ~cancelled
  /\ s \in run.err
  /\ run.used[s] <= MaxRetries
  /\ s = "overload" => ~run.emitting

\* Does the loop of stage s go round (again)?
RetryDue(s) ==
  /\ ~cancelled
  /\ s \in run.err
  /\ run.used[s] < MaxRetries
  /\ s = "overload" => ~run.emitting

\* The first step of each loop's body; that of the WAF loop gives the slot up.
FirstStep == [pow |-> "solve", session |-> "recreate", token |-> "login",
              waf |-> "warming", overload |-> "solve"]

Counted_Never(s) == run.used[s]

Counted(s) == run.used[s] + 1

Due == {s \in DOMAIN FirstStep : Position[s] >= Position[run.stage] /\ RetryDue(s)}

Retry(s) ==
  /\ s \in Due
  /\ \A t \in Due : Position[s] <= Position[t]
  /\ Goto("judge", FirstStep[s])
  /\ run' = [run EXCEPT !.stage = s, !.used[s] = Counted(s)]
  /\ UNCHANGED <<sessionVars, outerVars, emitted>>

\* The token the old session is deleted with: the one before the renewal, which
\* the headers of the last attempt still have.
OldToken == IF run.stage = "token" THEN run.header ELSE run.tok

Recreate_DeletesAnyway ==
  /\ Goto("recreate", "solve")
  /\ \E new \in {run.sid, Len(owner) + 1} :
       /\ run' = [run EXCEPT !.sid = new]
       /\ owner' = IF new = run.sid THEN [owner EXCEPT ![new] = run.tok]
                                    ELSE Append(owner, run.tok)
       /\ asked' = IF config.autoDelete
                   THEN asked \cup {<<run.sid, OldToken>>} ELSE asked
  /\ UNCHANGED <<abandoned, outerVars, emitted>>

\* A new session, or the old one again; an old one left behind is deleted.
Recreate ==
  /\ Goto("recreate", "solve")
  /\ \E new \in {run.sid, Len(owner) + 1} :
       /\ run' = [run EXCEPT !.sid = new]
       /\ owner' = IF new = run.sid THEN [owner EXCEPT ![new] = run.tok]
                                    ELSE Append(owner, run.tok)
       /\ asked' = IF config.autoDelete /\ new # run.sid
                   THEN asked \cup {<<run.sid, OldToken>>} ELSE asked
  /\ UNCHANGED <<abandoned, outerVars, emitted>>

RecreateFails(e) ==
  /\ \/ "ban" \in e /\ End("recreate", "ban")
     \/ run.stage = "token" /\ "token" \in e /\ End("recreate", "ban")
     \/ "ban" \notin e /\ End("recreate", "other")
  /\ UNCHANGED <<sessionVars, outerVars, emitted>>

\* The slot is the request's again; the loop is left if the client has gone.
TakeSlotBack ==
  /\ IF cancelled
     THEN Goto("warming", "judge") /\ run' = [run EXCEPT !.stage = "overload"]
     ELSE Goto("warming", "solve") /\ UNCHANGED run
  /\ UNCHANGED <<sessionVars, outerVars, emitted>>

LeaveWarming ==
  /\ Stopped("warming")
  /\ UNCHANGED <<sessionVars, outerVars, emitted>>

-----------------------------------------------------------------------------
(* The end of the run                                                      *)

Failed == run.err # {} \/ ~run.text

\* No loop goes round any more: the last error decides.
Conclude ==
  /\ Due = {}
  /\ \/ Stopped("judge")
     \/ /\ ~cancelled
        /\ \/ "token" \in run.err /\ Goto("judge", "probe") /\ UNCHANGED run
           \/ "token" \notin run.err /\ "ban" \in run.err /\ End("judge", "ban")
           \/ {"token", "ban"} \cap run.err = {} /\ Failed /\ End("judge", "other")
           \/ ~Failed /\ End("judge", "won")
  /\ UNCHANGED <<sessionVars, outerVars, emitted>>

\* The "finally": the session goes, with the token of now.
CleanUp ==
  /\ Goto("cleanup", "ended")
  /\ asked' = IF config.autoDelete /\ run.sid # 0
              THEN asked \cup {<<run.sid, run.tok>>} ELSE asked
  /\ UNCHANGED <<run, owner, abandoned, outerVars, emitted>>

\* _complete_with_failover_sync runs the completion again on another account.
NextAccount ==
  /\ run.outcome \in {"ban", "auth"}
  /\ ~cancelled
  /\ tries + 1 < MaxTries
  /\ Goto("ended", "begin")
  /\ run' = NewRun
  /\ tries' = tries + 1
  /\ owner' = <<>>
  /\ asked' = {}
  /\ abandoned' = {}
  /\ UNCHANGED <<config, cancelled, emitted>>

ClientLeaves ==
  /\ pc # "ended"
  /\ cancelled' = TRUE
  /\ UNCHANGED <<pc, run, config, tries, sessionVars, emitted>>

Setup ==
  \/ EnsureToken
  \/ LeaveCreate
  \/ Create
  \/ \E e \in SetupErrors : CreateFails(e) \/ ChallengeFails(e)
  \/ LeaveChallenge
  \/ Challenge
  \/ SetupFailed
  \/ Probe
  \/ Login

Attempts ==
  \/ Solve
  \/ SolveFails
  \/ StopBeforeSolve
  \/ \E t \in BOOLEAN, e \in AttemptErrors \cup {{}} : Attempt(t, e)
  \/ \E t \in BOOLEAN : AttemptRaises(t)
  \/ \E s \in Stage : Retry(s)
  \/ Recreate
  \/ \E e \in SetupErrors : RecreateFails(e)
  \/ TakeSlotBack
  \/ LeaveWarming

Step == Setup \/ Attempts \/ Conclude \/ CleanUp \/ NextAccount

Next == Step \/ ClientLeaves

Spec == Init /\ [][Next]_vars

\* The thread keeps running: every call it waits for has a timeout.
FairSpec == Spec /\ WF_vars(Step)

-----------------------------------------------------------------------------
(* Properties                                                              *)

\* Text of at most one attempt goes to the client: a second one would start the
\* reply again from its beginning.
TextOnce == emitted <= 1

\* An attempt runs with headers of the token in use, in the current session,
\* created with that token.
AttemptConsistent ==
  pc = "attempt" =>
    /\ run.header = run.tok
    /\ run.payload = run.sid
    /\ owner[run.sid] = run.tok

\* No attempt runs in a session whose deletion was requested.
SessionAlive ==
  pc = "attempt" => \A t \in Token : <<run.payload, t>> \notin asked

\* With auto_delete_session, every session a run created is deleted by its end,
\* but one that a job created after the client had left.
SessionsAccounted ==
  pc = "ended" /\ config.autoDelete
    => \A s \in Sessions \ abandoned : \E t \in Token : <<s, t>> \in asked

\* A run asks for one browser login at most.
OneLogin == run.logins <= 1

\* The run implements what the failover loop relies on.
Contract == INSTANCE CompletionOutcome WITH
  phase <- IF pc = "warming" THEN "warm" ELSE run.outcome,
  waf <- MaxRetries - run.used["waf"],
  marked <- run.marked

ContractSpec == Contract!Spec

\* Every run ends, however the upstream answers.
EveryRunEnds == pc = "begin" ~> pc = "ended"
=============================================================================
