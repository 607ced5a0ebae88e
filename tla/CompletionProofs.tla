-------------------------- MODULE CompletionProofs --------------------------
(***************************************************************************)
(* Theorems about CompletionCore, for any retry and failover limits and    *)
(* any errors the upstream may answer with.                                *)
(***************************************************************************)
EXTENDS CompletionCore, SequenceTheorems, TLAPS

\* Where the request is tells whether the run has ended, and whether it has a
\* session.
PhaseInv ==
  /\ run.outcome = "run" <=> pc \notin {"cleanup", "ended"}
  /\ run.outcome = "run" => ~run.marked
  /\ pc \in {"begin", "creating", "challenge", "setupFailed"} => run.stage = "setup"
  /\ pc = "challenge" => owner # <<>>
  /\ pc \in {"solve", "attempt", "judge", "recreate", "warming"} => run.sid # 0
  /\ pc = "login" /\ run.stage # "setup" => run.sid # 0

\* Setup logs in only before its second round, and a login without a token is the
\* last one: it is never followed by the loop of the token stage.
LoginInv ==
  /\ run.logins <= 1
  /\ run.stage = "setup" /\ pc = "login" => run.used["setup"] = 0
  /\ /\ pc \in {"begin", "creating", "challenge", "setupFailed", "login"}
     /\ run.stage = "setup" /\ run.used["setup"] = 0
     => run.logins = 0
  /\ run.logins = 1 =>
       \/ run.refreshed
       \/ pc \in {"probe", "cleanup", "ended"}
       \/ /\ run.stage \in {"waf", "overload"}
          /\ pc \in {"judge", "warming", "solve", "attempt"}

Inv == TypeOK /\ PhaseInv /\ LoginInv

-----------------------------------------------------------------------------
(* Types and phases                                                        *)

LEMMA StageSet == Stage = {"setup", "pow", "session", "token", "waf", "overload"}
BY DEF Stage, Position

LEMMA LoopSet == DOMAIN FirstStep = Stage \ {"setup"}
BY StageSet DEF FirstStep

LEMMA NewRunType ==
  /\ NewRun \in Run
  /\ NewRun.outcome = "run" /\ ~NewRun.marked /\ NewRun.stage = "setup"
  /\ NewRun.logins = 0 /\ NewRun.sid = 0 /\ NewRun.payload = 0
  /\ \A s \in Stage : NewRun.used[s] = 0
BY StageSet DEF NewRun, Run, Token, Outcome

\* What creating a session does to the sessions of the run.
LEMMA SessionAdded ==
  ASSUME owner \in Seq(Token), NEW t \in Token, owner' = Append(owner, t)
  PROVE  /\ owner' \in Seq(Token) /\ owner' # <<>>
         /\ Len(owner') = Len(owner) + 1
         /\ Sessions \subseteq Sessions'
         /\ Len(owner') \in Sessions'
         /\ Len(owner') # 0
BY AppendProperties, LenProperties DEF Sessions

LEMMA SessionsAreNumbers ==
  ASSUME owner \in Seq(Token)
  PROVE  Sessions = 1..Len(owner) /\ Len(owner) \in Nat /\ 0 \notin Sessions
BY LenProperties DEF Sessions

LEMMA InitInv == Init => Inv
<1> SUFFICES ASSUME Init PROVE Inv
  OBVIOUS
<1>1. run.sid \in Sessions \cup {0} /\ run.payload \in Sessions \cup {0}
  BY NewRunType DEF Init
<1>2. \A s \in Stage \ {"setup"} : run.used[s] <= MaxRetries
  BY NewRunType, ErrorAssumption DEF Init
<1>3. owner \in Seq(Token)
  BY EmptySeq DEF Init
<1>4. TypeOK
  BY <1>1, <1>2, <1>3, NewRunType DEF Init, TypeOK
<1> QED
  BY <1>4, NewRunType DEF Init, Inv, PhaseInv, LoginInv

-----------------------------------------------------------------------------
(* Every step keeps the invariant                                          *)

\* Ending the run, wherever it is.
LEMMA EndRun ==
  ASSUME Inv, NEW from, NEW how \in {"won", "ban", "auth", "other", "stopped"}, End(from, how)
  PROVE  /\ run' \in Run
         /\ run'.sid = run.sid /\ run'.payload = run.payload /\ run'.used = run.used
         /\ PhaseInv' /\ LoginInv'
<1>1. run' \in Run /\ run' = [run EXCEPT !.outcome = how, !.marked = (how = "ban")]
  BY DEF End, Inv, TypeOK, Run, Outcome
<1>2. /\ run'.sid = run.sid /\ run'.payload = run.payload /\ run'.used = run.used
      /\ run'.outcome = how /\ run'.logins = run.logins
  BY <1>1 DEF Inv, TypeOK, Run
<1> QED
  BY <1>1, <1>2 DEF End, Goto, Inv, PhaseInv, LoginInv

LEMMA EndInv ==
  ASSUME Inv, NEW from, NEW how \in {"won", "ban", "auth", "other", "stopped"}, End(from, how),
         UNCHANGED <<sessionVars, outerVars>>, emitted' \in Nat
  PROVE  Inv'
BY EndRun DEF End, Goto, Inv, TypeOK, outerVars, sessionVars, Sessions

\* What a step inside the run has to show when it leaves the sessions alone.
LEMMA MoveInv ==
  ASSUME Inv, UNCHANGED <<sessionVars, outerVars>>, emitted' \in Nat,
         pc' \in {"creating", "challenge", "setupFailed", "login", "probe", "solve",
                  "attempt", "judge", "recreate", "warming"},
         run' \in Run, run'.sid \in Sessions \cup {0}, run'.payload \in {run.payload, run.sid},
         \A s \in Stage \ {"setup"} : run'.used[s] <= MaxRetries,
         PhaseInv', LoginInv'
  PROVE  Inv'
BY DEF Inv, TypeOK, outerVars, sessionVars, Sessions

-----------------------------------------------------------------------------
(* Every step of the setup keeps the invariant                             *)

LEMMA LeaveCreateInv == ASSUME Inv, LeaveCreate PROVE Inv'
<1>1. End("creating", "stopped")
  BY DEF LeaveCreate, Stopped
<1>2. owner \in Seq(Token) /\ run.tok \in Token
  BY DEF Inv, TypeOK, Run
<1>3. CASE UNCHANGED <<owner, abandoned>>
  <2>1. UNCHANGED <<sessionVars, outerVars>> /\ emitted' \in Nat
    BY <1>3 DEF LeaveCreate, sessionVars, Inv, TypeOK
  <2> QED
    BY <1>1, <2>1, EndInv
<1>4. CASE owner' = Append(owner, run.tok) /\ abandoned' = {Len(owner')}
  <2>1. /\ owner' \in Seq(Token)
        /\ Sessions \subseteq Sessions'
        /\ abandoned' \subseteq Sessions'
    BY <1>2, <1>4, SessionAdded
  <2>2. asked' \subseteq Sessions' \X Token
    BY <2>1 DEF LeaveCreate, Inv, TypeOK
  <2>3. run' \in Run /\ PhaseInv' /\ LoginInv'
    BY <1>1, EndRun
  <2>4. /\ run'.sid \in Sessions' \cup {0} /\ run'.payload \in Sessions' \cup {0}
        /\ \A s \in Stage \ {"setup"} : run'.used[s] <= MaxRetries
    BY <1>1, EndRun, <2>1 DEF Inv, TypeOK
  <2>5. pc' = "cleanup" /\ UNCHANGED <<outerVars, emitted>>
    BY <1>1 DEF End, Goto, LeaveCreate
  <2> QED
    BY <2>1, <2>2, <2>3, <2>4, <2>5 DEF outerVars, Inv, TypeOK
<1> QED
  BY <1>3, <1>4 DEF LeaveCreate

LEMMA LeaveChallengeInv == ASSUME Inv, LeaveChallenge PROVE Inv'
<1>1. End("challenge", "stopped")
  BY DEF LeaveChallenge, Stopped
<1>2. Len(owner) \in Sessions
  BY SessionsAreNumbers DEF LeaveChallenge, Stopped, End, Goto, Inv, TypeOK, PhaseInv
<1>3. asked' \subseteq Sessions \X Token
  BY <1>2 DEF LeaveChallenge, DeleteNew, Inv, TypeOK, Run
<1> QED
  BY <1>1, <1>3, EndRun DEF LeaveChallenge, End, Goto, Inv, TypeOK, outerVars, Sessions

LEMMA CreateInv == ASSUME Inv, Create PROVE Inv'
<1>1. /\ owner' \in Seq(Token) /\ owner' # <<>>
      /\ Sessions \subseteq Sessions'
  BY SessionAdded DEF Create, Inv, TypeOK, Run
<1>2. TypeOK'
  BY <1>1 DEF Create, Goto, Inv, TypeOK, outerVars
<1> QED
  BY <1>1, <1>2 DEF Create, Goto, Inv, PhaseInv, LoginInv

LEMMA FailureInv ==
  ASSUME Inv, NEW e \in SetupErrors, CreateFails(e) \/ ChallengeFails(e)
  PROVE  Inv'
<1>1. run' \in Run /\ run' = [run EXCEPT !.err = e] /\ pc' = "setupFailed"
  BY ErrorAssumption DEF CreateFails, ChallengeFails, Goto, Inv, TypeOK, Run
<1>2. /\ run'.sid = run.sid /\ run'.payload = run.payload /\ run'.used = run.used
      /\ run'.outcome = run.outcome /\ run'.logins = run.logins /\ run'.stage = run.stage
      /\ run'.refreshed = run.refreshed /\ run'.marked = run.marked
  BY <1>1 DEF Inv, TypeOK, Run
<1>3. asked' \subseteq Sessions \X Token
  BY SessionsAreNumbers DEF CreateFails, ChallengeFails, DeleteNew, Goto, Inv, TypeOK, PhaseInv,
     sessionVars, Run
<1>4. UNCHANGED <<owner, abandoned, outerVars, emitted>>
  BY DEF CreateFails, ChallengeFails, sessionVars
<1>5. TypeOK'
  BY <1>1, <1>2, <1>3, <1>4 DEF Inv, TypeOK, outerVars, Sessions
<1>6. PhaseInv' /\ LoginInv'
  BY <1>1, <1>2, <1>4 DEF CreateFails, ChallengeFails, Goto, Inv, PhaseInv, LoginInv
<1> QED
  BY <1>5, <1>6 DEF Inv

LEMMA ChallengeInv == ASSUME Inv, Challenge PROVE Inv'
<1>1. Len(owner) \in Nat \ {0} /\ Len(owner) \in Sessions
  BY SessionsAreNumbers DEF Challenge, Goto, Inv, TypeOK, PhaseInv
<1>2. run' = [run EXCEPT !.sid = Len(owner)] /\ run' \in Run
  BY <1>1 DEF Challenge, Inv, TypeOK, Run
<1>3. /\ run'.sid = Len(owner) /\ run'.payload = run.payload /\ run'.used = run.used
      /\ run'.outcome = run.outcome /\ run'.logins = run.logins /\ run'.stage = run.stage
      /\ run'.refreshed = run.refreshed /\ run'.marked = run.marked
  BY <1>2 DEF Inv, TypeOK, Run
<1>4. PhaseInv' /\ LoginInv'
  BY <1>1, <1>3 DEF Challenge, Goto, Inv, PhaseInv, LoginInv
<1>5. pc' = "solve" /\ emitted' \in Nat /\ UNCHANGED <<sessionVars, outerVars>>
  BY DEF Challenge, Goto, Inv, TypeOK
<1>6. \A s \in Stage \ {"setup"} : run'.used[s] <= MaxRetries
  BY <1>3 DEF Inv, TypeOK
<1> QED
  BY <1>1, <1>2, <1>3, <1>4, <1>5, <1>6, MoveInv

LEMMA RenewedInv ==
  ASSUME Inv, NEW t \in Token, LoginWanted, TokenRenewed(t),
         UNCHANGED <<sessionVars, outerVars, emitted>>
  PROVE  Inv'
<1>1. run.logins = 0 /\ run.outcome = "run" /\ ~run.marked
  BY DEF Inv, TypeOK, Run, PhaseInv, LoginInv, LoginWanted, TokenRenewed, Goto
<1>2. CASE run.stage = "setup"
  <2>0. "setup" \in Stage
    BY StageSet
  <2>1. run' = [run EXCEPT !.tok = t, !.refreshed = TRUE, !.logins = 1,
                           !.err = {}, !.used["setup"] = 1]
        /\ pc' = "creating"
    BY <1>1, <1>2 DEF TokenRenewed, Goto
  <2>2. [run.used EXCEPT !["setup"] = 1] \in [Stage -> Nat]
    BY <2>0 DEF Inv, TypeOK, Run
  <2>3. run' \in Run
    BY <1>1, <2>1, <2>2 DEF Inv, TypeOK, Run
  <2>4. /\ run'.sid = run.sid /\ run'.payload = run.payload
        /\ run'.outcome = "run" /\ run'.logins = 1 /\ run'.stage = "setup"
        /\ run'.refreshed /\ ~run'.marked /\ run'.used["setup"] = 1
    BY <1>1, <1>2, <2>0, <2>1 DEF Inv, TypeOK, Run
  <2>5. \A s \in Stage \ {"setup"} : run'.used[s] <= MaxRetries
    BY <2>1 DEF Inv, TypeOK, Run
  <2>6. PhaseInv' /\ LoginInv'
    BY <2>1, <2>4 DEF PhaseInv, LoginInv
  <2> QED
    BY <2>1, <2>3, <2>4, <2>5, <2>6, MoveInv DEF Inv, TypeOK
<1>3. CASE run.stage # "setup"
  <2>1. run' = [run EXCEPT !.tok = t, !.refreshed = TRUE, !.logins = 1]
        /\ pc' = "recreate" /\ pc = "login"
    BY <1>1, <1>3 DEF TokenRenewed, Goto
  <2>2. run' \in Run
    BY <1>1, <2>1 DEF Inv, TypeOK, Run
  <2>3. /\ run'.sid = run.sid /\ run'.payload = run.payload /\ run'.used = run.used
        /\ run'.outcome = "run" /\ run'.logins = 1 /\ run'.stage = run.stage
        /\ run'.refreshed /\ ~run'.marked
    BY <1>1, <2>1 DEF Inv, TypeOK, Run
  <2>4. PhaseInv' /\ LoginInv'
    BY <1>3, <2>1, <2>3 DEF Inv, PhaseInv, LoginInv
  <2> QED
    BY <2>1, <2>2, <2>3, <2>4, MoveInv DEF Inv, TypeOK
<1> QED
  BY <1>2, <1>3

LEMMA NoNewTokenInv ==
  ASSUME Inv, NoNewToken, UNCHANGED <<sessionVars, outerVars, emitted>>
  PROVE  Inv'
<1>1. run.outcome = "run" /\ ~run.marked /\ run.logins \in Nat
  BY DEF Inv, TypeOK, Run, PhaseInv, NoNewToken, Goto
<1>2. CASE run.stage = "setup"
  <2>0. run.logins = 0
    BY <1>2 DEF Inv, LoginInv, NoNewToken, Goto
  <2>1. run' = [run EXCEPT !.logins = 1] /\ pc' = "probe" /\ pc = "login"
    BY <1>2, <2>0 DEF NoNewToken, Goto
  <2>2. run' \in Run
    BY <1>1, <2>1 DEF Inv, TypeOK, Run
  <2>3. /\ run'.sid = run.sid /\ run'.payload = run.payload /\ run'.used = run.used
        /\ run'.outcome = "run" /\ run'.logins = 1 /\ ~run'.marked
    BY <1>1, <2>1 DEF Inv, TypeOK, Run
  <2>4. PhaseInv' /\ LoginInv'
    BY <2>1, <2>3 DEF PhaseInv, LoginInv
  <2> QED
    BY <2>1, <2>2, <2>3, <2>4, MoveInv DEF Inv, TypeOK
<1>3. CASE run.stage # "setup"
  <2> DEFINE n == IF LoginWanted THEN 1 ELSE run.logins
  <2>0. LoginWanted => run.logins = 0
    BY <1>1 DEF Inv, LoginInv, LoginWanted, NoNewToken, Goto, PhaseInv
  <2>1. /\ run' = [run EXCEPT !.stage = "waf", !.logins = n]
        /\ pc' = "judge" /\ pc = "login"
    <3>1. (IF LoginWanted THEN run.logins + 1 ELSE run.logins) = n
      BY <2>0
    <3> QED
      BY <1>3, <3>1, Zenon DEF NoNewToken, Goto
  <2>2. run' \in Run
    BY <1>1, <2>1, StageSet DEF Inv, TypeOK, Run
  <2>3. /\ run'.sid = run.sid /\ run'.payload = run.payload /\ run'.used = run.used
        /\ run'.outcome = "run" /\ ~run'.marked /\ run'.stage = "waf"
        /\ run'.logins = n
    BY <1>1, <2>1 DEF Inv, TypeOK, Run
  <2>4. PhaseInv' /\ LoginInv'
    BY <1>1, <1>3, <2>1, <2>3 DEF Inv, PhaseInv, LoginInv
  <2> QED
    BY <2>1, <2>2, <2>3, <2>4, MoveInv DEF Inv, TypeOK
<1> QED
  BY <1>2, <1>3

LEMMA SetupInv == ASSUME Inv, Setup PROVE Inv'
<1>1. CASE EnsureToken
  <2>1. CASE pc' = "creating" /\ UNCHANGED run
    BY <1>1, <2>1 DEF EnsureToken, Goto, Inv, TypeOK, PhaseInv, LoginInv, sessionVars, outerVars,
       Sessions
  <2>2. CASE pc' = "ended" /\ run' = [run EXCEPT !.outcome = "auth"]
    <3>1. run' \in Run
      BY <2>2 DEF Inv, TypeOK, Run, Outcome
    <3>2. /\ run'.sid = run.sid /\ run'.payload = run.payload /\ run'.used = run.used
          /\ run'.outcome = "auth" /\ run'.logins = run.logins
      BY <2>2 DEF Inv, TypeOK, Run
    <3>3. PhaseInv' /\ LoginInv'
      BY <2>2, <3>2 DEF Inv, PhaseInv, LoginInv
    <3> QED
      BY <1>1, <2>2, <3>1, <3>2, <3>3 DEF EnsureToken, Inv, TypeOK, sessionVars, outerVars, Sessions
  <2> QED
    BY <1>1, <2>1, <2>2 DEF EnsureToken, Goto
<1>2. CASE LeaveCreate
  BY <1>2, LeaveCreateInv
<1>3. CASE Create
  BY <1>3, CreateInv
<1>4. CASE \E e \in SetupErrors : CreateFails(e) \/ ChallengeFails(e)
  BY <1>4, FailureInv
<1>5. CASE LeaveChallenge
  BY <1>5, LeaveChallengeInv
<1>6. CASE Challenge
  BY <1>6, ChallengeInv
<1>7. CASE SetupFailed
  <2>1. CASE End("setupFailed", "ban") \/ End("setupFailed", "other")
    BY <1>7, <2>1, EndInv DEF SetupFailed, Inv, TypeOK
  <2>2. CASE pc = "setupFailed" /\ pc' \in {"login", "probe"} /\ UNCHANGED run
    <3>1. pc' = "login" => run.used["setup"] = 0
      BY <1>7, <2>2 DEF SetupFailed, End, Goto
    <3>2. PhaseInv' /\ LoginInv'
      BY <2>2, <3>1 DEF Inv, PhaseInv, LoginInv
    <3> QED
      BY <1>7, <2>2, <3>2, MoveInv DEF SetupFailed, Inv, TypeOK
  <2> QED
    BY <1>7, <2>1, <2>2 DEF SetupFailed, Goto
<1>8. CASE Probe
  BY <1>8, EndInv DEF Probe, Inv, TypeOK
<1>9. CASE Login
  <2>1. CASE End("login", "stopped") \/ End("login", "ban")
    BY <1>9, <2>1, EndInv DEF Login, Inv, TypeOK
  <2>2. CASE LoginWanted /\ \E t \in Token : TokenRenewed(t)
    BY <1>9, <2>2, RenewedInv DEF Login
  <2>3. CASE NoNewToken
    BY <1>9, <2>3, NoNewTokenInv DEF Login
  <2> QED
    BY <1>9, <2>1, <2>2, <2>3 DEF Login, Stopped
<1> QED
  BY <1>1, <1>2, <1>3, <1>4, <1>5, <1>6, <1>7, <1>8, <1>9 DEF Setup


-----------------------------------------------------------------------------
(* Every step of the attempts, and of the end, keeps the invariant         *)

LEMMA SolveInv == ASSUME Inv, Solve PROVE Inv'
<1>0. run.tok \in Token /\ run.sid \in Nat /\ run.payload \in Nat
  BY DEF Inv, TypeOK, Run
<1> DEFINE p == IF run.stage \in {"setup", "session", "token"} THEN run.sid ELSE run.payload
<1>1. run' = [run EXCEPT !.header = run.tok, !.payload = p] /\ pc' = "attempt" /\ pc = "solve"
  BY DEF Solve, Goto
<1>2. p \in Nat /\ p \in {run.payload, run.sid}
  BY <1>0
<1> HIDE DEF p
<1>3. run' \in Run
  BY <1>0, <1>1, <1>2 DEF Inv, TypeOK, Run
<1>4. /\ run'.sid = run.sid /\ run'.payload = p /\ run'.used = run.used
      /\ run'.outcome = run.outcome /\ run'.logins = run.logins /\ run'.stage = run.stage
      /\ run'.refreshed = run.refreshed /\ run'.marked = run.marked
  BY <1>1 DEF Inv, TypeOK, Run
<1>5. PhaseInv' /\ LoginInv'
  BY <1>1, <1>4 DEF Inv, PhaseInv, LoginInv
<1> QED
  BY <1>1, <1>2, <1>3, <1>4, <1>5, MoveInv DEF Solve, Inv, TypeOK

LEMMA AttemptInv ==
  ASSUME Inv, NEW t \in BOOLEAN, NEW e \in AttemptErrors \cup {{}}, Attempt(t, e)
  PROVE  Inv'
<1>1. e \in SUBSET Sign /\ config.live \in BOOLEAN /\ "pow" \in Stage
  BY ErrorAssumption, StageSet DEF Inv, TypeOK
<1>2. run' \in Run
  BY <1>1 DEF Attempt, Inv, TypeOK, Run
<1>3. /\ run'.sid = run.sid /\ run'.payload = run.payload /\ run'.used = run.used
      /\ run'.outcome = run.outcome /\ run'.logins = run.logins
      /\ run'.stage = IF run.stage = "setup" THEN "pow" ELSE run.stage
      /\ run'.refreshed = run.refreshed /\ run'.marked = run.marked
  BY DEF Attempt, Inv, TypeOK, Run
<1>4. pc = "attempt" /\ pc' = "judge" /\ emitted' \in Nat /\ UNCHANGED <<sessionVars, outerVars>>
  BY DEF Attempt, Goto, Inv, TypeOK
<1>5. PhaseInv' /\ LoginInv'
  BY <1>3, <1>4 DEF Inv, PhaseInv, LoginInv
<1> QED
  BY <1>2, <1>3, <1>4, <1>5, MoveInv DEF Inv, TypeOK

LEMMA RetryInv == ASSUME Inv, NEW s \in Stage, Retry(s) PROVE Inv'
<1>1. /\ s \in Stage \ {"setup"} /\ RetryDue(s)
      /\ Position[s] >= Position[run.stage]
  BY LoopSet DEF Retry, Due
<1>2. Counted(s) \in Nat /\ Counted(s) <= MaxRetries
  BY <1>1, ErrorAssumption DEF RetryDue, Counted, Inv, TypeOK, Run
<1>3. run' = [run EXCEPT !.stage = s, !.used[s] = Counted(s)]
  BY DEF Retry
<1>4. [run.used EXCEPT ![s] = Counted(s)] \in [Stage -> Nat]
  BY <1>2 DEF Inv, TypeOK, Run
<1>5. run' \in Run
  BY <1>3, <1>4 DEF Inv, TypeOK, Run
<1>6. \A z \in Stage \ {"setup"} : run'.used[z] <= MaxRetries
  BY <1>1, <1>2, <1>3 DEF Inv, TypeOK, Run
<1>7. /\ run'.sid = run.sid /\ run'.payload = run.payload
      /\ run'.outcome = run.outcome /\ run'.logins = run.logins /\ run'.stage = s
      /\ run'.refreshed = run.refreshed /\ run'.marked = run.marked
  BY <1>3 DEF Inv, TypeOK, Run
<1>8. /\ pc = "judge" /\ pc' \in {"solve", "recreate", "login", "warming"}
      /\ pc' = "recreate" => s = "session"
      /\ pc' = "login" => s = "token"
  BY <1>1, StageSet DEF Retry, Goto, FirstStep
<1>9. run.stage \in {"waf", "overload"} => s \in {"waf", "overload"}
  BY <1>1, StageSet DEF Position
<1>10. PhaseInv' /\ LoginInv'
  BY <1>1, <1>7, <1>8, <1>9 DEF Inv, PhaseInv, LoginInv
<1> QED
  BY <1>5, <1>6, <1>7, <1>8, <1>10, MoveInv DEF Retry, Inv, TypeOK

LEMMA RecreateInv == ASSUME Inv, Recreate PROVE Inv'
<1>1. PICK new \in {run.sid, Len(owner) + 1} :
        /\ run' = [run EXCEPT !.sid = new]
        /\ owner' = IF new = run.sid THEN [owner EXCEPT ![new] = run.tok]
                                     ELSE Append(owner, run.tok)
        /\ asked' = IF config.autoDelete /\ new # run.sid
                    THEN asked \cup {<<run.sid, OldToken>>} ELSE asked
  BY DEF Recreate
<1>2. /\ pc = "recreate" /\ pc' = "solve" /\ run.sid \in Sessions
      /\ UNCHANGED <<abandoned, outerVars, emitted>>
  BY DEF Recreate, Goto, Inv, TypeOK, PhaseInv
<1>3. /\ owner \in Seq(Token) /\ run.tok \in Token /\ run.header \in Token /\ OldToken \in Token
      /\ Sessions = 1..Len(owner) /\ Len(owner) \in Nat
  BY SessionsAreNumbers DEF Inv, TypeOK, Run, OldToken
<1>4. /\ owner' \in Seq(Token) /\ Sessions \subseteq Sessions' /\ new \in Sessions'
      /\ new \in Nat \ {0}
  <2>1. CASE new = run.sid
    <3>1. owner' = [owner EXCEPT ![new] = run.tok]
      BY <1>1, <2>1
    <3>2. owner' \in Seq(Token) /\ Len(owner') = Len(owner)
      BY <1>2, <1>3, <2>1, <3>1, ExceptSeq DEF Sessions
    <3> QED
      BY <1>2, <1>3, <2>1, <3>1, <3>2 DEF Sessions
  <2>2. CASE new # run.sid
    BY <1>1, <1>3, <2>2, SessionAdded
  <2> QED
    BY <2>1, <2>2
<1>5. run' \in Run
  BY <1>1, <1>4 DEF Inv, TypeOK, Run
<1>6. /\ run'.sid = new /\ run'.payload = run.payload /\ run'.used = run.used
      /\ run'.outcome = run.outcome /\ run'.logins = run.logins /\ run'.stage = run.stage
      /\ run'.refreshed = run.refreshed /\ run'.marked = run.marked
  BY <1>1 DEF Inv, TypeOK, Run
<1>7. asked' \subseteq Sessions' \X Token
  BY <1>1, <1>2, <1>3, <1>4 DEF Inv, TypeOK
<1>8. TypeOK'
  BY <1>2, <1>4, <1>5, <1>6, <1>7 DEF Inv, TypeOK, outerVars
<1>9. PhaseInv' /\ LoginInv'
  BY <1>2, <1>4, <1>6 DEF Inv, PhaseInv, LoginInv
<1> QED
  BY <1>8, <1>9 DEF Inv

LEMMA TakeSlotBackInv == ASSUME Inv, TakeSlotBack PROVE Inv'
<1>1. /\ pc = "warming" /\ pc' \in {"judge", "solve"}
      /\ emitted' \in Nat /\ UNCHANGED <<sessionVars, outerVars>>
  BY DEF TakeSlotBack, Goto, Inv, TypeOK
<1>2. CASE UNCHANGED run
  <2>1. PhaseInv' /\ LoginInv'
    BY <1>1, <1>2 DEF Inv, PhaseInv, LoginInv
  <2> QED
    BY <1>1, <1>2, <2>1, MoveInv DEF Inv, TypeOK
<1>3. CASE run' = [run EXCEPT !.stage = "overload"] /\ pc' = "judge"
  <2>1. run' \in Run
    BY <1>3, StageSet DEF Inv, TypeOK, Run
  <2>2. /\ run'.sid = run.sid /\ run'.payload = run.payload /\ run'.used = run.used
        /\ run'.outcome = run.outcome /\ run'.logins = run.logins /\ run'.stage = "overload"
        /\ run'.refreshed = run.refreshed /\ run'.marked = run.marked
    BY <1>3 DEF Inv, TypeOK, Run
  <2>3. PhaseInv' /\ LoginInv'
    BY <1>1, <1>3, <2>2 DEF Inv, PhaseInv, LoginInv
  <2> QED
    BY <1>1, <2>1, <2>2, <2>3, MoveInv DEF Inv, TypeOK
<1> QED
  BY <1>2, <1>3 DEF TakeSlotBack, Goto

LEMMA AttemptsInv == ASSUME Inv, Attempts PROVE Inv'
<1>1. CASE Solve
  BY <1>1, SolveInv
<1>2. CASE SolveFails
  <2>1. CASE pc = "solve" /\ pc' = "attempt" /\ UNCHANGED run
    <3>1. PhaseInv' /\ LoginInv'
      BY <2>1 DEF Inv, PhaseInv, LoginInv
    <3> QED
      BY <1>2, <2>1, <3>1, MoveInv DEF SolveFails, Inv, TypeOK
  <2>2. CASE End("solve", "other")
    BY <1>2, <2>2, EndInv DEF SolveFails, Inv, TypeOK
  <2> QED
    BY <1>2, <2>1, <2>2 DEF SolveFails, Goto
<1>3. CASE StopBeforeSolve
  BY <1>3, EndInv DEF StopBeforeSolve, Stopped, Inv, TypeOK
<1>4. CASE \E t \in BOOLEAN, e \in AttemptErrors \cup {{}} : Attempt(t, e)
  BY <1>4, AttemptInv
<1>5. CASE \E t \in BOOLEAN : AttemptRaises(t)
  BY <1>5, EndInv DEF AttemptRaises, Inv, TypeOK
<1>6. CASE \E s \in Stage : Retry(s)
  BY <1>6, RetryInv
<1>7. CASE Recreate
  BY <1>7, RecreateInv
<1>8. CASE \E e \in SetupErrors : RecreateFails(e)
  BY <1>8, EndInv DEF RecreateFails, Inv, TypeOK
<1>9. CASE TakeSlotBack
  BY <1>9, TakeSlotBackInv
<1>10. CASE LeaveWarming
  BY <1>10, EndInv DEF LeaveWarming, Stopped, Inv, TypeOK
<1> QED
  BY <1>1, <1>2, <1>3, <1>4, <1>5, <1>6, <1>7, <1>8, <1>9, <1>10 DEF Attempts

LEMMA ConcludeInv == ASSUME Inv, Conclude PROVE Inv'
<1>1. UNCHANGED <<sessionVars, outerVars>> /\ emitted' \in Nat
  BY DEF Conclude, Inv, TypeOK
<1>2. CASE \E how \in {"won", "ban", "other", "stopped"} : End("judge", how)
  BY <1>1, <1>2, EndInv
<1>3. CASE pc = "judge" /\ pc' = "probe" /\ UNCHANGED run
  <2>1. PhaseInv' /\ LoginInv'
    BY <1>1, <1>3 DEF Inv, PhaseInv, LoginInv
  <2> QED
    BY <1>1, <1>3, <2>1, MoveInv DEF Inv, TypeOK
<1> QED
  BY <1>2, <1>3 DEF Conclude, Stopped, Goto

LEMMA CleanUpInv == ASSUME Inv, CleanUp PROVE Inv'
<1>1. asked' \subseteq Sessions \X Token
  BY DEF CleanUp, Inv, TypeOK, Run
<1>2. TypeOK'
  BY <1>1 DEF CleanUp, Goto, Inv, TypeOK, outerVars, Sessions
<1> QED
  BY <1>2 DEF CleanUp, Goto, Inv, PhaseInv, LoginInv

LEMMA NextAccountInv == ASSUME Inv, NextAccount PROVE Inv'
<1>1. owner' \in Seq(Token) /\ tries' \in Nat
  BY EmptySeq DEF NextAccount, Inv, TypeOK
<1>2. \A s \in Stage \ {"setup"} : run'.used[s] <= MaxRetries
  BY NewRunType, ErrorAssumption DEF NextAccount
<1>3. TypeOK'
  BY <1>1, <1>2, NewRunType DEF NextAccount, Goto, Inv, TypeOK
<1> QED
  BY <1>3, NewRunType DEF NextAccount, Goto, Inv, PhaseInv, LoginInv

LEMMA NextInv == ASSUME Inv, [Next]_vars PROVE Inv'
<1>1. CASE Setup
  BY <1>1, SetupInv
<1>2. CASE Attempts
  BY <1>2, AttemptsInv
<1>3. CASE Conclude
  BY <1>3, ConcludeInv
<1>4. CASE CleanUp
  BY <1>4, CleanUpInv
<1>5. CASE NextAccount
  BY <1>5, NextAccountInv
<1>6. CASE ClientLeaves
  BY <1>6 DEF ClientLeaves, sessionVars, Inv, TypeOK, PhaseInv, LoginInv, Sessions
<1>7. CASE UNCHANGED vars
  BY <1>7 DEF vars, sessionVars, outerVars, Inv, TypeOK, PhaseInv, LoginInv, Sessions
<1> QED
  BY <1>1, <1>2, <1>3, <1>4, <1>5, <1>6, <1>7 DEF Next, Step

LEMMA InvHolds == Spec => []Inv
BY InitInv, NextInv, PTL DEF Spec

-----------------------------------------------------------------------------
(* Theorems                                                                *)

\* The retry counters stay within settings.max_retries, and the sessions named
\* by the payload, the deletions and the abandoned job exist
\* (_run_completion_core).
THEOREM CompletionTypeCorrect == Spec => []TypeOK
BY InvHolds, PTL DEF Inv

\* A run asks the browser for one login at most (token_refreshed).
THEOREM OneLoginHolds == Spec => []OneLogin
<1>1. Inv => OneLogin
  BY DEF Inv, LoginInv, OneLogin
<1> QED
  BY <1>1, InvHolds, PTL

-----------------------------------------------------------------------------
(* The run implements its contract                                         *)

\* The abstract state of the contract.
Phase == IF pc = "warming" THEN "warm" ELSE run.outcome
WafLeft == MaxRetries - run.used["waf"]

LEMMA ContractInit == Init => Contract!Init
<1> SUFFICES ASSUME Init PROVE Contract!Init
  OBVIOUS
<1>1. run.used["waf"] = 0 /\ run.outcome = "run" /\ run.marked = FALSE
  BY NewRunType, StageSet DEF Init, NewRun
<1>2. MaxRetries - 0 = MaxRetries
  BY ErrorAssumption
<1> QED
  BY <1>1, <1>2 DEF Init, Contract!Init

\* A step that changes nothing the contract speaks of.
LEMMA ContractStutter ==
  ASSUME Phase' = Phase, run'.used["waf"] = run.used["waf"], run'.marked = run.marked,
         cancelled' = cancelled
  PROVE  UNCHANGED Contract!vars
BY DEF Contract!vars, Phase, WafLeft

\* The end of a run on an account that is not warming up.
LEMMA ContractEnd ==
  ASSUME Inv, NEW from \in {"creating", "challenge", "setupFailed", "login", "probe", "solve",
                            "attempt", "judge", "recreate"},
         NEW how \in {"won", "ban", "auth", "other"}, End(from, how), cancelled' = cancelled
  PROVE  Contract!Next
<1>1. run' = [run EXCEPT !.outcome = how, !.marked = (how = "ban")]
  BY DEF End
<1>2. /\ run'.outcome = how /\ run'.marked = (how = "ban") /\ run'.used = run.used
      /\ run.outcome = "run" /\ run.marked = FALSE
      /\ pc = from /\ pc' = "cleanup"
  BY <1>1 DEF End, Goto, Inv, TypeOK, PhaseInv, Run
<1>3. CASE how = "ban"
  BY <1>2, <1>3 DEF Contract!Next, Contract!EndBanned, Contract!Become
<1>4. CASE how # "ban"
  <2>1. Contract!EndRun(how)
    BY <1>2, <1>4 DEF Contract!EndRun, Contract!Become
  <2> QED
    BY <2>1 DEF Contract!Next, Contract!Ended
<1> QED
  BY <1>3, <1>4

LEMMA ContractStop ==
  ASSUME Inv, NEW from \in {"creating", "challenge", "login", "solve", "judge", "warming"},
         Stopped(from), cancelled' = cancelled
  PROVE  Contract!Next
<1>1. run' = [run EXCEPT !.outcome = "stopped", !.marked = FALSE]
  BY DEF Stopped, End
<1>2. /\ run'.outcome = "stopped" /\ run'.marked = FALSE /\ run'.used = run.used
      /\ run.outcome = "run" /\ run.marked = FALSE
      /\ pc = from /\ pc' = "cleanup" /\ cancelled
  BY <1>1 DEF Stopped, End, Goto, Inv, TypeOK, PhaseInv, Run
<1>3. Contract!Stop
  BY <1>2 DEF Contract!Stop
<1> QED
  BY <1>3 DEF Contract!Next

LEMMA ContractSetup == ASSUME Inv, Setup PROVE [Contract!Next]_(Contract!vars)
<1>0. cancelled' = cancelled
  BY DEF Setup, EnsureToken, LeaveCreate, Create, CreateFails, ChallengeFails, LeaveChallenge,
     Challenge, SetupFailed, Probe, Login, outerVars
<1>1. CASE EnsureToken
  <2>1. CASE UNCHANGED run
    BY <1>0, <1>1, <2>1, ContractStutter DEF EnsureToken, Goto, Phase
  <2>2. CASE run' = [run EXCEPT !.outcome = "auth"]
    <3>1. /\ run'.outcome = "auth" /\ run'.marked = run.marked /\ run'.used = run.used
          /\ run.outcome = "run" /\ pc = "begin" /\ pc' = "ended"
      BY <1>1, <2>2 DEF EnsureToken, Goto, Inv, TypeOK, PhaseInv, Run
    <3>2. Contract!EndRun("auth")
      BY <1>0, <3>1 DEF Contract!EndRun, Contract!Become
    <3> QED
      BY <3>2 DEF Contract!Next, Contract!Ended
  <2> QED
    BY <1>1, <2>1, <2>2 DEF EnsureToken
<1>2. CASE LeaveCreate \/ LeaveChallenge
  BY <1>0, <1>2, ContractStop DEF LeaveCreate, LeaveChallenge
<1>3. CASE Create
  BY <1>0, <1>3, ContractStutter DEF Create, Goto, Phase
<1>4. CASE \E e \in SetupErrors : CreateFails(e) \/ ChallengeFails(e)
  <2>1. PICK e \in SetupErrors : CreateFails(e) \/ ChallengeFails(e)
    BY <1>4
  <2>2. run' = [run EXCEPT !.err = e] /\ pc' # "warming" /\ pc # "warming"
    BY <2>1 DEF CreateFails, ChallengeFails, Goto
  <2>3. run'.outcome = run.outcome /\ run'.used = run.used /\ run'.marked = run.marked
    BY <2>2 DEF Inv, TypeOK, Run
  <2> QED
    BY <1>0, <2>2, <2>3, ContractStutter DEF Phase
<1>5. CASE Challenge
  <2>1. run'.outcome = run.outcome /\ run'.used = run.used /\ run'.marked = run.marked
    BY <1>5 DEF Challenge, Inv, TypeOK, Run
  <2> QED
    BY <1>0, <1>5, <2>1, ContractStutter DEF Challenge, Goto, Phase
<1>6. CASE SetupFailed
  <2>1. CASE End("setupFailed", "ban") \/ End("setupFailed", "other")
    BY <1>0, <2>1, ContractEnd
  <2>2. CASE pc = "setupFailed" /\ pc' # "warming" /\ UNCHANGED run
    BY <1>0, <2>2, ContractStutter DEF Phase
  <2> QED
    BY <1>6, <2>1, <2>2 DEF SetupFailed, Goto
<1>7. CASE Probe
  BY <1>0, <1>7, ContractEnd DEF Probe
<1>8. CASE Login
  <2>1. CASE Stopped("login")
    BY <1>0, <2>1, ContractStop
  <2>2. CASE End("login", "ban")
    BY <1>0, <2>2, ContractEnd
  <2>3. ASSUME NEW t \in Token, TokenRenewed(t) PROVE UNCHANGED Contract!vars
    <3>1. /\ run'.outcome = run.outcome /\ run'.used["waf"] = run.used["waf"]
          /\ run'.marked = run.marked
      <4>1. CASE run.stage = "setup"
        <5>1. run' = [run EXCEPT !.tok = t, !.refreshed = TRUE, !.logins = run.logins + 1,
                                 !.err = {}, !.used["setup"] = 1]
          BY <2>3, <4>1 DEF TokenRenewed
        <5>2. run.used \in [Stage -> Nat]
          BY DEF Inv, TypeOK, Run
        <5>3. run'.used = [run.used EXCEPT !["setup"] = 1]
          BY <5>1 DEF Inv, TypeOK, Run
        <5> QED
          BY <5>1, <5>2, <5>3, StageSet DEF Inv, TypeOK, Run
      <4>2. CASE run.stage # "setup"
        BY <2>3, <4>2 DEF TokenRenewed, Inv, TypeOK, Run
      <4> QED
        BY <4>1, <4>2
    <3> QED
      BY <1>0, <2>3, <3>1, ContractStutter DEF TokenRenewed, Goto, Phase
  <2>4. CASE NoNewToken
    <3>1. /\ run'.outcome = run.outcome /\ run'.used = run.used
          /\ run'.marked = run.marked
      BY <2>4 DEF NoNewToken, Inv, TypeOK, Run
    <3> QED
      BY <1>0, <2>4, <3>1, ContractStutter DEF NoNewToken, Goto, Phase
  <2> QED
    BY <1>8, <2>1, <2>2, <2>3, <2>4 DEF Login
<1> QED
  BY <1>1, <1>2, <1>3, <1>4, <1>5, <1>6, <1>7, <1>8 DEF Setup

LEMMA ContractAttempts == ASSUME Inv, Attempts PROVE [Contract!Next]_(Contract!vars)
<1>0. cancelled' = cancelled
  BY DEF Attempts, Solve, SolveFails, StopBeforeSolve, Attempt, AttemptRaises, Retry, Recreate,
     RecreateFails, TakeSlotBack, LeaveWarming, outerVars
<1>1. CASE Solve
  <2>1. run'.outcome = run.outcome /\ run'.used = run.used /\ run'.marked = run.marked
    BY <1>1 DEF Solve, Inv, TypeOK, Run
  <2> QED
    BY <1>0, <1>1, <2>1, ContractStutter DEF Solve, Goto, Phase
<1>2. CASE SolveFails
  <2>1. CASE End("solve", "other")
    BY <1>0, <2>1, ContractEnd
  <2>2. CASE Goto("solve", "attempt") /\ UNCHANGED run
    BY <1>0, <2>2, ContractStutter DEF Goto, Phase
  <2> QED
    BY <1>2, <2>1, <2>2 DEF SolveFails
<1>3. CASE StopBeforeSolve \/ LeaveWarming
  BY <1>0, <1>3, ContractStop DEF StopBeforeSolve, LeaveWarming
<1>4. ASSUME NEW t \in BOOLEAN, NEW e \in AttemptErrors \cup {{}}, Attempt(t, e)
      PROVE  UNCHANGED Contract!vars
  <2>1. run'.outcome = run.outcome /\ run'.used = run.used /\ run'.marked = run.marked
    BY <1>4 DEF Attempt, Inv, TypeOK, Run
  <2> QED
    BY <1>0, <1>4, <2>1, ContractStutter DEF Attempt, Goto, Phase
<1>5. CASE \E t \in BOOLEAN : AttemptRaises(t)
  BY <1>0, <1>5, ContractEnd DEF AttemptRaises
<1>6. ASSUME NEW s \in Stage, Retry(s) PROVE [Contract!Next]_(Contract!vars)
  <2>1. /\ pc = "judge" /\ ~cancelled /\ s \in Stage \ {"setup"}
        /\ pc' = FirstStep[s] /\ run.used[s] < MaxRetries
    BY <1>6, LoopSet DEF Retry, Due, RetryDue, Goto
  <2>2. /\ run'.outcome = "run" /\ run.outcome = "run" /\ run'.marked = run.marked
        /\ run'.used = [run.used EXCEPT ![s] = Counted(s)]
    BY <1>6, <2>1 DEF Retry, Inv, TypeOK, PhaseInv, Run
  <2>3. run.used \in [Stage -> Nat] /\ "waf" \in Stage /\ MaxRetries \in Nat
    BY StageSet, ErrorAssumption DEF Inv, TypeOK, Run
  <2>4. CASE s = "waf"
    <3>1. pc' = "warming" /\ run'.used["waf"] = run.used["waf"] + 1
      BY <2>1, <2>2, <2>3, <2>4 DEF FirstStep, Counted
    <3>2. /\ MaxRetries - run.used["waf"] > 0
          /\ MaxRetries - run'.used["waf"] = (MaxRetries - run.used["waf"]) - 1
      BY <2>1, <2>3, <2>4, <3>1
    <3>3. Contract!GiveSlot
      BY <1>0, <2>1, <2>2, <3>1, <3>2 DEF Contract!GiveSlot, Contract!Become
    <3> QED
      BY <3>3 DEF Contract!Next
  <2>5. CASE s # "waf"
    <3>1. pc' # "warming" /\ run'.used["waf"] = run.used["waf"]
      BY <2>1, <2>2, <2>3, <2>5, StageSet DEF FirstStep
    <3> QED
      BY <1>0, <2>1, <2>2, <3>1, ContractStutter DEF Phase
  <2> QED
    BY <2>4, <2>5
<1>7. CASE Recreate
  <2>1. PICK new : run' = [run EXCEPT !.sid = new]
    BY <1>7 DEF Recreate
  <2>2. run'.outcome = run.outcome /\ run'.used = run.used /\ run'.marked = run.marked
    BY <2>1 DEF Inv, TypeOK, Run
  <2> QED
    BY <1>0, <1>7, <2>2, ContractStutter DEF Recreate, Goto, Phase
<1>8. CASE \E e \in SetupErrors : RecreateFails(e)
  BY <1>0, <1>8, ContractEnd DEF RecreateFails
<1>9. CASE TakeSlotBack
  <2>1. /\ run'.outcome = "run" /\ run'.used = run.used /\ run'.marked = run.marked
        /\ pc = "warming" /\ pc' # "warming"
    BY <1>9 DEF TakeSlotBack, Goto, Inv, TypeOK, PhaseInv, Run
  <2>2. Contract!TakeSlotBack
    BY <1>0, <2>1 DEF Contract!TakeSlotBack, Contract!Become
  <2> QED
    BY <2>2 DEF Contract!Next
<1> QED
  BY <1>1, <1>2, <1>3, <1>4, <1>5, <1>6, <1>7, <1>8, <1>9 DEF Attempts

LEMMA ContractNext == ASSUME Inv, [Next]_vars PROVE [Contract!Next]_(Contract!vars)
<1>1. CASE Setup
  BY <1>1, ContractSetup
<1>2. CASE Attempts
  BY <1>2, ContractAttempts
<1>3. CASE Conclude
  <2>0. cancelled' = cancelled
    BY <1>3 DEF Conclude, outerVars
  <2>1. CASE Stopped("judge")
    BY <2>0, <2>1, ContractStop
  <2>2. CASE \E how \in {"won", "ban", "other"} : End("judge", how)
    BY <2>0, <2>2, ContractEnd
  <2>3. CASE Goto("judge", "probe") /\ UNCHANGED run
    BY <2>0, <2>3, ContractStutter DEF Goto, Phase
  <2> QED
    BY <1>3, <2>1, <2>2, <2>3 DEF Conclude
<1>4. CASE CleanUp
  BY <1>4, ContractStutter DEF CleanUp, Goto, Phase, outerVars
<1>5. CASE NextAccount
  <2>1. /\ run'.outcome = "run" /\ run'.marked = FALSE /\ run'.used["waf"] = 0
        /\ run.outcome \in {"ban", "auth"} /\ ~cancelled /\ ~cancelled'
        /\ pc # "warming" /\ pc' # "warming"
    BY <1>5, NewRunType, StageSet DEF NextAccount, Goto, NewRun
  <2>2. cancelled' = cancelled
    BY <1>5 DEF NextAccount
  <2>3. MaxRetries - run'.used["waf"] = MaxRetries
    BY <2>1, ErrorAssumption
  <2>4. Contract!NextAccount
    BY <2>1, <2>2, <2>3 DEF Contract!NextAccount
  <2> QED
    BY <2>4 DEF Contract!Next
<1>6. CASE ClientLeaves
  <2>1. Contract!ClientLeaves
    BY <1>6 DEF ClientLeaves, Contract!ClientLeaves
  <2> QED
    BY <2>1 DEF Contract!Next
<1>7. CASE UNCHANGED vars
  BY <1>7 DEF vars, outerVars, Contract!vars
<1> QED
  BY <1>1, <1>2, <1>3, <1>4, <1>5, <1>6, <1>7 DEF Next, Step

\* _run_completion_core is what the failover loop takes it for: it ends once,
\* stops only for a client that left, gives the account's slot up only for a
\* WAF challenge and at most settings.max_retries times a run, and marks the
\* account exactly when it ends in a ban.
THEOREM ContractHolds == Spec => ContractSpec
<1>1. Init => Contract!Init
  BY ContractInit
<1>2. Inv /\ [Next]_vars => [Contract!Next]_(Contract!vars)
  BY ContractNext
<1> QED
  BY <1>1, <1>2, InvHolds, PTL DEF Spec, ContractSpec, Contract!Spec

-----------------------------------------------------------------------------
(* Text of one attempt                                                     *)

\* What a retry or another account answers to.
Retried == {"pow", "session", "token", "waf", "ban"}

\* Once text went out, no loop goes round and no other account is tried.
EmitInv ==
  /\ emitted <= 1
  /\ emitted = 1 =>
       \/ pc = "judge" /\ run.emitting /\ run.err \cap Retried = {}
       \/ pc \in {"cleanup", "ended"} /\ run.outcome \notin {"ban", "auth"}

LEMMA NothingDue ==
  ASSUME Inv, run.emitting, run.err \cap Retried = {}
  PROVE  Due = {}
<1> SUFFICES ASSUME NEW s \in Due PROVE FALSE
  OBVIOUS
<1>1. s \in {"pow", "session", "token", "waf", "overload"} /\ RetryDue(s)
  BY LoopSet, StageSet DEF Due
<1> QED
  BY <1>1 DEF RetryDue, Retried

LEMMA EmitNext ==
  ASSUME Inv, EmitInv, [Next]_vars, Retried \subseteq Textless
  PROVE  EmitInv'
<1>1. CASE emitted = 0
  <2>1. CASE emitted' = emitted
    BY <1>1, <2>1 DEF EmitInv
  <2>2. ASSUME NEW t \in BOOLEAN, NEW e \in AttemptErrors \cup {{}}, Attempt(t, e)
        PROVE  EmitInv'
    <3>1. CASE t /\ config.live
      <4>1. emitted' = 1 /\ pc' = "judge" /\ e \cap Textless = {}
        BY <1>1, <2>2, <3>1 DEF Attempt, Goto
      <4>2. run'.emitting /\ run'.err = e
        BY <2>2, <3>1 DEF Attempt, Inv, TypeOK, Run
      <4> QED
        BY <4>1, <4>2 DEF EmitInv
    <3>2. CASE ~(t /\ config.live)
      BY <1>1, <2>2, <3>2 DEF Attempt, EmitInv
    <3> QED
      BY <3>1, <3>2
  <2>3. ASSUME NEW t \in BOOLEAN, AttemptRaises(t) PROVE EmitInv'
    <3>1. run'.outcome = "other" /\ pc' = "cleanup" /\ emitted' \in {0, 1}
      BY <1>1, <2>3 DEF AttemptRaises, End, Goto, Inv, TypeOK, Run
    <3> QED
      BY <3>1 DEF EmitInv
  <2>4. \/ emitted' = emitted
        \/ \E t \in BOOLEAN, e \in AttemptErrors \cup {{}} : Attempt(t, e)
        \/ \E t \in BOOLEAN : AttemptRaises(t)
    BY DEF Next, Step, Setup, Attempts, EnsureToken, LeaveCreate, Create, CreateFails, ChallengeFails,
       LeaveChallenge, Challenge, SetupFailed, Probe, Login, Solve, SolveFails, StopBeforeSolve,
       Retry, Recreate, RecreateFails, TakeSlotBack, LeaveWarming, Conclude, CleanUp, NextAccount,
       ClientLeaves, vars
  <2> QED
    BY <2>1, <2>2, <2>3, <2>4
<1>2. CASE emitted = 1 /\ pc = "judge" /\ run.emitting /\ run.err \cap Retried = {}
  <2>1. Due = {}
    BY <1>2, NothingDue
  <2>2. CASE Conclude
    <3>1. \E how \in {"won", "other", "stopped"} : End("judge", how)
      BY <1>2, <2>2 DEF Conclude, Stopped, Retried
    <3>2. pc' = "cleanup" /\ run'.outcome \in {"won", "other", "stopped"}
      BY <3>1 DEF End, Goto, Inv, TypeOK, Run
    <3> QED
      BY <1>2, <2>2, <3>2 DEF EmitInv, Conclude
  <2>3. CASE UNCHANGED <<pc, run, emitted>>
    BY <1>2, <2>3 DEF EmitInv
  <2>4. Conclude \/ UNCHANGED <<pc, run, emitted>>
    BY <1>2, <2>1 DEF Next, Step, Setup, Attempts, EnsureToken, LeaveCreate, Create, CreateFails,
       ChallengeFails, LeaveChallenge, Challenge, SetupFailed, Probe, Login, TokenRenewed,
       NoNewToken, Solve, SolveFails, StopBeforeSolve, Attempt, AttemptRaises, Retry, Recreate,
       RecreateFails, TakeSlotBack, LeaveWarming, CleanUp, NextAccount, ClientLeaves, vars, Goto,
       Stopped, End
  <2> QED
    BY <2>2, <2>3, <2>4
<1>3. CASE emitted = 1 /\ pc \in {"cleanup", "ended"} /\ run.outcome \notin {"ban", "auth"}
  <2>1. pc' \in {"cleanup", "ended"} /\ UNCHANGED <<run, emitted>>
    BY <1>3 DEF Next, Step, Setup, Attempts, EnsureToken, LeaveCreate, Create, CreateFails,
       ChallengeFails, LeaveChallenge, Challenge, SetupFailed, Probe, Login, TokenRenewed,
       NoNewToken, Solve, SolveFails, StopBeforeSolve, Attempt, AttemptRaises, Retry, Recreate,
       RecreateFails, TakeSlotBack, LeaveWarming, Conclude, CleanUp, NextAccount, ClientLeaves,
       vars, Goto, Stopped, End
  <2>2. emitted' <= 1
    BY <1>3, <2>1
  <2>3. pc' \in {"cleanup", "ended"} /\ run'.outcome \notin {"ban", "auth"}
    BY <1>3, <2>1
  <2> QED
    BY ONLY <2>2, <2>3, Zenon DEF EmitInv
<1> QED
  BY <1>1, <1>2, <1>3 DEF EmitInv, Inv, TypeOK

\* If only overloads and failures without a sign come after text, as the comments
\* of _attempt and of the stream writer take for granted, text of at most one
\* attempt goes to the client, whatever is retried and whichever accounts the
\* failover loop tries.
THEOREM TextOnceHolds ==
  ASSUME {"pow", "session", "token", "waf", "ban"} \subseteq Textless
  PROVE  Spec => []TextOnce
<1>1. Init => EmitInv
  BY DEF Init, EmitInv
<1>2. Inv /\ EmitInv /\ [Next]_vars => EmitInv'
  BY EmitNext DEF Retried
<1>3. EmitInv => TextOnce
  BY DEF EmitInv, TextOnce
<1> QED
  BY <1>1, <1>2, <1>3, InvHolds, PTL DEF Spec

-----------------------------------------------------------------------------
(* Sessions, headers and payloads                                          *)

\* The places at which a run has its session.
InSession ==
  \/ pc \in {"solve", "attempt", "judge", "recreate", "warming"}
  \/ pc = "login" /\ run.stage # "setup"

\* Whether the payload and headers are those of the session, and stay so up to
\* the next attempt.
PayloadKept == InSession /\ (pc = "solve" => run.stage \notin {"setup", "session", "token"})
HeadersKept == PayloadKept /\ (pc = "recreate" => run.stage = "session")

\* Which loops a place can be in.
StageInv ==
  /\ pc = "login" => run.stage \in {"setup", "token"}
  /\ pc = "recreate" => run.stage \in {"session", "token"}
  /\ pc = "warming" => run.stage = "waf"
  /\ pc = "judge" => run.stage # "setup"

OwnerInv ==
  /\ pc = "challenge" => owner[Len(owner)] = run.tok
  /\ InSession /\ pc # "recreate" => owner[run.sid] = run.tok
  /\ PayloadKept => run.payload = run.sid
  /\ HeadersKept => run.header = run.tok

\* The session in use, and one just created, are not to be deleted.
AliveInv ==
  /\ pc = "challenge" => \A t \in Token : <<Len(owner), t>> \notin asked
  /\ InSession => \A t \in Token : <<run.sid, t>> \notin asked

\* Every session is asked to be deleted, in use or abandoned.
Deleted(s) == \E t \in Token : <<s, t>> \in asked
AccountInv ==
  /\ pc = "begin" => owner = <<>>
  /\ pc \notin {"cleanup", "ended"} => abandoned = {}
  /\ pc \in {"begin", "creating", "challenge", "setupFailed"} => run.sid = 0
  /\ pc = "login" /\ run.stage = "setup" => run.sid = 0
  /\ config.autoDelete =>
       \A s \in Sessions \ abandoned :
         \/ Deleted(s)
         \/ pc # "ended" /\ s = run.sid
         \/ pc = "challenge" /\ s = Len(owner)

SessionInv == StageInv /\ OwnerInv /\ AliveInv /\ AccountInv

LEMMA SessionInit == Init => SessionInv
BY NewRunType DEF Init, SessionInv, StageInv, OwnerInv, AliveInv, AccountInv, InSession,
   PayloadKept, HeadersKept, Sessions

\* The end of a run, which leaves its session to the clean-up.
LEMMA EndSession ==
  ASSUME Inv, SessionInv, NEW from, from # "challenge",
         NEW how \in {"won", "ban", "auth", "other", "stopped"}, End(from, how),
         UNCHANGED <<sessionVars, config>>
  PROVE  SessionInv'
<1>1. pc = from /\ pc' = "cleanup" /\ run'.sid = run.sid
  BY DEF End, Goto, Inv, TypeOK, Run
<1>2. StageInv' /\ OwnerInv' /\ AliveInv'
  BY <1>1 DEF StageInv, OwnerInv, AliveInv, InSession, PayloadKept, HeadersKept
<1>3. AccountInv'
  BY <1>1 DEF SessionInv, AccountInv, sessionVars, Sessions, Deleted
<1> QED
  BY <1>2, <1>3 DEF SessionInv

\* A step inside the run that keeps the sessions, the session in use and the token.
LEMMA MoveSession ==
  ASSUME SessionInv, UNCHANGED <<sessionVars, config>>,
         run'.sid = run.sid, run'.tok = run.tok,
         pc' \notin {"begin", "challenge", "cleanup", "ended"},
         pc \notin {"challenge", "cleanup", "ended"},
         pc' \in {"creating", "setupFailed"} \/ (pc' = "login" /\ run'.stage = "setup") => run.sid = 0,
         InSession' => InSession /\ pc # "recreate",
         StageInv',
         PayloadKept' => run'.payload = run'.sid,
         HeadersKept' => run'.header = run'.tok
  PROVE  SessionInv'
<1>1. OwnerInv' /\ AliveInv'
  BY DEF SessionInv, OwnerInv, AliveInv, sessionVars
<1>2. AccountInv'
  BY DEF SessionInv, AccountInv, sessionVars, Sessions, Deleted
<1> QED
  BY <1>1, <1>2 DEF SessionInv

LEMMA SessionSetup == ASSUME Inv, SessionInv, Setup PROVE SessionInv'
<1>0. UNCHANGED config /\ owner \in Seq(Token) /\ run.tok \in Token
  BY DEF Setup, EnsureToken, LeaveCreate, Create, CreateFails, ChallengeFails, LeaveChallenge,
     Challenge, SetupFailed, Probe, Login, outerVars, Inv, TypeOK, Run
<1>1. CASE EnsureToken
  <2>1. CASE pc' = "creating" /\ UNCHANGED run
    BY <1>0, <1>1, <2>1, MoveSession DEF EnsureToken, Goto, SessionInv, AccountInv, StageInv,
       InSession, PayloadKept, HeadersKept
  <2>2. CASE pc' = "ended"
    <3>1. owner' = <<>> /\ Sessions' = {}
      BY <1>1, <2>2 DEF EnsureToken, Goto, SessionInv, AccountInv, sessionVars, Sessions
    <3> QED
      BY <1>0, <2>2, <3>1 DEF SessionInv, StageInv, OwnerInv, AliveInv, AccountInv, InSession,
         PayloadKept, HeadersKept
  <2> QED
    BY <1>1, <2>1, <2>2 DEF EnsureToken, Goto
<1>2. CASE LeaveCreate
  <2>1. CASE UNCHANGED <<owner, abandoned>>
    BY <1>0, <1>2, <2>1, EndSession DEF LeaveCreate, Stopped, sessionVars
  <2>2. CASE owner' = Append(owner, run.tok) /\ abandoned' = {Len(owner')}
    <3>1. pc = "creating" /\ pc' = "cleanup" /\ run'.sid = run.sid /\ asked' = asked
      BY <1>2 DEF LeaveCreate, Stopped, End, Goto, Inv, TypeOK, Run
    <3>2. Sessions' \ abandoned' \subseteq Sessions
      BY <1>0, <2>2, SessionAdded, SessionsAreNumbers DEF Sessions
    <3>3. abandoned = {}
      BY <3>1 DEF SessionInv, AccountInv
    <3>4. AccountInv'
      BY <1>0, <3>1, <3>2, <3>3 DEF SessionInv, AccountInv, Deleted
    <3> QED
      BY <3>1, <3>4 DEF SessionInv, StageInv, OwnerInv, AliveInv, InSession, PayloadKept,
         HeadersKept
  <2> QED
    BY <1>2, <2>1, <2>2 DEF LeaveCreate
<1>3. CASE Create
  <2>1. /\ pc = "creating" /\ pc' = "challenge" /\ UNCHANGED <<run, asked, abandoned>>
        /\ owner' = Append(owner, run.tok)
    BY <1>3 DEF Create, Goto
  <2>2. /\ Sessions' = Sessions \cup {Len(owner')} /\ Len(owner') \notin Sessions
        /\ owner'[Len(owner')] = run.tok
    BY <1>0, <2>1, AppendProperties, LenProperties, SessionsAreNumbers DEF Sessions
  <2>3. asked \subseteq Sessions \X Token
    BY DEF Inv, TypeOK
  <2>4. AliveInv' /\ OwnerInv' /\ StageInv'
    BY <2>1, <2>2, <2>3 DEF AliveInv, OwnerInv, StageInv, InSession, PayloadKept, HeadersKept
  <2>5. AccountInv'
    BY <1>0, <2>1, <2>2 DEF SessionInv, AccountInv, Deleted
  <2> QED
    BY <2>4, <2>5 DEF SessionInv
<1>4. ASSUME NEW e \in SetupErrors, CreateFails(e) PROVE SessionInv'
  <2>1. run'.sid = run.sid /\ run'.tok = run.tok /\ run'.stage = run.stage
    BY <1>4 DEF CreateFails, Inv, TypeOK, Run
  <2> QED
    BY <1>0, <1>4, <2>1, MoveSession DEF CreateFails, Goto, SessionInv, AccountInv, StageInv,
       InSession, PayloadKept, HeadersKept
<1>5. ASSUME NEW e \in SetupErrors, ChallengeFails(e) PROVE SessionInv'
  <2>1. /\ run'.sid = run.sid /\ pc = "challenge" /\ pc' = "setupFailed"
        /\ asked' = asked \cup {<<Len(owner), run.tok>>} /\ UNCHANGED <<owner, abandoned>>
    BY <1>5 DEF ChallengeFails, DeleteNew, Goto, Inv, TypeOK, Run
  <2>2. AliveInv' /\ OwnerInv' /\ StageInv'
    BY <2>1 DEF AliveInv, OwnerInv, StageInv, InSession, PayloadKept, HeadersKept
  <2>3. AccountInv'
    BY <1>0, <2>1 DEF SessionInv, AccountInv, Sessions, Deleted
  <2> QED
    BY <2>2, <2>3 DEF SessionInv
<1>6. CASE LeaveChallenge
  <2>1. /\ run'.sid = run.sid /\ pc = "challenge" /\ pc' = "cleanup"
        /\ asked' = asked \cup {<<Len(owner), run.tok>>} /\ UNCHANGED <<owner, abandoned>>
    BY <1>6 DEF LeaveChallenge, Stopped, End, DeleteNew, Goto, Inv, TypeOK, Run
  <2>2. AliveInv' /\ OwnerInv' /\ StageInv'
    BY <2>1 DEF AliveInv, OwnerInv, StageInv, InSession, PayloadKept, HeadersKept
  <2>3. AccountInv'
    BY <1>0, <2>1 DEF SessionInv, AccountInv, Sessions, Deleted
  <2> QED
    BY <2>2, <2>3 DEF SessionInv
<1>7. CASE Challenge
  <2>1. /\ pc = "challenge" /\ pc' = "solve" /\ UNCHANGED sessionVars
        /\ run'.sid = Len(owner) /\ run'.tok = run.tok /\ run'.stage = run.stage
        /\ run.stage = "setup"
    BY <1>7, SessionsAreNumbers DEF Challenge, Goto, Inv, TypeOK, PhaseInv, Run
  <2>2. AliveInv' /\ OwnerInv' /\ StageInv'
    BY <2>1 DEF SessionInv, AliveInv, OwnerInv, StageInv, InSession, PayloadKept, HeadersKept,
       sessionVars
  <2>3. 0 \notin Sessions
    BY <1>0, SessionsAreNumbers
  <2>4. AccountInv'
    BY <1>0, <2>1, <2>3 DEF SessionInv, AccountInv, Sessions, Deleted, sessionVars
  <2> QED
    BY <2>2, <2>4 DEF SessionInv
<1>8. CASE SetupFailed
  <2>1. CASE End("setupFailed", "ban") \/ End("setupFailed", "other")
    BY <1>0, <1>8, <2>1, EndSession DEF SetupFailed
  <2>2. CASE pc = "setupFailed" /\ pc' \in {"login", "probe"} /\ UNCHANGED run
    BY <1>0, <1>8, <2>2, MoveSession DEF SetupFailed, SessionInv, AccountInv, StageInv, Inv,
       PhaseInv, InSession, PayloadKept, HeadersKept
  <2> QED
    BY <1>8, <2>1, <2>2 DEF SetupFailed, Goto
<1>9. CASE Probe
  BY <1>0, <1>9, EndSession DEF Probe
<1>10. CASE Login
  <2>1. CASE End("login", "stopped") \/ End("login", "ban")
    BY <1>0, <1>10, <2>1, EndSession DEF Login
  <2>2. ASSUME NEW t \in Token, TokenRenewed(t), run.stage = "setup" PROVE SessionInv'
    <3>1. pc = "login" /\ pc' = "creating" /\ run'.sid = run.sid /\ run'.stage = run.stage
      BY <2>2 DEF TokenRenewed, Goto, Inv, TypeOK, Run
    <3>2. AliveInv' /\ OwnerInv' /\ StageInv'
      BY <3>1 DEF AliveInv, OwnerInv, StageInv, InSession, PayloadKept, HeadersKept
    <3>3. AccountInv'
      BY <1>0, <1>10, <2>2, <3>1 DEF Login, SessionInv, AccountInv, Sessions, Deleted, sessionVars
    <3> QED
      BY <3>2, <3>3 DEF SessionInv
  <2>3. ASSUME NEW t \in Token, TokenRenewed(t), run.stage # "setup" PROVE SessionInv'
    <3>1. /\ pc = "login" /\ pc' = "recreate" /\ run'.sid = run.sid /\ run'.stage = run.stage
          /\ run'.payload = run.payload /\ run.stage = "token"
      BY <2>3 DEF TokenRenewed, Goto, Inv, TypeOK, Run, SessionInv, StageInv
    <3>2. AliveInv' /\ OwnerInv' /\ StageInv'
      BY <1>10, <3>1 DEF Login, SessionInv, AliveInv, OwnerInv, StageInv, InSession, PayloadKept,
         HeadersKept, sessionVars
    <3>3. AccountInv'
      BY <1>0, <1>10, <3>1 DEF Login, SessionInv, AccountInv, Sessions, Deleted, sessionVars
    <3> QED
      BY <3>2, <3>3 DEF SessionInv
  <2>4. CASE NoNewToken
    <3>1. CASE run.stage = "setup"
      <4>1. pc = "login" /\ pc' = "probe" /\ run'.sid = run.sid /\ run'.tok = run.tok
        BY <2>4, <3>1 DEF NoNewToken, Goto, Inv, TypeOK, Run
      <4> QED
        BY <1>0, <1>10, <4>1, MoveSession DEF Login, StageInv, InSession, PayloadKept, HeadersKept
    <3>2. CASE run.stage # "setup"
      <4>1. /\ pc = "login" /\ pc' = "judge" /\ run'.sid = run.sid /\ run'.tok = run.tok
            /\ run'.stage = "waf" /\ run'.payload = run.payload /\ run'.header = run.header
        BY <2>4, <3>2 DEF NoNewToken, Goto, Inv, TypeOK, Run
      <4>2. /\ run.payload = run.sid /\ run.header = run.tok
        BY <3>2, <4>1 DEF SessionInv, OwnerInv, InSession, PayloadKept, HeadersKept
      <4> QED
        BY <1>0, <1>10, <3>2, <4>1, <4>2, MoveSession DEF Login, StageInv, InSession
    <3> QED
      BY <3>1, <3>2
  <2> QED
    BY <1>10, <2>1, <2>2, <2>3, <2>4 DEF Login, Stopped
<1> QED
  BY <1>1, <1>2, <1>3, <1>4, <1>5, <1>6, <1>7, <1>8, <1>9, <1>10 DEF Setup

LEMMA SessionRetry == ASSUME Inv, SessionInv, NEW s \in Stage, Retry(s) PROVE SessionInv'
<1>1. /\ s \in Stage \ {"setup"} /\ pc = "judge" /\ pc' = FirstStep[s]
      /\ UNCHANGED <<sessionVars, config>>
  BY LoopSet DEF Retry, Due, Goto, outerVars
<1>2. /\ run'.sid = run.sid /\ run'.tok = run.tok /\ run'.stage = s
      /\ run'.payload = run.payload /\ run'.header = run.header
  BY DEF Retry, Inv, TypeOK, Run
<1>3. /\ pc' \in {"solve", "recreate", "login", "warming"}
      /\ pc' = "recreate" => s = "session"
      /\ pc' = "login" => s = "token"
      /\ pc' = "warming" => s = "waf"
  BY <1>1, StageSet DEF FirstStep
<1>4. run.payload = run.sid /\ run.header = run.tok
  BY <1>1 DEF SessionInv, OwnerInv, InSession, PayloadKept, HeadersKept
<1>5. StageInv'
  BY <1>1, <1>2, <1>3 DEF StageInv
<1>6. InSession
  BY <1>1 DEF InSession
<1> QED
  BY <1>1, <1>2, <1>3, <1>4, <1>5, <1>6, MoveSession

LEMMA SessionRecreate == ASSUME Inv, SessionInv, Recreate PROVE SessionInv'
<1>1. PICK new \in {run.sid, Len(owner) + 1} :
        /\ run' = [run EXCEPT !.sid = new]
        /\ owner' = IF new = run.sid THEN [owner EXCEPT ![new] = run.tok]
                                     ELSE Append(owner, run.tok)
        /\ asked' = IF config.autoDelete /\ new # run.sid
                    THEN asked \cup {<<run.sid, OldToken>>} ELSE asked
  BY DEF Recreate
<1>2. /\ pc = "recreate" /\ pc' = "solve" /\ run.sid \in Sessions
      /\ UNCHANGED <<abandoned, config>> /\ run.stage \in {"session", "token"}
  BY DEF Recreate, Goto, Inv, TypeOK, PhaseInv, outerVars, SessionInv, StageInv
<1>3. /\ owner \in Seq(Token) /\ run.tok \in Token /\ OldToken \in Token
      /\ Sessions = 1..Len(owner) /\ Len(owner) \in Nat /\ asked \subseteq Sessions \X Token
  BY SessionsAreNumbers DEF Inv, TypeOK, Run, OldToken
<1>4. run'.sid = new /\ run'.tok = run.tok /\ run'.stage = run.stage
  BY <1>1 DEF Inv, TypeOK, Run
<1>5. StageInv'
  BY <1>2 DEF StageInv
<1>6. \A t \in Token : <<run.sid, t>> \notin asked
  BY <1>2 DEF SessionInv, AliveInv, InSession
<1>7. CASE new = run.sid
  <2>1. owner' = [owner EXCEPT ![run.sid] = run.tok] /\ asked' = asked
    BY <1>1, <1>7
  <2>2. owner' \in Seq(Token) /\ Len(owner') = Len(owner)
    BY <1>2, <1>3, <2>1, ExceptSeq DEF Sessions
  <2>3. owner'[run'.sid] = run'.tok /\ Sessions' = Sessions
    BY <1>2, <1>3, <1>4, <1>7, <2>1, <2>2 DEF Sessions
  <2>4. OwnerInv' /\ AliveInv'
    BY <1>2, <1>4, <1>6, <1>7, <2>1, <2>3 DEF OwnerInv, AliveInv, InSession, PayloadKept, HeadersKept
  <2>5. AccountInv'
    BY <1>2, <1>4, <1>7, <2>1, <2>3 DEF SessionInv, AccountInv, Deleted
  <2> QED
    BY <1>5, <2>4, <2>5 DEF SessionInv
<1>8. CASE new = Len(owner) + 1 /\ new # run.sid
  <2>1. /\ owner' = Append(owner, run.tok)
        /\ asked' = IF config.autoDelete THEN asked \cup {<<run.sid, OldToken>>} ELSE asked
    BY <1>1, <1>8
  <2>2. Sessions' = Sessions \cup {new} /\ new \notin Sessions /\ owner'[new] = run.tok
    BY <1>3, <1>8, <2>1, AppendProperties, LenProperties DEF Sessions
  <2>3. \A t \in Token : <<new, t>> \notin asked'
    BY <1>2, <1>3, <2>1, <2>2
  <2>4. OwnerInv' /\ AliveInv'
    BY <1>2, <1>4, <2>2, <2>3 DEF OwnerInv, AliveInv, InSession, PayloadKept, HeadersKept
  <2>5. config.autoDelete => \A s \in Sessions \ abandoned : Deleted(s) \/ s = run.sid
    BY <1>2 DEF SessionInv, AccountInv
  <2>6. ASSUME config.autoDelete, NEW s \in Sessions \ abandoned PROVE Deleted(s)'
    <3>1. asked' = asked \cup {<<run.sid, OldToken>>}
      BY <2>1, <2>6
    <3> QED
      BY <1>3, <2>5, <2>6, <3>1 DEF Deleted
  <2>7. AccountInv'
    BY <1>2, <1>4, <2>2, <2>6 DEF SessionInv, AccountInv
  <2> QED
    BY <1>5, <2>4, <2>7 DEF SessionInv
<1> QED
  BY <1>7, <1>8

LEMMA SessionAttempts == ASSUME Inv, SessionInv, Attempts PROVE SessionInv'
<1>0. UNCHANGED config
  BY DEF Attempts, Solve, SolveFails, StopBeforeSolve, Attempt, AttemptRaises, Retry, Recreate,
     RecreateFails, TakeSlotBack, LeaveWarming, outerVars
<1>1. CASE Solve
  <2>1. /\ run'.sid = run.sid /\ run'.tok = run.tok /\ run'.stage = run.stage
        /\ run'.header = run.tok /\ pc = "solve" /\ pc' = "attempt"
        /\ run'.payload = IF run.stage \in {"setup", "session", "token"}
                          THEN run.sid ELSE run.payload
    BY <1>1 DEF Solve, Goto, Inv, TypeOK, Run
  <2>2. run'.payload = run'.sid
    BY <2>1 DEF SessionInv, OwnerInv, InSession, PayloadKept
  <2>3. StageInv' /\ InSession
    BY <2>1 DEF StageInv, InSession
  <2> QED
    BY <1>0, <1>1, <2>1, <2>2, <2>3, MoveSession DEF Solve
<1>2. CASE SolveFails
  <2>1. CASE pc = "solve" /\ pc' = "attempt" /\ UNCHANGED run /\ run.stage = "overload"
    BY <1>0, <1>2, <2>1, MoveSession DEF SolveFails, SessionInv, OwnerInv, StageInv, InSession,
       PayloadKept, HeadersKept
  <2>2. CASE End("solve", "other")
    BY <1>0, <1>2, <2>2, EndSession DEF SolveFails
  <2> QED
    BY <1>2, <2>1, <2>2 DEF SolveFails, Goto
<1>3. CASE StopBeforeSolve
  BY <1>0, <1>3, EndSession DEF StopBeforeSolve, Stopped
<1>4. ASSUME NEW t \in BOOLEAN, NEW e \in AttemptErrors \cup {{}}, Attempt(t, e)
      PROVE  SessionInv'
  <2>1. /\ run'.sid = run.sid /\ run'.tok = run.tok /\ pc = "attempt" /\ pc' = "judge"
        /\ run'.payload = run.payload /\ run'.header = run.header
        /\ run'.stage = IF run.stage = "setup" THEN "pow" ELSE run.stage
    BY <1>4 DEF Attempt, Goto, Inv, TypeOK, Run
  <2>2. run.payload = run.sid /\ run.header = run.tok /\ StageInv' /\ InSession
    BY <2>1 DEF SessionInv, OwnerInv, StageInv, InSession, PayloadKept, HeadersKept
  <2> QED
    BY <1>0, <1>4, <2>1, <2>2, MoveSession DEF Attempt
<1>5. CASE \E t \in BOOLEAN : AttemptRaises(t)
  BY <1>0, <1>5, EndSession DEF AttemptRaises
<1>6. CASE \E s \in Stage : Retry(s)
  BY <1>6, SessionRetry
<1>7. CASE Recreate
  BY <1>7, SessionRecreate
<1>8. CASE \E e \in SetupErrors : RecreateFails(e)
  BY <1>0, <1>8, EndSession DEF RecreateFails
<1>9. CASE TakeSlotBack
  <2>1. /\ run'.sid = run.sid /\ run'.tok = run.tok /\ run'.payload = run.payload
        /\ run'.header = run.header /\ run'.stage \in {run.stage, "overload"}
        /\ pc = "warming" /\ pc' \in {"judge", "solve"} /\ run.stage = "waf"
    BY <1>9 DEF TakeSlotBack, Goto, Inv, TypeOK, Run, SessionInv, StageInv
  <2>2. run.payload = run.sid /\ run.header = run.tok /\ StageInv' /\ InSession
    BY <2>1 DEF SessionInv, OwnerInv, StageInv, InSession, PayloadKept, HeadersKept
  <2> QED
    BY <1>0, <1>9, <2>1, <2>2, MoveSession DEF TakeSlotBack
<1>10. CASE LeaveWarming
  BY <1>0, <1>10, EndSession DEF LeaveWarming, Stopped
<1> QED
  BY <1>1, <1>2, <1>3, <1>4, <1>5, <1>6, <1>7, <1>8, <1>9, <1>10 DEF Attempts

LEMMA SessionNext == ASSUME Inv, SessionInv, [Next]_vars PROVE SessionInv'
<1>1. CASE Setup
  BY <1>1, SessionSetup
<1>2. CASE Attempts
  BY <1>2, SessionAttempts
<1>3. CASE Conclude
  <2>1. CASE \E how \in {"won", "ban", "other", "stopped"} : End("judge", how)
    BY <1>3, <2>1, EndSession DEF Conclude, outerVars
  <2>2. CASE pc = "judge" /\ pc' = "probe" /\ UNCHANGED run
    BY <1>3, <2>2, MoveSession DEF Conclude, outerVars, StageInv, InSession, PayloadKept, HeadersKept
  <2> QED
    BY <1>3, <2>1, <2>2 DEF Conclude, Stopped, Goto
<1>4. CASE CleanUp
  <2>1. /\ pc = "cleanup" /\ pc' = "ended" /\ UNCHANGED <<run, owner, abandoned, config>>
        /\ asked' = IF config.autoDelete /\ run.sid # 0
                    THEN asked \cup {<<run.sid, run.tok>>} ELSE asked
    BY <1>4 DEF CleanUp, Goto, outerVars
  <2>2. 0 \notin Sessions /\ run.tok \in Token
    BY SessionsAreNumbers DEF Inv, TypeOK, Run
  <2>3. AccountInv'
    BY <2>1, <2>2 DEF SessionInv, AccountInv, Sessions, Deleted
  <2> QED
    BY <2>1, <2>3 DEF SessionInv, StageInv, OwnerInv, AliveInv, InSession, PayloadKept, HeadersKept
<1>5. CASE NextAccount
  <2>1. /\ pc' = "begin" /\ owner' = <<>> /\ asked' = {} /\ abandoned' = {}
        /\ run'.sid = 0 /\ run'.stage = "setup"
    BY <1>5, NewRunType DEF NextAccount, Goto
  <2>2. Sessions' = {}
    BY <2>1 DEF Sessions
  <2> QED
    BY <2>1, <2>2 DEF SessionInv, StageInv, OwnerInv, AliveInv, AccountInv, InSession, PayloadKept,
       HeadersKept
<1>6. CASE UNCHANGED <<pc, run, config, sessionVars>>
  BY <1>6 DEF SessionInv, StageInv, OwnerInv, AliveInv, AccountInv, InSession, PayloadKept,
     HeadersKept, sessionVars, Sessions, Deleted
<1> QED
  BY <1>1, <1>2, <1>3, <1>4, <1>5, <1>6 DEF Next, Step, ClientLeaves, vars, outerVars

LEMMA SessionInvHolds == Spec => []SessionInv
BY InvHolds, SessionInit, SessionNext, PTL DEF Spec

\* Whatever the loops before it renewed or created, an attempt goes out with the
\* headers of the token in use, to the current session, which was created with
\* that token (_run_completion_core, _refresh_token_once).
THEOREM AttemptConsistentHolds == Spec => []AttemptConsistent
<1>1. SessionInv => AttemptConsistent
  BY DEF SessionInv, OwnerInv, AttemptConsistent, InSession, PayloadKept, HeadersKept
<1> QED
  BY <1>1, SessionInvHolds, PTL

\* No deletion that a run asks for is of the session it goes on with, even if the
\* upstream answers a creation with the old session's id.
THEOREM SessionAliveHolds == Spec => []SessionAlive
<1>1. SessionInv => SessionAlive
  BY DEF SessionInv, OwnerInv, AliveInv, SessionAlive, InSession, PayloadKept
<1> QED
  BY <1>1, SessionInvHolds, PTL

\* With auto_delete_session, a run that ends, on whichever path, leaves no upstream
\* session undeleted but one a job creates after its client has left.
THEOREM SessionsAccountedHolds == Spec => []SessionsAccounted
<1>1. SessionInv => SessionsAccounted
  BY DEF SessionInv, AccountInv, Deleted, SessionsAccounted
<1> QED
  BY <1>1, SessionInvHolds, PTL
=============================================================================
