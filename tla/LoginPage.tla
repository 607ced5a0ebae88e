----------------------------- MODULE LoginPage -----------------------------
(***************************************************************************)
(* The two login drivers, auth.BrowserLogin._run (Obscura over MCP) and    *)
(* real_browser.RealBrowser.login (a real browser over CDP), from the form *)
(* to their verdict: both poll the page and judge it by login_policy.      *)
(***************************************************************************)
EXTENDS Naturals, Sequences

CONSTANTS
  Page,        \* readings of the page: [captcha, phrases, token, signIn]
  MaxReadings  \* bound: readings before the deadline

Driver == {"obscura", "real"}
Token == {"none", "old", "new"}  \* localStorage.userToken; "old" was there before
Kind == {"captcha", "credential", "ban"}

ASSUME LoginAssumption ==
  /\ Page \subseteq [captcha : BOOLEAN, phrases : SUBSET Kind, token : Token, signIn : BOOLEAN]
  /\ MaxReadings \in Nat

VARIABLES
  driver,   \* which browser_login uses
  baseline, \* the token found before the form was sent
  streak,   \* ban_streak: readings in a row that show a ban (Obscura)
  hint,     \* ban_hint: a reading showed one (real browser)
  verdict,  \* [done, token, banned] of the LoginResult
  readings  \* history: the readings so far

loginVars == <<driver, baseline, streak, hint, verdict, readings>>

Open == [done |-> FALSE, token |-> "none", banned |-> FALSE]
NoLogin == [Open EXCEPT !.done = TRUE]

LoginTypeOK ==
  /\ driver \in Driver \cup {"none"}
  /\ baseline \in {"none", "old"}
  /\ streak \in 0..2 /\ hint \in BOOLEAN
  /\ verdict \in [done : BOOLEAN, token : Token, banned : BOOLEAN]
  /\ Len(readings) <= MaxReadings

LoginInit ==
  /\ driver = "none"
  /\ baseline = "none" /\ streak = 0 /\ hint = FALSE
  /\ verdict = Open
  /\ readings = <<>>

\* browser_login: a configured browser, or else Obscura.  The stale token is
\* removed, or that fails (Obscura then notes it as its baseline); the form is
\* filled and sent.
Submit(d, left) ==
  /\ driver = "none"
  /\ driver' = d
  /\ baseline' = IF d = "obscura" THEN left ELSE "none"
  /\ UNCHANGED <<streak, hint, verdict, readings>>

\* The page does not open, or its form cannot be filled.
FormFails(d) ==
  /\ driver = "none"
  /\ driver' = d
  /\ verdict' = NoLogin
  /\ UNCHANGED <<baseline, streak, hint, readings>>

-----------------------------------------------------------------------------

\* classify_page_state: captchas before credential errors before bans.
Classify(page) ==
  IF page.captcha \/ "captcha" \in page.phrases THEN "captcha"
  ELSE IF "credential" \in page.phrases THEN "credential"
  ELSE IF "ban" \in page.phrases THEN "ban" ELSE "none"

\* A token that was there before counts once the page has left the form.
Fresh(page) ==
  /\ page.token # "none"
  /\ baseline = "none" \/ page.token # baseline \/ ~page.signIn

\* A bug to find: a reading without a ban does not end the streak.
Streak_Kept(kind) == IF kind = "ban" THEN streak + 1 ELSE streak

Streak(kind) == IF kind = "ban" THEN streak + 1 ELSE 0

ObscuraReads(page) ==
  LET kind == Classify(page) IN
  /\ streak' = Streak(kind)
  /\ verdict' = CASE kind = "ban" /\ Streak(kind) >= 2 -> [NoLogin EXCEPT !.banned = TRUE]
                  [] kind \in {"captcha", "credential"} -> NoLogin
                  [] kind = "none" /\ Fresh(page) -> [NoLogin EXCEPT !.token = page.token]
                  [] OTHER -> Open
  /\ UNCHANGED hint

\* The real browser looks at the overlay only, not at captcha phrases; its
\* hint stays, and goes with whatever the login ends with.
RealReads(page) ==
  /\ hint' = (hint \/ (~page.captcha /\ "ban" \in page.phrases))
  /\ verdict' = CASE page.captcha -> NoLogin
                  [] page.token # "none" /\ ~page.captcha ->
                       [done |-> TRUE, token |-> page.token, banned |-> hint']
                  [] page.token = "none" /\ ~page.captcha /\ "credential" \in page.phrases ->
                       [NoLogin EXCEPT !.banned = hint']
                  [] OTHER -> Open
  /\ UNCHANGED streak

Polling == driver # "none" /\ ~verdict.done

Poll(page) ==
  /\ Polling
  /\ Len(readings) < MaxReadings
  /\ IF driver = "obscura" THEN ObscuraReads(page) ELSE RealReads(page)
  /\ readings' = Append(readings, page)
  /\ UNCHANGED <<driver, baseline>>

\* The deadline passes (probes that fail change nothing before).
DeadlinePasses ==
  /\ Polling
  /\ verdict' = [NoLogin EXCEPT !.banned = hint]
  /\ UNCHANGED <<driver, baseline, streak, hint, readings>>

LoginNext ==
  \/ \E left \in {"none", "old"}, d \in Driver : Submit(d, left)
  \/ \E d \in Driver : FormFails(d)
  \/ \E page \in Page : Poll(page)
  \/ DeadlinePasses

LoginSpec == LoginInit /\ [][LoginNext]_loginVars

-----------------------------------------------------------------------------

LastReading == readings[Len(readings)]

(* What a login reports rests on what the page showed.  A token is that of *)
(* the last reading, on which no challenge was visible; Obscura's is not   *)
(* the one from before the form while the page still shows the form, nor   *)
(* one of a page that shows an error.  A ban, which cools the account      *)
(* down, was shown, and to Obscura twice in a row and under no captcha or  *)
(* credential error: one flicker of "muted" bans nobody (auth.py, _run).   *)
VerdictEarned ==
  /\ verdict.token # "none" =>
       /\ ~LastReading.captcha /\ verdict.token = LastReading.token
       /\ driver = "obscura" =>
            /\ LastReading.phrases = {}
            /\ LastReading.token = baseline => ~LastReading.signIn
  /\ verdict.banned /\ driver = "real" =>
       \E i \in DOMAIN readings : "ban" \in readings[i].phrases
  /\ verdict.banned /\ driver = "obscura" =>
       /\ Len(readings) >= 2
       /\ \A i \in {Len(readings) - 1, Len(readings)} :
            readings[i].phrases = {"ban"} /\ ~readings[i].captcha
=============================================================================
