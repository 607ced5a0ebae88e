------------------------- MODULE CompletionOutcome --------------------------
(***************************************************************************)
(* What the failover loop relies on when it runs _run_completion_core on   *)
(* the slot of an account: how a run may end, when it may give the slot    *)
(* away and how often.  Module Failover has these steps as its actions on  *)
(* a request that is at "run" (a lock found open is given up and taken     *)
(* back at once there); module CompletionCore implements them.             *)
(***************************************************************************)
EXTENDS Naturals

CONSTANT MaxRetries  \* settings.max_retries

VARIABLES
  phase,      \* "run", "warm" (the slot is given up) or how the run ended
  waf,        \* how often the run may still give the slot up
  marked,     \* the run marked its account banned
  cancelled   \* the request's cancel event is set

vars == <<phase, waf, marked, cancelled>>

Ended == {"won", "ban", "auth", "other", "stopped"}

TypeOK ==
  /\ phase \in {"run", "warm"} \cup Ended
  /\ waf \in 0..MaxRetries
  /\ {marked, cancelled} \subseteq BOOLEAN

Init ==
  /\ phase = "run"
  /\ waf = MaxRetries
  /\ marked = FALSE
  /\ cancelled = FALSE

Become(from, to) ==
  /\ phase = from
  /\ phase' = to

EndRun(how) ==
  /\ Become("run", how)
  /\ how \in {"won", "auth", "other"}
  /\ UNCHANGED <<waf, marked, cancelled>>

\* The account is marked by the step that raises the 403.
EndBanned ==
  /\ Become("run", "ban")
  /\ marked' = TRUE
  /\ UNCHANGED <<waf, cancelled>>

\* Only a client that left stops a run.
Stop ==
  /\ cancelled
  /\ phase \in {"run", "warm"}
  /\ phase' = "stopped"
  /\ UNCHANGED <<waf, marked, cancelled>>

GiveSlot ==
  /\ ~cancelled
  /\ waf > 0
  /\ Become("run", "warm")
  /\ waf' = waf - 1
  /\ UNCHANGED <<marked, cancelled>>

TakeSlotBack ==
  /\ Become("warm", "run")
  /\ UNCHANGED <<waf, marked, cancelled>>

\* The failover loop starts over on another account.
NextAccount ==
  /\ ~cancelled
  /\ phase \in {"ban", "auth"}
  /\ phase' = "run"
  /\ waf' = MaxRetries
  /\ marked' = FALSE
  /\ UNCHANGED cancelled

ClientLeaves ==
  /\ cancelled' = TRUE
  /\ UNCHANGED <<phase, waf, marked>>

Next ==
  \/ \E how \in Ended : EndRun(how)
  \/ EndBanned
  \/ Stop
  \/ GiveSlot
  \/ TakeSlotBack
  \/ NextAccount
  \/ ClientLeaves

Spec == Init /\ [][Next]_vars
=============================================================================
