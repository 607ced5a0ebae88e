---------------------------- MODULE StreamBridge ----------------------------
(***************************************************************************)
(* Streamed requests: the response generator of _stream_completion on the  *)
(* event loop, its producer job on the bounded stream executor, the queue  *)
(* between them, the consumer's timeout and the cancel event.  The job is  *)
(* _complete_with_failover_sync on the slot its request was admitted with: *)
(* what it does to the slot is CompletionOutcome's, on one account.        *)
(***************************************************************************)
EXTENDS Naturals, Sequences, FiniteSets

CONSTANTS
  Request,        \* streamed requests
  Account,        \* accounts, one slot each
  NoSlot,         \* no account: the request was not admitted yet
  Workers,        \* size of _STREAM_EXECUTOR
  ConsumerTicks,  \* consumer_timeout, in ticks
  MaxRetries,     \* settings.max_retries: how often a job may give its slot up
  MaxText,        \* bound: pieces of text of a reply
  Live            \* values of settings.stream_mode: does text go out piecewise?

ASSUME BridgeAssumption ==
  /\ NoSlot \notin Account
  /\ {Workers, MaxText} \subseteq Nat \ {0}
  /\ {ConsumerTicks, MaxRetries} \subseteq Nat
  /\ Live \subseteq BOOLEAN

VARIABLES
  live,       \* settings.stream_mode is "live"
  locked,     \* the locks of the accounts, which have no owner
  slot,       \* the account a request was admitted with
  gen,        \* the response generator
  job,        \* the producer
  backlog,    \* jobs the executor has not begun
  out,        \* the queue from the producer to the generator
  wait,       \* ticks until the generator gives its producer up
  cancelled,  \* cancel_event of _stream_completion
  waf,        \* WAF retries the job has made
  result,     \* how the completion ended
  made,       \* history: pieces of text the producer has put
  shown,      \* history: pieces of text the generator has yielded
  closing     \* history: what the generator closed on

jobVars == <<job, backlog, waf, result, made>>
genVars == <<gen, wait, cancelled, shown, closing>>
vars == <<live, locked, slot, out, jobVars, genVars>>

Terminal == {"done", "failed"}  \* "http_error" and "error" are both "failed"

\* The states of a job that keep a worker of the executor.
Working == {"running", "event", "warming", "ending", "reporting"}
Busy == {r \in Request : job[r] \in Working}

TypeOK ==
  /\ live \in BOOLEAN
  /\ locked \in [Account -> BOOLEAN]
  /\ slot \in [Request -> Account \cup {NoSlot}]
  /\ gen \in [Request -> {"none", "ready", "open", "closed"}]
  /\ job \in [Request -> {"none", "queued", "over"} \cup Working]
  /\ backlog \in Seq(Request)
  /\ out \in [Request -> Seq({"text"} \cup Terminal)]
  /\ wait \in [Request -> 0..ConsumerTicks]
  /\ cancelled \in [Request -> BOOLEAN]
  /\ waf \in [Request -> 0..MaxRetries]
  /\ result \in [Request -> {"none", "stopped"} \cup Terminal]
  /\ made \in [Request -> 0..MaxText]
  /\ shown \in [Request -> 0..MaxText]
  /\ closing \in [Request -> {"none", "timeout", "left", "unread"} \cup Terminal]

Init ==
  /\ live \in Live
  /\ locked = [a \in Account |-> FALSE]
  /\ slot = [r \in Request |-> NoSlot]
  /\ gen = [r \in Request |-> "none"]
  /\ job = [r \in Request |-> "none"]
  /\ backlog = <<>>
  /\ out = [r \in Request |-> <<>>]
  /\ wait = [r \in Request |-> 0]
  /\ cancelled = [r \in Request |-> FALSE]
  /\ waf = [r \in Request |-> 0]
  /\ result = [r \in Request |-> "none"]
  /\ made = [r \in Request |-> 0]
  /\ shown = [r \in Request |-> 0]
  /\ closing = [r \in Request |-> "none"]

Unlock(r) == locked' = [locked EXCEPT ![slot[r]] = FALSE]
Lock(a) == locked' = [locked EXCEPT ![a] = TRUE]
Put(r, item) == out' = [out EXCEPT ![r] = Append(@, item)]

-----------------------------------------------------------------------------
(* The response, on the event loop                                         *)

\* The handler got a slot and returned its StreamingResponse.
Admit(r, a) ==
  /\ gen[r] = "none"
  /\ ~locked[a]
  /\ gen' = [gen EXCEPT ![r] = "ready"]
  /\ slot' = [slot EXCEPT ![r] = a]
  /\ Lock(a)
  /\ UNCHANGED <<live, out, jobVars, wait, cancelled, shown, closing>>

\* First step of the generator: it submits its producer.
StartStream(r) ==
  /\ gen[r] = "ready"
  /\ gen' = [gen EXCEPT ![r] = "open"]
  /\ wait' = [wait EXCEPT ![r] = ConsumerTicks]
  /\ job' = [job EXCEPT ![r] = "queued"]
  /\ backlog' = Append(backlog, r)
  /\ UNCHANGED <<live, locked, slot, out, waf, result, made, cancelled, shown, closing>>

\* The client was gone before the server took the first step of the generator:
\* the body of a generator that never started, its "finally" too, never runs.
NeverStarted(r) ==
  /\ gen[r] = "ready"
  /\ gen' = [gen EXCEPT ![r] = "closed"]
  /\ closing' = [closing EXCEPT ![r] = "unread"]
  /\ UNCHANGED <<live, locked, slot, out, jobVars, wait, cancelled, shown>>

Close_NoCancel(r, how) ==
  /\ gen[r] = "open"
  /\ gen' = [gen EXCEPT ![r] = "closed"]
  /\ closing' = [closing EXCEPT ![r] = how]
  /\ UNCHANGED cancelled

\* The generator ends, with its "finally".
Close(r, how) ==
  /\ gen[r] = "open"
  /\ gen' = [gen EXCEPT ![r] = "closed"]
  /\ closing' = [closing EXCEPT ![r] = how]
  /\ cancelled' = [cancelled EXCEPT ![r] = TRUE]

\* out.get() returns a piece of text or the last item.
Deliver(r) ==
  /\ gen[r] = "open"
  /\ out[r] # <<>>
  /\ out' = [out EXCEPT ![r] = Tail(@)]
  /\ IF Head(out[r]) = "text"
     THEN /\ shown' = [shown EXCEPT ![r] = @ + 1]
          /\ wait' = [wait EXCEPT ![r] = ConsumerTicks]
          /\ UNCHANGED <<gen, cancelled, closing>>
     ELSE /\ Close(r, Head(out[r]))
          /\ UNCHANGED <<shown, wait>>
  /\ UNCHANGED <<live, locked, slot, jobVars>>

\* out.get() timed out.
GiveUp(r) ==
  /\ wait[r] = 0
  /\ out[r] = <<>>
  /\ Close(r, "timeout")
  /\ UNCHANGED <<live, locked, slot, out, jobVars, wait, shown>>

ClientLeaves(r) ==
  /\ Close(r, "left")
  /\ UNCHANGED <<live, locked, slot, out, jobVars, wait, shown>>

Tick ==
  /\ \A r \in Request : gen[r] = "open" => wait[r] > 0
  /\ wait' = [r \in Request |-> IF gen[r] = "open" THEN wait[r] - 1 ELSE wait[r]]
  /\ UNCHANGED <<live, locked, slot, out, jobVars, gen, cancelled, shown, closing>>

-----------------------------------------------------------------------------
(* The producer, on a worker of the executor                               *)

Goto(r, from, to) ==
  /\ job[r] = from
  /\ job' = [job EXCEPT ![r] = to]

Begin(r) ==
  /\ backlog # <<>> /\ Head(backlog) = r
  /\ Cardinality(Busy) < Workers
  /\ Goto(r, "queued", "running")
  /\ backlog' = Tail(backlog)
  /\ UNCHANGED <<live, locked, slot, out, waf, result, made, genVars>>

\* _attempt looks at the cancel event, then handles the event it has read.
ReadEvent(r) ==
  /\ live /\ ~cancelled[r] /\ made[r] < MaxText
  /\ Goto(r, "running", "event")
  /\ UNCHANGED <<live, locked, slot, out, backlog, waf, result, made, genVars>>

PutText(r) ==
  /\ Goto(r, "event", "running")
  /\ Put(r, "text")
  /\ made' = [made EXCEPT ![r] = @ + 1]
  /\ UNCHANGED <<live, locked, slot, backlog, waf, result, genVars>>

\* _run_completion_core ends: stopped only with the cancel event set, done only
\* without it.
EndCompletion(r, how) ==
  /\ how = "stopped" => cancelled[r]
  /\ how = "done" => ~cancelled[r]
  /\ Goto(r, "running", "ending")
  /\ result' = [result EXCEPT ![r] = how]
  /\ UNCHANGED <<live, locked, slot, out, backlog, waf, made, genVars>>

ReleaseSlot_NotWhenStopped(r) ==
  /\ Goto(r, "ending", "reporting")
  /\ IF result[r] = "stopped" THEN UNCHANGED locked ELSE Unlock(r)
  /\ UNCHANGED <<live, slot, out, backlog, waf, result, made, genVars>>

\* The failover loop gives the slot back, then the producer reports.
ReleaseSlot(r) ==
  /\ Goto(r, "ending", "reporting")
  /\ Unlock(r)
  /\ UNCHANGED <<live, slot, out, backlog, waf, result, made, genVars>>

Report_First(r) ==
  /\ Goto(r, "reporting", "over")
  /\ out' = [out EXCEPT ![r] = IF result[r] = "stopped" THEN @ ELSE <<result[r]>> \o @]
  /\ UNCHANGED <<live, locked, slot, backlog, waf, result, made, genVars>>

Report(r) ==
  /\ Goto(r, "reporting", "over")
  /\ IF result[r] = "stopped" THEN UNCHANGED out ELSE Put(r, result[r])
  /\ UNCHANGED <<live, locked, slot, backlog, waf, result, made, genVars>>

GiveSlotForWaf_OnceMore(r) ==
  /\ waf[r] <= MaxRetries
  /\ ~cancelled[r]
  /\ Goto(r, "running", IF locked[slot[r]] THEN "warming" ELSE "running")
  /\ Unlock(r)
  /\ waf' = [waf EXCEPT ![r] = @ + 1]
  /\ UNCHANGED <<live, slot, out, backlog, result, made, genVars>>

\* _refresh_waf_without_account_lock; a lock found open is only warmed for.
GiveSlotForWaf(r) ==
  /\ waf[r] < MaxRetries
  /\ ~cancelled[r]
  /\ Goto(r, "running", IF locked[slot[r]] THEN "warming" ELSE "running")
  /\ Unlock(r)
  /\ waf' = [waf EXCEPT ![r] = @ + 1]
  /\ UNCHANGED <<live, slot, out, backlog, result, made, genVars>>

TakeSlotBack(r) ==
  /\ Goto(r, "warming", "running")
  /\ ~locked[slot[r]]
  /\ Lock(slot[r])
  /\ UNCHANGED <<live, slot, out, backlog, waf, result, made, genVars>>

\* _StreamCancelled while the slot is given up: it is released all the same.
AbandonSlot(r) ==
  /\ cancelled[r]
  /\ Goto(r, "warming", "ending")
  /\ result' = [result EXCEPT ![r] = "stopped"]
  /\ UNCHANGED <<live, locked, slot, out, backlog, waf, made, genVars>>

-----------------------------------------------------------------------------

Produce(r) ==
  \/ Begin(r)
  \/ ReadEvent(r)
  \/ PutText(r)
  \/ \E how \in Terminal \cup {"stopped"} : EndCompletion(r, how)
  \/ ReleaseSlot(r)
  \/ Report(r)
  \/ GiveSlotForWaf(r)
  \/ TakeSlotBack(r)
  \/ AbandonSlot(r)

Respond(r) == StartStream(r) \/ NeverStarted(r) \/ Deliver(r) \/ GiveUp(r)

Next ==
  \/ \E r \in Request, a \in Account : Admit(r, a)
  \/ \E r \in Request : Respond(r) \/ Produce(r) \/ ClientLeaves(r)
  \/ Tick

Spec == Init /\ [][Next]_vars

(***************************************************************************)
(* The event loop and the workers keep running, upstream calls and WAF     *)
(* warmups end (they carry timeouts), clients read what they are sent or   *)
(* leave, and time passes.                                                 *)
(***************************************************************************)
FairSpec ==
  /\ Spec
  /\ \A r \in Request : WF_vars(Respond(r)) /\ WF_vars(Produce(r))
  /\ WF_vars(Tick)

-----------------------------------------------------------------------------
(* Properties                                                              *)

\* Every response that was started ends, whatever its producer does, and so does
\* every producer: workers that wait for slots held by queued producers are freed
\* by their consumers' timeouts, at the latest.
EveryStreamEnds ==
  \A r \in Request : /\ gen[r] = "open" ~> gen[r] = "closed"
                     /\ job[r] = "queued" ~> job[r] = "over"

\* A reply that ends well was shown in full, and nothing follows its end.
ReplyComplete ==
  \A r \in Request : closing[r] = "done" => shown[r] = made[r] /\ out[r] = <<>>

WillRelease(r) ==
  gen[r] = "ready" \/ job[r] \in {"queued", "running", "event", "ending"}

\* A taken slot has a request that will release it, or was lost by a response
\* that never started.
SlotsAccounted ==
  \A a \in Account : locked[a] =>
    \E r \in Request : slot[r] = a /\ (WillRelease(r) \/ closing[r] = "unread")

\* A taken slot has a request that will release it (server.py: when the generator
\* is closed by a disconnect, the account lock frees).
SlotComesBack ==
  \A a \in Account : locked[a] => \E r \in Request : slot[r] = a /\ WillRelease(r)
=============================================================================
