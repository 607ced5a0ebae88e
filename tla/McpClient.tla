----------------------------- MODULE McpClient -----------------------------
(***************************************************************************)
(* mcp_client.py: threads call tools of a child process over its pipes.    *)
(* The child may answer in any order, late, with an error or not at all,   *)
(* close its output, and die; close() may come at any time.                *)
(***************************************************************************)
EXTENDS Naturals, FiniteSets

CONSTANTS
  Caller,  \* threads that call
  MaxIds   \* bound: requests

ASSUME McpAssumption == IsFiniteSet(Caller) /\ MaxIds \in Nat

Ids == 1..MaxIds

VARIABLES
  lastId,   \* _id
  sent,     \* history: requests made, which numbers them
  pending,  \* ids registered in _pending
  box,      \* each id's queue: empty, None ({0}), or the answer to a request
  request,  \* the request each caller waits for
  stage,    \* where each caller is in _send
  returned,  \* the request whose answer the last call of each returned, if one
  asked,    \* requests the child has read and may still answer
  lines,    \* answers in the pipe (results or errors)
  taken,    \* the answer the reader has looked up and not delivered yet
  reader,   \* "reads", "drains" when its loop is over, "ended"
  child,    \* "up", "silent" once its output is closed, "dead"
  closed    \* _closed

mcpVars == <<lastId, sent, pending, box, request, stage, returned, asked, lines, taken,
             reader, child, closed>>
callVars == <<lastId, sent, pending, request, stage, returned>>

Requests == [id : Ids, no : Ids]  \* the id it carries, and which request it is
NoRequest == [id |-> 0, no |-> 0]
None == {0}

McpTypeOK ==
  /\ {lastId, sent} \subseteq 0..MaxIds
  /\ pending \subseteq Ids
  /\ box \in [Ids -> {{}, None} \cup {{n} : n \in Ids}]
  /\ request \in [Caller -> Requests \cup {NoRequest}]
  /\ stage \in [Caller -> {"idle", "checked", "write", "wait", "got", "raise"}]
  /\ returned \in [Caller -> {"nothing", "own", "foreign", "error"}]
  /\ asked \subseteq Requests /\ lines \subseteq Requests
  /\ taken \in Requests \cup {NoRequest}
  /\ reader \in {"reads", "drains", "ended"}
  /\ child \in {"up", "silent", "dead"}
  /\ closed \in BOOLEAN

\* After the constructor: the child is initialised, and the reader runs.
McpInit ==
  /\ lastId = 0 /\ sent = 0 /\ pending = {} /\ box = [i \in Ids |-> {}]
  /\ request = [c \in Caller |-> NoRequest]
  /\ stage = [c \in Caller |-> "idle"]
  /\ returned = [c \in Caller |-> "nothing"]
  /\ asked = {} /\ lines = {} /\ taken = NoRequest
  /\ reader = "reads" /\ child = "up" /\ closed = FALSE

Advance(c, from, to) ==
  /\ stage[c] = from
  /\ stage' = [stage EXCEPT ![c] = to]

Pipes == <<asked, lines, taken, reader, child, closed>>

-----------------------------------------------------------------------------
(* _send                                                                   *)

\* Closed clients and exited children are refused.
Send(c) ==
  /\ ~closed /\ child # "dead"
  /\ sent + Cardinality({d \in Caller : stage[d] = "checked"}) < MaxIds
  /\ Advance(c, "idle", "checked")
  /\ UNCHANGED <<lastId, sent, pending, box, request, returned, Pipes>>

\* A bug to find: ids start again once nothing is pending.
NextId_Again == IF pending = {} THEN 1 ELSE lastId + 1

NextId == lastId + 1

Register(c) ==
  /\ Advance(c, "checked", "write")
  /\ lastId' = NextId /\ sent' = sent + 1
  /\ pending' = pending \cup {NextId}
  /\ box' = [box EXCEPT ![NextId] = {}]
  /\ request' = [request EXCEPT ![c] = [id |-> NextId, no |-> sent + 1]]
  /\ UNCHANGED <<returned, Pipes>>

\* Writing to a dead child, or to a pipe that close() has closed, fails.
Write(c) ==
  /\ \/ child # "dead" /\ Advance(c, "write", "wait") /\ asked' = asked \cup {request[c]}
     \/ child = "dead" /\ Advance(c, "write", "raise") /\ UNCHANGED asked
  /\ UNCHANGED <<lastId, sent, pending, box, request, returned, lines, taken, reader, child,
                 closed>>

\* box.get returns, or times out.
Take(c) ==
  /\ \/ Advance(c, "wait", "got") /\ box[request[c].id] # {}
     \/ Advance(c, "wait", "raise") /\ box[request[c].id] = {}
  /\ UNCHANGED <<lastId, sent, pending, box, request, returned, Pipes>>

\* What _send returns or raises.
Outcome(c) ==
  CASE stage[c] = "raise" \/ box[request[c].id] = None -> "error"
    [] box[request[c].id] = {request[c].no} -> "own"
    [] OTHER -> "foreign"

\* The finally takes the id off the pending ones.
Return(c) ==
  /\ \/ Advance(c, "got", "idle") \/ Advance(c, "raise", "idle")
  /\ pending' = pending \ {request[c].id}
  /\ returned' = [returned EXCEPT ![c] = Outcome(c)]
  /\ request' = [request EXCEPT ![c] = NoRequest]
  /\ UNCHANGED <<lastId, sent, box, Pipes>>

-----------------------------------------------------------------------------
(* The reader thread                                                       *)

\* An answer's queue is looked up under the lock; that to a call that is over
\* is dropped.
Read(line) ==
  /\ reader = "reads" /\ taken = NoRequest
  /\ line \in lines
  /\ lines' = lines \ {line}
  /\ taken' = IF line.id \in pending THEN line ELSE NoRequest
  /\ UNCHANGED <<callVars, box, asked, reader, child, closed>>

\* It is put into the queue found, whether or not its caller still waits.
Deliver ==
  /\ taken # NoRequest
  /\ box' = [box EXCEPT ![taken.id] = IF @ = {} THEN {taken.no} ELSE @]
  /\ taken' = NoRequest
  /\ UNCHANGED <<callVars, asked, lines, reader, child, closed>>

\* End of the output (or a closed pipe): the loop is over, and its finally
\* wakes every waiter with None.
EndOfOutput ==
  /\ reader = "reads" /\ taken = NoRequest
  /\ closed \/ (child # "up" /\ lines = {})
  /\ reader' = "drains"
  /\ UNCHANGED <<callVars, box, asked, lines, taken, child, closed>>

WakeAll ==
  /\ reader = "drains"
  /\ reader' = "ended"
  /\ pending' = {}
  /\ box' = [i \in Ids |-> IF i \in pending /\ box[i] = {} THEN None ELSE box[i]]
  /\ UNCHANGED <<lastId, sent, request, stage, returned, asked, lines, taken, child, closed>>

-----------------------------------------------------------------------------
(* The child, and close()                                                  *)

ChildAnswers(line) ==
  /\ child = "up" /\ line \in asked
  /\ asked' = asked \ {line}
  /\ lines' = lines \cup {line}
  /\ UNCHANGED <<callVars, box, taken, reader, child, closed>>

Dies ==
  /\ \/ child = "up" /\ child' = "silent"
     \/ child # "dead" /\ child' = "dead"
  /\ UNCHANGED <<callVars, box, asked, lines, taken, reader, closed>>

\* terminate, kill, and the pipes closed.
CloseClient ==
  /\ ~closed
  /\ closed' = TRUE /\ child' = "dead"
  /\ UNCHANGED <<callVars, box, asked, lines, taken, reader>>

-----------------------------------------------------------------------------

CallerStep(c) == Register(c) \/ Write(c) \/ Take(c) \/ Return(c)
ReaderStep == (\E line \in lines : Read(line)) \/ Deliver \/ EndOfOutput \/ WakeAll

McpNext ==
  \/ \E c \in Caller : Send(c) \/ CallerStep(c)
  \/ ReaderStep
  \/ \E line \in asked : ChildAnswers(line)
  \/ Dies \/ CloseClient

McpSpec == McpInit /\ [][McpNext]_mcpVars

McpFairness == (\A c \in Caller : WF_mcpVars(CallerStep(c))) /\ WF_mcpVars(ReaderStep)

-----------------------------------------------------------------------------

(* A call returns the answer to its own request, never that of an earlier  *)
(* one that timed out or of another thread, however late and in whatever   *)
(* order the child answers (mcp_client.py:5, "Responses are routed by      *)
(* request id").                                                           *)
OwnAnswer == \A c \in Caller : returned[c] # "foreign"

(* Every call returns, also one that meets the child's death or close().   *)
McpCallsReturn == \A c \in Caller : stage[c] # "idle" ~> stage[c] = "idle"
=============================================================================
