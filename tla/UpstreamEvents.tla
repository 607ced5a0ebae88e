--------------------------- MODULE UpstreamEvents ---------------------------
(***************************************************************************)
(* client.stream_completion: one answer of the upstream, whatever its      *)
(* status and form, becomes a sequence of events that ends with at most    *)
(* one error or end; and what the last lines of _run_completion_core make  *)
(* of the error.  The upstream writes its text in any of the encodings     *)
(* that StreamParser reads.                                                *)
(***************************************************************************)
EXTENDS SseParser

CONSTANTS
  Envelope,  \* envelopes the upstream may send, out of Envelopes
  MaxPieces  \* bound: pieces of text

ASSUME UpstreamAssumption == Envelope \subseteq Envelopes /\ MaxPieces \in Nat

VARIABLES
  channel,  \* how the answer comes: "none" yet, "lines" of an event stream, or
            \* the one of the error
  heard,    \* the parser's last_path
  events,   \* what the generator has yielded
  over,     \* whether it has returned
  meant,    \* history: the text the upstream has sent, as events
  envelope, \* history: the envelope that ended the answer
  ended     \* history: the upstream has finished its reply

upstreamVars == <<channel, heard, events, over, meant, envelope, ended>>

NoEnvelope == [code |-> "none"]
IsText(e) == e.kind \in TextPath
TextsIn(es) == FlattenSeq([i \in DOMAIN es |-> IF IsText(es[i]) THEN <<es[i]>> ELSE <<>>])

UpstreamTypeOK ==
  /\ channel \in {"none", "lines", "parsed", "drained", "raw", "data", "status", "toast",
                  "setup"}
  /\ heard \in TextPath \cup {""}
  /\ \A i \in DOMAIN events :
       events[i].kind \in TextPath \cup {"usage", "finished", "error"}
  /\ Len(meant) <= MaxPieces
  /\ {over, ended} \subseteq BOOLEAN
  /\ envelope \in Envelope \cup {NoEnvelope}

UpstreamInit ==
  /\ channel = "none" /\ heard = "" /\ events = <<>> /\ over = FALSE
  /\ meant = <<>> /\ envelope = NoEnvelope /\ ended = FALSE

Terminal(es) == \E i \in DOMAIN es : es[i].kind \in {"finished", "error"}

Yield(es) ==
  /\ events' = events \o es
  /\ over' = Terminal(es)

-----------------------------------------------------------------------------
(* Answers that are no event stream                                        *)

\* With HTTP 200: the body as resp.json() gives it, or (of a stream) drained
\* line by line, or neither.  A body that shows no error is one all the same.
JsonAnswer(e, how) ==
  /\ channel = "none"
  /\ channel' = how /\ envelope' = e
  /\ LET event == BanStreamEvent(e) IN
     events' = IF event # NoEvent THEN <<event>>
               ELSE IF how = "drained"
                    THEN <<ErrorEvent("UPSTREAM_ERROR", BodyNamed(e), FALSE)>> ELSE <<>>
  /\ over' = TRUE
  /\ UNCHANGED <<heard, meant, ended>>

\* With another status: the text of the body is all that is kept.
StatusAnswer(e, code) ==
  /\ channel = "none"
  /\ channel' = "status" /\ envelope' = e
  /\ events' = <<ErrorEvent(code, BodyNamed(e), FALSE)>>
  /\ over' = TRUE
  /\ UNCHANGED <<heard, meant, ended>>

\* Before the completion: create_session or fetch_pow got no session or challenge.
SetupAnswer(e) ==
  /\ channel = "none"
  /\ channel' = "setup" /\ envelope' = e
  /\ events' = <<SetupError(e)>>
  /\ over' = TRUE
  /\ UNCHANGED <<heard, meant, ended>>

-----------------------------------------------------------------------------
(* Event streams                                                           *)

OpenStream ==
  /\ channel = "none"
  /\ channel' = "lines"
  /\ UNCHANGED <<heard, events, over, meant, envelope, ended>>

Reading == channel = "lines" /\ ~over

Hear(line) ==
  LET es == Feed(line, heard) IN
  /\ Yield(es)
  /\ heard' = Remembered(heard, line, es)

\* The path that a line without one continues: that of the text before it.
Continued == IF meant = <<>> THEN "" ELSE Last(meant).kind

\* Ways to write a piece of text in a batch that has a path, or continues one.
Items(piece, path) ==
  {Pair(piece.kind, Text(piece.text)), Pair(piece.kind, List(<<Text(piece.text)>>))}
    \cup IF path = piece.kind THEN {Pair("", Text(piece.text)), Text(piece.text)} ELSE {}

\* One or two pieces as the rows of a batch.
Rows(pieces, path) ==
  IF Len(pieces) = 1 THEN {<<a>> : a \in Items(pieces[1], path)}
  ELSE {<<a, b>> : a \in Items(pieces[1], path), b \in Items(pieces[2], path)}

Batches(pieces) ==
  UNION {{Delta(p, List(row)) : row \in Rows(pieces, PathOf(p, Continued))} :
           p \in TextPath \cup {"", "response"}}

\* Ways to write one or two pieces on a line.
Encodings(pieces) ==
  Batches(pieces) \cup
  IF Len(pieces) = 2 THEN {}
  ELSE {Delta(p, Text(pieces[1].text)) :
          p \in {pieces[1].kind} \cup IF Continued = pieces[1].kind THEN {""} ELSE {}}

Say(kinds) ==
  LET pieces == [i \in DOMAIN kinds |-> TextEvent(kinds[i], Len(meant) + i - 1)] IN
  /\ Reading
  /\ Len(meant) + Len(kinds) <= MaxPieces
  /\ \E line \in Encodings(pieces) : Hear(line)
  /\ meant' = meant \o pieces
  /\ UNCHANGED <<channel, envelope, ended>>

\* Lines that carry no text, with paths of their own.
Noise ==
  {[is |-> "skip"], Delta("search", FINISHED), Delta("usage", Number),
   Delta("response", List(<<Pair("search", Text(1)), Pair("usage", Number)>>)),
   Delta("content", [is |-> "empty"]), Delta("response/status", Text(1))}

\* A reading of the usage only counts as an event.
MakeNoise(line) ==
  /\ Reading
  /\ ~\E i \in DOMAIN events : events[i] = Usage
  /\ Hear(line)
  /\ UNCHANGED <<channel, meant, envelope, ended>>

\* The end, which may come inside a batch, with more after it.
Ends ==
  {[is |-> "done"], Delta("response/status", FINISHED),
   Delta("response", List(<<Pair("usage", Number), Pair("status", FINISHED),
                            Pair("content", Text(9))>>))}

FinishReply(line) ==
  /\ Reading
  /\ Hear(line)
  /\ ended' = TRUE
  /\ UNCHANGED <<channel, meant, envelope>>

\* An envelope on a line of its own, as data or raw; a good one is passed over.
EnvelopeLine(e, how) ==
  /\ Reading
  /\ IF how = "data" THEN Hear([is |-> "data", envelope |-> e])
     ELSE /\ Yield(Shown(BanStreamEvent(e)))
          /\ UNCHANGED heard
  /\ channel' = IF over' THEN how ELSE channel
  /\ envelope' = IF over' THEN e ELSE envelope
  /\ UNCHANGED <<meant, ended>>

ToastCodes == {"rate_limit_reached", "generation_timeout", "error"}

Toast(code) ==
  /\ Reading
  /\ Hear([is |-> "toast", code |-> code])
  /\ channel' = "toast"
  /\ UNCHANGED <<meant, envelope, ended>>

\* The connection ends: so does the loop, without an event.
CutOff ==
  /\ Reading
  /\ over' = TRUE
  /\ UNCHANGED <<channel, heard, events, meant, envelope, ended>>

StatusCodes == {"HTTP_401", "HTTP_403_WAF", "HTTP_422", "HTTP_429", "HTTP_503"}

UpstreamNext ==
  \/ \E e \in Envelope :
       \/ \E how \in {"parsed", "drained"} : JsonAnswer(e, how)
       \/ \E code \in StatusCodes : StatusAnswer(e, code)
       \/ SetupAnswer(e)
       \/ \E how \in {"raw", "data"} : EnvelopeLine(e, how)
  \/ OpenStream
  \/ \E kinds \in BoundedSeq(TextPath, 2) \ {<<>>} : Say(kinds)
  \/ \E line \in Noise : MakeNoise(line)
  \/ \E line \in Ends : FinishReply(line)
  \/ \E code \in ToastCodes : Toast(code)
  \/ CutOff

UpstreamSpec == UpstreamInit /\ [][UpstreamNext]_upstreamVars

-----------------------------------------------------------------------------
(* The end of _run_completion_core                                         *)

\* The HTTP status of a completion whose last attempt ended so, given what
\* check_ban says: token before ban before throttling.
Status(event, probe) ==
  CASE event.code = "40003" -> IF probe THEN 403 ELSE 401
    [] event.code # "40003" /\ (event.named \/ event.code = "HTTP_401") -> 403
    [] ~event.named /\ event.code \in {"HTTP_429", "rate_limit_reached"} -> 429
    [] ~event.named /\ event.code = "generation_timeout" -> 503
    [] OTHER -> 502

LastEvent == Last(events)
Failed == events # <<>> /\ LastEvent.kind = "error"

(* The text that comes out is the text the upstream sent, piece by piece   *)
(* and of the kind it had, whatever mixture of single chunks, continuation *)
(* chunks without a path, batches and nested lists carried it; an end is   *)
(* seen where the upstream ended, once, and nothing comes after it ("the   *)
(* old code only looked for FINISHED and dropped any batched content").    *)
ReplyReassembled ==
  /\ TextsIn(events) = meant
  /\ ended => LastEvent = Finished
  /\ \A i \in DOMAIN events :
       events[i].kind \in {"finished", "error"} => i = Len(events) /\ over

(* A ban with an expiry is seen however it comes over a good connection:   *)
(* as JSON, in drained lines, as a raw or a data line of a stream, before  *)
(* or after text.  It is answered 403, which marks the account, with its   *)
(* expiry.  And no envelope without a ban makes a 403, but by its raw text *)
(* or a 401 (client.py, _ban_stream_event; sse_parser.py, feed).           *)
BanAnswered ==
  over /\ envelope # NoEnvelope /\ channel \in {"parsed", "drained", "raw", "data"} =>
    /\ Expiry(envelope) =>
         /\ Failed /\ LastEvent.until
         /\ LastEvent.code # "40003" => Status(LastEvent, FALSE) = 403
    /\ Failed /\ Status(LastEvent, CheckBan(envelope)) = 403 =>
         IsBan(envelope) \/ BodyNamed(envelope)
=============================================================================
