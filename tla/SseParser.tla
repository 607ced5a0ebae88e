----------------------------- MODULE SseParser -----------------------------
(***************************************************************************)
(* sse_parser.py: StreamParser.feed, the events of one line.  Text is in   *)
(* pieces, numbered from 1; piece 0 is a text that reads FINISHED.         *)
(***************************************************************************)
EXTENDS BanEnvelopes, Naturals, SequencesExt

TextPath == {"thinking", "content"}  \* "response/thinking_content", "response/content"

\* Values, items of a list, and lines.
Text(n) == [is |-> "text", no |-> n]
FINISHED == Text(0)
Number == [is |-> "number"]
List(items) == [is |-> "list", items |-> items]
Pair(p, v) == [is |-> "pair", p |-> p, v |-> v]   \* {p, v} in a list
Delta(p, v) == [is |-> "delta", p |-> p, v |-> v] \* data: {p, v}; p may be ""

TextEvent(path, n) == [kind |-> path, text |-> n]
Finished == [kind |-> "finished"]
Usage == [kind |-> "usage"]

PathOf(p, inherited) == IF p = "" THEN inherited ELSE p

\* Events of the strings among some values; whatever else is there is passed over.
Strings(path, values) ==
  FlattenSeq([i \in DOMAIN values |->
    IF values[i].is = "text" THEN <<TextEvent(path, values[i].no)>> ELSE <<>>])

\* A bug to find: strings at any path are passed on.
Texts_AnyPath(path, values) == Strings(path, values)

\* Only the paths of text are passed on.
Texts(path, values) == IF path \in TextPath THEN Strings(path, values) ELSE <<>>

Counted(path, v) == path = "usage" /\ v.is = "number"

ValueEvents(path, v) ==
  IF Counted(path, v) THEN <<Usage>>
  ELSE IF v.is = "list" THEN Texts(path, v.items) ELSE Texts(path, <<v>>)

\* An item of a batch: a string, or a pair with a path of its own or not.
ItemEvents(item, path) ==
  IF item.is = "pair" THEN ValueEvents(PathOf(item.p, path), item.v)
                      ELSE Texts(path, <<item>>)

EndsBatch(item, path) ==
  /\ item.is = "pair" /\ item.v = FINISHED
  /\ PathOf(item.p, path) \in {"status", "response/status"}

BatchEvents(items, path) ==
  LET end == SelectInSeq(items, LAMBDA item : EndsBatch(item, path))
      read == IF end = 0 THEN items ELSE SubSeq(items, 1, end - 1) IN
  FlattenSeq([i \in DOMAIN read |-> ItemEvents(read[i], path)])
    \o (IF end = 0 THEN <<>> ELSE <<Finished>>)

DeltaEvents(path, v) ==
  CASE path = "response/status" /\ v = FINISHED -> <<Finished>>
    [] path = "search" -> <<>>
    [] v.is = "list" /\ path # "search" -> BatchEvents(v.items, path)
    [] OTHER -> ValueEvents(path, v)

\* A bug to find: a batch leaves the path of its first text behind.
Remembered_First(last, line, events) ==
  LET texts == {i \in DOMAIN events : events[i].kind \in TextPath} IN
  IF line.is # "delta" THEN last
  ELSE IF Finished \in ToSet(events) THEN ""
  ELSE IF texts = {} THEN last ELSE events[Min(texts)].kind

\* last_path afterwards: that of the last text, and none after an end.
Remembered(last, line, events) ==
  LET texts == {i \in DOMAIN events : events[i].kind \in TextPath} IN
  IF line.is # "delta" THEN last
  ELSE IF Finished \in ToSet(events) THEN ""
  ELSE IF texts = {} THEN last ELSE events[Max(texts)].kind

\* feed: "skip" is what is not "data:", not JSON, or not an object; a toast is
\* an error without "v" (its code says which).
Feed(line, last) ==
  CASE line.is = "delta" -> DeltaEvents(PathOf(line.p, last), line.v)
    [] line.is = "done" -> <<Finished>>
    [] line.is = "toast" -> <<ErrorEvent(line.code, FALSE, FALSE)>>
    [] line.is = "data" -> Shown(FeedEnvelope(line.envelope))
    [] OTHER -> <<>>
=============================================================================
