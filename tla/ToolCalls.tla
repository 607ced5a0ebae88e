----------------------------- MODULE ToolCalls -----------------------------
(***************************************************************************)
(* tools_support.parse_tool_calls and looks_truncated_tool_attempt: how a  *)
(* reply becomes tool calls.  A reply is a sequence of tokens: brackets of *)
(* JSON objects, tags, and whole arguments or values.  The lexical layer   *)
(* below is JsonRepair's.                                                  *)
(***************************************************************************)
EXTENDS Naturals, SequencesExt, FiniteSetsExt

CONSTANTS
  Tools,   \* sets of tools a request may offer, out of ToolName
  Wanted,  \* sequences of calls the upstream may want to make
  MaxBare  \* MAX_BARE_OBJECTS

ToolName == {"read", "write"}
Required(name) == IF name = "write" THEN {"p1", "p2"} ELSE {"p1"}

\* A name in the wrong case, and any other name as it is.
Lower(name) == IF name = "READ" THEN "read" ELSE name

Blank == ""

\* name: of a tool or parameter, or none; val: of arguments or a value ("full",
\* "part" when cut, "big" over the limit, "loose" when its quotes are not
\* escaped) or of a bracket; slip: the marker needs forgiving_toolcalls.
Mark(t, name, val, slip) == [t |-> t, name |-> name, val |-> val, slip |-> slip]
Sign(t) == Mark(t, Blank, Blank, FALSE)

Call(name, args) == [name |-> name, args |-> args]
Args(name, val) == {<<p, val>> : p \in Required(Lower(name))}

ASSUME ToolAssumption ==
  /\ Tools \subseteq SUBSET ToolName
  /\ Wanted \subseteq Seq([name : STRING, args : SUBSET (STRING \X STRING)])
  /\ MaxBare \in Nat

VARIABLES
  tools,     \* of the request
  forgiving, \* Settings.forgiving_toolcalls
  format,    \* history: how the upstream writes its calls
  wanted,    \* history: the calls it wants to make
  around,    \* history: what it says before and after them
  cut,       \* history: whether the reply was cut off
  reply,     \* the content that arrived
  outcome    \* the message: calls, the rest of the content, finish_reason

toolVars == <<tools, forgiving, format, wanted, around, cut, reply, outcome>>

NoOutcome == [calls |-> <<>>, rest |-> <<>>, finish |-> "none"]

ToolInit ==
  /\ tools = {} /\ forgiving = FALSE
  /\ format = "none" /\ wanted = <<>> /\ around = <<<<>>, <<>>>>
  /\ cut = FALSE /\ reply = <<>> /\ outcome = NoOutcome

Places(r, kinds, from, to) == {i \in from..to : i \in DOMAIN r /\ r[i].t \in kinds}
MinOr(S, default) == IF S = {} THEN default ELSE Min(S)
Ascending(S) == SetToSortSeq(S, LAMBDA a, b : a < b)

-----------------------------------------------------------------------------
(* JSON objects                                                            *)

Opening == {"brace", "list", "call"}
Closing == {"end_brace", "end_list", "end_call"}

\* Cut arguments leave a bracket of theirs open.
Opens(token) == token.t \in Opening \/ (token.t = "args" /\ token.val = "part")

\* _balanced_json: where the object that begins at i ends, or 0.
End(r, i) ==
  LET Depth(j) == Cardinality({k \in i..j : Opens(r[k])})
                    - Cardinality(Places(r, Closing, i, j)) IN
  MinOr({j \in i..Len(r) : Depth(j) <= 0}, 0)

Objects(r, i) == r[i].t \in Opening /\ End(r, i) # 0

\* _loads_json_lenient gives a dict: a list of calls, or a call.
Loads(r, i, j) ==
  /\ r[i].t \in {"list", "call"}
  /\ \A k \in i..j : r[k].t \in Opening \cup Closing \cup {"args"} /\ r[k].t # "brace"
  /\ \A k \in i..j : r[k].val # "loose"

\* The calls in a loaded object.
CallsIn(r, i, j) ==
  FlattenSeq([k \in 1..(j - i + 1) |->
    IF r[i + k - 1].t = "call"
    THEN <<Call(r[i + k - 1].name, Args(r[i + k - 1].name, r[i + k].val))>> ELSE <<>>])

Known(name) == name \in tools \/ Lower(name) \in tools
Oversize(args) == \E a \in args : a[2] = "big"

\* A bug to find: a name in the wrong case is passed on as it came.
Normalized_AsWritten(raw) ==
  SelectSeq(raw, LAMBDA c : Known(c.name) /\ ~Oversize(c.args))

\* _normalize_calls: unknown names and oversize arguments are dropped.
Normalized(raw) ==
  LET good == SelectSeq(raw, LAMBDA c : Known(c.name) /\ ~Oversize(c.args)) IN
  [i \in DOMAIN good |->
     Call(IF good[i].name \in tools THEN good[i].name ELSE Lower(good[i].name), good[i].args)]

-----------------------------------------------------------------------------
(* The rest of the content                                                 *)

Dsml == {"calls", "end_calls", "invoke", "end_invoke", "param", "end_param"}

\* Markers that need forgiveness are plain text without it.
Seen(r) == [i \in DOMAIN r |-> IF r[i].slip /\ ~forgiving THEN Sign("prose") ELSE r[i]]

Without(r, places) ==
  FlattenSeq([i \in DOMAIN r |-> IF i \in places THEN <<>> ELSE <<r[i]>>])

\* _clean_rest: thoughts in front of the answer, and markers left over.
CleanRest(r) ==
  LET plain == Without(r, Places(Seen(r), Dsml, 1, Len(r)))
      first == MinOr({i \in DOMAIN plain : plain[i].t # "thought"}, Len(plain) + 1) IN
  SubSeq(plain, first, Len(plain))

\* What a format finds: raw calls, and the places to strip.
Find(raw, places) == [raw |-> raw, places |-> places]
Nothing == Find(<<>>, {})
Succeeds(found) == Normalized(found.raw) # <<>>

\* The first of some finds that gives a call.
FirstGood(finds) ==
  LET good == {n \in DOMAIN finds : Succeeds(finds[n])} IN
  IF good = {} THEN Nothing ELSE finds[Min(good)]

-----------------------------------------------------------------------------
(* The formats                                                             *)

\* 1. {"tool_calls": [...]}, from left to right; objects without the word are
\* skipped, and those that do not load are searched inside.
ListFormat(r) ==
  LET scan[i \in 1..(Len(r) + 1)] ==
        IF i > Len(r) THEN Nothing
        ELSE IF ~Objects(r, i) THEN scan[i + 1]
        ELSE LET j == End(r, i)
                 found == Find(CallsIn(r, i, j), i..j) IN
             IF Places(r, {"list"}, i, j) = {} THEN scan[j + 1]
             ELSE IF ~Loads(r, i, j) THEN scan[i + 1]
             ELSE IF Succeeds(found) THEN found ELSE scan[j + 1]
  IN scan[1]

\* 2. Calls in tags.
TagFormat(r) ==
  LET Close(i) == MinOr(Places(r, {"end_tag"}, i, Len(r)), 0)
      tags == {i \in Places(r, {"tag"}, 1, Len(r)) : Close(i) # 0}
      calls == {i \in tags : /\ Close(i) > i + 1 /\ r[i + 1].t = "call"
                             /\ End(r, i + 1) = Close(i) - 1 /\ Loads(r, i + 1, Close(i) - 1)}
  IN Find(FlattenSeq([n \in 1..Cardinality(calls) |->
                        LET i == Ascending(calls)[n] IN CallsIn(r, i + 1, Close(i) - 1)]),
          UNION {i..Close(i) : i \in tags})

\* _assign_unnamed_param
LoneParam(name, args) ==
  LET free == Required(name) \ {a[1] : a \in args} IN
  IF Cardinality(Required(name)) = 1 /\ free # {} THEN free ELSE {}

\* One invoke block, whose body is the tokens from inv + 1 to last: a call, or
\* none, and where the block ends.  Missing closing tags are tolerated.
Block(r, inv, last) ==
  LET single == forgiving /\ Cardinality(tools) = 1
      name == IF r[inv].name # Blank \/ ~single THEN r[inv].name ELSE CHOOSE n \in tools : TRUE
      named == MinOr(Places(r, {"end_invoke"}, inv, last), 0)
      limit == IF named # 0 THEN named - 1 ELSE last
      params == Places(r, {"param"}, inv, limit)
      Limit(p) == MinOr({q \in params : q > p}, limit + 1) - 1
      Close(p) == MinOr(Places(r, {"end_param", "close"}, p, Limit(p)), 0)
      \* what stands between the tag and its end, whatever it is
      Value(p) == LET stop == IF Close(p) # 0 THEN Close(p) - 1 ELSE Limit(p) IN
                  IF stop = p THEN "empty"
                  ELSE IF stop = p + 1 /\ r[stop].t = "value" THEN r[stop].val ELSE "junk"
      Names(p) == IF r[p].name # Blank THEN {r[p].name}
                  ELSE IF forgiving
                  THEN LoneParam(Lower(name), {<<r[q].name, Value(q)>> : q \in params}) ELSE {}
      given == UNION {{<<n, Value(p)>> : n \in Names(p)} : p \in params}
      \* an object in the place of parameters
      body == forgiving /\ params = {} /\ limit > inv
                /\ r[inv + 1].t = "args" /\ r[inv + 1].val # "part"
      after == IF params = {} THEN inv
               ELSE IF Close(Max(params)) # 0 THEN Close(Max(params)) ELSE Limit(Max(params))
      generic == MinOr(Places(r, {"close"}, after + 1, last), last)
  IN [calls |-> IF name = Blank \/ (r[inv].name = Blank /\ params = {} /\ ~body) THEN <<>>
                ELSE <<Call(name, IF body THEN Args(name, r[inv + 1].val) ELSE given)>>,
      begin |-> inv, end |-> IF named # 0 THEN named ELSE generic]

\* 3. DSML blocks: each reaches to the next one at most.
Blocks(r, invokes) ==
  [n \in DOMAIN invokes |->
     Block(r, invokes[n], IF n = Len(invokes) THEN Len(r) ELSE invokes[n + 1] - 1)]

\* _dsml_spans: stripped are the blocks that are calls, and the markers around
\* all of them.
FindBlocks(r, blocks) ==
  Find(FlattenSeq([n \in DOMAIN blocks |-> blocks[n].calls]),
       UNION {IF blocks[n].calls = <<>> THEN {} ELSE blocks[n].begin..blocks[n].end :
                n \in DOMAIN blocks}
         \cup Places(r, {"calls", "end_calls"}, 1, Len(r)))

DsmlFormat(r) ==
  FindBlocks(Seen(r), Blocks(Seen(r), Ascending(Places(Seen(r), {"invoke"}, 1, Len(r)))))

\* 4. The first object in a fence that gives a call.
FenceFormat(r) ==
  LET fences == Ascending(Places(r, {"fence"}, 1, Len(r)))
      Inner(open, close) ==
        LET scan[i \in open..close] ==
              IF i = close THEN Nothing
              ELSE IF i = open \/ ~Objects(r, i) THEN scan[i + 1]
              ELSE LET j == End(r, i)
                       found == Find(CallsIn(r, i, j), open..close) IN
                   IF j > close \/ ~Loads(r, i, j) THEN scan[i + 1]
                   ELSE IF Succeeds(found) THEN found ELSE scan[j + 1]
        IN scan[open]
      blocks == {n \in DOMAIN fences : n % 2 = 1 /\ n < Len(fences)}
  IN FirstGood([n \in blocks |-> Inner(fences[n], fences[n + 1])])

\* 5. Bare objects with the name of a tool: whatever balances is skipped past.
BareFormat(r) ==
  LET scan[i \in 1..(Len(r) + 1), n \in 0..MaxBare] ==
        IF i > Len(r) \/ n = 0 THEN Nothing
        ELSE IF ~Objects(r, i) THEN scan[i + 1, n]
        ELSE LET j == End(r, i)
                 more == scan[j + 1, n - 1] IN
             IF r[i].t = "call" /\ Loads(r, i, j) /\ Known(r[i].name)
             THEN Find(CallsIn(r, i, j) \o more.raw, (i..j) \cup more.places) ELSE more
  IN scan[1, MaxBare]

\* The last resort, _recover_loose_openai_call: one "arguments" in all, of a call
\* that need not be closed; the rest of the content is given up.
LooseFormat(r) ==
  LET args == Places(r, {"args"}, 1, Len(r))
      a == Min(args)
      names == {i \in Places(r, {"call"}, 1, a) : Known(r[i].name)}
      val == IF r[a].val = "loose" THEN "full" ELSE r[a].val IN
  IF /\ Cardinality(args) = 1 /\ r[a].val # "part"
     /\ Places(r, {"list"}, 1, Len(r)) # {} /\ names # {}
  THEN Find(<<Call(r[Max(names)].name, Args(r[Max(names)].name, val))>>, DOMAIN r)
  ELSE Nothing

Formats(r) == <<ListFormat(r), TagFormat(r), DsmlFormat(r), FenceFormat(r), BareFormat(r),
                LooseFormat(r)>>

\* parse_tool_calls: the first format that gives a call; without one the content
\* is passed on as it is.
Stripped(r, found) ==
  [calls |-> Normalized(found.raw),
   rest |-> IF Succeeds(found) THEN CleanRest(Without(r, found.places)) ELSE r]

Parsed(r) == Stripped(r, FirstGood(Formats(r)))

-----------------------------------------------------------------------------

Count(r, kinds) == Cardinality(Places(r, kinds, 1, Len(r)))

\* A bug to find: only brackets are counted.
LooksTruncated_BracketsOnly(r) ==
  /\ Count(r, Dsml \cup {"list", "tag"}) > 0
  /\ Cardinality({i \in DOMAIN r : Opens(r[i])}) # Count(r, Closing)

\* A tag of a block without one that ends it.
Unended(r, open, close) == Count(Seen(r), {open}) > Count(Seen(r), {close}) + Count(r, {"close"})

\* looks_truncated_tool_attempt: an attempt with brackets or blocks left open.
LooksTruncated(r) ==
  /\ Count(r, Dsml \cup {"list", "tag"}) > 0
  /\ \/ Cardinality({i \in DOMAIN r : Opens(r[i])}) # Count(r, Closing)
     \/ Unended(r, "calls", "end_calls") \/ Unended(r, "invoke", "end_invoke")
     \/ Unended(r, "param", "end_param")

\* _openai_response, and its counterpart for streams.
Ended(parsed, truncated) ==
  [calls |-> parsed.calls, rest |-> parsed.rest,
   finish |-> IF parsed.calls # <<>> THEN "tool_calls"
              ELSE IF truncated THEN "length" ELSE "stop"]

Message(r) == Ended(Parsed(r), LooksTruncated(r))

-----------------------------------------------------------------------------
(* What the upstream writes                                                *)

JsonCall(c, val) == <<Mark("call", c.name, Blank, FALSE), Mark("args", Blank, val, FALSE),
                      Sign("end_call")>>
Size(c) == IF Oversize(c.args) THEN "big" ELSE "full"
Joined(calls, Write(_)) == FlattenSeq([i \in DOMAIN calls |-> Write(calls[i])])

DsmlCall(c, fmt) ==
  LET slip == fmt = "dsml markers"
      end == IF fmt = "dsml generic" THEN "close" ELSE "end_param"
      Param(p) == <<Mark("param", IF fmt = "dsml no param" THEN Blank ELSE p, Blank, slip),
                    Mark("value", Blank, Size(c), FALSE), Mark(end, Blank, Blank, slip)>> IN
  <<Mark("invoke", IF fmt = "dsml no name" THEN Blank ELSE c.name, Blank, slip)>>
    \o (IF fmt = "dsml body" THEN <<Mark("args", Blank, Size(c), FALSE)>>
        ELSE IF Cardinality(c.args) = 1 THEN Param("p1") ELSE Param("p1") \o Param("p2"))
    \o <<Mark(IF fmt = "dsml generic" THEN "close" ELSE "end_invoke", Blank, Blank, slip)>>

DsmlFormats == {"dsml", "dsml generic", "dsml markers", "dsml no name", "dsml no param",
                "dsml body"}

InList(fmt, calls) ==
  <<Sign("list")>>
    \o Joined(calls, LAMBDA c : JsonCall(c, IF fmt = "loose" THEN fmt ELSE Size(c)))
    \o <<Sign("end_list")>>

InBlocks(fmt, calls) ==
  LET slip == fmt = "dsml markers" IN
  <<Mark("calls", Blank, Blank, slip)>> \o Joined(calls, LAMBDA c : DsmlCall(c, fmt))
    \o <<Mark("end_calls", Blank, Blank, slip)>>

Written(fmt, calls) ==
  CASE fmt \in {"list", "loose"} -> InList(fmt, calls)
    [] fmt = "tag" -> Joined(calls, LAMBDA c : <<Sign("tag")>> \o JsonCall(c, Size(c)) \o <<Sign("end_tag")>>)
    [] fmt = "fence" -> <<Sign("fence")>> \o Joined(calls, LAMBDA c : JsonCall(c, Size(c))) \o <<Sign("fence")>>
    [] fmt = "bare" -> Joined(calls, LAMBDA c : JsonCall(c, Size(c)))
    [] fmt \in DsmlFormats -> InBlocks(fmt, calls)

\* Formats for one call only.
OneCall == {"fence", "loose", "dsml no name", "dsml no param"}

Arounds ==
  {<<<<>>, <<>>>>, <<<<Sign("thought"), Sign("prose")>>, <<Sign("prose")>>>>,
   <<<<Sign("brace")>>, <<>>>>, <<<<Sign("brace")>>, <<Sign("end_brace")>>>>}

Single(call) == Lower(call.name) # "write" /\ Size(call) = "full"

\* To some request comes a whole reply, or one that the upstream's limit cuts
\* off, also in the middle of arguments or of a value.
WriteReply(fmt, calls, said) ==
  LET full == said[1] \o Written(fmt, calls) \o said[2] IN
  /\ format = "none"
  /\ fmt \in OneCall => Len(calls) = 1 /\ Single(calls[1])
  /\ tools' \in Tools /\ forgiving' \in BOOLEAN
  /\ format' = fmt /\ wanted' = calls /\ around' = said
  /\ \E n \in 0..Len(full) :
       \/ cut' = (n < Len(full)) /\ reply' = SubSeq(full, 1, n)
       \/ /\ n > 0 /\ full[n].t \in {"args", "value"}
          /\ cut' = TRUE /\ reply' = [SubSeq(full, 1, n) EXCEPT ![n].val = "part"]
  /\ UNCHANGED outcome

Answer ==
  /\ format # "none" /\ outcome = NoOutcome
  /\ outcome' = Message(reply)
  /\ UNCHANGED <<tools, forgiving, format, wanted, around, cut, reply>>

ReplyFormats == DsmlFormats \cup {"list", "loose", "tag", "fence", "bare"}

ToolNext ==
  \/ \E fmt \in ReplyFormats, calls \in Wanted, said \in Arounds : WriteReply(fmt, calls, said)
  \/ Answer

ToolSpec == ToolInit /\ [][ToolNext]_toolVars

-----------------------------------------------------------------------------

Answered == outcome # NoOutcome

\* What a format can be read under: the repairs that the settings ask for.
Readable ==
  /\ format \in {"dsml markers", "dsml no name", "dsml no param", "dsml body"} => forgiving
  /\ format = "dsml no name" => tools = {Lower(wanted[1].name)}
  /\ format = "bare" => around[2] # <<Sign("end_brace")>>

Due == Normalized(wanted)

\* Unmarked objects that name no tool of the request are text.
Kept == IF format # "bare" THEN <<>>
        ELSE FlattenSeq([i \in DOMAIN wanted |->
               IF Known(wanted[i].name) THEN <<>> ELSE JsonCall(wanted[i], Size(wanted[i]))])

(* A reply that is whole gives its calls, all of them and nothing else, in *)
(* order, with the tools' own names and the arguments as they were meant,  *)
(* and its prose without the markup, in whichever accepted format and      *)
(* between whatever braces and thoughts it was written; without a call to  *)
(* a tool it is passed on as it is (tools_support.py, parse_tool_calls).   *)
CallsRecovered ==
  Answered /\ ~cut /\ Readable =>
    /\ outcome.calls = Due
    /\ outcome.rest = IF Due = <<>> THEN reply
                      ELSE IF format = "loose" THEN <<>>
                      ELSE SelectSeq(around[1] \o Kept \o around[2], LAMBDA x : x.t # "thought")

(* A list or block that is cut before it ends does not pass for a finished *)
(* answer: it ends with "length", or with calls - whole ones in a list, as *)
(* CutNoticed says, but in DSML perhaps the one that was cut itself        *)
(* (TruncatedNeverExecuted is false).                                      *)
CutEndsInLength ==
  /\ Answered /\ format \in {"list", "loose", "dsml"}
  /\ Count(reply, {"list", "calls"}) > Count(reply, {"end_list", "end_calls"})
  => outcome.finish # "stop"

(* Of a reply that was cut no JSON call comes out that was not whole, and  *)
(* cut list or block does not pass for an answer.                          *)
CutNoticed ==
  /\ Answered /\ cut /\ format \in {"list", "loose", "tag", "fence", "bare"}
     => IsPrefix(outcome.calls, Due)
  /\ CutEndsInLength

(* "values are never invented, truncated calls never executed"             *)
(* (tools_support.py:1188): no call comes out of a reply unless the        *)
(* upstream wanted to make it, with just these arguments.                  *)
TruncatedNeverExecuted ==
  Answered /\ Readable => \A i \in DOMAIN outcome.calls : outcome.calls[i] \in ToSet(Due)
=============================================================================
