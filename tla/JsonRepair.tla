----------------------------- MODULE JsonRepair -----------------------------
(***************************************************************************)
(* tools_support.py, the lexical layer: finding a balanced object in a     *)
(* reply, and the four repairs that _loads_json_lenient tries in a row on  *)
(* an object that is not JSON.  Each repair reads the text anew and keeps  *)
(* track of strings by itself.                                             *)
(***************************************************************************)
EXTENDS Naturals, SequencesExt, FiniteSetsExt

CONSTANT MaxLength  \* bound: characters

ASSUME RepairAssumption == MaxLength \in Nat \ {0}

\* Characters, or words, that the repairs tell apart.  "nl" is a raw line break
\* (white space outside strings), "\\n" one that is escaped.
Word == {"w", "True", "true"}
Char == {"{", "}", "\"", "\\", ",", ":", "nl"} \cup (Word \ {"true"})

VARIABLE text  \* the object so far: it begins with a brace

RepairTypeOK == text \in Seq(Char) /\ Len(text) <= MaxLength

RepairInit == text = <<"{">>

\* The reply goes on; two words in a row are one.
WriteChar(c) ==
  /\ Len(text) < MaxLength
  /\ ~({c, Last(text)} \subseteq Word)
  /\ text' = Append(text, c)

RepairNext == \E c \in Char : WriteChar(c)

RepairSpec == RepairInit /\ [][RepairNext]_text

-----------------------------------------------------------------------------

\* in_str and esc ("out", "in" or "esc") after a character.
After(s, c) ==
  CASE s = "esc" -> "in"
    [] s = "in" /\ c \in {"\\", "\""} -> IF c = "\\" THEN "esc" ELSE "out"
    [] s = "out" /\ c = "\"" -> "in"
    [] OTHER -> s

\* The same before each character.
Lexed(t) ==
  LET state[i \in 1..Len(t)] == IF i = 1 THEN "out" ELSE After(state[i - 1], t[i - 1])
  IN state

Outside(t, i) == Lexed(t)[i] = "out"

NoObject == <<>>

\* _balanced_json: the shortest prefix in which the braces balance.
BalancedJson(t) ==
  LET lexed == Lexed(t)
      Braces(b, i) == Cardinality({j \in 1..i : t[j] = b /\ lexed[j] = "out"})
      ends == {i \in DOMAIN t : t[i] = "}" /\ lexed[i] = "out" /\ Braces("{", i) = Braces("}", i)}
  IN IF ends = {} THEN NoObject ELSE SubSeq(t, 1, Min(ends))

\* The text with some characters replaced.
Edited(t, Edit(_)) == FlattenSeq([i \in DOMAIN t |-> Edit(i)])

EscapeControlChars(t) ==
  LET lexed == Lexed(t) IN
  Edited(t, LAMBDA i : IF lexed[i] = "in" /\ t[i] = "nl" THEN <<"\\n">> ELSE <<t[i]>>)

\* The nearest characters that are no white space.
Following(t, i) ==
  LET after == {j \in (i + 1)..Len(t) : t[j] # "nl"} IN IF after = {} THEN "" ELSE t[Min(after)]
Before(t, i) ==
  LET before == {j \in 1..(i - 1) : t[j] # "nl"} IN IF before = {} THEN 0 ELSE Max(before)

\* A bug to find: commas are dropped in strings too.
RemoveTrailingCommas_Blind(t) ==
  Edited(t, LAMBDA i : IF t[i] = "," /\ Following(t, i) = "}" THEN <<>> ELSE <<t[i]>>)

RemoveTrailingCommas(t) ==
  LET lexed == Lexed(t) IN
  Edited(t, LAMBDA i : IF lexed[i] = "out" /\ t[i] = "," /\ Following(t, i) = "}"
                       THEN <<>> ELSE <<t[i]>>)

\* A word behind a brace or comma and in front of a colon.
BareKey(t, i) ==
  /\ t[i] \in Word /\ Outside(t, i)
  /\ Before(t, i) # 0 /\ t[Before(t, i)] \in {"{", ","} /\ Outside(t, Before(t, i))
  /\ Following(t, i) = ":"

QuoteUnquotedKeys(t) ==
  Edited(t, LAMBDA i : IF BareKey(t, i) THEN <<"\"", t[i], "\"">> ELSE <<t[i]>>)

ReplacePythonLiterals(t) ==
  LET lexed == Lexed(t) IN
  Edited(t, LAMBDA i : IF lexed[i] = "out" /\ t[i] = "True" THEN <<"true">> ELSE <<t[i]>>)

\* _loads_json_lenient, between its two attempts to load.
Repaired(t) ==
  ReplacePythonLiterals(QuoteUnquotedKeys(RemoveTrailingCommas(EscapeControlChars(t))))

-----------------------------------------------------------------------------

\* What the repairs are to do to one character of the text as it came.
Meant(t, i) ==
  CASE ~Outside(t, i) -> IF t[i] = "nl" /\ Lexed(t)[i] = "in" THEN <<"\\n">> ELSE <<t[i]>>
    [] Outside(t, i) /\ BareKey(t, i) -> <<"\"", t[i], "\"">>
    [] Outside(t, i) /\ ~BareKey(t, i) ->
         IF t[i] = "," /\ Following(t, i) = "}" THEN <<>>
         ELSE IF t[i] = "True" THEN <<"true">> ELSE <<t[i]>>

(* The repairs do not get into each other's way: though each reads what    *)
(* the ones before it left (and one of them adds quotes), together they do *)
(* to every character what its place in the original calls for; what is in *)
(* strings is kept, but for raw control characters; and a balanced object  *)
(* stays one (tools_support.py, _loads_json_lenient: "small, safe repairs")*)
RepairsSafe ==
  /\ Repaired(text) = Edited(text, LAMBDA i : Meant(text, i))
  /\ LET object == BalancedJson(text) IN
     object # NoObject => BalancedJson(Repaired(object)) = Repaired(object)
=============================================================================
