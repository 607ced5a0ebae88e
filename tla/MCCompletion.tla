---------------------------- MODULE MCCompletion ----------------------------
(* Small instances of CompletionCore for TLC. *)
EXTENDS CompletionCore

\* Each sign alone, and texts that carry two.
SetupTexts == {{"token"}, {"ban"}, {"other"}, {"token", "ban"}}
AttemptTexts ==
  {{s} : s \in Sign} \cup {{"pow", "token"}, {"waf", "ban"}, {"session", "overload"}}

\* The comments' assumption.
OnlyOverloadsAndFailuresLate == {"pow", "session", "token", "waf", "ban"}
=============================================================================
