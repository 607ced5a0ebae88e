--------------------------- MODULE MCOperatorApi ---------------------------
(* OperatorApi for TLC: three tasks on two accounts.                        *)
EXTENDS OperatorApi

CONSTANTS a1, a2, editor, remover, reader

\* The calls that meet: an addition or a selection with a removal or another
\* change of the saved accounts, and a request that synchronises.
CallPlan ==
  [t \in Task |-> CASE t = editor -> {"select", "add", "switch"}
                    [] t = remover -> {"delete", "clear", "ban", "token", "unblock"}
                    [] t = reader -> {"list"}]

\* config.json at the start: two accounts, one of them banned, or none yet.
Filled == {[accounts |-> {a1, a2}, banned |-> {a2}, active |-> a1]}
Empty == {[accounts |-> {}, banned |-> {}, active |-> NoId]}

\* The third task is needed for the accounts that are there from the start.
Init == \/ OpInit(Filled) /\ \A t \in Task : at[t] = "idle"
        \/ OpInit(Empty) /\ \A t \in Task : at[t] = "idle" <=> t # reader
Spec == Init /\ [][OpNext]_opVars
=============================================================================
