----------------------------- MODULE MCFailover -----------------------------
(* Small instances of Failover for TLC. *)
EXTENDS Failover

CONSTANTS r1, r2, r3, i1, i2, i3, a1, a2, a3 \* model values

OneItem == {i1}
TwoItems == {i1, i2}

\* One object per account.
Distinct == [i \in Item |-> CASE i = i1 -> a1 [] i = i2 -> a2 [] OTHER -> a3]

\* Every object stands for one account, removed and added again.
OneAccount == [i \in Item |-> a1]

Pool1 == <<i1>>
Pool2 == <<i1, i2>>

NoBans == {<<>>}

\* i1 was banned when the server stopped, its ban over since or with no known end.
SavedBans == {[i \in {i1} |-> until] : until \in {0, NoExpiry}}
=============================================================================
