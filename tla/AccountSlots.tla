---------------------------- MODULE AccountSlots ----------------------------
(***************************************************************************)
(* What the per-account locks promise: a slot belongs to one request at a  *)
(* time, a request has one slot at a time, only the request that has a     *)
(* slot gives it back.                                                     *)
(***************************************************************************)
CONSTANTS
  Request,
  Item,
  Nobody   \* not a request

VARIABLE holder  \* holder[i]: the request that has the slot, or Nobody

TypeOK == holder \in [Item -> Request \cup {Nobody}]

Init == holder = [i \in Item |-> Nobody]

Take(r, i) ==
  /\ holder[i] = Nobody
  /\ \A j \in Item : holder[j] # r
  /\ holder' = [holder EXCEPT ![i] = r]

GiveBack(r, i) ==
  /\ holder[i] = r
  /\ holder' = [holder EXCEPT ![i] = Nobody]

Next == \E r \in Request, i \in Item : Take(r, i) \/ GiveBack(r, i)

Spec == Init /\ [][Next]_holder
=============================================================================
