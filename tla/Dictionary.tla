----------------------------- MODULE Dictionary -----------------------------
(***************************************************************************)
(* What the users of the splay trees are promised: each tree is a function *)
(* from the keys that were put into it, and not deleted since, to what was *)
(* put there last.                                                         *)
(***************************************************************************)
CONSTANT Trees

VARIABLE dict

Empty == [k \in {} |-> k]

Init == dict = [q \in Trees |-> Empty]

Put(q, k, v) ==
    dict' = [dict EXCEPT ![q] = [j \in DOMAIN @ \cup {k} |-> IF j = k THEN v ELSE @[j]]]

Delete(q, k) == dict' = [dict EXCEPT ![q] = [j \in DOMAIN @ \ {k} |-> @[j]]]

Clear(q) == dict' = [dict EXCEPT ![q] = Empty]

Move(p, q) == dict' = [dict EXCEPT ![q] = dict[p], ![p] = Empty]

Same == UNCHANGED dict
=============================================================================
