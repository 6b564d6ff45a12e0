--------------------------- MODULE MCFROSTKeyGen ---------------------------
(* Three accounts and two groups: g1 as the validators open it, three     *)
(* members with threshold two; g2 with a tree that has one identifier     *)
(* twice and one address twice; g3 with a threshold the contract refuses. *)
EXTENDS FROSTKeyGen

CONSTANTS g1, g2, g3, a1, a2, a3

MCLeaves ==
  [g \in Gid |-> IF g = g2 THEN {<<1, a1>>, <<1, a2>>, <<2, a2>>}
                 ELSE {<<1, a1>>, <<2, a2>>, <<3, a3>>}]
MCCount == [g \in Gid |-> IF g = g2 THEN 2 ELSE 3]
MCThreshold == [g \in Gid |-> IF g = g3 THEN 1 ELSE 2]
=============================================================================
