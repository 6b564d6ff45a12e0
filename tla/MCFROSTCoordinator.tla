------------------------- MODULE MCFROSTCoordinator -------------------------
(* One group of three members, two of which make a signature, and one of   *)
(* which has still to confirm, so that signing, preprocessing and the last *)
(* steps of key generation interleave.  Under s1 the commitments of the    *)
(* first two add up, although the third has a leaf as well; s2 is an       *)
(* honest tree of the last two, s3 one of a single member.  The last two   *)
(* members have committed all their nonces.                                *)
EXTENDS FROSTCoordinator, TLC

CONSTANTS g1, a1, a2, a3, s1, s2, s3, n1, n2

IdOf(a) == IF a = a1 THEN 1 ELSE IF a = a2 THEN 2 ELSE 3

MCLeaves == [g \in Gid |-> {<<IdOf(a), a>> : a \in Address}]
MCCount == [g \in Gid |-> 3]
MCThreshold == [g \in Gid |-> 2]
MCSignersOf == [r \in SelectionRoot |-> IF r = s1 THEN Id ELSE IF r = s2 THEN {2, 3} ELSE {3}]
MCMatching ==
  [r \in SelectionRoot |-> IF r = s1 THEN {{1, 2}} \X {1, 2}
                           ELSE {MCSignersOf[r]} \X MCSignersOf[r]]

MCInit ==
  /\ status = [g \in Gid |-> "CONFIRMING"]
  /\ pending = [g \in Gid |-> 1]
  /\ identifiers = [g \in Gid |-> [a \in Address |-> IdOf(a)]]
  /\ keys = [g \in Gid |-> Id]
  /\ confirmed = [g \in Gid |-> {1, 3}]
  /\ statuses = [g \in Gid |-> [d \in Id \X Id |-> "NONE"]]
  /\ complaints = [g \in Gid |-> [i \in Id |-> 0]]
  /\ accusations = [g \in Gid |-> [i \in Id |-> 0]]
  /\ sequence = [g \in Gid |-> 0]
  /\ next = [g \in Gid |-> [i \in Id |-> IF i = 1 THEN 0 ELSE MaxChunk + 1]]
  /\ chunks = [g \in Gid |-> [i \in Id |-> [c \in 0 .. MaxChunk |->
       [root |-> IF i = 1 THEN NoRoot ELSE n1, offset |-> 0]]]]
  /\ message = [sid \in Sid |-> NoMessage]
  /\ signed = [sid \in Sid |-> NoRoot]
  /\ aggregates = [sid \in Sid |-> [r \in SelectionRoot |-> {}]]
  /\ revealed = [sid \in Sid |-> {}]
  /\ completed = [sid \in Sid |-> {}]

\* Bound: the reveals of the members whose commitments are fixed are left out.
MCBound == \A sid \in Sid : revealed[sid] \subseteq {1} \X NonceRoot

MCSpec == MCInit /\ [][Next]_coordinatorVars
=============================================================================
