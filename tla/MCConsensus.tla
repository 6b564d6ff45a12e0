---------------------------- MODULE MCConsensus ----------------------------
(* Two groups: the genesis group g0 and g1, with two keys between them.    *)
(* Epoch 1 goes to key k1 at block 2 or to k0 from block 3, epoch 2 goes to *)
(* k0 at block 3, from epoch 0 or from epoch 1; one transaction in each of *)
(* epochs 0 and 1.                                                         *)
EXTENDS Consensus

CONSTANTS g0, g1, k0, k1, t1

MCThreshold == [g \in Gid |-> 2]

MCMessage ==
  {Rollover(0, 1, 2, k1), Rollover(0, 1, 3, k0)} \cup
  {Rollover(0, 2, 3, k0), Rollover(1, 2, 3, k0)} \cup
  {Proposal(e, t1) : e \in 0 .. 1}
=============================================================================
