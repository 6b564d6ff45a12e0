----------------------------- MODULE EpochChain -----------------------------
(***************************************************************************)
(* What the consensus contract promises about epochs: there is one epoch   *)
(* in force at every block; the next one is scheduled at most once, for a  *)
(* later block, with a group that never changes, and takes over exactly at *)
(* that block, whether or not anybody sends a transaction.                 *)
(***************************************************************************)
EXTENDS Integers

CONSTANTS
  Gid,         \* groups
  NoGroup,     \* the zero group id
  Genesis,     \* the group of epoch 0
  MaxEpoch,    \* bound: the last epoch
  MaxBlock     \* bound: the last block

VARIABLES
  block,       \* the current block
  previous,    \* the epoch in force before the current one
  current,     \* the epoch in force
  scheduled,   \* the epoch that takes over next, 0 if there is none
  takeover,    \* the block at which it does
  groupOf      \* groupOf[e]: the group of epoch e

chainVars == <<block, previous, current, scheduled, takeover, groupOf>>

ChainInit ==
  /\ block = 0
  /\ previous = 0
  /\ current = 0
  /\ scheduled = 0
  /\ takeover = 0
  /\ groupOf = [e \in 0 .. MaxEpoch |-> IF e = 0 THEN Genesis ELSE NoGroup]

Schedule(e, b, g) ==
  /\ scheduled = 0
  /\ current < e
  /\ block < b
  /\ groupOf[e] = NoGroup
  /\ scheduled' = e
  /\ takeover' = b
  /\ groupOf' = [groupOf EXCEPT ![e] = g]
  /\ UNCHANGED <<block, previous, current>>

Tick ==
  /\ block < MaxBlock
  /\ block' = block + 1
  /\ \/ /\ scheduled # 0 /\ takeover = block'
        /\ previous' = current
        /\ current' = scheduled
        /\ scheduled' = 0
        /\ takeover' = 0
     \/ /\ scheduled = 0 \/ takeover # block'
        /\ UNCHANGED <<previous, current, scheduled, takeover>>
  /\ UNCHANGED groupOf

ChainNext ==
  \/ Tick
  \/ \E e \in 1 .. MaxEpoch, b \in 1 .. MaxBlock, g \in Gid : Schedule(e, b, g)

ChainSpec == ChainInit /\ [][ChainNext]_chainVars
=============================================================================
