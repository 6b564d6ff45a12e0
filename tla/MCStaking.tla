------------------------------ MODULE MCStaking ------------------------------
(* Two stakers and one validator with three withdrawals between them: one  *)
(* staker may have them all, so that each of them is inserted at the head, *)
(* in the middle and at the tail.                                          *)
EXTENDS Staking

CONSTANTS s1, s2, v1
=============================================================================
