------------------------- MODULE MCValidatorKeyGen -------------------------
(* Four validators, one of them faulty: groups of four with threshold     *)
(* three and of three with threshold two.                                 *)
EXTENDS ValidatorKeyGen, TLC

CONSTANTS h1, h2, h3, f

Symmetry == Permutations(Honest)

(* The boundary of the epochs is reached; what follows is only explored up *)
(* to the first event of a validator that warps over it.  A warp is        *)
(* explored by itself, without other faults.                               *)
Explored ==
  /\ block < MaxBlock \/ behind # {}
  /\ warped # {} => faults = 1
=============================================================================
