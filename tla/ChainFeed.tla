------------------------------ MODULE ChainFeed ------------------------------
(***************************************************************************)
(* What the chain watcher of a validator promises to the code behind it:   *)
(* the blocks it reports, uncled ones taken back, are a piece of one chain *)
(* without a gap, and the logs of every reported block are handed over     *)
(* once, in the order of the chain, before the next block is reported.     *)
(* Only logs of the fallible events may be missing.                        *)
(***************************************************************************)
EXTENDS Integers, Sequences, SequencesExt

CONSTANT Fallible   \* events whose logs may be dropped

VARIABLES view,     \* the reported blocks, uncled ones removed
          got       \* got[i]: the logs handed over for view[i]

Linked(blocks) ==
  \A i \in 1..Len(blocks) - 1 :
    /\ blocks[i + 1].number = blocks[i].number + 1
    /\ blocks[i + 1].parent = blocks[i].fork

Critical(logs) == {l \in ToSet(logs) : l.event \notin Fallible}

Take(s, n) == SubSeq(s, 1, IF n < Len(s) THEN n ELSE Len(s))

Init == view = <<>> /\ got = <<>>

(* A block, or the range of a warp, is reported on top of the view.        *)
Report ==
  /\ Len(got) = Len(view)
  /\ IsStrictPrefix(view, view')
  /\ Linked(view')
  /\ UNCHANGED got

(* The logs of the next reported blocks are handed over.                   *)
HandOver ==
  /\ IsStrictPrefix(got, got')
  /\ Len(got') <= Len(view)
  /\ \A i \in Len(got) + 1..Len(got') :
       /\ ToSet(got'[i]) \subseteq ToSet(view[i].logs)
       /\ Critical(view[i].logs) \subseteq ToSet(got'[i])
       /\ \A j, k \in DOMAIN got'[i] : j < k => got'[i][j].index < got'[i][k].index
  /\ UNCHANGED view

(* The newest reported blocks are taken back.                              *)
Retract ==
  \E n \in 0..Len(view) :
    /\ view' = Take(view, n)
    /\ got' = Take(got, n)

Next == Report \/ HandOver \/ Retract

Spec == Init /\ [][Next]_<<view, got>>
=============================================================================
