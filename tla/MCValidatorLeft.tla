--------------------------- MODULE MCValidatorLeft ---------------------------
(* Seven validators, one of them faulty: two validators can be left out     *)
(* within an epoch, one after the other.                                    *)
EXTENDS ValidatorKeyGen

CONSTANTS h1, h2, h3, h4, h5, h6, f

order == <<h1, h2, h3, h4, h5, h6, f>>
AllOf == [epoch |-> 1, members |-> Validator]

\* S has the first of the members, in the order above.
First(S, members) ==
  \A i \in 1 .. 7 : order[i] \in S =>
    \A j \in 1 .. i : order[j] \in members => order[j] \in S

\* Of the many orders of the same messages one is explored; only h1 is sent a
\* wrong share and complains, nothing goes wrong before all shares are in, and
\* nobody warps.
\* The state space is cut, so that the run can only refute.
InOrder ==
  /\ \A g \in Group :
       /\ First({a \in g.members : identifiers[g][a] # 0}, g.members)
       /\ First(keys[g], g.members)
       /\ First(confirmed[g], g.members)
  /\ \A p, a \in Validator : statuses[AllOf][<<p, a>>] # "NONE" => p = h1 /\ a = f
  /\ faults >= 1 => keys[AllOf] = Validator
  /\ warped = {}

\* Timeouts leave active participants in: when an honest validator restarts key
\* generation without an honest member, the contract has no commitment, share
\* or confirmation of that member, or it has a complaint against it.  (A share
\* that is missing is removed by everybody, a wrong one is disputed.)  It is not
\* so once a response was given: see RemovedForCause.
OnlyInactiveRemoved ==
  [][\A u, v \in Honest :
       Removes(u, v) => Cause(local[u], v)]_vars
=============================================================================
