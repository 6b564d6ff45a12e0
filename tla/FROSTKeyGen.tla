---------------------------- MODULE FROSTKeyGen ----------------------------
(***************************************************************************)
(* The distributed key generation of FROSTCoordinator.sol, with the        *)
(* participant map library it keeps its members in.  An action is one      *)
(* successful transaction; a call that reverts changes nothing and is a    *)
(* step that is not enabled.                                               *)
(*                                                                         *)
(* A group id is the hash of (participants, count, threshold, context):    *)
(* it is abstract here and the constants leaves, count and threshold give  *)
(* what it hashes.  Anybody may open a group, so nothing is assumed of the *)
(* participant tree: it may hold more leaves than count, one address under *)
(* two identifiers, or two addresses under one identifier.                 *)
(*                                                                         *)
(* Left out: the curve points of the commitments and shares and their      *)
(* lengths (a call with a wrong one reverts), and the group key, the sum   *)
(* of the commitments of the registered members.                           *)
(***************************************************************************)
EXTENDS Integers, FiniteSets

CONSTANTS
  Gid,        \* group ids
  Address,    \* accounts
  Id,         \* FROST identifiers
  leaves,     \* leaves[g]: the <<identifier, address>> leaves under g's root
  count,      \* count[g]: the number of participants g was opened for
  threshold   \* threshold[g]: the signing threshold

ASSUME ParametersAssumption ==
  /\ IsFiniteSet(Address)
  /\ IsFiniteSet(Id)
  /\ 0 \notin Id
  /\ leaves \in [Gid -> SUBSET (Id \X Address)]
  /\ count \in [Gid -> Nat]
  /\ threshold \in [Gid -> Nat]

VARIABLES
  status,       \* GroupParameters.status
  pending,      \* GroupParameters.pending
  identifiers,  \* FROSTParticipantMap.T.identifiers, 0 for an unknown address
  keys,         \* the identifiers with a non-zero key
  confirmed,    \* the identifiers whose ParticipantState is confirmed
  statuses,     \* ParticipantState.statuses, by <<plaintiff, accused>>
  complaints,   \* ParticipantState.complaints
  accusations   \* ParticipantState.accusations

mapVars == <<identifiers, keys, confirmed, statuses, complaints, accusations>>
keyGenVars == <<status, pending, identifiers, keys, confirmed, statuses,
                complaints, accusations>>

GroupStatus == {"UNINITIALIZED", "COMMITTING", "SHARING", "CONFIRMING",
                "COMPROMISED", "FINALIZED"}
ComplaintStatus == {"NONE", "SUBMITTED", "RESPONDED"}

KeyGenTypeOK ==
  /\ status \in [Gid -> GroupStatus]
  /\ pending \in [Gid -> Nat]
  /\ identifiers \in [Gid -> [Address -> Id \cup {0}]]
  /\ keys \in [Gid -> SUBSET Id]
  /\ confirmed \in [Gid -> SUBSET Id]
  /\ statuses \in [Gid -> [Id \X Id -> ComplaintStatus]]
  /\ complaints \in [Gid -> [Id -> Nat]]
  /\ accusations \in [Gid -> [Id -> Nat]]

KeyGenInit ==
  /\ status = [g \in Gid |-> "UNINITIALIZED"]
  /\ pending = [g \in Gid |-> 0]
  /\ identifiers = [g \in Gid |-> [a \in Address |-> 0]]
  /\ keys = [g \in Gid |-> {}]
  /\ confirmed = [g \in Gid |-> {}]
  /\ statuses = [g \in Gid |-> [d \in Id \X Id |-> "NONE"]]
  /\ complaints = [g \in Gid |-> [i \in Id |-> 0]]
  /\ accusations = [g \in Gid |-> [i \in Id |-> 0]]

-----------------------------------------------------------------------------
(* One member is done with the phase of group g.  The last one moves the   *)
(* group to the phase next and sets pending to refill.                     *)

PhaseStepNoRefill(g, next, refill) ==
  /\ pending[g] > 0
  /\ pending' = [pending EXCEPT ![g] = @ - 1]
  /\ status' = [status EXCEPT ![g] = IF pending[g] = 1 THEN next ELSE @]

PhaseStep(g, next, refill) ==
  /\ pending[g] > 0
  /\ pending' = [pending EXCEPT ![g] = IF @ = 1 THEN refill ELSE @ - 1]
  /\ status' = [status EXCEPT ![g] = IF pending[g] = 1 THEN next ELSE @]

ValidParameters(g) == count[g] >= threshold[g] /\ threshold[g] > 1

InDispute(g) == status[g] \in {"SHARING", "CONFIRMING"}

-----------------------------------------------------------------------------
KeyGen(g) ==
  /\ status[g] = "UNINITIALIZED"
  /\ ValidParameters(g)
  /\ status' = [status EXCEPT ![g] = "COMMITTING"]
  /\ pending' = [pending EXCEPT ![g] = count[g]]
  /\ UNCHANGED mapVars

\* FROSTParticipantMap.register
RegisterAgain(g, a, id) ==
  /\ <<id, a>> \in leaves[g]
  /\ identifiers' = [identifiers EXCEPT ![g][a] = id]

Register(g, a, id) ==
  /\ identifiers[g][a] = 0
  /\ <<id, a>> \in leaves[g]
  /\ identifiers' = [identifiers EXCEPT ![g][a] = id]

KeyGenCommit(g, a, id) ==
  /\ status[g] = "COMMITTING"
  /\ Register(g, a, id)
  /\ PhaseStep(g, "SHARING", count[g])
  /\ UNCHANGED <<keys, confirmed, statuses, complaints, accusations>>

\* The first commitment opens the group; it is never the last one, since a
\* group has at least two participants.
KeyGenAndCommit(g, a, id) ==
  \/ KeyGenCommit(g, a, id)
  \/ /\ status[g] = "UNINITIALIZED"
     /\ ValidParameters(g)
     /\ Register(g, a, id)
     /\ status' = [status EXCEPT ![g] = "COMMITTING"]
     /\ pending' = [pending EXCEPT ![g] = count[g] - 1]
     /\ UNCHANGED <<keys, confirmed, statuses, complaints, accusations>>

\* FROSTParticipantMap.set
SetKeyTwice(g, id) ==
  /\ id # 0
  /\ keys' = [keys EXCEPT ![g] = @ \cup {id}]

SetKey(g, id) ==
  /\ id # 0
  /\ id \notin keys[g]
  /\ keys' = [keys EXCEPT ![g] = @ \cup {id}]

KeyGenSecretShare(g, a) ==
  /\ status[g] = "SHARING"
  /\ SetKey(g, identifiers[g][a])
  /\ PhaseStep(g, "CONFIRMING", count[g])
  /\ UNCHANGED <<identifiers, confirmed, statuses, complaints, accusations>>

\* FROSTParticipantMap.confirm
Confirm(g, id) ==
  /\ id # 0
  /\ complaints[g][id] = 0
  /\ id \notin confirmed[g]
  /\ confirmed' = [confirmed EXCEPT ![g] = @ \cup {id}]

\* keyGenConfirm, and keyGenConfirmWithCallback when the callback returns.
KeyGenConfirm(g, a) ==
  /\ status[g] = "CONFIRMING"
  /\ Confirm(g, identifiers[g][a])
  /\ PhaseStep(g, "FINALIZED", 0)
  /\ UNCHANGED <<identifiers, keys, statuses, complaints, accusations>>

\* FROSTParticipantMap.complain
ComplainAfterConfirming(g, plaintiff, accused) ==
  /\ statuses[g][<<plaintiff, accused>>] = "NONE"
  /\ accused \in keys[g]
  /\ plaintiff # accused
  /\ statuses' = [statuses EXCEPT ![g][<<plaintiff, accused>>] = "SUBMITTED"]
  /\ complaints' = [complaints EXCEPT ![g][plaintiff] = @ + 1]
  /\ accusations' = [accusations EXCEPT ![g][accused] = @ + 1]

Complain(g, plaintiff, accused) ==
  /\ statuses[g][<<plaintiff, accused>>] = "NONE"
  /\ plaintiff \notin confirmed[g]
  /\ accused \in keys[g]
  /\ plaintiff # accused
  /\ statuses' = [statuses EXCEPT ![g][<<plaintiff, accused>>] = "SUBMITTED"]
  /\ complaints' = [complaints EXCEPT ![g][plaintiff] = @ + 1]
  /\ accusations' = [accusations EXCEPT ![g][accused] = @ + 1]

KeyGenComplainAboveThreshold(g, a, accused) ==
  /\ InDispute(g)
  /\ identifiers[g][a] # 0
  /\ Complain(g, identifiers[g][a], accused)
  /\ status' = [status EXCEPT ![g] =
                  IF accusations[g][accused] + 1 > threshold[g]
                  THEN "COMPROMISED" ELSE @]
  /\ UNCHANGED <<pending, identifiers, keys, confirmed>>

KeyGenComplain(g, a, accused) ==
  /\ InDispute(g)
  /\ identifiers[g][a] # 0
  /\ Complain(g, identifiers[g][a], accused)
  /\ status' = [status EXCEPT ![g] =
                  IF accusations[g][accused] + 1 >= threshold[g]
                  THEN "COMPROMISED" ELSE @]
  /\ UNCHANGED <<pending, identifiers, keys, confirmed>>

\* FROSTParticipantMap.respond
RespondKeepsAccusation(g, plaintiff, accused) ==
  /\ statuses[g][<<plaintiff, accused>>] = "SUBMITTED"
  /\ statuses' = [statuses EXCEPT ![g][<<plaintiff, accused>>] = "RESPONDED"]
  /\ complaints' = [complaints EXCEPT ![g][plaintiff] = @ - 1]
  /\ UNCHANGED accusations

RespondToNothing(g, plaintiff, accused) ==
  /\ statuses' = [statuses EXCEPT ![g][<<plaintiff, accused>>] = "RESPONDED"]
  /\ complaints' = [complaints EXCEPT ![g][plaintiff] = @ - 1]
  /\ accusations' = [accusations EXCEPT ![g][accused] = @ - 1]

Respond(g, plaintiff, accused) ==
  /\ statuses[g][<<plaintiff, accused>>] = "SUBMITTED"
  /\ statuses' = [statuses EXCEPT ![g][<<plaintiff, accused>>] = "RESPONDED"]
  /\ complaints' = [complaints EXCEPT ![g][plaintiff] = @ - 1]
  /\ accusations' = [accusations EXCEPT ![g][accused] = @ - 1]

KeyGenComplaintResponseAnyTime(g, a, plaintiff) ==
  /\ identifiers[g][a] # 0
  /\ Respond(g, plaintiff, identifiers[g][a])
  /\ UNCHANGED <<status, pending, identifiers, keys, confirmed>>

KeyGenComplaintResponse(g, a, plaintiff) ==
  /\ InDispute(g)
  /\ identifiers[g][a] # 0
  /\ Respond(g, plaintiff, identifiers[g][a])
  /\ UNCHANGED <<status, pending, identifiers, keys, confirmed>>

KeyGenNext ==
  \E g \in Gid :
    \/ KeyGen(g)
    \/ \E a \in Address, id \in Id :
         \/ KeyGenCommit(g, a, id)
         \/ KeyGenAndCommit(g, a, id)
         \/ KeyGenComplain(g, a, id)
         \/ KeyGenComplaintResponse(g, a, id)
    \/ \E a \in Address :
         \/ KeyGenSecretShare(g, a)
         \/ KeyGenConfirm(g, a)

KeyGenSpec == KeyGenInit /\ [][KeyGenNext]_keyGenVars

-----------------------------------------------------------------------------
Registered(g) == {a \in Address : identifiers[g][a] # 0}
OpenAgainst(g, accused) ==
  {p \in Id : statuses[g][<<p, accused>>] = "SUBMITTED"}
OpenBy(g, plaintiff) ==
  {a \in Id : statuses[g][<<plaintiff, a>>] = "SUBMITTED"}

\* pending is the number of members the phase still waits for, and it is
\* never zero while the phase is open: a group cannot hang on a member that
\* has already done its part, nor advance before everyone has
\* (--parameters.pending == 0 in keyGenCommit, keyGenSecretShare and
\* keyGenConfirm).
PendingCountsMissing ==
  \A g \in Gid :
    /\ status[g] = "COMMITTING" =>
         pending[g] = count[g] - Cardinality(Registered(g)) /\ pending[g] > 0
    /\ status[g] = "SHARING" =>
         pending[g] = count[g] - Cardinality(keys[g]) /\ pending[g] > 0
    /\ status[g] = "CONFIRMING" =>
         pending[g] = count[g] - Cardinality(confirmed[g]) /\ pending[g] > 0

\* The two counters of a participant agree with the complaint statuses over
\* any sequence of complaints and responses, so the decrements of respond
\* never underflow and confirm looks at the true number of open complaints.
CountersMatchDisputes ==
  \A g \in Gid, i \in Id :
    /\ complaints[g][i] = Cardinality(OpenBy(g, i))
    /\ accusations[g][i] = Cardinality(OpenAgainst(g, i))

\* A group that can sign has no open complaint: every member confirmed when it
\* had none, and a confirmed member cannot complain any more.
FinalizedWithoutDispute ==
  \A g \in Gid : status[g] = "FINALIZED" =>
    \A d \in Id \X Id : statuses[g][d] # "SUBMITTED"

\* A group is compromised as soon as threshold complaints against one of its
\* members are open, and for no other reason.
CompromisedByQuorum ==
  \A g \in Gid : status[g] # "UNINITIALIZED" =>
    (status[g] = "COMPROMISED" <=>
       \E i \in Id : Cardinality(OpenAgainst(g, i)) >= threshold[g])

\* Whatever tree the group was opened with, once all shares are in it has
\* count members with pairwise different identifiers, each with a key: a tree
\* that names one identifier twice never leaves the sharing phase.
MembersAreDistinct ==
  \A g \in Gid : status[g] \in {"CONFIRMING", "FINALIZED"} =>
    /\ Cardinality(Registered(g)) = count[g]
    /\ \A a, b \in Registered(g) :
         identifiers[g][a] = identifiers[g][b] => a = b
    /\ keys[g] = {identifiers[g][a] : a \in Registered(g)}

Terminal(g) == status[g] \in {"FINALIZED", "COMPROMISED"}

\* A finalized or compromised group never changes again: no late commitment,
\* complaint or response alters the members or the key of a signing group.
TerminalIsFrozen ==
  [][\A g \in Gid : Terminal(g) =>
       /\ status'[g] = status[g]
       /\ identifiers'[g] = identifiers[g]
       /\ keys'[g] = keys[g]
       /\ confirmed'[g] = confirmed[g]
       /\ statuses'[g] = statuses[g]]_keyGenVars

\* The tree names every identifier and every address once and has room for
\* count participants, as the trees of the validators do.
WellFormed(g) ==
  /\ Cardinality(leaves[g]) >= count[g]
  /\ \A l, m \in leaves[g] : l[1] = m[1] \/ l[2] = m[2] => l = m

\* Member a, which has not done its part of the open phase, can do it now or
\* once a member that it accuses, and that can do so, has responded.
CanCommit(g, a) == identifiers[g][a] = 0 /\ \E id \in Id : <<id, a>> \in leaves[g]
CanShare(g, a) == identifiers[g][a] \in Id \ keys[g]
CanConfirm(g, a) ==
  /\ identifiers[g][a] \in Id \ confirmed[g]
  /\ \/ complaints[g][identifiers[g][a]] = 0
     \/ \E b \in Registered(g) :
          statuses[g][<<identifiers[g][a], identifiers[g][b]>>] = "SUBMITTED"

\* An opened group with a well-formed tree is never stuck: however complaints
\* and responses interleave with the phases, until it is finalized or
\* compromised there is a member that the contract waits for and that can do
\* what it is waited for.  Nothing obliges the member to do it.
NeverStuck ==
  \A g \in Gid : WellFormed(g) =>
    /\ status[g] = "COMMITTING" => \E a \in Address : CanCommit(g, a)
    /\ status[g] = "SHARING" => \E a \in Address : CanShare(g, a)
    /\ status[g] = "CONFIRMING" => \E a \in Address : CanConfirm(g, a)
=============================================================================
