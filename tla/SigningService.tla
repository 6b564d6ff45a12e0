--------------------------- MODULE SigningService ---------------------------
(***************************************************************************)
(* What the rest of the system relies on the FROST coordinator for: a      *)
(* group becomes ready once and for all; a ready group can be asked to     *)
(* sign, each request being a ceremony of its own under the next sequence  *)
(* number; a ceremony is completed at most once, by enough signers, and    *)
(* its message and its outcome never change.  FROSTCoordinator implements  *)
(* this specification and Consensus is built on it.                        *)
(***************************************************************************)
EXTENDS Integers, FiniteSets

CONSTANTS
  Gid,          \* group ids
  Id,           \* signer identifiers
  threshold,    \* threshold[g]: how many signers a signature of g needs
  Message,      \* messages
  NoMessage,    \* bytes32(0), the message of a ceremony not yet requested
  MaxSequence   \* bound: the number of ceremonies a group is asked for

ASSUME ServiceAssumption ==
  /\ NoMessage \notin Message
  /\ MaxSequence \in Nat
  /\ threshold \in [Gid -> Nat]

VARIABLES
  ready,        \* the groups whose key generation is finalized
  sequence,     \* sequence[g]: the ceremonies requested of g so far
  message,      \* message[<<g, n>>]: what ceremony n of g signs
  signers       \* signers[<<g, n>>]: who signed it, {} until it is complete

serviceVars == <<ready, sequence, message, signers>>

Sid == Gid \X (0 .. MaxSequence - 1)

ServiceTypeOK ==
  /\ ready \subseteq Gid
  /\ sequence \in [Gid -> 0 .. MaxSequence]
  /\ message \in [Sid -> Message \cup {NoMessage}]
  /\ signers \in [Sid -> SUBSET Id]

ServiceInit ==
  /\ ready \in SUBSET Gid
  /\ sequence = [g \in Gid |-> 0]
  /\ message = [sid \in Sid |-> NoMessage]
  /\ signers = [sid \in Sid |-> {}]

BecomeReady(g) ==
  /\ g \notin ready
  /\ ready' = ready \cup {g}
  /\ UNCHANGED <<sequence, message, signers>>

\* A request gets the next sequence number of the group.
OpenCeremony(g, m) ==
  /\ sequence[g] < MaxSequence
  /\ message' = [message EXCEPT ![<<g, sequence[g]>>] = m]
  /\ sequence' = [sequence EXCEPT ![g] = @ + 1]

Request(g, m) ==
  /\ g \in ready
  /\ OpenCeremony(g, m)
  /\ UNCHANGED <<ready, signers>>

Complete(sid, S) ==
  /\ message[sid] # NoMessage
  /\ signers[sid] = {}
  /\ S # {}
  /\ Cardinality(S) >= threshold[sid[1]]
  /\ signers' = [signers EXCEPT ![sid] = S]
  /\ UNCHANGED <<ready, sequence, message>>

ServiceNext ==
  \/ \E g \in Gid : BecomeReady(g) \/ (\E m \in Message : Request(g, m))
  \/ \E sid \in Sid, S \in SUBSET Id : Complete(sid, S)

ServiceSpec == ServiceInit /\ [][ServiceNext]_serviceVars
=============================================================================
