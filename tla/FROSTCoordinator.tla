-------------------------- MODULE FROSTCoordinator --------------------------
(***************************************************************************)
(* FROSTCoordinator.sol: key generation (FROSTKeyGen) and the two-round    *)
(* signing of its groups, with the libraries that hold the preprocessed    *)
(* nonce commitments and the signature shares.                             *)
(*                                                                         *)
(* A signature id packs the group id with sequence + 1 and is modelled as  *)
(* the pair <<group, sequence>>.  A nonce commitment is the root of a tree *)
(* of ChunkSize nonces.  The root of a selection is chosen by the caller:  *)
(* the tree has a leaf, with a group commitment r in it, for each of the   *)
(* identifiers signersOf[root], whatever their nonce commitments add up    *)
(* to; matching[root] has <<S, i>> when those of S add up to the r in the  *)
(* leaf of i.  In the tree an honest signer builds they do when S is all   *)
(* of its signers; in others they may before, or never.  A share that does *)
(* not verify reverts, and the sum of the shares of fewer than threshold   *)
(* members is no signature of the group.                                   *)
(***************************************************************************)
EXTENDS FROSTKeyGen

CONSTANTS
  ChunkSize,    \* nonces per committed chunk, 1024 in the code
  MaxSequence,  \* bound: ceremonies per group
  MaxChunk,     \* bound: the last chunk of nonces
  Message,      \* messages
  NoMessage,    \* bytes32(0)
  NonceRoot,    \* roots of nonce trees
  SelectionRoot, \* roots of selections
  NoRoot,       \* bytes32(0)
  signersOf,    \* signersOf[root]: the identifiers with a leaf in it
  matching      \* matching[root]: the sets that make a leaf's commitment

ASSUME SigningAssumption ==
  /\ ChunkSize \in Nat \ {0}
  /\ MaxSequence \in Nat
  /\ MaxChunk \in Nat /\ MaxSequence \div ChunkSize <= MaxChunk
  /\ NoMessage \notin Message
  /\ NoRoot \notin NonceRoot \cup SelectionRoot
  /\ signersOf \in [SelectionRoot -> SUBSET Id]
  /\ matching \in [SelectionRoot -> SUBSET ((SUBSET Id) \X Id)]

VARIABLES
  sequence,     \* GroupParameters.sequence
  next,         \* FROSTNonceCommitmentSet.Commitments.next
  chunks,       \* FROSTNonceCommitmentSet.Commitments.chunks
  message,      \* Signature.message
  signed,       \* Signature.signed
  aggregates,   \* FROSTSignatureShares: who shared under which selection
  revealed,     \* SignRevealedNonces events: <<identifier, nonce root>>
  completed     \* SignCompleted events: whose shares are in the signature

signVars ==
  <<sequence, next, chunks, message, signed, aggregates, revealed, completed>>
coordinatorVars == <<keyGenVars, signVars>>

Sid == Gid \X (0 .. MaxSequence - 1)
NoCommitment == [root |-> NoRoot, offset |-> 0]
Commitment == [root : NonceRoot \cup {NoRoot}, offset : 0 .. ChunkSize - 1]

TypeOK ==
  /\ KeyGenTypeOK
  /\ sequence \in [Gid -> 0 .. MaxSequence]
  /\ next \in [Gid -> [Id -> 0 .. MaxChunk + 1]]
  /\ chunks \in [Gid -> [Id -> [0 .. MaxChunk -> Commitment]]]
  /\ message \in [Sid -> Message \cup {NoMessage}]
  /\ signed \in [Sid -> SelectionRoot \cup {NoRoot}]
  /\ aggregates \in [Sid -> [SelectionRoot -> SUBSET Id]]
  /\ revealed \in [Sid -> SUBSET (Id \X NonceRoot)]
  /\ completed \in [Sid -> SUBSET Id]

SignInit ==
  /\ sequence = [g \in Gid |-> 0]
  /\ next = [g \in Gid |-> [i \in Id |-> 0]]
  /\ chunks = [g \in Gid |-> [i \in Id |-> [c \in 0 .. MaxChunk |-> NoCommitment]]]
  /\ message = [sid \in Sid |-> NoMessage]
  /\ signed = [sid \in Sid |-> NoRoot]
  /\ aggregates = [sid \in Sid |-> [r \in SelectionRoot |-> {}]]
  /\ revealed = [sid \in Sid |-> {}]
  /\ completed = [sid \in Sid |-> {}]

Init == KeyGenInit /\ SignInit

-----------------------------------------------------------------------------
\* FROSTNonceCommitmentSet._sequence
ChunkOf(n) == n \div ChunkSize
OffsetUnmasked(n) == n
OffsetOf(n) == n % ChunkSize

StoreChunk(g, id, c, root, offset) ==
  /\ c <= MaxChunk
  /\ next' = [next EXCEPT ![g][id] = c + 1]
  /\ chunks' = [chunks EXCEPT ![g][id][c] = [root |-> root, offset |-> offset]]

CommitWholeChunk(g, id, root) ==
  LET now == ChunkOf(sequence[g]) IN
  IF next[g][id] > now
  THEN StoreChunk(g, id, next[g][id], root, 0)
  ELSE StoreChunk(g, id, now, root, 0)

\* FROSTNonceCommitmentSet.commit: a first commitment starts at the current
\* sequence, a member that is ahead commits to its next chunk.
Commit(g, id, root) ==
  LET now == ChunkOf(sequence[g]) IN
  IF next[g][id] > now
  THEN StoreChunk(g, id, next[g][id], root, 0)
  ELSE StoreChunk(g, id, now, root, OffsetOf(sequence[g]))

\* FROSTNonceCommitmentSet.verify: the root a reveal for sequence n of g is
\* checked against, NoRoot if none would pass.
Binding(g, id, n) ==
  LET c == chunks[g][id][ChunkOf(n)] IN
  IF OffsetOf(n) >= c.offset THEN c.root ELSE NoRoot

Preprocess(g, a, root) ==
  /\ identifiers[g][a] # 0
  /\ Commit(g, identifiers[g][a], root)
  /\ UNCHANGED <<keyGenVars, sequence, message, signed, aggregates, revealed,
                 completed>>

Sign(g, m) ==
  /\ status[g] = "FINALIZED"
  /\ sequence[g] < MaxSequence
  /\ sequence' = [sequence EXCEPT ![g] = @ + 1]
  /\ message' = [message EXCEPT ![<<g, sequence[g]>>] = m]
  /\ UNCHANGED <<keyGenVars, next, chunks, signed, aggregates, revealed,
                 completed>>

\* The contract keeps no trace of a reveal: only the event is recorded.
SignRevealNonces(g, n, a) ==
  LET id == identifiers[g][a] IN
  /\ message[<<g, n>>] # NoMessage
  /\ id # 0
  /\ Binding(g, id, n) # NoRoot
  /\ revealed' = [revealed EXCEPT ![<<g, n>>] = @ \cup {<<id, Binding(g, id, n)>>}]
  /\ UNCHANGED <<keyGenVars, sequence, next, chunks, message, signed, aggregates,
                 completed>>

\* FROSTSignatureShares.register: under each root an identifier counts once.
RegisterShare(sid, id, root) ==
  /\ id \in signersOf[root]
  /\ id \notin aggregates[sid][root]
  /\ aggregates' = [aggregates EXCEPT ![sid][root] = @ \cup {id}]

Shared(sid, id, root) == aggregates[sid][root] \cup {id}

\* Secp256k1.eq(selection.r, accumulator.r)
Matches(sid, id, root) == <<Shared(sid, id, root), id>> \in matching[root]

\* signature.signed and SignCompleted
Record(sid, root, S) ==
  /\ signed' = [signed EXCEPT ![sid] = root]
  /\ completed' = [completed EXCEPT ![sid] = S]

AcceptEverySelection(sid, id, root) ==
  IF Matches(sid, id, root)
  THEN /\ Cardinality(Shared(sid, id, root)) >= threshold[sid[1]]
       /\ Record(sid, root, Shared(sid, id, root))
  ELSE UNCHANGED <<signed, completed>>

\* A share that brings the sum to the group commitment it was made for must
\* make a valid signature (FROST.verify); the first one to do so completes
\* the ceremony.  Shares are taken after that as before, under the recorded
\* root too.
AcceptShare(sid, id, root) ==
  IF Matches(sid, id, root)
  THEN /\ Cardinality(Shared(sid, id, root)) >= threshold[sid[1]]
       /\ \/ signed[sid] = NoRoot /\ Record(sid, root, Shared(sid, id, root))
          \/ signed[sid] # NoRoot /\ UNCHANGED <<signed, completed>>
  ELSE UNCHANGED <<signed, completed>>

\* signShare, and signShareWithCallback when the callback returns.
SignShare(g, n, a, root) ==
  LET id == identifiers[g][a]
      sid == <<g, n>> IN
  /\ message[sid] # NoMessage
  /\ id # 0
  /\ id \in keys[g]
  /\ RegisterShare(sid, id, root)
  /\ AcceptShare(sid, id, root)
  /\ UNCHANGED <<keyGenVars, sequence, next, chunks, message, revealed>>

SignNext ==
  \E g \in Gid :
    \/ \E m \in Message : Sign(g, m)
    \/ \E a \in Address, r \in NonceRoot : Preprocess(g, a, r)
    \/ \E a \in Address, n \in 0 .. MaxSequence - 1 :
         \/ SignRevealNonces(g, n, a)
         \/ \E r \in SelectionRoot : SignShare(g, n, a, r)

Next ==
  \/ KeyGenNext /\ UNCHANGED signVars
  \/ SignNext

Spec == Init /\ [][Next]_coordinatorVars

-----------------------------------------------------------------------------
\* A nonce is chosen before the message: from the moment a ceremony is
\* requested, the commitment each member's reveal is checked against is
\* fixed, to a root or to none; and no commitment, once usable, is replaced
\* (commit's chunk and offset against the sequence that sign takes).
NoncesPrecommitted ==
  [][\A g \in Gid, id \in Id, n \in 0 .. MaxSequence :
       n < sequence[g] \/ Binding(g, id, n) # NoRoot
         => (Binding(g, id, n))' = Binding(g, id, n)]_coordinatorVars

-----------------------------------------------------------------------------
\* The coordinator implements the signing service: groups are ready when
\* finalized, and a ceremony's signers are those of the SignCompleted event.
\* What signatureValue returns later is not a promise of the service: it is
\* the sum of all shares taken under the recorded root until then.
Service == INSTANCE SigningService WITH
  ready <- {g \in Gid : status[g] = "FINALIZED"},
  signers <- completed

\* Every transaction of the coordinator is a step of the signing service or
\* leaves it unchanged: whatever trees the shares are made under, and
\* whatever is shared after completion, a ceremony is completed once, by
\* enough signers, and SignCompleted is never emitted a second time.
ImplementsSigningService == Service!ServiceSpec
=============================================================================
