----------------------------- MODULE Consensus -----------------------------
(***************************************************************************)
(* Consensus.sol on top of the coordinator's signing service: epochs, their *)
(* lazy rollover, and the attestation of epochs and transactions, with the *)
(* callbacks through which the last confirmation of a key generation       *)
(* proposes an epoch and the last signature share stages an epoch or       *)
(* attests a transaction in the same transaction.  If the callback         *)
(* reverts, the confirmation or the share reverts with it.                 *)
(*                                                                         *)
(* What is signed is a group's key, what is stored for an epoch is the id  *)
(* that the caller names.  Nothing proves that the members of a group know *)
(* its key: two groups may have the same one, and it changes while their   *)
(* members commit.                                                         *)
(***************************************************************************)
EXTENDS SigningService

CONSTANTS
  Transaction,  \* Safe transactions
  Key,          \* group public keys, the zero point among them
  NoKey,        \* of an epoch not staged
  Genesis,      \* the group of epoch 0
  NoGroup,      \* the zero group id
  NoSid,        \* the zero signature id
  MaxEpoch,     \* bound: the last epoch
  MaxBlock      \* bound: the last block

VARIABLES
  block,        \* block.number
  epochs,       \* $epochs
  groups,       \* $groups, by epoch
  key,          \* the coordinator's groupKey, by group
  staged,       \* EpochStaged events: the key an epoch was staged with
  attestations  \* $attestations, by message

consensusVars == <<block, epochs, groups, key, staged, attestations>>
vars == <<serviceVars, consensusVars>>

Epoch == 0 .. MaxEpoch

\* ConsensusMessages.epochRollover and ConsensusMessages.transactionProposal
RolloverMessage ==
  [type : {"rollover"}, active : Epoch, proposed : Epoch,
   rolloverBlock : 0 .. MaxBlock, key : Key]
TransactionMessage == [type : {"transaction"}, epoch : Epoch, tx : Transaction]

Rollover(a, p, b, k) ==
  [type |-> "rollover", active |-> a, proposed |-> p, rolloverBlock |-> b,
   key |-> k]
Proposal(e, t) == [type |-> "transaction", epoch |-> e, tx |-> t]

Rollovers == {m \in Message : m.type = "rollover"}
Proposals == {m \in Message : m.type = "transaction"}

\* The epoch whose group has to sign a message.
SigningEpoch(m) == IF m.type = "rollover" THEN m.active ELSE m.epoch

ASSUME ConsensusAssumption ==
  /\ Message \subseteq RolloverMessage \cup TransactionMessage
  /\ Genesis \in Gid
  /\ NoGroup \notin Gid
  /\ NoKey \notin Key
  /\ NoSid \notin Sid
  /\ MaxEpoch \in Nat
  /\ MaxBlock \in Nat

Epochs == [previous : Epoch, active : Epoch, staged : Epoch,
           rolloverBlock : 0 .. MaxBlock]

TypeOK ==
  /\ ServiceTypeOK
  /\ block \in 0 .. MaxBlock
  /\ epochs \in Epochs
  /\ groups \in [Epoch -> Gid \cup {NoGroup}]
  /\ key \in [Gid -> Key]
  /\ staged \in [Epoch -> Key \cup {NoKey}]
  /\ attestations \in [Message -> Sid \cup {NoSid}]

Init ==
  /\ ServiceInit
  /\ block = 0
  /\ epochs = [previous |-> 0, active |-> 0, staged |-> 0, rolloverBlock |-> 0]
  /\ groups = [e \in Epoch |-> IF e = 0 THEN Genesis ELSE NoGroup]
  /\ key \in [Gid -> Key]
  /\ staged = [e \in Epoch |-> NoKey]
  /\ attestations = [m \in Message |-> NoSid]

-----------------------------------------------------------------------------
RolloverDue == epochs.staged # 0 /\ epochs.rolloverBlock <= block

\* _epochsWithRollover: the epochs as every caller sees them
EpochsKeepingPrevious ==
  IF RolloverDue
  THEN [epochs EXCEPT !.active = epochs.staged, !.staged = 0, !.rolloverBlock = 0]
  ELSE epochs

EpochsWithRollover ==
  IF RolloverDue
  THEN [previous |-> epochs.active, active |-> epochs.staged, staged |-> 0,
        rolloverBlock |-> 0]
  ELSE epochs

\* _requireValidRollover
RequireValidRollover(e, m) ==
  e.active < m.proposed /\ m.rolloverBlock > block /\ e.staged = 0

\* COORDINATOR.signatureVerify, by[sid] being the signers of sid
VerifyMessageOnly(by, sid, g, m) == by[sid] # {} /\ message[sid] = m

VerifyGroupOnly(by, sid, g, m) == by[sid] # {} /\ sid[1] = g

SignatureVerify(by, sid, g, m) ==
  by[sid] # {} /\ sid[1] = g /\ message[sid] = m

-----------------------------------------------------------------------------
\* The state changes of proposeEpoch, stageEpoch and attestTransaction; m is
\* the message the contract computes from its arguments and its active epoch,
\* for a rollover with the key that the group g it is called with has now.
ProposeEpochEffect(m, g, finalized) ==
  LET e == EpochsWithRollover IN
  /\ RequireValidRollover(e, m)
  /\ m.active = e.active
  /\ m.key = key[g]
  /\ groups[e.active] \in finalized
  /\ OpenCeremony(groups[e.active], m)
  /\ epochs' = e

StageEpochEffect(m, g, by, sid) ==
  LET e == EpochsWithRollover IN
  /\ RequireValidRollover(e, m)
  /\ m.active = e.active
  /\ m.key = key[g]
  /\ SignatureVerify(by, sid, groups[e.active], m)
  /\ epochs' = [e EXCEPT !.staged = m.proposed,
                         !.rolloverBlock = m.rolloverBlock]
  /\ groups' = [groups EXCEPT ![m.proposed] = g]
  /\ staged' = [staged EXCEPT ![m.proposed] = key[g]]
  /\ attestations' = [attestations EXCEPT ![m] = sid]
  /\ UNCHANGED key

AttestStoringGroup(m, by, sid) ==
  /\ attestations[m] = NoSid
  /\ SignatureVerify(by, sid, groups[m.epoch], m)
  /\ attestations' = [attestations EXCEPT ![m] = sid[1]]
  /\ UNCHANGED <<epochs, groups, key, staged>>

AttestEffect(m, by, sid) ==
  /\ attestations[m] = NoSid
  /\ SignatureVerify(by, sid, groups[m.epoch], m)
  /\ attestations' = [attestations EXCEPT ![m] = sid]
  /\ UNCHANGED <<epochs, groups, key, staged>>

-----------------------------------------------------------------------------
ProposeEpoch(m, g) ==
  /\ ProposeEpochEffect(m, g, ready)
  /\ UNCHANGED <<ready, signers, block, groups, key, staged, attestations>>

StageEpoch(m, g, sid) ==
  /\ StageEpochEffect(m, g, signers, sid)
  /\ UNCHANGED <<serviceVars, block>>

ProposeTransaction(m) ==
  LET e == EpochsWithRollover IN
  /\ m.epoch = e.active
  /\ attestations[m] = NoSid
  /\ Request(groups[e.active], m)
  /\ epochs' = e
  /\ UNCHANGED <<block, groups, key, staged, attestations>>

AttestTransaction(m, sid) ==
  /\ AttestEffect(m, signers, sid)
  /\ UNCHANGED <<serviceVars, block>>

\* keyGenCommit adds a commitment to the key of a group that is not finalized,
\* and no check tells what the sum is.
KeyGenCommit(g, k) ==
  /\ g \notin ready
  /\ key' = [key EXCEPT ![g] = k]
  /\ UNCHANGED <<serviceVars, block, epochs, groups, staged, attestations>>

\* keyGenConfirm by the last member, without a callback
KeyGenConfirm(g) ==
  /\ BecomeReady(g)
  /\ UNCHANGED consensusVars

\* keyGenConfirmWithCallback by the last member: onKeyGenCompleted
KeyGenConfirmWithCallback(g, m) ==
  /\ g \notin ready
  /\ ready' = ready \cup {g}
  /\ ProposeEpochEffect(m, g, ready \cup {g})
  /\ UNCHANGED <<signers, block, groups, key, staged, attestations>>

\* Anybody may ask the coordinator for a signature on any message.
Sign(g, m) ==
  /\ Request(g, m)
  /\ UNCHANGED consensusVars

\* signShare by the last signer, without a callback; what the signers are
\* willing to sign is theirs to decide.
SignShare(sid, S) ==
  /\ Complete(sid, S)
  /\ UNCHANGED consensusVars

\* signShareWithCallback by the last signer: onSignCompleted
StageOnCompletion(sid, S, m, g) ==
  /\ Complete(sid, S)
  /\ StageEpochEffect(m, g, signers', sid)
  /\ UNCHANGED block

AttestOnCompletion(sid, S, m) ==
  /\ Complete(sid, S)
  /\ AttestEffect(m, signers', sid)
  /\ UNCHANGED block

NewBlock ==
  /\ block < MaxBlock
  /\ block' = block + 1
  /\ UNCHANGED <<serviceVars, epochs, groups, key, staged, attestations>>

Next ==
  \/ NewBlock
  \/ \E m \in Rollovers, g \in Gid :
       \/ ProposeEpoch(m, g)
       \/ KeyGenConfirmWithCallback(g, m)
       \/ \E sid \in Sid : StageEpoch(m, g, sid)
  \/ \E m \in Proposals :
       \/ ProposeTransaction(m)
       \/ \E sid \in Sid : AttestTransaction(m, sid)
  \/ \E g \in Gid :
       \/ \E k \in Key : KeyGenCommit(g, k)
       \/ KeyGenConfirm(g)
       \/ \E m \in Message : Sign(g, m)
  \/ \E sid \in Sid, S \in SUBSET Id :
       \/ SignShare(sid, S)
       \/ \E m \in Rollovers, g \in Gid : StageOnCompletion(sid, S, m, g)
       \/ \E m \in Proposals : AttestOnCompletion(sid, S, m)

Spec == Init /\ [][Next]_vars

-----------------------------------------------------------------------------
\* Every epoch other than the genesis was handed over by the one before it:
\* the group of the last earlier epoch that has one signed, with enough
\* signers, the rollover to exactly this epoch and to the key that the group
\* staged for it had, and the contract keeps that attestation.
HandedOver(e, d, b) ==
  LET m == Rollover(d, e, b, staged[e]) IN
  /\ m \in Message
  /\ attestations[m] # NoSid
  /\ attestations[m][1] = groups[d]
  /\ message[attestations[m]] = m
  /\ Cardinality(signers[attestations[m]]) >= threshold[groups[d]]

\* d is the last epoch before e that has a group.
Before(d, e) ==
  groups[d] # NoGroup /\ \A c \in d + 1 .. e - 1 : groups[c] = NoGroup

ChainOfHandovers ==
  \A e \in Epoch \ {0} : groups[e] # NoGroup =>
    \E d \in 0 .. e - 1, b \in 0 .. MaxBlock :
      Before(d, e) /\ HandedOver(e, d, b)

\* A recorded attestation is a completed ceremony of the group of the epoch
\* the message belongs to, on that very message: what
\* getTransactionAttestation looks up was signed for that epoch.
AttestationsAreGenuine ==
  \A m \in Message : attestations[m] # NoSid =>
    /\ message[attestations[m]] = m
    /\ signers[attestations[m]] # {}
    /\ attestations[m][1] = groups[SigningEpoch(m)]

\* Seen through _epochsWithRollover, the lazily updated storage is the eager
\* chain of epochs.
Chain == INSTANCE EpochChain WITH
  previous <- EpochsWithRollover.previous,
  current <- EpochsWithRollover.active,
  scheduled <- EpochsWithRollover.staged,
  takeover <- EpochsWithRollover.rolloverBlock,
  groupOf <- groups

ImplementsEpochChain == Chain!ChainSpec
=============================================================================
