# A verification of shieldnet in TLA+

shieldnet ("Safenet" in its sources) lets a set of validators attest Safe
transactions with a FROST threshold signature. Two contracts keep the shared
state: `FROSTCoordinator` runs key generation and signing ceremonies, and
`Consensus` runs the chain of epochs, each with the group that signs for it. A
third contract, `Staking`, holds the stakes. Every validator runs a service that
follows the events of the contracts and answers with transactions of its own.

This directory holds the models of these parts, the configurations that
model-check them with TLC, and the proofs that TLAPS checks. `PROJECT.json` is
its index: the components, the runs, which lines of the source each definition
models, the mutation that shows each property can fail, the hazards and the
theorems.

Contents: [system](#the-system) - [modules](#the-modules) -
[runs](#what-the-runs-check) - [fairness](#fairness) -
[findings](#where-the-code-and-its-documents-disagree) -
[proofs](#what-is-proved) - [not modelled](#what-is-not-modelled) -
[plan](#plan).

## The system

### Key generation contract (`FROSTCoordinator.sol`, `FROSTParticipantMap.sol`)

*State*, by group id: the phase, a counter `pending` of the participants the
phase waits for, and the participant map: who registered under which identifier,
who has a key, who confirmed, and complaints with two counters each.
*Operations*: `keyGen`, `keyGenAndCommit`, `keyGenCommit`, `keyGenSecretShare`,
`keyGenComplain`, `keyGenComplaintResponse`, `keyGenConfirm` (with a callback or
without). *Hard*: the calls of the participants interleave in any order; one
counter serves three phases; complaints race confirmations; whoever opens a
group chooses the participant tree. *Correct when* `pending` is exactly who is
missing, the counters never underflow, a group is never final with a complaint
open, and the members of a finished group are distinct.

### Signing contract (`FROSTCoordinator.sol`, `FROSTNonceCommitmentSet.sol`, `FROSTSignatureShares.sol`)

*State*: the sequence number of each group, the chunks of nonce trees each
participant committed to, and for each ceremony its message, the shares by
selection root, and the root under which it was completed. *Operations*:
`preprocess`, `sign`, `signRevealNonces`, `signShare` (with a callback or
without). *Hard*: commitments race requests, at chunk boundaries in particular;
the tree of a selection is whatever its sender makes it, several compete for one
ceremony, and shares are taken after completion. *Correct when* a nonce is committed
before the message it signs is known and is used for one ceremony, and a
ceremony completes once, with enough members of a finalized group.

### Consensus contract (`Consensus.sol`, `ConsensusMessages.sol`)

*State*: previous, active and staged epoch with the rollover block, the group id of
each epoch, the attestations; the key of a group is read from the coordinator. *Operations*: `proposeEpoch`, `stageEpoch`,
`proposeTransaction`, `attestTransaction`, and the coordinator's callbacks
`onKeyGenCompleted` and `onSignCompleted`. *Hard*: the rollover is lazy, so the
stored epochs are out of date between the rollover block and the next call; two
proposals may be signed at once; what is signed is a key and what is stored an id, and
nobody proves to know a key; callbacks join transactions of two contracts,
and a revert undoes both. *Correct when* each epoch was handed over by the group
of the one before, to the key of its own group, and keeps that group for ever; and
an attestation is a signature by the group of the epoch of its message.

### Validator service (`src/validator/src`)

The chain watcher follows blocks and logs; its updates become transitions in a
queue in memory (`machine/transitions`), which one transition function performs
one at a time (`service/machine.ts`). A transition gives a diff of the state,
stored in SQLite, and actions, pushed to a stored queue
(`consensus/protocol/base.ts`) and from there submitted on chain
(`consensus/protocol/onchain.ts`). What the contracts then emit comes back
through the watcher.

| Part | State | Operations | What is hard |
|---|---|---|---|
| chain watcher (`watcher`, `machine/transitions/watcher.ts`) | the last reported blocks, pages still to fetch, the last indexed block (stored) | poll a block, warp, fetch logs, report an uncle, start | the chain is reorganised between two queries; logs come in pages that are cut; a stop between "indexed" and "processed" |
| state machine (`service/machine.ts`, `machine/storage`, `machine/state`) | last processed block and event, diffs (stored), the transition under way | perform a transition, apply its diffs, push its actions | each diff is a database transaction of its own; a handler that throws loses the whole transition |
| key generation and rollover (`machine/keygen`, `machine/consensus/rollover.ts`, `consensus/keyGen`) | `RolloverState`; coefficients, commitments, shares and signing shares in the client storage | one handler per event, three timeouts, the epoch rollover | validators see the same log but act late; they decide alone whom to exclude; a handler that throws leaves half its effect behind |
| signing (`machine/signing`, `machine/consensus`, `consensus/signing`) | `SigningState` by message; nonce trees, their links to chunks, burnt nonces in the client storage; verified packets in memory | handlers for proposals, `Sign`, nonces, shares, completion, attestation; the timeouts with retries; new nonce trees | retries select signers from local knowledge; a nonce must never be used twice; trees and chunks must agree with the contract |
| action queue (`consensus/protocol/base.ts`, `sqlite.ts`) | a stored FIFO | `process`, `checkNextAction` | its head is retried until it expires |
| transaction submission (`consensus/protocol/onchain.ts`, `sqlite.ts`) | stored transactions by nonce, with fee and time of submission | reserve a nonce, submit, sweep on every block: mark executed, resubmit | a failed submission races the sweep and the next reservation; the node's answers are old |
| packet checks and cryptography (`consensus/verify`, `frost`, `consensus/merkle.ts`) | none | pure functions | not a matter of states |

### Staking contract (`Staking.sol`)

*State*: stakes with three running totals, for each staker a doubly linked list
of withdrawals in contract storage, two time-locked proposals. *Operations*:
stake, two ways to initiate a withdrawal, claim, propose and execute a delay and
a set of validators, recover tokens. *Hard*: the list must stay sorted although
the delay changes between insertions and the caller may name the position; the
totals must never drift. *Correct when* the contract holds what it owes, the list
is one list, and nobody waits behind a withdrawal that is later than its own.

## The modules

| Module | Models | Extends or uses |
|---|---|---|
| `FROSTKeyGen` | the key generation contract, by transaction | |
| `SigningService` | abstract: ready groups, ceremonies that complete once | |
| `FROSTCoordinator` | the whole coordinator; implements `SigningService` | extends `FROSTKeyGen` |
| `EpochChain` | abstract: one epoch in force, the next scheduled once, taking over at its block | |
| `Consensus` | the consensus contract; implements `EpochChain` | extends `SigningService` |
| `ValidatorKeyGen` | the validators' rollover machines running against the contract | instantiates `FROSTKeyGen` |
| `ValidatorSigning` | the validators' signing machines running against the contract | instantiates `FROSTCoordinator` |
| `ChainFeed` | abstract: a piece of one chain and its logs, handed over in order | |
| `ChainWatcher` | the watcher against a node and a chain that is reorganised; implements `ChainFeed` | |
| `ValidatorFeed` | from the watcher to the stored state and actions | extends `ChainWatcher` |
| `TxSubmission` | the action queue and transaction submission against a node | |
| `WithdrawalBook` | abstract: announced withdrawals, the earliest paid first | |
| `Staking` | the staking contract; implements `WithdrawalBook` | |
| `FROSTKeyGenProofs`, `FROSTCoordinatorProofs`, `ConsensusProofs`, `ValidatorKeyGenProofs`, `ValidatorSigningProofs`, `ValidatorFeedProofs`, `TxSubmissionProofs`, `StakingProofs` | theorems | extend the component and TLAPS; `FROSTCoordinatorProofs` extends `FROSTKeyGenProofs`, `ValidatorKeyGenProofs` instantiates it; `ValidatorFeedProofs` has the theorems of `ChainWatcher` too |
| `MC...` | values of the constants for TLC, with their `.cfg` files | extend the component |

**Contracts.** An action is one successful transaction. A call that reverts
changes nothing, so its condition is a guard of the action, the conditions of the
libraries it calls and of its callbacks included. A library function is an
operator with the guard and the effect of its `require`s and assignments
(`Register`, `Confirm`, `Complain`, `Respond`, `Commit`, `RegisterShare`).
Variables have the names of the storage they model. Hashes are modelled as what
they hash: a group id is abstract and the constants `leaves`, `count` and
`threshold` give what it stands for; a signature id is the pair of group and
sequence; a message is a record of its fields. A selection root stands for a tree that its
sender has chosen freely: `signersOf` says who has a leaf in it and `matching` whose
commitments add up to the group commitment in a leaf, which is what completes a
ceremony, whether all leaves were used or not. Curve arithmetic is left out: a share is
right or wrong, and the sum of the shares of fewer than `threshold` members is no
signature. Operators whose name extends that of another and that stand just before it
(`KeyGenComplainAboveThreshold`) are its mutations; no specification uses them.

**Layers.** `Consensus` is not built on `FROSTCoordinator` but on
`SigningService`, and `FROSTCoordinator` is shown to implement `SigningService`.
So `Consensus` is checked against any behaviour of signing that the service
allows, and assumes nothing of what the signers are willing to sign. The service
promises who signed when `SignCompleted` was emitted. It does not promise that
`signatureVerify` returns the same sum for ever: the shares of leaves that were left
are still added to it (`FROSTCoordinator.sol:676`). A group's key is a variable of
`Consensus` (`key`) that `KeyGenCommit` changes to anything: two groups may have one
key. `staged` records the `EpochStaged` events.

**Validators: key generation.** `ValidatorKeyGen` composes all validators with the contract. An
honest validator is the record `Local`: the rollover state, the part of the
client storage that key generation uses, and the queue of actions. A handler is
a deterministic function from that record and an event to the next record, so in
the step that emits an event all honest validators take it. That is sound here
because validators see the log in one order and what one does is only visible to
the others once its transaction is included: a slow validator is one whose
actions are included late, in any order, or never, and each of these is a
behaviour of the model. Validators that are not honest send anything the
contract accepts. `Disturbs` counts wrong messages, and late ones for groups
their sender has given up, against `MaxFaults`. When a handler throws, its diff
and its actions are lost, and what it wrote to the client storage stays: the
cases where `HandleCommitted`, `HandleComplaintSubmitted`,
`HandleComplaintResponded` and `Progress` return `l` (or `stored`) are these.

A validator that warps over a block gets no `block_new` for it. `NewBlock(warping)`
leaves it `behind`, and it makes up for the block in the transition of the next event
in it (`Current`), or never. If making up for it throws, the event is not handled
(`Misses`); if the handler of a signing event throws, the epoch rollover or the restart is
dropped with it, while the group that it registered stays in the database (`Dropped`,
`OtherEvent`), and `setupGroup` refuses it for the rest of the epoch. `warped` are those
that ever warped.

**Validators: signing.** `ValidatorSigning` is built the same way over
`FROSTCoordinator`, for one finalized group. `Local` holds the signing states by
message, the nonce trees with their links to chunks, the burnt nonces, the
verified packets and the queue of actions; `made` records the shares made so
far, for the properties only. The two client storages are both there
(`storageOf`), because they differ: the one in memory keeps and forgets other
things than the database. A handler that the code runs in one transition is one
operator (`HandleSign`, `HandleRevealedNonces`, `HandleSigningShares`,
`HandleSigningCompleted`, `HandleAttested`, `CheckSigningTimeouts`). Deadlines are
kept as blocks that are left. Faulty validators do what the contract accepts:
ask for signatures, reveal, share under selections of their own, withhold.
`Disturbs` counts what they do out of turn, what comes late, and restarts.

**Chain watcher.** In `ChainWatcher` a step is the code between two `await`s, so
the chain may be reorganised, a query fail and the process stop between any two
of them. A block is identified by its number and fork; the node answers with the
chain as it is at the time of the query, and cuts an answer that has too many logs
as `MaxLogsPerQuery` says. The refinement of `ChainFeed` reads off the blocks
reported so far (`view`) and the logs handed over (`got`). `ValidatorFeed` adds the
transition queue, the state machine and the two tables it writes, `applied` (the
diffs, in order) and `asked` (the actions). Diffs and actions of a transition are
named by the transition. `cut` and `failed` record which events a stop cut off and
whose handler threw. Logs with a name in `Malformed` cannot be parsed: they have a
point that is zero or off the curve, which the contract accepts (`Parsed`). The watcher
counts them as handed over, with all that comes behind them in the same answer.

**Transaction submission.** In `TxSubmission`, too, a step is the code between two
`await`s: submission of the head of the queue, the retry timer and the sweeps of
several blocks interleave there. A fee is a level that resubmission raises. The
node keeps one transaction for each nonce, may lose it (`Evict`), and says of the
account's nonce what was true at some time since it was asked. `rows` is the table
of stored transactions, `pool` what the node holds.

**Staking.** The loop of `initiateWithdrawal` is the operator `Walk`: `current` is
where it stops and `walked` what it passed, and exactly one pair of them meets
the condition. So the module has no recursion and can be proved about.

## What the runs check

`submission` and `validator_signing` check for deadlock; the other models stop at
their bounds, or when every group is finished. Three more runs, under
[findings](#where-the-code-and-its-documents-disagree), end in a counterexample.

**`keygen`** (`MCFROSTKeyGen`; 95,472 states). Three accounts and three
groups at once: `g1` as the validators open it (three members, threshold two),
`g2` with a tree that has one identifier twice and one address twice, `g3` with
a threshold the contract refuses. Three members are the fewest with which two
complaints are a quorum while a third member confirms; the two-member group
reaches every state with a bad tree. Checked: `PendingCountsMissing`,
`CountersMatchDisputes`, `FinalizedWithoutDispute`, `CompromisedByQuorum`,
`MembersAreDistinct`, `TerminalIsFrozen`, and `NeverStuck`: until an opened group with a
well-formed tree is finalized or compromised, the contract waits for a member that can
do what it is waited for. That members do it is not claimed: validators do not always
(`AccusedResponds`, below).

**`signing`** (`MCFROSTCoordinator`; 216,467 states). A group of three with threshold
two and one confirmation still missing, so that the end of key generation interleaves
with preprocessing and signing; chunks of two nonces and two ceremonies, so that the
sequence reaches a chunk boundary, and the first member commits at an offset, at the
start of a chunk, and for the next chunk. The others start with their commitments made,
and their reveals are left out (`MCBound`): they can no longer change anything. Three
selections: `s1` has a leaf of the third member although the commitments of the first
two add up, so it completes early and takes a share later; `s2` is an honest tree of the
last two, so both can get to a signature; `s3` has one signer, too few. Checked:
`NoncesPrecommitted`, and that the coordinator implements `SigningService` (a ceremony
is asked of a finalized group and completed once, by enough of its members).

**`consensus`** (`MCConsensus`; 836,796 states). Two groups with two keys between them,
so that both may have the same one, epochs 0 to 2, four
blocks, and four rollover messages: two that compete for epoch 1, two for epoch 2
from different epochs; so a rollover can be late, skip an epoch, lose to
another, or be staged for either group with its key. One transaction in two epochs,
whose attestation may come after the rollover. Checked: `ChainOfHandovers` (the group of the last epoch before signed the
rollover, to the key its group had when it was staged), `AttestationsAreGenuine`, and that the
lazily updated storage implements the eager `EpochChain`.

**`validator_keygen`** (`MCValidatorKeyGen.cfg`; 328,612 states). Four validators,
one of them faulty, timeouts of one block, five blocks and two disturbances, up to
the first block of the next epoch, and up to the first event in it for those that warp
over it (`Explored`). Four is the smallest set that can lose a member (three remain, with
threshold two) and four blocks let every timeout fire, the one of missing
confirmations too, which is three times as long. A warp is a disturbance, and explored
without another one. Symmetry on the honest validators. Checked:
`FinalizedGroupCanSign`; `EveryEpochIsTried`, which needs the
epoch check to come before the timeout that throws in `progressToBlock`, and which
names its one exception: a rollover that was dropped with the transition it was part of
is not tried again before the next epoch; and
`RemovedForCause`: unless a complaint was answered in an earlier attempt of the
epoch, an honest validator restarts without another one, both told of every block, only
if the contract lacks something of it or has a complaint against it. The exception of
the answered complaint is real (`OnlyInactiveRemoved`, below) but
four validators are too few for it. Nor does the run reach a warp that costs a validator
its place. That there is no other exception is proved.

**`validator_signing`** (`MCValidatorSigning.cfg`; 42,516 states). Two honest
validators, one with each kind of storage, and a faulty one; threshold two, chunks
of one nonce, so that the second ceremony needs a new tree, a new chunk and a new
link; one message, a transaction or a handover, and two ceremonies for it, so that
a retry reaches the end of its ceremonies; one disturbance. The first validator
starts without nonces, the second with one tree, the faulty one with all but the last
chunk. Checked:
`NonceUsedOnce`, `RevealIsAccepted`, and the liveness properties `Settles` (no
message stays in the state machine) and `QuorumSigns` (with no disturbance, every
requested message is attested or staged).

**`watcher`** (`MCChainWatcher.cfg`; 701,946 states). A chain that grows from block
4 to 6 and is reorganised once, a reorganisation depth of two, pages of two blocks
and answers of at most two logs, so that a page is cut, halved and asked for block
by block; a log that cannot be parsed; one failed query and one stop. Checked: the
watcher implements `ChainFeed` (`FeedSpec`), and `CatchesUp`: it ends up with the tip of the chain and
all its logs.

**`feed`** (`MCValidatorFeed.cfg`; 1,581,140 states). A chain that grows from block
4 to 5 and is not reorganised, with a log that cannot be parsed between two others in
some blocks, one stop at any point, in the middle of the writes of a
transition too, one failed query and one handler that throws. Checked:
`NothingElseLost` (what a stop may cost is the events of blocks before the last indexed
one, and those of fallible events whose query failed; what a log that cannot be parsed
may cost is what comes behind it in its block or, in the answer to a warp, less than
`BlockPageSize` blocks on: `Unread`), `NeverBackwards` and `RepeatsOnlyLastBlock`.
The bound on `Unread` is exact: the run refutes both the property without it and a bound
of the same block or of one block less.
The stronger claim, that no event is missed over a restart,
is false of the code: the last indexed block is stored when its logs are fetched,
before the transitions are performed (`transitions/watcher.ts:91`), and after the
restart events of blocks before it are left out. A fallible event comes late in the
same way: when its query fails, and a restart asks for the block again, the event may be
handed over for the first time then, and is left out if a later block was indexed.

**`submission`** (`MCTxSubmission.cfg`; 397,860 states). Two actions, one sweep at a
time, and one each of a failed call, an evicted transaction, an expired action and a
restart; two blocks may arrive while an action is being submitted. Checked:
`NoNonceGap`, `InOrder` and `Drains`: queue, table and pool empty in the end.

**`staking`** (`MCStaking.cfg`; 163,848 states). Two stakers, one validator, two
amounts, a delay that changes, and three withdrawals: each of them is
inserted at the head, in the middle and at the tail, by the loop and by a named
position; tokens are donated and recovered. `ProposalTimes` is when the owner may
propose, `MaxTime` leaves time for every withdrawal to be due. Checked:
`QueueIsLinked`, `TotalsAgree`, `Solvent`, `WithdrawalsArePaid`, and that the list
implements `WithdrawalBook`.

The bounds, by name: `MaxSequence` (ceremonies), `MaxChunk` (chunks of nonces),
`MaxMessages`, `MaxEpoch`, `MaxBlock`, `MaxHeight`, `MaxTime`, `MaxWithdrawals`,
`MaxBalance`, `Amount`, `ProposalTimes`, `MaxActions`, `MaxNonce`, `MaxFee` and
`MaxAge` bound what the code leaves open; `MaxFaults`, `MaxStrays`, `MaxReorgs`,
`MaxFailures`, `MaxStops`, `MaxThrows`, `MaxEvictions`, `MaxExpired` and
`MaxOvertakes` how often something goes wrong. They cut behaviours
off and change nothing before the cut. `TypeOK` of each module is checked with
its other invariants.

What the models of the validator take for granted:

- The node is not behind the last indexed block when the watcher starts, and a
  reorganisation is not the last thing that happens to the chain. It still answers
  for blocks that are no longer part of the chain (`ServesUncled`), as
  `watcher/events.ts` expects; otherwise `CatchesUp` would not hold.
- `MaxReorgDepth` is at least 1. The settings allow 0 (`types/schemas.ts:79`); a
  restart would then go on after the last indexed block and lose its logs.
- The chain is older than the validator: `StartHeight` is at least three times
  `MaxReorgDepth` (less 2), so that no block number is cut off at 0
  (`WatcherAssumption`). No event of a contract has the name of the transition for
  a new block (`FeedAssumption`).
- An action that fails may have been sent all the same, and may then have no row:
  the deletion of its row races the sweep (`onchain.ts:225-236`). `NoNonceGap` holds
  in spite of it. After a restart the queue is resumed by the next call of
  `process`, so `Restart` comes before the last action.
- `ValidatorSigning` follows one epoch that is not the genesis epoch (`sign.ts:74`
  treats that one apart).

## Fairness

- `WF_vars(Tick)` and `WF_vars(ClaimWithdrawal(s))` in `Staking`: the chain goes on
  producing blocks, and a staker claims what it can claim.
- `ValidatorSigning`: blocks are produced, and as long as an honest validator has a
  queued action that the contract accepts, one such action is included. That a queued
  action is executed in the end is what `Drains` of `TxSubmission` says.
- `ChainWatcher`: the chain grows, the service is started when it is down and its loop
  goes on. No query is assumed to succeed; at most `MaxFailures` of them fail.
- `TxSubmission`: answers and timers come, a miner takes the next transaction, and
  blocks keep arriving. Strong fairness of `NewBlock(s)`: the sweep of an earlier block
  disables it over and over, but blocks do not stop.

The other models have no fairness: their properties are safety. In particular no member is
assumed to answer a complaint or to confirm: a validator that deleted its coefficients does
not answer, and an action that expired is dropped (`base.ts:55`).

## Where the code and its documents disagree

Three runs are expected to end in a counterexample. Each checks what a comment
or the OCaml specification (`src/spec/validator.ml`) says of the rollover.

1. `validator_accused`, `AccusedResponds`. A validator that has all its shares
   deletes its coefficients (`clearKeyGen`) while the contract still takes
   complaints. Accused after that, it throws in `complaintSubmitted.ts:75`
   instead of answering; the specification answers until the complaint deadline.
   With the coefficients it deletes the commitments, so it cannot verify a response
   either: `verifySecretShare` throws (`consensus/keyGen/client.ts:222`, called at
   `complaintResponse.ts:44`), and it goes on counting the complaint as unanswered.
   See `OnlyInactiveRemoved` below.
2. `validator_excluded`, `RolloverAgreement`. The specification skips the rollover
   on a validator that is not among the participants of the restart. The code
   throws (`trigger.ts:30`) and stays in the attempt the others gave up. When the
   late confirmation that caused the restart is included after all, that attempt
   is finalized, and two validators sign the handover to different groups. No
   wrong message is needed. The consensus contract keeps the chain safe in any
   case: `ImplementsEpochChain` holds for any two rollovers that get signed.
3. `signing_handover`, `QuorumSigns`. The signers of a handover are taken from the
   next group (`confirmed.ts:125`), although the active group signs. When the next
   group has a participant that the active one does not have, which is how a removed
   validator is meant to come back (`rollover.ts:47-48`), every honest validator
   throws on `Sign` (`consensus/signing/client.ts:57`) and the handover is never
   signed. The specification takes the participants of the active epoch's group.

Not in the list of runs, as it shows a consequence of the first, is
`tlc -config MCValidatorLeft.cfg MCValidatorLeft`, which refutes `OnlyInactiveRemoved`
in half a minute: timeouts do not always leave active participants in
(`timeouts.ts:103`). When a response is wrong, only the plaintiff, which lacks the share,
restarts at once. The others cannot verify it and restart at the response deadline,
with the same participants, having missed the plaintiff's commitment to that group;
when the commitments time out they remove it. The specification keeps the
commitments, and all restart together (`validator.ml:697-701`, `735-739`). Seven
validators are the fewest for that, as two are left out within one epoch. `InOrder` makes
it feasible: of the orders of the same messages it explores one, so it can
refute the property and not confirm it.

Smaller divergences that the models follow and no run is about:

- With everybody responsible for a request, the entry is deleted while the request
  is sent (`signing/timeouts.ts:129`, `:59`); the comment at 126-128 says it is added
  again, and `validator.ml:1003` and `:1041` keep it.
- `EpochStaged` is ignored unless the signing state is `waiting_for_attestation`
  (`epochStaged.ts:19`); `validator.ml:1079-1106` takes it in any state.
- The handlers of nonces, shares and completion never compare the ceremony of the
  event with that of the signing state; `handlePreprocess` takes anybody's
  registration for the own one (`preprocess.ts:16`); and a tree whose creation throws
  leaves no trace in the diff. `NonceUsedOnce`, `RevealIsAccepted` and `Settles` hold
  with all of these in the model.

## What is proved

`FROSTKeyGenProofs`, for any groups, accounts, identifiers, trees, counts and
thresholds that satisfy `ParametersAssumption` (finite sets of accounts and
identifiers, 0 not an identifier, natural numbers; nothing is assumed of the
trees, nor that a count fits its tree):

| Theorem | States |
|---|---|
| `KeyGenTypeCorrect` | `KeyGenTypeOK`: the counters are never decremented below zero |
| `PendingIsExact` | `PendingCountsMissing` |
| `CountersAreExact` | `CountersMatchDisputes` |
| `FinalizedIsUndisputed` | `FinalizedWithoutDispute` |
| `CompromisedIsJustified` | `CompromisedByQuorum` |
| `MembersStayDistinct` | `MembersAreDistinct` |
| `TerminalStaysFrozen` | `TerminalIsFrozen` |
| `GroupsAreNeverStuck` | `NeverStuck` |
| `KeyGenInvariance` | the inductive invariant behind them |

None of these invariants is inductive alone: that a finished group has no
complaint needs who confirmed, which needs the counters, which need the keys. The
invariant `KeyGenInv` says of every group: what the map holds refers to members
that exist (`MapInv`), the counters are the cardinalities of the open disputes
(`CounterInv`), what each phase has and has not (`PhaseInv`), and how accusations
relate to the status (`AccusedInv`). Groups do not interact, so there is
one lemma per operation on one group, `GroupUntouched` for the others, and
`InvNext` puts them together. `IdentifierCount` is the counting argument: as
many keys as registered accounts, none registered twice, so the identifiers are
distinct. `TerminalStaysFrozen` follows from the guards and the invariant.
`GroupsAreNeverStuck` needs two facts more (`TreeInv`): members are leaves of the tree, so
that a well-formed one leaves nobody out, and complaints are against members with a key, so
that the accused can respond.

`FROSTCoordinatorProofs` has the coordinator as a whole, from the same assumption and
`SigningAssumption` (a positive chunk size; nothing is assumed of the trees of selections):

| Theorem | States |
|---|---|
| `CoordinatorRunsKeyGen` | `KeyGenSpec`: signing adds nothing to key generation, so the theorems above hold of the coordinator |
| `CoordinatorTypeCorrect` | `TypeOK` |
| `NoncesStayPrecommitted` | `NoncesPrecommitted`, an action property |
| `CoordinatorImplementsService` | `ImplementsSigningService`, step by step |
| `CoordinatorInvariance` | the inductive invariant behind them |

`CoordinatorInv` adds two facts to `KeyGenInv`. From its next chunk on a member has no
commitment (`ChunksInv`): so a root that appears for a requested ceremony would be in
a chunk below the next one, and there the offset or the counter refuses it; the
lemmas on `div` and `mod` at chunk boundaries are for that. A completed ceremony has
the signers of its `SignCompleted`, threshold many and among those that have shared
under the recorded root (`SignedInv`): so the completion that the service sees comes
once and with enough members, whatever is shared under that root or another afterwards.

`ConsensusProofs`, from `ConsensusAssumption`, for any signing service, groups, keys,
epochs and messages:

| Theorem | States |
|---|---|
| `ConsensusTypeCorrect` | `TypeOK` |
| `AttestationsStayGenuine` | `AttestationsAreGenuine` |
| `EpochsAreHandedOver` | `ChainOfHandovers` |
| `ConsensusImplementsEpochChain` | `ImplementsEpochChain`, step by step |
| `ConsensusInvariance` | the inductive invariant behind them |

Beside the two properties `Inv` says that a requested ceremony keeps its message
and only a requested one is completed (`CeremonyInv`), and that of the epochs after the
active one only the staged one has a group (`EpochsInv`): without that a rollover
could meet a group that an earlier proposal left behind. The refinement reads the
stored epochs through `_epochsWithRollover`: a block that passes the rollover block
is the takeover, and the call that then writes it down is a stutter. Together with
`CoordinatorImplementsService` the chain of epochs is proved from the code of the
two contracts down to the participant map. What it does not say is that an epoch's group
is finalized, or that it is the group the signers meant: they sign a key, and the contract
takes any group that has it.

`ValidatorKeyGenProofs`, from `ValidatorAssumption`, for any number of validators, any
of them faulty:

| Theorem | States |
|---|---|
| `ValidatorsTypeCorrect` | `TypeOK` |
| `EpochsAreTried` | `EveryEpochIsTried` |
| `FinalizedGroupsCanSign` | `FinalizedGroupCanSign` |
| `ValidatorsInvariance` | the inductive invariant behind them |

The contract is `FROSTKeyGen` with the validators' groups, and `KeyGenInv` is taken
from its proofs as it is. `Inv` adds what ties a validator to the contract: the epoch
it is at is that of the block being filled, unless it is behind or a rollover was dropped
(`AtEpoch`), it queues its confirmation only when it has its signing share (`Held`), so that whoever has confirmed can sign
(`ConfirmedInv`), and a member is registered under its own name only (`OwnNames`). One
lemma per handler.

The last part of the module is about what honest validators
know of each other over the attempts of an epoch:

| Theorem | States |
|---|---|
| `RemovalsHaveACause` | `RemovedForCause`, an action property |
| `RemovalInvariance` | the inductive invariant behind it |

A validator removes another one for what it has itself stored, and it stores a
commitment only when it has set up the group before (`handleKeyGenCommitted`). So what
is stored is what the contract has only if validators enter an attempt together, and
the invariant compares them, as far as they are told of every block (`Sound`): one that
warps over the block of a timeout enters late. `OwnInv` is about one validator: its attempts of an epoch
are nested, it commits only to groups it has set up, and what it has stored has been
sent. `TogetherInv` is about two: as long as no complaint was answered in this or a larger
attempt of the epoch, those that set it up are at the same point of it, unless one has
left it and the other behind (`Left`). `KnownInv` says that what one has committed
the other has stored. Two lemmas carry it: whoever enters an attempt enters before any
other member is further, so no commitment is missed (`EntersFirst`); and a
validator that restarts at a timeout with another one does so in the same step as that
one (`Mutual`), although a validator may count fewer of the complaints against
itself than the others do. `RemovedForCause` was first stated without its last
disjunct, and no run with four validators refutes that; what the proof lacked at an
answer to a complaint is what `MCValidatorLeft` shows.

`ValidatorSigningProofs`, from `SigningAssumption`:

| Theorem | States |
|---|---|
| `SigningTypeCorrect` | `TypeOK` |
| `NoncesAreUsedOnce` | `NonceUsedOnce` |
| `RevealsAreAccepted` | `RevealIsAccepted` |
| `SigningInvariance` | the inductive invariant behind them |

That no nonce is used twice is a fact about the validator's storage and the contract
together. The nonce of a share is burnt with it (`SharesBurned`), which is not enough,
as the nonce of a ceremony is looked up through the link of its chunk: a link agrees
with a commitment that the contract no longer overwrites (`LinksAgree`), a ceremony is
only known with its message when its chunk is linked (`Prepared`), and what is queued
to be revealed lies behind the offset of its commitment (`RevealsBound`). The theorems
are about `Spec`, in which no validator has nonces at first; the run starts in
a state with some, to get further.

`TxSubmissionProofs`, from `SubmissionAssumption`, for any numbers of actions, sweeps,
failures, evictions and restarts:

| Theorem | States |
|---|---|
| `NoNonceGapHolds` | `NoNonceGap`: the account is never stuck behind a nonce that nothing will use |
| `SubmissionTypeCorrect` | `TypeOK` |
| `ExecutedInOrder` | `InOrder` |

The invariant `Inv` looks not only at what is stored or pending but at all that somebody
is about to send (`Held`): below each such nonce every nonce of the account is stored
(`StoredBelow`); none is above the one being submitted, whose row may yet be deleted
(`SubmittedIsLast`); and what the node said of the account's nonce is not ahead of it
(`AnswersAreOld`), which is why a sweep marks executed only what is. One lemma per
action; `NothingNewHeld` serves the actions that store and send nothing new. `Order`
then says of the actions at all these places that they grow with their nonces,
and that those executed come before.

`StakingProofs`, from `StakingAssumption`, for any stakers, validators, amounts and
delays:

| Theorem | States |
|---|---|
| `StakingIsSolvent` | `Solvent` |
| `StakingTypeCorrect` | `TypeOK`: no total is decremented below zero |
| `TotalsKeepAgreeing` | `TotalsAgree` |
| `QueuesStayLinked` | `QueueIsLinked` |
| `StakingImplementsBook` | `ImplementsWithdrawalBook`, step by step |
| `StakingInvariance` | the inductive invariant behind the last four |

Solvency needs only that numbers and pointers have their types (`NumbersOK`): each
transaction moves totals and balance together. The rest needs the queues. That the
links of neighbours agree says nothing about a list that has a loop apart from
the rest, and nothing about dates; so `InQueue` gives every live withdrawal a *place*,
a number that grows from tail to head as the dates get earlier, says that the next
and the previous of a node are its neighbours by place, and that a deleted node is
empty. `Inserted` and `Removed` are the two ways a queue changes; `WalkedGap` shows
that the loop of `initiateWithdrawal` ends at a gap where the date fits (the walked node
with the greatest place is next to where it stops), and `ValidPosition` says the same of
a named position, an empty node being refused because its date is 0. For the totals,
`SumFunction` is a fold that takes the members of a set in an order of its own;
`SumIs` and `SumChange` find that a sum changes by what one of its values changes,
whatever the order. Induction over finite sets is stated with a set of good subsets
in place of a predicate (`SubsetInduction`), and follows from the least number
principle for cardinalities.

`ValidatorFeedProofs`, from `WatcherAssumption`, for any settings, any logs and any
number of reorganisations, failed queries and stops:

| Theorem | States |
|---|---|
| `WatcherTypeCorrectness` | `TypeOK` |
| `WatcherImplementsFeed` | `FeedSpec`, step by step |
| `WatcherInvariance` | the inductive invariant behind them |

What the watcher holds is old: the chain may have changed since any of it was queried.
`WatcherInv` says that it is nevertheless of one piece. The blocks of a `Piece` follow
each other, the node has answered with each of them (`Seen`), and those that are no
longer in the chain are at its end, because a reorganisation takes a chain's end.
The view is a piece, and so are the blocks kept in memory; the end of the one is the
beginning of the other up to a place `m`, and the rest of the other is queued
(`FollowsAt`). The logs not handed over yet are those that the step of the event watcher
asks for (`StepAt`). After a start the catchup takes back all that is not final,
which is where a piece that was stored meets one that was just loaded (`Restarting`,
`Rewound`); `ViewAt` is what it relies on: no block of the view that is that far below
the last indexed one has left the chain, and none is missing. One lemma per action and
per shape of the queue.

The same module has the theorems of `ValidatorFeed`, from `FeedAssumption` too, for any
number of failed queries, stops and handlers that throw:

| Theorem | States |
|---|---|
| `NothingIsElseLost` | `NothingElseLost` |
| `NeverGoesBackwards` | `NeverBackwards` |
| `OnlyLastBlockRepeats` | `RepeatsOnlyLastBlock`, an action property |
| `FeedInvariance` | the inductive invariant behind them |

`FeedInv` adds to `WatcherInv` that the chain was not reorganised (`Unforked`), so the
view is on it, and then follows an event from the watcher to the tables. `QueueInv`:
the transitions wait in the order of the chain (`Ordered`), beyond what was processed,
and before all that will still be handed over for the view (`Ahead`); while the catchup
runs there are none (`Blank`). `PerformInv`: what the current transition was taken for
and what it gave. `AppliedInv`: the stored diffs are in order, and those of
blocks after the one resumed at are processed ones, so that only the block resumed at can
come again. `KnownInv`: each event of a block that was indexed, and since the start each
one that was delivered, is stored, queued, failed, cut or behind a log that cannot be
parsed. That these stay within a page follows from the shape of an answer: an event that
`Parsed` leaves out has such a log before it in the same answer, and an answer is one block
or a page of at most `BlockPageSize` (`PageFacts`). After a failed query the logs
of fallible events are not in every answer; `Sure` are those that are, whatever is
asked again. `FirstInv`: however much a restart takes back, the view begins, or will begin,
no later than with the first block ever watched. So what is lost at a stop is what
`Kill` adds to `cut`, and nothing of the last indexed block.

Logs and transitions are filtered and flattened by `FlattenSeq`, which the library
defines by recursion over the sequence. What the proofs need of it (which places of the
result come from which sequence: `FlatPlaces`, and with that `KeptFacts` and
`FlatOrder`) is proved by induction over its length, with a set for the predicate
(`NatSetInduction`), which follows from the well-foundedness of the numbers.

Only model-checked:

- Liveness: `WithdrawalsArePaid`, `Settles`, `QuorumSigns`,
  `CatchesUp`, `Drains`. Fairness and `ENABLED` are out of the prover's reach.

## What is not modelled

- The genesis key generation of a validator and its first epoch: see the plan.
- Requests for a second group (`signing/sign.ts:21`), the nonces that a new group
  commits to after `EpochStaged`, and what a validator does in the epoch after:
  `ValidatorSigning` has one group and one epoch.
- Reading state back from SQLite rows; the models have the tables as values.
- Waiting for the time of the next block and the backoff after errors in the watcher;
  `Reorg detected, but currently not supported` is the whole treatment of an uncle in
  the state machine, so `ValidatorFeed` has no reorganisations.
- Elliptic curve arithmetic, VSS, hashing and Merkle proofs: pure functions on
  values too large to enumerate. Their outcomes (a share that verifies or not, a
  proof that exists or not) are inputs of the models.
- EIP-712 hashes and the packet checks of `consensus/verify`.
- Ownership and the recovery of other tokens in `Staking`; the end of 64 and 128
  bit numbers, which no sequence of calls reaches.
- Configuration, logging, metrics, the explorer, deployment scripts.
- `src/spec/validator.ml` is a document the models are compared with: it is not
  built into the validator.

## Plan

Done, in order: `FROSTKeyGen` and its proofs; `SigningService` and
`FROSTCoordinator`; `EpochChain` and `Consensus`; `ValidatorKeyGen`;
`WithdrawalBook` and `Staking`; `ChainFeed`, `ChainWatcher` and `ValidatorFeed`;
`TxSubmission`; `ValidatorSigning`; the proofs of the contracts, of the validators' two
state machines, of transaction submission, of the watcher and of its feed.

Next, the most important first:

1. **A second group in `ValidatorSigning`**: the group of the next epoch, its nonces
   after `EpochStaged`, the switch of the active epoch. Questions to settle: an
   `EpochStaged` that is ignored (`epochStaged.ts:19`), a request of another group for
   the same message (`signing/sign.ts:21`).
2. A genesis variant of `ValidatorKeyGen`, and a restricted agreement that holds
   (validators that saw the same shares restart with the same set).
