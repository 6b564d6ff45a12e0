--------------------------- MODULE ValidatorKeyGen ---------------------------
(***************************************************************************)
(* The rollover state machines of the validators running key generation    *)
(* against the coordinator contract (machine/keygen and                    *)
(* machine/consensus/rollover.ts over FROSTKeyGen).                        *)
(*                                                                         *)
(* A validator is a deterministic function of the event log and of the     *)
(* blocks it is told of; its actions wait in a queue until they are        *)
(* included.  So all honest validators take an event in the step that      *)
(* emits it, and a slow validator is one whose actions are included late,  *)
(* or never.  The others send anything the contract accepts: commitments   *)
(* with a wrong proof, shares that are wrong for some receivers,           *)
(* groundless complaints, wrong responses, or nothing.                     *)
(*                                                                         *)
(* A validator that warps over a block, after a restart for instance, is   *)
(* not told of it: what the block does to its state is done in the         *)
(* transition of the first event in it, or not at all if it has none.      *)
(*                                                                         *)
(* When a transition throws, the state changes and actions it returned are *)
(* dropped but what it wrote to the client storage stays.                  *)
(*                                                                         *)
(* Left out: the signing of the rollover (sign_rollover is the last state  *)
(* of an epoch here; it is left at the next epoch like epoch_staged) and   *)
(* the genesis key generation, which has no timeouts.  The client storage  *)
(* is kept for the group of the rollover only: an abandoned group is never *)
(* read again, except for its signing share.                               *)
(***************************************************************************)
EXTENDS Integers, FiniteSets

CONSTANTS
  Validator,       \* defaultParticipants
  Honest,          \* the validators that run this code
  KeyGenTimeout,   \* keyGenTimeout, in blocks
  BlocksPerEpoch,  \* blocksPerEpoch
  MaxBlock,        \* bound of the model on the block number
  MaxFaults        \* bound of the model on what goes wrong, see Disturbs

ASSUME ValidatorAssumption ==
  /\ IsFiniteSet(Validator)
  /\ Cardinality(Validator) >= 2  \* with fewer every epoch is skipped
  /\ 0 \notin Validator  \* a validator is its identifier as well
  /\ Honest \subseteq Validator
  /\ KeyGenTimeout \in Nat \ {0}
  /\ BlocksPerEpoch \in Nat \ {0}
  /\ MaxBlock \in Nat
  /\ MaxFaults \in Nat

VARIABLES
  block,  \* the block being filled
  faults, \* what went wrong so far
  local,  \* local[v]: the state of the honest validator v
  behind, \* those whose lastProcessedBlock is before the block being filled
  warped, \* those that were behind at some time
  status, pending, identifiers, keys, confirmed, statuses, complaints,
  accusations  \* the contract, see FROSTKeyGen

MinimumParticipants ==
  LET twoThirds == (2 * Cardinality(Validator)) \div 3 + 1
  IN  IF twoThirds > 2 THEN twoThirds ELSE 2

Threshold(g) == Cardinality(g.members) \div 2 + 1

\* The groups the validators may set up.  The context of a group holds its
\* epoch, and the participants its tree, so the two determine the group id.
Group == [epoch : 1 .. MaxBlock \div BlocksPerEpoch + 1,
          members : {m \in SUBSET Validator :
                       Cardinality(m) >= MinimumParticipants}]

INSTANCE FROSTKeyGen WITH
  Gid <- Group, Address <- Validator, Id <- Validator,
  leaves <- [g \in Group |-> {<<v, v>> : v \in g.members}],
  count <- [g \in Group |-> Cardinality(g.members)],
  threshold <- [g \in Group |-> Threshold(g)]

contract == <<status, pending, identifiers, keys, confirmed, statuses,
              complaints, accusations>>
vars == <<block, faults, local, behind, warped, contract>>

RolloverId == {"epoch_skipped", "collecting_commitments", "collecting_shares",
               "collecting_confirmations", "sign_rollover", "epoch_staged"}

\* <<kind, group, peer>>; the peer is the sender itself where the action has
\* none.
Action == {"key_gen_start", "key_gen_publish_secret_shares", "key_gen_confirm",
           "key_gen_complain", "key_gen_complaint_response"} \X Group \X Validator

NoComplaints == [v \in Validator |-> [total |-> 0, unresponded |-> 0]]

\* RolloverState, the key generation part of the client storage and the queue
\* of actions.  The deadlines of a state are kept as since, the block at which
\* it was entered.
Local == [id : RolloverId, epoch : Nat, members : SUBSET Validator, since : Nat,
          complaints : [Validator -> [total : Nat, unresponded : Nat]],
          missing : SUBSET Validator, confirmations : SUBSET Validator,
          registered : SUBSET Group, commitments : SUBSET Validator,
          shares : SUBSET Validator, signing : SUBSET Group,
          outbox : SUBSET Action]

TypeOK ==
  /\ block \in 0 .. MaxBlock
  /\ faults \in 0 .. MaxFaults
  /\ local \in [Honest -> Local]
  /\ behind \subseteq warped /\ warped \subseteq Honest
  /\ KeyGenTypeOK

\* Genesis is over: epoch 0 is staged.
Init ==
  /\ block = 0
  /\ faults = 0
  /\ local = [v \in Honest |->
       [id |-> "epoch_staged", epoch |-> 0, members |-> {}, since |-> 0,
        complaints |-> NoComplaints, missing |-> {}, confirmations |-> {},
        registered |-> {}, commitments |-> {}, shares |-> {}, signing |-> {},
        outbox |-> {}]]
  /\ behind = {} /\ warped = {}
  /\ KeyGenInit

-----------------------------------------------------------------------------
(* The handlers: the state l of validator v after an event.                *)

GroupOf(l) == [epoch |-> l.epoch, members |-> l.members]

\* The client storage.  registerGroup throws for a group that is registered or
\* that the own account is not part of.
MayRegister(v, l, g) == v \in g.members /\ g \notin l.registered

RegisterCommitments(l, sender) == [l EXCEPT !.commitments = @ \cup {sender}]

RegisterSecretShare(l, sender) == [l EXCEPT !.shares = @ \cup {sender}]

MissingCommitments(l) == l.members \ l.commitments
MissingSecretShares(l) == l.members \ l.shares
SecretSharesComplete(l) == MissingSecretShares(l) = {}

\* createSecretShares throws without the commitments of all the members.
MayCreateShares(l) == MissingCommitments(l) = {}

ClearKeyGen(l) == [l EXCEPT !.commitments = {}, !.shares = {}]

\* Without coefficients and commitments, createSecretShare and
\* verifySecretShare throw.
Cleared(l, g) == g \in l.signing

TriggerThrows(v, l, epoch, members) ==
  /\ Cardinality(members) >= MinimumParticipants
  /\ ~MayRegister(v, l, [epoch |-> epoch, members |-> members])

\* triggerKeyGen at block b.
Trigger(v, l, epoch, members, b) ==
  LET g == [epoch |-> epoch, members |-> members]
      fresh == [l EXCEPT !.epoch = epoch, !.members = {}, !.since = 0,
                         !.complaints = NoComplaints, !.missing = {},
                         !.confirmations = {}, !.commitments = {},
                         !.shares = {}]
  IN  IF Cardinality(members) < MinimumParticipants
      THEN [fresh EXCEPT !.id = "epoch_skipped"]
      ELSE IF ~MayRegister(v, l, g)
      THEN l
      ELSE [fresh EXCEPT !.id = "collecting_commitments",
                         !.members = members, !.since = b,
                         !.registered = @ \cup {g},
                         !.outbox = @ \cup {<<"key_gen_start", g, v>>}]

\* The last commitment is the one that moves the contract on.  If one of the
\* others was refused, the handler throws.  (Never in a group that was entered
\* in the same transition: its own commitment is still to come.)
HandleCommitted(v, l, g, sender, valid, last) ==
  LET stored == RegisterCommitments(l, sender)
  IN  IF l.id # "collecting_commitments" \/ GroupOf(l) # g \/ ~valid
      THEN l
      ELSE IF ~last \/ ~MayCreateShares(stored)
      THEN stored
      ELSE [stored EXCEPT !.id = "collecting_shares", !.since = block,
              !.outbox = @ \cup {<<"key_gen_publish_secret_shares", g, v>>}]

\* registerSecretShare: with the last share the signing share is computed and
\* what it was computed from is deleted.
StoreShare(l, g, sender) ==
  LET stored == RegisterSecretShare(l, sender)
  IN  IF SecretSharesComplete(stored)
      THEN [ClearKeyGen(stored) EXCEPT !.signing = @ \cup {g}]
      ELSE stored

HandleSecretSharedConfirming(v, l, g, sender, good, last) ==
  LET stored ==
        IF good THEN StoreShare(l, g, sender)
        ELSE [l EXCEPT !.missing = @ \cup {sender},
                       !.outbox = @ \cup {<<"key_gen_complain", g, sender>>}]
  IN  IF l.id # "collecting_shares" \/ GroupOf(l) # g
      THEN l
      ELSE IF ~last THEN stored
      ELSE [stored EXCEPT !.id = "collecting_confirmations", !.since = block,
              !.outbox = @ \cup {<<"key_gen_confirm", g, v>>}]

HandleSecretShared(v, l, g, sender, good, last) ==
  LET stored ==
        IF good THEN StoreShare(l, g, sender)
        ELSE [l EXCEPT !.missing = @ \cup {sender},
                       !.outbox = @ \cup {<<"key_gen_complain", g, sender>>}]
      confirm == IF Cleared(stored, g) THEN {<<"key_gen_confirm", g, v>>} ELSE {}
  IN  IF l.id # "collecting_shares" \/ GroupOf(l) # g
      THEN l
      ELSE IF ~last THEN stored
      ELSE [stored EXCEPT !.id = "collecting_confirmations", !.since = block,
                          !.outbox = @ \cup confirm]

\* Complaints are taken while shares are collected, and confirmations until a
\* deadline.
TakesDispute(l, g, deadline) ==
  /\ GroupOf(l) = g
  /\ \/ l.id = "collecting_shares"
     \/ l.id = "collecting_confirmations" /\ block <= deadline

HandleComplaintSubmittedSwapped(v, l, g, plaintiff, accused) ==
  LET total == l.complaints[accused].total + 1
  IN  IF ~TakesDispute(l, g, l.since + KeyGenTimeout)
      THEN l
      ELSE IF total >= Threshold(g)
      THEN Trigger(v, l, l.epoch, g.members \ {plaintiff}, block)
      ELSE [l EXCEPT !.complaints[accused].total = total]

HandleComplaintSubmitted(v, l, g, plaintiff, accused) ==
  LET total == l.complaints[accused].total + 1
      respond == {<<"key_gen_complaint_response", g, plaintiff>>}
  IN  IF ~TakesDispute(l, g, l.since + KeyGenTimeout)
      THEN l
      ELSE IF total >= Threshold(g)
      THEN Trigger(v, l, l.epoch, g.members \ {accused}, block)
      ELSE IF accused = v /\ Cleared(l, g)
      THEN l
      ELSE [l EXCEPT !.complaints[accused].total = total,
                     !.complaints[accused].unresponded = @ + 1,
                     !.outbox = @ \cup IF accused = v THEN respond ELSE {}]

HandleComplaintRespondedUncounted(v, l, g, plaintiff, accused, valid) ==
  IF ~TakesDispute(l, g, l.since + 2 * KeyGenTimeout)
  THEN l
  ELSE [l EXCEPT !.complaints[accused].unresponded = @ - 1]

\* The plaintiff registers the share; the others verify it.
HandleComplaintResponded(v, l, g, plaintiff, accused, valid) ==
  LET mine == v = plaintiff /\ accused \in l.missing
      answered == [l EXCEPT !.complaints[accused].unresponded = @ - 1]
      stored == [StoreShare(answered, g, accused)
                   EXCEPT !.missing = @ \ {accused}]
      confirm == IF Cleared(stored, g) THEN {<<"key_gen_confirm", g, v>>} ELSE {}
  IN  IF \/ ~TakesDispute(l, g, l.since + 2 * KeyGenTimeout)
         \/ l.complaints[accused].unresponded = 0
         \/ ~mine /\ Cleared(l, g)
      THEN l
      ELSE IF ~valid
      THEN Trigger(v, l, l.epoch, g.members \ {accused}, block)
      ELSE IF mine
      THEN [stored EXCEPT !.outbox = @ \cup confirm]
      ELSE answered

HandleConfirmed(v, l, g, sender) ==
  LET confirmations == l.confirmations \cup {sender}
  IN  IF l.id # "collecting_confirmations" \/ GroupOf(l) # g
      THEN l
      ELSE IF g.members \subseteq confirmations
      THEN [l EXCEPT !.id = "sign_rollover", !.since = 0, !.missing = {},
                     !.complaints = NoComplaints, !.confirmations = {}]
      ELSE [l EXCEPT !.confirmations = confirmations]

-----------------------------------------------------------------------------
(* The blocks.                                                             *)

\* The complaints nobody answered.
Unresponded(l) == {v \in Validator : l.complaints[v].unresponded > 0}

TimedOut(l, b) ==
  \/ /\ l.id \in {"collecting_commitments", "collecting_shares"}
     /\ l.since + KeyGenTimeout <= b
  \/ /\ l.id = "collecting_confirmations"
     /\ \/ l.since + 2 * KeyGenTimeout <= b /\ Unresponded(l) # {}
        \/ l.since + 3 * KeyGenTimeout <= b

\* The participants that did their part of the state that timed out.
Remaining(l) ==
  CASE l.id = "collecting_commitments" -> l.members \ MissingCommitments(l)
    [] l.id = "collecting_shares" -> l.members \ MissingSecretShares(l)
    [] l.id = "collecting_confirmations" /\ Unresponded(l) # {} ->
         l.members \ Unresponded(l)
    [] OTHER -> l.members \cap l.confirmations

CheckKeyGenTimeouts(v, l, b) ==
  IF TimedOut(l, b) THEN Trigger(v, l, l.epoch, Remaining(l), b) ELSE l

CheckEpochRollover(v, l, b) ==
  IF l.epoch <= b \div BlocksPerEpoch
  THEN Trigger(v, l, b \div BlocksPerEpoch + 1, Validator, b)
  ELSE l

ProgressTimeoutsFirst(v, l, b) ==
  IF TimedOut(l, b) THEN CheckKeyGenTimeouts(v, l, b)
  ELSE CheckEpochRollover(v, l, b)

\* After a rollover nothing times out in the same block.
ProgressThrows(v, l, b) ==
  IF l.epoch <= b \div BlocksPerEpoch
  THEN TriggerThrows(v, l, b \div BlocksPerEpoch + 1, Validator)
  ELSE TimedOut(l, b) /\ TriggerThrows(v, l, l.epoch, Remaining(l))

\* progressToBlock.  The order matters: a timeout of the old epoch may throw.
Progress(v, l, b) ==
  IF ProgressThrows(v, l, b) THEN l
  ELSE CheckKeyGenTimeouts(v, CheckEpochRollover(v, l, b), b)

\* block_new, for all but those that warp over the block.
NewBlock(warping) ==
  /\ block < MaxBlock
  /\ block' = block + 1
  /\ faults' = IF warping = {} THEN faults ELSE faults + 1
  /\ faults' <= MaxFaults
  /\ local' = [v \in Honest |-> IF v \in warping THEN local[v]
                               ELSE Progress(v, local[v], block + 1)]
  /\ behind' = warping
  /\ warped' = warped \cup warping
  /\ UNCHANGED contract

\* processEventTransition of the validator u: first progressToBlock, unless the
\* block was processed before, and then the handler.
Current(u, l) == IF u \in behind THEN Progress(u, l, block) ELSE l

\* If progressToBlock throws the event is not handled.
Misses(u) == u \in behind /\ ProgressThrows(u, local[u], block)

\* If the handler throws, the diff of progressToBlock is dropped with its own;
\* registerGroup has persisted.
Dropped(u) ==
  [local[u] EXCEPT !.registered = Current(u, local[u]).registered]

\* An event of the signing or of the consensus contract, whose handlers leave
\* key generation alone.  Those of the signing may throw.
OtherEvent(failing) ==
  /\ local' = [u \in Honest |-> IF u \in failing THEN Dropped(u)
                               ELSE Current(u, local[u])]
  /\ behind' = {}
  /\ UNCHANGED <<block, faults, warped, contract>>

-----------------------------------------------------------------------------
(* The transactions.                                                       *)

\* An honest validator sends what is in its queue.
MaySend(v, action) == v \in Honest => action \in local[v].outbox

\* Only the others send wrong messages.  The model bounds the wrong messages
\* and the late ones, sent for a group the sender (or, if it is not honest,
\* every honest validator) has given up.
Disturbs(v, g, wrong) ==
  LET late == \A u \in Honest \cap (IF v \in Honest THEN {v} ELSE Validator) :
                GroupOf(local[u]) # g
  IN  /\ v \in Honest => ~wrong
      /\ faults' = IF wrong \/ late THEN faults + 1 ELSE faults
      /\ faults' <= MaxFaults

\* The state of u once the action of v is included.
Sent(u, v, action) ==
  IF u = v THEN [local[u] EXCEPT !.outbox = @ \ {action}] ELSE local[u]

\* The state its event is handled in.
Ready(u, v, action) == Current(u, Sent(u, v, action))

\* The validators take the event, handled[u] being what the handler of u makes
\* of it.
Delivered(v, action, handled) ==
  /\ local' = [u \in Honest |-> IF Misses(u) THEN Sent(u, v, action)
                               ELSE handled[u]]
  /\ behind' = {}
  /\ UNCHANGED <<block, warped>>

Commit(v, g, valid) ==
  LET action == <<"key_gen_start", g, v>>
  IN  /\ MaySend(v, action)
      /\ Disturbs(v, g, ~valid)
      /\ KeyGenAndCommit(g, v, v)
      /\ Delivered(v, action, [u \in Honest |->
           HandleCommitted(u, Ready(u, v, action), g, v, valid,
                           status'[g] = "SHARING")])

\* The shares are wrong for the receivers bad.
SecretShare(v, g, bad) ==
  LET action == <<"key_gen_publish_secret_shares", g, v>>
  IN  /\ MaySend(v, action)
      /\ Disturbs(v, g, bad # {})
      /\ KeyGenSecretShare(g, v)
      /\ Delivered(v, action, [u \in Honest |->
           HandleSecretShared(u, Ready(u, v, action), g, v, u \notin bad,
                              status'[g] = "CONFIRMING")])

SubmitComplaint(v, g, accused) ==
  LET action == <<"key_gen_complain", g, accused>>
  IN  /\ MaySend(v, action)
      /\ Disturbs(v, g, v \notin Honest)
      /\ KeyGenComplain(g, v, accused)
      /\ Delivered(v, action, [u \in Honest |->
           HandleComplaintSubmitted(u, Ready(u, v, action), g, v, accused)])

RespondToComplaint(v, g, plaintiff, valid) ==
  LET action == <<"key_gen_complaint_response", g, plaintiff>>
  IN  /\ MaySend(v, action)
      /\ Disturbs(v, g, ~valid)
      /\ KeyGenComplaintResponse(g, v, plaintiff)
      /\ Delivered(v, action, [u \in Honest |->
           HandleComplaintResponded(u, Ready(u, v, action), g, plaintiff, v,
                                    valid)])

\* Honest validators confirm with a callback that proposes the epoch, which
\* reverts the last confirmation once the rollover block is reached.
ConfirmKeyGen(v, g) ==
  LET action == <<"key_gen_confirm", g, v>>
  IN  /\ MaySend(v, action)
      /\ v \in Honest /\ pending[g] = 1 => block < g.epoch * BlocksPerEpoch
      /\ Disturbs(v, g, FALSE)
      /\ KeyGenConfirm(g, v)
      /\ Delivered(v, action, [u \in Honest |->
           HandleConfirmed(u, Ready(u, v, action), g, v)])

Next ==
  \/ \E warping \in SUBSET Honest : NewBlock(warping)
  \/ \E failing \in SUBSET behind : behind # {} /\ OtherEvent(failing)
  \/ \E g \in Group : \E v \in g.members :
       \/ \E valid \in BOOLEAN : Commit(v, g, valid)
       \/ \E bad \in SUBSET (Honest \cap g.members) : SecretShare(v, g, bad)
       \/ \E accused \in g.members : SubmitComplaint(v, g, accused)
       \/ \E plaintiff \in g.members, valid \in BOOLEAN :
            RespondToComplaint(v, g, plaintiff, valid)
       \/ ConfirmKeyGen(v, g)

Spec == Init /\ [][Next]_vars

-----------------------------------------------------------------------------
\* A finalized group can sign: every honest member holds the signing share its
\* confirmation stands for (key_gen_confirm is only queued on
\* shares_completed), whatever shares, complaints and responses the others
\* sent and however late they were.
FinalizedGroupCanSign ==
  \A g \in Group : status[g] = "FINALIZED" =>
    \A v \in Honest \cap g.members : g \in local[v].signing

\* Two validators that sign the handover to an epoch sign the same group.
RolloverAgreement ==
  \A u, v \in Honest :
    /\ local[u].id = "sign_rollover" /\ local[v].id = "sign_rollover"
    /\ local[u].epoch = local[v].epoch
    => local[u].members = local[v].members

\* Every epoch starts a new attempt with everybody: whatever became of the
\* last one, also on a validator that was excluded from it and whose timeouts
\* throw, the rollover is the one to the next epoch.  The one exception is a
\* rollover that was dropped, when the transition it was part of threw: then the
\* group is left registered, and setting it up throws for the rest of the epoch.
\* The epoch after that is tried again.
EveryEpochIsTried ==
  block > 0 => \A v \in Honest \ behind :
    LET epoch == block \div BlocksPerEpoch + 1
    IN  \/ local[v].epoch = epoch
        \/ v \in warped /\ [epoch |-> epoch, members |-> Validator]
                             \in local[v].registered

\* Validator u restarts key generation within the epoch, without member v.
Removes(u, v) ==
  /\ local'[u].id = "collecting_commitments"
  /\ local'[u].epoch = local[u].epoch
  /\ v \in local[u].members \ local'[u].members

\* The contract has not got from v what the state l waits for, or a complaint
\* against v was made.
Cause(l, v) ==
  LET g == GroupOf(l)
  IN  \/ l.id = "collecting_commitments" /\ identifiers[g][v] = 0
      \/ l.id = "collecting_shares" /\ v \notin keys[g]
      \/ l.id = "collecting_confirmations" /\ v \notin confirmed[g]
      \/ \E p \in g.members : statuses'[g][<<p, v>>] # "NONE"

\* A complaint was answered in g.
Answered(g) == \E p, a \in g.members : statuses[g][<<p, a>>] = "RESPONDED"

\* The attempts of the same epoch with all of the members of g and others.
Larger(g) ==
  {h \in Group : h.epoch = g.epoch /\ g.members \subseteq h.members /\ h # g}

\* As long as no complaint was answered in an earlier attempt of the epoch, no
\* honest validator loses an honest member that did its part, if both are told
\* of every block.  A validator with all of its shares cannot verify a response, so a
\* response separates the validators: those that can restart at once, and what
\* they commit to is missed by those that enter the same attempt later.  One
\* that warps over the block of a timeout is late in the same way.
RemovedForCause ==
  [][\A u, v \in Honest \ warped :
       Removes(u, v) =>
         \/ Cause(local[u], v)
         \/ \E h \in Larger(GroupOf(local[u])) : Answered(h)]_vars

\* A complaint against an honest validator that still takes it is answered:
\* its response is queued as long as the complaint is open.
AccusedResponds ==
  \A v \in Honest, g \in Group, p \in Validator :
    /\ statuses[g][<<p, v>>] = "SUBMITTED"
    /\ TakesDispute(local[v], g, local[v].since + KeyGenTimeout)
    => <<"key_gen_complaint_response", g, p>> \in local[v].outbox

=============================================================================
