------------------------ MODULE ValidatorKeyGenProofs ------------------------
(***************************************************************************)
(* The key generation of the validators for any number of validators, any  *)
(* of them faulty in any way: the types, that every epoch is tried, and    *)
(* that a finalized group can sign.  What the contract does is taken from  *)
(* FROSTKeyGenProofs; what a handler does to the state of its validator is *)
(* shown handler by handler.                                               *)
(***************************************************************************)
EXTENDS ValidatorKeyGen, FiniteSetTheorems, TLAPS

\* The contract with the groups of the validators, with its proofs.
KG == INSTANCE FROSTKeyGenProofs WITH
  Gid <- Group, Address <- Validator, Id <- Validator,
  leaves <- [g \in Group |-> {<<v, v>> : v \in g.members}],
  count <- [g \in Group |-> Cardinality(g.members)],
  threshold <- [g \in Group |-> Threshold(g)]

LastEpoch == MaxBlock \div BlocksPerEpoch + 1

\* A member is registered under its own name.
OwnNames ==
  \A g \in Group, a \in Validator :
    identifiers[g][a] # 0 => identifiers[g][a] = a /\ a \in g.members

\* The state l of validator v: it generates no key for epoch 0, and queues its
\* confirmation of a group only when it has the signing share.
Held(v, l) ==
  /\ l \in Local
  /\ l.epoch <= LastEpoch
  /\ l.epoch = 0 => l.id = "epoch_staged"
  /\ \A g \in Group : <<"key_gen_confirm", g, v>> \in l.outbox => g \in l.signing

\* The epoch a validator is at while block b is filled.
EpochAt(b) == IF b = 0 THEN 0 ELSE b \div BlocksPerEpoch + 1

\* The first attempt of the epoch of block b.
Everybody(b) == [epoch |-> EpochAt(b), members |-> Validator]

\* The state l of v is at the epoch of the block and it has registered no group
\* of a later one, unless it was behind: then it may be stuck at an earlier one.
AtEpoch(v, l) ==
  /\ l.epoch <= EpochAt(block)
  /\ v \notin warped => /\ l.epoch = EpochAt(block)
                        /\ \A g \in l.registered : g.epoch <= l.epoch
  /\ v \notin behind => \/ l.epoch = EpochAt(block)
                        \/ Everybody(block) \in l.registered

LocalInv ==
  /\ local \in [Honest -> Local]
  /\ \A v \in Honest : Held(v, local[v]) /\ AtEpoch(v, local[v])

\* An honest validator that has confirmed a group can sign for it.
ConfirmedInv ==
  \A g \in Group, v \in Honest : v \in confirmed[g] => g \in local[v].signing

BlockInv ==
  /\ block \in 0 .. MaxBlock
  /\ faults \in 0 .. MaxFaults
  /\ behind \subseteq warped /\ warped \subseteq Honest
  /\ behind # {} => block > 0

Inv == BlockInv /\ KG!KeyGenInv /\ OwnNames /\ LocalInv /\ ConfirmedInv

-----------------------------------------------------------------------------
(* The parameters.                                                         *)

LEMMA GroupSize ==
  ASSUME NEW g \in Group
  PROVE  /\ g.members \subseteq Validator
         /\ IsFiniteSet(g.members) /\ Cardinality(g.members) \in Nat
         /\ Threshold(g) \in Nat
<1>1. g.members \subseteq Validator
  BY DEF Group
<1>2. IsFiniteSet(g.members) /\ Cardinality(g.members) \in Nat
  BY <1>1, ValidatorAssumption, FS_Subset, FS_CardinalityType
<1> QED
  BY <1>1, <1>2 DEF Threshold

\* The groups of the validators are what the contract assumes of a group.
LEMMA Parameters ==
  /\ IsFiniteSet(Validator)
  /\ 0 \notin Validator
  /\ [g \in Group |-> {<<v, v>> : v \in g.members}]
       \in [Group -> SUBSET (Validator \X Validator)]
  /\ [g \in Group |-> Cardinality(g.members)] \in [Group -> Nat]
  /\ [g \in Group |-> Threshold(g)] \in [Group -> Nat]
  /\ \A S : KG!IsFiniteSet(S) <=> IsFiniteSet(S)
<1>1. \A g \in Group :
        {<<v, v>> : v \in g.members} \in SUBSET (Validator \X Validator)
  BY GroupSize
<1>2. \A S : KG!IsFiniteSet(S) <=> IsFiniteSet(S)
  BY DEF KG!IsFiniteSet, IsFiniteSet
<1> QED
  BY <1>1, <1>2, GroupSize, ValidatorAssumption

\* All the validators together are enough for a group.
LEMMA Minimum ==
  /\ MinimumParticipants \in Nat /\ MinimumParticipants >= 2
  /\ Cardinality(Validator) >= MinimumParticipants
<1>1. Cardinality(Validator) \in Nat /\ Cardinality(Validator) >= 2
  BY ValidatorAssumption, FS_CardinalityType
<1> DEFINE n == Cardinality(Validator)
           q == (2 * n) \div 3
<1>2. q \in Nat /\ 3 * q <= 2 * n
  BY <1>1
<1> HIDE DEF q
<1>3. q + 1 <= n
  BY <1>1, <1>2
<1> QED
  BY <1>1, <1>2, <1>3 DEF MinimumParticipants, q

\* The epochs of two blocks are in the order of the blocks.
LEMMA DivisionStep ==
  ASSUME NEW m \in Nat, NEW n \in Nat, m <= n
  PROVE  /\ m \div BlocksPerEpoch \in Nat
         /\ m \div BlocksPerEpoch <= n \div BlocksPerEpoch
<1> DEFINE p == m \div BlocksPerEpoch
           q == n \div BlocksPerEpoch
<1>1. /\ m = BlocksPerEpoch * p + (m % BlocksPerEpoch)
      /\ n = BlocksPerEpoch * q + (n % BlocksPerEpoch)
      /\ m % BlocksPerEpoch \in 0 .. BlocksPerEpoch - 1
      /\ n % BlocksPerEpoch \in 0 .. BlocksPerEpoch - 1
      /\ p \in Nat /\ q \in Nat
  BY ValidatorAssumption
<1> SUFFICES ASSUME q + 1 <= p PROVE FALSE
  BY <1>1
<1> HIDE DEF p, q
<1>2. BlocksPerEpoch * (q + 1) <= BlocksPerEpoch * p
  BY <1>1, ValidatorAssumption
<1>3. BlocksPerEpoch * (q + 1) = BlocksPerEpoch * q + BlocksPerEpoch
  BY <1>1, ValidatorAssumption
<1> QED
  BY <1>1, <1>2, <1>3, ValidatorAssumption

LEMMA Epochs ==
  /\ LastEpoch \in Nat /\ LastEpoch >= 1
  /\ \A b \in 0 .. MaxBlock : /\ b \div BlocksPerEpoch \in Nat
                              /\ b \div BlocksPerEpoch + 1 <= LastEpoch
                              /\ EpochAt(b) \in Nat
BY DivisionStep, ValidatorAssumption DEF LastEpoch, EpochAt

-----------------------------------------------------------------------------
(* The handlers.                                                           *)

\* From state l to k no group and no signing share is lost, and the groups that
\* are registered are of this epoch.
Keeps(l, k, epoch) ==
  /\ l.signing \subseteq k.signing
  /\ l.registered \subseteq k.registered
  /\ \A g \in k.registered \ l.registered : g.epoch = epoch

\* A handler takes the state l of v to k within the epoch.
Handled(v, l, k) ==
  Held(v, k) /\ k.epoch = l.epoch /\ Keeps(l, k, l.epoch)

LEMMA HandledTwice ==
  ASSUME NEW v, NEW l, NEW k, NEW m, Handled(v, l, k), Handled(v, k, m)
  PROVE  Handled(v, l, m)
BY DEF Handled, Keeps

\* Key generation is started for a new group or the handler throws.
LEMMA TriggerStep ==
  ASSUME NEW v \in Validator, NEW l, Held(v, l),
         NEW epoch \in 1 .. LastEpoch, l.epoch <= epoch,
         NEW members \in SUBSET Validator, NEW b \in Nat
  PROVE  LET k == Trigger(v, l, epoch, members, b)
             g == [epoch |-> epoch, members |-> members]
         IN  /\ Held(v, k) /\ Keeps(l, k, epoch)
             /\ IF TriggerThrows(v, l, epoch, members) THEN k = l
                ELSE /\ k.epoch = epoch
                     /\ Cardinality(members) >= MinimumParticipants => g \in k.registered
<1> USE Epochs
<1> DEFINE g == [epoch |-> epoch, members |-> members]
           fresh == [l EXCEPT !.epoch = epoch, !.members = {}, !.since = 0,
                         !.complaints = NoComplaints, !.missing = {},
                         !.confirmations = {}, !.commitments = {},
                         !.shares = {}]
           skipped == [fresh EXCEPT !.id = "epoch_skipped"]
           started == [fresh EXCEPT !.id = "collecting_commitments",
                         !.members = members, !.since = b,
                         !.registered = @ \cup {g},
                         !.outbox = @ \cup {<<"key_gen_start", g, v>>}]
<1>0. l \in Local /\ epoch \in Nat
  BY DEF Held
<1>1. fresh \in Local /\ fresh.epoch = epoch
      /\ fresh.outbox = l.outbox /\ fresh.signing = l.signing
      /\ fresh.registered = l.registered
  BY <1>0 DEF Local, NoComplaints
<1>2. /\ Held(v, skipped) /\ skipped.epoch = epoch /\ skipped.signing = l.signing
      /\ skipped.registered = l.registered
  <2>1. skipped \in Local
    BY <1>1 DEF Local, RolloverId
  <2>2. skipped.epoch = epoch /\ skipped.registered = l.registered
        /\ skipped.outbox = l.outbox /\ skipped.signing = l.signing
    BY <1>1 DEF Local
  <2> QED
    BY <2>1, <2>2 DEF Held
<1>3. ASSUME Cardinality(members) >= MinimumParticipants
      PROVE  /\ Held(v, started) /\ started.epoch = epoch /\ started.signing = l.signing
             /\ started.registered = l.registered \cup {g}
  <2>1. g \in Group
    BY <1>3 DEF Group, LastEpoch
  <2>2. started \in Local
    <3>1. <<"key_gen_start", g, v>> \in Action
      BY <2>1 DEF Action
    <3> HIDE DEF g, fresh
    <3> QED
      BY <1>1, <2>1, <3>1 DEF Local, RolloverId
  <2>3. started.epoch = epoch /\ started.registered = l.registered \cup {g}
        /\ started.outbox = l.outbox \cup {<<"key_gen_start", g, v>>}
        /\ started.signing = l.signing
    BY <1>1 DEF Local
  <2> QED
    BY <2>2, <2>3 DEF Held
<1>4. Cardinality(members) \in Nat /\ MinimumParticipants \in Nat
  BY Minimum, ValidatorAssumption, FS_Subset, FS_CardinalityType
<1>5. CASE Cardinality(members) < MinimumParticipants
  <2>1. Trigger(v, l, epoch, members, b) = skipped
    BY <1>5 DEF Trigger
  <2>2. ~TriggerThrows(v, l, epoch, members) /\ ~(Cardinality(members) >= MinimumParticipants)
    BY <1>4, <1>5 DEF TriggerThrows
  <2> HIDE DEF skipped, fresh
  <2> QED
    BY <1>2, <2>1, <2>2 DEF Keeps
<1>6. CASE Cardinality(members) >= MinimumParticipants /\ ~MayRegister(v, l, g)
  <2>1. Trigger(v, l, epoch, members, b) = l
    BY <1>4, <1>6 DEF Trigger
  <2>2. TriggerThrows(v, l, epoch, members)
    BY <1>6 DEF TriggerThrows
  <2> QED
    BY <2>1, <2>2 DEF Keeps
<1>7. CASE Cardinality(members) >= MinimumParticipants /\ MayRegister(v, l, g)
  <2>1. Trigger(v, l, epoch, members, b) = started
    BY <1>4, <1>7 DEF Trigger
  <2>2. ~TriggerThrows(v, l, epoch, members)
    BY <1>7 DEF TriggerThrows
  <2>3. g.epoch = epoch
    OBVIOUS
  <2> HIDE DEF started, fresh, g
  <2>4. /\ Held(v, started) /\ started.epoch = epoch
        /\ started.signing = l.signing /\ started.registered = l.registered \cup {g}
    BY <1>3, <1>7
  <2>5. Keeps(l, started, epoch)
    BY <2>3, <2>4 DEF Keeps
  <2> QED
    BY <2>1, <2>2, <2>4, <2>5 DEF g
<1> QED
  BY <1>4, <1>5, <1>6, <1>7
\* Key generation is started again within the epoch, without some members.
LEMMA TriggerHandled ==
  ASSUME NEW v \in Validator, NEW l, Held(v, l), l.epoch >= 1,
         NEW members \in SUBSET Validator, NEW b \in Nat
  PROVE  Handled(v, l, Trigger(v, l, l.epoch, members, b))
<1>1. l.epoch \in 1 .. LastEpoch /\ l.epoch <= l.epoch
  BY Epochs DEF Held, Local
<1>2. PICK e \in 1 .. LastEpoch : e = l.epoch
  BY <1>1
<1> DEFINE k == Trigger(v, l, e, members, b)
<1>3. Held(v, k) /\ (k = l \/ k.epoch = e) /\ Keeps(l, k, e)
  <2>1. l.epoch <= e
    BY <1>1, <1>2
  <2> QED
    BY <2>1, TriggerStep, Zenon
<1> HIDE DEF k
<1>4. Handled(v, l, k)
  BY <1>2, <1>3 DEF Handled
<1> QED
  BY <1>2, <1>4 DEF k

\* A group that the state of a validator is about belongs to its epoch.
LEMMA EpochOfGroup ==
  ASSUME NEW v, NEW l, Held(v, l), NEW g \in Group, GroupOf(l) = g
  PROVE  l.epoch >= 1 /\ l.epoch = g.epoch /\ l.members = g.members
BY Epochs DEF GroupOf, Group, LastEpoch

LEMMA SentStep ==
  ASSUME NEW u \in Honest, NEW v, NEW action, Held(u, local[u])
  PROVE  Handled(u, local[u], Sent(u, v, action))
BY DEF Handled, Keeps, Held, Sent, Local

LEMMA CommittedStep ==
  ASSUME BlockInv, NEW v \in Validator, NEW l, Held(v, l), NEW g \in Group,
         NEW sender \in Validator, NEW valid \in BOOLEAN, NEW last \in BOOLEAN
  PROVE  Handled(v, l, HandleCommitted(v, l, g, sender, valid, last))
<1> DEFINE stored == RegisterCommitments(l, sender)
           action == <<"key_gen_publish_secret_shares", g, v>>
           sharing == [stored EXCEPT !.id = "collecting_shares", !.since = block,
                                     !.outbox = @ \cup {action}]
<1>1. l \in Local /\ block \in Nat
  BY DEF Held, BlockInv
<1>2. stored \in Local /\ stored = [l EXCEPT !.commitments = @ \cup {sender}]
  BY <1>1 DEF RegisterCommitments, Local
<1>3. Handled(v, l, stored)
  BY <1>1, <1>2 DEF Handled, Keeps, Held, Local
<1>4. ASSUME l.id = "collecting_commitments"
      PROVE  Handled(v, l, sharing)
  <2>1. action \in Action
    BY DEF Action
  <2>2. sharing \in Local
    BY <1>1, <1>2, <2>1 DEF Local, RolloverId
  <2>3. /\ sharing.id = "collecting_shares" /\ sharing.epoch = l.epoch
        /\ sharing.registered = l.registered /\ sharing.signing = l.signing
        /\ sharing.outbox = l.outbox \cup {action}
    BY <1>1, <1>2 DEF Local
  <2> QED
    BY <1>4, <2>2, <2>3 DEF Handled, Keeps, Held
<1>5. Handled(v, l, l)
  BY DEF Handled, Keeps
<1> QED
  BY <1>3, <1>4, <1>5 DEF HandleCommitted

LEMMA StoreShareStep ==
  ASSUME NEW v, NEW l, Held(v, l), NEW g \in Group, NEW sender \in Validator
  PROVE  LET k == StoreShare(l, g, sender)
         IN  /\ Handled(v, l, k)
             /\ k.id = l.id /\ k.outbox = l.outbox /\ k.complaints = l.complaints
BY DEF Handled, Keeps, Held, StoreShare, RegisterSecretShare, ClearKeyGen, Local

\* An action other than a confirmation may be queued; a confirmation only with
\* the signing share.
LEMMA QueueStep ==
  ASSUME NEW v \in Validator, NEW l, Held(v, l), NEW g \in Group,
         NEW A \in SUBSET Action,
         \A h \in Group : <<"key_gen_confirm", h, v>> \in A => Cleared(l, h)
  PROVE  Handled(v, l, [l EXCEPT !.outbox = @ \cup A])
<1>1. [l EXCEPT !.outbox = @ \cup A] \in Local
  BY DEF Held, Local
<1> QED
  BY <1>1 DEF Handled, Keeps, Held, Local, Cleared

\* So may the confirmation that Cleared guards.
LEMMA ConfirmStep ==
  ASSUME NEW v \in Validator, NEW l, Held(v, l), NEW g \in Group
  PROVE  Handled(v, l, [l EXCEPT !.outbox = @ \cup
                          IF Cleared(l, g) THEN {<<"key_gen_confirm", g, v>>} ELSE {}])
<1> DEFINE A == IF Cleared(l, g) THEN {<<"key_gen_confirm", g, v>>} ELSE {}
<1>1. A \in SUBSET Action
  BY DEF Action
<1>2. \A h \in Group : <<"key_gen_confirm", h, v>> \in A => Cleared(l, h)
  OBVIOUS
<1> HIDE DEF A
<1>3. Handled(v, l, [l EXCEPT !.outbox = @ \cup A])
  BY <1>1, <1>2, QueueStep
<1> QED
  BY <1>3 DEF A

LEMMA SharedStep ==
  ASSUME BlockInv, NEW v \in Validator, NEW l, Held(v, l), NEW g \in Group,
         NEW sender \in Validator, NEW good \in BOOLEAN, NEW last \in BOOLEAN
  PROVE  Handled(v, l, HandleSecretShared(v, l, g, sender, good, last))
<1> DEFINE complain == {<<"key_gen_complain", g, sender>>}
           lacking == [l EXCEPT !.missing = @ \cup {sender},
                                !.outbox = @ \cup complain]
           stored == IF good THEN StoreShare(l, g, sender) ELSE lacking
           moved == [stored EXCEPT !.id = "collecting_confirmations",
                                   !.since = block]
           confirm == IF Cleared(stored, g) THEN {<<"key_gen_confirm", g, v>>} ELSE {}
           done == [stored EXCEPT !.id = "collecting_confirmations", !.since = block,
                                  !.outbox = @ \cup confirm]
<1>1. l \in Local /\ block \in Nat
  BY DEF Held, BlockInv
<1>2. lacking \in Local /\ complain \subseteq Action
  <2>1. complain \subseteq Action
    BY DEF Action
  <2> HIDE DEF complain
  <2> QED
    BY <1>1, <2>1 DEF Local
<1>3. Handled(v, l, lacking) /\ lacking.id = l.id
  BY <1>1, <1>2 DEF Handled, Keeps, Held, Local
<1>4. Handled(v, l, stored) /\ stored.id = l.id
  BY <1>3, StoreShareStep
<1> HIDE DEF stored
<1>5. ASSUME l.id = "collecting_shares"
      PROVE  Handled(v, l, done)
  <2>1. stored \in Local
    BY <1>4 DEF Handled, Keeps, Held
  <2>2. Handled(v, stored, moved)
    BY <1>1, <1>4, <1>5, <2>1 DEF Handled, Keeps, Held, Local, RolloverId
  <2>3. done = [moved EXCEPT !.outbox = @ \cup confirm]
    BY <2>1 DEF Local
  <2>4. confirm = IF Cleared(moved, g) THEN {<<"key_gen_confirm", g, v>>} ELSE {}
    BY <2>1 DEF Local, Cleared
  <2>5. Handled(v, moved, done)
    <3>1. Held(v, moved)
      BY <2>2 DEF Handled
    <3> HIDE DEF moved, confirm, done
    <3>2. Handled(v, moved, [moved EXCEPT !.outbox = @ \cup
            IF Cleared(moved, g) THEN {<<"key_gen_confirm", g, v>>} ELSE {}])
      BY <3>1, ConfirmStep
    <3> QED
      BY <2>3, <2>4, <3>2
  <2> QED
    BY <1>4, <2>2, <2>5, HandledTwice
<1> QED
  BY <1>4, <1>5 DEF HandleSecretShared, stored, Handled, Keeps
\* A validator only changes the counters of complaints.
LEMMA CountStep ==
  ASSUME NEW v, NEW l, Held(v, l),
         NEW k, k \in Local, k = [l EXCEPT !.complaints = k.complaints]
  PROVE  Handled(v, l, k)
BY DEF Handled, Keeps, Held, Local

LEMMA ComplaintStep ==
  ASSUME BlockInv, NEW v \in Validator, NEW l, Held(v, l), NEW g \in Group,
         NEW plaintiff \in Validator, NEW accused \in Validator
  PROVE  Handled(v, l, HandleComplaintSubmitted(v, l, g, plaintiff, accused))
<1> DEFINE total == l.complaints[accused].total + 1
           respond == IF accused = v
                      THEN {<<"key_gen_complaint_response", g, plaintiff>>} ELSE {}
           counted == [l EXCEPT !.complaints[accused].total = total,
                                !.complaints[accused].unresponded = @ + 1]
           answered == [l EXCEPT !.complaints[accused].total = total,
                                 !.complaints[accused].unresponded = @ + 1,
                                 !.outbox = @ \cup respond]
<1>1. l \in Local /\ block \in Nat
  BY DEF Held, BlockInv
<1>2. Handled(v, l, l)
  BY DEF Handled, Keeps
<1>3. ASSUME GroupOf(l) = g
      PROVE  Handled(v, l, Trigger(v, l, l.epoch, g.members \ {accused}, block))
  BY <1>1, <1>3, EpochOfGroup, TriggerHandled, GroupSize
<1>4. Handled(v, l, counted)
  <2>1. counted \in Local /\ counted = [l EXCEPT !.complaints = counted.complaints]
    BY <1>1 DEF Local
  <2> QED
    BY <2>1, CountStep
<1>5. Handled(v, l, answered)
  <2>1. answered = [counted EXCEPT !.outbox = @ \cup respond]
    BY <1>1 DEF Local
  <2>2. /\ respond \in SUBSET Action
        /\ \A h \in Group : <<"key_gen_confirm", h, v>> \notin respond
    BY DEF Action
  <2> HIDE DEF counted, respond, answered
  <2>3. Handled(v, counted, [counted EXCEPT !.outbox = @ \cup respond])
    BY <1>4, <2>2, QueueStep DEF Handled
  <2> QED
    BY <1>4, <2>1, <2>3, HandledTwice
<1> QED
  BY <1>2, <1>3, <1>5 DEF HandleComplaintSubmitted, TakesDispute

LEMMA RespondedStep ==
  ASSUME BlockInv, NEW v \in Validator, NEW l, Held(v, l), NEW g \in Group,
         NEW plaintiff \in Validator, NEW accused \in Validator,
         NEW valid \in BOOLEAN
  PROVE  Handled(v, l, HandleComplaintResponded(v, l, g, plaintiff, accused, valid))
<1> DEFINE answered == [l EXCEPT !.complaints[accused].unresponded = @ - 1]
           shared == StoreShare(answered, g, accused)
           stored == [shared EXCEPT !.missing = @ \ {accused}]
           confirm == IF Cleared(stored, g) THEN {<<"key_gen_confirm", g, v>>} ELSE {}
           confirmable == [stored EXCEPT !.outbox = @ \cup confirm]
<1>1. l \in Local /\ block \in Nat
  BY DEF Held, BlockInv
<1>2. Handled(v, l, l)
  BY DEF Handled, Keeps
<1>3. ASSUME GroupOf(l) = g
      PROVE  Handled(v, l, Trigger(v, l, l.epoch, g.members \ {accused}, block))
  BY <1>1, <1>3, EpochOfGroup, TriggerHandled, GroupSize
<1>4. ASSUME l.complaints[accused].unresponded # 0
      PROVE  Handled(v, l, answered) /\ Handled(v, l, confirmable)
  <2> DEFINE c == [l.complaints EXCEPT ![accused].unresponded = @ - 1]
  <2>0. c \in [Validator -> [total : Nat, unresponded : Nat]]
    BY <1>1, <1>4 DEF Local
  <2>1. answered \in Local /\ answered = [l EXCEPT !.complaints = answered.complaints]
    <3>1. answered = [l EXCEPT !.complaints = c]
      BY <1>1 DEF Local
    <3> HIDE DEF c, answered
    <3> QED
      BY <1>1, <2>0, <3>1 DEF Local
  <2>2. Handled(v, l, answered)
    BY <2>1, CountStep
  <2> HIDE DEF answered
  <2>3. Handled(v, answered, shared)
    BY <2>2, StoreShareStep DEF Handled
  <2> HIDE DEF shared
  <2>4. Handled(v, shared, stored)
    BY <2>3 DEF Handled, Keeps, Held, Local
  <2> HIDE DEF stored
  <2>5. Handled(v, stored, confirmable)
    BY <2>4, ConfirmStep DEF Handled
  <2> QED
    BY <2>2, <2>3, <2>4, <2>5, HandledTwice
<1> QED
  BY <1>2, <1>3, <1>4 DEF HandleComplaintResponded, TakesDispute

LEMMA ConfirmedStep ==
  ASSUME NEW v \in Validator, NEW l, Held(v, l), NEW g \in Group,
         NEW sender \in Validator
  PROVE  Handled(v, l, HandleConfirmed(v, l, g, sender))
<1> DEFINE confirmations == l.confirmations \cup {sender}
           signing == [l EXCEPT !.id = "sign_rollover", !.since = 0, !.missing = {},
                     !.complaints = NoComplaints, !.confirmations = {}]
           waiting == [l EXCEPT !.confirmations = confirmations]
<1>1. l \in Local
  BY DEF Held
<1>2. Handled(v, l, waiting) /\ Handled(v, l, l)
  BY <1>1 DEF Handled, Keeps, Held, Local
<1>3. ASSUME l.id = "collecting_confirmations" PROVE Handled(v, l, signing)
  <2>1. signing \in Local
    BY <1>1 DEF Local, RolloverId, NoComplaints
  <2>2. /\ signing.epoch = l.epoch /\ signing.registered = l.registered
        /\ signing.outbox = l.outbox /\ signing.signing = l.signing
    BY <1>1 DEF Local
  <2> QED
    BY <1>3, <2>1, <2>2 DEF Handled, Keeps, Held
<1> QED
  BY <1>2, <1>3 DEF HandleConfirmed

-----------------------------------------------------------------------------
(* The blocks.                                                             *)

LEMMA TimeoutStep ==
  ASSUME NEW v \in Validator, NEW l, Held(v, l), NEW b \in Nat
  PROVE  Handled(v, l, CheckKeyGenTimeouts(v, l, b))
<1>1. l \in Local
  BY DEF Held
<1>2. Remaining(l) \in SUBSET Validator
  BY <1>1 DEF Remaining, Local
<1>3. TimedOut(l, b) => l.epoch >= 1
  BY <1>1 DEF TimedOut, Held, Local
<1> QED
  BY <1>2, <1>3, TriggerHandled DEF CheckKeyGenTimeouts, Handled, Keeps

\* progressToBlock takes a validator to the epoch of the block, unless it has
\* registered the group that it would set up for it.
Progressed(l, k, b) ==
  /\ l.epoch <= k.epoch /\ k.epoch <= EpochAt(b)
  /\ k.epoch = EpochAt(b) \/ k = l
  /\ l.epoch = EpochAt(b) \/ Everybody(b) \in k.registered
  /\ Keeps(l, k, EpochAt(b))

LEMMA ProgressStep ==
  ASSUME NEW v \in Validator, NEW l, Held(v, l), NEW b \in 1 .. MaxBlock,
         l.epoch <= EpochAt(b)
  PROVE  Held(v, Progress(v, l, b)) /\ Progressed(l, Progress(v, l, b), b)
<1> DEFINE q == b \div BlocksPerEpoch
           r == CheckEpochRollover(v, l, b)
           t == Trigger(v, l, q + 1, Validator, b)
<1>1. /\ b \in Nat /\ q \in Nat /\ q + 1 \in 1 .. LastEpoch
      /\ EpochAt(b) = q + 1
      /\ l \in Local /\ l.epoch \in Nat /\ LastEpoch \in Nat
  BY Epochs, ValidatorAssumption DEF EpochAt, Held, Local
<1>2. Everybody(b) = [epoch |-> q + 1, members |-> Validator]
  BY <1>1 DEF Everybody
<1>3. CASE l.epoch <= q /\ TriggerThrows(v, l, q + 1, Validator)
  <2>1. Progress(v, l, b) = l
    BY <1>3 DEF Progress, ProgressThrows
  <2>2. Everybody(b) \in l.registered
    BY <1>2, <1>3 DEF TriggerThrows, MayRegister
  <2> QED
    BY <1>1, <2>1, <2>2 DEF Progressed, Keeps
<1>4. CASE l.epoch <= q /\ ~TriggerThrows(v, l, q + 1, Validator)
  <2>1. /\ Held(v, t) /\ Keeps(l, t, q + 1) /\ t.epoch = q + 1
        /\ [epoch |-> q + 1, members |-> Validator] \in t.registered
    <3>1. l.epoch <= q + 1
      BY <1>1
    <3> HIDE DEF q
    <3> QED
      BY <1>1, <1>4, <3>1, Minimum, TriggerStep
  <2>2. Progress(v, l, b) = CheckKeyGenTimeouts(v, t, b)
    BY <1>4 DEF Progress, ProgressThrows, CheckEpochRollover
  <2> HIDE DEF t
  <2>3. Handled(v, t, CheckKeyGenTimeouts(v, t, b))
    BY <1>1, <2>1, TimeoutStep
  <2> HIDE DEF q
  <2> QED
    BY <1>1, <1>2, <2>1, <2>2, <2>3 DEF Progressed, Handled, Keeps
<1>5. CASE ~(l.epoch <= q)
  <2>1. l.epoch = q + 1
    BY <1>1, <1>5
  <2>2. Handled(v, l, CheckKeyGenTimeouts(v, l, b))
    BY <1>1, TimeoutStep
  <2>3. Progress(v, l, b) = l \/ Progress(v, l, b) = CheckKeyGenTimeouts(v, l, b)
    BY <1>5 DEF Progress, CheckEpochRollover
  <2> HIDE DEF q
  <2> QED
    BY <1>1, <2>1, <2>2, <2>3 DEF Progressed, Handled, Keeps
<1> QED
  BY <1>3, <1>4, <1>5
-----------------------------------------------------------------------------
(* The contract.                                                           *)

\* The proofs of the contract apply to the groups of the validators.
LEMMA ContractInit == KeyGenInit => KG!KeyGenInv
<1>1. KeyGenInit => KG!KeyGenInit
  BY DEF KeyGenInit, KG!KeyGenInit
<1> QED
  BY <1>1, KG!InvInit, Parameters

LEMMA ContractStep ==
  ASSUME KG!KeyGenInv, KG!KeyGenNext \/ UNCHANGED contract
  PROVE  KG!KeyGenInv'
<1>1. KG!KeyGenInv /\ [KG!KeyGenNext]_(KG!keyGenVars) => KG!KeyGenInv'
  BY KG!InvNext, Parameters
<1> QED
  BY <1>1 DEF contract, KG!keyGenVars

\* A transaction of the validators about group g: a step of the contract that
\* all honest validators take, and that registers and confirms, if anybody,
\* the sender under its own name.
Transacts(v, g) ==
  /\ KG!KeyGenNext
  /\ \/ UNCHANGED identifiers
     \/ identifiers' = [identifiers EXCEPT ![g][v] = v]
  /\ \/ UNCHANGED confirmed
     \/ /\ v \in Honest => <<"key_gen_confirm", g, v>> \in local[v].outbox
        /\ identifiers[g][v] # 0
        /\ confirmed' = [confirmed EXCEPT ![g] = @ \cup {identifiers[g][v]}]
  /\ faults' \in 0 .. MaxFaults

\* The state l of v after the transition of an event in the block.
Advanced(v, l, k) ==
  /\ Held(v, k) /\ l.signing \subseteq k.signing
  /\ v \notin behind => Handled(v, l, k)
  /\ v \in behind =>
       /\ k.epoch <= EpochAt(block)
       /\ k.epoch = EpochAt(block) \/ Everybody(block) \in k.registered

\* All validators have then processed the block.
Advance ==
  /\ block' = block /\ behind' = {} /\ warped' = warped
  /\ local' = [u \in Honest |-> local'[u]]
  /\ \A u \in Honest : Advanced(u, local[u], local'[u])

LEMMA AdvanceStep ==
  ASSUME Inv, Advance
  PROVE  LocalInv' /\ \A u \in Honest : local[u].signing \subseteq local'[u].signing
<1>1. \A u \in Honest : Held(u, local'[u]) /\ local[u].signing \subseteq local'[u].signing
  BY DEF Advance, Advanced
<1>2. EpochAt(block)' = EpochAt(block) /\ Everybody(block)' = Everybody(block)
  BY DEF Advance, EpochAt, Everybody
<1>3. ASSUME NEW u \in Honest PROVE AtEpoch(u, local[u])'
  <2> DEFINE l == local[u]
             k == local'[u]
  <2>1. AtEpoch(u, l) /\ Advanced(u, l, k) /\ l \in Local
    BY DEF Inv, LocalInv, Advance
  <2>2. behind \subseteq warped /\ behind' = {} /\ warped' = warped
    BY DEF Inv, BlockInv, Advance
  <2>3. CASE u \in behind
    <3>1. /\ k.epoch <= EpochAt(block)
          /\ k.epoch = EpochAt(block) \/ Everybody(block) \in k.registered
      BY <2>1, <2>3 DEF Advanced
    <3>2. u \in warped'
      BY <2>2, <2>3
    <3> QED
      BY <1>2, <3>1, <3>2 DEF AtEpoch
  <2>4. CASE u \notin behind
    <3>1. /\ k.epoch = l.epoch /\ l.registered \subseteq k.registered
          /\ \A g \in k.registered \ l.registered : g.epoch = l.epoch
          /\ l.epoch \in Nat
      BY <2>1, <2>4 DEF Advanced, Handled, Keeps, Local
    <3>2. /\ k.epoch <= EpochAt(block)
          /\ k.epoch = EpochAt(block) \/ Everybody(block) \in k.registered
      BY <2>1, <2>4, <3>1 DEF AtEpoch
    <3>3. u \notin warped => k.epoch = EpochAt(block) /\ \A g \in k.registered : g.epoch <= k.epoch
      BY <2>1, <3>1 DEF AtEpoch
    <3> QED
      BY <1>2, <2>2, <3>2, <3>3 DEF AtEpoch
  <2> QED
    BY <2>3, <2>4
<1>4. local' \in [Honest -> Local]
  BY <1>1 DEF Advance, Held
<1> QED
  BY <1>1, <1>3, <1>4 DEF LocalInv, Held

LEMMA TransactionStep ==
  ASSUME Inv, NEW g \in Group, NEW v \in g.members, Transacts(v, g), Advance
  PROVE  Inv'
<1>1. KG!KeyGenInv'
  BY ContractStep DEF Inv, Transacts
<1>2. BlockInv' /\ v \in Validator
  BY GroupSize DEF Inv, BlockInv, Transacts, Advance
<1>3. KG!KeyGenTypeOK
  BY DEF Inv, KG!KeyGenInv
<1>4. /\ identifiers \in [Group -> [Validator -> Validator \cup {0}]]
      /\ confirmed \in [Group -> SUBSET Validator]
  BY <1>3 DEF KG!KeyGenTypeOK
<1>5. OwnNames'
  BY <1>2, <1>4 DEF Inv, OwnNames, Transacts
<1>6. LocalInv' /\ \A u \in Honest : local[u].signing \subseteq local'[u].signing
  BY AdvanceStep
<1>8. ConfirmedInv'
  <2> SUFFICES ASSUME NEW h \in Group, NEW u \in Honest, u \in confirmed'[h]
               PROVE  h \in local'[u].signing
    BY DEF ConfirmedInv
  <2>1. CASE u \in confirmed[h]
    BY <1>6, <2>1 DEF Inv, ConfirmedInv
  <2>2. CASE u \notin confirmed[h]
    <3>1. /\ h = g /\ u = identifiers[g][v]
          /\ v \in Honest => <<"key_gen_confirm", g, v>> \in local[v].outbox
      BY <1>4, <2>2 DEF Transacts
    <3>2. u = v
      BY <1>2, <2>2, <3>1 DEF Inv, OwnNames, Transacts
    <3> QED
      BY <1>6, <3>1, <3>2 DEF Inv, LocalInv, Held
  <2> QED
    BY <2>1, <2>2
<1> QED
  BY <1>1, <1>2, <1>5, <1>6, <1>8 DEF Inv

-----------------------------------------------------------------------------
(* The transactions.                                                       *)

\* progressToBlock in the transition of an event.
LEMMA CurrentStep ==
  ASSUME Inv, NEW u \in Honest, u \in behind, NEW l, Held(u, l),
         l.epoch = local[u].epoch
  PROVE  Held(u, Current(u, l)) /\ Progressed(l, Current(u, l), block)
<1>1. u \in Validator /\ block \in 1 .. MaxBlock /\ l.epoch <= EpochAt(block)
  BY ValidatorAssumption DEF Inv, BlockInv, LocalInv, AtEpoch
<1> QED
  BY <1>1, ProgressStep DEF Current

\* The action is taken from its queue; a handler is handed the state in which
\* the validator has processed the block.
LEMMA ReadyHeld ==
  ASSUME Inv, NEW u \in Honest, NEW v, NEW action
  PROVE  u \in Validator /\ Held(u, Ready(u, v, action))
<1>1. Handled(u, local[u], Sent(u, v, action)) /\ u \in Validator
  BY SentStep, ValidatorAssumption DEF Inv, LocalInv
<1>2. CASE u \in behind
  BY <1>1, <1>2, CurrentStep DEF Ready, Handled
<1>3. CASE u \notin behind
  BY <1>1, <1>3 DEF Ready, Current, Handled
<1> QED
  BY <1>1, <1>2, <1>3

LEMMA DeliveredStep ==
  ASSUME Inv, NEW v, NEW action, NEW handled, Delivered(v, action, handled),
         \A u \in Honest : Handled(u, Ready(u, v, action), handled[u])
  PROVE  Advance
<1> DEFINE s(u) == Sent(u, v, action)
<1>1. \A u \in Honest : Handled(u, local[u], s(u))
  BY SentStep DEF Inv, LocalInv
<1>2. /\ block' = block /\ behind' = {} /\ warped' = warped
      /\ local' = [u \in Honest |-> IF Misses(u) THEN s(u) ELSE handled[u]]
  BY DEF Delivered
<1> HIDE DEF s
<1>3. ASSUME NEW u \in Honest PROVE Advanced(u, local[u], local'[u])
  <2>1. CASE u \notin behind
    <3>1. local'[u] = handled[u] /\ Ready(u, v, action) = s(u)
      BY <1>2, <2>1 DEF Misses, Ready, Current, s
    <3>2. Handled(u, local[u], handled[u])
      BY <1>1, <3>1, HandledTwice
    <3> QED
      BY <2>1, <3>1, <3>2 DEF Advanced, Handled, Keeps
  <2>2. CASE u \in behind /\ Misses(u)
    <3>1. Progress(u, local[u], block) = local[u] /\ Current(u, local[u]) = local[u]
      BY <2>2 DEF Misses, Progress, Current
    <3>2. Progressed(local[u], local[u], block)
      BY <2>2, <3>1, CurrentStep DEF Inv, LocalInv
    <3>3. local'[u] = s(u) /\ Handled(u, local[u], s(u)) /\ AtEpoch(u, local[u])
      BY <1>1, <1>2, <2>2 DEF Inv, LocalInv
    <3> QED
      BY <2>2, <3>2, <3>3 DEF Advanced, Handled, Keeps, Progressed, AtEpoch
  <2>3. CASE u \in behind /\ ~Misses(u)
    <3> DEFINE k == Ready(u, v, action)
               m == handled[u]
    <3>1. Handled(u, local[u], s(u)) /\ local'[u] = m /\ Handled(u, k, m)
      BY <1>1, <1>2, <2>3
    <3>2. Held(u, s(u)) /\ s(u).epoch = local[u].epoch
      BY <3>1 DEF Handled
    <3>3. Held(u, k) /\ Progressed(s(u), k, block)
      BY <2>3, <3>2, CurrentStep DEF Ready, s
    <3> HIDE DEF k, m
    <3> QED
      BY <2>3, <3>1, <3>2, <3>3 DEF Advanced, Handled, Keeps, Progressed, AtEpoch
  <2> QED
    BY <2>1, <2>2, <2>3
<1> QED
  BY <1>2, <1>3 DEF Advance

LEMMA DisturbsBounded ==
  ASSUME Inv, NEW v, NEW g, NEW wrong, Disturbs(v, g, wrong)
  PROVE  faults' \in 0 .. MaxFaults
BY ValidatorAssumption DEF Disturbs, Inv, BlockInv

LEMMA CommitStep ==
  ASSUME Inv, NEW g \in Group, NEW v \in g.members, NEW valid \in BOOLEAN,
         Commit(v, g, valid)
  PROVE  Inv'
<1> DEFINE action == <<"key_gen_start", g, v>>
           H(u) == HandleCommitted(u, Ready(u, v, action), g, v, valid,
                                   status'[g] = "SHARING")
<1>1. v \in Validator
  BY GroupSize
<1>2. KG!KeyGenAndCommit(g, v, v) /\ Disturbs(v, g, ~valid)
  BY DEF Commit, KeyGenAndCommit, KG!KeyGenAndCommit, KeyGenCommit, KG!KeyGenCommit,
         Register, KG!Register, PhaseStep, KG!PhaseStep,
         ValidParameters, KG!ValidParameters
<1>3. Transacts(v, g)
  BY <1>1, <1>2, DisturbsBounded
     DEF Commit, Transacts, KG!KeyGenNext, KG!KeyGenAndCommit, KG!KeyGenCommit,
         KG!Register
<1>4. Delivered(v, action, [u \in Honest |-> H(u)])
  BY DEF Commit
<1>5. \A u \in Honest : Handled(u, Ready(u, v, action), H(u))
  BY <1>1, ReadyHeld, CommittedStep DEF Inv
<1> HIDE DEF H, action
<1>6. Advance
  BY <1>4, <1>5, DeliveredStep
<1> QED
  BY <1>3, <1>6, TransactionStep
LEMMA SecretShareStep ==
  ASSUME Inv, NEW g \in Group, NEW v \in g.members,
         NEW bad \in SUBSET (Honest \cap g.members), SecretShare(v, g, bad)
  PROVE  Inv'
<1> DEFINE action == <<"key_gen_publish_secret_shares", g, v>>
           H(u) == HandleSecretShared(u, Ready(u, v, action), g, v, u \notin bad,
                                      status'[g] = "CONFIRMING")
<1>1. v \in Validator
  BY GroupSize
<1>2. KG!KeyGenSecretShare(g, v) /\ Disturbs(v, g, bad # {})
  BY DEF SecretShare, KeyGenSecretShare, KG!KeyGenSecretShare, SetKey, KG!SetKey,
         PhaseStep, KG!PhaseStep
<1>3. Transacts(v, g)
  BY <1>1, <1>2, DisturbsBounded
     DEF SecretShare, Transacts, KG!KeyGenNext, KG!KeyGenSecretShare
<1>4. Delivered(v, action, [u \in Honest |-> H(u)])
  BY DEF SecretShare
<1>5. \A u \in Honest : Handled(u, Ready(u, v, action), H(u))
  BY <1>1, ReadyHeld, SharedStep DEF Inv
<1> HIDE DEF H, action
<1>6. Advance
  BY <1>4, <1>5, DeliveredStep
<1> QED
  BY <1>3, <1>6, TransactionStep

LEMMA SubmitComplaintStep ==
  ASSUME Inv, NEW g \in Group, NEW v \in g.members, NEW accused \in g.members,
         SubmitComplaint(v, g, accused)
  PROVE  Inv'
<1> DEFINE action == <<"key_gen_complain", g, accused>>
           H(u) == HandleComplaintSubmitted(u, Ready(u, v, action), g, v, accused)
<1>1. v \in Validator /\ accused \in Validator
  BY GroupSize
<1>2. KG!KeyGenComplain(g, v, accused) /\ Disturbs(v, g, v \notin Honest)
  BY DEF SubmitComplaint, KeyGenComplain, KG!KeyGenComplain, Complain, KG!Complain,
         InDispute, KG!InDispute
<1>3. Transacts(v, g)
  BY <1>1, <1>2, DisturbsBounded
     DEF SubmitComplaint, Transacts, KG!KeyGenNext, KG!KeyGenComplain
<1>4. Delivered(v, action, [u \in Honest |-> H(u)])
  BY DEF SubmitComplaint
<1>5. \A u \in Honest : Handled(u, Ready(u, v, action), H(u))
  BY <1>1, ReadyHeld, ComplaintStep DEF Inv
<1> HIDE DEF H, action
<1>6. Advance
  BY <1>4, <1>5, DeliveredStep
<1> QED
  BY <1>3, <1>6, TransactionStep

LEMMA RespondToComplaintStep ==
  ASSUME Inv, NEW g \in Group, NEW v \in g.members, NEW plaintiff \in g.members,
         NEW valid \in BOOLEAN, RespondToComplaint(v, g, plaintiff, valid)
  PROVE  Inv'
<1> DEFINE action == <<"key_gen_complaint_response", g, plaintiff>>
           H(u) == HandleComplaintResponded(u, Ready(u, v, action), g, plaintiff, v,
                                            valid)
<1>1. v \in Validator /\ plaintiff \in Validator
  BY GroupSize
<1>2. KG!KeyGenComplaintResponse(g, v, plaintiff) /\ Disturbs(v, g, ~valid)
  BY DEF RespondToComplaint, KeyGenComplaintResponse, KG!KeyGenComplaintResponse,
         Respond, KG!Respond, InDispute, KG!InDispute
<1>3. Transacts(v, g)
  BY <1>1, <1>2, DisturbsBounded
     DEF RespondToComplaint, Transacts, KG!KeyGenNext, KG!KeyGenComplaintResponse
<1>4. Delivered(v, action, [u \in Honest |-> H(u)])
  BY DEF RespondToComplaint
<1>5. \A u \in Honest : Handled(u, Ready(u, v, action), H(u))
  BY <1>1, ReadyHeld, RespondedStep DEF Inv
<1> HIDE DEF H, action
<1>6. Advance
  BY <1>4, <1>5, DeliveredStep
<1> QED
  BY <1>3, <1>6, TransactionStep

LEMMA ConfirmKeyGenStep ==
  ASSUME Inv, NEW g \in Group, NEW v \in g.members, ConfirmKeyGen(v, g)
  PROVE  Inv'
<1> DEFINE action == <<"key_gen_confirm", g, v>>
           H(u) == HandleConfirmed(u, Ready(u, v, action), g, v)
<1>1. v \in Validator
  BY GroupSize
<1>2. KG!KeyGenConfirm(g, v) /\ Disturbs(v, g, FALSE)
  BY DEF ConfirmKeyGen, KeyGenConfirm, KG!KeyGenConfirm, Confirm, KG!Confirm,
         PhaseStep, KG!PhaseStep
<1>3. Transacts(v, g)
  BY <1>1, <1>2, DisturbsBounded
     DEF ConfirmKeyGen, MaySend, Transacts, KG!KeyGenNext, KG!KeyGenConfirm, KG!Confirm
<1>4. Delivered(v, action, [u \in Honest |-> H(u)])
  BY DEF ConfirmKeyGen
<1>5. \A u \in Honest : Handled(u, Ready(u, v, action), H(u))
  BY <1>1, ReadyHeld, ConfirmedStep
<1> HIDE DEF H, action
<1>6. Advance
  BY <1>4, <1>5, DeliveredStep
<1> QED
  BY <1>3, <1>6, TransactionStep

LEMMA OtherEventStep ==
  ASSUME Inv, NEW failing \in SUBSET behind, OtherEvent(failing)
  PROVE  Inv'
<1>1. /\ local' = [u \in Honest |-> IF u \in failing THEN Dropped(u)
                                    ELSE Current(u, local[u])]
      /\ block' = block /\ behind' = {} /\ warped' = warped /\ faults' = faults
      /\ UNCHANGED contract
  BY DEF OtherEvent
<1>2. ASSUME NEW u \in Honest PROVE Advanced(u, local[u], local'[u])
  <2> DEFINE l == local[u]
             k == Current(u, l)
             d == Dropped(u)
  <2>1. Held(u, l) /\ AtEpoch(u, l) /\ l \in Local
    BY DEF Inv, LocalInv
  <2>2. CASE u \notin behind
    <3>1. local'[u] = l
      BY <1>1, <2>2 DEF Current
    <3> QED
      BY <2>1, <2>2, <3>1 DEF Advanced, Handled, Keeps
  <2>3. CASE u \in behind
    <3>1. Held(u, k) /\ Progressed(l, k, block)
      BY <2>1, <2>3, CurrentStep
    <3>2. local'[u] = k \/ local'[u] = d
      BY <1>1
    <3>3. d = [l EXCEPT !.registered = k.registered]
      BY DEF Dropped
    <3> HIDE DEF k, d
    <3>4. k.registered \in SUBSET Group
      BY <3>1 DEF Held, Local
    <3>5. d \in Local /\ d.epoch = l.epoch /\ d.signing = l.signing
          /\ d.registered = k.registered /\ d.outbox = l.outbox /\ d.id = l.id
      BY <2>1, <3>3, <3>4 DEF Local
    <3> HIDE DEF l
    <3>6. Held(u, d)
      BY <2>1, <3>5 DEF Held
    <3> QED
      BY <2>1, <2>3, <3>1, <3>2, <3>5, <3>6 DEF Advanced, Progressed, Keeps, AtEpoch, l
  <2> QED
    BY <2>2, <2>3
<1>3. Advance
  BY <1>1, <1>2 DEF Advance
<1>4. LocalInv' /\ \A u \in Honest : local[u].signing \subseteq local'[u].signing
  BY <1>3, AdvanceStep
<1>5. KG!KeyGenInv'
  BY <1>1, ContractStep DEF Inv
<1>6. BlockInv' /\ OwnNames'
  BY <1>1 DEF Inv, BlockInv, OwnNames, contract
<1>7. ConfirmedInv'
  BY <1>1, <1>4 DEF Inv, ConfirmedInv, contract
<1> QED
  BY <1>4, <1>5, <1>6, <1>7 DEF Inv

LEMMA NewBlockStep ==
  ASSUME Inv, NEW warping \in SUBSET Honest, NewBlock(warping)
  PROVE  Inv'
<1> DEFINE b == block + 1
           P(v) == Progress(v, local[v], b)
<1>0. /\ block' = b /\ behind' = warping /\ warped' = warped \cup warping
      /\ local' = [v \in Honest |-> IF v \in warping THEN local[v] ELSE P(v)]
      /\ UNCHANGED contract
  BY DEF NewBlock
<1>1. /\ b \in 1 .. MaxBlock /\ EpochAt(block) <= EpochAt(b)
      /\ EpochAt(block) \in Nat /\ EpochAt(b) \in Nat
  <2>1. block \in Nat /\ b \in 1 .. MaxBlock /\ b \in Nat /\ block <= b
    BY ValidatorAssumption DEF NewBlock, Inv, BlockInv
  <2> HIDE DEF b
  <2>2. /\ block \div BlocksPerEpoch \in Nat /\ b \div BlocksPerEpoch \in Nat
        /\ block \div BlocksPerEpoch <= b \div BlocksPerEpoch
    BY <2>1, DivisionStep
  <2> QED
    BY <2>1, <2>2 DEF EpochAt
<1>2. ASSUME NEW v \in Honest
      PROVE  /\ local[v] \in Local /\ Held(v, local[v]) /\ AtEpoch(v, local[v])
             /\ local[v].epoch \in Nat /\ local[v].epoch <= EpochAt(b)
             /\ Held(v, P(v)) /\ Progressed(local[v], P(v), b)
  <2>1. /\ v \in Validator
        /\ local[v] \in Local /\ Held(v, local[v]) /\ AtEpoch(v, local[v])
    BY ValidatorAssumption DEF Inv, LocalInv
  <2>2. local[v].epoch \in Nat /\ local[v].epoch <= EpochAt(b)
    BY <1>1, <2>1 DEF AtEpoch, Local
  <2> QED
    BY <1>1, <2>1, <2>2, ProgressStep
<1> HIDE DEF P, b
<1>3. KG!KeyGenInv'
  BY <1>0, ContractStep DEF Inv
<1>4. BlockInv'
  BY <1>0, <1>1, ValidatorAssumption DEF NewBlock, Inv, BlockInv
<1>5. OwnNames'
  BY <1>0 DEF Inv, OwnNames, contract
<1>6. LocalInv'
  <2>1. EpochAt(block)' = EpochAt(b) /\ Everybody(block)' = Everybody(b)
    BY <1>0 DEF EpochAt, Everybody
  <2>2. ASSUME NEW v \in Honest PROVE Held(v, local'[v]) /\ AtEpoch(v, local[v])'
    <3> DEFINE l == local[v]
    <3>1. CASE v \in warping
      <4>1. local'[v] = l /\ v \in behind' /\ v \in warped'
        BY <1>0, <3>1
      <4> QED
        BY <1>2, <2>1, <4>1 DEF AtEpoch
    <3>2. CASE v \notin warping
      <4> DEFINE k == P(v)
      <4>1. /\ local'[v] = k /\ v \notin behind' /\ (v \in warped' <=> v \in warped)
        BY <1>0, <3>2
      <4>2. Held(v, k) /\ Progressed(l, k, b) /\ AtEpoch(v, l) /\ l \in Local
        BY <1>2
      <4>3. k.epoch <= EpochAt(b) /\ (k.epoch = EpochAt(b) \/ Everybody(b) \in k.registered)
        BY <1>2, <4>2 DEF Progressed
      <4> HIDE DEF k
      <4>4. ASSUME v \notin warped
            PROVE  k.epoch = EpochAt(b) /\ \A g \in k.registered : g.epoch <= k.epoch
        <5>1. l.epoch = EpochAt(block) /\ \A g \in l.registered : g.epoch <= l.epoch
          BY <4>2, <4>4 DEF AtEpoch
        <5>2. k.epoch = EpochAt(b)
          <6> SUFFICES ASSUME k.epoch # EpochAt(b) PROVE FALSE
            OBVIOUS
          <6>1. k = l /\ Everybody(b) \in l.registered /\ l.epoch # EpochAt(b)
            BY <4>2 DEF Progressed
          <6>2. EpochAt(b) <= l.epoch
            BY <5>1, <6>1 DEF Everybody
          <6> QED
            BY <1>1, <1>2, <6>1, <6>2
        <5>3. \A g \in k.registered : g \in l.registered \/ g.epoch = EpochAt(b)
          BY <4>2 DEF Progressed, Keeps
        <5>4. \A g \in l.registered : g.epoch \in Nat
          BY <4>2 DEF Local, Group
        <5> QED
          BY <1>1, <5>1, <5>2, <5>3, <5>4
      <4> QED
        BY <2>1, <4>1, <4>2, <4>3, <4>4 DEF AtEpoch
    <3> QED
      BY <3>1, <3>2
  <2>3. local' \in [Honest -> Local]
    BY <1>0, <2>2 DEF Held
  <2> QED
    BY <2>2, <2>3 DEF LocalInv, Held
<1>7. ConfirmedInv'
  BY <1>0, <1>2 DEF Inv, ConfirmedInv, contract, Progressed, Keeps
<1> QED
  BY <1>3, <1>4, <1>5, <1>6, <1>7 DEF Inv

LEMMA InvInit == Init => Inv
<1> SUFFICES ASSUME Init PROVE Inv
  OBVIOUS
<1>1. BlockInv
  BY ValidatorAssumption DEF Init, BlockInv
<1>2. KG!KeyGenInv
  BY ContractInit DEF Init
<1>3. OwnNames /\ ConfirmedInv
  BY DEF Init, KeyGenInit, OwnNames, ConfirmedInv
<1>4. LocalInv
  <2>1. \A v \in Honest : local[v] \in Local
    BY DEF Init, Local, RolloverId, NoComplaints
  <2>2. ASSUME NEW v \in Honest PROVE Held(v, local[v]) /\ AtEpoch(v, local[v])
    <3>1. /\ local[v].id = "epoch_staged" /\ local[v].epoch = 0 /\ block = 0
          /\ local[v].registered = {} /\ local[v].outbox = {}
      BY DEF Init
    <3> QED
      BY <2>1, <3>1, Epochs DEF Held, EpochAt, AtEpoch
  <2> QED
    BY <2>1, <2>2 DEF Init, LocalInv
<1> QED
  BY <1>1, <1>2, <1>3, <1>4 DEF Inv

LEMMA InvNext == Inv /\ [Next]_vars => Inv'
<1> SUFFICES ASSUME Inv, [Next]_vars PROVE Inv'
  OBVIOUS
<1>1. CASE UNCHANGED vars
  <2>1. KG!KeyGenInv'
    BY <1>1, ContractStep DEF vars, Inv
  <2> QED
    BY <1>1, <2>1 DEF vars, contract, Inv, BlockInv, OwnNames, LocalInv, ConfirmedInv,
                      AtEpoch, EpochAt, Everybody
<1> QED
  BY <1>1, NewBlockStep, OtherEventStep, CommitStep, SecretShareStep,
     SubmitComplaintStep, RespondToComplaintStep, ConfirmKeyGenStep DEF Next

-----------------------------------------------------------------------------
(* The properties.                                                         *)

\* Whatever the faulty validators send, however late the honest ones are: the
\* states of the validators fit their contract.
THEOREM ValidatorsInvariance == Spec => []Inv
BY InvInit, InvNext, PTL DEF Spec

\* The variables keep their types; in particular no validator counts a response
\* to more complaints than it has taken, or registers a group of an epoch that
\* the chain does not reach.
THEOREM ValidatorsTypeCorrect == Spec => []TypeOK
<1>1. Inv => TypeOK
  BY DEF Inv, BlockInv, LocalInv, KG!KeyGenInv, KG!KeyGenTypeOK, KG!GroupStatus,
         KG!ComplaintStatus, TypeOK, KeyGenTypeOK, GroupStatus, ComplaintStatus
<1> QED
  BY <1>1, ValidatorsInvariance, PTL

\* Every validator that has processed the block is at the key generation of the
\* epoch after the current one, whatever became of earlier attempts.  Only one
\* that was behind can miss it, and has then registered the group it was to set
\* up: its rollover was dropped.
THEOREM EpochsAreTried == Spec => []EveryEpochIsTried
<1>1. ASSUME Inv PROVE EveryEpochIsTried
  <2> SUFFICES ASSUME block > 0, NEW v \in Honest \ behind
               PROVE  \/ local[v].epoch = block \div BlocksPerEpoch + 1
                      \/ /\ v \in warped
                         /\ [epoch |-> block \div BlocksPerEpoch + 1,
                             members |-> Validator] \in local[v].registered
    BY DEF EveryEpochIsTried
  <2>1. EpochAt(block) = block \div BlocksPerEpoch + 1 /\ AtEpoch(v, local[v])
    BY <1>1 DEF Inv, BlockInv, LocalInv, EpochAt
  <2> QED
    BY <2>1 DEF AtEpoch, Everybody
<1> QED
  BY <1>1, ValidatorsInvariance, PTL

\* In a finalized group all members have confirmed, under their own names.
LEMMA FinalizedMembers ==
  ASSUME Inv, NEW g \in Group, status[g] = "FINALIZED"
  PROVE  confirmed[g] = g.members
<1>1. /\ KG!KeyGenTypeOK /\ KG!MapInv(g) /\ KG!PhaseInv(g)
  BY DEF Inv, KG!KeyGenInv, KG!GroupInv
<1> DEFINE R == KG!Registered(g)
<1>2. R \subseteq g.members /\ KG!IdsOf(g) = R
  BY GroupSize DEF Inv, OwnNames, KG!Registered, KG!IdsOf
<1>3. /\ confirmed[g] \subseteq R
      /\ KG!Cardinality(confirmed[g]) = Cardinality(g.members)
  BY <1>1, <1>2 DEF KG!MapInv, KG!PhaseInv
<1>4. \A S : KG!Cardinality(S) = Cardinality(S)
  BY DEF KG!Cardinality, Cardinality
<1>5. confirmed[g] \subseteq g.members
  BY <1>2, <1>3
<1> QED
  BY <1>3, <1>4, <1>5, GroupSize, FS_Subset

\* Every honest member of a finalized group holds its signing share.
THEOREM FinalizedGroupsCanSign == Spec => []FinalizedGroupCanSign
<1>1. Inv => FinalizedGroupCanSign
  BY FinalizedMembers DEF Inv, ConfirmedInv, FinalizedGroupCanSign
<1> QED
  BY <1>1, ValidatorsInvariance, PTL

(***************************************************************************)
(* Whom the validators leave out when they restart key generation, for any *)
(* number of validators, any of them faulty in any way: RemovedForCause.   *)
(* As long as no complaint is answered, two honest validators that are     *)
(* told of every block and set up the same group enter it in the same step *)
(* and leave it together, unless one is left out by the other; so what one *)
(* of them commits is stored by the other.                                 *)
(***************************************************************************)

\* The honest validators that were told of every block.
Sound == Honest \ warped

Collecting == {"collecting_commitments", "collecting_shares",
               "collecting_confirmations"}

\* The state l is one of the key generation for group g.
At(l, g) == l.id \in Collecting /\ GroupOf(l) = g

\* No complaint was answered in an attempt with more members than g.
Clean(g) == \A h \in Larger(g) : ~Answered(h)

Committed(g) == {a \in Validator : identifiers[g][a] # 0}

\* The groups validator v has registered are its own, and those of the epoch
\* have all the members of the current one.
Attempts(v, l) ==
  /\ \A g \in l.registered : v \in g.members
  /\ l.id \in Collecting =>
       /\ GroupOf(l) \in l.registered
       /\ \A h \in l.registered : h.epoch = l.epoch => l.members \subseteq h.members

\* It commits to groups it has registered.
CommitsToOwn(v, l) ==
  \A g \in Group : identifiers[g][v] # 0 \/ <<"key_gen_start", g, v>> \in l.outbox
                   => g \in l.registered

\* Somebody complained about the member a of g.
Accused(g, a) == a \in g.members /\ \E p \in g.members : statuses[g][<<p, a>>] # "NONE"

\* What a validator has stored and what the contract has.
Stored(l) ==
  LET g == GroupOf(l) IN
  /\ l.id = "collecting_commitments" =>
       /\ l.commitments \subseteq Committed(g)
       /\ l.shares = {} /\ l.missing = {} /\ l.complaints = NoComplaints
       /\ l.confirmations = {}
  /\ l.id \in Collecting \ {"collecting_commitments"} => g.members \subseteq Committed(g)
  /\ l.id = "collecting_shares" =>
       /\ l.shares \cup l.missing \subseteq keys[g]
       /\ Honest \cap keys[g] \subseteq l.shares
       /\ ~(g.members \subseteq keys[g])
       /\ l.confirmations = {}
  /\ l.id = "collecting_confirmations" => confirmed[g] \subseteq l.confirmations
  /\ l.id \in Collecting => \A a \in Validator :
       l.complaints[a].total > 0 \/ l.complaints[a].unresponded > 0 => Accused(g, a)

AtMost(c, d) == c.total <= d.total /\ c.unresponded <= d.unresponded

\* The states l of u and m of v are about the same attempt at the same point.
\* A validator may count fewer of the complaints against itself.
Same(u, v, l, m) ==
  /\ m.id = l.id /\ GroupOf(m) = GroupOf(l) /\ m.since = l.since
  /\ m.id = "collecting_commitments" => m.commitments = l.commitments
  /\ m.confirmations = l.confirmations
  /\ \A a \in Validator \ {u, v} : m.complaints[a] = l.complaints[a]
  /\ AtMost(l.complaints[u], m.complaints[u])
  /\ AtMost(m.complaints[v], l.complaints[v])

\* The state m has left g and the attempts that follow are without u.
Left(u, m, g) ==
  /\ ~At(m, g)
  /\ \A h \in m.registered :
       h.epoch = g.epoch /\ h.members \subseteq g.members /\ h # g => u \notin h.members

Together(u, v, g) ==
  At(local[u], g) /\ g \in local[v].registered /\ Clean(g) /\ ~Answered(g)
  => Same(u, v, local[u], local[v]) \/ Left(u, local[v], g)

\* What honest members have committed is stored.
Known(u, v, g) ==
  /\ local[u].id = "collecting_commitments" /\ GroupOf(local[u]) = g
  /\ Clean(g) /\ v \in g.members /\ identifiers[g][v] # 0
  => v \in local[u].commitments

OwnInv == \A v \in Sound : /\ Attempts(v, local[v])
                           /\ CommitsToOwn(v, local[v])
                           /\ Stored(local[v])
TogetherInv == \A u, v \in Sound, g \in Group : Together(u, v, g)
KnownInv == \A u, v \in Sound, g \in Group : Known(u, v, g)

RemovalInv == Inv /\ OwnInv /\ TogetherInv /\ KnownInv

\* No group of a later epoch is registered.
NoLater(l) == \A h \in l.registered : h.epoch <= l.epoch

LEMMA SoundOne ==
  ASSUME Inv, NEW v \in Sound
  PROVE  /\ v \in Honest /\ v \in Validator /\ v \notin behind /\ v \notin warped
         /\ Held(v, local[v]) /\ local[v] \in Local
         /\ local[v].epoch = EpochAt(block) /\ NoLater(local[v])
<1>1. v \in Honest /\ v \in Validator /\ v \notin warped
  BY ValidatorAssumption DEF Sound
<1>2. v \notin behind
  BY <1>1 DEF Inv, BlockInv
<1>3. Held(v, local[v]) /\ AtEpoch(v, local[v]) /\ local[v] \in Local
  BY <1>1 DEF Inv, LocalInv
<1> QED
  BY <1>1, <1>2, <1>3 DEF AtEpoch, NoLater

\* Those that were told of every block are handed each event in its step.
LEMMA SoundHandled ==
  ASSUME Inv, NEW v, NEW action, NEW handled, Delivered(v, action, handled),
         NEW u \in Sound
  PROVE  local'[u] = handled[u] /\ Ready(u, v, action) = Sent(u, v, action)
<1>1. u \in Honest /\ u \notin behind
  BY SoundOne
<1> QED
  BY <1>1 DEF Delivered, Misses, Ready, Current

\* Being told of every block ends with the first that is missed.
LEMMA SoundShrinks ==
  ASSUME warped \subseteq warped'
  PROVE  Sound' \subseteq Sound
BY DEF Sound

LEMMA SoundSame ==
  ASSUME NEW v, NEW action, NEW handled, Delivered(v, action, handled)
  PROVE  Sound' = Sound
BY DEF Sound, Delivered

-----------------------------------------------------------------------------
(* The steps of a validator from state l to state k.                       *)

\* No commitment is queued.
NoStart(v, l, k) ==
  \A g \in Group : <<"key_gen_start", g, v>> \in k.outbox
                   => <<"key_gen_start", g, v>> \in l.outbox

SameGroup(l, k) ==
  k.epoch = l.epoch /\ k.members = l.members /\ k.registered = l.registered

Alike(l, k) ==
  /\ SameGroup(l, k)
  /\ k.id = l.id /\ k.since = l.since /\ k.commitments = l.commitments
  /\ k.shares = l.shares /\ k.missing = l.missing
  /\ k.complaints = l.complaints /\ k.confirmations = l.confirmations

\* The attempt g is started at block b.
Entered(v, l, k, g, b) ==
  /\ v \in g.members /\ g \notin l.registered
  /\ k.id = "collecting_commitments" /\ GroupOf(k) = g /\ k.since = b
  /\ k.commitments = {} /\ k.shares = {} /\ k.missing = {}
  /\ k.complaints = NoComplaints /\ k.confirmations = {}
  /\ k.registered = l.registered \cup {g}
  /\ k.outbox \subseteq l.outbox \cup {<<"key_gen_start", g, v>>}

Skipped(l, k) ==
  k.id = "epoch_skipped" /\ k.registered = l.registered /\ k.outbox \subseteq l.outbox

\* The outcomes of triggerKeyGen.
Triggered(v, l, k, epoch, members, b) ==
  LET g == [epoch |-> epoch, members |-> members]
  IN  \/ Cardinality(members) < MinimumParticipants /\ Skipped(l, k)
      \/ /\ Cardinality(members) >= MinimumParticipants
         /\ g \in Group
         /\ Entered(v, l, k, g, b) \/ (~MayRegister(v, l, g) /\ k = l)

LEMMA TriggerCases ==
  ASSUME NEW v \in Validator, NEW l \in Local, NEW epoch \in 1 .. LastEpoch,
         NEW members \in SUBSET Validator, NEW b \in Nat
  PROVE  Triggered(v, l, Trigger(v, l, epoch, members, b), epoch, members, b)
<1> DEFINE g == [epoch |-> epoch, members |-> members]
           fresh == [l EXCEPT !.epoch = epoch, !.members = {}, !.since = 0,
                         !.complaints = NoComplaints, !.missing = {},
                         !.confirmations = {}, !.commitments = {},
                         !.shares = {}]
           skipped == [fresh EXCEPT !.id = "epoch_skipped"]
           started == [fresh EXCEPT !.id = "collecting_commitments",
                         !.members = members, !.since = b,
                         !.registered = @ \cup {g},
                         !.outbox = @ \cup {<<"key_gen_start", g, v>>}]
           k == Trigger(v, l, epoch, members, b)
<1>1. Cardinality(members) \in Nat
  BY ValidatorAssumption, FS_Subset, FS_CardinalityType
<1>2. Skipped(l, skipped)
  BY DEF Skipped, Local
<1>3. ASSUME Cardinality(members) >= MinimumParticipants
      PROVE  g \in Group
  BY <1>3, Epochs DEF Group, LastEpoch
<1>4. ASSUME MayRegister(v, l, g) PROVE Entered(v, l, started, g, b)
  <2>1. /\ started.id = "collecting_commitments" /\ started.since = b
        /\ started.epoch = epoch /\ started.members = members
        /\ started.commitments = {} /\ started.shares = {} /\ started.missing = {}
        /\ started.complaints = NoComplaints /\ started.confirmations = {}
        /\ started.registered = l.registered \cup {g}
        /\ started.outbox = l.outbox \cup {<<"key_gen_start", g, v>>}
    BY DEF Local
  <2>2. GroupOf(started) = g
    BY <2>1 DEF GroupOf
  <2> HIDE DEF started
  <2> QED
    BY <1>4, <2>1, <2>2 DEF Entered, MayRegister
<1>5. k = IF Cardinality(members) < MinimumParticipants THEN skipped
          ELSE IF ~MayRegister(v, l, g) THEN l ELSE started
  BY DEF Trigger
<1>6. Cardinality(members) < MinimumParticipants \/ Cardinality(members) >= MinimumParticipants
  BY <1>1, Minimum
<1> SUFFICES Triggered(v, l, k, epoch, members, b)
  OBVIOUS
<1> HIDE DEF k, skipped, started
<1>7. CASE Cardinality(members) < MinimumParticipants
  BY <1>2, <1>5, <1>7 DEF Triggered
<1>8. CASE Cardinality(members) >= MinimumParticipants
  <2>1. ~(Cardinality(members) < MinimumParticipants)
    BY <1>1, <1>8, Minimum
  <2>2. k = IF ~MayRegister(v, l, g) THEN l ELSE started
    BY <1>5, <2>1
  <2>3. g \in Group
    BY <1>3, <1>8
  <2> QED
    BY <1>4, <1>8, <2>2, <2>3 DEF Triggered
<1> QED
  BY <1>6, <1>7, <1>8

\* What a validator may do in a step: go on in its group, give the epoch up,
\* restart with some of the members, those that committed if it was collecting
\* commitments, or begin the next epoch.
Kept(v, l, k) ==
  /\ SameGroup(l, k) /\ NoStart(v, l, k)
  /\ k.id \in Collecting => l.id \in Collecting
  /\ k.id = "collecting_commitments" =>
       l.id = "collecting_commitments" /\ l.commitments \subseteq k.commitments

Restarted(v, l, k, g, b) ==
  /\ Entered(v, l, k, g, b)
  /\ l.id \in Collecting /\ GroupOf(l) \in Group
  /\ g.epoch = l.epoch /\ g.members \subseteq l.members
  /\ l.id = "collecting_commitments" => g.members \subseteq l.commitments

Rolled(v, l, k, g, b) == Entered(v, l, k, g, b) /\ l.epoch < g.epoch

Moves(v, l, k, b) ==
  \/ Kept(v, l, k)
  \/ Skipped(l, k)
  \/ \E g \in Group : Restarted(v, l, k, g, b) \/ Rolled(v, l, k, g, b)

LEMMA AlikeKept ==
  ASSUME NEW v, NEW l, NEW k, Alike(l, k), NoStart(v, l, k)
  PROVE  Kept(v, l, k)
BY DEF Alike, Kept

\* A member is sent a commitment only for a group it has registered, so the
\* groups of a validator stay nested in each other.
LEMMA AttemptsMove ==
  ASSUME NEW v, NEW l, NEW k, NEW b, Held(v, l), NoLater(l), Attempts(v, l),
         Moves(v, l, k, b)
  PROVE  Attempts(v, k)
<1>0. \A h \in l.registered : h \in Group /\ h.epoch <= l.epoch
  BY DEF Held, Local, NoLater
<1>1. CASE Kept(v, l, k)
  BY <1>1 DEF Attempts, Kept, SameGroup, GroupOf
<1>2. CASE Skipped(l, k)
  BY <1>2 DEF Attempts, Skipped, Collecting
<1>3. ASSUME NEW g \in Group, Entered(v, l, k, g, b),
             \A h \in l.registered : h.epoch = g.epoch => g.members \subseteq h.members
      PROVE  Attempts(v, k)
  <2>1. k.epoch = g.epoch /\ k.members = g.members
    BY <1>3 DEF Entered, GroupOf
  <2> QED
    BY <1>3, <2>1 DEF Attempts, Entered
<1>4. ASSUME NEW g \in Group, Restarted(v, l, k, g, b)
      PROVE  Attempts(v, k)
  BY <1>3, <1>4 DEF Restarted, Attempts
<1>5. ASSUME NEW g \in Group, Rolled(v, l, k, g, b)
      PROVE  Attempts(v, k)
  <2>1. g.epoch \in Nat /\ l.epoch \in Nat
    BY DEF Group, Held, Local
  <2>2. \A h \in l.registered : h.epoch \in Nat
    BY <1>0 DEF Group
  <2>3. \A h \in l.registered : h.epoch # g.epoch
    BY <1>0, <1>5, <2>1, <2>2 DEF Rolled
  <2> QED
    BY <1>3, <1>5, <2>3 DEF Rolled
<1> QED
  BY <1>1, <1>2, <1>4, <1>5 DEF Moves

LEMMA CommitsMove ==
  ASSUME NEW v, NEW l, NEW k, NEW b, CommitsToOwn(v, l), Moves(v, l, k, b),
         \A g \in Group : identifiers'[g][v] # 0 =>
           identifiers[g][v] # 0 \/ <<"key_gen_start", g, v>> \in l.outbox
  PROVE  \A g \in Group : identifiers'[g][v] # 0 \/ <<"key_gen_start", g, v>> \in k.outbox
                          => g \in k.registered
<1> SUFFICES ASSUME NEW g \in Group,
                    identifiers'[g][v] # 0 \/ <<"key_gen_start", g, v>> \in k.outbox
             PROVE  g \in k.registered
  OBVIOUS
<1>0. ASSUME identifiers'[g][v] # 0 PROVE g \in l.registered
  BY <1>0 DEF CommitsToOwn
<1>1. CASE Kept(v, l, k)
  BY <1>0, <1>1 DEF CommitsToOwn, Kept, SameGroup, NoStart
<1>2. CASE Skipped(l, k)
  BY <1>0, <1>2 DEF CommitsToOwn, Skipped
<1>3. ASSUME NEW h \in Group, Entered(v, l, k, h, b) PROVE g \in k.registered
  BY <1>0, <1>3 DEF CommitsToOwn, Entered
<1> QED
  BY <1>1, <1>2, <1>3 DEF Moves, Restarted, Rolled

\* A validator that has left g stays away from it: all that follows is smaller.
LEMMA LeftMove ==
  ASSUME NEW u, NEW v, NEW l, NEW k, NEW b, Held(v, l), NoLater(l), Attempts(v, l),
         Moves(v, l, k, b), NEW g \in Group, g \in l.registered, Left(u, l, g)
  PROVE  Left(u, k, g)
<1>0. /\ \A h \in l.registered : h \in Group /\ h.epoch <= l.epoch
      /\ l.epoch \in Nat
  BY DEF Held, Local, NoLater
<1>1. CASE Kept(v, l, k)
  BY <1>1 DEF Left, At, Kept, SameGroup, GroupOf
<1>2. CASE Skipped(l, k)
  BY <1>2 DEF Left, At, Skipped, Collecting
<1>3. ASSUME NEW h \in Group, Restarted(v, l, k, h, b) PROVE Left(u, k, g)
  <2>1. /\ GroupOf(k) = h /\ h \notin l.registered /\ k.registered = l.registered \cup {h}
        /\ h.epoch = l.epoch /\ h.members \subseteq l.members /\ l.id \in Collecting
        /\ GroupOf(l) \in l.registered
    BY <1>3 DEF Restarted, Entered, Attempts
  <2>2. ~At(k, g)
    BY <2>1 DEF At
  <2>3. ASSUME h.epoch = g.epoch PROVE u \notin h.members
    <3>1. GroupOf(l).members \subseteq g.members /\ GroupOf(l).epoch = g.epoch
      BY <2>1, <2>3 DEF Attempts, GroupOf
    <3>2. GroupOf(l) # g
      BY <2>1 DEF Left, At
    <3>3. u \notin GroupOf(l).members
      BY <2>1, <3>1, <3>2 DEF Left
    <3> QED
      BY <2>1, <3>3 DEF GroupOf
  <2> QED
    BY <2>1, <2>2, <2>3 DEF Left
<1>4. ASSUME NEW h \in Group, Rolled(v, l, k, h, b) PROVE Left(u, k, g)
  <2>1. /\ GroupOf(k) = h /\ h \notin l.registered /\ k.registered = l.registered \cup {h}
        /\ l.epoch < h.epoch
    BY <1>4 DEF Rolled, Entered
  <2>2. h.epoch # g.epoch
    <3>1. g.epoch \in Nat /\ h.epoch \in Nat /\ g.epoch <= l.epoch
      BY <1>0 DEF Group
    <3> QED
      BY <1>0, <2>1, <3>1
  <2> QED
    BY <2>1, <2>2 DEF Left, At
<1> QED
  BY <1>1, <1>2, <1>3, <1>4 DEF Moves

\* A validator leaves g: nothing smaller was registered before.
LEMMA Leaves ==
  ASSUME NEW u, NEW v, NEW l, NEW k, NEW b, Held(v, l), Attempts(v, l),
         NEW g \in Group, At(l, g),
         \/ Skipped(l, k)
         \/ \E h \in Group : Rolled(v, l, k, h, b)
         \/ \E h \in Group : Restarted(v, l, k, h, b) /\ u \notin h.members
  PROVE  Left(u, k, g)
<1>1. /\ g \in l.registered
      /\ \A h \in l.registered : h.epoch = g.epoch => g.members \subseteq h.members
  BY DEF Attempts, At, GroupOf
<1>2. \A h \in l.registered :
        h.epoch = g.epoch /\ h.members \subseteq g.members => h.members = g.members
  BY <1>1
<1>3. ASSUME NEW h \in l.registered, h.epoch = g.epoch, h.members \subseteq g.members
      PROVE  h = g
  <2>1. h.members = g.members
    BY <1>2, <1>3
  <2>2. h \in Group
    BY DEF Held, Local
  <2> QED
    BY <1>3, <2>1, <2>2 DEF Group
<1>4. CASE Skipped(l, k)
  BY <1>3, <1>4 DEF Left, At, Skipped, Collecting
<1>5. ASSUME NEW h \in Group, Restarted(v, l, k, h, b), u \notin h.members
      PROVE  Left(u, k, g)
  <2>1. /\ GroupOf(k) = h /\ h \notin l.registered
        /\ k.registered = l.registered \cup {h}
    BY <1>5 DEF Restarted, Entered
  <2>2. ~At(k, g)
    BY <1>1, <2>1 DEF At
  <2> QED
    BY <1>3, <1>5, <2>1, <2>2 DEF Left
<1>6. ASSUME NEW h \in Group, Rolled(v, l, k, h, b)
      PROVE  Left(u, k, g)
  <2>1. /\ GroupOf(k) = h /\ k.registered = l.registered \cup {h}
        /\ g.epoch < h.epoch
    BY <1>6 DEF Rolled, Entered, At, GroupOf
  <2>2. h # g /\ h.epoch # g.epoch
    BY <2>1 DEF Group
  <2>3. ~At(k, g)
    BY <2>1, <2>2 DEF At
  <2> QED
    BY <1>3, <2>1, <2>2, <2>3 DEF Left
<1> QED
  BY <1>4, <1>5, <1>6

-----------------------------------------------------------------------------
(* Two validators.                                                         *)

\* A complaint stays made, and answered.
StatusesGrow ==
  \A g \in Group : \A p, a \in g.members :
    /\ statuses[g][<<p, a>>] # "NONE" => statuses'[g][<<p, a>>] # "NONE"
    /\ statuses[g][<<p, a>>] = "RESPONDED" => statuses'[g][<<p, a>>] = "RESPONDED"

LEMMA AnsweredStays ==
  ASSUME StatusesGrow, NEW g \in Group
  PROVE  /\ Answered(g) => Answered(g)'
         /\ \A a : Accused(g, a) => Accused(g, a)'
         /\ Clean(g)' => Clean(g)
<1>1. \A h \in Group : Answered(h) => Answered(h)'
  BY DEF StatusesGrow, Answered
<1>2. \A a : Accused(g, a) => Accused(g, a)'
  BY DEF StatusesGrow, Accused
<1>3. \A h \in Larger(g) : h \in Group
  BY DEF Larger
<1> QED
  BY <1>1, <1>2, <1>3 DEF Clean

\* Groups with the same epoch and members are the same.
LEMMA GroupEqual ==
  ASSUME NEW g \in Group, NEW h \in Group, g.epoch = h.epoch, g.members = h.members
  PROVE  g = h
BY DEF Group

LEMMA LargerClean ==
  ASSUME NEW g \in Group, NEW h \in Group, h \in Larger(g), Clean(g)
  PROVE  Clean(h) /\ ~Answered(h)
<1>1. ASSUME NEW x \in Larger(h) PROVE x \in Larger(g)
  <2>1. /\ x \in Group /\ x.epoch = g.epoch /\ g.members \subseteq x.members
        /\ h.members \subseteq x.members /\ g.members \subseteq h.members
        /\ h.epoch = g.epoch /\ h # g
    BY <1>1 DEF Larger
  <2>2. x # g
    <3> SUFFICES ASSUME x = g PROVE FALSE
      OBVIOUS
    <3>1. h.members = g.members
      BY <2>1
    <3> QED
      BY <2>1, <3>1, GroupEqual
  <2> QED
    BY <2>1, <2>2 DEF Larger
<1> QED
  BY <1>1 DEF Clean

\* A validator enters a clean attempt before any member of it is further: the
\* members it restarts with were in the attempt it leaves, and have left it for
\* nothing it is part of.
LEMMA EntersFirst ==
  ASSUME RemovalInv, NEW u \in Sound, NEW v \in Sound, NEW g \in Group, NEW k, NEW b,
         Restarted(u, local[u], k, g, b) \/ Rolled(u, local[u], k, g, b),
         Clean(g), v \in g.members
  PROVE  g \notin local[v].registered
<1> DEFINE l == local[u]  m == local[v]  h == GroupOf(l)
<1>0. /\ Held(u, l) /\ Held(v, m) /\ l.epoch = m.epoch /\ l \in Local /\ m \in Local
      /\ NoLater(m) /\ v \in Validator
      /\ Attempts(u, l) /\ Attempts(v, m) /\ CommitsToOwn(v, m) /\ Stored(l)
  BY SoundOne DEF RemovalInv, OwnInv
<1> SUFFICES ASSUME g \in m.registered PROVE FALSE
  OBVIOUS
<1>1. CASE Rolled(u, l, k, g, b)
  <2>1. g.epoch <= m.epoch
    BY <1>0 DEF NoLater
  <2>2. g.epoch \in Nat /\ m.epoch \in Nat
    BY <1>0 DEF Group, Local
  <2> QED
    BY <1>0, <1>1, <2>1, <2>2 DEF Rolled
<1>2. CASE Restarted(u, l, k, g, b)
  <2>1. /\ h \in Group /\ l.id \in Collecting /\ u \in g.members
        /\ h.epoch = g.epoch /\ g.members \subseteq h.members
        /\ g \notin l.registered
        /\ l.id = "collecting_commitments" => g.members \subseteq l.commitments
    BY <1>2 DEF Restarted, Entered, GroupOf
  <2>2. v \in Validator /\ v \in h.members
    BY <1>0, <2>1
  <2>3. identifiers[h][v] # 0
    BY <1>0, <2>1, <2>2 DEF Stored, Committed
  <2>4. h \in m.registered
    BY <1>0, <2>1, <2>3 DEF CommitsToOwn
  <2>5. h # g
    BY <1>0, <2>1 DEF Attempts
  <2>6. h \in Larger(g)
    BY <2>1, <2>5 DEF Larger
  <2>7. Clean(h) /\ ~Answered(h)
    BY <2>1, <2>6, LargerClean
  <2>8. Same(u, v, l, m) \/ Left(u, m, h)
    <3>1. Together(u, v, h)
      BY <2>1 DEF RemovalInv, TogetherInv
    <3> QED
      BY <2>1, <2>4, <2>7, <3>1 DEF Together, At
  <2>9. CASE Same(u, v, l, m)
    <3>1. m.id \in Collecting /\ GroupOf(m) = h
      BY <2>1, <2>9 DEF Same
    <3>2. h.members \subseteq g.members
      BY <1>0, <2>1, <3>1 DEF Attempts, GroupOf
    <3>3. h.members = g.members
      BY <2>1, <3>2
    <3> HIDE DEF h
    <3> QED
      BY <2>1, <2>5, <3>3, GroupEqual
  <2>10. CASE Left(u, m, h)
    BY <2>1, <2>5, <2>10 DEF Left
  <2> QED
    BY <2>8, <2>9, <2>10
<1> QED
  BY <1>1, <1>2

\* Every validator that was told of all blocks moves, at block b, and the contract forgets nothing.
Moving(b) ==
  /\ Sound' \subseteq Sound
  /\ \A v \in Sound' : local'[v] \in Local /\ Moves(v, local[v], local'[v], b)
  /\ StatusesGrow

\* Two validators that are together in g stay so, or one is left behind.
StayTogether(b) ==
  \A u, v \in Sound', g \in Group :
    /\ u # v /\ At(local[u], g) /\ At(local'[u], g)
    /\ Kept(u, local[u], local'[u])
    /\ Same(u, v, local[u], local[v])
    /\ ~Answered(g)'
    => Same(u, v, local'[u], local'[v]) \/ Left(u, local'[v], g)

LEMMA TogetherMove ==
  ASSUME RemovalInv, NEW b, Moving(b), StayTogether(b)
  PROVE  TogetherInv'
<1> SUFFICES ASSUME NEW u \in Sound', NEW v \in Sound', NEW g \in Group,
                    At(local'[u], g), g \in local'[v].registered,
                    Clean(g)', ~Answered(g)'
             PROVE  Same(u, v, local'[u], local'[v]) \/ Left(u, local'[v], g)
  BY DEF TogetherInv, Together
<1> DEFINE l == local[u]  m == local[v]  k == local'[u]  n == local'[v]
<1>0. /\ Held(u, l) /\ Held(v, m) /\ Attempts(u, l) /\ Attempts(v, m)
      /\ NoLater(l) /\ NoLater(m)
      /\ Clean(g) /\ ~Answered(g)
      /\ Moves(u, l, k, b) /\ Moves(v, m, n, b)
      /\ u \in Sound /\ v \in Sound /\ u \in Validator /\ v \in Validator
  <2>1. u \in Sound /\ v \in Sound
    BY DEF Moving
  <2>2. Attempts(u, l) /\ Attempts(v, m) /\ Inv
    BY <2>1 DEF RemovalInv, OwnInv
  <2> QED
    BY <2>1, <2>2, AnsweredStays, SoundOne DEF Moving
<1>1. CASE u = v
  <2>1. k \in Local /\ u \in Validator
    BY <1>0 DEF Moving
  <2>2. AtMost(k.complaints[u], k.complaints[u])
    BY <2>1 DEF Local, AtMost
  <2> HIDE DEF k, n
  <2>3. k = n
    BY <1>1 DEF k, n
  <2> QED
    BY <1>1, <2>2, <2>3 DEF Same, k, n
<1>2. \/ Kept(u, l, k) /\ At(l, g)
      \/ Restarted(u, l, k, g, b) \/ Rolled(u, l, k, g, b)
  <2>1. CASE Kept(u, l, k)
    BY <2>1 DEF Kept, SameGroup, At, GroupOf
  <2>2. CASE Skipped(l, k)
    BY <2>2 DEF Skipped, At, Collecting
  <2>3. ASSUME NEW h \in Group, Restarted(u, l, k, h, b) \/ Rolled(u, l, k, h, b)
        PROVE  h = g
    BY <2>3 DEF Restarted, Rolled, Entered, At
  <2> QED
    BY <1>0, <2>1, <2>2, <2>3 DEF Moves
<1>3. \/ g \in m.registered
      \/ Restarted(v, m, n, g, b) \/ Rolled(v, m, n, g, b)
  BY <1>0 DEF Moves, Kept, SameGroup, Skipped, Restarted, Rolled, Entered
<1>4. u \in g.members /\ v \in g.members
  <2>1. Attempts(u, k) /\ Attempts(v, n)
    BY <1>0, AttemptsMove
  <2> QED
    BY <2>1 DEF Attempts, At
<1>5. CASE Kept(u, l, k) /\ At(l, g) /\ g \in m.registered
  <2>1. Same(u, v, l, m) \/ Left(u, m, g)
    BY <1>0, <1>5 DEF RemovalInv, TogetherInv, Together
  <2>2. CASE Same(u, v, l, m)
    BY <1>1, <1>5, <2>2 DEF StayTogether
  <2>3. CASE Left(u, m, g)
    BY <1>0, <1>5, <2>3, LeftMove
  <2> QED
    BY <2>1, <2>2, <2>3
<1>6. CASE /\ Kept(u, l, k) /\ At(l, g)
           /\ Restarted(v, m, n, g, b) \/ Rolled(v, m, n, g, b)
  <2>1. g \in l.registered
    BY <1>0, <1>6 DEF Attempts, At
  <2> QED
    BY <1>0, <1>4, <1>6, <2>1, EntersFirst
<1>7. CASE /\ Restarted(u, l, k, g, b) \/ Rolled(u, l, k, g, b)
           /\ g \in m.registered
  BY <1>0, <1>4, <1>7, EntersFirst
<1>8. CASE /\ Restarted(u, l, k, g, b) \/ Rolled(u, l, k, g, b)
           /\ Restarted(v, m, n, g, b) \/ Rolled(v, m, n, g, b)
  <2>1. Entered(u, l, k, g, b) /\ Entered(v, m, n, g, b)
    BY <1>8 DEF Restarted, Rolled
  <2>2. \A a \in Validator : NoComplaints[a] = [total |-> 0, unresponded |-> 0]
    BY DEF NoComplaints
  <2>3. u \in Validator /\ v \in Validator
    BY <1>0
  <2>4. AtMost(NoComplaints[u], NoComplaints[u]) /\ AtMost(NoComplaints[v], NoComplaints[v])
    BY <2>2, <2>3 DEF AtMost
  <2> QED
    BY <2>1, <2>4 DEF Entered, Same
<1> QED
  BY <1>2, <1>3, <1>5, <1>6, <1>7, <1>8

LEMMA KnownMove ==
  ASSUME RemovalInv, NEW b, Moving(b),
         \A u, v \in Sound', g \in Group :
           /\ local'[u].id = "collecting_commitments" /\ GroupOf(local'[u]) = g
           /\ identifiers'[g][v] # 0
           => \/ identifiers[g][v] # 0
              \/ Kept(u, local[u], local'[u]) /\ v \in local'[u].commitments
  PROVE  KnownInv'
<1> SUFFICES ASSUME NEW u \in Sound', NEW v \in Sound', NEW g \in Group,
                    local'[u].id = "collecting_commitments", GroupOf(local'[u]) = g,
                    Clean(g)', v \in g.members, identifiers'[g][v] # 0
             PROVE  v \in local'[u].commitments
  BY DEF KnownInv, Known
<1> DEFINE l == local[u]  k == local'[u]
<1>0. Clean(g) /\ Moves(u, l, k, b) /\ u \in Sound /\ v \in Sound
  BY AnsweredStays DEF Moving
<1>1. CASE identifiers[g][v] # 0
  <2>1. CASE Kept(u, l, k)
    <3>1. l.id = "collecting_commitments" /\ GroupOf(l) = g
          /\ l.commitments \subseteq k.commitments
      BY <2>1 DEF Kept, SameGroup, GroupOf
    <3> QED
      BY <1>0, <1>1, <3>1 DEF RemovalInv, KnownInv, Known
  <2>2. CASE Skipped(l, k)
    BY <2>2 DEF Skipped
  <2>3. ASSUME NEW h \in Group, Restarted(u, l, k, h, b) \/ Rolled(u, l, k, h, b)
        PROVE  FALSE
    <3>1. h = g
      BY <2>3 DEF Restarted, Rolled, Entered
    <3>2. g \notin local[v].registered
      BY <1>0, <2>3, <3>1, EntersFirst
    <3> QED
      BY <1>0, <1>1, <3>2 DEF RemovalInv, OwnInv, CommitsToOwn
  <2> QED
    BY <1>0, <2>1, <2>2, <2>3 DEF Moves
<1>2. CASE identifiers[g][v] = 0
  BY <1>2
<1> QED
  BY <1>1, <1>2

-----------------------------------------------------------------------------
(* The blocks.                                                             *)

\* The new state k of validator v at block b.
BlockMove(v, l, k, b) ==
  \/ Skipped(l, k)
  \/ \E g \in Group : Rolled(v, l, k, g, b)
  \/ \E g \in Group : /\ Restarted(v, l, k, g, b)
                      /\ TimedOut(l, b) /\ g.members = Remaining(l)
  \/ /\ k = l
     /\ TimedOut(l, b) => ~MayRegister(v, l, [epoch |-> l.epoch, members |-> Remaining(l)])

LEMMA RemainingMembers ==
  ASSUME NEW l \in Local
  PROVE  /\ Remaining(l) \subseteq l.members
         /\ l.id = "collecting_commitments" => Remaining(l) \subseteq l.commitments
BY DEF Remaining, MissingCommitments

LEMMA TimeoutCases ==
  ASSUME NEW v \in Validator, NEW l, Held(v, l), NEW b \in Nat,
         l.id \in Collecting => GroupOf(l) \in Group
  PROVE  BlockMove(v, l, CheckKeyGenTimeouts(v, l, b), b)
<1> DEFINE k == CheckKeyGenTimeouts(v, l, b)
           R == Remaining(l)
           g == [epoch |-> l.epoch, members |-> R]
<1>0. l \in Local /\ l.members \in SUBSET Validator
  BY DEF Held, Local
<1>1. CASE ~TimedOut(l, b)
  BY <1>1 DEF CheckKeyGenTimeouts, BlockMove
<1>2. CASE TimedOut(l, b)
  <2>1. l.id \in Collecting
    BY <1>2 DEF TimedOut, Collecting
  <2>2. l.epoch \in 1 .. LastEpoch
    BY <1>0, <2>1, Epochs DEF Held, Local, Collecting
  <2>3. R \subseteq l.members /\ (l.id = "collecting_commitments" => R \subseteq l.commitments)
    BY <1>0, RemainingMembers
  <2>4. k = Trigger(v, l, l.epoch, R, b)
    BY <1>2 DEF CheckKeyGenTimeouts
  <2> HIDE DEF k, R
  <2>5. Triggered(v, l, k, l.epoch, R, b)
    <3>1. R \in SUBSET Validator
      BY <1>0, <2>3
    <3>2. PICK e \in 1 .. LastEpoch : e = l.epoch
      BY <2>2
    <3> QED
      BY <1>0, <2>4, <3>1, <3>2, TriggerCases
  <2>6. \/ Skipped(l, k)
        \/ g \in Group /\ Entered(v, l, k, g, b)
        \/ ~MayRegister(v, l, g) /\ k = l
    BY <2>5 DEF Triggered
  <2>7. ASSUME g \in Group, Entered(v, l, k, g, b)
        PROVE  Restarted(v, l, k, g, b) /\ g.members = R
    BY <2>1, <2>3, <2>7 DEF Restarted
  <2>8. BlockMove(v, l, k, b)
    BY <1>2, <2>6, <2>7 DEF BlockMove, R
  <2> QED
    BY <2>8 DEF k
<1> QED
  BY <1>1, <1>2

LEMMA ProgressCases ==
  ASSUME BlockInv, block < MaxBlock, NEW v \in Validator, NEW l, Held(v, l),
         NoLater(l), l.id \in Collecting => GroupOf(l) \in Group
  PROVE  BlockMove(v, l, Progress(v, l, block + 1), block + 1)
<1> DEFINE b == block + 1
           q == b \div BlocksPerEpoch
           r == CheckEpochRollover(v, l, b)
           g == [epoch |-> q + 1, members |-> Validator]
           p == Progress(v, l, b)
<1>0. /\ b \in 1 .. MaxBlock /\ b \in Nat /\ q \in Nat /\ q + 1 \in 1 .. LastEpoch
      /\ l \in Local /\ l.epoch \in Nat
  <2>1. b \in 0 .. MaxBlock /\ b \in 1 .. MaxBlock /\ b \in Nat
    BY ValidatorAssumption DEF BlockInv
  <2> HIDE DEF b
  <2>2. q \in Nat /\ q + 1 \in 1 .. LastEpoch
    BY <2>1, Epochs
  <2> QED
    BY <2>1, <2>2 DEF Held, Local
<1>1. p = IF ProgressThrows(v, l, b) THEN l ELSE CheckKeyGenTimeouts(v, r, b)
  BY DEF Progress
<1>2. CASE ~(l.epoch <= q)
  <2>1. r = l
    BY <1>2 DEF CheckEpochRollover
  <2>2. BlockMove(v, l, CheckKeyGenTimeouts(v, l, b), b)
    BY <1>0, TimeoutCases
  <2>3. CASE ~ProgressThrows(v, l, b)
    BY <1>1, <2>1, <2>2, <2>3
  <2>4. CASE ProgressThrows(v, l, b)
    <3>1. TimedOut(l, b) /\ TriggerThrows(v, l, l.epoch, Remaining(l))
      BY <1>2, <2>4 DEF ProgressThrows
    <3>2. ~MayRegister(v, l, [epoch |-> l.epoch, members |-> Remaining(l)])
      BY <3>1 DEF TriggerThrows
    <3>3. p = l
      BY <1>1, <2>4
    <3> QED
      BY <3>2, <3>3 DEF BlockMove
  <2> QED
    BY <2>3, <2>4
<1>3. CASE l.epoch <= q
  <2>1. r = Trigger(v, l, q + 1, Validator, b)
    BY <1>3 DEF CheckEpochRollover
  <2>2. ProgressThrows(v, l, b) <=> TriggerThrows(v, l, q + 1, Validator)
    BY <1>3 DEF ProgressThrows
  <2> HIDE DEF p, r, q, b
  <2>3. MayRegister(v, l, g)
    <3>1. \A h \in l.registered : h.epoch <= l.epoch /\ h \in Group
      BY <1>0 DEF NoLater, Local
    <3>2. \A h \in l.registered : h # g
      BY <1>0, <1>3, <3>1 DEF Group
    <3> QED
      BY <3>2 DEF MayRegister
  <2>4. ~ProgressThrows(v, l, b)
    BY <2>2, <2>3 DEF TriggerThrows
  <2>5. Triggered(v, l, r, q + 1, Validator, b)
    BY <1>0, <2>1, TriggerCases
  <2>6. \/ Skipped(l, r)
        \/ g \in Group /\ Entered(v, l, r, g, b)
    BY <2>3, <2>5 DEF Triggered
  <2>7. ~TimedOut(r, b)
    <3>1. CASE Skipped(l, r)
      BY <3>1 DEF Skipped, TimedOut
    <3>2. CASE Entered(v, l, r, g, b)
      BY <1>0, <3>2, ValidatorAssumption DEF Entered, TimedOut
    <3> QED
      BY <2>6, <3>1, <3>2
  <2>8. p = r
    BY <1>1, <2>4, <2>7 DEF CheckKeyGenTimeouts
  <2>9. BlockMove(v, l, r, b)
    <3>1. ASSUME g \in Group, Entered(v, l, r, g, b) PROVE Rolled(v, l, r, g, b)
      BY <1>0, <1>3, <3>1 DEF Rolled
    <3> QED
      BY <2>6, <3>1 DEF BlockMove
  <2> QED
    BY <2>8, <2>9 DEF b, p
<1> QED
  BY <1>2, <1>3

LEMMA BlockMoves ==
  ASSUME NEW v, NEW l, NEW k, NEW b, BlockMove(v, l, k, b)
  PROVE  Moves(v, l, k, b)
BY DEF BlockMove, Moves, Kept, SameGroup, NoStart

\* A validator that starts again has stored nothing yet.
LEMMA FreshStored ==
  ASSUME NEW v, NEW b,
         \/ Skipped(local[v], local'[v])
         \/ \E g \in Group : Entered(v, local[v], local'[v], g, b)
  PROVE  Stored(local[v])'
<1>1. CASE Skipped(local[v], local'[v])
  BY <1>1 DEF Skipped, Stored, Collecting
<1>2. ASSUME NEW g \in Group, Entered(v, local[v], local'[v], g, b)
      PROVE  Stored(local[v])'
  <2>1. \A a \in Validator :
          NoComplaints[a].total = 0 /\ NoComplaints[a].unresponded = 0
    BY DEF NoComplaints
  <2> QED
    BY <1>2, <2>1 DEF Entered, Stored, Collecting
<1> QED
  BY <1>1, <1>2

\* If v restarts at a timeout with u and without others, u restarts as well.
LEMMA Mutual ==
  ASSUME NEW u \in Honest, NEW v \in Validator, NEW l \in Local, NEW m \in Local,
         NEW g \in Group, NEW b \in Nat, Same(u, v, l, m), Stored(l), Stored(m), At(l, g),
         TimedOut(m, b), u \in Remaining(m), Remaining(m) # g.members
  PROVE  TimedOut(l, b) /\ u \in Remaining(l) /\ Remaining(l) # g.members
<1>1. /\ m.id = l.id /\ m.since = l.since /\ l.members = g.members /\ m.members = g.members
      /\ GroupOf(l) = g /\ GroupOf(m) = g /\ m.confirmations = l.confirmations
  BY DEF Same, At, GroupOf
<1>2. l.since \in Nat /\ KeyGenTimeout \in Nat /\ u \in Validator /\ v \in Validator
  BY ValidatorAssumption DEF Local
<1>3. CASE l.id = "collecting_commitments"
  <2>1. m.commitments = l.commitments
    BY <1>1, <1>3 DEF Same
  <2> QED
    BY <1>1, <1>3, <2>1 DEF TimedOut, Remaining, MissingCommitments
<1>4. CASE l.id = "collecting_shares"
  <2>1. TimedOut(l, b)
    BY <1>1, <1>4 DEF TimedOut
  <2>2. /\ Remaining(l) = g.members \ (g.members \ l.shares)
        /\ Remaining(m) = g.members \ (g.members \ m.shares)
    BY <1>1, <1>4 DEF Remaining, MissingSecretShares
  <2>3. /\ l.shares \subseteq keys[g] /\ m.shares \subseteq keys[g]
        /\ Honest \cap keys[g] \subseteq l.shares
        /\ ~(g.members \subseteq keys[g])
    BY <1>1, <1>4 DEF Stored
  <2> QED
    BY <2>1, <2>2, <2>3
<1>5. CASE l.id = "collecting_confirmations"
  <2>1. /\ \A a \in Validator : /\ l.complaints[a].unresponded \in Nat
                                /\ m.complaints[a].unresponded \in Nat
        /\ \A a \in Validator \ {u, v} : m.complaints[a] = l.complaints[a]
        /\ l.complaints[u].unresponded <= m.complaints[u].unresponded
        /\ m.complaints[v].unresponded <= l.complaints[v].unresponded
    BY DEF Local, Same, AtMost
  <2>2. \A a \in Unresponded(l) : a \in g.members
    <3>1. \A a \in Unresponded(l) : Accused(g, a)
      BY <1>1, <1>5 DEF Unresponded, Stored, Collecting
    <3> QED
      BY <3>1 DEF Accused
  <2>3. u \notin Unresponded(m)
    <3>1. ASSUME u \in Unresponded(m) PROVE FALSE
      BY <1>1, <1>5, <3>1 DEF Remaining
    <3> QED
      BY <3>1
  <2>4. u \notin Unresponded(l) /\ Unresponded(m) \subseteq Unresponded(l)
    BY <1>2, <2>1, <2>3 DEF Unresponded
  <2>5. TimedOut(l, b)
    BY <1>1, <1>2, <1>5, <2>4 DEF TimedOut
  <2>6. u \in g.members
    BY <1>1, RemainingMembers
  <2>7. CASE Unresponded(l) # {}
    BY <1>1, <1>5, <2>2, <2>4, <2>5, <2>6, <2>7 DEF Remaining
  <2>8. CASE Unresponded(l) = {}
    BY <1>1, <1>5, <2>4, <2>5, <2>8 DEF Remaining
  <2> QED
    BY <2>7, <2>8
<1> QED
  BY <1>1, <1>3, <1>4, <1>5 DEF At, Collecting

\* What a step has to do to keep the invariant.
LEMMA RemovalStep ==
  ASSUME RemovalInv, Inv', NEW b, Moving(b), StayTogether(b),
         \A v \in Sound' : Stored(local[v])',
         \A v \in Sound', g \in Group : identifiers'[g][v] # 0 =>
           identifiers[g][v] # 0 \/ <<"key_gen_start", g, v>> \in local[v].outbox,
         \A u, v \in Sound', g \in Group :
           /\ local'[u].id = "collecting_commitments" /\ GroupOf(local'[u]) = g
           /\ identifiers'[g][v] # 0
           => \/ identifiers[g][v] # 0
              \/ Kept(u, local[u], local'[u]) /\ v \in local'[u].commitments
  PROVE  RemovalInv'
<1>1. TogetherInv'
  BY TogetherMove
<1>2. KnownInv'
  BY KnownMove
<1>3. ASSUME NEW v \in Sound' PROVE Attempts(v, local'[v]) /\ CommitsToOwn(v, local[v])'
  <2>0. v \in Sound
    BY DEF Moving
  <2>1. /\ Held(v, local[v]) /\ Attempts(v, local[v]) /\ CommitsToOwn(v, local[v])
        /\ NoLater(local[v]) /\ Moves(v, local[v], local'[v], b)
    BY <2>0, SoundOne DEF RemovalInv, OwnInv, Moving
  <2>2. Attempts(v, local'[v])
    BY <2>1, AttemptsMove
  <2>3. \A g \in Group : identifiers'[g][v] # 0 =>
          identifiers[g][v] # 0 \/ <<"key_gen_start", g, v>> \in local[v].outbox
    OBVIOUS
  <2>4. \A g \in Group : identifiers'[g][v] # 0 \/ <<"key_gen_start", g, v>> \in local'[v].outbox
                         => g \in local'[v].registered
    BY <2>1, <2>3, CommitsMove
  <2> QED
    BY <2>2, <2>4 DEF CommitsToOwn
<1> QED
  BY <1>1, <1>2, <1>3 DEF RemovalInv, OwnInv, Attempts, CommitsToOwn

LEMMA CollectingGroup ==
  ASSUME RemovalInv, NEW v \in Sound, local[v].id \in Collecting
  PROVE  GroupOf(local[v]) \in Group /\ GroupOf(local[v]) \in local[v].registered
BY SoundOne DEF RemovalInv, OwnInv, Attempts, Local

LEMMA NewBlockMoves ==
  ASSUME RemovalInv, NEW warping, NewBlock(warping), NEW v \in Sound'
  PROVE  v \in Sound /\ BlockMove(v, local[v], local'[v], block + 1)
<1>0. v \in Sound /\ v \in Honest /\ v \notin warping
  BY DEF Sound, NewBlock
<1>1. /\ BlockInv /\ block < MaxBlock /\ v \in Validator /\ Held(v, local[v])
      /\ NoLater(local[v])
      /\ local'[v] = Progress(v, local[v], block + 1)
  BY <1>0, SoundOne DEF NewBlock, RemovalInv, Inv
<1>2. local[v].id \in Collecting => GroupOf(local[v]) \in Group
  BY <1>0, CollectingGroup
<1> QED
  BY <1>0, <1>1, <1>2, ProgressCases

LEMMA NewBlockTogether ==
  ASSUME RemovalInv, NEW warping, NewBlock(warping)
  PROVE  StayTogether(block + 1)
<1> DEFINE b == block + 1
<1> SUFFICES ASSUME NEW u \in Sound', NEW v \in Sound', NEW g \in Group,
                    u # v, At(local[u], g), At(local'[u], g),
                    Kept(u, local[u], local'[u]),
                    Same(u, v, local[u], local[v])
             PROVE  Same(u, v, local'[u], local'[v]) \/ Left(u, local'[v], g)
  BY DEF StayTogether
<1> DEFINE l == local[u]  m == local[v]  k == local'[u]  n == local'[v]
<1>0. /\ BlockMove(u, l, k, b) /\ BlockMove(v, m, n, b)
      /\ Held(v, m) /\ Attempts(u, l) /\ Attempts(v, m) /\ Stored(l) /\ Stored(m)
      /\ l \in Local /\ m \in Local /\ b \in Nat
      /\ u \in Honest /\ v \in Validator
  <2>1. /\ u \in Sound /\ v \in Sound
        /\ BlockMove(u, l, k, b) /\ BlockMove(v, m, n, b)
    BY NewBlockMoves
  <2>2. b \in Nat
    BY DEF RemovalInv, Inv, BlockInv
  <2>3. Attempts(u, l) /\ Attempts(v, m) /\ Stored(l) /\ Stored(m) /\ Inv
    BY <2>1 DEF RemovalInv, OwnInv
  <2> QED
    BY <2>1, <2>2, <2>3, SoundOne
<1> HIDE DEF b
<1>1. At(m, g)
  BY DEF Same, At
<1>2. k = l /\ (TimedOut(l, b) => ~MayRegister(u, l, [epoch |-> l.epoch, members |-> Remaining(l)]))
  BY <1>0 DEF BlockMove, Kept, SameGroup, Skipped, Restarted, Rolled, Entered, At, Collecting
<1>3. CASE Skipped(m, n)
  BY <1>0, <1>1, <1>3, Leaves
<1>4. ASSUME NEW h \in Group, Rolled(v, m, n, h, b)
      PROVE  Left(u, n, g)
  BY <1>0, <1>1, <1>4, Leaves
<1>5. ASSUME NEW h \in Group, Restarted(v, m, n, h, b), TimedOut(m, b),
             h.members = Remaining(m)
      PROVE  Left(u, n, g)
  <2>1. u \notin h.members
    <3> SUFFICES ASSUME u \in Remaining(m) PROVE FALSE
      BY <1>5
    <3>1. Remaining(m) # g.members
      <4>1. h \notin m.registered /\ g \in m.registered /\ h.epoch = g.epoch
        BY <1>0, <1>1, <1>5 DEF Restarted, Entered, Attempts, At, GroupOf
      <4> QED
        BY <1>5, <4>1, GroupEqual
    <3>2. TimedOut(l, b) /\ u \in Remaining(l) /\ Remaining(l) # g.members
      BY <1>0, <1>5, <3>1, Mutual
    <3>3. Remaining(l) \subseteq g.members
      BY <1>0, RemainingMembers DEF At, GroupOf
    <3>4. \A h1 \in l.registered : h1.epoch = l.epoch => g.members \subseteq h1.members
      BY <1>0 DEF Attempts, At, GroupOf
    <3> DEFINE x == [epoch |-> l.epoch, members |-> Remaining(l)]
    <3>5. x \notin l.registered
      BY <3>2, <3>3, <3>4
    <3> QED
      BY <1>2, <3>2, <3>5 DEF MayRegister
  <2> QED
    BY <1>0, <1>1, <1>5, <2>1, Leaves
<1>6. CASE n = m
  BY <1>2, <1>6
<1> QED
  BY <1>0, <1>3, <1>4, <1>5, <1>6 DEF BlockMove

LEMMA NewBlockRemoval ==
  ASSUME RemovalInv, NEW warping \in SUBSET Honest, NewBlock(warping)
  PROVE  RemovalInv'
<1> DEFINE b == block + 1
<1>0. UNCHANGED contract
  BY DEF NewBlock
<1>1. Inv'
  BY NewBlockStep DEF RemovalInv
<1>2. Moving(b)
  <2>1. \A v \in Sound' : local'[v] \in Local
    BY <1>1 DEF Inv, LocalInv, Sound
  <2>2. StatusesGrow
    BY <1>0 DEF StatusesGrow, contract
  <2>3. Sound' \subseteq Sound
    BY SoundShrinks DEF NewBlock
  <2> QED
    BY <2>1, <2>2, <2>3, NewBlockMoves, BlockMoves DEF Moving
<1>3. ASSUME NEW v \in Sound' PROVE Stored(local[v])'
  <2>1. v \in Sound /\ BlockMove(v, local[v], local'[v], b)
    BY NewBlockMoves
  <2>2. CASE local'[v] = local[v]
    BY <1>0, <2>1, <2>2 DEF RemovalInv, OwnInv, Stored, Committed, Accused, contract
  <2> HIDE DEF b
  <2> QED
    BY <2>1, <2>2, FreshStored DEF BlockMove, Restarted, Rolled
<1>4. identifiers' = identifiers
  BY <1>0 DEF contract
<1> HIDE DEF b
<1>5. StayTogether(b)
  BY NewBlockTogether DEF b
<1> QED
  BY <1>1, <1>2, <1>3, <1>4, <1>5, RemovalStep

\* An event of another contract leaves those alone that have processed the
\* block.
LEMMA OtherEventRemoval ==
  ASSUME RemovalInv, NEW failing \in SUBSET behind, OtherEvent(failing)
  PROVE  RemovalInv'
<1>0. UNCHANGED contract /\ Sound' = Sound
  BY DEF OtherEvent, Sound
<1>1. Inv'
  BY OtherEventStep DEF RemovalInv
<1>2. ASSUME NEW v \in Sound PROVE local'[v] = local[v]
  <2>1. v \in Honest /\ v \notin behind
    BY SoundOne DEF RemovalInv
  <2> QED
    BY <2>1 DEF OtherEvent, Current
<1>3. OwnInv'
  <2>1. ASSUME NEW v \in Sound
        PROVE  (Attempts(v, local[v]) /\ CommitsToOwn(v, local[v]) /\ Stored(local[v]))'
    <3>1. Attempts(v, local[v]) /\ CommitsToOwn(v, local[v]) /\ Stored(local[v])
      BY DEF RemovalInv, OwnInv
    <3> QED
      BY <1>0, <1>2, <3>1 DEF Attempts, CommitsToOwn, Stored, Committed, Accused, contract
  <2> QED
    BY <1>0, <2>1 DEF OwnInv
<1>4. TogetherInv'
  BY <1>0, <1>2 DEF RemovalInv, TogetherInv, Together, Answered, Clean, contract
<1>5. KnownInv'
  BY <1>0, <1>2 DEF RemovalInv, KnownInv, Known, Answered, Clean, contract
<1> QED
  BY <1>1, <1>3, <1>4, <1>5 DEF RemovalInv

-----------------------------------------------------------------------------
(* What the contract knows of a group in each phase.                       *)

Phases(g) ==
  /\ keys[g] \subseteq Committed(g) /\ Committed(g) \subseteq g.members
  /\ confirmed[g] \subseteq Committed(g)
  /\ status[g] \in {"UNINITIALIZED", "COMMITTING"} => keys[g] = {}
  /\ status[g] \in {"SHARING", "CONFIRMING"} => g.members \subseteq Committed(g)
  /\ status[g] = "SHARING" => confirmed[g] = {} /\ ~(g.members \subseteq keys[g])
  /\ status[g] = "CONFIRMING" => keys[g] = g.members

LEMMA PhasesHold == Inv => \A g \in Group : Phases(g)
<1> SUFFICES ASSUME Inv, NEW g \in Group PROVE Phases(g)
  OBVIOUS
<1>1. /\ KG!KeyGenTypeOK /\ KG!MapInv(g) /\ KG!PhaseInv(g)
  BY DEF Inv, KG!KeyGenInv, KG!GroupInv
<1>2. /\ KG!IdsOf(g) = Committed(g) /\ KG!Registered(g) = Committed(g)
      /\ Committed(g) \subseteq g.members
  BY GroupSize DEF Inv, OwnNames, KG!Registered, KG!IdsOf, Committed
<1>3. \A S : KG!Cardinality(S) = Cardinality(S)
  BY DEF KG!Cardinality, Cardinality
<1>4. keys[g] \subseteq Committed(g) /\ confirmed[g] \subseteq Committed(g)
  BY <1>1, <1>2 DEF KG!MapInv
<1>5. /\ IsFiniteSet(g.members) /\ Cardinality(g.members) \in Nat
  BY GroupSize
<1>6. \A S \in SUBSET g.members :
        /\ Cardinality(S) = Cardinality(g.members) <=> S = g.members
        /\ Cardinality(S) \in Nat
  BY <1>5, FS_Subset, FS_CardinalityType
<1>7. status[g] \in {"UNINITIALIZED", "COMMITTING"} => keys[g] = {}
  BY <1>1, <1>2, <1>4 DEF KG!PhaseInv
<1>8. status[g] \in {"SHARING", "CONFIRMING"} => Committed(g) = g.members
  BY <1>1, <1>2, <1>3, <1>6 DEF KG!PhaseInv
<1>9. status[g] = "SHARING" => confirmed[g] = {} /\ ~(g.members \subseteq keys[g])
  <2> SUFFICES ASSUME status[g] = "SHARING"
               PROVE  confirmed[g] = {} /\ ~(g.members \subseteq keys[g])
    OBVIOUS
  <2>1. confirmed[g] = {} /\ Cardinality(g.members) - Cardinality(keys[g]) > 0
    BY <1>1, <1>3 DEF KG!PhaseInv
  <2>2. keys[g] # g.members
    BY <1>5, <2>1
  <2> QED
    BY <1>2, <1>4, <2>1, <2>2
<1>10. status[g] = "CONFIRMING" => keys[g] = g.members
  BY <1>1, <1>2, <1>3, <1>4, <1>6 DEF KG!PhaseInv
<1> QED
  BY <1>2, <1>4, <1>7, <1>8, <1>9, <1>10 DEF Phases

LEMMA PhasesHoldNext == Inv' => \A g \in Group : Phases(g)'
<1>1. Inv' => (\A g \in Group : Phases(g))'
  BY PhasesHold, PTL
<1> QED
  BY <1>1

\* A group has at least two members.
LEMMA GroupNotEmpty ==
  ASSUME NEW g \in Group
  PROVE  g.members # {}
<1>1. Cardinality(g.members) >= MinimumParticipants
  BY DEF Group
<1> QED
  BY <1>1, Minimum, FS_EmptySet

-----------------------------------------------------------------------------
(* The transactions.                                                       *)

LEMMA SentAlike ==
  ASSUME NEW v, NEW sender, NEW action, local[v] \in Local
  PROVE  LET m == Sent(v, sender, action)
         IN  m \in Local /\ Alike(local[v], m) /\ m.outbox \subseteq local[v].outbox
BY DEF Sent, Alike, SameGroup, Local

\* What a handler of a commitment does.
Committing(v, l, k, g, sender, valid, last) ==
  LET stored == l.commitments \cup {sender}
      taken == l.id = "collecting_commitments" /\ GroupOf(l) = g /\ valid
      done == taken /\ last /\ g.members \subseteq stored
  IN  /\ SameGroup(l, k) /\ NoStart(v, l, k)
      /\ k.shares = l.shares /\ k.missing = l.missing
      /\ k.complaints = l.complaints /\ k.confirmations = l.confirmations
      /\ k.commitments = IF taken THEN stored ELSE l.commitments
      /\ k.id = IF done THEN "collecting_shares" ELSE l.id
      /\ k.since = IF done THEN block ELSE l.since

LEMMA CommittingCases ==
  ASSUME NEW v, NEW l \in Local, NEW g \in Group, NEW sender,
         NEW valid \in BOOLEAN, NEW last \in BOOLEAN
  PROVE  Committing(v, l, HandleCommitted(v, l, g, sender, valid, last), g, sender,
                    valid, last)
<1> DEFINE stored == RegisterCommitments(l, sender)
           sharing == [stored EXCEPT !.id = "collecting_shares", !.since = block,
              !.outbox = @ \cup {<<"key_gen_publish_secret_shares", g, v>>}]
<1>1. stored = [l EXCEPT !.commitments = @ \cup {sender}]
  BY DEF RegisterCommitments
<1>2. CASE l.id # "collecting_commitments" \/ GroupOf(l) # g \/ ~valid
  BY <1>2 DEF HandleCommitted, Committing, SameGroup, NoStart
<1>3. CASE l.id = "collecting_commitments" /\ GroupOf(l) = g /\ valid
  <2>1. MayCreateShares(stored) <=> g.members \subseteq l.commitments \cup {sender}
    BY <1>1, <1>3 DEF MayCreateShares, MissingCommitments, GroupOf, Local
  <2>2. CASE ~last \/ ~MayCreateShares(stored)
    <3>1. HandleCommitted(v, l, g, sender, valid, last) = stored
      BY <1>3, <2>2 DEF HandleCommitted
    <3> QED
      BY <1>1, <1>3, <2>1, <2>2, <3>1 DEF Committing, SameGroup, NoStart, Local
  <2>3. CASE last /\ MayCreateShares(stored)
    <3>1. HandleCommitted(v, l, g, sender, valid, last) = sharing
      BY <1>3, <2>3 DEF HandleCommitted
    <3>2. /\ SameGroup(l, sharing) /\ NoStart(v, l, sharing)
          /\ sharing.shares = l.shares /\ sharing.missing = l.missing
          /\ sharing.complaints = l.complaints /\ sharing.confirmations = l.confirmations
          /\ sharing.commitments = l.commitments \cup {sender}
          /\ sharing.id = "collecting_shares" /\ sharing.since = block
      BY <1>1 DEF SameGroup, NoStart, Local
    <3> HIDE DEF sharing, stored
    <3> QED
      BY <1>3, <2>1, <2>3, <3>1, <3>2 DEF Committing
  <2> QED
    BY <2>2, <2>3
<1> QED
  BY <1>2, <1>3

LEMMA CommitCases ==
  ASSUME RemovalInv, NEW g \in Group, NEW v \in g.members, NEW valid \in BOOLEAN,
         Commit(v, g, valid), NEW u \in Sound
  PROVE  /\ Committing(u, local[u], local'[u], g, v, valid, status'[g] = "SHARING")
         /\ Kept(u, local[u], local'[u])
<1> DEFINE action == <<"key_gen_start", g, v>>
           m == Sent(u, v, action)
           l == local[u]
           k == local'[u]
           last == status'[g] = "SHARING"
<1>1. k = HandleCommitted(u, m, g, v, valid, last)
  <2> DEFINE handled == [w \in Honest |-> HandleCommitted(w, Ready(w, v, action), g, v, valid,
                                           status'[g] = "SHARING")]
  <2>1. Delivered(v, action, handled)
    BY DEF Commit
  <2>2. k = handled[u] /\ Ready(u, v, action) = m /\ u \in Honest
    <3> HIDE DEF handled
    <3> QED
      BY <2>1, SoundHandled, SoundOne DEF RemovalInv
  <2> QED
    BY <2>2
<1>2. l \in Local
  BY SoundOne DEF RemovalInv
<1>3. m \in Local /\ Alike(l, m) /\ m.outbox \subseteq l.outbox
  BY <1>2, SentAlike
<1> HIDE DEF m
<1>4. Committing(u, m, k, g, v, valid, last)
  <2>1. last \in BOOLEAN
    OBVIOUS
  <2> HIDE DEF last
  <2> QED
    BY <1>1, <1>3, <2>1, CommittingCases
<1> HIDE DEF k, l, last
<1>5. Committing(u, l, k, g, v, valid, last)
  BY <1>3, <1>4 DEF Committing, Alike, SameGroup, NoStart, GroupOf
<1>6. Kept(u, l, k)
  BY <1>5 DEF Committing, Kept, Collecting
<1> QED
  BY <1>5, <1>6 DEF k, l, last

LEMMA CommitContract ==
  ASSUME Inv, Inv', NEW g \in Group, NEW v \in g.members, NEW valid \in BOOLEAN,
         Commit(v, g, valid)
  PROVE  /\ identifiers' = [identifiers EXCEPT ![g][v] = v]
         /\ identifiers'[g][v] # 0
         /\ keys' = keys /\ confirmed' = confirmed /\ statuses' = statuses
         /\ keys[g] = {}
         /\ status'[g] = "SHARING" => g.members \subseteq Committed(g)'
<1>1. v \in Validator /\ v # 0
  BY GroupSize, ValidatorAssumption
<1>2. identifiers \in [Group -> [Validator -> Validator \cup {0}]]
  BY DEF Inv, KG!KeyGenInv, KG!KeyGenTypeOK
<1>3. identifiers' = [identifiers EXCEPT ![g][v] = v]
      /\ keys' = keys /\ confirmed' = confirmed /\ statuses' = statuses
      /\ status[g] \in {"UNINITIALIZED", "COMMITTING"}
  BY DEF Commit, KeyGenAndCommit, KeyGenCommit, Register
<1>4. Phases(g) /\ Phases(g)'
  BY PhasesHold, PhasesHoldNext
<1> QED
  BY <1>1, <1>2, <1>3, <1>4 DEF Phases

LEMMA CommitRemoval ==
  ASSUME RemovalInv, NEW g \in Group, NEW v \in g.members, NEW valid \in BOOLEAN,
         Commit(v, g, valid)
  PROVE  RemovalInv'
<1> DEFINE last == status'[g] = "SHARING"
<1>0. Inv /\ \A u \in Sound : local[u] \in Local
  BY SoundOne DEF RemovalInv
<1>0s. Sound' = Sound /\ \A u \in Sound : u \in Honest /\ local[u] \in Local
  <2>1. Sound' = Sound
    BY SoundSame DEF Commit
  <2> QED
    BY <2>1, SoundOne DEF RemovalInv
<1>1. Inv'
  BY <1>0, CommitStep
<1>2. /\ identifiers' = [identifiers EXCEPT ![g][v] = v]
      /\ identifiers'[g][v] # 0
      /\ keys' = keys /\ confirmed' = confirmed /\ statuses' = statuses
      /\ keys[g] = {}
      /\ last => g.members \subseteq Committed(g)'
  BY <1>0, <1>1, CommitContract
<1>3. \A u \in Sound : /\ Committing(u, local[u], local'[u], g, v, valid, last)
                        /\ Kept(u, local[u], local'[u])
  BY CommitCases
<1>4. identifiers \in [Group -> [Validator -> Validator \cup {0}]]
  BY <1>0 DEF Inv, KG!KeyGenInv, KG!KeyGenTypeOK
<1> HIDE DEF last
<1>5. Moving(block)
  BY <1>0s, <1>1, <1>2, <1>3 DEF Moving, Moves, StatusesGrow, Inv, LocalInv
<1>6. \A h \in Group : /\ Committed(h) \subseteq Committed(h)'
                       /\ \A a : Accused(h, a)' <=> Accused(h, a)
  BY <1>2, <1>4 DEF Committed, Accused
<1>7. ASSUME NEW u \in Sound PROVE Stored(local[u])'
  <2> DEFINE l == local[u]  k == local'[u]
  <2>0. PICK h : h = GroupOf(l)
    OBVIOUS
  <2>1. Stored(l) /\ Committing(u, l, k, g, v, valid, last) /\ l \in Local /\ GroupOf(l) = h
    BY <1>0, <1>3, <2>0 DEF RemovalInv, OwnInv
  <2>2. GroupOf(k) = h /\ k.complaints = l.complaints
    BY <2>1 DEF Committing, SameGroup, GroupOf
  <2>3. l.id \in Collecting => h \in Group
    BY <2>0, CollectingGroup
  <2>4. v \in Validator
    BY GroupSize
  <2>5. CASE k.id = "collecting_commitments"
    <3>1. /\ l.id = "collecting_commitments" /\ h \in Group
          /\ k.shares = {} /\ k.missing = {} /\ k.complaints = NoComplaints
          /\ k.confirmations = {}
      BY <2>1, <2>3, <2>5 DEF Committing, Stored, Collecting
    <3>2. k.commitments \subseteq Committed(h)'
      <4>1. l.commitments \subseteq Committed(h)'
        BY <1>6, <2>1, <3>1 DEF Stored
      <4>2. h = g => v \in Committed(h)'
        BY <1>2, <2>4 DEF Committed
      <4> QED
        BY <2>1, <4>1, <4>2 DEF Committing
    <3>3. \A a \in Validator :
            k.complaints[a].total > 0 \/ k.complaints[a].unresponded > 0 => Accused(h, a)'
      BY <1>6, <2>1, <2>2, <3>1 DEF Stored, Collecting
    <3> QED
      BY <2>2, <2>5, <3>1, <3>2, <3>3 DEF Stored, Collecting
  <2>6. CASE k.id \in {"collecting_shares", "collecting_confirmations"} /\ k.id = l.id
    <3>1. /\ k.shares = l.shares /\ k.missing = l.missing
          /\ k.confirmations = l.confirmations /\ h \in Group
      BY <2>1, <2>3, <2>6 DEF Committing, Collecting
    <3>2. h.members \subseteq Committed(h)'
      BY <1>6, <2>1, <2>6, <3>1 DEF Stored, Collecting
    <3>3. \A a \in Validator :
            k.complaints[a].total > 0 \/ k.complaints[a].unresponded > 0 => Accused(h, a)'
      BY <1>6, <2>1, <2>2, <2>6, <3>1 DEF Stored, Collecting
    <3>4. k.id = "collecting_shares" =>
            /\ k.shares \cup k.missing \subseteq keys'[h]
            /\ Honest \cap keys'[h] \subseteq k.shares
            /\ ~(h.members \subseteq keys'[h])
            /\ k.confirmations = {}
      BY <1>2, <2>1, <2>6, <3>1 DEF Stored
    <3>5. k.id = "collecting_confirmations" => confirmed'[h] \subseteq k.confirmations
      BY <1>2, <2>1, <2>6, <3>1 DEF Stored
    <3> QED
      BY <2>2, <2>6, <3>2, <3>3, <3>4, <3>5 DEF Stored, Collecting
  <2>7. CASE k.id = "collecting_shares" /\ k.id # l.id
    <3>1. l.id = "collecting_commitments" /\ h = g /\ last
      BY <2>1, <2>7 DEF Committing
    <3>2. /\ k.shares = {} /\ k.missing = {} /\ k.confirmations = {}
      BY <2>1, <3>1 DEF Committing, Stored
    <3>3. g.members \subseteq Committed(g)' /\ keys'[g] = {} /\ g.members # {}
      BY <1>2, <3>1, GroupNotEmpty
    <3>4. \A a \in Validator :
            k.complaints[a].total > 0 \/ k.complaints[a].unresponded > 0 => Accused(g, a)'
      BY <1>6, <2>1, <2>2, <3>1 DEF Stored, Collecting
    <3> QED
      BY <2>2, <2>7, <3>1, <3>2, <3>3, <3>4 DEF Stored, Collecting
  <2>8. CASE k.id \notin Collecting
    BY <2>8 DEF Stored, Collecting
  <2> QED
    BY <2>1, <2>5, <2>6, <2>7, <2>8 DEF Collecting, Committing
<1>8. StayTogether(block)
  <2> SUFFICES ASSUME NEW x \in Sound, NEW y \in Sound, NEW h \in Group,
                      Same(x, y, local[x], local[y])
               PROVE  Same(x, y, local'[x], local'[y])
    BY <1>0s DEF StayTogether
  <2> DEFINE l == local[x]  m == local[y]  k == local'[x]  n == local'[y]
  <2>1. Committing(x, l, k, g, v, valid, last) /\ Committing(y, m, n, g, v, valid, last)
    BY <1>3
  <2> HIDE DEF l, m, k, n
  <2>2. Same(x, y, l, m)
    BY DEF l, m
  <2>3. Same(x, y, k, n)
    BY <2>1, <2>2 DEF Same, Committing, SameGroup, GroupOf
  <2> QED
    BY <2>3 DEF k, n
<1>9. ASSUME NEW x \in Sound, NEW h \in Group, identifiers'[h][x] # 0,
             identifiers[h][x] = 0
      PROVE  h = g /\ x = v /\ valid /\ <<"key_gen_start", h, x>> \in local[x].outbox
  <2>1. h = g /\ x = v
    BY <1>0s, <1>2, <1>4, <1>9, ValidatorAssumption
  <2> QED
    BY <1>0s, <2>1 DEF Commit, MaySend, Disturbs
<1>10. ASSUME NEW x \in Sound, NEW y \in Sound, NEW h \in Group,
              local'[x].id = "collecting_commitments", GroupOf(local'[x]) = h,
              identifiers'[h][y] # 0, identifiers[h][y] = 0
       PROVE  Kept(x, local[x], local'[x]) /\ y \in local'[x].commitments
  <2>1. h = g /\ y = v /\ valid
    BY <1>9, <1>10
  <2>2. Committing(x, local[x], local'[x], g, v, valid, last)
    BY <1>3
  <2>3. GroupOf(local[x]) = g /\ local[x].id = "collecting_commitments"
    BY <1>10, <2>1, <2>2 DEF Committing, SameGroup, GroupOf
  <2> QED
    BY <1>3, <2>1, <2>2, <2>3 DEF Committing
<1> QED
  BY <1>0s, <1>1, <1>5, <1>7, <1>8, <1>9, <1>10, RemovalStep

\* A validator that goes on where it is has stored what the contract has, if
\* that has not changed.
LEMMA AlikeStored ==
  ASSUME RemovalInv, StatusesGrow, NEW u \in Sound, Alike(local[u], local'[u]),
         \A h \in Group : Committed(h) \subseteq Committed(h)',
         local[u].id = "collecting_shares" =>
           keys'[GroupOf(local[u])] = keys[GroupOf(local[u])],
         local[u].id = "collecting_confirmations" =>
           confirmed'[GroupOf(local[u])] = confirmed[GroupOf(local[u])]
  PROVE  Stored(local[u])'
<1> DEFINE l == local[u]  k == local'[u]
<1>0. PICK h : h = GroupOf(l)
  OBVIOUS
<1>1. Stored(l) /\ GroupOf(l) = h
  BY <1>0 DEF RemovalInv, OwnInv
<1>2. /\ GroupOf(k) = h /\ k.id = l.id /\ k.commitments = l.commitments
      /\ k.shares = l.shares /\ k.missing = l.missing
      /\ k.complaints = l.complaints /\ k.confirmations = l.confirmations
  BY <1>1 DEF Alike, SameGroup, GroupOf
<1>3. CASE l.id \in Collecting
  <2>1. h \in Group
    BY <1>0, <1>3, CollectingGroup
  <2>2. Committed(h) \subseteq Committed(h)' /\ \A a : Accused(h, a) => Accused(h, a)'
    BY <2>1, AnsweredStays
  <2>3. /\ l.id = "collecting_shares" => keys'[h] = keys[h]
        /\ l.id = "collecting_confirmations" => confirmed'[h] = confirmed[h]
    BY <1>0
  <2> HIDE DEF l, k
  <2>4. /\ k.id = "collecting_commitments" =>
             /\ k.commitments \subseteq Committed(h)'
             /\ k.shares = {} /\ k.missing = {} /\ k.complaints = NoComplaints
             /\ k.confirmations = {}
        /\ k.id \in Collecting \ {"collecting_commitments"} =>
             h.members \subseteq Committed(h)'
    BY <1>1, <1>2, <2>2 DEF Stored
  <2>5. /\ k.id = "collecting_shares" =>
             /\ k.shares \cup k.missing \subseteq keys'[h]
             /\ Honest \cap keys'[h] \subseteq k.shares
             /\ ~(h.members \subseteq keys'[h])
             /\ k.confirmations = {}
        /\ k.id = "collecting_confirmations" => confirmed'[h] \subseteq k.confirmations
    BY <1>1, <1>2, <2>3 DEF Stored
  <2>6. \A a \in Validator :
          k.complaints[a].total > 0 \/ k.complaints[a].unresponded > 0 => Accused(h, a)'
    BY <1>1, <1>2, <1>3, <2>2 DEF Stored
  <2> QED
    BY <1>2, <2>4, <2>5, <2>6 DEF Stored, k
<1>4. CASE l.id \notin Collecting
  BY <1>2, <1>4 DEF Stored, Collecting
<1> QED
  BY <1>3, <1>4

\* What a handler of secret shares does.
Sharing(v, l, k, g, sender, good, last) ==
  LET taken == l.id = "collecting_shares" /\ GroupOf(l) = g
  IN  /\ SameGroup(l, k) /\ NoStart(v, l, k)
      /\ k.complaints = l.complaints /\ k.confirmations = l.confirmations
      /\ ~taken => Alike(l, k)
      /\ taken =>
           /\ k.id = IF last THEN "collecting_confirmations" ELSE l.id
           /\ k.since = IF last THEN block ELSE l.since
           /\ good => /\ k.missing = l.missing
                      /\ \/ k.shares = l.shares \cup {sender}
                         \/ g.members \subseteq l.shares \cup {sender} /\ k.shares = {}
           /\ ~good => k.missing = l.missing \cup {sender} /\ k.shares = l.shares

LEMMA StoreShareCases ==
  ASSUME NEW v, NEW l \in Local, NEW g \in Group, NEW sender \in Validator
  PROVE  LET k == StoreShare(l, g, sender)
         IN  /\ k \in Local
             /\ SameGroup(l, k) /\ k.outbox = l.outbox
             /\ k.id = l.id /\ k.since = l.since /\ k.missing = l.missing
             /\ k.complaints = l.complaints /\ k.confirmations = l.confirmations
             /\ \/ k.shares = l.shares \cup {sender}
                \/ l.members \subseteq l.shares \cup {sender} /\ k.shares = {}
BY DEF StoreShare, RegisterSecretShare, ClearKeyGen, SecretSharesComplete,
       MissingSecretShares, SameGroup, Local

LEMMA SharingCases ==
  ASSUME NEW v \in Validator, NEW l \in Local, NEW g \in Group, NEW sender \in Validator,
         NEW good \in BOOLEAN, NEW last \in BOOLEAN
  PROVE  Sharing(v, l, HandleSecretShared(v, l, g, sender, good, last), g, sender,
                 good, last)
<1> DEFINE lacking == [l EXCEPT !.missing = @ \cup {sender},
                                !.outbox = @ \cup {<<"key_gen_complain", g, sender>>}]
           stored == IF good THEN StoreShare(l, g, sender) ELSE lacking
           confirm == IF Cleared(stored, g) THEN {<<"key_gen_confirm", g, v>>} ELSE {}
           done == [stored EXCEPT !.id = "collecting_confirmations", !.since = block,
                                  !.outbox = @ \cup confirm]
           k == HandleSecretShared(v, l, g, sender, good, last)
<1>1. k = IF l.id # "collecting_shares" \/ GroupOf(l) # g THEN l
          ELSE IF ~last THEN stored ELSE done
  BY DEF HandleSecretShared
<1>2. /\ SameGroup(l, lacking) /\ NoStart(v, l, lacking)
      /\ lacking.id = l.id /\ lacking.since = l.since
      /\ lacking.complaints = l.complaints /\ lacking.confirmations = l.confirmations
      /\ lacking.missing = l.missing \cup {sender} /\ lacking.shares = l.shares
      /\ DOMAIN lacking = DOMAIN l
  BY DEF Local, SameGroup, NoStart
<1> HIDE DEF lacking
<1>3. /\ SameGroup(l, stored) /\ NoStart(v, l, stored)
      /\ stored.id = l.id /\ stored.since = l.since
      /\ stored.complaints = l.complaints /\ stored.confirmations = l.confirmations
      /\ good => /\ stored.missing = l.missing
                 /\ \/ stored.shares = l.shares \cup {sender}
                    \/ l.members \subseteq l.shares \cup {sender} /\ stored.shares = {}
      /\ ~good => stored.missing = l.missing \cup {sender} /\ stored.shares = l.shares
  <2>1. CASE good
    <3>1. stored = StoreShare(l, g, sender)
      BY <2>1
    <3> HIDE DEF stored
    <3> QED
      BY <2>1, <3>1, StoreShareCases DEF NoStart
  <2>2. CASE ~good
    <3>1. stored = lacking
      BY <2>2
    <3> HIDE DEF stored
    <3> QED
      BY <1>2, <2>2, <3>1
  <2> QED
    BY <2>1, <2>2
<1>4. DOMAIN stored = DOMAIN l
  <2>1. DOMAIN StoreShare(l, g, sender) = DOMAIN l
    BY DEF StoreShare, RegisterSecretShare, ClearKeyGen
  <2> QED
    BY <1>2, <2>1
<1> HIDE DEF stored
<1>5. /\ SameGroup(l, done) /\ NoStart(v, l, done)
      /\ done.id = "collecting_confirmations" /\ done.since = block
      /\ done.complaints = l.complaints /\ done.confirmations = l.confirmations
      /\ done.missing = stored.missing /\ done.shares = stored.shares
  BY <1>3, <1>4 DEF SameGroup, NoStart, Local
<1> HIDE DEF done
<1> SUFFICES Sharing(v, l, k, g, sender, good, last)
  OBVIOUS
<1> HIDE DEF k
<1>6. CASE l.id # "collecting_shares" \/ GroupOf(l) # g
  BY <1>1, <1>6 DEF Sharing, Alike, SameGroup, NoStart
<1>7. CASE l.id = "collecting_shares" /\ GroupOf(l) = g
  <2>1. l.members = g.members
    BY <1>7 DEF GroupOf
  <2>2. CASE last
    <3>1. k = done
      BY <1>1, <1>7, <2>2
    <3> QED
      BY <1>3, <1>5, <1>7, <2>1, <2>2, <3>1 DEF Sharing
  <2>3. CASE ~last
    <3>1. k = stored
      BY <1>1, <1>7, <2>3
    <3> QED
      BY <1>3, <1>7, <2>1, <2>3, <3>1 DEF Sharing
  <2> QED
    BY <2>2, <2>3
<1> QED
  BY <1>6, <1>7

LEMMA SecretShareCases ==
  ASSUME RemovalInv, NEW g \in Group, NEW v \in g.members,
         NEW bad \in SUBSET (Honest \cap g.members), SecretShare(v, g, bad),
         NEW u \in Sound
  PROVE  /\ Sharing(u, local[u], local'[u], g, v, u \notin bad,
                    status'[g] = "CONFIRMING")
         /\ Kept(u, local[u], local'[u])
<1> DEFINE action == <<"key_gen_publish_secret_shares", g, v>>
           m == Sent(u, v, action)
           l == local[u]
           k == local'[u]
           good == u \notin bad
           last == status'[g] = "CONFIRMING"
<1>1. k = HandleSecretShared(u, m, g, v, good, last)
  <2> DEFINE handled == [w \in Honest |-> HandleSecretShared(w, Ready(w, v, action), g, v, w \notin bad,
                                           status'[g] = "CONFIRMING")]
  <2>1. Delivered(v, action, handled)
    BY DEF SecretShare
  <2>2. k = handled[u] /\ Ready(u, v, action) = m /\ u \in Honest
    <3> HIDE DEF handled
    <3> QED
      BY <2>1, SoundHandled, SoundOne DEF RemovalInv
  <2> QED
    BY <2>2
<1>2. l \in Local /\ u \in Validator /\ v \in Validator
  BY SoundOne, GroupSize DEF RemovalInv
<1>3. m \in Local /\ Alike(l, m) /\ m.outbox \subseteq l.outbox
  BY <1>2, SentAlike
<1> HIDE DEF m
<1>4. Sharing(u, m, k, g, v, good, last)
  <2>1. last \in BOOLEAN /\ good \in BOOLEAN
    OBVIOUS
  <2> HIDE DEF last, good
  <2> QED
    BY <1>1, <1>2, <1>3, <2>1, SharingCases
<1> HIDE DEF k, l, last, good
<1>5. Sharing(u, l, k, g, v, good, last)
  BY <1>3, <1>4 DEF Sharing, Alike, SameGroup, NoStart, GroupOf
<1>6. Kept(u, l, k)
  BY <1>5 DEF Sharing, Alike, Kept, Collecting
<1> QED
  BY <1>5, <1>6 DEF k, l, last, good

LEMMA SecretShareContract ==
  ASSUME Inv, Inv', NEW g \in Group, NEW v \in g.members, NEW bad, SecretShare(v, g, bad)
  PROVE  /\ identifiers' = identifiers /\ confirmed' = confirmed /\ statuses' = statuses
         /\ keys' = [keys EXCEPT ![g] = @ \cup {v}]
         /\ confirmed[g] = {}
         /\ status'[g] # "CONFIRMING" => ~(g.members \subseteq keys'[g])
<1>1. v \in Validator
  BY GroupSize
<1>2. status \in [Group -> KG!GroupStatus] /\ keys \in [Group -> SUBSET Validator]
  BY DEF Inv, KG!KeyGenInv, KG!KeyGenTypeOK
<1>3. /\ identifiers' = identifiers /\ confirmed' = confirmed /\ statuses' = statuses
      /\ keys' = [keys EXCEPT ![g] = @ \cup {identifiers[g][v]}]
      /\ identifiers[g][v] # 0
      /\ status[g] = "SHARING"
      /\ status' = [status EXCEPT ![g] = IF pending[g] = 1 THEN "CONFIRMING" ELSE @]
  BY DEF SecretShare, KeyGenSecretShare, SetKey, PhaseStep
<1>4. identifiers[g][v] = v
  BY <1>1, <1>3 DEF Inv, OwnNames
<1>5. status'[g] \in {"SHARING", "CONFIRMING"}
  BY <1>2, <1>3
<1>6. Phases(g) /\ Phases(g)'
  BY PhasesHold, PhasesHoldNext
<1> QED
  BY <1>3, <1>4, <1>5, <1>6 DEF Phases

LEMMA SecretShareRemoval ==
  ASSUME RemovalInv, NEW g \in Group, NEW v \in g.members,
         NEW bad \in SUBSET (Honest \cap g.members), SecretShare(v, g, bad)
  PROVE  RemovalInv'
<1> DEFINE last == status'[g] = "CONFIRMING"
<1>0. Inv /\ \A u \in Sound : local[u] \in Local
  BY SoundOne DEF RemovalInv
<1>0s. Sound' = Sound /\ \A u \in Sound : u \in Honest /\ local[u] \in Local
  <2>1. Sound' = Sound
    BY SoundSame DEF SecretShare
  <2> QED
    BY <2>1, SoundOne DEF RemovalInv
<1>1. Inv'
  BY <1>0, SecretShareStep
<1>2. /\ identifiers' = identifiers /\ confirmed' = confirmed /\ statuses' = statuses
      /\ keys' = [keys EXCEPT ![g] = @ \cup {v}]
      /\ confirmed[g] = {}
      /\ ~last => ~(g.members \subseteq keys'[g])
  BY <1>0, <1>1, SecretShareContract
<1>3. \A u \in Sound : /\ Sharing(u, local[u], local'[u], g, v, u \notin bad, last)
                        /\ Kept(u, local[u], local'[u])
  BY SecretShareCases
<1>4. keys \in [Group -> SUBSET Validator]
  BY <1>0 DEF Inv, KG!KeyGenInv, KG!KeyGenTypeOK
<1> HIDE DEF last
<1>5. Moving(block)
  BY <1>0s, <1>1, <1>2, <1>3 DEF Moving, Moves, StatusesGrow, Inv, LocalInv
<1>6. \A h \in Group : /\ Committed(h)' = Committed(h)
                       /\ \A a : Accused(h, a)' <=> Accused(h, a)
  BY <1>2 DEF Committed, Accused
<1>7. v \in Honest => bad = {}
  BY DEF SecretShare, Disturbs
<1>8. ASSUME NEW u \in Sound PROVE Stored(local[u])'
  <2> DEFINE l == local[u]  k == local'[u]  good == u \notin bad
  <2>1. Stored(l) /\ Sharing(u, l, k, g, v, good, last) /\ l \in Local
    BY <1>0, <1>3 DEF RemovalInv, OwnInv
  <2>2. CASE l.id = "collecting_shares" /\ GroupOf(l) = g
    <3>1. /\ GroupOf(k) = g /\ k.complaints = l.complaints
          /\ k.confirmations = l.confirmations
      BY <2>1, <2>2 DEF Sharing, SameGroup, GroupOf
    <3>2. /\ l.shares \cup l.missing \subseteq keys[g]
          /\ Honest \cap keys[g] \subseteq l.shares
          /\ l.confirmations = {}
          /\ g.members \subseteq Committed(g)
          /\ \A a \in Validator :
               l.complaints[a].total > 0 \/ l.complaints[a].unresponded > 0 => Accused(g, a)
      BY <2>1, <2>2 DEF Stored, Collecting
    <3>3. g.members \subseteq Committed(g)'
      BY <1>6, <3>2
    <3>4. \A a \in Validator :
            k.complaints[a].total > 0 \/ k.complaints[a].unresponded > 0 => Accused(g, a)'
      BY <1>6, <3>1, <3>2
    <3>5. keys'[g] = keys[g] \cup {v}
      BY <1>2, <1>4
    <3>6. CASE last
      <4>1. k.id = "collecting_confirmations" /\ confirmed'[g] = {}
        BY <1>2, <2>1, <2>2, <3>6 DEF Sharing
      <4> QED
        BY <3>1, <3>3, <3>4, <4>1 DEF Stored, Collecting
    <3>7. CASE ~last
      <4>1. k.id = "collecting_shares" /\ ~(g.members \subseteq keys'[g])
        BY <1>2, <2>1, <2>2, <3>7 DEF Sharing
      <4>2. /\ k.shares \cup k.missing \subseteq keys'[g]
            /\ Honest \cap keys'[g] \subseteq k.shares
        <5>1. CASE good
          <6>1. l.shares \cup {v} \subseteq keys'[g] /\ l.missing \subseteq keys'[g]
            BY <3>2, <3>5
          <6>2. k.shares = l.shares \cup {v} /\ k.missing = l.missing
            BY <2>1, <2>2, <4>1, <5>1, <6>1 DEF Sharing
          <6> QED
            BY <3>2, <3>5, <6>1, <6>2
        <5>2. CASE ~good
          <6>1. k.missing = l.missing \cup {v} /\ k.shares = l.shares
            BY <2>1, <2>2, <5>2 DEF Sharing
          <6>2. v \notin Honest
            BY <1>7, <5>2
          <6> QED
            BY <3>2, <3>5, <6>1, <6>2
        <5> QED
          BY <5>1, <5>2
      <4> QED
        BY <3>1, <3>2, <3>3, <3>4, <4>1, <4>2 DEF Stored, Collecting
    <3> QED
      BY <3>6, <3>7
  <2>3. CASE ~(l.id = "collecting_shares" /\ GroupOf(l) = g)
    <3>1. Alike(l, k)
      BY <2>1, <2>3 DEF Sharing
    <3>2. l.id = "collecting_shares" => keys'[GroupOf(l)] = keys[GroupOf(l)]
      BY <1>2, <1>4, <2>3, CollectingGroup DEF Collecting
    <3>3. StatusesGrow
      BY <1>5 DEF Moving
    <3> QED
      BY <1>2, <1>6, <3>1, <3>2, <3>3, AlikeStored
  <2> QED
    BY <2>2, <2>3
<1>9. StayTogether(block)
  <2> SUFFICES ASSUME NEW x \in Sound, NEW y \in Sound, NEW h \in Group,
                      Same(x, y, local[x], local[y])
               PROVE  Same(x, y, local'[x], local'[y])
    BY <1>0s DEF StayTogether
  <2> DEFINE l == local[x]  m == local[y]  k == local'[x]  n == local'[y]
  <2>1. Sharing(x, l, k, g, v, x \notin bad, last) /\ Sharing(y, m, n, g, v, y \notin bad, last)
    BY <1>3
  <2> HIDE DEF l, m, k, n
  <2>2. Same(x, y, l, m)
    BY DEF l, m
  <2>3. /\ GroupOf(n) = GroupOf(k) /\ n.id = k.id /\ n.since = k.since
        /\ k.complaints = l.complaints /\ n.complaints = m.complaints
        /\ k.confirmations = l.confirmations /\ n.confirmations = m.confirmations
    BY <2>1, <2>2 DEF Same, Sharing, Alike, SameGroup, GroupOf
  <2>4. n.id = "collecting_commitments" => n.commitments = k.commitments
    BY <2>1, <2>2 DEF Same, Sharing, Alike
  <2>5. Same(x, y, k, n)
    BY <2>2, <2>3, <2>4 DEF Same
  <2> QED
    BY <2>5 DEF k, n
<1> QED
  BY <1>0s, <1>1, <1>2, <1>5, <1>8, <1>9, RemovalStep

\* What a handler of a confirmation does.
Confirming(v, l, k, g, sender) ==
  LET taken == l.id = "collecting_confirmations" /\ GroupOf(l) = g
      stored == l.confirmations \cup {sender}
  IN  /\ SameGroup(l, k) /\ NoStart(v, l, k)
      /\ ~taken => Alike(l, k)
      /\ taken /\ g.members \subseteq stored => k.id = "sign_rollover"
      /\ taken /\ ~(g.members \subseteq stored) =>
           /\ k.id = l.id /\ k.since = l.since
           /\ k.complaints = l.complaints /\ k.confirmations = stored

LEMMA ConfirmingCases ==
  ASSUME NEW v, NEW l \in Local, NEW g, NEW sender
  PROVE  Confirming(v, l, HandleConfirmed(v, l, g, sender), g, sender)
<1> DEFINE stored == l.confirmations \cup {sender}
           signing == [l EXCEPT !.id = "sign_rollover", !.since = 0, !.missing = {},
                     !.complaints = NoComplaints, !.confirmations = {}]
           waiting == [l EXCEPT !.confirmations = stored]
           k == HandleConfirmed(v, l, g, sender)
<1>1. k = IF l.id # "collecting_confirmations" \/ GroupOf(l) # g THEN l
          ELSE IF g.members \subseteq stored THEN signing ELSE waiting
  BY DEF HandleConfirmed
<1>2. /\ SameGroup(l, signing) /\ NoStart(v, l, signing)
      /\ signing.id = "sign_rollover"
  BY DEF SameGroup, NoStart, Local
<1>3. /\ SameGroup(l, waiting) /\ NoStart(v, l, waiting)
      /\ waiting.id = l.id /\ waiting.since = l.since
      /\ waiting.complaints = l.complaints /\ waiting.confirmations = stored
  BY DEF SameGroup, NoStart, Local
<1>4. Alike(l, l) /\ SameGroup(l, l) /\ NoStart(v, l, l)
  BY DEF Alike, SameGroup, NoStart
<1> SUFFICES Confirming(v, l, k, g, sender)
  OBVIOUS
<1> HIDE DEF k, signing, waiting
<1>5. CASE l.id # "collecting_confirmations" \/ GroupOf(l) # g
  BY <1>1, <1>4, <1>5 DEF Confirming
<1>6. CASE l.id = "collecting_confirmations" /\ GroupOf(l) = g
  BY <1>1, <1>2, <1>3, <1>6 DEF Confirming
<1> QED
  BY <1>5, <1>6

LEMMA ConfirmCases ==
  ASSUME RemovalInv, NEW g \in Group, NEW v \in g.members, ConfirmKeyGen(v, g),
         NEW u \in Sound
  PROVE  Confirming(u, local[u], local'[u], g, v) /\ Kept(u, local[u], local'[u])
<1> DEFINE action == <<"key_gen_confirm", g, v>>
           m == Sent(u, v, action)
           l == local[u]
           k == local'[u]
<1>1. k = HandleConfirmed(u, m, g, v)
  <2> DEFINE handled == [w \in Honest |-> HandleConfirmed(w, Ready(w, v, action), g, v)]
  <2>1. Delivered(v, action, handled)
    BY DEF ConfirmKeyGen
  <2>2. k = handled[u] /\ Ready(u, v, action) = m /\ u \in Honest
    <3> HIDE DEF handled
    <3> QED
      BY <2>1, SoundHandled, SoundOne DEF RemovalInv
  <2> QED
    BY <2>2
<1>2. l \in Local
  BY SoundOne DEF RemovalInv
<1>3. m \in Local /\ Alike(l, m) /\ m.outbox \subseteq l.outbox
  BY <1>2, SentAlike
<1> HIDE DEF m
<1>4. Confirming(u, m, k, g, v)
  BY <1>1, <1>3, ConfirmingCases
<1> HIDE DEF k, l
<1>5. Confirming(u, l, k, g, v)
  BY <1>3, <1>4 DEF Confirming, Alike, SameGroup, NoStart, GroupOf
<1>6. Kept(u, l, k)
  BY <1>5 DEF Confirming, Alike, Kept, Collecting
<1> QED
  BY <1>5, <1>6 DEF k, l

LEMMA ConfirmContract ==
  ASSUME Inv, NEW g \in Group, NEW v \in g.members, ConfirmKeyGen(v, g)
  PROVE  /\ identifiers' = identifiers /\ keys' = keys /\ statuses' = statuses
         /\ confirmed' = [confirmed EXCEPT ![g] = @ \cup {v}]
<1>1. v \in Validator
  BY GroupSize
<1>2. /\ identifiers' = identifiers /\ keys' = keys /\ statuses' = statuses
      /\ confirmed' = [confirmed EXCEPT ![g] = @ \cup {identifiers[g][v]}]
      /\ identifiers[g][v] # 0
  BY DEF ConfirmKeyGen, KeyGenConfirm, Confirm
<1>3. identifiers[g][v] = v
  BY <1>1, <1>2 DEF Inv, OwnNames
<1> QED
  BY <1>2, <1>3

LEMMA ConfirmRemoval ==
  ASSUME RemovalInv, NEW g \in Group, NEW v \in g.members, ConfirmKeyGen(v, g)
  PROVE  RemovalInv'
<1>0. Inv /\ \A u \in Sound : local[u] \in Local
  BY SoundOne DEF RemovalInv
<1>0s. Sound' = Sound /\ \A u \in Sound : u \in Honest /\ local[u] \in Local
  <2>1. Sound' = Sound
    BY SoundSame DEF ConfirmKeyGen
  <2> QED
    BY <2>1, SoundOne DEF RemovalInv
<1>1. Inv'
  BY <1>0, ConfirmKeyGenStep
<1>2. /\ identifiers' = identifiers /\ keys' = keys /\ statuses' = statuses
      /\ confirmed' = [confirmed EXCEPT ![g] = @ \cup {v}]
  BY <1>0, ConfirmContract
<1>3. \A u \in Sound : Confirming(u, local[u], local'[u], g, v)
                        /\ Kept(u, local[u], local'[u])
  BY ConfirmCases
<1>4. confirmed \in [Group -> SUBSET Validator]
  BY <1>0 DEF Inv, KG!KeyGenInv, KG!KeyGenTypeOK
<1>5. Moving(block)
  BY <1>0s, <1>1, <1>2, <1>3 DEF Moving, Moves, StatusesGrow, Inv, LocalInv
<1>6. \A h \in Group : /\ Committed(h)' = Committed(h)
                       /\ \A a : Accused(h, a)' <=> Accused(h, a)
  BY <1>2 DEF Committed, Accused
<1>7. ASSUME NEW u \in Sound PROVE Stored(local[u])'
  <2> DEFINE l == local[u]  k == local'[u]
  <2>1. Stored(l) /\ Confirming(u, l, k, g, v) /\ l \in Local
    BY <1>0, <1>3 DEF RemovalInv, OwnInv
  <2>2. CASE l.id = "collecting_confirmations" /\ GroupOf(l) = g
    <3>1. CASE g.members \subseteq l.confirmations \cup {v}
      BY <2>1, <2>2, <3>1 DEF Confirming, Stored, Collecting
    <3>2. CASE ~(g.members \subseteq l.confirmations \cup {v})
      <4>1. /\ GroupOf(k) = g /\ k.complaints = l.complaints /\ k.id = l.id
            /\ k.confirmations = l.confirmations \cup {v}
        BY <2>1, <2>2, <3>2 DEF Confirming, SameGroup, GroupOf
      <4>2. /\ confirmed[g] \subseteq l.confirmations
            /\ g.members \subseteq Committed(g)
            /\ \A a \in Validator :
                 l.complaints[a].total > 0 \/ l.complaints[a].unresponded > 0 => Accused(g, a)
        BY <2>1, <2>2 DEF Stored, Collecting
      <4>3. g.members \subseteq Committed(g)'
        BY <1>6, <4>2
      <4>4. \A a \in Validator :
              k.complaints[a].total > 0 \/ k.complaints[a].unresponded > 0 => Accused(g, a)'
        BY <1>6, <4>1, <4>2
      <4>5. confirmed'[g] \subseteq k.confirmations
        BY <1>2, <1>4, <4>1, <4>2
      <4> QED
        BY <2>2, <4>1, <4>3, <4>4, <4>5 DEF Stored, Collecting
    <3> QED
      BY <3>1, <3>2
  <2>3. CASE ~(l.id = "collecting_confirmations" /\ GroupOf(l) = g)
    <3>1. Alike(l, k)
      BY <2>1, <2>3 DEF Confirming
    <3>2. l.id = "collecting_confirmations" =>
            confirmed'[GroupOf(l)] = confirmed[GroupOf(l)]
      BY <1>2, <1>4, <2>3, CollectingGroup DEF Collecting
    <3>3. StatusesGrow
      BY <1>5 DEF Moving
    <3> QED
      BY <1>2, <1>6, <3>1, <3>2, <3>3, AlikeStored
  <2> QED
    BY <2>2, <2>3
<1>8. StayTogether(block)
  <2> SUFFICES ASSUME NEW x \in Sound, NEW y \in Sound, NEW h \in Group,
                      Same(x, y, local[x], local[y]), At(local'[x], h)
               PROVE  Same(x, y, local'[x], local'[y])
    BY <1>0s DEF StayTogether
  <2> DEFINE l == local[x]  m == local[y]  k == local'[x]  n == local'[y]
  <2>1. Confirming(x, l, k, g, v) /\ Confirming(y, m, n, g, v)
    BY <1>3
  <2> HIDE DEF l, m, k, n
  <2>2. Same(x, y, l, m) /\ k.id \in Collecting
    BY DEF l, m, k, At
  <2>3. /\ GroupOf(n) = GroupOf(k) /\ n.id = k.id /\ n.since = k.since
        /\ k.complaints = l.complaints /\ n.complaints = m.complaints
        /\ n.confirmations = k.confirmations
    BY <2>1, <2>2 DEF Same, Confirming, Alike, SameGroup, GroupOf, Collecting
  <2>4. n.id = "collecting_commitments" => n.commitments = k.commitments
    BY <2>1, <2>2 DEF Same, Confirming, Alike, Collecting
  <2>5. Same(x, y, k, n)
    BY <2>2, <2>3, <2>4 DEF Same
  <2> QED
    BY <2>5 DEF k, n
<1> QED
  BY <1>0s, <1>1, <1>2, <1>5, <1>7, <1>8, RemovalStep

\* Key generation is started again without the accused; a handler that throws
\* is the one of the accused.
Expelled(v, l, k, accused, b) ==
  \/ Skipped(l, k)
  \/ \E h \in Group : Restarted(v, l, k, h, b) /\ h.members = l.members \ {accused}
  \/ Alike(l, k) /\ NoStart(v, l, k) /\ v = accused

LEMMA ExpelledCases ==
  ASSUME NEW v \in Validator, NEW l, NEW m, NEW accused, NEW b \in Nat, NEW g \in Group,
         Held(v, l), Attempts(v, l), GroupOf(l) = g, accused \in g.members,
         l.id \in {"collecting_shares", "collecting_confirmations"},
         m \in Local, Alike(l, m), m.outbox \subseteq l.outbox
  PROVE  Expelled(v, l, Trigger(v, m, m.epoch, g.members \ {accused}, b), accused, b)
<1> DEFINE R == g.members \ {accused}
           k == Trigger(v, m, m.epoch, R, b)
           h == [epoch |-> m.epoch, members |-> R]
<1>1. /\ m.epoch = l.epoch /\ m.registered = l.registered
      /\ l.members = g.members /\ l.epoch = g.epoch /\ v \in g.members
  BY DEF Alike, SameGroup, GroupOf, Attempts, Collecting
<1>2. l.epoch \in 1 .. LastEpoch /\ R \in SUBSET Validator
  BY <1>1, GroupSize DEF Group, LastEpoch
<1>3. Triggered(v, m, k, m.epoch, R, b)
  <2>1. PICK e \in 1 .. LastEpoch : e = m.epoch
    BY <1>1, <1>2
  <2> QED
    BY <1>2, <2>1, TriggerCases
<1>4. MayRegister(v, m, h) <=> v # accused
  <2>1. h \notin m.registered
    <3>1. \A x \in l.registered : x.epoch = l.epoch => g.members \subseteq x.members
      BY <1>1 DEF Attempts, Collecting
    <3> QED
      BY <1>1, <3>1
  <2> QED
    BY <1>1, <2>1 DEF MayRegister
<1> SUFFICES Expelled(v, l, k, accused, b)
  OBVIOUS
<1> HIDE DEF k
<1>5. CASE Skipped(m, k)
  BY <1>1, <1>5 DEF Skipped, Expelled
<1>6. ASSUME h \in Group, Entered(v, m, k, h, b)
      PROVE  Expelled(v, l, k, accused, b)
  <2>1. Entered(v, l, k, h, b)
    BY <1>1, <1>6 DEF Entered
  <2>2. Restarted(v, l, k, h, b) /\ h.members = l.members \ {accused}
    BY <1>1, <2>1 DEF Restarted, Collecting
  <2> QED
    BY <1>6, <2>2 DEF Expelled
<1>7. CASE ~MayRegister(v, m, h) /\ k = m
  BY <1>4, <1>7 DEF Expelled, Alike, NoStart
<1> QED
  BY <1>3, <1>5, <1>6, <1>7 DEF Triggered

\* A validator counts a complaint.
Counted(v, l, k, accused) ==
  /\ SameGroup(l, k) /\ NoStart(v, l, k)
  /\ k.id = l.id /\ k.since = l.since /\ k.commitments = l.commitments
  /\ k.shares = l.shares /\ k.missing = l.missing /\ k.confirmations = l.confirmations
  /\ \A a \in Validator \ {accused} : k.complaints[a] = l.complaints[a]
  /\ k.complaints[accused].total = l.complaints[accused].total + 1
  /\ k.complaints[accused].unresponded = l.complaints[accused].unresponded + 1

\* What a handler of a complaint does.
Complaining(v, l, k, g, accused) ==
  LET takes == TakesDispute(l, g, l.since + KeyGenTimeout)
      quorum == l.complaints[accused].total + 1 >= Threshold(g)
  IN  /\ ~takes => Alike(l, k) /\ NoStart(v, l, k)
      /\ takes /\ quorum => Expelled(v, l, k, accused, block)
      /\ takes /\ ~quorum => \/ Counted(v, l, k, accused)
                             \/ Alike(l, k) /\ NoStart(v, l, k) /\ v = accused

LEMMA ComplainingCases ==
  ASSUME NEW v \in Validator, NEW l, NEW m, NEW g \in Group, NEW plaintiff \in Validator,
         NEW accused \in g.members, Held(v, l), Attempts(v, l), block \in Nat,
         m \in Local, Alike(l, m), m.outbox \subseteq l.outbox
  PROVE  Complaining(v, l, HandleComplaintSubmitted(v, m, g, plaintiff, accused), g,
                     accused)
<1> DEFINE k == HandleComplaintSubmitted(v, m, g, plaintiff, accused)
           total == l.complaints[accused].total + 1
           takes == TakesDispute(l, g, l.since + KeyGenTimeout)
           respond == IF accused = v
                      THEN {<<"key_gen_complaint_response", g, plaintiff>>} ELSE {}
           counted == [m EXCEPT !.complaints[accused].total = total,
                                !.complaints[accused].unresponded = @ + 1,
                                !.outbox = @ \cup respond]
<1>0. accused \in Validator /\ l \in Local
  BY GroupSize DEF Held
<1>1. /\ m.complaints = l.complaints
      /\ TakesDispute(m, g, m.since + KeyGenTimeout) <=> takes
  BY DEF Alike, SameGroup, TakesDispute, GroupOf
<1>2. k = IF ~takes THEN m
          ELSE IF total >= Threshold(g)
          THEN Trigger(v, m, m.epoch, g.members \ {accused}, block)
          ELSE IF accused = v /\ Cleared(m, g) THEN m ELSE counted
  BY <1>1 DEF HandleComplaintSubmitted
<1>3. Alike(l, m) /\ NoStart(v, l, m)
  BY DEF NoStart
<1>4. Counted(v, l, counted, accused)
  <2>1. \A h \in Group : <<"key_gen_start", h, v>> \notin respond
    OBVIOUS
  <2> HIDE DEF respond
  <2>2. /\ counted.epoch = m.epoch /\ counted.members = m.members
        /\ counted.registered = m.registered /\ counted.id = m.id
        /\ counted.since = m.since /\ counted.commitments = m.commitments
        /\ counted.shares = m.shares /\ counted.missing = m.missing
        /\ counted.confirmations = m.confirmations
        /\ counted.outbox = m.outbox \cup respond
    BY DEF Local
  <2>3. /\ \A a \in Validator \ {accused} : counted.complaints[a] = m.complaints[a]
        /\ counted.complaints[accused].total = total
        /\ counted.complaints[accused].unresponded = m.complaints[accused].unresponded + 1
    BY <1>0 DEF Local
  <2> HIDE DEF counted
  <2> QED
    BY <1>1, <2>1, <2>2, <2>3 DEF Counted, Alike, SameGroup, NoStart
<1>5. takes => Expelled(v, l, Trigger(v, m, m.epoch, g.members \ {accused}, block),
                       accused, block)
  BY ExpelledCases DEF TakesDispute
<1> SUFFICES Complaining(v, l, k, g, accused)
  OBVIOUS
<1> HIDE DEF k, counted
<1> QED
  BY <1>2, <1>3, <1>4, <1>5 DEF Complaining

LEMMA ComplaintCases ==
  ASSUME RemovalInv, NEW g \in Group, NEW v \in g.members, NEW accused \in g.members,
         SubmitComplaint(v, g, accused), NEW u \in Sound
  PROVE  Complaining(u, local[u], local'[u], g, accused)
<1> DEFINE action == <<"key_gen_complain", g, accused>>
           m == Sent(u, v, action)
           l == local[u]
           k == local'[u]
<1>1. k = HandleComplaintSubmitted(u, m, g, v, accused)
  <2> DEFINE handled == [w \in Honest |-> HandleComplaintSubmitted(w, Ready(w, v, action), g, v, accused)]
  <2>1. Delivered(v, action, handled)
    BY DEF SubmitComplaint
  <2>2. k = handled[u] /\ Ready(u, v, action) = m /\ u \in Honest
    <3> HIDE DEF handled
    <3> QED
      BY <2>1, SoundHandled, SoundOne DEF RemovalInv
  <2> QED
    BY <2>2
<1>2. /\ l \in Local /\ Held(u, l) /\ Attempts(u, l) /\ block \in Nat
      /\ u \in Validator /\ v \in Validator
  BY SoundOne, GroupSize DEF RemovalInv, Inv, OwnInv, BlockInv
<1>3. m \in Local /\ Alike(l, m) /\ m.outbox \subseteq l.outbox
  BY <1>2, SentAlike
<1> HIDE DEF m
<1>4. Complaining(u, l, k, g, accused)
  <2> HIDE DEF l
  <2> QED
    BY <1>1, <1>2, <1>3, ComplainingCases
<1> QED
  BY <1>4

LEMMA ExpelledMoves ==
  ASSUME NEW v, NEW l, NEW k, NEW accused, NEW b, Expelled(v, l, k, accused, b)
  PROVE  Moves(v, l, k, b)
BY AlikeKept DEF Expelled, Moves

\* Nobody but the accused stays in the group without which it restarts.
LEMMA ExpelledLeaves ==
  ASSUME NEW v, NEW l, NEW k, NEW accused, NEW b, Held(v, l), Attempts(v, l),
         NEW g \in Group, At(l, g), Expelled(v, l, k, accused, b), v # accused
  PROVE  ~At(k, g) /\ Left(accused, k, g)
<1>1. \/ Skipped(l, k)
      \/ \E h \in Group : Restarted(v, l, k, h, b) /\ accused \notin h.members
  BY DEF Expelled
<1>2. Left(accused, k, g)
  BY <1>1, Leaves
<1> QED
  BY <1>2 DEF Left

LEMMA ComplaintContract ==
  ASSUME Inv, NEW g \in Group, NEW v \in g.members, NEW accused \in g.members,
         SubmitComplaint(v, g, accused)
  PROVE  /\ identifiers' = identifiers /\ keys' = keys /\ confirmed' = confirmed
         /\ StatusesGrow
         /\ statuses'[g][<<v, accused>>] # "NONE"
<1>1. v \in Validator /\ accused \in Validator
  BY GroupSize
<1>2. statuses \in [Group -> [Validator \X Validator -> KG!ComplaintStatus]]
  BY DEF Inv, KG!KeyGenInv, KG!KeyGenTypeOK
<1>3. /\ identifiers' = identifiers /\ keys' = keys /\ confirmed' = confirmed
      /\ identifiers[g][v] # 0
      /\ statuses[g][<<identifiers[g][v], accused>>] = "NONE"
      /\ statuses' = [statuses EXCEPT ![g][<<identifiers[g][v], accused>>] = "SUBMITTED"]
  BY DEF SubmitComplaint, KeyGenComplain, Complain
<1>4. identifiers[g][v] = v
  BY <1>1, <1>3 DEF Inv, OwnNames
<1>5. statuses' = [statuses EXCEPT ![g] = [statuses[g] EXCEPT ![<<v, accused>>] = "SUBMITTED"]]
  BY <1>2, <1>3, <1>4
<1>6. \A h \in Group, p, a \in Validator :
        statuses'[h][<<p, a>>] = IF h = g /\ p = v /\ a = accused THEN "SUBMITTED"
                                 ELSE statuses[h][<<p, a>>]
  BY <1>1, <1>2, <1>5
<1>7. StatusesGrow
  <2> SUFFICES ASSUME NEW h \in Group, NEW p \in h.members, NEW a \in h.members
               PROVE  /\ statuses[h][<<p, a>>] # "NONE" => statuses'[h][<<p, a>>] # "NONE"
                      /\ statuses[h][<<p, a>>] = "RESPONDED" =>
                           statuses'[h][<<p, a>>] = "RESPONDED"
    BY DEF StatusesGrow
  <2>1. p \in Validator /\ a \in Validator
    BY GroupSize
  <2> QED
    BY <1>3, <1>4, <1>6, <2>1
<1> QED
  BY <1>1, <1>3, <1>6, <1>7

LEMMA ComplaintTogether ==
  ASSUME RemovalInv, NEW g \in Group, NEW v \in g.members, NEW accused \in g.members,
         SubmitComplaint(v, g, accused)
  PROVE  StayTogether(block)
<1> SUFFICES ASSUME NEW x \in Sound, NEW y \in Sound, NEW h \in Group,
                    x # y, At(local[x], h), At(local'[x], h),
                    Same(x, y, local[x], local[y])
             PROVE  Same(x, y, local'[x], local'[y]) \/ Left(x, local'[y], h)
  <2>1. Sound' = Sound
    BY SoundSame DEF SubmitComplaint
  <2> QED
    BY <2>1 DEF StayTogether
<1> DEFINE l == local[x]  m == local[y]  k == local'[x]  n == local'[y]
<1>1. Complaining(x, l, k, g, accused) /\ Complaining(y, m, n, g, accused)
  BY ComplaintCases
<1>2. /\ Held(x, l) /\ Attempts(x, l) /\ Held(y, m) /\ Attempts(y, m)
      /\ l \in Local /\ m \in Local
      /\ accused \in Validator /\ x \in Validator /\ y \in Validator
      /\ block \in Nat /\ KeyGenTimeout \in Nat
      /\ x \in Honest /\ y \in Honest
  BY SoundOne, GroupSize, ValidatorAssumption DEF RemovalInv, Inv, OwnInv, BlockInv
<1> HIDE DEF l, m, k, n
<1>3. Same(x, y, l, m) /\ At(l, h) /\ At(k, h) /\ At(m, h)
  BY DEF l, m, k, Same, At
<1> SUFFICES Same(x, y, k, n) \/ Left(x, n, h)
  BY DEF k, n
<1>4. TakesDispute(l, g, l.since + KeyGenTimeout) <=> TakesDispute(m, g, m.since + KeyGenTimeout)
  BY <1>3 DEF TakesDispute, Same
<1>5. ASSUME Alike(l, k), Alike(m, n) PROVE Same(x, y, k, n)
  BY <1>3, <1>5 DEF Same, Alike, SameGroup, GroupOf
<1>6. CASE ~TakesDispute(l, g, l.since + KeyGenTimeout)
  BY <1>1, <1>4, <1>5, <1>6 DEF Complaining
<1>7. CASE TakesDispute(l, g, l.since + KeyGenTimeout)
  <2> DEFINE lt == l.complaints[accused].total + 1
             mt == m.complaints[accused].total + 1
  <2>1. lt \in Nat /\ mt \in Nat /\ Threshold(g) \in Nat
    BY <1>2, GroupSize DEF Local
  <2>2. x # accused => ~(lt >= Threshold(g))
    BY <1>1, <1>2, <1>3, <1>7, ExpelledLeaves, ValidatorAssumption DEF Complaining
  <2>3. CASE mt >= Threshold(g) /\ y # accused
    <3>1. Left(accused, n, h)
      BY <1>1, <1>2, <1>3, <1>4, <1>7, <2>3, ExpelledLeaves DEF Complaining
    <3>2. x = accused
      <4>1. ASSUME x # accused PROVE FALSE
        <5>1. m.complaints[accused] = l.complaints[accused]
          BY <1>2, <1>3, <2>3, <4>1 DEF Same
        <5> QED
          BY <2>2, <2>3, <4>1, <5>1
      <4> QED
        BY <4>1
    <3> QED
      BY <3>1, <3>2
  <2>4. CASE ~(mt >= Threshold(g) /\ y # accused)
    <3>1. ~(lt >= Threshold(g)) /\ ~(mt >= Threshold(g))
      <4>1. CASE x = accused
        <5>1. ~(mt >= Threshold(g))
          BY <1>3, <2>4, <4>1, x # y
        <5>2. lt <= mt
          BY <1>2, <1>3, <4>1 DEF Same, AtMost, Local
        <5> QED
          BY <2>1, <5>1, <5>2
      <4>2. CASE y = accused
        <5>1. ~(lt >= Threshold(g))
          BY <2>2, <4>2, x # y
        <5>2. mt <= lt
          BY <1>2, <1>3, <4>2 DEF Same, AtMost, Local
        <5> QED
          BY <2>1, <5>1, <5>2
      <4>3. CASE x # accused /\ y # accused
        BY <2>2, <2>4, <4>3
      <4> QED
        BY <4>1, <4>2, <4>3
    <3>2. /\ Counted(x, l, k, accused) \/ (Alike(l, k) /\ x = accused)
          /\ Counted(y, m, n, accused) \/ (Alike(m, n) /\ y = accused)
      BY <1>1, <1>4, <1>7, <3>1 DEF Complaining
    <3>3. /\ GroupOf(n) = GroupOf(k) /\ n.id = k.id /\ n.since = k.since
          /\ n.confirmations = k.confirmations
          /\ n.id = "collecting_commitments" => n.commitments = k.commitments
      BY <1>3, <3>2 DEF Same, Counted, Alike, SameGroup, GroupOf
    <3>4. \A a \in Validator \ {accused} :
            k.complaints[a] = l.complaints[a] /\ n.complaints[a] = m.complaints[a]
      BY <3>2 DEF Counted, Alike
    <3>5. /\ \A a \in Validator \ {x, y} : m.complaints[a] = l.complaints[a]
          /\ AtMost(l.complaints[x], m.complaints[x])
          /\ AtMost(m.complaints[y], l.complaints[y])
      BY <1>3 DEF Same
    <3>6. /\ l.complaints \in [Validator -> [total : Nat, unresponded : Nat]]
          /\ m.complaints \in [Validator -> [total : Nat, unresponded : Nat]]
      BY <1>2 DEF Local
    <3>7. AtMost(k.complaints[x], n.complaints[x])
      <4>1. CASE x = accused
        BY <1>2, <3>2, <3>5, <3>6, <4>1, x # y DEF AtMost, Counted, Alike
      <4>2. CASE x # accused
        BY <1>2, <3>4, <3>5, <4>2
      <4> QED
        BY <4>1, <4>2
    <3>8. AtMost(n.complaints[y], k.complaints[y])
      <4>1. CASE y = accused
        BY <1>2, <3>2, <3>5, <3>6, <4>1, x # y DEF AtMost, Counted, Alike
      <4>2. CASE y # accused
        BY <1>2, <3>4, <3>5, <4>2
      <4> QED
        BY <4>1, <4>2
    <3>9. ASSUME NEW a \in Validator \ {x, y} PROVE n.complaints[a] = k.complaints[a]
      <4>1. CASE a = accused
        <5>1. Counted(x, l, k, accused) /\ Counted(y, m, n, accused)
          BY <3>2, <3>9, <4>1
        <5>2. /\ k.complaints[a].total = n.complaints[a].total
              /\ k.complaints[a].unresponded = n.complaints[a].unresponded
          BY <3>5, <3>9, <4>1, <5>1 DEF Counted
        <5>3. k \in Local /\ n \in Local
          BY <1>2, SubmitComplaintStep DEF RemovalInv, Inv, LocalInv, k, n
        <5>4. k.complaints[a] \in [total : Nat, unresponded : Nat]
              /\ n.complaints[a] \in [total : Nat, unresponded : Nat]
          BY <5>3 DEF Local
        <5> QED
          BY <5>2, <5>4
      <4>2. CASE a # accused
        BY <3>4, <3>5, <4>2
      <4> QED
        BY <4>1, <4>2
    <3> QED
      BY <3>3, <3>7, <3>8, <3>9 DEF Same
  <2> QED
    BY <2>3, <2>4
<1> QED
  BY <1>6, <1>7

\* A counted complaint was made.
LEMMA CountedStored ==
  ASSUME RemovalInv, StatusesGrow, NEW u \in Sound, NEW accused, NEW g \in Group,
         Counted(u, local[u], local'[u], accused),
         GroupOf(local[u]) = g,
         local[u].id \in {"collecting_shares", "collecting_confirmations"},
         identifiers' = identifiers, keys' = keys, confirmed' = confirmed,
         Accused(g, accused)'
  PROVE  Stored(local[u])'
<1> DEFINE l == local[u]  k == local'[u]
<1>1. Stored(l) /\ GroupOf(k) = g
  BY DEF RemovalInv, OwnInv, Counted, SameGroup, GroupOf
<1>2. /\ k.id = l.id
      /\ k.shares = l.shares /\ k.missing = l.missing /\ k.confirmations = l.confirmations
      /\ \A a \in Validator \ {accused} : k.complaints[a] = l.complaints[a]
  BY DEF Counted
<1>3. Committed(g)' = Committed(g)
  BY DEF Committed
<1>4. \A a : Accused(g, a) => Accused(g, a)'
  BY AnsweredStays
<1>5. \A a \in Validator :
        k.complaints[a].total > 0 \/ k.complaints[a].unresponded > 0 => Accused(g, a)'
  <2>1. \A a \in Validator :
          l.complaints[a].total > 0 \/ l.complaints[a].unresponded > 0 => Accused(g, a)
    BY <1>1 DEF Stored, Collecting
  <2> QED
    BY <1>2, <1>4, <2>1
<1>6. /\ g.members \subseteq Committed(g)
      /\ l.id = "collecting_shares" =>
           /\ l.shares \cup l.missing \subseteq keys[g]
           /\ Honest \cap keys[g] \subseteq l.shares
           /\ ~(g.members \subseteq keys[g])
           /\ l.confirmations = {}
      /\ l.id = "collecting_confirmations" => confirmed[g] \subseteq l.confirmations
  BY <1>1 DEF Stored, Collecting
<1> QED
  BY <1>1, <1>2, <1>3, <1>5, <1>6 DEF Stored, Collecting

LEMMA ExpelledStored ==
  ASSUME RemovalInv, StatusesGrow, NEW u \in Sound, NEW accused, NEW b,
         Expelled(u, local[u], local'[u], accused, b),
         identifiers' = identifiers, keys' = keys, confirmed' = confirmed
  PROVE  Stored(local[u])'
<1>1. CASE Alike(local[u], local'[u])
  BY <1>1, AlikeStored DEF Committed
<1>2. CASE Skipped(local[u], local'[u]) \/ \E h \in Group : Entered(u, local[u], local'[u], h, b)
  BY <1>2, FreshStored
<1> QED
  BY <1>1, <1>2 DEF Expelled, Restarted

LEMMA ComplaintRemoval ==
  ASSUME RemovalInv, NEW g \in Group, NEW v \in g.members, NEW accused \in g.members,
         SubmitComplaint(v, g, accused)
  PROVE  RemovalInv'
<1>0s. Sound' = Sound /\ \A u \in Sound : u \in Honest /\ local[u] \in Local
  <2>1. Sound' = Sound
    BY SoundSame DEF SubmitComplaint
  <2> QED
    BY <2>1, SoundOne DEF RemovalInv
<1>1. Inv'
  BY SubmitComplaintStep DEF RemovalInv
<1>2. /\ identifiers' = identifiers /\ keys' = keys /\ confirmed' = confirmed
      /\ StatusesGrow
      /\ statuses'[g][<<v, accused>>] # "NONE"
  BY ComplaintContract DEF RemovalInv
<1>3. Accused(g, accused)'
  BY <1>2 DEF Accused
<1>4. \A u \in Sound : Complaining(u, local[u], local'[u], g, accused)
  BY ComplaintCases
<1>5. \A u \in Sound : Moves(u, local[u], local'[u], block)
  <2>1. ASSUME NEW u \in Sound, Counted(u, local[u], local'[u], accused)
        PROVE  Kept(u, local[u], local'[u])
    BY <2>1 DEF Counted, Kept
  <2> QED
    BY <1>4, <2>1, ExpelledMoves, AlikeKept DEF Complaining, Moves
<1>6. Moving(block)
  BY <1>0s, <1>1, <1>2, <1>5 DEF Moving, Inv, LocalInv
<1>7. ASSUME NEW u \in Sound PROVE Stored(local[u])'
  <2>1. CASE Alike(local[u], local'[u])
    BY <1>2, <2>1, AlikeStored DEF Committed
  <2>2. CASE Expelled(u, local[u], local'[u], accused, block)
    BY <1>2, <2>2, ExpelledStored
  <2>3. CASE /\ TakesDispute(local[u], g, local[u].since + KeyGenTimeout)
             /\ Counted(u, local[u], local'[u], accused)
    BY <1>2, <1>3, <2>3, CountedStored DEF TakesDispute
  <2> QED
    BY <1>4, <2>1, <2>2, <2>3 DEF Complaining
<1>8. StayTogether(block)
  BY ComplaintTogether
<1> QED
  BY <1>0s, <1>1, <1>2, <1>6, <1>7, <1>8, RemovalStep

-----------------------------------------------------------------------------
(* Responses.                                                              *)

\* A validator takes a response as an answer to a complaint it has counted.
Answering(v, l, k, g, accused) ==
  /\ SameGroup(l, k) /\ NoStart(v, l, k)
  /\ k.id = l.id /\ k.since = l.since /\ k.confirmations = l.confirmations
  /\ \A a \in Validator \ {accused} : k.complaints[a] = l.complaints[a]
  /\ l.complaints[accused].unresponded > 0
  /\ \/ k.missing = l.missing /\ k.shares = l.shares
     \/ /\ accused \in l.missing
        /\ k.missing = l.missing \ {accused}
        /\ \/ k.shares = l.shares \cup {accused}
           \/ l.members \subseteq l.shares \cup {accused} /\ k.shares = {}

Responding(v, l, k, g, accused) ==
  LET takes == TakesDispute(l, g, l.since + 2 * KeyGenTimeout)
  IN  \/ Alike(l, k) /\ NoStart(v, l, k)
      \/ takes /\ Expelled(v, l, k, accused, block)
      \/ takes /\ Answering(v, l, k, g, accused)

LEMMA RespondingCases ==
  ASSUME NEW v \in Validator, NEW l, NEW m, NEW g \in Group, NEW plaintiff \in Validator,
         NEW accused \in g.members, NEW valid \in BOOLEAN,
         Held(v, l), Attempts(v, l), block \in Nat,
         m \in Local, Alike(l, m), m.outbox \subseteq l.outbox
  PROVE  Responding(v, l, HandleComplaintResponded(v, m, g, plaintiff, accused, valid), g,
                    accused)
<1> DEFINE k == HandleComplaintResponded(v, m, g, plaintiff, accused, valid)
           mine == v = plaintiff /\ accused \in m.missing
           takes == TakesDispute(l, g, l.since + 2 * KeyGenTimeout)
           answered == [m EXCEPT !.complaints[accused].unresponded = @ - 1]
           shared == StoreShare(answered, g, accused)
           stored == [shared EXCEPT !.missing = @ \ {accused}]
           confirm == IF Cleared(stored, g) THEN {<<"key_gen_confirm", g, v>>} ELSE {}
           confirmable == [stored EXCEPT !.outbox = @ \cup confirm]
<1>0. accused \in Validator /\ l \in Local
  BY GroupSize DEF Held
<1>1. /\ m.complaints = l.complaints
      /\ TakesDispute(m, g, m.since + 2 * KeyGenTimeout) <=> takes
  BY DEF Alike, SameGroup, TakesDispute, GroupOf
<1>2. k = IF ~takes \/ m.complaints[accused].unresponded = 0 \/ (~mine /\ Cleared(m, g))
          THEN m
          ELSE IF ~valid
          THEN Trigger(v, m, m.epoch, g.members \ {accused}, block)
          ELSE IF mine THEN confirmable ELSE answered
  BY <1>1 DEF HandleComplaintResponded
<1>3. Alike(l, m) /\ NoStart(v, l, m)
  BY DEF NoStart
<1>4. ASSUME m.complaints[accused].unresponded # 0
      PROVE  /\ m.complaints[accused].unresponded > 0
             /\ answered \in Local
             /\ SameGroup(m, answered) /\ answered.outbox = m.outbox
             /\ answered.id = m.id /\ answered.since = m.since
             /\ answered.confirmations = m.confirmations
             /\ answered.missing = m.missing /\ answered.shares = m.shares
             /\ \A a \in Validator \ {accused} : answered.complaints[a] = m.complaints[a]
  <2> DEFINE c == [m.complaints EXCEPT ![accused].unresponded = @ - 1]
  <2>1. m.complaints[accused].unresponded \in Nat /\ m.complaints[accused].unresponded > 0
    BY <1>0, <1>4 DEF Local
  <2>2. c \in [Validator -> [total : Nat, unresponded : Nat]]
    <3>1. m.complaints \in [Validator -> [total : Nat, unresponded : Nat]]
      BY DEF Local
    <3>2. m.complaints[accused].unresponded - 1 \in Nat
      BY <2>1
    <3> QED
      BY <1>0, <3>1, <3>2
  <2>3. answered = [m EXCEPT !.complaints = c]
    BY DEF Local
  <2>4. \A a \in Validator \ {accused} : c[a] = m.complaints[a]
    BY DEF Local
  <2> HIDE DEF c, answered
  <2> QED
    BY <2>1, <2>2, <2>3, <2>4 DEF Local, SameGroup
<1>5. ASSUME m.complaints[accused].unresponded # 0, ~mine
      PROVE  Answering(v, l, answered, g, accused)
  <2> HIDE DEF answered
  <2> QED
    BY <1>1, <1>3, <1>4, <1>5 DEF Answering, Alike, SameGroup, NoStart
<1>6. ASSUME m.complaints[accused].unresponded # 0, mine
      PROVE  Answering(v, l, confirmable, g, accused)
  <2> HIDE DEF answered
  <2>1. /\ shared \in Local
        /\ SameGroup(answered, shared) /\ shared.outbox = answered.outbox
        /\ shared.id = answered.id /\ shared.since = answered.since
        /\ shared.missing = answered.missing /\ shared.complaints = answered.complaints
        /\ shared.confirmations = answered.confirmations
        /\ \/ shared.shares = answered.shares \cup {accused}
           \/ /\ answered.members \subseteq answered.shares \cup {accused}
              /\ shared.shares = {}
    BY <1>0, <1>4, <1>6, StoreShareCases
  <2> HIDE DEF shared
  <2>2. \A h \in Group : <<"key_gen_start", h, v>> \notin confirm
    OBVIOUS
  <2> HIDE DEF confirm
  <2>3. /\ SameGroup(shared, confirmable)
        /\ confirmable.outbox = shared.outbox \cup confirm
        /\ confirmable.id = shared.id /\ confirmable.since = shared.since
        /\ confirmable.missing = shared.missing \ {accused}
        /\ confirmable.shares = shared.shares
        /\ confirmable.complaints = shared.complaints
        /\ confirmable.confirmations = shared.confirmations
    BY <2>1 DEF Local, SameGroup
  <2> HIDE DEF confirmable
  <2>4. /\ SameGroup(l, confirmable) /\ NoStart(v, l, confirmable)
        /\ confirmable.id = l.id /\ confirmable.since = l.since
        /\ confirmable.confirmations = l.confirmations
        /\ \A a \in Validator \ {accused} : confirmable.complaints[a] = l.complaints[a]
    BY <1>1, <1>3, <1>4, <1>6, <2>1, <2>2, <2>3 DEF Alike, SameGroup, NoStart
  <2>5. /\ accused \in l.missing /\ confirmable.missing = l.missing \ {accused}
        /\ \/ confirmable.shares = l.shares \cup {accused}
           \/ l.members \subseteq l.shares \cup {accused} /\ confirmable.shares = {}
    BY <1>3, <1>4, <1>6, <2>1, <2>3 DEF Alike, SameGroup
  <2> QED
    BY <1>1, <1>4, <1>6, <2>4, <2>5 DEF Answering
<1>7. takes => Expelled(v, l, Trigger(v, m, m.epoch, g.members \ {accused}, block),
                       accused, block)
  BY ExpelledCases DEF TakesDispute
<1> SUFFICES Responding(v, l, k, g, accused)
  OBVIOUS
<1> HIDE DEF k, answered, confirmable
<1> QED
  BY <1>2, <1>3, <1>5, <1>6, <1>7 DEF Responding

LEMMA ResponseCases ==
  ASSUME RemovalInv, NEW g \in Group, NEW v \in g.members, NEW plaintiff \in g.members,
         NEW valid \in BOOLEAN, RespondToComplaint(v, g, plaintiff, valid), NEW u \in Sound
  PROVE  Responding(u, local[u], local'[u], g, v)
<1> DEFINE action == <<"key_gen_complaint_response", g, plaintiff>>
           m == Sent(u, v, action)
           l == local[u]
           k == local'[u]
<1>1. k = HandleComplaintResponded(u, m, g, plaintiff, v, valid)
  <2> DEFINE handled == [w \in Honest |-> HandleComplaintResponded(w, Ready(w, v, action), g, plaintiff, v,
                                           valid)]
  <2>1. Delivered(v, action, handled)
    BY DEF RespondToComplaint
  <2>2. k = handled[u] /\ Ready(u, v, action) = m /\ u \in Honest
    <3> HIDE DEF handled
    <3> QED
      BY <2>1, SoundHandled, SoundOne DEF RemovalInv
  <2> QED
    BY <2>2
<1>2. /\ l \in Local /\ Held(u, l) /\ Attempts(u, l) /\ block \in Nat
      /\ u \in Validator /\ plaintiff \in Validator
  BY SoundOne, GroupSize DEF RemovalInv, Inv, OwnInv, BlockInv
<1>3. m \in Local /\ Alike(l, m) /\ m.outbox \subseteq l.outbox
  BY <1>2, SentAlike
<1> HIDE DEF m
<1>4. Responding(u, l, k, g, v)
  <2> HIDE DEF l
  <2> QED
    BY <1>1, <1>2, <1>3, RespondingCases
<1> QED
  BY <1>4

LEMMA ResponseContract ==
  ASSUME Inv, NEW g \in Group, NEW v \in g.members, NEW plaintiff \in g.members,
         NEW valid \in BOOLEAN, RespondToComplaint(v, g, plaintiff, valid)
  PROVE  /\ identifiers' = identifiers /\ keys' = keys /\ confirmed' = confirmed
         /\ StatusesGrow
         /\ statuses'[g][<<plaintiff, v>>] = "RESPONDED"
<1>1. v \in Validator /\ plaintiff \in Validator
  BY GroupSize
<1>2. statuses \in [Group -> [Validator \X Validator -> KG!ComplaintStatus]]
  BY DEF Inv, KG!KeyGenInv, KG!KeyGenTypeOK
<1>3. /\ identifiers' = identifiers /\ keys' = keys /\ confirmed' = confirmed
      /\ identifiers[g][v] # 0
      /\ statuses' = [statuses EXCEPT ![g][<<plaintiff, identifiers[g][v]>>] = "RESPONDED"]
  BY DEF RespondToComplaint, KeyGenComplaintResponse, Respond
<1>4. identifiers[g][v] = v
  BY <1>1, <1>3 DEF Inv, OwnNames
<1>5. statuses' = [statuses EXCEPT ![g] = [statuses[g] EXCEPT ![<<plaintiff, v>>] = "RESPONDED"]]
  BY <1>2, <1>3, <1>4
<1>6. \A h \in Group, p, a \in Validator :
        statuses'[h][<<p, a>>] = IF h = g /\ p = plaintiff /\ a = v THEN "RESPONDED"
                                 ELSE statuses[h][<<p, a>>]
  BY <1>1, <1>2, <1>5
<1>7. StatusesGrow
  <2> SUFFICES ASSUME NEW h \in Group, NEW p \in h.members, NEW a \in h.members
               PROVE  /\ statuses[h][<<p, a>>] # "NONE" => statuses'[h][<<p, a>>] # "NONE"
                      /\ statuses[h][<<p, a>>] = "RESPONDED" =>
                           statuses'[h][<<p, a>>] = "RESPONDED"
    BY DEF StatusesGrow
  <2>1. p \in Validator /\ a \in Validator
    BY GroupSize
  <2> QED
    BY <1>6, <2>1
<1> QED
  BY <1>1, <1>3, <1>6, <1>7

\* An answered complaint was made, against a member that has published shares.
LEMMA AnsweringStored ==
  ASSUME RemovalInv, StatusesGrow, NEW u \in Sound, NEW accused, NEW g \in Group,
         Answering(u, local[u], local'[u], g, accused),
         GroupOf(local[u]) = g,
         local[u].id \in {"collecting_shares", "collecting_confirmations"},
         identifiers' = identifiers, keys' = keys, confirmed' = confirmed,
         Accused(g, accused)'
  PROVE  Stored(local[u])'
<1> DEFINE l == local[u]  k == local'[u]
<1>1. Stored(l) /\ GroupOf(k) = g /\ l.members = g.members
  BY DEF RemovalInv, OwnInv, Answering, SameGroup, GroupOf
<1>2. /\ k.id = l.id /\ k.confirmations = l.confirmations
      /\ \A a \in Validator \ {accused} : k.complaints[a] = l.complaints[a]
      /\ \/ k.missing = l.missing /\ k.shares = l.shares
         \/ /\ accused \in l.missing
            /\ k.missing = l.missing \ {accused}
            /\ \/ k.shares = l.shares \cup {accused}
               \/ g.members \subseteq l.shares \cup {accused} /\ k.shares = {}
  BY <1>1 DEF Answering
<1>3. Committed(g)' = Committed(g)
  BY DEF Committed
<1>4. \A a : Accused(g, a) => Accused(g, a)'
  BY AnsweredStays
<1>5. \A a \in Validator :
        k.complaints[a].total > 0 \/ k.complaints[a].unresponded > 0 => Accused(g, a)'
  <2>1. \A a \in Validator :
          l.complaints[a].total > 0 \/ l.complaints[a].unresponded > 0 => Accused(g, a)
    BY <1>1 DEF Stored, Collecting
  <2> QED
    BY <1>2, <1>4, <2>1
<1>6. /\ g.members \subseteq Committed(g)
      /\ l.id = "collecting_shares" =>
           /\ l.shares \cup l.missing \subseteq keys[g]
           /\ Honest \cap keys[g] \subseteq l.shares
           /\ ~(g.members \subseteq keys[g])
           /\ l.confirmations = {}
      /\ l.id = "collecting_confirmations" => confirmed[g] \subseteq l.confirmations
  BY <1>1 DEF Stored, Collecting
<1>7. l.id = "collecting_shares" =>
        k.shares \cup k.missing \subseteq keys[g] /\ Honest \cap keys[g] \subseteq k.shares
  BY <1>2, <1>6
<1> QED
  BY <1>1, <1>2, <1>3, <1>5, <1>6, <1>7 DEF Stored, Collecting

LEMMA ResponseRemoval ==
  ASSUME RemovalInv, NEW g \in Group, NEW v \in g.members, NEW plaintiff \in g.members,
         NEW valid \in BOOLEAN, RespondToComplaint(v, g, plaintiff, valid)
  PROVE  RemovalInv'
<1>0s. Sound' = Sound /\ \A u \in Sound : u \in Honest /\ local[u] \in Local
  <2>1. Sound' = Sound
    BY SoundSame DEF RespondToComplaint
  <2> QED
    BY <2>1, SoundOne DEF RemovalInv
<1>1. Inv'
  BY RespondToComplaintStep DEF RemovalInv
<1>2. /\ identifiers' = identifiers /\ keys' = keys /\ confirmed' = confirmed
      /\ StatusesGrow
      /\ statuses'[g][<<plaintiff, v>>] = "RESPONDED"
  BY ResponseContract DEF RemovalInv
<1>3. Accused(g, v)' /\ Answered(g)'
  BY <1>2 DEF Accused, Answered
<1>4. \A u \in Sound : Responding(u, local[u], local'[u], g, v)
  BY ResponseCases
<1>5. \A u \in Sound : Moves(u, local[u], local'[u], block)
  <2>1. ASSUME NEW u \in Sound, Answering(u, local[u], local'[u], g, v),
               TakesDispute(local[u], g, local[u].since + 2 * KeyGenTimeout)
        PROVE  Kept(u, local[u], local'[u])
    BY <2>1 DEF Answering, Kept, TakesDispute
  <2> QED
    BY <1>4, <2>1, ExpelledMoves, AlikeKept DEF Responding, Moves
<1>6. Moving(block)
  BY <1>0s, <1>1, <1>2, <1>5 DEF Moving, Inv, LocalInv
<1>7. ASSUME NEW u \in Sound PROVE Stored(local[u])'
  <2>1. CASE Alike(local[u], local'[u])
    BY <1>2, <2>1, AlikeStored DEF Committed
  <2>2. CASE Expelled(u, local[u], local'[u], v, block)
    BY <1>2, <2>2, ExpelledStored
  <2>3. CASE /\ TakesDispute(local[u], g, local[u].since + 2 * KeyGenTimeout)
             /\ Answering(u, local[u], local'[u], g, v)
    BY <1>2, <1>3, <2>3, AnsweringStored DEF TakesDispute
  <2> QED
    BY <1>4, <2>1, <2>2, <2>3 DEF Responding
<1>8. StayTogether(block)
  <2> SUFFICES ASSUME NEW x \in Sound, NEW y \in Sound, NEW h \in Group, h # g,
                      At(local[x], h), Same(x, y, local[x], local[y])
               PROVE  Same(x, y, local'[x], local'[y])
    BY <1>0s, <1>3 DEF StayTogether
  <2>1. GroupOf(local[x]) # g /\ GroupOf(local[y]) # g
    BY DEF At, Same
  <2>2. Alike(local[x], local'[x]) /\ Alike(local[y], local'[y])
    BY <1>4, <2>1 DEF Responding, TakesDispute
  <2> QED
    BY <2>2 DEF Same, Alike, SameGroup, GroupOf
<1> QED
  BY <1>0s, <1>1, <1>2, <1>6, <1>7, <1>8, RemovalStep

-----------------------------------------------------------------------------
(* The properties.                                                         *)

LEMMA RemovalInit == Init => RemovalInv
<1> SUFFICES ASSUME Init PROVE RemovalInv
  OBVIOUS
<1>1. Inv
  BY InvInit
<1>2. /\ \A v \in Honest : /\ local[v].id = "epoch_staged" /\ local[v].registered = {}
                           /\ local[v].outbox = {}
      /\ \A g \in Group, v \in Honest : identifiers[g][v] = 0
  BY ValidatorAssumption DEF Init, KeyGenInit
<1>3. OwnInv
  BY <1>2 DEF Sound, OwnInv, Attempts, CommitsToOwn, Stored, Collecting
<1>4. TogetherInv /\ KnownInv
  BY <1>2 DEF Sound, TogetherInv, Together, KnownInv, Known, At, Collecting
<1> QED
  BY <1>1, <1>3, <1>4 DEF RemovalInv

LEMMA RemovalNext == RemovalInv /\ [Next]_vars => RemovalInv'
<1> SUFFICES ASSUME RemovalInv, [Next]_vars PROVE RemovalInv'
  OBVIOUS
<1>1. CASE UNCHANGED vars
  <2>1. Inv'
    BY InvNext DEF RemovalInv
  <2> QED
    BY <1>1, <2>1 DEF vars, contract, RemovalInv, OwnInv, Attempts, CommitsToOwn, Stored,
       Committed, Accused, Sound, TogetherInv, Together, Answered, Clean, KnownInv, Known
<1> QED
  BY <1>1, NewBlockRemoval, OtherEventRemoval, CommitRemoval, SecretShareRemoval, ComplaintRemoval,
     ResponseRemoval, ConfirmRemoval DEF Next

\* As long as no complaint is answered, the honest validators that set up a
\* group, and are told of every block, are at the same point of it, or have left
\* those behind that are not.
THEOREM RemovalInvariance == Spec => []RemovalInv
BY RemovalInit, RemovalNext, PTL DEF Spec

\* A validator is removed only where key generation is started again.
LEMMA RemovalRestarts ==
  ASSUME RemovalInv, NEW u \in Sound, NEW v \in Sound, Removes(u, v)
  PROVE  /\ ~Kept(u, local[u], local'[u]) /\ ~Skipped(local[u], local'[u])
         /\ \A g \in Group : \A b :
              /\ ~Rolled(u, local[u], local'[u], g, b)
              /\ Restarted(u, local[u], local'[u], g, b) =>
                   v \in local[u].members \ g.members
<1>1. /\ local'[u].id = "collecting_commitments" /\ local'[u].epoch = local[u].epoch
      /\ v \in local[u].members \ local'[u].members
      /\ local[u].epoch \in Nat
  BY SoundOne DEF Removes, RemovalInv, Local
<1>2. ~Kept(u, local[u], local'[u]) /\ ~Skipped(local[u], local'[u])
  BY <1>1 DEF Kept, SameGroup, Skipped
<1>3. ASSUME NEW g \in Group, NEW b, Rolled(u, local[u], local'[u], g, b)
      PROVE  FALSE
  BY <1>1, <1>3 DEF Rolled, Entered, GroupOf
<1>4. ASSUME NEW g \in Group, NEW b, Restarted(u, local[u], local'[u], g, b)
      PROVE  v \in local[u].members \ g.members
  BY <1>1, <1>4 DEF Restarted, Entered, GroupOf
<1> QED
  BY <1>2, <1>3, <1>4

LEMMA NewBlockCause ==
  ASSUME RemovalInv, NEW warping, NewBlock(warping),
         NEW u \in Sound, NEW v \in Sound, Removes(u, v), Clean(GroupOf(local[u]))
  PROVE  Cause(local[u], v)
<1> DEFINE l == local[u]
<1>0. PICK g : g = GroupOf(l)
  OBVIOUS
<1>1. PICK h \in Group : /\ Restarted(u, l, local'[u], h, block + 1)
                         /\ h.members = Remaining(l)
  <2>1. u \in Sound'
    <3>1. u \in Honest /\ u \notin warped
      BY SoundOne DEF RemovalInv
    <3>2. u \notin warping
      BY <3>1 DEF NewBlock, Removes
    <3> QED
      BY <3>1, <3>2 DEF NewBlock, Sound
  <2> QED
    BY <2>1, NewBlockMoves, RemovalRestarts DEF BlockMove, Kept, SameGroup, NoStart
<1>2. /\ g \in Group /\ l.id \in Collecting /\ l.members = g.members
      /\ v \in g.members /\ v \notin Remaining(l)
  BY <1>0, <1>1, RemovalRestarts DEF Restarted, GroupOf
<1>3. Stored(l) /\ GroupOf(l) = g /\ Known(u, v, g) /\ v \in Validator /\ v \in Honest
  BY <1>0, <1>2, SoundOne DEF RemovalInv, OwnInv, KnownInv
<1>4. statuses' = statuses
  BY DEF NewBlock, contract
<1>5. CASE l.id = "collecting_commitments"
  <2>1. v \notin l.commitments
    BY <1>2, <1>5 DEF Remaining, MissingCommitments
  <2>2. identifiers[g][v] = 0
    BY <1>0, <1>2, <1>3, <1>5, <2>1 DEF Known
  <2> QED
    BY <1>3, <1>5, <2>2 DEF Cause
<1>6. CASE l.id = "collecting_shares"
  <2>1. v \notin l.shares
    BY <1>2, <1>6 DEF Remaining, MissingSecretShares
  <2>2. v \notin keys[g]
    BY <1>3, <1>6, <2>1 DEF Stored
  <2> QED
    BY <1>3, <1>6, <2>2 DEF Cause
<1>7. CASE l.id = "collecting_confirmations"
  <2>1. CASE v \in Unresponded(l)
    <3>1. Accused(g, v)
      BY <1>2, <1>3, <2>1 DEF Stored, Unresponded
    <3> QED
      BY <1>3, <1>4, <3>1 DEF Cause, Accused
  <2>2. CASE v \notin Unresponded(l)
    <3>1. v \notin l.confirmations
      BY <1>2, <1>7, <2>2 DEF Remaining
    <3>2. v \notin confirmed[g]
      BY <1>3, <1>7, <3>1 DEF Stored
    <3> QED
      BY <1>3, <1>7, <3>2 DEF Cause
  <2> QED
    BY <2>1, <2>2
<1> QED
  BY <1>2, <1>5, <1>6, <1>7 DEF Collecting

\* Who is dropped on a complaint or a response is the accused.
LEMMA ExpelledCause ==
  ASSUME RemovalInv, NEW g \in Group, NEW p \in g.members, NEW a \in g.members, NEW b,
         statuses'[g][<<p, a>>] # "NONE",
         NEW u \in Sound, NEW v \in Sound, Removes(u, v),
         GroupOf(local[u]) = g, Expelled(u, local[u], local'[u], a, b)
  PROVE  Cause(local[u], v)
<1>1. v = a
  BY RemovalRestarts, AlikeKept DEF Expelled
<1> QED
  BY <1>1 DEF Cause

LEMMA ComplaintCause ==
  ASSUME RemovalInv, NEW g \in Group, NEW s \in g.members, NEW accused \in g.members,
         SubmitComplaint(s, g, accused), NEW u \in Sound, NEW v \in Sound, Removes(u, v)
  PROVE  Cause(local[u], v)
<1>1. Complaining(u, local[u], local'[u], g, accused)
  BY ComplaintCases
<1>2. ~Alike(local[u], local'[u]) /\ ~Counted(u, local[u], local'[u], accused)
  BY DEF Removes, Alike, Counted, SameGroup
<1>3. Expelled(u, local[u], local'[u], accused, block) /\ GroupOf(local[u]) = g
  BY <1>1, <1>2 DEF Complaining, TakesDispute
<1>4. statuses'[g][<<s, accused>>] # "NONE"
  BY ComplaintContract DEF RemovalInv
<1> QED
  BY <1>3, <1>4, ExpelledCause

LEMMA ResponseCause ==
  ASSUME RemovalInv, NEW g \in Group, NEW s \in g.members, NEW plaintiff \in g.members,
         NEW valid \in BOOLEAN, RespondToComplaint(s, g, plaintiff, valid),
         NEW u \in Sound, NEW v \in Sound, Removes(u, v)
  PROVE  Cause(local[u], v)
<1>1. Responding(u, local[u], local'[u], g, s)
  BY ResponseCases
<1>2. ~Alike(local[u], local'[u]) /\ ~Answering(u, local[u], local'[u], g, s)
  BY DEF Removes, Alike, Answering, SameGroup
<1>3. Expelled(u, local[u], local'[u], s, block) /\ GroupOf(local[u]) = g
  BY <1>1, <1>2 DEF Responding, TakesDispute
<1>4. statuses'[g][<<plaintiff, s>>] # "NONE"
  BY ResponseContract DEF RemovalInv
<1> QED
  BY <1>3, <1>4, ExpelledCause

\* Whatever the faulty validators send and however late messages are: unless a
\* complaint was answered in an earlier attempt of the epoch, an honest
\* validator restarts without another one, both told of every block, only if
\* the contract lacks something of it or has a complaint against it (checkKeyGenTimeouts,
\* handleComplaintSubmitted and handleComplaintResponded).
THEOREM RemovalsHaveACause == Spec => RemovedForCause
<1>1. RemovalInv /\ [Next]_vars =>
        [\A u, v \in Sound :
           Removes(u, v) =>
             \/ Cause(local[u], v)
             \/ \E h \in Larger(GroupOf(local[u])) : Answered(h)]_vars
  <2> SUFFICES ASSUME RemovalInv, Next, NEW u \in Sound, NEW v \in Sound, Removes(u, v)
               PROVE  \/ Cause(local[u], v)
                      \/ \E h \in Larger(GroupOf(local[u])) : Answered(h)
    OBVIOUS
  <2>1. ASSUME NEW warping, NewBlock(warping)
        PROVE  \/ Cause(local[u], v)
               \/ \E h \in Larger(GroupOf(local[u])) : Answered(h)
    BY <2>1, NewBlockCause DEF Clean
  <2>4. ASSUME NEW failing \in SUBSET behind, OtherEvent(failing)
        PROVE  FALSE
    <3>1. u \in Honest /\ u \notin behind
      BY SoundOne DEF RemovalInv
    <3>2. local'[u] = local[u]
      BY <2>4, <3>1 DEF OtherEvent, Current
    <3> QED
      BY <3>2 DEF Removes
  <2>2. ASSUME NEW g \in Group, NEW s \in g.members,
               \/ \E valid \in BOOLEAN : Commit(s, g, valid)
               \/ \E bad \in SUBSET (Honest \cap g.members) : SecretShare(s, g, bad)
               \/ ConfirmKeyGen(s, g)
        PROVE  FALSE
    <3>1. Kept(u, local[u], local'[u])
      BY <2>2, CommitCases, SecretShareCases, ConfirmCases
    <3> QED
      BY <3>1, RemovalRestarts
  <2>3. ASSUME NEW g \in Group, NEW s \in g.members,
               \/ \E accused \in g.members : SubmitComplaint(s, g, accused)
               \/ \E plaintiff \in g.members, valid \in BOOLEAN :
                    RespondToComplaint(s, g, plaintiff, valid)
        PROVE  Cause(local[u], v)
    BY <2>3, ComplaintCause, ResponseCause
  <2> QED
    BY <2>1, <2>2, <2>3, <2>4 DEF Next
<1> QED
  BY <1>1, RemovalInvariance, PTL DEF Spec, RemovedForCause, Sound
==============================================================================
