-------------------------- MODULE ValidatorSigning --------------------------
(***************************************************************************)
(* The signing state machines of the validators of the active epoch        *)
(* (machine/signing, machine/consensus, consensus/signing and the signing  *)
(* part of consensus/storage) over the coordinator contract                *)
(* (FROSTCoordinator), for one finalized group.                            *)
(*                                                                         *)
(* As in ValidatorKeyGen, a validator is a deterministic function of the   *)
(* event log and the blocks, so the honest ones take an event in the step  *)
(* that emits it, and a slow one is one whose queued actions are included  *)
(* late or never.  The others send what the contract accepts.  A handler   *)
(* that throws loses the changes it returns, not what it has written to    *)
(* the client storage.                                                     *)
(*                                                                         *)
(* A signature id is the sequence number of its ceremony.  A deadline is   *)
(* kept as the number of blocks that are left.  The root of a nonce tree   *)
(* of validator v is <<v, k>>, its k-th tree.                              *)
(***************************************************************************)
EXTENDS Integers, Sequences, FiniteSets, SequencesExt

CONSTANTS
  Validator,       \* the participants of the active group
  Honest,          \* the validators that run this code
  Successors,      \* the participants of the group of the next epoch
  storageOf,       \* storageOf[v]: "sqlite" or "memory"
  Transaction,     \* messages that attest to a transaction
  Rollover,        \* messages that hand over to the next epoch
  Nobody,          \* undefined
  SigningTimeout,  \* signingTimeout, in blocks
  NonceThreshold,  \* nonces that are left when a new tree is committed to
  ChunkSize,       \* SEQUENCE_CHUNK_SIZE
  MaxSequence,     \* bound: ceremonies
  MaxChunk,        \* bound: the last chunk of nonces
  MaxMessages,     \* bound: messages that are proposed
  MaxStrays,       \* bound: what goes wrong, see Disturbs
  NoMessage, NoRoot  \* see FROSTCoordinator

Message == Transaction \cup Rollover

ASSUME SigningAssumption ==
  /\ IsFiniteSet(Validator)
  /\ Honest \subseteq Validator \cap Successors
  /\ storageOf \in [Honest -> {"sqlite", "memory"}]
  /\ IsFiniteSet(Message)
  /\ Transaction \cap Rollover = {}
  /\ Nobody \notin Validator \cup Successors
  /\ SigningTimeout \in Nat \ {0}
  /\ NonceThreshold \in Nat
  /\ ChunkSize \in Nat \ {0}
  /\ MaxSequence \in Nat
  /\ MaxChunk \in Nat /\ MaxSequence \div ChunkSize <= MaxChunk
  /\ MaxMessages \in Nat
  /\ MaxStrays \in Nat \ {0}
  /\ NoMessage \notin Message

VARIABLES
  local,     \* local[v]: the state of the honest validator v
  attested,  \* messages the consensus contract has attested to or staged
  strays,    \* what went wrong so far, see Disturbs
  sequence, next, chunks, message, signed, aggregates,
  revealed, completed   \* the contract, see FROSTCoordinator

G == "group"
Threshold == Cardinality(Validator) \div 2 + 1
Sequences == 0 .. MaxSequence - 1
Chunks == 0 .. MaxChunk
Trees == 0 .. MaxSequence + 1
NoTree == -1
NoSid == -1
\* A selection stands for the tree its honest signers build: the commitments
\* in it add up to that of the group when all have shared.  Shares under fewer
\* signers never complete, and no honest validator makes them.
Selection == {s \in SUBSET Validator : Cardinality(s) >= Threshold}

Chain == INSTANCE FROSTCoordinator WITH
  Gid <- {G}, Address <- Validator, Id <- Validator,
  leaves <- [g \in {G} |-> {<<v, v>> : v \in Validator}],
  count <- [g \in {G} |-> Cardinality(Validator)],
  threshold <- [g \in {G} |-> Threshold],
  NonceRoot <- Validator \X Trees,
  SelectionRoot <- Selection,
  signersOf <- [s \in Selection |-> s],
  matching <- [s \in Selection |-> {s} \X s],
  status <- [g \in {G} |-> "FINALIZED"],
  pending <- [g \in {G} |-> 0],
  identifiers <- [g \in {G} |-> [v \in Validator |-> v]],
  keys <- [g \in {G} |-> Validator],
  confirmed <- [g \in {G} |-> Validator],
  statuses <- [g \in {G} |-> [p \in Validator \X Validator |-> "NONE"]],
  complaints <- [g \in {G} |-> [v \in Validator |-> 0]],
  accusations <- [g \in {G} |-> [v \in Validator |-> 0]]

contract ==
  <<sequence, next, chunks, message, signed, aggregates, revealed, completed>>
vars == <<local, attested, strays, contract>>

-----------------------------------------------------------------------------
(* The state of a validator: SigningState per message, the signing part of *)
(* ConsensusState and of the client storage, and the queue of actions.     *)

SigningId == {"none", "waiting_for_request", "collect_nonce_commitments",
              "collect_signing_shares", "waiting_for_attestation"}

Peer == Validator \cup Successors

NoEntry == [id |-> "none", sid |-> NoSid, left |-> 0, signers |-> {},
            last |-> Nobody, shares |-> {}]

\* last is the lastSigner of a ceremony and the one responsible otherwise.
Entry == [id : SigningId, sid : Sequences \cup {NoSid},
          left : 0 .. SigningTimeout, signers : SUBSET Peer,
          last : Validator \cup Successors \cup {Nobody},
          shares : SUBSET Validator]

Action ==
  [do : {"preprocess"}, tree : Trees]
  \cup [do : {"reveal"}, sid : Sequences]
  \cup [do : {"share"}, sid : Sequences, root : Selection]
  \cup [do : {"request"}, message : Message]
  \cup [do : {"attest"}, message : Message, sid : Sequences]

Local ==
  [signing : [Message -> Entry],
   messageOf : [Sequences -> Message \cup {NoMessage}],
   requests : [Sequences -> [signers : SUBSET Peer, nonces : SUBSET Validator]],
   trees : Trees,
   links : [Chunks -> Trees \cup {NoTree}],
   burned : SUBSET (Trees \X (0 .. ChunkSize - 1)),
   pendingNonces : BOOLEAN,
   verified : SUBSET Message,
   made : SUBSET (Sequences \X Selection),
   outbox : Seq(Action)]

TypeOK ==
  /\ local \in [Honest -> Local]
  /\ attested \in SUBSET Message
  /\ strays \in 0 .. MaxStrays
  /\ sequence[G] \in 0 .. MaxSequence
  /\ \A n \in Sequences : signed[<<G, n>>] \in Selection \cup {NoRoot}

\* The first nonce tree of the group is generated and about to be registered,
\* as after EpochStaged (or genesis).
Fresh ==
  [signing |-> [m \in Message |-> NoEntry],
   messageOf |-> [n \in Sequences |-> NoMessage],
   requests |-> [n \in Sequences |-> [signers |-> {}, nonces |-> {}]],
   trees |-> 1,
   links |-> [c \in Chunks |-> NoTree],
   burned |-> {},
   pendingNonces |-> TRUE,
   verified |-> {},
   made |-> {},
   outbox |-> <<[do |-> "preprocess", tree |-> 0]>>]

Init ==
  /\ local = [v \in Honest |-> Fresh]
  /\ attested = {}
  /\ strays = 0
  /\ Chain!SignInit

-----------------------------------------------------------------------------
(* Nonces.                                                                 *)

\* Mutant: sequence numbers are taken to start at one.
ChunkOfNext(n) == (n + 1) \div ChunkSize

\* decodeSequence
ChunkOf(n) == n \div ChunkSize
OffsetOf(n) == n % ChunkSize

\* The nonces from n on, as far as chunks are linked without a gap.
AvailableNonces(l, n) ==
  LET linked == {c \in ChunkOf(n) .. MaxChunk :
                   \A d \in ChunkOf(n) .. c : l.links[d] # NoTree}
  IN  ChunkSize * Cardinality(linked) - OffsetOf(n)

\* The tree of a sequence number, and its nonce.
NonceTree(l, n) == l.links[ChunkOf(n)]
Nonce(l, n) == <<NonceTree(l, n), OffsetOf(n)>>

RegisterNonceTree(l) == [l EXCEPT !.trees = @ + 1]

\* checkAvailableNonces: the tree is stored at once, the rest is the diff.
CheckAvailableNonces(l, n) ==
  IF l.pendingNonces \/ AvailableNonces(l, n) >= NonceThreshold
  THEN l
  ELSE [RegisterNonceTree(l) EXCEPT
         !.pendingNonces = TRUE,
         !.outbox = Append(@, [do |-> "preprocess", tree |-> l.trees])]

\* The database links a tree once; in memory only the chunk is looked at.
LinkNonceTree(v, l, tree, c) ==
  [l EXCEPT !.links[c] =
     IF @ = NoTree /\ (storageOf[v] = "memory"
                       \/ \A d \in Chunks : l.links[d] # tree)
     THEN tree ELSE @]

\* handlePreprocess: the registration of any participant ends the wait.
\* Linking throws, and the wait goes on, if the tree is already linked.
HandlePreprocess(v, l, sender, tree, c) ==
  LET linked == LinkNonceTree(v, l, tree, c)
  IN  IF sender # v THEN [l EXCEPT !.pendingNonces = FALSE]
      ELSE IF linked = l THEN l
      ELSE [linked EXCEPT !.pendingNonces = FALSE]

-----------------------------------------------------------------------------
(* The ceremony.                                                           *)

\* Mutant: the deadline is a block late.
WaitingLonger(signers, responsible) ==
  [NoEntry EXCEPT !.id = "waiting_for_request", !.signers = signers,
                  !.last = responsible, !.left = SigningTimeout + 1]

Waiting(signers, responsible) ==
  [NoEntry EXCEPT !.id = "waiting_for_request", !.signers = signers,
                  !.last = responsible, !.left = SigningTimeout]

\* handleTransactionProposed and the last confirmation of handleKeyGenConfirmed.
Verified(l, m, signers, responsible) ==
  [l EXCEPT !.verified = @ \cup {m},
            !.signing[m] = Waiting(signers, responsible)]

MayCommit(signers) ==
  /\ Cardinality(signers) >= Threshold
  /\ signers \subseteq Validator

\* What the client storage has of the ceremony of n.
RegisterRequest(l, n, signers) ==
  [l EXCEPT !.requests[n] = [signers |-> signers, nonces |-> {}]]

\* A nonce is registered once and, in the database, for a signer only.
MayRegister(v, l, n, peer) ==
  /\ peer \notin l.requests[n].nonces
  /\ storageOf[v] = "sqlite" => peer \in l.requests[n].signers

RegisterNonces(l, n, peer) == [l EXCEPT !.requests[n].nonces = @ \cup {peer}]

MissingNonces(l, n) == l.requests[n].signers \ l.requests[n].nonces

\* handleSign with createNonceCommitments, which throws on too few or unknown
\* signers, and, with the request registered, when the chunk is not linked or
\* (in the database) the own account is not a signer.
HandleSign(v, l, m, n) ==
  LET entry == l.signing[m]
      checked == CheckAvailableNonces(l, n)
      thrown == [l EXCEPT !.trees = checked.trees]
      started(k) == RegisterRequest(k, n, entry.signers)
  IN  IF entry.id # "waiting_for_request" \/ m \notin l.verified
      THEN checked
      ELSE IF ~MayCommit(entry.signers)
      THEN thrown
      ELSE IF NonceTree(l, n) = NoTree \/ ~MayRegister(v, started(l), n, v)
      THEN started(thrown)
      ELSE [RegisterNonces(started(checked), n, v) EXCEPT
             !.messageOf[n] = m,
             !.signing[m] = [NoEntry EXCEPT !.id = "collect_nonce_commitments",
                               !.sid = n, !.left = SigningTimeout],
             !.outbox = Append(@, [do |-> "reveal", sid |-> n])]

\* Mutant: a nonce is not burned.
MayShareAgain(v, l, n) == v \in l.requests[n].signers

\* createSignatureShare throws when the nonce is burned or the own account is
\* not a signer.
MayShare(v, l, n) ==
  /\ v \in l.requests[n].signers
  /\ Nonce(l, n) \notin l.burned

CreateSignatureShare(l, n) ==
  LET signers == l.requests[n].signers
  IN  [l EXCEPT
        !.burned = @ \cup {Nonce(l, n)},
        !.made = @ \cup {<<n, signers>>},
        !.outbox = Append(@, [do |-> "share", sid |-> n, root |-> signers])]

\* checkIfNoncesComplete
ReadyToSubmit(l, n) == MissingNonces(l, n) = {}

\* handleRevealedNonces, where registerNonceCommitments may throw.
HandleRevealedNonces(v, l, n, peer) ==
  LET m == l.messageOf[n]
      entry == l.signing[m]
      stored == RegisterNonces(l, n, peer)
  IN  IF m = NoMessage THEN l
      ELSE IF entry.id # "collect_nonce_commitments" THEN l
      ELSE IF peer = v THEN [l EXCEPT !.signing[m].last = peer]
      ELSE IF ~MayRegister(v, l, n, peer) THEN l
      ELSE IF ~ReadyToSubmit(stored, n)
      THEN [stored EXCEPT !.signing[m].last = peer]
      ELSE IF ~MayShare(v, l, n) THEN stored
      ELSE [CreateSignatureShare(stored, n) EXCEPT
             !.signing[m] = [NoEntry EXCEPT !.id = "collect_signing_shares",
                               !.sid = entry.sid, !.left = SigningTimeout,
                               !.last = peer]]

HandleSigningShares(l, n, peer) ==
  LET m == l.messageOf[n]
  IN  IF m = NoMessage THEN l
      ELSE IF l.signing[m].id # "collect_signing_shares" THEN l
      ELSE [l EXCEPT !.signing[m].last = peer, !.signing[m].shares = @ \cup {peer}]

HandleSigningCompleted(l, n) ==
  LET m == l.messageOf[n]
      entry == l.signing[m]
  IN  IF m = NoMessage THEN l
      ELSE IF entry.id # "collect_signing_shares" THEN l
      ELSE [l EXCEPT !.signing[m] =
             [NoEntry EXCEPT !.id = "waiting_for_attestation", !.sid = entry.sid,
                             !.left = SigningTimeout, !.last = entry.last]]

\* handleTransactionAttested, and handleEpochStaged, which also leaves
\* sign_rollover and starts on the nonces of the new group (left out here).
HandleAttested(l, m) ==
  LET entry == l.signing[m]
  IN  IF entry.id # "waiting_for_attestation" THEN l
      ELSE [l EXCEPT !.signing[m] = NoEntry,
                     !.messageOf[entry.sid] = NoMessage]

-----------------------------------------------------------------------------
(* checkSigningRequestTimeout: the diff of message m, with the entry that   *)
(* follows, the ceremonies that end and the actions to queue.              *)

Diff(entry, ended, actions) ==
  [entry |-> entry, ended |-> ended, actions |-> actions]

\* An action of the one responsible, or of everybody.
By(v, responsible, action) ==
  IF responsible \in {v, Nobody} THEN {action} ELSE {}

\* waiting_for_attestation: the one responsible, then everybody, attests.
AttestationTimeout(v, l, m) ==
  LET entry == l.signing[m]
      attest == [do |-> "attest", message |-> m, sid |-> entry.sid]
  IN  Diff(IF entry.last = Nobody THEN NoEntry
           ELSE [entry EXCEPT !.last = Nobody, !.left = SigningTimeout],
           {entry.sid},
           By(v, entry.last, attest))

\* waiting_for_request: the one responsible, then everybody, requests, without
\* the one that was responsible.
RequestTimeout(v, l, m) ==
  LET entry == l.signing[m]
      signers == entry.signers \ {entry.last}
      request == [do |-> "request", message |-> m]
  IN  IF Cardinality(signers) < Threshold
      THEN Diff(NoEntry, {}, {})
      ELSE Diff(IF entry.last = Nobody THEN NoEntry ELSE Waiting(signers, Nobody),
                {},
                By(v, entry.last, request))

\* Mutant: a ceremony is repeated with the same signers.
RemainingAll(l, m) == l.requests[l.signing[m].sid].signers

\* The signers that took part, by what v has registered.
Remaining(l, m) ==
  LET entry == l.signing[m]
      signers == l.requests[entry.sid].signers
  IN  IF entry.id = "collect_nonce_commitments"
      THEN signers \ MissingNonces(l, entry.sid)
      ELSE signers \cap entry.shares

\* A retry of a ceremony without the signers that did not take part.
Retry(v, l, m) ==
  LET entry == l.signing[m]
      request == [do |-> "request", message |-> m]
  IN  Diff(Waiting(Remaining(l, m), entry.last),
           {entry.sid},
           IF entry.last = v THEN {request} ELSE {})

\* Mutant: without enough signers for a retry the entry stays.
CeremonyTimeoutWaiting(v, l, m) ==
  IF Cardinality(Remaining(l, m)) < Threshold
  THEN Diff(l.signing[m], {}, {})
  ELSE Retry(v, l, m)

\* collect_nonce_commitments and collect_signing_shares.
CeremonyTimeout(v, l, m) ==
  IF Cardinality(Remaining(l, m)) < Threshold
  THEN Diff(NoEntry, {l.signing[m].sid}, {})
  ELSE Retry(v, l, m)

TimeoutOf(v, l, m) ==
  CASE l.signing[m].id = "waiting_for_attestation" -> AttestationTimeout(v, l, m)
    [] l.signing[m].id = "waiting_for_request" -> RequestTimeout(v, l, m)
    [] OTHER -> CeremonyTimeout(v, l, m)

\* A deadline that is n blocks away.
Tick(v, l, m) ==
  CASE l.signing[m].id = "none" -> Diff(l.signing[m], {}, {})
    [] l.signing[m].id # "none" /\ l.signing[m].left > 1 ->
         Diff([l.signing[m] EXCEPT !.left = @ - 1], {}, {})
    [] OTHER -> TimeoutOf(v, l, m)

\* checkSigningTimeouts: the diffs are made from one state, then applied.
CheckSigningTimeouts(v, l) ==
  LET diffs == [m \in Message |-> Tick(v, l, m)]
      ended == UNION {diffs[m].ended : m \in Message}
      actions == UNION {diffs[m].actions : m \in Message}
  IN  [l EXCEPT
        !.signing = [m \in Message |-> diffs[m].entry],
        !.messageOf = [n \in Sequences |-> IF n \in ended THEN NoMessage ELSE @[n]],
        !.outbox = @ \o SetToSeq(actions)]

-----------------------------------------------------------------------------
(* The transactions and the blocks.                                        *)

Requested == {message[<<G, n>>] : n \in 0 .. sequence[G] - 1}

LastToShare(v, n, root) == aggregates[<<G, n>>][root] \cup {v} = root

\* Whether the callback of the last share would be taken.
CallbackReturns(v, n, root) ==
  LastToShare(v, n, root) /\ signed[<<G, n>>] = NoRoot
    => message[<<G, n>>] \notin attested

MayAttest(m, n) ==
  /\ signed[<<G, n>>] # NoRoot
  /\ message[<<G, n>>] = m
  /\ m \notin attested

\* Whether the contracts take action a of validator v.
Accepted(v, a) ==
  CASE a.do = "preprocess" ->
         next[G][v] <= MaxChunk /\ ChunkOf(sequence[G]) <= MaxChunk
    [] a.do = "reveal" -> Chain!Binding(G, v, a.sid) # NoRoot
    [] a.do = "share" -> /\ v \notin aggregates[<<G, a.sid>>][a.root]
                         /\ CallbackReturns(v, a.sid, a.root)
    [] a.do = "request" -> sequence[G] < MaxSequence
    [] a.do = "attest" -> MayAttest(a.message, a.sid)

\* The place in the queue of v of the next action that the contracts take, if
\* any: what they refuse they will refuse from then on.
Turn(v) ==
  {i \in 1 .. Len(local[v].outbox) :
     /\ Accepted(v, local[v].outbox[i])
     /\ \A j \in 1 .. i - 1 : ~Accepted(v, local[v].outbox[j])}

\* An honest validator is behind with its transactions.
Behind == \E v \in Honest : Turn(v) # {}

\* A step that disturbs the ceremonies, if wrong.
Disturbs(wrong) ==
  /\ wrong => strays < MaxStrays
  /\ strays' = IF wrong THEN strays + 1 ELSE strays

\* The state of u once the next action of v is included: what was refused
\* before it is gone.
Sent(u, v) ==
  IF u = v
  THEN [local[u] EXCEPT !.outbox = SubSeq(@, (CHOOSE i \in Turn(u) : TRUE) + 1, Len(@))]
  ELSE local[u]

\* The only transaction whose repetition both contract and validators take
\* as new (that of a request is a request of somebody else).
Preprocess(v, tree, again) ==
  /\ next[G][v] <= MaxChunk
  /\ Chain!Preprocess(G, v, <<v, tree>>)
  /\ local' = [u \in Honest |->
       HandlePreprocess(u, IF again THEN local[u] ELSE Sent(u, v), v, tree,
                        next'[G][v] - 1)]
  /\ Disturbs(again)
  /\ UNCHANGED attested

\* Consensus.proposeTransaction, by anybody, and Coordinator.sign.
ProposeTransaction(m) ==
  /\ m \in Transaction \ attested
  /\ Cardinality(Requested \cup {m}) <= MaxMessages
  /\ Chain!Sign(G, m)
  /\ local' = [v \in Honest |->
       HandleSign(v, Verified(local[v], m, Validator, Nobody), m, sequence[G])]
  /\ Disturbs(m \in Requested \/ Behind)
  /\ UNCHANGED attested

\* The last confirmation of the next group, by u, with the callback that
\* proposes the epoch and requests the signature.
ConfirmGroup(m, u) ==
  /\ m \in Rollover \ Requested
  /\ Cardinality(Requested \cup {m}) <= MaxMessages
  /\ Chain!Sign(G, m)
  /\ local' = [v \in Honest |->
       HandleSign(v, Verified(local[v], m, Successors, u), m, sequence[G])]
  /\ Disturbs(Behind)
  /\ UNCHANGED attested

\* Coordinator.sign, by a validator that retries or by anybody.
RequestSignature(v, m) ==
  /\ Cardinality(Requested \cup {m}) <= MaxMessages
  /\ Chain!Sign(G, m)
  /\ local' = [u \in Honest |-> HandleSign(u, Sent(u, v), m, sequence[G])]
  /\ Disturbs(v \notin Honest)
  /\ UNCHANGED attested

RevealNonces(v, n) ==
  /\ Chain!SignRevealNonces(G, n, v)
  /\ local' = [u \in Honest |-> HandleRevealedNonces(u, Sent(u, v), n, v)]
  /\ UNCHANGED <<attested, strays>>

\* signShareWithCallback; the others may leave out the callback, and may
\* share under a selection of their own.
PublishShare(v, n, root, callback) ==
  LET m == message[<<G, n>>]
      completes == signed[<<G, n>>] = NoRoot /\ LastToShare(v, n, root)
      shared(u) == HandleSigningShares(Sent(u, v), n, v)
      settled(u) == HandleSigningCompleted(shared(u), n)
  IN  /\ Chain!SignShare(G, n, v, root)
      /\ callback => CallbackReturns(v, n, root)
      /\ attested' = IF completes /\ callback THEN attested \cup {m} ELSE attested
      /\ local' = [u \in Honest |->
           IF ~completes THEN shared(u)
           ELSE IF ~callback THEN settled(u)
           ELSE HandleAttested(settled(u), m)]
      /\ Disturbs(\A u \in Honest : <<n, root>> \notin local[u].made)

\* Consensus.attestTransaction and Consensus.stageEpoch.
Attest(v, m, n) ==
  /\ MayAttest(m, n)
  /\ attested' = attested \cup {m}
  /\ local' = [u \in Honest |-> HandleAttested(Sent(u, v), m)]
  /\ UNCHANGED <<strays, contract>>

NewBlock ==
  /\ local' = [v \in Honest |-> CheckSigningTimeouts(v, local[v])]
  /\ Disturbs(Behind)
  /\ UNCHANGED <<attested, contract>>

\* The set of verified packets is kept in memory only.
Restart(v) ==
  /\ storageOf[v] = "sqlite"
  /\ local[v].verified # {}
  /\ local' = [local EXCEPT ![v].verified = {}]
  /\ Disturbs(TRUE)
  /\ UNCHANGED <<attested, contract>>

\* An honest validator sends what it has queued, in order.
Perform(v) ==
  \E i \in Turn(v) :
     LET a == local[v].outbox[i]
     IN  \/ /\ a.do = "preprocess"
            /\ \E again \in BOOLEAN : Preprocess(v, a.tree, again)
         \/ a.do = "request" /\ RequestSignature(v, a.message)
         \/ a.do = "reveal" /\ RevealNonces(v, a.sid)
         \/ a.do = "share" /\ PublishShare(v, a.sid, a.root, TRUE)
         \/ a.do = "attest" /\ Attest(v, a.message, a.sid)

\* The others send what they like.
Interfere(v) ==
  \/ Preprocess(v, 0, FALSE)
  \/ \E m \in Message : RequestSignature(v, m)
  \/ \E n \in Sequences :
       \/ RevealNonces(v, n)
       \/ \E root \in Selection, callback \in BOOLEAN :
            PublishShare(v, n, root, callback)
       \/ \E m \in Message : Attest(v, m, n)

Next ==
  \/ NewBlock
  \/ \E v \in Honest : Perform(v) \/ Restart(v)
  \/ \E v \in Validator \ Honest : Interfere(v)
  \/ \E m \in Message :
       \/ ProposeTransaction(m)
       \/ \E u \in Successors : ConfirmGroup(m, u)

\* Blocks are produced, and what is queued is included in the end (see
\* TxSubmission).
Fairness == WF_vars(NewBlock) /\ WF_vars(\E v \in Honest : Perform(v))

Spec == Init /\ [][Next]_vars /\ Fairness

-----------------------------------------------------------------------------
(* Properties.                                                             *)

\* No nonce of a validator goes into two signature shares, whatever ceremony
\* or signer selection they are for: two shares under one nonce give the
\* secret key away (burnNonce, against repeated registrations of a tree,
\* retries, proposals of the same transaction and late reveals).
NonceUsedOnce ==
  \A v \in Honest : \A x, y \in local[v].made :
    Nonce(local[v], x[1]) = Nonce(local[v], y[1]) => x = y

\* The nonces that a validator has queued to reveal are proven against the
\* tree the contract bound to that sequence: the local links of chunks to
\* trees (linkNonceTree, decodeSequence) agree with the contract's
\* (FROSTNonceCommitmentSet.commit, sequenceToChunk) wherever they are used.
RevealIsAccepted ==
  \A v \in Honest, n \in Sequences :
    (\E i \in 1 .. Len(local[v].outbox) :
       local[v].outbox[i] = [do |-> "reveal", sid |-> n]) =>
      Chain!Binding(G, v, n) = <<v, NonceTree(local[v], n)>>

\* Every signing state is left in the end, by attestation or by the timeouts
\* giving it up: no order of events and no behaviour of the other validators
\* keeps a message in the state machine (checkSigningRequestTimeout).
Settles ==
  \A v \in Honest, m \in Message :
    local[v].signing[m].id # "none" ~> local[v].signing[m].id = "none"

\* A message whose signature is requested, a transaction or the rollover to the
\* next epoch, is attested to or staged if nothing but the withholding of the
\* others goes wrong: a quorum of honest validators gets through with its
\* retries and its fallback attestations, whoever was responsible first
\* (timeouts.ts, confirmed.ts).
QuorumSigns ==
  \A m \in Message : m \in Requested ~> m \in attested \/ strays > 0
=============================================================================
