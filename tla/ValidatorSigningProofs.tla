---------------------- MODULE ValidatorSigningProofs ----------------------
(***************************************************************************)
(* No honest validator uses a nonce twice, whatever the others send, the   *)
(* blocks time out and the restarts lose, and every nonce it has queued to *)
(* reveal is one the contract bound to that ceremony: for any validators,  *)
(* messages, chunk sizes and bounds of ValidatorSigning.                   *)
(***************************************************************************)
EXTENDS ValidatorSigning, FiniteSetTheorems, TLAPS

Running ==
  {"collect_nonce_commitments", "collect_signing_shares", "waiting_for_attestation"}

\* The trees of a validator are not more than the ceremonies it has seen.
FewTrees(l, s) == l.trees <= s + 1

\* An entry that runs has a ceremony.
HasCeremony(l) ==
  \A m \in Message : l.signing[m].id \in Running => l.signing[m].sid \in Sequences

\* A ceremony that is known to be of a message was requested, has enough
\* signers, and its nonce is from a tree that is linked.
Prepared(l, s) ==
  \A n \in Sequences : l.messageOf[n] # NoMessage =>
    n < s /\ MayCommit(l.requests[n].signers) /\ NonceTree(l, n) # NoTree

\* The nonces of the shares made are burned.
SharesBurned(l) ==
  \A x \in l.made : NonceTree(l, x[1]) # NoTree /\ Nonce(l, x[1]) \in l.burned

UsedOnce(l) ==
  \A x, y \in l.made : Nonce(l, x[1]) = Nonce(l, y[1]) => x = y

\* A link agrees with a commitment that the contract no longer overwrites: nx
\* is the next chunk of v there, ch are its chunks.
LinksAgree(v, l, nx, ch) ==
  \A c \in Chunks : l.links[c] # NoTree => c < nx /\ ch[c].root = <<v, l.links[c]>>

\* What is queued to be revealed is committed to.
RevealsBound(l, ch) ==
  \A i \in 1 .. Len(l.outbox) : l.outbox[i].do = "reveal" =>
    /\ NonceTree(l, l.outbox[i].sid) # NoTree
    /\ OffsetOf(l.outbox[i].sid) >= ch[ChunkOf(l.outbox[i].sid)].offset

Good(v, l, s, nx, ch) ==
  /\ l \in Local
  /\ FewTrees(l, s)
  /\ HasCeremony(l)
  /\ Prepared(l, s)
  /\ SharesBurned(l)
  /\ UsedOnce(l)
  /\ LinksAgree(v, l, nx, ch)
  /\ RevealsBound(l, ch)

\* A commitment covers no sequence number before the one it was made at.
ContractInv ==
  /\ sequence \in [{G} -> 0 .. MaxSequence]
  /\ next \in [{G} -> [Validator -> 0 .. MaxChunk + 1]]
  /\ chunks \in [{G} -> [Validator -> [Chunks ->
       [root : (Validator \X Trees) \cup {NoRoot}, offset : 0 .. ChunkSize - 1]]]]
  /\ \A v \in Validator, c \in Chunks :
       \/ chunks[G][v][c].offset = 0
       \/ ChunkSize * c + chunks[G][v][c].offset <= sequence[G]
  /\ message \in [{G} \X Sequences -> Message \cup {NoMessage}]
  /\ signed \in [{G} \X Sequences -> Selection \cup {NoRoot}]

Bounded ==
  /\ local \in [Honest -> Local]
  /\ attested \in SUBSET Message
  /\ strays \in 0 .. MaxStrays

GoodOf(v) == Good(v, local[v], sequence[G], next[G][v], chunks[G][v])

Inv ==
  /\ ContractInv
  /\ Bounded
  /\ \A v \in Honest : GoodOf(v)

-----------------------------------------------------------------------------
\* Sequence numbers and their chunks.
LEMMA ChunkParts ==
  ASSUME NEW n \in Nat
  PROVE  /\ ChunkOf(n) \in Nat
         /\ OffsetOf(n) \in 0 .. ChunkSize - 1
         /\ n = ChunkSize * ChunkOf(n) + OffsetOf(n)
BY SigningAssumption DEF ChunkOf, OffsetOf

LEMMA ChunkOrder ==
  ASSUME NEW m \in Nat, NEW n \in Nat, m <= n
  PROVE  ChunkOf(m) <= ChunkOf(n)
<1>1. /\ ChunkOf(m) \in Nat /\ ChunkOf(n) \in Nat
      /\ OffsetOf(m) \in 0 .. ChunkSize - 1 /\ OffsetOf(n) \in 0 .. ChunkSize - 1
      /\ m = ChunkSize * ChunkOf(m) + OffsetOf(m)
      /\ n = ChunkSize * ChunkOf(n) + OffsetOf(n)
  BY ChunkParts
<1> SUFFICES ASSUME ChunkOf(n) + 1 <= ChunkOf(m) PROVE FALSE
  BY <1>1
<1>2. ChunkSize * (ChunkOf(n) + 1) <= ChunkSize * ChunkOf(m)
  BY <1>1, SigningAssumption
<1>3. ChunkSize * (ChunkOf(n) + 1) = ChunkSize * ChunkOf(n) + ChunkSize
  BY <1>1, SigningAssumption
<1> QED
  BY <1>1, <1>2, <1>3, SigningAssumption

LEMMA Decoded ==
  ASSUME NEW n \in 0 .. MaxSequence
  PROVE  /\ ChunkOf(n) \in Chunks /\ OffsetOf(n) \in 0 .. ChunkSize - 1
         /\ n = ChunkSize * ChunkOf(n) + OffsetOf(n)
<1>1. ChunkOf(n) <= ChunkOf(MaxSequence)
  BY ChunkOrder, SigningAssumption
<1>2. ChunkOf(MaxSequence) <= MaxChunk
  BY SigningAssumption DEF ChunkOf
<1>3. n \in Nat /\ MaxSequence \in Nat /\ MaxChunk \in Nat
  BY SigningAssumption
<1>4. ChunkOf(MaxSequence) \in Nat
  BY <1>3, ChunkParts
<1> QED
  BY <1>1, <1>2, <1>3, <1>4, ChunkParts DEF Chunks

LEMMA SequencesDecoded ==
  ASSUME NEW n \in Sequences
  PROVE  /\ n \in 0 .. MaxSequence /\ n \in Nat
         /\ ChunkOf(n) \in Chunks /\ OffsetOf(n) \in 0 .. ChunkSize - 1
BY Decoded, SigningAssumption DEF Sequences

-----------------------------------------------------------------------------
\* The fields of a validator's state.
LEMMA LocalFields ==
  ASSUME NEW l \in Local
  PROVE  /\ l.signing \in [Message -> Entry]
         /\ l.messageOf \in [Sequences -> Message \cup {NoMessage}]
         /\ l.requests \in [Sequences -> [signers : SUBSET Peer, nonces : SUBSET Validator]]
         /\ l.trees \in Trees
         /\ l.links \in [Chunks -> Trees \cup {NoTree}]
         /\ l.burned \in SUBSET (Trees \X (0 .. ChunkSize - 1))
         /\ l.pendingNonces \in BOOLEAN
         /\ l.verified \in SUBSET Message
         /\ l.made \in SUBSET (Sequences \X Selection)
         /\ l.outbox \in Seq(Action)
BY DEF Local

LEMMA EntryFields ==
  ASSUME NEW e \in Entry
  PROVE  /\ e.id \in SigningId /\ e.sid \in Sequences \cup {NoSid}
         /\ e.left \in 0 .. SigningTimeout /\ e.signers \in SUBSET Peer
         /\ e.last \in Validator \cup Successors \cup {Nobody}
         /\ e.shares \in SUBSET Validator
BY DEF Entry

LEMMA NoEntryType ==
  /\ NoEntry \in Entry /\ NoEntry.id = "none"
BY SigningAssumption DEF NoEntry, Entry, SigningId

LEMMA WaitingType ==
  ASSUME NEW signers \in SUBSET Peer,
         NEW responsible \in Validator \cup Successors \cup {Nobody}
  PROVE  Waiting(signers, responsible) \in Entry
         /\ Waiting(signers, responsible).id = "waiting_for_request"
<1>1. SigningTimeout \in 0 .. SigningTimeout /\ "waiting_for_request" \in SigningId
  BY SigningAssumption DEF SigningId
<1> QED
  BY <1>1, NoEntryType DEF Waiting, Entry

LEMMA ActionTypes ==
  /\ \A t \in Trees : [do |-> "preprocess", tree |-> t] \in Action
  /\ \A n \in Sequences : [do |-> "reveal", sid |-> n] \in Action
  /\ \A n \in Sequences, r \in Selection : [do |-> "share", sid |-> n, root |-> r] \in Action
  /\ \A m \in Message : [do |-> "request", message |-> m] \in Action
  /\ \A m \in Message, n \in Sequences :
       [do |-> "attest", message |-> m, sid |-> n] \in Action
BY DEF Action
-----------------------------------------------------------------------------
\* What a change that keeps links, shares and burned nonces cannot disturb.
LEMMA NoncesKept ==
  ASSUME NEW v, NEW s, NEW nx, NEW ch, NEW l, Good(v, l, s, nx, ch),
         NEW k, k.links = l.links, k.made = l.made, k.burned = l.burned
  PROVE  SharesBurned(k) /\ UsedOnce(k) /\ LinksAgree(v, k, nx, ch)
BY DEF Good, SharesBurned, UsedOnce, LinksAgree, NonceTree, Nonce

\* An entry may be replaced by any that has a ceremony if it runs.
LEMMA GoodEntry ==
  ASSUME NEW v, NEW s, NEW nx, NEW ch, NEW l, Good(v, l, s, nx, ch),
         NEW m \in Message, NEW e \in Entry, e.id \in Running => e.sid \in Sequences
  PROVE  Good(v, [l EXCEPT !.signing[m] = e], s, nx, ch)
<1> DEFINE k == [l EXCEPT !.signing[m] = e]
<1>1. l \in Local /\ l.signing \in [Message -> Entry]
  BY LocalFields DEF Good
<1>2. /\ k \in Local /\ k.signing = [l.signing EXCEPT ![m] = e]
      /\ k.messageOf = l.messageOf /\ k.requests = l.requests /\ k.trees = l.trees
      /\ k.links = l.links /\ k.made = l.made /\ k.burned = l.burned
      /\ k.outbox = l.outbox
  BY <1>1 DEF Local
<1> HIDE DEF k
<1>3. SharesBurned(k) /\ UsedOnce(k) /\ LinksAgree(v, k, nx, ch)
  BY <1>2, NoncesKept
<1>4. HasCeremony(k)
  BY <1>1, <1>2 DEF Good, HasCeremony
<1>5. FewTrees(k, s) /\ Prepared(k, s) /\ RevealsBound(k, ch)
  BY <1>2 DEF Good, FewTrees, Prepared, RevealsBound, NonceTree
<1>6. Good(v, k, s, nx, ch)
  BY <1>2, <1>3, <1>4, <1>5 DEF Good
<1> QED
  BY <1>6 DEF k

\* An action may be queued if it is no reveal or one that is committed to.
LEMMA GoodQueue ==
  ASSUME NEW v, NEW s, NEW nx, NEW ch, NEW l, Good(v, l, s, nx, ch),
         NEW a \in Action,
         a.do = "reveal" =>
           /\ NonceTree(l, a.sid) # NoTree
           /\ OffsetOf(a.sid) >= ch[ChunkOf(a.sid)].offset
  PROVE  Good(v, [l EXCEPT !.outbox = Append(@, a)], s, nx, ch)
<1> DEFINE k == [l EXCEPT !.outbox = Append(@, a)]
<1>1. l \in Local /\ l.outbox \in Seq(Action)
  BY LocalFields DEF Good
<1>2. Append(l.outbox, a) \in Seq(Action)
  BY <1>1
<1>3. /\ k \in Local /\ k.outbox = Append(l.outbox, a) /\ k.signing = l.signing
      /\ k.messageOf = l.messageOf /\ k.requests = l.requests /\ k.trees = l.trees
      /\ k.links = l.links /\ k.made = l.made /\ k.burned = l.burned
  BY <1>1, <1>2 DEF Local
<1> HIDE DEF k
<1>4. SharesBurned(k) /\ UsedOnce(k) /\ LinksAgree(v, k, nx, ch)
  BY <1>3, NoncesKept
<1>5. HasCeremony(k) /\ FewTrees(k, s) /\ Prepared(k, s)
  BY <1>3 DEF Good, HasCeremony, FewTrees, Prepared, NonceTree
<1>6. RevealsBound(k, ch)
  <2> SUFFICES ASSUME NEW i \in 1 .. Len(k.outbox), k.outbox[i].do = "reveal"
               PROVE  /\ NonceTree(k, k.outbox[i].sid) # NoTree
                      /\ OffsetOf(k.outbox[i].sid) >= ch[ChunkOf(k.outbox[i].sid)].offset
    BY DEF RevealsBound
  <2>1. \/ k.outbox[i] = a
        \/ i \in 1 .. Len(l.outbox) /\ k.outbox[i] = l.outbox[i]
    BY <1>1, <1>3
  <2>2. \A n : NonceTree(k, n) = NonceTree(l, n)
    BY <1>3 DEF NonceTree
  <2> QED
    BY <2>1, <2>2 DEF Good, RevealsBound
<1>7. Good(v, k, s, nx, ch)
  BY <1>3, <1>4, <1>5, <1>6 DEF Good
<1> QED
  BY <1>7 DEF k

\* The queue may lose actions at its front.
LEMMA GoodSuffix ==
  ASSUME NEW v, NEW s, NEW nx, NEW ch, NEW l, Good(v, l, s, nx, ch),
         NEW i \in 1 .. Len(l.outbox)
  PROVE  Good(v, [l EXCEPT !.outbox = SubSeq(@, i + 1, Len(@))], s, nx, ch)
<1> DEFINE q == SubSeq(l.outbox, i + 1, Len(l.outbox))
           k == [l EXCEPT !.outbox = q]
<1>1. l \in Local /\ l.outbox \in Seq(Action)
  BY LocalFields DEF Good
<1>2. /\ q \in Seq(Action) /\ Len(q) = Len(l.outbox) - i /\ Len(l.outbox) \in Nat
      /\ \A j \in 1 .. Len(q) : q[j] = l.outbox[i + j]
  BY <1>1
<1> HIDE DEF q
<1>3. /\ k \in Local /\ k.outbox = q /\ k.signing = l.signing
      /\ k.messageOf = l.messageOf /\ k.requests = l.requests /\ k.trees = l.trees
      /\ k.links = l.links /\ k.made = l.made /\ k.burned = l.burned
  BY <1>1, <1>2 DEF Local
<1> HIDE DEF k
<1>4. SharesBurned(k) /\ UsedOnce(k) /\ LinksAgree(v, k, nx, ch)
  BY <1>3, NoncesKept
<1>5. HasCeremony(k) /\ FewTrees(k, s) /\ Prepared(k, s)
  BY <1>3 DEF Good, HasCeremony, FewTrees, Prepared, NonceTree
<1>6. RevealsBound(k, ch)
  <2> SUFFICES ASSUME NEW j \in 1 .. Len(k.outbox), k.outbox[j].do = "reveal"
               PROVE  /\ NonceTree(k, k.outbox[j].sid) # NoTree
                      /\ OffsetOf(k.outbox[j].sid) >= ch[ChunkOf(k.outbox[j].sid)].offset
    BY DEF RevealsBound
  <2>1. k.outbox[j] = l.outbox[i + j] /\ i + j \in 1 .. Len(l.outbox)
    BY <1>2, <1>3
  <2>2. \A n : NonceTree(k, n) = NonceTree(l, n)
    BY <1>3 DEF NonceTree
  <2> QED
    BY <2>1, <2>2 DEF Good, RevealsBound
<1>7. k = [l EXCEPT !.outbox = SubSeq(@, i + 1, Len(@))]
  BY DEF k, q
<1> QED
  BY <1>3, <1>4, <1>5, <1>6, <1>7 DEF Good
\* The flags that stop and start the work on nonces and packets.
LEMMA GoodFlags ==
  ASSUME NEW v, NEW s, NEW nx, NEW ch, NEW l, Good(v, l, s, nx, ch),
         NEW k \in Local,
         k.signing = l.signing, k.messageOf = l.messageOf, k.requests = l.requests,
         k.trees = l.trees, k.links = l.links, k.made = l.made, k.burned = l.burned,
         k.outbox = l.outbox
  PROVE  Good(v, k, s, nx, ch)
<1>1. SharesBurned(k) /\ UsedOnce(k) /\ LinksAgree(v, k, nx, ch)
  BY NoncesKept
<1>2. HasCeremony(k) /\ FewTrees(k, s) /\ Prepared(k, s) /\ RevealsBound(k, ch)
  BY DEF Good, HasCeremony, FewTrees, Prepared, RevealsBound, NonceTree
<1> QED
  BY <1>1, <1>2 DEF Good

\* Ceremonies and trees become more.
LEMMA GoodLater ==
  ASSUME NEW v, NEW s \in Nat, NEW nx, NEW ch, NEW l, Good(v, l, s, nx, ch)
  PROVE  Good(v, l, s + 1, nx, ch)
<1>1. FewTrees(l, s + 1)
  BY LocalFields, SigningAssumption DEF Good, FewTrees, Trees
<1>2. Prepared(l, s + 1)
  BY DEF Good, Prepared, Sequences
<1> QED
  BY <1>1, <1>2 DEF Good

LEMMA GoodVerified ==
  ASSUME NEW v, NEW s, NEW nx, NEW ch, NEW l, Good(v, l, s, nx, ch),
         NEW m \in Message, NEW signers \in SUBSET Peer,
         NEW responsible \in Validator \cup Successors \cup {Nobody}
  PROVE  Good(v, Verified(l, m, signers, responsible), s, nx, ch)
<1> DEFINE e == Waiting(signers, responsible)
           k == [l EXCEPT !.signing[m] = e]
           f == [k EXCEPT !.verified = @ \cup {m}]
<1>1. e \in Entry /\ ~(e.id \in Running)
  BY WaitingType DEF Running
<1>2. Good(v, k, s, nx, ch)
  BY <1>1, GoodEntry
<1> HIDE DEF k
<1>3. k \in Local /\ k.verified \in SUBSET Message
  BY <1>2, LocalFields DEF Good
<1>4. /\ f \in Local /\ f.signing = k.signing /\ f.messageOf = k.messageOf
      /\ f.requests = k.requests /\ f.trees = k.trees /\ f.links = k.links
      /\ f.made = k.made /\ f.burned = k.burned /\ f.outbox = k.outbox
  BY <1>3 DEF Local
<1> HIDE DEF f
<1>5. Good(v, f, s, nx, ch)
  BY <1>2, <1>4, GoodFlags
<1>6. f = Verified(l, m, signers, responsible)
  <2>1. l \in Local
    BY DEF Good
  <2> QED
    BY <2>1 DEF f, k, Verified, Local
<1> QED
  BY <1>5, <1>6

\* The own tree of nonces is generated with the ceremony that finds too few.
LEMMA GoodCheck ==
  ASSUME NEW v, NEW s \in Sequences, NEW nx, NEW ch, NEW l, Good(v, l, s, nx, ch),
         NEW n
  PROVE  /\ Good(v, CheckAvailableNonces(l, n), s + 1, nx, ch)
         /\ Good(v, [l EXCEPT !.trees = CheckAvailableNonces(l, n).trees], s + 1, nx, ch)
         /\ CheckAvailableNonces(l, n).links = l.links
         /\ CheckAvailableNonces(l, n).signing = l.signing
         /\ CheckAvailableNonces(l, n).requests = l.requests
         /\ CheckAvailableNonces(l, n).messageOf = l.messageOf
<1>1. /\ l \in Local /\ l.trees \in Trees /\ s \in Nat /\ s < MaxSequence
      /\ l.outbox \in Seq(Action) /\ MaxSequence \in Nat
  BY LocalFields, SigningAssumption DEF Good, Sequences
<1>2. Good(v, l, s + 1, nx, ch)
  BY <1>1, GoodLater
<1>3. l = [l EXCEPT !.trees = l.trees]
  BY <1>1 DEF Local
<1>4. CASE CheckAvailableNonces(l, n) = l
  BY <1>2, <1>3, <1>4
<1>5. CASE CheckAvailableNonces(l, n) # l
  <2> DEFINE a == [do |-> "preprocess", tree |-> l.trees]
             q == [l EXCEPT !.outbox = Append(@, a)]
             k == [q EXCEPT !.trees = l.trees + 1]
             f == [k EXCEPT !.pendingNonces = TRUE]
             t == [l EXCEPT !.trees = l.trees + 1]
  <2>1. a \in Action /\ a.do # "reveal" /\ l.trees + 1 \in Trees
        /\ l.trees + 1 <= (s + 1) + 1
    BY <1>1, ActionTypes DEF Good, FewTrees, Trees
  <2>2. Good(v, q, s + 1, nx, ch)
    BY <1>2, <2>1, GoodQueue
  <2>3. ASSUME NEW x, Good(v, x, s + 1, nx, ch)
        PROVE  Good(v, [x EXCEPT !.trees = l.trees + 1], s + 1, nx, ch)
    <3> DEFINE y == [x EXCEPT !.trees = l.trees + 1]
    <3>1. x \in Local
      BY <2>3 DEF Good
    <3>2. /\ y \in Local /\ y.trees = l.trees + 1
          /\ y.signing = x.signing /\ y.messageOf = x.messageOf
          /\ y.requests = x.requests /\ y.links = x.links /\ y.made = x.made
          /\ y.burned = x.burned /\ y.outbox = x.outbox
      BY <2>1, <3>1 DEF Local
    <3> HIDE DEF y
    <3>3. SharesBurned(y) /\ UsedOnce(y) /\ LinksAgree(v, y, nx, ch)
      BY <2>3, <3>2, NoncesKept
    <3>4. FewTrees(y, s + 1)
      BY <2>1, <3>2 DEF FewTrees
    <3>5. HasCeremony(y) /\ Prepared(y, s + 1) /\ RevealsBound(y, ch)
      BY <2>3, <3>2 DEF Good, HasCeremony, Prepared, RevealsBound, NonceTree
    <3>6. Good(v, y, s + 1, nx, ch)
      BY <3>2, <3>3, <3>4, <3>5 DEF Good
    <3> QED
      BY <3>6 DEF y
  <2>4. Good(v, k, s + 1, nx, ch) /\ Good(v, t, s + 1, nx, ch)
    BY <1>2, <2>2, <2>3
  <2>5. /\ k \in Local /\ k.trees = l.trees + 1 /\ k.links = l.links
        /\ k.signing = l.signing /\ k.requests = l.requests /\ k.messageOf = l.messageOf
    BY <1>1, <2>4 DEF Good, Local
  <2>6. f = CheckAvailableNonces(l, n)
    BY <1>1, <1>5 DEF CheckAvailableNonces, RegisterNonceTree, Local
  <2> HIDE DEF k
  <2>7. /\ f \in Local /\ f.signing = k.signing /\ f.messageOf = k.messageOf
        /\ f.requests = k.requests /\ f.trees = k.trees /\ f.links = k.links
        /\ f.made = k.made /\ f.burned = k.burned /\ f.outbox = k.outbox
    BY <2>5 DEF Local
  <2> HIDE DEF f
  <2>8. Good(v, f, s + 1, nx, ch)
    BY <2>4, <2>7, GoodFlags
  <2> QED
    BY <2>4, <2>5, <2>6, <2>7, <2>8
<1> QED
  BY <1>4, <1>5
-----------------------------------------------------------------------------
\* The client storage of a ceremony.
LEMMA GoodRequest ==
  ASSUME NEW v, NEW s, NEW nx, NEW ch, NEW l, Good(v, l, s, nx, ch),
         NEW n \in Sequences, l.messageOf[n] = NoMessage,
         NEW signers \in SUBSET Peer
  PROVE  /\ Good(v, RegisterRequest(l, n, signers), s, nx, ch)
         /\ RegisterRequest(l, n, signers).requests[n].signers = signers
         /\ RegisterRequest(l, n, signers).links = l.links
<1> DEFINE r == [signers |-> signers, nonces |-> {}]
           k == RegisterRequest(l, n, signers)
<1>1. /\ l \in Local
      /\ l.requests \in [Sequences -> [signers : SUBSET Peer, nonces : SUBSET Validator]]
      /\ r \in [signers : SUBSET Peer, nonces : SUBSET Validator]
  BY LocalFields DEF Good
<1>2. /\ k \in Local /\ k.requests = [l.requests EXCEPT ![n] = r]
      /\ k.signing = l.signing /\ k.messageOf = l.messageOf /\ k.trees = l.trees
      /\ k.links = l.links /\ k.made = l.made /\ k.burned = l.burned
      /\ k.outbox = l.outbox
  BY <1>1 DEF RegisterRequest, Local
<1> HIDE DEF k
<1>3. SharesBurned(k) /\ UsedOnce(k) /\ LinksAgree(v, k, nx, ch)
  BY <1>2, NoncesKept
<1>4. Prepared(k, s)
  <2>1. \A o \in Sequences : o # n => k.requests[o] = l.requests[o]
    BY <1>1, <1>2
  <2> QED
    BY <1>2, <2>1 DEF Good, Prepared, NonceTree
<1>5. HasCeremony(k) /\ FewTrees(k, s) /\ RevealsBound(k, ch)
  BY <1>2 DEF Good, HasCeremony, FewTrees, RevealsBound, NonceTree
<1>6. k.requests[n].signers = signers
  BY <1>1, <1>2
<1>7. Good(v, k, s, nx, ch)
  BY <1>2, <1>3, <1>4, <1>5 DEF Good
<1> QED
  BY <1>2, <1>6, <1>7 DEF k

LEMMA GoodNonces ==
  ASSUME NEW v, NEW s, NEW nx, NEW ch, NEW l, Good(v, l, s, nx, ch),
         NEW n \in Sequences, NEW peer \in Validator
  PROVE  /\ Good(v, RegisterNonces(l, n, peer), s, nx, ch)
         /\ RegisterNonces(l, n, peer).requests[n].signers = l.requests[n].signers
         /\ RegisterNonces(l, n, peer).links = l.links
         /\ RegisterNonces(l, n, peer).messageOf = l.messageOf
         /\ RegisterNonces(l, n, peer).signing = l.signing
         /\ RegisterNonces(l, n, peer).burned = l.burned
<1> DEFINE q == [l.requests EXCEPT ![n].nonces = @ \cup {peer}]
           k == [l EXCEPT !.requests = q]
<1>1. /\ l \in Local
      /\ l.requests \in [Sequences -> [signers : SUBSET Peer, nonces : SUBSET Validator]]
  BY LocalFields DEF Good
<1>2. /\ q \in [Sequences -> [signers : SUBSET Peer, nonces : SUBSET Validator]]
      /\ \A o \in Sequences : q[o].signers = l.requests[o].signers
  BY <1>1
<1> HIDE DEF q
<1>3. /\ k \in Local /\ k.requests = q
      /\ k.signing = l.signing /\ k.messageOf = l.messageOf /\ k.trees = l.trees
      /\ k.links = l.links /\ k.made = l.made /\ k.burned = l.burned
      /\ k.outbox = l.outbox
  BY <1>1, <1>2 DEF Local
<1> HIDE DEF k
<1>4. SharesBurned(k) /\ UsedOnce(k) /\ LinksAgree(v, k, nx, ch)
  BY <1>3, NoncesKept
<1>5. Prepared(k, s)
  BY <1>2, <1>3 DEF Good, Prepared, NonceTree
<1>6. HasCeremony(k) /\ FewTrees(k, s) /\ RevealsBound(k, ch)
  BY <1>3 DEF Good, HasCeremony, FewTrees, RevealsBound, NonceTree
<1>7. Good(v, k, s, nx, ch)
  BY <1>3, <1>4, <1>5, <1>6 DEF Good
<1>8. k = RegisterNonces(l, n, peer)
  BY <1>1 DEF k, q, RegisterNonces, Local
<1> QED
  BY <1>2, <1>3, <1>7, <1>8

\* A ceremony is of a message from when its nonce is chosen.
LEMMA GoodCeremony ==
  ASSUME NEW v, NEW s, NEW nx, NEW ch, NEW l, Good(v, l, s, nx, ch),
         NEW n \in Sequences, NEW m \in Message,
         n < s, MayCommit(l.requests[n].signers), NonceTree(l, n) # NoTree
  PROVE  Good(v, [l EXCEPT !.messageOf[n] = m], s, nx, ch)
<1> DEFINE k == [l EXCEPT !.messageOf[n] = m]
<1>1. l \in Local /\ l.messageOf \in [Sequences -> Message \cup {NoMessage}]
  BY LocalFields DEF Good
<1>2. /\ k \in Local /\ k.messageOf = [l.messageOf EXCEPT ![n] = m]
      /\ k.requests = l.requests /\ k.signing = l.signing /\ k.trees = l.trees
      /\ k.links = l.links /\ k.made = l.made /\ k.burned = l.burned
      /\ k.outbox = l.outbox
  BY <1>1 DEF Local
<1> HIDE DEF k
<1>3. SharesBurned(k) /\ UsedOnce(k) /\ LinksAgree(v, k, nx, ch)
  BY <1>2, NoncesKept
<1>4. Prepared(k, s)
  <2>1. \A o \in Sequences : o # n => k.messageOf[o] = l.messageOf[o]
    BY <1>1, <1>2
  <2> QED
    BY <1>2, <2>1 DEF Good, Prepared, NonceTree
<1>5. HasCeremony(k) /\ FewTrees(k, s) /\ RevealsBound(k, ch)
  BY <1>2 DEF Good, HasCeremony, FewTrees, RevealsBound, NonceTree
<1>6. Good(v, k, s, nx, ch)
  BY <1>2, <1>3, <1>4, <1>5 DEF Good
<1> QED
  BY <1>6 DEF k

\* A ceremony that ends is no longer of a message.
LEMMA GoodEnd ==
  ASSUME NEW v, NEW s, NEW nx, NEW ch, NEW l, Good(v, l, s, nx, ch),
         NEW k \in Local,
         \A n \in Sequences : k.messageOf[n] \in {l.messageOf[n], NoMessage},
         k.signing = l.signing, k.requests = l.requests, k.trees = l.trees,
         k.links = l.links, k.made = l.made, k.burned = l.burned,
         k.outbox = l.outbox
  PROVE  Good(v, k, s, nx, ch)
<1>1. SharesBurned(k) /\ UsedOnce(k) /\ LinksAgree(v, k, nx, ch)
  BY NoncesKept
<1>2. HasCeremony(k) /\ FewTrees(k, s) /\ Prepared(k, s) /\ RevealsBound(k, ch)
  BY DEF Good, HasCeremony, FewTrees, Prepared, RevealsBound, NonceTree
<1> QED
  BY <1>1, <1>2 DEF Good
-----------------------------------------------------------------------------
\* Sign: ceremony s starts, and its commitment, if there is one, covers s.
LEMMA GoodSign ==
  ASSUME NEW v \in Validator, NEW s \in Sequences, NEW nx, NEW ch,
         NEW l, Good(v, l, s, nx, ch), NEW m \in Message,
         OffsetOf(s) >= ch[ChunkOf(s)].offset
  PROVE  Good(v, HandleSign(v, l, m, s), s + 1, nx, ch)
<1> DEFINE entry == l.signing[m]
           checked == CheckAvailableNonces(l, s)
           thrown == [l EXCEPT !.trees = checked.trees]
           started(k) == RegisterRequest(k, s, entry.signers)
<1>1. /\ l \in Local /\ entry \in Entry /\ entry.signers \in SUBSET Peer
      /\ l.messageOf[s] = NoMessage /\ s \in Nat
  BY LocalFields, EntryFields, SequencesDecoded DEF Good, Prepared
<1>2. /\ Good(v, checked, s + 1, nx, ch) /\ Good(v, thrown, s + 1, nx, ch)
      /\ checked.links = l.links /\ checked.signing = l.signing
      /\ checked.messageOf = l.messageOf
  BY GoodCheck
<1>3. thrown.messageOf = l.messageOf
  BY <1>1 DEF Local
<1>4. Good(v, started(thrown), s + 1, nx, ch)
  BY <1>1, <1>2, <1>3, GoodRequest
<1>5. CASE entry.id # "waiting_for_request" \/ m \notin l.verified
  BY <1>2, <1>5 DEF HandleSign
<1>6. CASE /\ ~(entry.id # "waiting_for_request" \/ m \notin l.verified)
           /\ ~MayCommit(entry.signers)
  BY <1>2, <1>6 DEF HandleSign
<1>7. CASE /\ ~(entry.id # "waiting_for_request" \/ m \notin l.verified)
           /\ MayCommit(entry.signers)
           /\ NonceTree(l, s) = NoTree \/ ~MayRegister(v, started(l), s, v)
  BY <1>4, <1>7 DEF HandleSign
<1>8. CASE /\ ~(entry.id # "waiting_for_request" \/ m \notin l.verified)
           /\ MayCommit(entry.signers)
           /\ ~(NonceTree(l, s) = NoTree \/ ~MayRegister(v, started(l), s, v))
  <2> DEFINE k1 == started(checked)
             k2 == RegisterNonces(k1, s, v)
             k3 == [k2 EXCEPT !.messageOf[s] = m]
             e == [NoEntry EXCEPT !.id = "collect_nonce_commitments",
                                  !.sid = s, !.left = SigningTimeout]
             k4 == [k3 EXCEPT !.signing[m] = e]
             a == [do |-> "reveal", sid |-> s]
             k5 == [k4 EXCEPT !.outbox = Append(@, a)]
  <2>1. /\ Good(v, k1, s + 1, nx, ch) /\ k1.requests[s].signers = entry.signers
        /\ k1.links = l.links
    BY <1>1, <1>2, GoodRequest
  <2>2. /\ Good(v, k2, s + 1, nx, ch) /\ k2.requests[s].signers = entry.signers
        /\ k2.links = l.links
    BY <2>1, GoodNonces
  <2>3. HandleSign(v, l, m, s) =
          [k2 EXCEPT !.messageOf[s] = m, !.signing[m] = e, !.outbox = Append(@, a)]
    BY <1>8 DEF HandleSign
  <2> HIDE DEF k2
  <2>4. NonceTree(k2, s) # NoTree
    BY <1>8, <2>2 DEF NonceTree
  <2>5. Good(v, k3, s + 1, nx, ch)
    BY <1>1, <1>8, <2>2, <2>4, GoodCeremony
  <2>6. k3.links = l.links /\ k2 \in Local
    BY <2>2 DEF Good, Local
  <2>7. e \in Entry /\ e.sid \in Sequences
    <3>1. SigningTimeout \in 0 .. SigningTimeout /\ "collect_nonce_commitments" \in SigningId
      BY SigningAssumption DEF SigningId
    <3> QED
      BY <3>1, NoEntryType DEF Entry
  <2> HIDE DEF e
  <2>8. Good(v, k4, s + 1, nx, ch)
    BY <2>5, <2>7, GoodEntry
  <2>9. k4.links = l.links
    BY <2>6 DEF Local
  <2>10. a \in Action /\ a.do = "reveal" /\ a.sid = s
    BY ActionTypes
  <2>11. NonceTree(k4, s) # NoTree
    BY <1>8, <2>9 DEF NonceTree
  <2> HIDE DEF k4
  <2>12. Good(v, k5, s + 1, nx, ch)
    BY <2>8, <2>10, <2>11, GoodQueue
  <2>13. k5 = [k2 EXCEPT !.messageOf[s] = m, !.signing[m] = e, !.outbox = Append(@, a)]
    BY <2>6 DEF k4, Local
  <2> QED
    BY <2>3, <2>12, <2>13
<1> QED
  BY <1>5, <1>6, <1>7, <1>8

\* Preprocess by v: its commitment to tree is of a chunk c that it had not
\* reached, of which no link is known.
LEMMA GoodOwnPreprocess ==
  ASSUME NEW v \in Honest, NEW s, NEW nx \in Nat, NEW ch, NEW l, Good(v, l, s, nx, ch),
         ch \in [Chunks -> [root : (Validator \X Trees) \cup {NoRoot},
                            offset : 0 .. ChunkSize - 1]],
         NEW tree \in Trees, NEW c \in Chunks, nx <= c, NEW o
  PROVE  Good(v, HandlePreprocess(v, l, v, tree, c), s, c + 1,
              [ch EXCEPT ![c] = [root |-> <<v, tree>>, offset |-> o]])
<1> DEFINE linked == LinkNonceTree(v, l, tree, c)
           dh == [ch EXCEPT ![c] = [root |-> <<v, tree>>, offset |-> o]]
           k == HandlePreprocess(v, l, v, tree, c)
<1>1. /\ l \in Local /\ l.links \in [Chunks -> Trees \cup {NoTree}]
      /\ l.links[c] = NoTree /\ c \in Nat
      /\ \A d \in Chunks : l.links[d] # NoTree => d < nx /\ d < c
  BY LocalFields, SigningAssumption DEF Good, LinksAgree, Chunks
<1>2. PICK links \in [Chunks -> Trees \cup {NoTree}] :
        /\ linked = [l EXCEPT !.links = links]
        /\ links[c] \in {tree, NoTree}
        /\ \A d \in Chunks : d # c => links[d] = l.links[d]
  <2> DEFINE t == IF storageOf[v] = "memory" \/ \A d \in Chunks : l.links[d] # tree
                  THEN tree ELSE l.links[c]
             lk == [l.links EXCEPT ![c] = t]
  <2>1. /\ lk \in [Chunks -> Trees \cup {NoTree}] /\ lk[c] \in {tree, NoTree}
        /\ \A d \in Chunks : d # c => lk[d] = l.links[d]
    BY <1>1
  <2>2. linked = [l EXCEPT !.links = lk]
    BY <1>1 DEF LinkNonceTree, Local
  <2> QED
    BY <2>1, <2>2
<1>3. /\ k \in Local /\ k.links = links
      /\ k.signing = l.signing /\ k.messageOf = l.messageOf /\ k.requests = l.requests
      /\ k.trees = l.trees /\ k.made = l.made /\ k.burned = l.burned
      /\ k.outbox = l.outbox
  BY <1>1, <1>2 DEF HandlePreprocess, Local
<1>4. /\ \A d \in Chunks : d # c => dh[d] = ch[d]
      /\ dh[c].root = <<v, tree>> /\ dh[c].offset = o
  BY <1>1
<1> HIDE DEF k, dh, linked
<1>5. \A n \in Sequences : NonceTree(l, n) # NoTree =>
        /\ NonceTree(k, n) = NonceTree(l, n) /\ Nonce(k, n) = Nonce(l, n)
        /\ dh[ChunkOf(n)] = ch[ChunkOf(n)]
  BY <1>1, <1>2, <1>3, <1>4, SequencesDecoded DEF NonceTree, Nonce
<1>6. LinksAgree(v, k, c + 1, dh)
  <2> SUFFICES ASSUME NEW d \in Chunks, links[d] # NoTree
               PROVE  d < c + 1 /\ dh[d].root = <<v, links[d]>>
    BY <1>3 DEF LinksAgree
  <2>1. CASE d = c
    BY <1>1, <1>2, <1>4, <2>1
  <2>2. CASE d # c
    <3>1. d \in Nat /\ l.links[d] = links[d]
      BY <1>2, <2>2, SigningAssumption DEF Chunks
    <3> QED
      BY <1>1, <1>4, <2>2, <3>1 DEF Good, LinksAgree
  <2> QED
    BY <2>1, <2>2
<1>7. SharesBurned(k) /\ UsedOnce(k)
  <2>1. \A x \in k.made : x \in l.made /\ x[1] \in Sequences
    BY <1>3, LocalFields DEF Good
  <2> QED
    BY <1>3, <1>5, <2>1 DEF Good, SharesBurned, UsedOnce
<1>8. RevealsBound(k, dh)
  <2> SUFFICES ASSUME NEW i \in 1 .. Len(l.outbox), l.outbox[i].do = "reveal"
               PROVE  /\ NonceTree(k, l.outbox[i].sid) # NoTree
                      /\ OffsetOf(l.outbox[i].sid) >= dh[ChunkOf(l.outbox[i].sid)].offset
    BY <1>3 DEF RevealsBound
  <2>1. l.outbox[i] \in Action
    BY <1>1, LocalFields
  <2>2. l.outbox[i].sid \in Sequences
    BY <2>1 DEF Action
  <2> QED
    BY <1>5, <2>2 DEF Good, RevealsBound
<1>9. Prepared(k, s)
  BY <1>3, <1>5 DEF Good, Prepared
<1>10. HasCeremony(k) /\ FewTrees(k, s)
  BY <1>3 DEF Good, HasCeremony, FewTrees
<1>11. Good(v, k, s, c + 1, dh)
  BY <1>3, <1>6, <1>7, <1>8, <1>9, <1>10 DEF Good
<1> QED
  BY <1>11 DEF k, dh

LEMMA GoodOtherPreprocess ==
  ASSUME NEW v, NEW u, u # v, NEW s, NEW nx, NEW ch, NEW l, Good(v, l, s, nx, ch),
         NEW tree, NEW c
  PROVE  Good(v, HandlePreprocess(v, l, u, tree, c), s, nx, ch)
<1> DEFINE k == HandlePreprocess(v, l, u, tree, c)
<1>1. l \in Local
  BY DEF Good
<1>2. k = [l EXCEPT !.pendingNonces = FALSE]
  BY DEF HandlePreprocess
<1>3. /\ k \in Local /\ k.signing = l.signing /\ k.messageOf = l.messageOf
      /\ k.requests = l.requests /\ k.trees = l.trees /\ k.links = l.links
      /\ k.made = l.made /\ k.burned = l.burned /\ k.outbox = l.outbox
  BY <1>1, <1>2 DEF Local
<1> QED
  BY <1>3, GoodFlags
-----------------------------------------------------------------------------
\* A share is made under a nonce that is not burned, which is burned with it.
LEMMA GoodShare ==
  ASSUME NEW v, NEW s, NEW nx, NEW ch, NEW l, Good(v, l, s, nx, ch),
         NEW n \in Sequences, l.messageOf[n] # NoMessage, Nonce(l, n) \notin l.burned
  PROVE  /\ Good(v, CreateSignatureShare(l, n), s, nx, ch)
         /\ CreateSignatureShare(l, n).signing = l.signing
<1> DEFINE signers == l.requests[n].signers
           a == [do |-> "share", sid |-> n, root |-> signers]
           q == [l EXCEPT !.outbox = Append(@, a)]
           burned == l.burned \cup {Nonce(l, n)}
           made == l.made \cup {<<n, signers>>}
           k == CreateSignatureShare(l, n)
<1>1. /\ l \in Local /\ MayCommit(signers) /\ NonceTree(l, n) # NoTree
      /\ l.links \in [Chunks -> Trees \cup {NoTree}]
      /\ l.burned \in SUBSET (Trees \X (0 .. ChunkSize - 1))
      /\ l.made \in SUBSET (Sequences \X Selection)
      /\ ChunkOf(n) \in Chunks /\ OffsetOf(n) \in 0 .. ChunkSize - 1
  BY LocalFields, SequencesDecoded DEF Good, Prepared
<1>2. signers \in Selection
  BY <1>1 DEF MayCommit, Selection
<1>3. a \in Action /\ a.do # "reveal"
  BY <1>2, ActionTypes
<1>4. Good(v, q, s, nx, ch)
  BY <1>3, GoodQueue
<1>5. Nonce(l, n) \in Trees \X (0 .. ChunkSize - 1)
  BY <1>1 DEF Nonce, NonceTree
<1>6. burned \in SUBSET (Trees \X (0 .. ChunkSize - 1)) /\ made \in SUBSET (Sequences \X Selection)
  BY <1>1, <1>2, <1>5
<1>7. /\ q \in Local /\ q.signing = l.signing /\ q.messageOf = l.messageOf
      /\ q.requests = l.requests /\ q.trees = l.trees /\ q.links = l.links
      /\ q.outbox = Append(l.outbox, a)
  BY <1>1, <1>4 DEF Good, Local
<1> HIDE DEF q, burned, made
<1>8. k = [q EXCEPT !.burned = burned, !.made = made]
  BY <1>1 DEF q, burned, made, CreateSignatureShare, Local
<1> HIDE DEF k
<1>9. /\ k \in Local /\ k.signing = q.signing /\ k.messageOf = q.messageOf
      /\ k.requests = q.requests /\ k.trees = q.trees /\ k.links = q.links
      /\ k.burned = burned /\ k.made = made /\ k.outbox = q.outbox
  BY <1>6, <1>7, <1>8 DEF Local
<1>10. /\ HasCeremony(k) /\ FewTrees(k, s) /\ Prepared(k, s) /\ LinksAgree(v, k, nx, ch)
       /\ RevealsBound(k, ch)
  BY <1>4, <1>9 DEF Good, HasCeremony, FewTrees, Prepared, LinksAgree, RevealsBound, NonceTree
<1>11. /\ \A o : NonceTree(k, o) = NonceTree(l, o) /\ Nonce(k, o) = Nonce(l, o)
  BY <1>7, <1>9 DEF NonceTree, Nonce
<1>12. \A x \in made : x \in l.made \/ x = <<n, signers>>
  BY DEF made
<1>13. SharesBurned(k)
  <2> SUFFICES ASSUME NEW x \in made
               PROVE  NonceTree(l, x[1]) # NoTree /\ Nonce(l, x[1]) \in burned
    BY <1>9, <1>11 DEF SharesBurned
  <2>1. CASE x \in l.made
    BY <2>1 DEF Good, SharesBurned, burned
  <2>2. CASE x = <<n, signers>>
    BY <1>1, <2>2 DEF burned
  <2> QED
    BY <1>12, <2>1, <2>2
<1>14. UsedOnce(k)
  <2> SUFFICES ASSUME NEW x \in made, NEW y \in made, Nonce(l, x[1]) = Nonce(l, y[1])
               PROVE  x = y
    BY <1>9, <1>11 DEF UsedOnce
  <2>1. \A z \in l.made : Nonce(l, z[1]) # Nonce(l, n)
    BY DEF Good, SharesBurned
  <2>2. <<n, signers>>[1] = n
    OBVIOUS
  <2>3. CASE x \in l.made /\ y \in l.made
    BY <2>3 DEF Good, UsedOnce
  <2> QED
    BY <1>12, <2>1, <2>2, <2>3
<1>15. Good(v, k, s, nx, ch)
  BY <1>9, <1>10, <1>13, <1>14 DEF Good
<1> QED
  BY <1>7, <1>9, <1>15 DEF k

\* SignRevealedNonces
LEMMA GoodRevealed ==
  ASSUME NEW v, NEW s, NEW nx, NEW ch, NEW l, Good(v, l, s, nx, ch),
         NEW n \in Sequences, NEW peer \in Validator
  PROVE  Good(v, HandleRevealedNonces(v, l, n, peer), s, nx, ch)
<1> DEFINE m == l.messageOf[n]
           entry == l.signing[m]
           stored == RegisterNonces(l, n, peer)
           k == HandleRevealedNonces(v, l, n, peer)
<1>1. /\ l \in Local /\ l.signing \in [Message -> Entry]
      /\ m \in Message \cup {NoMessage}
  BY LocalFields DEF Good
<1>2. CASE m = NoMessage
  BY <1>2 DEF HandleRevealedNonces
<1>3. CASE m # NoMessage /\ entry.id # "collect_nonce_commitments"
  BY <1>3 DEF HandleRevealedNonces
<1>4. CASE m # NoMessage /\ entry.id = "collect_nonce_commitments"
  <2>1. /\ m \in Message /\ entry \in Entry /\ entry.id \in Running
        /\ entry.sid \in Sequences
    BY <1>1, <1>4 DEF Good, HasCeremony, Running
  <2>2. /\ Good(v, stored, s, nx, ch) /\ stored.links = l.links
        /\ stored.messageOf = l.messageOf /\ stored.signing = l.signing
        /\ stored.burned = l.burned
    BY GoodNonces
  <2> DEFINE e == [entry EXCEPT !.last = peer]
  <2>3. e \in Entry /\ e.id = entry.id /\ e.sid = entry.sid
    BY <2>1 DEF Entry
  <2>4. /\ [l EXCEPT !.signing[m].last = peer] = [l EXCEPT !.signing[m] = e]
        /\ [stored EXCEPT !.signing[m].last = peer] = [stored EXCEPT !.signing[m] = e]
    BY <2>2 DEF e
  <2> HIDE DEF e, stored
  <2>5. /\ Good(v, [l EXCEPT !.signing[m].last = peer], s, nx, ch)
        /\ Good(v, [stored EXCEPT !.signing[m].last = peer], s, nx, ch)
    BY <2>1, <2>2, <2>3, <2>4, GoodEntry
  <2>6. CASE peer = v
    BY <1>4, <2>5, <2>6 DEF HandleRevealedNonces
  <2>7. CASE peer # v /\ ~MayRegister(v, l, n, peer)
    BY <1>4, <2>7 DEF HandleRevealedNonces
  <2>8. CASE peer # v /\ MayRegister(v, l, n, peer) /\ ~ReadyToSubmit(stored, n)
    BY <1>4, <2>5, <2>8 DEF HandleRevealedNonces, stored
  <2>9. CASE /\ peer # v /\ MayRegister(v, l, n, peer) /\ ReadyToSubmit(stored, n)
             /\ ~MayShare(v, l, n)
    BY <1>4, <2>2, <2>9 DEF HandleRevealedNonces, stored
  <2>10. CASE /\ peer # v /\ MayRegister(v, l, n, peer) /\ ReadyToSubmit(stored, n)
              /\ MayShare(v, l, n)
    <3> DEFINE shared == CreateSignatureShare(stored, n)
               f == [NoEntry EXCEPT !.id = "collect_signing_shares",
                               !.sid = entry.sid, !.left = SigningTimeout,
                               !.last = peer]
    <3>1. Nonce(stored, n) \notin stored.burned
      BY <2>2, <2>10 DEF MayShare, Nonce, NonceTree
    <3>2. Good(v, shared, s, nx, ch)
      BY <1>4, <2>2, <3>1, GoodShare
    <3>3. f \in Entry /\ f.sid \in Sequences
      <4>1. SigningTimeout \in 0 .. SigningTimeout /\ "collect_signing_shares" \in SigningId
        BY SigningAssumption DEF SigningId
      <4> QED
        BY <2>1, <4>1, NoEntryType DEF Entry
    <3>4. k = [shared EXCEPT !.signing[m] = f]
      BY <1>4, <2>10 DEF HandleRevealedNonces, stored
    <3> HIDE DEF shared, f, k
    <3> QED
      BY <2>1, <3>2, <3>3, <3>4, GoodEntry DEF k
  <2> QED
    BY <2>6, <2>7, <2>8, <2>9, <2>10
<1> QED
  BY <1>2, <1>3, <1>4
\* SignShared
LEMMA GoodShared ==
  ASSUME NEW v, NEW s, NEW nx, NEW ch, NEW l, Good(v, l, s, nx, ch),
         NEW n \in Sequences, NEW peer \in Validator
  PROVE  Good(v, HandleSigningShares(l, n, peer), s, nx, ch)
<1> DEFINE m == l.messageOf[n]
           entry == l.signing[m]
           e == [entry EXCEPT !.last = peer, !.shares = @ \cup {peer}]
<1>1. /\ l \in Local /\ l.signing \in [Message -> Entry]
      /\ m \in Message \cup {NoMessage}
  BY LocalFields DEF Good
<1>2. CASE m = NoMessage \/ entry.id # "collect_signing_shares"
  BY <1>2 DEF HandleSigningShares
<1>3. CASE m # NoMessage /\ entry.id = "collect_signing_shares"
  <2>1. /\ m \in Message /\ entry \in Entry /\ entry.id \in Running
        /\ entry.sid \in Sequences /\ entry.shares \in SUBSET Validator
    BY <1>1, <1>3, EntryFields DEF Good, HasCeremony, Running
  <2>2. e \in Entry /\ e.sid = entry.sid
    BY <2>1 DEF Entry
  <2>3. HandleSigningShares(l, n, peer) = [l EXCEPT !.signing[m] = e]
    <3>1. HandleSigningShares(l, n, peer) =
            [l EXCEPT !.signing[m].last = peer, !.signing[m].shares = @ \cup {peer}]
      BY <1>3 DEF HandleSigningShares
    <3>2. [l.signing EXCEPT ![m].last = peer, ![m].shares = @ \cup {peer}]
            = [l.signing EXCEPT ![m] = e]
      BY <1>1, <2>1
    <3> QED
      BY <1>1, <3>1, <3>2 DEF Local
  <2> HIDE DEF e
  <2> QED
    BY <2>1, <2>2, <2>3, GoodEntry
<1> QED
  BY <1>2, <1>3

\* SignCompleted
LEMMA GoodCompleted ==
  ASSUME NEW v, NEW s, NEW nx, NEW ch, NEW l, Good(v, l, s, nx, ch),
         NEW n \in Sequences
  PROVE  Good(v, HandleSigningCompleted(l, n), s, nx, ch)
<1> DEFINE m == l.messageOf[n]
           entry == l.signing[m]
           e == [NoEntry EXCEPT !.id = "waiting_for_attestation", !.sid = entry.sid,
                                !.left = SigningTimeout, !.last = entry.last]
<1>1. /\ l \in Local /\ l.signing \in [Message -> Entry]
      /\ m \in Message \cup {NoMessage}
  BY LocalFields DEF Good
<1>2. CASE m = NoMessage \/ entry.id # "collect_signing_shares"
  BY <1>2 DEF HandleSigningCompleted
<1>3. CASE m # NoMessage /\ entry.id = "collect_signing_shares"
  <2>1. /\ m \in Message /\ entry \in Entry /\ entry.id \in Running
        /\ entry.sid \in Sequences
        /\ entry.last \in Validator \cup Successors \cup {Nobody}
    BY <1>1, <1>3, EntryFields DEF Good, HasCeremony, Running
  <2>2. SigningTimeout \in 0 .. SigningTimeout /\ "waiting_for_attestation" \in SigningId
    BY SigningAssumption DEF SigningId
  <2>3. e \in Entry /\ e.sid \in Sequences
    BY <2>1, <2>2, NoEntryType DEF Entry
  <2>4. HandleSigningCompleted(l, n) = [l EXCEPT !.signing[m] = e]
    BY <1>3 DEF HandleSigningCompleted
  <2> HIDE DEF e
  <2> QED
    BY <2>1, <2>3, <2>4, GoodEntry
<1> QED
  BY <1>2, <1>3

\* TransactionAttested and EpochStaged
LEMMA GoodAttested ==
  ASSUME NEW v, NEW s, NEW nx, NEW ch, NEW l, Good(v, l, s, nx, ch),
         NEW m \in Message
  PROVE  Good(v, HandleAttested(l, m), s, nx, ch)
<1> DEFINE entry == l.signing[m]
           k == [l EXCEPT !.signing[m] = NoEntry]
           f == [k EXCEPT !.messageOf[entry.sid] = NoMessage]
<1>1. Good(v, k, s, nx, ch)
  BY NoEntryType, GoodEntry DEF Running
<1>2. CASE entry.id # "waiting_for_attestation"
  BY <1>2 DEF HandleAttested
<1>3. CASE entry.id = "waiting_for_attestation"
  <2>1. l \in Local /\ f = HandleAttested(l, m)
    BY <1>3 DEF Good, HandleAttested
  <2> HIDE DEF k
  <2>2. k \in Local /\ k.messageOf \in [Sequences -> Message \cup {NoMessage}]
    BY <1>1, LocalFields DEF Good
  <2>3. /\ f \in Local
        /\ \A n \in Sequences : f.messageOf[n] \in {k.messageOf[n], NoMessage}
        /\ f.signing = k.signing /\ f.requests = k.requests /\ f.trees = k.trees
        /\ f.links = k.links /\ f.made = k.made /\ f.burned = k.burned
        /\ f.outbox = k.outbox
    BY <2>2 DEF Local
  <2> HIDE DEF f
  <2>4. Good(v, f, s, nx, ch)
    BY <1>1, <2>3, GoodEnd
  <2> QED
    BY <2>1, <2>4
<1> QED
  BY <1>2, <1>3

-----------------------------------------------------------------------------
\* What a deadline that passes leaves behind: an entry that has a ceremony if
\* it runs, and at most one action, which is no reveal.
GoodDiff(d) ==
  /\ d.entry \in Entry /\ (d.entry.id \in Running => d.entry.sid \in Sequences)
  /\ d.actions \in SUBSET Action
  /\ \A a \in d.actions : a.do # "reveal" /\ d.actions = {a}

LEMMA DiffParts ==
  ASSUME NEW e, NEW ended, NEW actions
  PROVE  Diff(e, ended, actions).entry = e /\ Diff(e, ended, actions).actions = actions
BY DEF Diff

LEMMA RequestAction ==
  ASSUME NEW m \in Message
  PROVE  [do |-> "request", message |-> m] \in Action
         /\ [do |-> "request", message |-> m].do # "reveal"
BY ActionTypes

LEMMA QuietDiff ==
  ASSUME NEW e \in Entry, e.id \in Running => e.sid \in Sequences, NEW ended
  PROVE  GoodDiff(Diff(e, ended, {}))
BY DiffParts DEF GoodDiff

LEMMA ActingDiff ==
  ASSUME NEW e \in Entry, e.id \in Running => e.sid \in Sequences, NEW ended,
         NEW a \in Action, a.do # "reveal", NEW actions, actions \in {{a}, {}}
  PROVE  GoodDiff(Diff(e, ended, actions))
BY DiffParts DEF GoodDiff

LEMMA GoodAttestationTimeout ==
  ASSUME NEW v, NEW s, NEW nx, NEW ch, NEW l, Good(v, l, s, nx, ch),
         NEW m \in Message, l.signing[m].id = "waiting_for_attestation"
  PROVE  GoodDiff(AttestationTimeout(v, l, m))
<1> DEFINE entry == l.signing[m]
           a == [do |-> "attest", message |-> m, sid |-> entry.sid]
           next1 == [entry EXCEPT !.last = Nobody, !.left = SigningTimeout]
           e == IF entry.last = Nobody THEN NoEntry ELSE next1
           actions == By(v, entry.last, a)
<1>1. entry \in Entry /\ entry.sid \in Sequences
  BY LocalFields DEF Good, HasCeremony, Running
<1>2. SigningTimeout \in 0 .. SigningTimeout
  BY SigningAssumption
<1>3. next1 \in Entry /\ next1.sid = entry.sid
  BY <1>1, <1>2 DEF Entry
<1> HIDE DEF next1
<1>4. e \in Entry /\ (e.id \in Running => e.sid \in Sequences)
  BY <1>1, <1>3, NoEntryType DEF Running
<1>5. a \in Action /\ a.do # "reveal" /\ actions \in {{a}, {}}
  BY <1>1, ActionTypes DEF By
<1>6. AttestationTimeout(v, l, m) = Diff(e, {entry.sid}, actions)
  BY DEF AttestationTimeout, next1
<1> HIDE DEF e, actions, a
<1> QED
  BY <1>4, <1>5, <1>6, ActingDiff

LEMMA GoodRequestTimeout ==
  ASSUME NEW v, NEW s, NEW nx, NEW ch, NEW l, Good(v, l, s, nx, ch),
         NEW m \in Message
  PROVE  GoodDiff(RequestTimeout(v, l, m))
<1> DEFINE entry == l.signing[m]
           signers == entry.signers \ {entry.last}
           a == [do |-> "request", message |-> m]
           w == Waiting(signers, Nobody)
           e == IF entry.last = Nobody THEN NoEntry ELSE w
           actions == By(v, entry.last, a)
<1>1. entry \in Entry /\ signers \in SUBSET Peer
  BY LocalFields, EntryFields DEF Good
<1>2. w \in Entry /\ ~(w.id \in Running)
  BY <1>1, WaitingType DEF Running
<1> HIDE DEF w
<1>3. e \in Entry /\ (e.id \in Running => e.sid \in Sequences)
  BY <1>2, NoEntryType DEF Running
<1>4. a \in Action /\ a.do # "reveal" /\ actions \in {{a}, {}}
  BY RequestAction DEF By
<1>5. RequestTimeout(v, l, m) = IF Cardinality(signers) < Threshold
                                THEN Diff(NoEntry, {}, {}) ELSE Diff(e, {}, actions)
  BY DEF RequestTimeout, w
<1>6. GoodDiff(Diff(NoEntry, {}, {}))
  BY NoEntryType, QuietDiff DEF Running
<1> HIDE DEF e, actions, a
<1> QED
  BY <1>3, <1>4, <1>5, <1>6, ActingDiff

LEMMA GoodCeremonyTimeout ==
  ASSUME NEW v, NEW s, NEW nx, NEW ch, NEW l, Good(v, l, s, nx, ch),
         NEW m \in Message,
         l.signing[m].id \in {"collect_nonce_commitments", "collect_signing_shares"}
  PROVE  GoodDiff(CeremonyTimeout(v, l, m))
<1> DEFINE entry == l.signing[m]
           a == [do |-> "request", message |-> m]
           w == Waiting(Remaining(l, m), entry.last)
           actions == IF entry.last = v THEN {a} ELSE {}
<1>1. /\ entry \in Entry /\ entry.sid \in Sequences
      /\ entry.last \in Validator \cup Successors \cup {Nobody}
      /\ l.requests[entry.sid].signers \in SUBSET Peer
  BY LocalFields, EntryFields DEF Good, HasCeremony, Running
<1>2. Remaining(l, m) \in SUBSET Peer
  BY <1>1 DEF Remaining
<1>3. w \in Entry /\ ~(w.id \in Running)
  BY <1>1, <1>2, WaitingType DEF Running
<1>4. a \in Action /\ a.do # "reveal" /\ actions \in {{a}, {}}
  BY RequestAction
<1>5. Retry(v, l, m) = Diff(w, {entry.sid}, actions)
  BY DEF Retry
<1> HIDE DEF w, actions, a
<1>6. GoodDiff(Retry(v, l, m))
  BY <1>3, <1>4, <1>5, ActingDiff
<1>7. GoodDiff(Diff(NoEntry, {entry.sid}, {}))
  BY NoEntryType, QuietDiff DEF Running
<1> QED
  BY <1>6, <1>7 DEF CeremonyTimeout

LEMMA GoodTick ==
  ASSUME NEW v, NEW s, NEW nx, NEW ch, NEW l, Good(v, l, s, nx, ch),
         NEW m \in Message
  PROVE  GoodDiff(Tick(v, l, m))
<1> DEFINE entry == l.signing[m]
           e == [entry EXCEPT !.left = @ - 1]
<1>1. /\ entry \in Entry /\ entry.id \in SigningId /\ entry.left \in 0 .. SigningTimeout
      /\ (entry.id \in Running => entry.sid \in Sequences)
  BY LocalFields, EntryFields DEF Good, HasCeremony
<1>2. CASE entry.id = "none"
  <2>1. Tick(v, l, m) = Diff(entry, {}, {})
    BY <1>2 DEF Tick
  <2> QED
    BY <1>1, <2>1, QuietDiff
<1>3. CASE entry.id # "none" /\ entry.left > 1
  <2>1. Tick(v, l, m) = Diff(e, {}, {})
    BY <1>3 DEF Tick
  <2>2. entry.left - 1 \in 0 .. SigningTimeout
    BY <1>1, <1>3, SigningAssumption
  <2>3. e \in Entry /\ e.id = entry.id /\ e.sid = entry.sid
    BY <1>1, <2>2 DEF Entry
  <2> HIDE DEF e
  <2> QED
    BY <1>1, <2>1, <2>3, QuietDiff
<1>4. CASE entry.id # "none" /\ ~(entry.left > 1)
  <2>1. Tick(v, l, m) = TimeoutOf(v, l, m)
    BY <1>4 DEF Tick
  <2>2. CASE entry.id = "waiting_for_attestation"
    BY <2>1, <2>2, GoodAttestationTimeout DEF TimeoutOf
  <2>3. CASE entry.id = "waiting_for_request"
    BY <2>1, <2>3, GoodRequestTimeout DEF TimeoutOf
  <2>4. CASE entry.id \in {"collect_nonce_commitments", "collect_signing_shares"}
    BY <2>1, <2>4, GoodCeremonyTimeout DEF TimeoutOf
  <2> QED
    BY <1>1, <1>4, <2>2, <2>3, <2>4 DEF SigningId
<1> QED
  BY <1>2, <1>3, <1>4
\* The sequence of a finite set.
LEMMA SetToSeqType ==
  ASSUME NEW S, IsFiniteSet(S)
  PROVE  SetToSeq(S) \in Seq(S)
<1>1. Cardinality(S) \in Nat /\ ExistsBijection(1 .. Cardinality(S), S)
  BY FS_CardinalityType
<1>2. \E f \in [1 .. Cardinality(S) -> S] : IsInjective(f)
  BY <1>1 DEF ExistsBijection, Bijection, Injection
<1>3. SetToSeq(S) \in [1 .. Cardinality(S) -> S]
  BY <1>2 DEF SetToSeq
<1> QED
  BY <1>1, <1>3

\* The blocks: all deadlines pass in one state, and what they queue is no
\* reveal.
LEMMA GoodTimeouts ==
  ASSUME NEW v, NEW s, NEW nx, NEW ch, NEW l, Good(v, l, s, nx, ch)
  PROVE  Good(v, CheckSigningTimeouts(v, l), s, nx, ch)
<1> DEFINE diffs == [m \in Message |-> Tick(v, l, m)]
           ended == UNION {diffs[m].ended : m \in Message}
           actions == UNION {diffs[m].actions : m \in Message}
           entries == [m \in Message |-> diffs[m].entry]
           ids == [n \in Sequences |-> IF n \in ended THEN NoMessage ELSE l.messageOf[n]]
           tail == SetToSeq(actions)
           q == l.outbox \o tail
           k == [l EXCEPT !.signing = entries, !.messageOf = ids, !.outbox = q]
<1>1. /\ l \in Local /\ l.outbox \in Seq(Action)
      /\ l.messageOf \in [Sequences -> Message \cup {NoMessage}]
  BY LocalFields DEF Good
<1>2. k = CheckSigningTimeouts(v, l)
  BY <1>1 DEF CheckSigningTimeouts, Local
<1>3. \A m \in Message : GoodDiff(diffs[m])
  BY GoodTick
<1> HIDE DEF diffs
<1>4. /\ entries \in [Message -> Entry]
      /\ \A m \in Message : entries[m].id \in Running => entries[m].sid \in Sequences
  BY <1>3 DEF GoodDiff
<1>5. ids \in [Sequences -> Message \cup {NoMessage}]
      /\ \A n \in Sequences : ids[n] \in {l.messageOf[n], NoMessage}
  BY <1>1
<1>6. actions \in SUBSET Action /\ \A a \in actions : a.do # "reveal"
  BY <1>3 DEF GoodDiff
<1>7. IsFiniteSet(actions)
  <2> DEFINE T == {m \in Message : diffs[m].actions # {}}
             g == [m \in T |-> CHOOSE a : a \in diffs[m].actions]
  <2>1. IsFiniteSet(T)
    BY FS_Subset, SigningAssumption
  <2>2. \A m \in T : g[m] \in diffs[m].actions /\ diffs[m].actions = {g[m]}
    BY <1>3 DEF GoodDiff
  <2>3. g \in [T -> actions] /\ \A a \in actions : \E m \in T : g[m] = a
    <3>1. \A m \in T : g[m] \in actions
      BY <2>2
    <3>2. ASSUME NEW a \in actions
          PROVE  \E m \in T : g[m] = a
      <4>1. PICK m \in Message : a \in diffs[m].actions
        OBVIOUS
      <4>2. m \in T
        BY <4>1
      <4> HIDE DEF g
      <4> QED
        BY <2>2, <4>1, <4>2
    <3> QED
      BY <3>1, <3>2
  <2> HIDE DEF g, T, actions
  <2>4. g \in Surjection(T, actions)
    BY <2>3 DEF Surjection
  <2> QED
    BY <2>1, <2>4, FS_Surjection
<1> HIDE DEF actions
<1>8. tail \in Seq(Action) /\ \A i \in 1 .. Len(tail) : tail[i].do # "reveal"
  <2>1. tail \in Seq(actions)
    BY <1>7, SetToSeqType
  <2> HIDE DEF tail
  <2>2. \A i \in 1 .. Len(tail) : tail[i] \in actions
    BY <2>1
  <2>3. tail \in Seq(Action)
    BY <1>6, <2>1
  <2> QED
    BY <1>6, <2>2, <2>3
<1> HIDE DEF tail
<1>9. /\ q \in Seq(Action)
      /\ \A i \in 1 .. Len(q) :
           \/ i \in 1 .. Len(l.outbox) /\ q[i] = l.outbox[i]
           \/ q[i].do # "reveal"
  <2>1. /\ q \in Seq(Action) /\ Len(q) = Len(l.outbox) + Len(tail)
        /\ Len(l.outbox) \in Nat /\ Len(tail) \in Nat
    BY <1>1, <1>8
  <2>2. ASSUME NEW i \in 1 .. Len(q)
        PROVE  \/ i \in 1 .. Len(l.outbox) /\ q[i] = l.outbox[i]
               \/ q[i].do # "reveal"
    <3>1. CASE i \in 1 .. Len(l.outbox)
      BY <1>1, <1>8, <3>1
    <3>2. CASE i \notin 1 .. Len(l.outbox)
      <4>1. i - Len(l.outbox) \in 1 .. Len(tail) /\ q[i] = tail[i - Len(l.outbox)]
        BY <1>1, <1>8, <2>1, <3>2
      <4> QED
        BY <1>8, <4>1
    <3> QED
      BY <3>1, <3>2
  <2> QED
    BY <2>1, <2>2
<1> HIDE DEF entries, ids, q
<1>10. /\ k \in Local /\ k.signing = entries /\ k.messageOf = ids /\ k.outbox = q
       /\ k.requests = l.requests /\ k.trees = l.trees /\ k.links = l.links
       /\ k.made = l.made /\ k.burned = l.burned
  BY <1>1, <1>4, <1>5, <1>9 DEF Local
<1> HIDE DEF k
<1>11. SharesBurned(k) /\ UsedOnce(k) /\ LinksAgree(v, k, nx, ch)
  BY <1>10, NoncesKept
<1>12. HasCeremony(k)
  BY <1>4, <1>10 DEF HasCeremony
<1>13. FewTrees(k, s) /\ Prepared(k, s)
  BY <1>5, <1>10 DEF Good, FewTrees, Prepared, NonceTree
<1>14. RevealsBound(k, ch)
  BY <1>9, <1>10 DEF Good, RevealsBound, NonceTree
<1> QED
  BY <1>2, <1>10, <1>11, <1>12, <1>13, <1>14 DEF Good
-----------------------------------------------------------------------------
LEMMA InitGood == Init => Inv
<1> SUFFICES ASSUME Init PROVE Inv
  OBVIOUS
<1>1. ContractInv
  <2>1. /\ sequence = [g \in {G} |-> 0]
        /\ next = [g \in {G} |-> [i \in Validator |-> 0]]
        /\ chunks = [g \in {G} |-> [i \in Validator |->
             [c \in Chunks |-> [root |-> NoRoot, offset |-> 0]]]]
        /\ message = [sid \in {G} \X Sequences |-> NoMessage]
        /\ signed = [sid \in {G} \X Sequences |-> NoRoot]
    BY DEF Init, Chain!SignInit, Chain!NoCommitment, Chain!Sid, Chunks, Sequences
  <2>2. 0 \in 0 .. MaxSequence /\ 0 \in 0 .. MaxChunk + 1 /\ 0 \in 0 .. ChunkSize - 1
    BY SigningAssumption
  <2>3. chunks \in [{G} -> [Validator -> [Chunks ->
           [root : (Validator \X Trees) \cup {NoRoot}, offset : 0 .. ChunkSize - 1]]]]
    BY <2>1, <2>2
  <2>4. \A v \in Validator, c \in Chunks : chunks[G][v][c].offset = 0
    BY <2>1
  <2> QED
    BY <2>1, <2>2, <2>3, <2>4 DEF ContractInv
<1>2. Fresh \in Local
  <2>1. 0 \in Trees /\ 1 \in Trees
    BY SigningAssumption DEF Trees
  <2>2. <<[do |-> "preprocess", tree |-> 0]>> \in Seq(Action)
    BY <2>1, ActionTypes
  <2> QED
    BY <2>1, <2>2, NoEntryType DEF Fresh, Local
<1>3. Bounded
  BY <1>2, SigningAssumption DEF Init, Bounded
<1>4. ASSUME NEW v \in Honest
      PROVE  GoodOf(v)
  <2>1. local[v] = Fresh /\ sequence[G] = 0
    BY DEF Init, Chain!SignInit
  <2>2. \A n \in Sequences : Fresh.messageOf[n] = NoMessage
    BY DEF Fresh
  <2>3. \A c \in Chunks : Fresh.links[c] = NoTree
    BY DEF Fresh
  <2>4. \A m \in Message : ~(Fresh.signing[m].id \in Running)
    BY DEF Fresh, NoEntry, Running
  <2>5. Fresh.made = {} /\ Fresh.trees = 1
        /\ Fresh.outbox = <<[do |-> "preprocess", tree |-> 0]>>
    BY DEF Fresh
  <2>6. FewTrees(Fresh, 0) /\ Prepared(Fresh, 0) /\ HasCeremony(Fresh)
        /\ SharesBurned(Fresh) /\ UsedOnce(Fresh)
    BY <2>2, <2>4, <2>5
       DEF FewTrees, Prepared, HasCeremony, SharesBurned, UsedOnce
  <2>7. LinksAgree(v, Fresh, next[G][v], chunks[G][v])
    BY <2>3 DEF LinksAgree
  <2>8. RevealsBound(Fresh, chunks[G][v])
    BY <2>5 DEF RevealsBound
  <2> QED
    BY <1>2, <2>1, <2>6, <2>7, <2>8 DEF GoodOf, Good
<1> QED
  BY <1>1, <1>3, <1>4 DEF Inv

-----------------------------------------------------------------------------
\* The transactions, as far as the contract goes.
LEMMA HonestAreValidators ==
  ASSUME NEW v \in Honest
  PROVE  v \in Validator /\ v \in Successors
BY SigningAssumption

\* A commitment is to a chunk that was not reached, from its start or from
\* the current sequence number.
LEMMA Committed ==
  ASSUME ContractInv, NEW v \in Validator, NEW root \in Validator \X Trees,
         Chain!Preprocess(G, v, root)
  PROVE  \E c \in Chunks, o \in 0 .. ChunkSize - 1 :
           /\ next[G][v] <= c
           /\ o = 0 \/ ChunkSize * c + o <= sequence[G]
           /\ next' = [next EXCEPT ![G][v] = c + 1]
           /\ chunks' = [chunks EXCEPT ![G][v][c] = [root |-> root, offset |-> o]]
           /\ UNCHANGED <<sequence, message, signed>>
<1> DEFINE now == ChunkOf(sequence[G])
           off == OffsetOf(sequence[G])
<1>1. /\ next[G][v] \in 0 .. MaxChunk + 1 /\ sequence[G] \in 0 .. MaxSequence
      /\ ChunkSize \in Nat /\ ChunkSize > 0
  BY SigningAssumption DEF ContractInv
<1>2. /\ now \in Chunks /\ off \in 0 .. ChunkSize - 1
      /\ sequence[G] = ChunkSize * now + off
  BY <1>1, Decoded
<1>3. /\ Chain!Commit(G, v, root) /\ UNCHANGED <<sequence, message, signed>>
  BY DEF Chain!Preprocess
<1>4. Chain!ChunkOf(sequence[G]) = now /\ Chain!OffsetOf(sequence[G]) = off
  BY DEF Chain!ChunkOf, Chain!OffsetOf, ChunkOf, OffsetOf
<1> HIDE DEF now, off
<1>5. CASE next[G][v] > now
  <2>1. Chain!StoreChunk(G, v, next[G][v], root, 0)
    BY <1>3, <1>4, <1>5 DEF Chain!Commit
  <2>2. /\ next[G][v] <= MaxChunk
        /\ next' = [next EXCEPT ![G][v] = next[G][v] + 1]
        /\ chunks' = [chunks EXCEPT ![G][v][next[G][v]] = [root |-> root, offset |-> 0]]
    BY <2>1 DEF Chain!StoreChunk
  <2>3. next[G][v] \in Chunks /\ 0 \in 0 .. ChunkSize - 1
    BY <1>1, <2>2, SigningAssumption DEF Chunks
  <2> DEFINE d == next[G][v]
  <2>4. /\ d \in Chunks /\ next[G][v] <= d
        /\ next' = [next EXCEPT ![G][v] = d + 1]
        /\ chunks' = [chunks EXCEPT ![G][v][d] = [root |-> root, offset |-> 0]]
    BY <1>1, <2>2, <2>3
  <2> HIDE DEF d
  <2> QED
    BY <1>3, <2>3, <2>4
<1>6. CASE ~(next[G][v] > now)
  <2>1. Chain!StoreChunk(G, v, now, root, off)
    BY <1>3, <1>4, <1>6 DEF Chain!Commit
  <2>2. /\ next' = [next EXCEPT ![G][v] = now + 1]
        /\ chunks' = [chunks EXCEPT ![G][v][now] = [root |-> root, offset |-> off]]
    BY <2>1 DEF Chain!StoreChunk
  <2>3. next[G][v] <= now
    BY <1>1, <1>2, <1>6, SigningAssumption DEF Chunks
  <2>4. ChunkSize * now + off <= sequence[G]
    BY <1>1, <1>2
  <2> QED
    BY <1>2, <1>3, <2>2, <2>3, <2>4
<1> QED
  BY <1>5, <1>6

LEMMA SignedOnce ==
  ASSUME ContractInv, NEW m \in Message, Chain!Sign(G, m)
  PROVE  /\ sequence[G] \in Sequences /\ sequence'[G] = sequence[G] + 1
         /\ UNCHANGED <<next, chunks, signed>>
         /\ ContractInv'
<1>1. /\ sequence[G] < MaxSequence
      /\ sequence' = [sequence EXCEPT ![G] = @ + 1]
      /\ message' = [message EXCEPT ![<<G, sequence[G]>>] = m]
      /\ UNCHANGED <<next, chunks, signed>>
  BY DEF Chain!Sign
<1>2. sequence[G] \in 0 .. MaxSequence /\ MaxSequence \in Nat
  BY SigningAssumption DEF ContractInv
<1>3. sequence[G] \in Sequences /\ sequence'[G] = sequence[G] + 1
  BY <1>1, <1>2 DEF Sequences, ContractInv
<1>4. sequence' \in [{G} -> 0 .. MaxSequence]
  BY <1>1, <1>2 DEF ContractInv
<1>5. message' \in [{G} \X Sequences -> Message \cup {NoMessage}]
  BY <1>1 DEF ContractInv
<1>6. ASSUME NEW v \in Validator, NEW c \in Chunks
      PROVE  \/ chunks'[G][v][c].offset = 0
             \/ ChunkSize * c + chunks'[G][v][c].offset <= sequence'[G]
  <2>1. chunks' = chunks /\ chunks[G][v][c].offset \in 0 .. ChunkSize - 1
    BY <1>1 DEF ContractInv
  <2>2. \/ chunks[G][v][c].offset = 0
        \/ ChunkSize * c + chunks[G][v][c].offset <= sequence[G]
    BY DEF ContractInv
  <2>3. ChunkSize * c \in Int /\ chunks[G][v][c].offset \in Int
    BY <2>1, SigningAssumption DEF Chunks
  <2> QED
    BY <1>2, <1>3, <2>1, <2>2, <2>3
<1>7. ContractInv'
  BY <1>1, <1>4, <1>5, <1>6 DEF ContractInv
<1> QED
  BY <1>1, <1>3, <1>7

LEMMA OffsetReached ==
  ASSUME ContractInv, NEW v \in Validator, sequence[G] \in Sequences
  PROVE  OffsetOf(sequence[G]) >= chunks[G][v][ChunkOf(sequence[G])].offset
<1> DEFINE s == sequence[G]
           c == ChunkOf(s)
           o == chunks[G][v][c].offset
<1>1. /\ s \in 0 .. MaxSequence /\ c \in Chunks /\ OffsetOf(s) \in 0 .. ChunkSize - 1
      /\ s = ChunkSize * c + OffsetOf(s)
  BY Decoded DEF ContractInv
<1>2. o \in 0 .. ChunkSize - 1 /\ (o = 0 \/ ChunkSize * c + o <= s)
  BY <1>1 DEF ContractInv
<1>3. ChunkSize * c \in Int /\ ChunkSize \in Nat
  BY <1>1, SigningAssumption DEF Chunks
<1> HIDE DEF s, c, o
<1>4. OffsetOf(s) >= o
  BY <1>1, <1>2, <1>3
<1> QED
  BY <1>4 DEF s, c, o
-----------------------------------------------------------------------------
\* A validator that sends has something to send.
Sends(v) == v \in Honest => Turn(v) # {}

LEMMA SentGood ==
  ASSUME Inv, NEW u \in Honest, NEW v, Sends(v)
  PROVE  Good(u, Sent(u, v), sequence[G], next[G][u], chunks[G][u])
<1>1. Good(u, local[u], sequence[G], next[G][u], chunks[G][u])
  BY DEF Inv, GoodOf
<1>2. CASE u # v
  BY <1>1, <1>2 DEF Sent
<1>3. CASE u = v
  <2> DEFINE i == CHOOSE j \in Turn(u) : TRUE
  <2>1. i \in Turn(u)
    BY <1>3 DEF Sends
  <2>2. i \in 1 .. Len(local[u].outbox)
    BY <2>1 DEF Turn
  <2>3. Sent(u, v) = [local[u] EXCEPT !.outbox = SubSeq(@, i + 1, Len(@))]
    BY <1>3 DEF Sent
  <2> HIDE DEF i
  <2>4. Good(u, [local[u] EXCEPT !.outbox = SubSeq(@, i + 1, Len(@))],
             sequence[G], next[G][u], chunks[G][u])
    BY ONLY <1>1, <2>2, GoodSuffix
  <2> QED
    BY <2>3, <2>4
<1> QED
  BY <1>2, <1>3

LEMMA StraysBound ==
  ASSUME Bounded, NEW wrong, Disturbs(wrong)
  PROVE  strays' \in 0 .. MaxStrays
BY SigningAssumption DEF Bounded, Disturbs

\* A step of the validators that leaves the state of all of them as it should.
LEMMA AllGood ==
  ASSUME ContractInv', local' = [u \in Honest |-> local'[u]],
         attested' \in SUBSET Message, strays' \in 0 .. MaxStrays,
         \A u \in Honest : Good(u, local'[u], sequence'[G], next'[G][u], chunks'[G][u])
  PROVE  Inv'
<1>1. local' \in [Honest -> Local]
  BY DEF Good
<1> QED
  BY <1>1 DEF Inv, Bounded, GoodOf

LEMMA PreprocessStep ==
  ASSUME Inv, NEW v \in Validator, Sends(v), NEW tree \in Trees,
         NEW again \in BOOLEAN, Preprocess(v, tree, again)
  PROVE  Inv'
<1> DEFINE root == <<v, tree>>
           before(u) == IF again THEN local[u] ELSE Sent(u, v)
<1>1. /\ ContractInv /\ Bounded
      /\ Chain!Preprocess(G, v, root) /\ root \in Validator \X Trees
      /\ local' = [u \in Honest |->
            HandlePreprocess(u, before(u), v, tree, next'[G][v] - 1)]
      /\ Disturbs(again) /\ attested' = attested
  BY DEF Inv, Preprocess
<1> HIDE DEF root, before
<1>2. PICK c \in Chunks, o \in 0 .. ChunkSize - 1 :
           /\ next[G][v] <= c
           /\ o = 0 \/ ChunkSize * c + o <= sequence[G]
           /\ next' = [next EXCEPT ![G][v] = c + 1]
           /\ chunks' = [chunks EXCEPT ![G][v][c] = [root |-> root, offset |-> o]]
           /\ UNCHANGED <<sequence, message, signed>>
  BY <1>1, Committed
<1>3. /\ c \in Nat /\ c <= MaxChunk /\ MaxChunk \in Nat
      /\ next \in [{G} -> [Validator -> 0 .. MaxChunk + 1]]
      /\ chunks \in [{G} -> [Validator -> [Chunks ->
           [root : (Validator \X Trees) \cup {NoRoot}, offset : 0 .. ChunkSize - 1]]]]
  BY <1>1, SigningAssumption DEF ContractInv, Chunks
<1>4. /\ next'[G][v] = c + 1
      /\ chunks'[G][v] = [chunks[G][v] EXCEPT ![c] = [root |-> root, offset |-> o]]
      /\ \A u \in Validator : u # v =>
           next'[G][u] = next[G][u] /\ chunks'[G][u] = chunks[G][u]
  BY <1>2, <1>3
<1>5. ContractInv'
  <2>1. next' \in [{G} -> [Validator -> 0 .. MaxChunk + 1]]
    <3>1. c + 1 \in 0 .. MaxChunk + 1
      BY <1>3
    <3> QED
      BY <1>2, <1>3, <3>1
  <2>2. chunks' \in [{G} -> [Validator -> [Chunks ->
           [root : (Validator \X Trees) \cup {NoRoot}, offset : 0 .. ChunkSize - 1]]]]
    <3> DEFINE x == [root |-> root, offset |-> o]
    <3>1. x \in [root : (Validator \X Trees) \cup {NoRoot}, offset : 0 .. ChunkSize - 1]
      BY <1>1, <1>2
    <3>2. chunks' = [chunks EXCEPT ![G][v][c] = x]
      BY <1>2
    <3> HIDE DEF x
    <3> QED
      BY <1>3, <3>1, <3>2
  <2>3. ASSUME NEW u \in Validator, NEW d \in Chunks
        PROVE  \/ chunks'[G][u][d].offset = 0
               \/ ChunkSize * d + chunks'[G][u][d].offset <= sequence'[G]
    <3>1. CASE u = v /\ d = c
      BY <1>2, <1>3, <1>4, <3>1
    <3>2. CASE ~(u = v /\ d = c)
      <4>1. chunks'[G][u][d] = chunks[G][u][d] /\ sequence' = sequence
        BY <1>2, <1>3, <1>4, <3>2
      <4> QED
        BY <1>1, <4>1 DEF ContractInv
    <3> QED
      BY <3>1, <3>2
  <2> QED
    BY <1>1, <1>2, <2>1, <2>2, <2>3 DEF ContractInv
<1>6. \A u \in Honest : Good(u, before(u), sequence[G], next[G][u], chunks[G][u])
  BY SentGood DEF before, Inv, GoodOf
<1>7. ASSUME NEW u \in Honest
      PROVE  Good(u, local'[u], sequence'[G], next'[G][u], chunks'[G][u])
  <2>1. sequence' = sequence /\ next'[G][v] - 1 = c
    BY <1>2, <1>3, <1>4
  <2>2. local'[u] = HandlePreprocess(u, before(u), v, tree, c)
    BY <1>1, <2>1
  <2>3. CASE u = v
    <3>1. /\ next[G][v] \in Nat
          /\ chunks[G][v] \in [Chunks -> [root : (Validator \X Trees) \cup {NoRoot},
                                          offset : 0 .. ChunkSize - 1]]
      BY <1>3
    <3>2. Good(v, HandlePreprocess(v, before(v), v, tree, c), sequence[G], c + 1,
              [chunks[G][v] EXCEPT ![c] = [root |-> <<v, tree>>, offset |-> o]])
      BY <1>2, <1>6, <2>3, <3>1, GoodOwnPreprocess
    <3> QED
      BY <1>4, <2>1, <2>2, <2>3, <3>2 DEF root
  <2>4. CASE u # v
    <3>1. Good(u, HandlePreprocess(u, before(u), v, tree, c), sequence[G],
               next[G][u], chunks[G][u])
      BY <1>6, <2>4, GoodOtherPreprocess
    <3>2. next'[G][u] = next[G][u] /\ chunks'[G][u] = chunks[G][u]
      BY <1>4, <2>4, HonestAreValidators
    <3> QED
      BY <2>1, <2>2, <3>1, <3>2
  <2> QED
    BY <2>3, <2>4
<1>8. attested' \in SUBSET Message /\ strays' \in 0 .. MaxStrays
  BY <1>1, StraysBound DEF Bounded
<1> QED
  BY <1>1, <1>5, <1>7, <1>8, AllGood

\* A ceremony for m, from states that are as they should be.
LEMMA SignStep ==
  ASSUME Inv, NEW m \in Message, Chain!Sign(G, m), NEW before,
         \A u \in Honest : Good(u, before[u], sequence[G], next[G][u], chunks[G][u]),
         local' = [u \in Honest |-> HandleSign(u, before[u], m, sequence[G])],
         attested' = attested, NEW wrong, Disturbs(wrong)
  PROVE  Inv'
<1>1. /\ ContractInv /\ Bounded /\ ContractInv'
      /\ sequence[G] \in Sequences /\ sequence'[G] = sequence[G] + 1
      /\ UNCHANGED <<next, chunks>>
  BY SignedOnce DEF Inv
<1>2. ASSUME NEW u \in Honest
      PROVE  Good(u, local'[u], sequence'[G], next'[G][u], chunks'[G][u])
  <2>1. u \in Validator
    BY HonestAreValidators
  <2>2. OffsetOf(sequence[G]) >= chunks[G][u][ChunkOf(sequence[G])].offset
    BY <1>1, <2>1, OffsetReached
  <2>3. Good(u, HandleSign(u, before[u], m, sequence[G]), sequence[G] + 1,
             next[G][u], chunks[G][u])
    BY <1>1, <2>1, <2>2, GoodSign
  <2> QED
    BY <1>1, <2>3
<1>3. attested' \in SUBSET Message /\ strays' \in 0 .. MaxStrays
  BY <1>1, StraysBound DEF Bounded
<1> QED
  BY <1>1, <1>2, <1>3, AllGood

LEMMA ProposeTransactionStep ==
  ASSUME Inv, NEW m \in Message, ProposeTransaction(m)
  PROVE  Inv'
<1> DEFINE before == [u \in Honest |-> Verified(local[u], m, Validator, Nobody)]
<1>1. \A u \in Honest : Good(u, before[u], sequence[G], next[G][u], chunks[G][u])
  <2>1. Validator \in SUBSET Peer
    BY DEF Peer
  <2> QED
    BY <2>1, GoodVerified DEF Inv, GoodOf
<1>2. /\ Chain!Sign(G, m) /\ attested' = attested
      /\ Disturbs(m \in Requested \/ Behind)
      /\ local' = [u \in Honest |-> HandleSign(u, before[u], m, sequence[G])]
  BY DEF ProposeTransaction
<1> HIDE DEF before
<1> QED
  BY <1>1, <1>2, SignStep

LEMMA ConfirmGroupStep ==
  ASSUME Inv, NEW m \in Message, NEW w \in Successors, ConfirmGroup(m, w)
  PROVE  Inv'
<1> DEFINE before == [u \in Honest |-> Verified(local[u], m, Successors, w)]
<1>1. \A u \in Honest : Good(u, before[u], sequence[G], next[G][u], chunks[G][u])
  <2>1. Successors \in SUBSET Peer
    BY DEF Peer
  <2> QED
    BY <2>1, GoodVerified DEF Inv, GoodOf
<1>2. /\ Chain!Sign(G, m) /\ attested' = attested /\ Disturbs(Behind)
      /\ local' = [u \in Honest |-> HandleSign(u, before[u], m, sequence[G])]
  BY DEF ConfirmGroup
<1> HIDE DEF before
<1> QED
  BY <1>1, <1>2, SignStep

LEMMA RequestSignatureStep ==
  ASSUME Inv, NEW m \in Message, NEW v, Sends(v), RequestSignature(v, m)
  PROVE  Inv'
<1> DEFINE before == [u \in Honest |-> Sent(u, v)]
<1>1. \A u \in Honest : Good(u, before[u], sequence[G], next[G][u], chunks[G][u])
  BY SentGood
<1>2. /\ Chain!Sign(G, m) /\ attested' = attested /\ Disturbs(v \notin Honest)
      /\ local' = [u \in Honest |-> HandleSign(u, before[u], m, sequence[G])]
  BY DEF RequestSignature
<1> HIDE DEF before
<1> QED
  BY <1>1, <1>2, SignStep
\* The steps that leave the sequence and the commitments alone.
LEMMA ContractKept ==
  ASSUME ContractInv, UNCHANGED <<sequence, next, chunks, message>>,
         signed' \in [{G} \X Sequences -> Selection \cup {NoRoot}]
  PROVE  ContractInv'
BY DEF ContractInv

LEMMA RevealNoncesStep ==
  ASSUME Inv, NEW v \in Validator, Sends(v), NEW n \in Sequences, RevealNonces(v, n)
  PROVE  Inv'
<1>1. /\ ContractInv /\ Bounded
      /\ UNCHANGED <<sequence, next, chunks, message, signed, attested, strays>>
      /\ local' = [u \in Honest |-> HandleRevealedNonces(u, Sent(u, v), n, v)]
  BY DEF Inv, RevealNonces, Chain!SignRevealNonces
<1>2. ContractInv'
  BY <1>1, ContractKept DEF ContractInv
<1>3. \A u \in Honest : Good(u, local'[u], sequence'[G], next'[G][u], chunks'[G][u])
  BY <1>1, SentGood, GoodRevealed
<1> QED
  BY <1>1, <1>2, <1>3, AllGood DEF Bounded

LEMMA PublishShareStep ==
  ASSUME Inv, NEW v \in Validator, Sends(v), NEW n \in Sequences,
         NEW root \in Selection, NEW callback \in BOOLEAN,
         PublishShare(v, n, root, callback)
  PROVE  Inv'
<1> DEFINE m == message[<<G, n>>]
           completes == signed[<<G, n>>] = NoRoot /\ LastToShare(v, n, root)
           shared(u) == HandleSigningShares(Sent(u, v), n, v)
           settled(u) == HandleSigningCompleted(shared(u), n)
           after(u) == IF ~completes THEN shared(u)
                       ELSE IF ~callback THEN settled(u)
                       ELSE HandleAttested(settled(u), m)
           wrong == \A u \in Honest : <<n, root>> \notin local[u].made
<1>1. /\ ContractInv /\ Bounded
      /\ Chain!SignShare(G, n, v, root)
      /\ attested' = IF completes /\ callback THEN attested \cup {m} ELSE attested
      /\ local' = [u \in Honest |-> after(u)]
      /\ Disturbs(wrong)
  BY DEF Inv, PublishShare
<1> HIDE DEF completes, wrong
<1>2. /\ UNCHANGED <<sequence, next, chunks, message>>
      /\ message[<<G, n>>] # NoMessage
      /\ \/ signed' = signed
         \/ signed' = [signed EXCEPT ![<<G, n>>] = root]
  BY <1>1 DEF Chain!SignShare, Chain!AcceptShare, Chain!Record
<1>3. m \in Message
  BY <1>1, <1>2 DEF ContractInv
<1> HIDE DEF m
<1>4. ContractInv'
  <2>1. signed' \in [{G} \X Sequences -> Selection \cup {NoRoot}]
    BY <1>1, <1>2 DEF ContractInv
  <2> QED
    BY <1>1, <1>2, <2>1, ContractKept
<1>5. ASSUME NEW u \in Honest
      PROVE  Good(u, local'[u], sequence'[G], next'[G][u], chunks'[G][u])
  <2>1. Good(u, shared(u), sequence[G], next[G][u], chunks[G][u])
    BY SentGood, GoodShared
  <2>2. Good(u, settled(u), sequence[G], next[G][u], chunks[G][u])
    BY <2>1, GoodCompleted
  <2>3. Good(u, HandleAttested(settled(u), m), sequence[G], next[G][u], chunks[G][u])
    BY <1>3, <2>2, GoodAttested
  <2> HIDE DEF shared, settled
  <2> QED
    BY <1>1, <1>2, <2>1, <2>2, <2>3
<1>6. attested' \in SUBSET Message /\ strays' \in 0 .. MaxStrays
  BY <1>1, <1>3, StraysBound DEF Bounded
<1> QED
  BY <1>1, <1>4, <1>5, <1>6, AllGood

LEMMA AttestStep ==
  ASSUME Inv, NEW v, Sends(v), NEW m \in Message, NEW n, Attest(v, m, n)
  PROVE  Inv'
<1>1. /\ ContractInv /\ Bounded
      /\ attested' = attested \cup {m}
      /\ local' = [u \in Honest |-> HandleAttested(Sent(u, v), m)]
      /\ UNCHANGED <<strays, sequence, next, chunks, message, signed>>
  BY DEF Inv, Attest, contract
<1>2. ContractInv'
  BY <1>1, ContractKept DEF ContractInv
<1>3. \A u \in Honest : Good(u, local'[u], sequence'[G], next'[G][u], chunks'[G][u])
  BY <1>1, SentGood, GoodAttested
<1> QED
  BY <1>1, <1>2, <1>3, AllGood DEF Bounded

LEMMA NewBlockStep ==
  ASSUME Inv, NewBlock
  PROVE  Inv'
<1>1. /\ ContractInv /\ Bounded
      /\ local' = [v \in Honest |-> CheckSigningTimeouts(v, local[v])]
      /\ Disturbs(Behind)
      /\ UNCHANGED <<attested, sequence, next, chunks, message, signed>>
  BY DEF Inv, NewBlock, contract
<1>2. ContractInv'
  BY <1>1, ContractKept DEF ContractInv
<1>3. \A u \in Honest : Good(u, local'[u], sequence'[G], next'[G][u], chunks'[G][u])
  BY <1>1, GoodTimeouts DEF Inv, GoodOf
<1>4. strays' \in 0 .. MaxStrays
  BY <1>1, StraysBound
<1> QED
  BY <1>1, <1>2, <1>3, <1>4, AllGood DEF Bounded

LEMMA RestartStep ==
  ASSUME Inv, NEW v \in Honest, Restart(v)
  PROVE  Inv'
<1>1. /\ ContractInv /\ Bounded
      /\ local' = [local EXCEPT ![v].verified = {}]
      /\ Disturbs(TRUE)
      /\ UNCHANGED <<attested, sequence, next, chunks, message, signed>>
  BY DEF Inv, Restart, contract
<1>2. ContractInv'
  BY <1>1, ContractKept DEF ContractInv
<1>3. ASSUME NEW u \in Honest
      PROVE  Good(u, local'[u], sequence'[G], next'[G][u], chunks'[G][u])
  <2>1. Good(u, local[u], sequence[G], next[G][u], chunks[G][u])
    BY DEF Inv, GoodOf
  <2>2. CASE u # v
    <3>1. local'[u] = local[u]
      BY <1>1, <2>2 DEF Bounded
    <3> QED
      BY <1>1, <2>1, <3>1
  <2>3. CASE u = v
    <3> DEFINE k == [local[u] EXCEPT !.verified = {}]
    <3>1. local'[u] = k /\ local[u] \in Local
      BY <1>1, <2>3 DEF Bounded
    <3>2. /\ k \in Local /\ k.signing = local[u].signing
          /\ k.messageOf = local[u].messageOf /\ k.requests = local[u].requests
          /\ k.trees = local[u].trees /\ k.links = local[u].links
          /\ k.made = local[u].made /\ k.burned = local[u].burned
          /\ k.outbox = local[u].outbox
      BY <3>1 DEF Local
    <3> HIDE DEF k
    <3>3. Good(u, k, sequence[G], next[G][u], chunks[G][u])
      BY <2>1, <3>2, GoodFlags
    <3> QED
      BY <1>1, <3>1, <3>3
  <2> QED
    BY <2>2, <2>3
<1>4. strays' \in 0 .. MaxStrays
  BY <1>1, StraysBound
<1>5. local' = [u \in Honest |-> local'[u]]
  BY <1>1 DEF Bounded
<1> QED
  BY <1>1, <1>2, <1>3, <1>4, <1>5, AllGood DEF Bounded

LEMMA PerformStep ==
  ASSUME Inv, NEW v \in Honest, Perform(v)
  PROVE  Inv'
<1>1. PICK i \in Turn(v) :
        LET a == local[v].outbox[i]
        IN  \/ /\ a.do = "preprocess"
               /\ \E again \in BOOLEAN : Preprocess(v, a.tree, again)
            \/ a.do = "request" /\ RequestSignature(v, a.message)
            \/ a.do = "reveal" /\ RevealNonces(v, a.sid)
            \/ a.do = "share" /\ PublishShare(v, a.sid, a.root, TRUE)
            \/ a.do = "attest" /\ Attest(v, a.message, a.sid)
  BY DEF Perform
<1> DEFINE a == local[v].outbox[i]
<1>2. Sends(v) /\ v \in Validator /\ i \in 1 .. Len(local[v].outbox)
  BY HonestAreValidators DEF Sends, Turn
<1>3. a \in Action
  <2>1. local[v].outbox \in Seq(Action)
    BY LocalFields DEF Inv, Bounded
  <2> QED
    BY <1>2, <2>1
<1> HIDE DEF a
<1>4. /\ a.do = "preprocess" => a.tree \in Trees
      /\ a.do = "request" => a.message \in Message
      /\ a.do = "reveal" => a.sid \in Sequences
      /\ a.do = "share" => a.sid \in Sequences /\ a.root \in Selection
      /\ a.do = "attest" => a.message \in Message
  BY <1>3 DEF Action
<1>5. CASE a.do = "preprocess" /\ \E again \in BOOLEAN : Preprocess(v, a.tree, again)
  BY <1>2, <1>4, <1>5, PreprocessStep
<1>6. CASE a.do = "request" /\ RequestSignature(v, a.message)
  BY <1>2, <1>4, <1>6, RequestSignatureStep
<1>7. CASE a.do = "reveal" /\ RevealNonces(v, a.sid)
  BY <1>2, <1>4, <1>7, RevealNoncesStep
<1>8. CASE a.do = "share" /\ PublishShare(v, a.sid, a.root, TRUE)
  BY <1>2, <1>4, <1>8, PublishShareStep
<1>9. CASE a.do = "attest" /\ Attest(v, a.message, a.sid)
  BY <1>2, <1>4, <1>9, AttestStep
<1> QED
  BY <1>1, <1>5, <1>6, <1>7, <1>8, <1>9 DEF a

LEMMA InterfereStep ==
  ASSUME Inv, NEW v \in Validator \ Honest, Interfere(v)
  PROVE  Inv'
<1>1. Sends(v) /\ 0 \in Trees
  BY SigningAssumption DEF Sends, Trees
<1>2. CASE Preprocess(v, 0, FALSE)
  BY <1>1, <1>2, PreprocessStep
<1>3. CASE \E m \in Message : RequestSignature(v, m)
  BY <1>1, <1>3, RequestSignatureStep
<1>4. ASSUME NEW n \in Sequences, RevealNonces(v, n)
      PROVE  Inv'
  BY <1>1, <1>4, RevealNoncesStep
<1>5. ASSUME NEW n \in Sequences, NEW root \in Selection, NEW callback \in BOOLEAN,
             PublishShare(v, n, root, callback)
      PROVE  Inv'
  BY <1>1, <1>5, PublishShareStep
<1>6. ASSUME NEW n \in Sequences, NEW m \in Message, Attest(v, m, n)
      PROVE  Inv'
  BY <1>1, <1>6, AttestStep
<1> QED
  BY <1>2, <1>3, <1>4, <1>5, <1>6 DEF Interfere

LEMMA NextGood == Inv /\ [Next]_vars => Inv'
<1> SUFFICES ASSUME Inv, [Next]_vars PROVE Inv'
  OBVIOUS
<1>1. CASE UNCHANGED vars
  BY <1>1 DEF vars, contract, Inv, ContractInv, Bounded, GoodOf
<1>2. CASE NewBlock
  BY <1>2, NewBlockStep
<1>3. ASSUME NEW v \in Honest, Perform(v) \/ Restart(v)
      PROVE  Inv'
  BY <1>3, PerformStep, RestartStep
<1>4. ASSUME NEW v \in Validator \ Honest, Interfere(v)
      PROVE  Inv'
  BY <1>4, InterfereStep
<1>5. ASSUME NEW m \in Message, ProposeTransaction(m)
      PROVE  Inv'
  BY <1>5, ProposeTransactionStep
<1>6. ASSUME NEW m \in Message, NEW u \in Successors, ConfirmGroup(m, u)
      PROVE  Inv'
  BY <1>6, ConfirmGroupStep
<1> QED
  BY <1>1, <1>2, <1>3, <1>4, <1>5, <1>6 DEF Next

-----------------------------------------------------------------------------
\* The inductive invariant of the signing state machines over the contract.
THEOREM SigningInvariance == Spec => []Inv
BY InitGood, NextGood, PTL DEF Spec

\* The state of every honest validator, its queue of actions included, and
\* that of the contract keep their types.
THEOREM SigningTypeCorrect == Spec => []TypeOK
<1>1. Inv => TypeOK
  <2> SUFFICES ASSUME Inv PROVE TypeOK
    OBVIOUS
  <2>1. ContractInv /\ Bounded
    BY DEF Inv
  <2>2. sequence[G] \in 0 .. MaxSequence
    BY <2>1 DEF ContractInv
  <2>3. \A n \in Sequences : signed[<<G, n>>] \in Selection \cup {NoRoot}
    BY <2>1 DEF ContractInv
  <2> QED
    BY <2>1, <2>2, <2>3 DEF TypeOK, Bounded
<1> QED
  BY <1>1, SigningInvariance, PTL

\* No nonce goes into two signature shares, whatever ceremonies, retries and
\* selections of signers (burnNonce): a nonce is burned with the share that is
\* made of it, and the chunk of a ceremony keeps the tree it is linked to.
THEOREM NoncesAreUsedOnce == Spec => []NonceUsedOnce
<1>1. Inv => NonceUsedOnce
  BY DEF Inv, GoodOf, Good, UsedOnce, NonceUsedOnce
<1> QED
  BY <1>1, SigningInvariance, PTL

\* What is queued to be revealed is what the contract bound to that ceremony
\* (linkNonceTree and decodeSequence against commit and sequenceToChunk).
THEOREM RevealsAreAccepted == Spec => []RevealIsAccepted
<1>1. Inv => RevealIsAccepted
  <2> SUFFICES ASSUME Inv, NEW v \in Honest, NEW n \in Sequences,
                      NEW i \in 1 .. Len(local[v].outbox),
                      local[v].outbox[i] = [do |-> "reveal", sid |-> n]
               PROVE  Chain!Binding(G, v, n) = <<v, NonceTree(local[v], n)>>
    BY DEF RevealIsAccepted
  <2> DEFINE c == ChunkOf(n)
  <2>1. /\ NonceTree(local[v], n) # NoTree
        /\ OffsetOf(n) >= chunks[G][v][c].offset
    BY DEF Inv, GoodOf, Good, RevealsBound
  <2>2. c \in Chunks
    BY SequencesDecoded
  <2>3. chunks[G][v][c].root = <<v, NonceTree(local[v], n)>>
    BY <2>1, <2>2 DEF Inv, GoodOf, Good, LinksAgree, NonceTree
  <2> QED
    BY <2>1, <2>3 DEF Chain!Binding, Chain!ChunkOf, Chain!OffsetOf, ChunkOf, OffsetOf
<1> QED
  BY <1>1, SigningInvariance, PTL
=============================================================================
