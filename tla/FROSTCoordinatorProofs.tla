------------------------ MODULE FROSTCoordinatorProofs ------------------------
(***************************************************************************)
(* The coordinator for any groups, chunk sizes, selections and thresholds: *)
(* it runs key generation as FROSTKeyGen says, a nonce is committed before *)
(* the message it signs is known, and it implements SigningService.  The   *)
(* facts behind it: a member has committed to nothing from its next chunk  *)
(* on, and the members in a completed signature have shared under the root *)
(* that is recorded for it.                                                *)
(***************************************************************************)
EXTENDS FROSTCoordinator, FROSTKeyGenProofs

(* From its next chunk on a member has no commitment.                      *)
ChunksInv ==
  \A g \in Gid, id \in Id, c \in 0 .. MaxChunk :
    c >= next[g][id] => chunks[g][id][c].root = NoRoot

(* A ceremony has a recorded root when it is completed; the members in the *)
(* signature are enough and have all shared under that root, where others  *)
(* may have joined them.                                                   *)
SignedInv ==
  \A sid \in Sid :
    /\ signed[sid] = NoRoot => completed[sid] = {}
    /\ signed[sid] # NoRoot =>
         /\ completed[sid] # {}
         /\ completed[sid] \subseteq aggregates[sid][signed[sid]]
         /\ Cardinality(completed[sid]) >= threshold[sid[1]]

CoordinatorInv == TypeOK /\ KeyGenInv /\ ChunksInv /\ SignedInv

-----------------------------------------------------------------------------
(* Arithmetic of chunks.                                                   *)

LEMMA ChunkParts ==
  ASSUME NEW n \in Nat
  PROVE  /\ ChunkOf(n) \in Nat
         /\ OffsetOf(n) \in 0 .. ChunkSize - 1
         /\ n = ChunkSize * ChunkOf(n) + OffsetOf(n)
BY SigningAssumption DEF ChunkOf, OffsetOf

(* Chunks and the offsets in one chunk are in the order of the sequence.   *)
LEMMA ChunkOrder ==
  ASSUME NEW m \in Nat, NEW n \in Nat, m <= n
  PROVE  /\ ChunkOf(m) <= ChunkOf(n)
         /\ ChunkOf(m) = ChunkOf(n) => OffsetOf(m) <= OffsetOf(n)
<1>1. /\ ChunkOf(m) \in Nat /\ ChunkOf(n) \in Nat
      /\ OffsetOf(m) \in 0 .. ChunkSize - 1 /\ OffsetOf(n) \in 0 .. ChunkSize - 1
      /\ m = ChunkSize * ChunkOf(m) + OffsetOf(m)
      /\ n = ChunkSize * ChunkOf(n) + OffsetOf(n)
  BY ChunkParts
<1>2. ChunkOf(m) <= ChunkOf(n)
  <2> SUFFICES ASSUME ChunkOf(n) + 1 <= ChunkOf(m) PROVE FALSE
    BY <1>1
  <2>1. ChunkSize * (ChunkOf(n) + 1) <= ChunkSize * ChunkOf(m)
    BY <1>1, SigningAssumption
  <2>2. ChunkSize * (ChunkOf(n) + 1) = ChunkSize * ChunkOf(n) + ChunkSize
    BY <1>1, SigningAssumption
  <2> QED
    BY <1>1, <2>1, <2>2, SigningAssumption
<1> QED
  BY <1>1, <1>2, SigningAssumption

LEMMA ChunkBound ==
  ASSUME NEW n \in 0 .. MaxSequence
  PROVE  ChunkOf(n) \in 0 .. MaxChunk
<1>1. ChunkOf(n) <= ChunkOf(MaxSequence)
  BY ChunkOrder, SigningAssumption
<1> QED
  BY <1>1, ChunkParts, SigningAssumption DEF ChunkOf

-----------------------------------------------------------------------------
(* The invariant.                                                          *)

LEMMA CoordinatorInit == Init => CoordinatorInv
<1> SUFFICES ASSUME Init PROVE CoordinatorInv
  OBVIOUS
<1> USE SigningAssumption
<1>1. KeyGenInv
  BY InvInit DEF Init
<1>2. TypeOK
  BY <1>1 DEF Init, SignInit, TypeOK, KeyGenInv, NoCommitment, Commitment
<1>3. ChunksInv
  BY DEF Init, SignInit, ChunksInv, NoCommitment
<1>4. SignedInv
  BY DEF Init, SignInit, SignedInv
<1> QED
  BY <1>1, <1>2, <1>3, <1>4 DEF CoordinatorInv

(* No transaction of the signing rounds touches key generation.            *)
LEMMA KeyGenKept ==
  ASSUME CoordinatorInv, UNCHANGED keyGenVars
  PROVE  KeyGenInv' /\ KeyGenTypeOK'
BY InvNext DEF CoordinatorInv, KeyGenInv

(* A registered account has an identifier.                                 *)
LEMMA MemberId ==
  ASSUME CoordinatorInv, NEW g \in Gid, NEW a \in Address, identifiers[g][a] # 0
  PROVE  identifiers[g][a] \in Id
BY DEF CoordinatorInv, TypeOK, KeyGenTypeOK

LEMMA SignStep ==
  ASSUME CoordinatorInv, NEW g \in Gid, NEW m \in Message, Sign(g, m)
  PROVE  CoordinatorInv'
<1>1. /\ sequence' = [sequence EXCEPT ![g] = @ + 1]
      /\ message' = [message EXCEPT ![<<g, sequence[g]>>] = m]
      /\ UNCHANGED <<next, chunks, signed, aggregates, revealed, completed>>
      /\ sequence[g] < MaxSequence
  BY DEF Sign
<1>2. TypeOK'
  <2>1. sequence' \in [Gid -> 0 .. MaxSequence]
    <3>1. sequence \in [Gid -> 0 .. MaxSequence] /\ MaxSequence \in Nat
      BY SigningAssumption DEF CoordinatorInv, TypeOK
    <3> QED
      BY <1>1, <3>1
  <2>2. message' \in [Sid -> Message \cup {NoMessage}]
    BY <1>1 DEF CoordinatorInv, TypeOK
  <2> QED
    BY <1>1, <2>1, <2>2, KeyGenKept DEF Sign, CoordinatorInv, TypeOK
<1>3. ChunksInv' /\ SignedInv'
  BY <1>1 DEF CoordinatorInv, ChunksInv, SignedInv
<1> QED
  BY <1>2, <1>3, KeyGenKept DEF Sign, CoordinatorInv

(* What a commitment changes: one chunk, which was empty, at or after the  *)
(* current one, and from the current sequence number on in the current one. *)
LEMMA CommitParts ==
  ASSUME CoordinatorInv, NEW g \in Gid, NEW id \in Id, NEW root \in NonceRoot,
         Commit(g, id, root)
  PROVE  \E c \in 0 .. MaxChunk, o \in 0 .. ChunkSize - 1 :
           /\ next' = [next EXCEPT ![g][id] = c + 1]
           /\ chunks' = [chunks EXCEPT ![g][id][c] = [root |-> root, offset |-> o]]
           /\ next[g][id] <= c
           /\ \/ c > ChunkOf(sequence[g])
              \/ c = ChunkOf(sequence[g]) /\ o = OffsetOf(sequence[g])
<1>1. /\ sequence[g] \in 0 .. MaxSequence /\ next[g][id] \in 0 .. MaxChunk + 1
      /\ MaxSequence \in Nat /\ MaxChunk \in Nat /\ ChunkSize \in Nat \ {0}
  BY SigningAssumption DEF CoordinatorInv, TypeOK
<1>2. /\ ChunkOf(sequence[g]) \in 0 .. MaxChunk
      /\ OffsetOf(sequence[g]) \in 0 .. ChunkSize - 1
  <2>1. sequence[g] \in Nat
    BY <1>1
  <2> QED
    BY <1>1, <2>1, ChunkBound, ChunkParts
<1>3. CASE next[g][id] > ChunkOf(sequence[g])
  <2>1. StoreChunk(g, id, next[g][id], root, 0)
    BY <1>3 DEF Commit
  <2> DEFINE c == next[g][id]
  <2>2. /\ c \in 0 .. MaxChunk /\ 0 \in 0 .. ChunkSize - 1
        /\ next' = [next EXCEPT ![g][id] = c + 1]
        /\ chunks' = [chunks EXCEPT ![g][id][c] = [root |-> root, offset |-> 0]]
        /\ next[g][id] <= c /\ c > ChunkOf(sequence[g])
    BY <1>1, <1>3, <2>1 DEF StoreChunk
  <2> QED
    BY <2>2
<1>4. CASE ~(next[g][id] > ChunkOf(sequence[g]))
  <2>1. StoreChunk(g, id, ChunkOf(sequence[g]), root, OffsetOf(sequence[g]))
    BY <1>4 DEF Commit
  <2> DEFINE c == ChunkOf(sequence[g])  o == OffsetOf(sequence[g])
  <2>2. /\ next' = [next EXCEPT ![g][id] = c + 1]
        /\ chunks' = [chunks EXCEPT ![g][id][c] = [root |-> root, offset |-> o]]
        /\ next[g][id] <= c
    BY <1>1, <1>2, <1>4, <2>1 DEF StoreChunk
  <2> QED
    BY <1>2, <2>2
<1> QED
  BY <1>3, <1>4

LEMMA PreprocessStep ==
  ASSUME CoordinatorInv, NEW g \in Gid, NEW a \in Address, NEW root \in NonceRoot,
         Preprocess(g, a, root)
  PROVE  CoordinatorInv'
<1> DEFINE id == identifiers[g][a]
<1>1. id \in Id /\ Commit(g, id, root)
  BY DEF Preprocess, CoordinatorInv, TypeOK, KeyGenTypeOK
<1>2. PICK c \in 0 .. MaxChunk, o \in 0 .. ChunkSize - 1 :
        /\ next' = [next EXCEPT ![g][id] = c + 1]
        /\ chunks' = [chunks EXCEPT ![g][id][c] = [root |-> root, offset |-> o]]
        /\ next[g][id] <= c
  BY <1>1, CommitParts
<1>3. UNCHANGED <<keyGenVars, sequence, message, signed, aggregates, revealed,
                completed>>
  BY DEF Preprocess
<1>4. [root |-> root, offset |-> o] \in Commitment
  BY DEF Commitment
<1>5. TypeOK'
  <2>1. next' \in [Gid -> [Id -> 0 .. MaxChunk + 1]]
    BY <1>1, <1>2, SigningAssumption DEF CoordinatorInv, TypeOK
  <2>2. chunks' \in [Gid -> [Id -> [0 .. MaxChunk -> Commitment]]]
    BY <1>1, <1>2, <1>4 DEF CoordinatorInv, TypeOK
  <2> QED
    BY <1>3, <2>1, <2>2, KeyGenKept DEF CoordinatorInv, TypeOK
<1>6. ASSUME NEW h \in Gid, NEW i \in Id, NEW d \in 0 .. MaxChunk, d >= next'[h][i]
      PROVE  chunks'[h][i][d].root = NoRoot
  <2>1. CASE h = g /\ i = id
    <3>1. next'[h][i] = c + 1 /\ next[h][i] <= d /\ d # c
      BY <1>1, <1>2, <1>6, <2>1, SigningAssumption DEF CoordinatorInv, TypeOK
    <3>2. chunks'[h][i][d] = chunks[h][i][d]
      BY <1>1, <1>2, <2>1, <3>1 DEF CoordinatorInv, TypeOK
    <3> QED
      BY <3>1, <3>2 DEF CoordinatorInv, ChunksInv
  <2>2. CASE ~(h = g /\ i = id)
    <3>1. next'[h][i] = next[h][i] /\ chunks'[h][i][d] = chunks[h][i][d]
      BY <1>1, <1>2, <2>2 DEF CoordinatorInv, TypeOK
    <3> QED
      BY <1>6, <3>1 DEF CoordinatorInv, ChunksInv
  <2> QED
    BY <2>1, <2>2
<1>7. ChunksInv'
  BY <1>6 DEF ChunksInv
<1>8. SignedInv'
  BY <1>3 DEF CoordinatorInv, SignedInv
<1> QED
  BY <1>3, <1>5, <1>7, <1>8, KeyGenKept DEF CoordinatorInv

LEMMA SignRevealNoncesStep ==
  ASSUME CoordinatorInv, NEW g \in Gid, NEW a \in Address,
         NEW n \in 0 .. MaxSequence - 1, SignRevealNonces(g, n, a)
  PROVE  CoordinatorInv'
<1> DEFINE id == identifiers[g][a]
<1>1. id \in Id /\ <<g, n>> \in Sid /\ Binding(g, id, n) # NoRoot
  BY MemberId DEF SignRevealNonces, Sid
<1>2. ChunkOf(n) \in 0 .. MaxChunk
  BY ChunkBound, SigningAssumption
<1>3. Binding(g, id, n) \in NonceRoot
  <2>1. chunks[g][id][ChunkOf(n)] \in Commitment
    <3>1. chunks[g] \in [Id -> [0 .. MaxChunk -> Commitment]]
      BY DEF CoordinatorInv, TypeOK
    <3>2. chunks[g][id] \in [0 .. MaxChunk -> Commitment]
      BY <1>1, <3>1
    <3> QED
      BY <1>2, <3>2
  <2> QED
    BY <1>1, <2>1 DEF Binding, Commitment
<1>4. /\ revealed' = [revealed EXCEPT ![<<g, n>>] = @ \cup {<<id, Binding(g, id, n)>>}]
      /\ UNCHANGED <<keyGenVars, sequence, next, chunks, message, signed, aggregates,
                   completed>>
  BY DEF SignRevealNonces
<1>5. TypeOK'
  <2>1. <<id, Binding(g, id, n)>> \in Id \X NonceRoot
    BY <1>1, <1>3
  <2>2. revealed \in [Sid -> SUBSET (Id \X NonceRoot)]
    BY DEF CoordinatorInv, TypeOK
  <2>3. revealed' \in [Sid -> SUBSET (Id \X NonceRoot)]
    BY <1>1, <1>4, <2>1, <2>2
  <2> QED
    BY <1>4, <2>3, KeyGenKept DEF CoordinatorInv, TypeOK
<1>6. ChunksInv' /\ SignedInv'
  BY <1>4 DEF CoordinatorInv, ChunksInv, SignedInv
<1> QED
  BY <1>4, <1>5, <1>6, KeyGenKept DEF CoordinatorInv

(* What a share changes: it is new under its root, and the ceremony is     *)
(* recorded only once, by a share with which enough members have shared.   *)
ShareEffect(sid, id, root) ==
  /\ sid \in Sid /\ id \in Id /\ message[sid] # NoMessage
  /\ aggregates' = [aggregates EXCEPT ![sid][root] = @ \cup {id}]
  /\ \/ signed' = signed /\ completed' = completed
     \/ /\ signed[sid] = NoRoot
        /\ Cardinality(Shared(sid, id, root)) >= threshold[sid[1]]
        /\ Record(sid, root, Shared(sid, id, root))
  /\ UNCHANGED <<keyGenVars, sequence, next, chunks, message, revealed>>

LEMMA SignShareParts ==
  ASSUME CoordinatorInv, NEW g \in Gid, NEW a \in Address,
         NEW n \in 0 .. MaxSequence - 1, NEW root \in SelectionRoot,
         SignShare(g, n, a, root)
  PROVE  ShareEffect(<<g, n>>, identifiers[g][a], root)
<1> DEFINE sid == <<g, n>>  id == identifiers[g][a]
<1>1. /\ sid \in Sid /\ id \in Id /\ message[sid] # NoMessage
      /\ UNCHANGED <<keyGenVars, sequence, next, chunks, message, revealed>>
  BY MemberId DEF SignShare, Sid
<1>2. aggregates' = [aggregates EXCEPT ![sid][root] = @ \cup {id}]
  BY DEF SignShare, RegisterShare
<1>3. AcceptShare(sid, id, root)
  BY DEF SignShare
<1> QED
  BY <1>1, <1>2, <1>3 DEF AcceptShare, ShareEffect

LEMMA SignShareStep ==
  ASSUME CoordinatorInv, NEW g \in Gid, NEW a \in Address,
         NEW n \in 0 .. MaxSequence - 1, NEW root \in SelectionRoot,
         SignShare(g, n, a, root)
  PROVE  CoordinatorInv'
<1>1. PICK sid, id : ShareEffect(sid, id, root)
  BY SignShareParts
<1> USE <1>1 DEF ShareEffect
<1>2. TypeOK'
  <2>1. aggregates' \in [Sid -> [SelectionRoot -> SUBSET Id]]
    BY DEF CoordinatorInv, TypeOK
  <2>2. signed' \in [Sid -> SelectionRoot \cup {NoRoot}]
    BY DEF CoordinatorInv, TypeOK, Record
  <2>3. Shared(sid, id, root) \in SUBSET Id
    BY DEF CoordinatorInv, TypeOK, Shared
  <2>4. completed' \in [Sid -> SUBSET Id]
    BY <2>3 DEF CoordinatorInv, TypeOK, Record
  <2> QED
    BY <2>1, <2>2, <2>4, KeyGenKept DEF CoordinatorInv, TypeOK
<1>3. ChunksInv'
  BY DEF CoordinatorInv, ChunksInv
<1>4. ASSUME NEW t \in Sid
      PROVE  /\ signed'[t] = NoRoot => completed'[t] = {}
             /\ signed'[t] # NoRoot =>
                  /\ completed'[t] # {}
                  /\ completed'[t] \subseteq aggregates'[t][signed'[t]]
                  /\ Cardinality(completed'[t]) >= threshold[t[1]]
  <2>1. CASE t = sid /\ ~ (signed' = signed /\ completed' = completed)
    <3>1. /\ signed'[t] = root /\ completed'[t] = Shared(sid, id, root)
          /\ Cardinality(completed'[t]) >= threshold[t[1]]
      BY <2>1 DEF CoordinatorInv, TypeOK, Record
    <3>2. aggregates'[t][root] = Shared(sid, id, root) /\ id \in Shared(sid, id, root)
      BY <2>1 DEF CoordinatorInv, TypeOK, Shared
    <3>3. root # NoRoot
      BY SigningAssumption
    <3> QED
      BY <3>1, <3>2, <3>3
  <2>2. CASE t # sid \/ (signed' = signed /\ completed' = completed)
    <3>1. signed'[t] = signed[t] /\ completed'[t] = completed[t]
      BY <2>2 DEF CoordinatorInv, TypeOK, Record
    <3>2. CASE signed[t] = NoRoot
      BY <3>1, <3>2 DEF CoordinatorInv, SignedInv
    <3>3. CASE signed[t] # NoRoot
      <4>1. signed[t] \in SelectionRoot
        BY <3>3 DEF CoordinatorInv, TypeOK
      <4>2. aggregates[t][signed[t]] \subseteq aggregates'[t][signed[t]]
        BY <4>1 DEF CoordinatorInv, TypeOK
      <4>3. /\ completed[t] # {}
            /\ completed[t] \subseteq aggregates[t][signed[t]]
            /\ Cardinality(completed[t]) >= threshold[t[1]]
        BY <3>3 DEF CoordinatorInv, SignedInv
      <4> QED
        BY <3>1, <3>3, <4>2, <4>3
    <3> QED
      BY <3>2, <3>3
  <2> QED
    BY <2>1, <2>2
<1>5. SignedInv'
  BY <1>4 DEF SignedInv
<1> QED
  BY <1>2, <1>3, <1>5, KeyGenKept DEF CoordinatorInv

(* The transactions of the signing rounds.                                 *)
SignAction(g) ==
  \/ \E m \in Message : Sign(g, m)
  \/ \E a \in Address, r \in NonceRoot : Preprocess(g, a, r)
  \/ \E a \in Address, n \in 0 .. MaxSequence - 1 :
       \/ SignRevealNonces(g, n, a)
       \/ \E r \in SelectionRoot : SignShare(g, n, a, r)

LEMMA CoordinatorNext ==
  CoordinatorInv /\ [Next]_coordinatorVars => CoordinatorInv'
<1> SUFFICES ASSUME CoordinatorInv, [Next]_coordinatorVars PROVE CoordinatorInv'
  OBVIOUS
<1>1. ASSUME [KeyGenNext]_keyGenVars, UNCHANGED signVars
      PROVE  CoordinatorInv'
  <2>1. KeyGenInv' /\ KeyGenTypeOK'
    BY <1>1, InvNext DEF CoordinatorInv, KeyGenInv
  <2>2. TypeOK'
    BY <1>1, <2>1 DEF CoordinatorInv, TypeOK, signVars
  <2>3. ChunksInv' /\ SignedInv'
    BY <1>1 DEF CoordinatorInv, ChunksInv, SignedInv, signVars
  <2> QED
    BY <2>1, <2>2, <2>3 DEF CoordinatorInv
<1>2. ASSUME NEW g \in Gid, SignAction(g)
      PROVE  CoordinatorInv'
  BY <1>2, SignStep, PreprocessStep, SignRevealNoncesStep, SignShareStep
     DEF SignAction
<1> QED
  BY <1>1, <1>2 DEF Next, SignNext, SignAction, coordinatorVars

(* Signing adds nothing to key generation: the coordinator's transactions  *)
(* are those of FROSTKeyGen or leave its state alone, so all that holds of *)
(* FROSTKeyGen holds of the coordinator.                                   *)
THEOREM CoordinatorRunsKeyGen == Spec => KeyGenSpec
<1>1. Init => KeyGenInit
  BY DEF Init
<1>2. [Next]_coordinatorVars => [KeyGenNext]_keyGenVars
  <2>1. UNCHANGED coordinatorVars => UNCHANGED keyGenVars
    BY DEF coordinatorVars, keyGenVars
  <2>2. ASSUME NEW g \in Gid, SignAction(g)
        PROVE  UNCHANGED keyGenVars
    <3>1. ASSUME NEW m \in Message, Sign(g, m)
          PROVE  UNCHANGED keyGenVars
      BY <3>1 DEF Sign
    <3>2. ASSUME NEW a \in Address, NEW r \in NonceRoot, Preprocess(g, a, r)
          PROVE  UNCHANGED keyGenVars
      BY <3>2 DEF Preprocess
    <3>3. ASSUME NEW a \in Address, NEW n \in 0 .. MaxSequence - 1,
                 \/ SignRevealNonces(g, n, a)
                 \/ \E r \in SelectionRoot : SignShare(g, n, a, r)
          PROVE  UNCHANGED keyGenVars
      BY <3>3 DEF SignRevealNonces, SignShare
    <3> QED
      BY <2>2, <3>1, <3>2, <3>3 DEF SignAction
  <2>3. SignNext => UNCHANGED keyGenVars
    BY <2>2 DEF SignNext, SignAction
  <2> QED
    BY <2>1, <2>3 DEF Next
<1> QED
  BY <1>1, <1>2, PTL DEF Spec, KeyGenSpec

(* The inductive invariant holds in every reachable state.                 *)
THEOREM CoordinatorInvariance == Spec => []CoordinatorInv
BY CoordinatorInit, CoordinatorNext, PTL DEF Spec

(* Every variable of the coordinator keeps its type; sequence numbers and  *)
(* chunks stay within their bounds.                                        *)
THEOREM CoordinatorTypeCorrect == Spec => []TypeOK
<1>1. CoordinatorInv => TypeOK
  BY DEF CoordinatorInv
<1> QED
  BY <1>1, CoordinatorInvariance, PTL

-----------------------------------------------------------------------------
(* Nonces are committed in advance.                                        *)

Precommitted ==
  \A g \in Gid, id \in Id, n \in 0 .. MaxSequence :
    n < sequence[g] \/ Binding(g, id, n) # NoRoot
      => (Binding(g, id, n))' = Binding(g, id, n)

LEMMA PreprocessPrecommits ==
  ASSUME CoordinatorInv, NEW g \in Gid, NEW a \in Address, NEW root \in NonceRoot,
         Preprocess(g, a, root)
  PROVE  Precommitted
<1> DEFINE id == identifiers[g][a]
<1>1. id \in Id /\ Commit(g, id, root)
  BY MemberId DEF Preprocess
<1>2. PICK c \in 0 .. MaxChunk, o \in 0 .. ChunkSize - 1 :
        /\ chunks' = [chunks EXCEPT ![g][id][c] = [root |-> root, offset |-> o]]
        /\ next[g][id] <= c
        /\ \/ c > ChunkOf(sequence[g])
           \/ c = ChunkOf(sequence[g]) /\ o = OffsetOf(sequence[g])
  BY <1>1, CommitParts
<1>3. chunks \in [Gid -> [Id -> [0 .. MaxChunk -> Commitment]]]
  BY DEF CoordinatorInv, TypeOK
<1>4. ASSUME NEW h \in Gid, NEW i \in Id, NEW n \in 0 .. MaxSequence,
             n < sequence[h] \/ Binding(h, i, n) # NoRoot
      PROVE  (Binding(h, i, n))' = Binding(h, i, n)
  <2>1. ChunkOf(n) \in 0 .. MaxChunk
    BY ChunkBound
  <2>2. CASE ~(h = g /\ i = id /\ ChunkOf(n) = c)
    <3>1. chunks'[h][i][ChunkOf(n)] = chunks[h][i][ChunkOf(n)]
      BY <1>1, <1>2, <1>3, <2>1, <2>2
    <3> QED
      BY <3>1 DEF Binding
  <2>3. CASE h = g /\ i = id /\ ChunkOf(n) = c
    <3>1. chunks[h][i][c].root = NoRoot
      BY <1>1, <1>2, <2>3 DEF CoordinatorInv, ChunksInv
    <3>2. Binding(h, i, n) = NoRoot
      BY <2>3, <3>1 DEF Binding
    <3>3. chunks'[h][i][c] = [root |-> root, offset |-> o]
      BY <1>1, <1>2, <1>3, <2>3
    <3>4. /\ n < sequence[g] /\ n \in Nat
          /\ sequence[g] \in 0 .. MaxSequence /\ sequence[g] \in Nat
      BY <1>4, <2>3, <3>2, SigningAssumption DEF CoordinatorInv, TypeOK
    <3>5. /\ ChunkOf(n) <= ChunkOf(sequence[g])
          /\ ChunkOf(n) \in Nat /\ ChunkOf(sequence[g]) \in Nat
      BY <3>4, ChunkOrder, ChunkParts
    <3>6. c = ChunkOf(sequence[g]) /\ o = OffsetOf(sequence[g])
      BY <1>2, <2>3, <3>5
    <3>7. OffsetOf(n) < o
      BY <2>3, <3>4, <3>6, ChunkParts, SigningAssumption
    <3>8. (Binding(h, i, n))' = NoRoot
      BY <2>3, <3>3, <3>4, <3>7, ChunkParts DEF Binding
    <3> QED
      BY <3>2, <3>8
  <2> QED
    BY <2>2, <2>3
<1> QED
  BY <1>4 DEF Precommitted

(* From the moment a ceremony is requested (sign), the commitment that each *)
(* member's reveal is checked against is fixed, to a root or to none; and  *)
(* no usable commitment is replaced (commit, verify).                      *)
THEOREM NoncesStayPrecommitted == Spec => NoncesPrecommitted
<1>1. CoordinatorInv /\ [Next]_coordinatorVars => [Precommitted]_coordinatorVars
  <2> SUFFICES ASSUME CoordinatorInv, Next PROVE Precommitted
    OBVIOUS
  <2>1. CASE UNCHANGED chunks
    BY <2>1 DEF Precommitted, Binding
  <2>2. ASSUME NEW g \in Gid, NEW a \in Address, NEW r \in NonceRoot,
               Preprocess(g, a, r)
        PROVE  Precommitted
    BY <2>2, PreprocessPrecommits
  <2>3. ASSUME NEW g \in Gid, SignAction(g)
        PROVE  Precommitted
    <3>1. CASE \E a \in Address, r \in NonceRoot : Preprocess(g, a, r)
      BY <2>2, <3>1
    <3>2. CASE ~ \E a \in Address, r \in NonceRoot : Preprocess(g, a, r)
      <4>1. UNCHANGED chunks
        BY <2>3, <3>2 DEF SignAction, Sign, SignRevealNonces, SignShare
      <4> QED
        BY <2>1, <4>1
    <3> QED
      BY <3>1, <3>2
  <2>4. UNCHANGED signVars => UNCHANGED chunks
    BY DEF signVars
  <2> QED
    BY <2>1, <2>3, <2>4 DEF Next, SignNext, SignAction
<1>2. NoncesPrecommitted <=> [][Precommitted]_coordinatorVars
  BY DEF NoncesPrecommitted, Precommitted
<1> QED
  BY <1>1, <1>2, CoordinatorInvariance, PTL DEF Spec

-----------------------------------------------------------------------------
(* The refinement of SigningService.                                       *)

Ready == {g \in Gid : status[g] = "FINALIZED"}

LEMMA ServiceInitStep == Init => Service!ServiceInit
BY DEF Init, KeyGenInit, SignInit, Service!ServiceInit, Sid, Service!Sid

(* A step of key generation makes at most one group ready, and no group    *)
(* unready.                                                                *)
LEMMA KeyGenServes ==
  ASSUME CoordinatorInv, KeyGenNext, UNCHANGED signVars
  PROVE  Service!ServiceNext \/ UNCHANGED Service!serviceVars
<1>1. PICK g \in Gid : StepOK(g) /\ ~ Terminal(g)
  BY OneGroupSteps DEF CoordinatorInv
<1>2. \A h \in Gid \ {g} : status'[h] = status[h]
  BY <1>1 DEF StepOK, Untouched
<1>3. status[g] # "FINALIZED"
  BY <1>1 DEF Terminal
<1>4. UNCHANGED <<sequence, message, completed>>
  BY DEF signVars
<1>5. CASE status'[g] = "FINALIZED"
  <2>1. g \notin Ready /\ Ready' = Ready \cup {g}
    BY <1>2, <1>3, <1>5 DEF Ready
  <2>2. Service!BecomeReady(g)
    BY <1>4, <2>1 DEF Service!BecomeReady, Ready
  <2> QED
    BY <2>2 DEF Service!ServiceNext
<1>6. CASE status'[g] # "FINALIZED"
  <2>1. Ready' = Ready
    BY <1>2, <1>3, <1>6 DEF Ready
  <2> QED
    BY <1>4, <2>1 DEF Service!serviceVars, Ready
<1> QED
  BY <1>5, <1>6

LEMMA SignRequests ==
  ASSUME CoordinatorInv, NEW g \in Gid, NEW m \in Message, Sign(g, m)
  PROVE  Service!ServiceNext
<1>1. g \in Ready /\ UNCHANGED <<Ready, completed>>
  BY DEF Sign, keyGenVars, Ready
<1>2. Service!Request(g, m)
  BY <1>1 DEF Sign, Service!Request, Service!OpenCeremony, Ready
<1> QED
  BY <1>2 DEF Service!ServiceNext

(* A share completes the ceremony, which no share did before, or changes   *)
(* nothing that the service promises.                                      *)
LEMMA ShareServes ==
  ASSUME CoordinatorInv, NEW g \in Gid, NEW a \in Address,
         NEW n \in 0 .. MaxSequence - 1, NEW root \in SelectionRoot,
         SignShare(g, n, a, root)
  PROVE  Service!ServiceNext \/ UNCHANGED Service!serviceVars
<1>1. PICK sid, id : ShareEffect(sid, id, root)
  BY SignShareParts
<1>2. UNCHANGED <<Ready, sequence, message>>
  BY <1>1 DEF ShareEffect, keyGenVars, Ready
<1>3. CASE completed' = completed
  BY <1>2, <1>3 DEF Service!serviceVars, Ready
<1>4. CASE completed' # completed
  <2> DEFINE S == Shared(sid, id, root)
  <2>1. Service!Cardinality(S) = Cardinality(S)
    BY DEF Service!Cardinality, Cardinality
  <2>2. /\ sid \in Sid /\ id \in Id /\ message[sid] # NoMessage
        /\ signed[sid] = NoRoot
        /\ Cardinality(S) >= threshold[sid[1]]
        /\ completed' = [completed EXCEPT ![sid] = S]
    BY <1>1, <1>4 DEF ShareEffect, Record
  <2>3. S \in SUBSET Id /\ S # {}
    BY <2>2 DEF CoordinatorInv, TypeOK, Shared
  <2>4. completed[sid] = {}
    BY <2>2 DEF CoordinatorInv, SignedInv
  <2>5. Service!Complete(sid, S) <=>
          /\ message[sid] # NoMessage /\ completed[sid] = {} /\ S # {}
          /\ Cardinality(S) >= threshold[sid[1]]
          /\ completed' = [completed EXCEPT ![sid] = S]
          /\ UNCHANGED <<Ready, sequence, message>>
    BY <2>1 DEF Service!Complete, Ready
  <2>6. Service!Complete(sid, S)
    BY <1>2, <2>2, <2>3, <2>4, <2>5
  <2> QED
    BY <2>2, <2>3, <2>6 DEF Service!ServiceNext, Sid, Service!Sid
<1> QED
  BY <1>3, <1>4

LEMMA ServiceNextStep ==
  CoordinatorInv /\ [Next]_coordinatorVars => [Service!ServiceNext]_(Service!serviceVars)
<1> SUFFICES ASSUME CoordinatorInv, [Next]_coordinatorVars
             PROVE  Service!ServiceNext \/ UNCHANGED Service!serviceVars
  OBVIOUS
<1>1. ASSUME UNCHANGED <<status, sequence, message, completed>>
      PROVE  UNCHANGED Service!serviceVars
  BY <1>1 DEF Service!serviceVars
<1>2. CASE UNCHANGED coordinatorVars
  BY <1>1, <1>2 DEF coordinatorVars, keyGenVars, signVars
<1>3. CASE KeyGenNext /\ UNCHANGED signVars
  BY <1>3, KeyGenServes
<1>4. ASSUME NEW g \in Gid, NEW m \in Message, Sign(g, m)
      PROVE  Service!ServiceNext
  BY <1>4, SignRequests
<1>5. CASE \E g \in Gid, a \in Address, r \in NonceRoot : Preprocess(g, a, r)
  BY <1>1, <1>5 DEF Preprocess, keyGenVars
<1>6. CASE \E g \in Gid, a \in Address, n \in 0 .. MaxSequence - 1 :
             SignRevealNonces(g, n, a)
  BY <1>1, <1>6 DEF SignRevealNonces, keyGenVars
<1>7. ASSUME NEW g \in Gid, NEW a \in Address, NEW n \in 0 .. MaxSequence - 1,
             NEW r \in SelectionRoot, SignShare(g, n, a, r)
      PROVE  Service!ServiceNext \/ UNCHANGED Service!serviceVars
  BY <1>7, ShareServes
<1> QED
  BY <1>2, <1>3, <1>4, <1>5, <1>6, <1>7 DEF Next, SignNext

(* Every transaction of the coordinator is a step of the signing service:  *)
(* groups become ready one at a time and for ever, a ceremony is asked of a *)
(* ready group, under a number of its own, and completed once, by enough   *)
(* signers, whatever trees compete for it and whatever is shared under     *)
(* them before and after.                                                  *)
THEOREM CoordinatorImplementsService == Spec => ImplementsSigningService
BY ServiceInitStep, ServiceNextStep, CoordinatorInvariance, PTL
   DEF Spec, ImplementsSigningService, Service!ServiceSpec
=============================================================================
