--------------------------- MODULE ConsensusProofs ---------------------------
(***************************************************************************)
(* The consensus contract for any groups, messages, epochs and blocks:     *)
(* attestations are genuine signatures, every epoch was handed over by the *)
(* group of the one before, and the lazily updated storage implements the  *)
(* eager chain of epochs.  All of it follows from two facts: a ceremony    *)
(* that was requested keeps its message, and an epoch that has a group is  *)
(* not after the active one unless it is the staged one.                   *)
(***************************************************************************)
EXTENDS Consensus, TLAPS

(* Sequence numbers not given out have no ceremony, and only a requested   *)
(* ceremony is completed, by enough signers.                               *)
CeremonyInv ==
  /\ \A g \in Gid, n \in 0 .. MaxSequence - 1 :
       n >= sequence[g] => message[<<g, n>>] = NoMessage
  /\ \A sid \in Sid : signers[sid] # {} =>
       /\ message[sid] # NoMessage
       /\ Cardinality(signers[sid]) >= threshold[sid[1]]

(* Of the epochs after the active one only the staged one has a group.     *)
EpochsHaveGroups(e, groupOf) ==
  /\ groupOf[e.active] \in Gid
  /\ e.staged # 0 => e.active < e.staged /\ groupOf[e.staged] \in Gid
  /\ \A n \in Epoch : groupOf[n] # NoGroup => n <= e.active \/ n = e.staged

EpochsInv == EpochsHaveGroups(epochs, groups)

Inv ==
  /\ TypeOK
  /\ CeremonyInv
  /\ EpochsInv
  /\ AttestationsAreGenuine
  /\ ChainOfHandovers

LEMMA InvInit == Init => Inv
<1> SUFFICES ASSUME Init PROVE Inv
  OBVIOUS
<1> USE ServiceAssumption, ConsensusAssumption
<1>1. TypeOK
  BY DEF Init, TypeOK, ServiceInit, ServiceTypeOK, Epoch, Epochs
<1>2. CeremonyInv
  BY DEF Init, ServiceInit, CeremonyInv, Sid
<1>3. EpochsInv
  BY DEF Init, EpochsInv, EpochsHaveGroups, Epoch
<1>4. AttestationsAreGenuine
  BY DEF Init, AttestationsAreGenuine
<1>5. ChainOfHandovers
  BY DEF Init, ChainOfHandovers
<1> QED
  BY <1>1, <1>2, <1>3, <1>4, <1>5 DEF Inv

-----------------------------------------------------------------------------
(* Ceremonies.                                                             *)

(* What was requested keeps its message, what was completed its signers.   *)
RecordsKept ==
  \A sid \in Sid :
    /\ message[sid] # NoMessage => message'[sid] = message[sid]
    /\ signers[sid] # {} => signers'[sid] = signers[sid]

CeremoniesOK == ServiceTypeOK' /\ CeremonyInv' /\ RecordsKept

LEMMA CeremoniesUnchanged ==
  ASSUME Inv, UNCHANGED <<sequence, message, signers>>, ready' \subseteq Gid
  PROVE  CeremoniesOK
BY DEF Inv, TypeOK, ServiceTypeOK, CeremonyInv, CeremoniesOK, RecordsKept

LEMMA OpenCeremonyStep ==
  ASSUME Inv, NEW g \in Gid, NEW m \in Message, OpenCeremony(g, m),
         UNCHANGED signers, ready' \subseteq Gid
  PROVE  CeremoniesOK
<1> USE ServiceAssumption
<1>1. /\ ServiceTypeOK /\ CeremonyInv
      /\ sequence[g] \in 0 .. MaxSequence - 1
      /\ <<g, sequence[g]>> \in Sid
  BY DEF Inv, TypeOK, ServiceTypeOK, OpenCeremony, Sid
<1>2. /\ sequence' = [sequence EXCEPT ![g] = @ + 1]
      /\ message' = [message EXCEPT ![<<g, sequence[g]>>] = m]
  BY DEF OpenCeremony
<1>3. ServiceTypeOK'
  BY <1>1, <1>2 DEF ServiceTypeOK, Sid
<1>4. message[<<g, sequence[g]>>] = NoMessage
  BY <1>1 DEF CeremonyInv
<1>5. RecordsKept
  BY <1>1, <1>2, <1>4 DEF RecordsKept, ServiceTypeOK
<1>6. ASSUME NEW h \in Gid, NEW n \in 0 .. MaxSequence - 1, n >= sequence'[h]
      PROVE  message'[<<h, n>>] = NoMessage
  <2>1. <<h, n>> \in Sid
    BY DEF Sid
  <2>2. n >= sequence[h] /\ <<h, n>> # <<g, sequence[g]>>
    BY <1>1, <1>2, <1>6 DEF ServiceTypeOK
  <2> QED
    BY <1>1, <1>2, <2>1, <2>2 DEF CeremonyInv, ServiceTypeOK
<1>7. ASSUME NEW sid \in Sid, signers'[sid] # {}
      PROVE  /\ message'[sid] # NoMessage
             /\ Cardinality(signers'[sid]) >= threshold[sid[1]]
  BY <1>1, <1>2, <1>7 DEF CeremonyInv, ServiceTypeOK
<1>8. CeremonyInv'
  BY <1>6, <1>7 DEF CeremonyInv
<1> QED
  BY <1>3, <1>5, <1>8 DEF CeremoniesOK

LEMMA CompleteStep ==
  ASSUME Inv, NEW sid \in Sid, NEW S \in SUBSET Id, Complete(sid, S)
  PROVE  CeremoniesOK
BY DEF Inv, TypeOK, ServiceTypeOK, CeremonyInv, CeremoniesOK, RecordsKept, Complete

-----------------------------------------------------------------------------
(* Attestations and epochs.                                                *)

(* The epochs as the caller sees them are in order if the stored ones are. *)
LEMMA EpochsSeen ==
  ASSUME Inv
  PROVE  /\ EpochsWithRollover \in Epochs
         /\ EpochsHaveGroups(EpochsWithRollover, groups)
         /\ EpochsWithRollover.staged # 0 => EpochsWithRollover.rolloverBlock > block
<1> USE ConsensusAssumption
<1>1. CASE RolloverDue
  BY <1>1 DEF Inv, TypeOK, EpochsInv, EpochsHaveGroups, EpochsWithRollover,
              RolloverDue, Epochs, Epoch
<1>2. CASE ~RolloverDue
  BY <1>2 DEF Inv, TypeOK, EpochsInv, EpochsHaveGroups, EpochsWithRollover,
              RolloverDue, Epochs, Epoch
<1> QED
  BY <1>1, <1>2

LEMMA MessageParts ==
  ASSUME NEW m \in Message
  PROVE  /\ m.type \in {"rollover", "transaction"}
         /\ m.type = "rollover" =>
              /\ m.active \in Epoch /\ m.proposed \in Epoch
              /\ m.rolloverBlock \in 0 .. MaxBlock /\ m.key \in Key
              /\ m = Rollover(m.active, m.proposed, m.rolloverBlock, m.key)
         /\ m.type = "transaction" => m.epoch \in Epoch
         /\ SigningEpoch(m) \in Epoch
BY ConsensusAssumption DEF RolloverMessage, TransactionMessage, Rollover, SigningEpoch

(* An attestation is a ceremony, and the epoch it belongs to has a group.  *)
LEMMA AttestedParts ==
  ASSUME Inv, NEW m \in Message, attestations[m] # NoSid
  PROVE  /\ attestations[m] \in Sid
         /\ message[attestations[m]] # NoMessage
         /\ signers[attestations[m]] # {}
         /\ groups[SigningEpoch(m)] # NoGroup
<1>1. attestations[m] \in Sid
  BY DEF Inv, TypeOK
<1>2. /\ message[attestations[m]] = m
      /\ signers[attestations[m]] # {}
      /\ attestations[m][1] = groups[SigningEpoch(m)]
  BY DEF Inv, AttestationsAreGenuine
<1> QED
  BY <1>1, <1>2, ServiceAssumption, ConsensusAssumption DEF Sid

(* A group stays with its epoch, and the key it was staged with; an epoch  *)
(* that gets its group is after those that have one.                       *)
GroupsKept ==
  /\ \A e \in Epoch : groups[e] # NoGroup =>
       groups'[e] = groups[e] /\ staged'[e] = staged[e]
  /\ \A c, e \in Epoch : c < e /\ groups[e] # NoGroup => groups'[c] = groups[c]

(* What was attested before a step is genuine after it.                    *)
LEMMA OldAttestation ==
  ASSUME Inv, CeremoniesOK, GroupsKept,
         NEW m \in Message, attestations[m] # NoSid,
         attestations'[m] = attestations[m]
  PROVE  /\ message'[attestations'[m]] = m
         /\ signers'[attestations'[m]] # {}
         /\ attestations'[m][1] = groups'[SigningEpoch(m)]
<1>1. /\ attestations[m] \in Sid
      /\ message[attestations[m]] # NoMessage
      /\ signers[attestations[m]] # {}
      /\ groups[SigningEpoch(m)] # NoGroup
  BY AttestedParts
<1>2. /\ message[attestations[m]] = m
      /\ attestations[m][1] = groups[SigningEpoch(m)]
  BY DEF Inv, AttestationsAreGenuine
<1>3. SigningEpoch(m) \in Epoch
  BY MessageParts
<1> QED
  BY <1>1, <1>2, <1>3 DEF CeremoniesOK, RecordsKept, GroupsKept

(* A handover that holds before a step holds after it, if its attestation  *)
(* is not withdrawn.                                                       *)
LEMMA OldHandover ==
  ASSUME Inv, CeremoniesOK, GroupsKept, AttestationsAreGenuine',
         \A m \in Message : attestations[m] # NoSid => attestations'[m] # NoSid,
         attestations' \in [Message -> Sid \cup {NoSid}],
         NEW e \in Epoch \ {0}, groups[e] # NoGroup
  PROVE  \E d \in 0 .. e - 1, b \in 0 .. MaxBlock :
           Before(d, e)' /\ HandedOver(e, d, b)'
<1>1. PICK d \in 0 .. e - 1, b \in 0 .. MaxBlock :
        Before(d, e) /\ HandedOver(e, d, b)
  BY DEF Inv, ChainOfHandovers
<1>2. d \in Epoch /\ \A c \in d + 1 .. e - 1 : c \in Epoch /\ c < e
  BY ConsensusAssumption DEF Epoch
<1>3. /\ groups'[d] = groups[d] /\ groups'[e] = groups[e] /\ staged'[e] = staged[e]
      /\ \A c \in d + 1 .. e - 1 : groups'[c] = groups[c]
  BY <1>1, <1>2 DEF GroupsKept, Before
<1> DEFINE m == Rollover(d, e, b, staged[e])
<1>4. m \in Message /\ attestations'[m] # NoSid /\ attestations'[m] \in Sid
  BY <1>1 DEF HandedOver
<1>5. SigningEpoch(m) = d
  BY DEF SigningEpoch, Rollover
<1>6. /\ message'[attestations'[m]] = m
      /\ signers'[attestations'[m]] # {}
      /\ attestations'[m][1] = groups'[d]
  BY <1>4, <1>5 DEF AttestationsAreGenuine
<1>7. Cardinality(signers'[attestations'[m]]) >= threshold[groups'[d]]
  BY <1>4, <1>6 DEF CeremoniesOK, CeremonyInv
<1>8. HandedOver(e, d, b)'
  BY <1>3, <1>4, <1>6, <1>7 DEF HandedOver
<1>9. Before(d, e)'
  BY <1>1, <1>3 DEF Before
<1> QED
  BY <1>8, <1>9

-----------------------------------------------------------------------------
(* The steps.                                                              *)

LEMMA NothingAttestedStep ==
  ASSUME Inv, CeremoniesOK, UNCHANGED <<groups, staged, attestations>>,
         key' \in [Gid -> Key],
         block' \in 0 .. MaxBlock, epochs' \in {epochs, EpochsWithRollover}
  PROVE  Inv'
<1>1. TypeOK'
  BY EpochsSeen DEF Inv, TypeOK, CeremoniesOK
<1>2. EpochsInv'
  BY EpochsSeen DEF Inv, EpochsInv, EpochsHaveGroups
<1>3. GroupsKept
  BY DEF GroupsKept
<1>4. AttestationsAreGenuine'
  BY <1>3, OldAttestation DEF AttestationsAreGenuine
<1>5. attestations' \in [Message -> Sid \cup {NoSid}]
  BY <1>1 DEF TypeOK
<1>6. ChainOfHandovers'
  BY <1>3, <1>4, <1>5, OldHandover DEF ChainOfHandovers
<1> QED
  BY <1>1, <1>2, <1>4, <1>6 DEF Inv, CeremoniesOK

(* A new attestation, with the signers as they are after the step.         *)
LEMMA NewAttestation ==
  ASSUME Inv, CeremoniesOK, NEW m \in Message, NEW sid \in Sid,
         SignatureVerify(signers', sid, groups[SigningEpoch(m)], m)
  PROVE  /\ message'[sid] = m /\ signers'[sid] # {}
         /\ sid[1] = groups[SigningEpoch(m)] /\ sid[1] \in Gid
         /\ Cardinality(signers'[sid]) >= threshold[sid[1]]
<1>1. message[sid] # NoMessage
  BY ServiceAssumption DEF SignatureVerify
<1> QED
  BY <1>1 DEF SignatureVerify, CeremoniesOK, CeremonyInv, RecordsKept, Sid

LEMMA AttestStep ==
  ASSUME Inv, CeremoniesOK, UNCHANGED block,
         NEW m \in Proposals, NEW sid \in Sid, AttestEffect(m, signers', sid)
  PROVE  Inv'
<1>1. /\ attestations' = [attestations EXCEPT ![m] = sid]
      /\ UNCHANGED <<epochs, groups, key, staged>>
      /\ m \in Message /\ SigningEpoch(m) = m.epoch
      /\ SignatureVerify(signers', sid, groups[SigningEpoch(m)], m)
  BY DEF AttestEffect, Proposals, SigningEpoch
<1>2. TypeOK'
  BY <1>1 DEF Inv, TypeOK, CeremoniesOK
<1>3. EpochsInv'
  BY <1>1 DEF Inv, EpochsInv, EpochsHaveGroups
<1>4. GroupsKept
  BY <1>1 DEF GroupsKept
<1>5. /\ attestations'[m] = sid
      /\ \A n \in Message \ {m} : attestations'[n] = attestations[n]
      /\ attestations' \in [Message -> Sid \cup {NoSid}]
      /\ sid # NoSid
  BY <1>1, ConsensusAssumption DEF Inv, TypeOK
<1>6. AttestationsAreGenuine'
  BY <1>1, <1>4, <1>5, OldAttestation, NewAttestation DEF AttestationsAreGenuine
<1>7. ChainOfHandovers'
  BY <1>1, <1>4, <1>5, <1>6, OldHandover DEF ChainOfHandovers
<1> QED
  BY <1>2, <1>3, <1>6, <1>7 DEF Inv, CeremoniesOK

(* The epoch that is staged is after the active one and had no group, so   *)
(* no attestation belongs to it yet.                                       *)
LEMMA StagedParts ==
  ASSUME Inv, NEW m \in Rollovers, NEW g \in Gid, NEW sid \in Sid, NEW by,
         StageEpochEffect(m, g, by, sid)
  PROVE  /\ m \in Message /\ m.active \in Epoch /\ m.proposed \in Epoch
         /\ m.rolloverBlock \in 0 .. MaxBlock
         /\ m = Rollover(m.active, m.proposed, m.rolloverBlock, key[g])
         /\ m.active = EpochsWithRollover.active
         /\ m.active < m.proposed /\ m.rolloverBlock > block
         /\ EpochsWithRollover.staged = 0
         /\ groups[m.active] \in Gid /\ groups[m.proposed] = NoGroup
         /\ SigningEpoch(m) = m.active
         /\ SignatureVerify(by, sid, groups[m.active], m)
<1>1. /\ m \in Message /\ m.type = "rollover" /\ m.key = key[g]
      /\ RequireValidRollover(EpochsWithRollover, m)
      /\ m.active = EpochsWithRollover.active
      /\ SignatureVerify(by, sid, groups[m.active], m)
  BY DEF StageEpochEffect, Rollovers
<1>2. /\ m.active \in Epoch /\ m.proposed \in Epoch
      /\ m.rolloverBlock \in 0 .. MaxBlock
      /\ m = Rollover(m.active, m.proposed, m.rolloverBlock, key[g])
  BY <1>1, MessageParts
<1>3. /\ m.active < m.proposed /\ m.rolloverBlock > block
      /\ EpochsWithRollover.staged = 0
  BY <1>1 DEF RequireValidRollover
<1>4. groups[m.active] \in Gid
  BY <1>1, EpochsSeen DEF EpochsHaveGroups
<1>5. groups[m.proposed] = NoGroup
  BY <1>1, <1>2, <1>3, EpochsSeen, ConsensusAssumption DEF EpochsHaveGroups, Epoch
<1> QED
  BY <1>1, <1>2, <1>3, <1>4, <1>5 DEF SigningEpoch

LEMMA StageStep ==
  ASSUME Inv, CeremoniesOK, UNCHANGED block,
         NEW m \in Rollovers, NEW g \in Gid, NEW sid \in Sid,
         StageEpochEffect(m, g, signers', sid)
  PROVE  Inv'
<1> DEFINE d == m.active  e == m.proposed  b == m.rolloverBlock  k == key[g]
<1>1. /\ m \in Message /\ d \in Epoch /\ e \in Epoch /\ b \in 0 .. MaxBlock
      /\ m = Rollover(d, e, b, k)
      /\ d = EpochsWithRollover.active /\ d < e
      /\ groups[d] \in Gid /\ groups[e] = NoGroup /\ SigningEpoch(m) = d
      /\ SignatureVerify(signers', sid, groups[d], m)
  BY StagedParts
<1>2. /\ epochs' = [EpochsWithRollover EXCEPT !.staged = e, !.rolloverBlock = b]
      /\ groups' = [groups EXCEPT ![e] = g]
      /\ staged' = [staged EXCEPT ![e] = k]
      /\ attestations' = [attestations EXCEPT ![m] = sid]
      /\ key' = key /\ k \in Key
  BY DEF StageEpochEffect, Inv, TypeOK
<1>3. TypeOK'
  BY <1>1, <1>2, EpochsSeen DEF Inv, TypeOK, Epochs, CeremoniesOK
<1>4. /\ groups'[e] = g /\ \A n \in Epoch \ {e} : groups'[n] = groups[n]
      /\ staged'[e] = k /\ \A n \in Epoch \ {e} : staged'[n] = staged[n]
      /\ attestations'[m] = sid
      /\ \A n \in Message \ {m} : attestations'[n] = attestations[n]
      /\ attestations' \in [Message -> Sid \cup {NoSid}]
      /\ sid # NoSid /\ g # NoGroup
  BY <1>1, <1>2, ConsensusAssumption DEF Inv, TypeOK
<1>5. \A n \in Epoch : groups[n] # NoGroup => n <= d
  BY <1>1, StagedParts, EpochsSeen, ConsensusAssumption DEF EpochsHaveGroups, Epoch
<1>6. GroupsKept
  <2>1. \A c, n \in Epoch : c < n /\ groups[n] # NoGroup => c # e
    BY <1>1, <1>5, ConsensusAssumption DEF Epoch
  <2> QED
    BY <1>1, <1>4, <2>1 DEF GroupsKept
<1>7. EpochsInv'
  <2>1. epochs'.active = d /\ epochs'.staged = e
    BY <1>1, <1>2, EpochsSeen DEF Epochs
  <2> QED
    BY <1>1, <1>4, <1>5, <2>1, ConsensusAssumption
       DEF EpochsInv, EpochsHaveGroups, Epoch
<1>8. groups'[d] = groups[d]
  BY <1>1, <1>4 DEF Epoch
<1>9. AttestationsAreGenuine'
  BY <1>1, <1>4, <1>6, <1>8, OldAttestation, NewAttestation DEF AttestationsAreGenuine
<1>10. HandedOver(e, d, b)'
  BY <1>1, <1>4, <1>8, NewAttestation DEF HandedOver
<1>11. d \in 0 .. e - 1 /\ Before(d, e)'
  <2>1. \A c \in d + 1 .. e - 1 : c \in Epoch \ {e} /\ ~ (c <= d)
    BY <1>1, ConsensusAssumption DEF Epoch
  <2>2. \A c \in d + 1 .. e - 1 : groups'[c] = NoGroup
    BY <1>4, <1>5, <2>1
  <2> QED
    BY <1>1, <1>8, <2>2, ConsensusAssumption DEF Epoch, Before
<1>12. ASSUME NEW n \in Epoch \ {0}, groups'[n] # NoGroup
       PROVE  \E c \in 0 .. n - 1, a \in 0 .. MaxBlock :
                Before(c, n)' /\ HandedOver(n, c, a)'
  <2>1. CASE n = e
    BY <1>1, <1>10, <1>11, <2>1
  <2>2. CASE n # e
    BY <1>1, <1>4, <1>6, <1>9, <1>12, <2>2, OldHandover
  <2> QED
    BY <2>1, <2>2
<1>13. ChainOfHandovers'
  BY <1>12 DEF ChainOfHandovers
<1> QED
  BY <1>3, <1>7, <1>9, <1>13 DEF Inv, CeremoniesOK

(* Every step leaves ceremonies and what they signed in order.             *)
LEMMA InvNext == Inv /\ [Next]_vars => Inv'
<1> SUFFICES ASSUME Inv, [Next]_vars PROVE Inv'
  OBVIOUS
<1> USE DEF serviceVars, consensusVars
<1>1. ready \subseteq Gid /\ block \in 0 .. MaxBlock /\ key \in [Gid -> Key]
  BY DEF Inv, TypeOK, ServiceTypeOK
<1>2. CASE NewBlock
  <2>1. CeremoniesOK
    BY <1>1, <1>2, CeremoniesUnchanged DEF NewBlock
  <2> QED
    BY <1>1, <1>2, <2>1, NothingAttestedStep, ConsensusAssumption DEF NewBlock
<1>3. ASSUME NEW m \in Rollovers, NEW g \in Gid, ProposeEpoch(m, g)
      PROVE  Inv'
  <2>1. /\ OpenCeremony(groups[EpochsWithRollover.active], m)
        /\ groups[EpochsWithRollover.active] \in Gid
        /\ epochs' = EpochsWithRollover /\ m \in Message
        /\ UNCHANGED <<ready, signers, block, groups, key, staged, attestations>>
    BY <1>3, EpochsSeen
       DEF ProposeEpoch, ProposeEpochEffect, EpochsHaveGroups, Rollovers
  <2>2. CeremoniesOK
    BY <1>1, <2>1, OpenCeremonyStep
  <2> QED
    BY <1>1, <2>1, <2>2, NothingAttestedStep
<1>4. ASSUME NEW m \in Rollovers, NEW g \in Gid, NEW sid \in Sid,
             StageEpoch(m, g, sid)
      PROVE  Inv'
  <2>1. CeremoniesOK
    BY <1>1, <1>4, CeremoniesUnchanged DEF StageEpoch
  <2>2. UNCHANGED block /\ StageEpochEffect(m, g, signers', sid)
    BY <1>4 DEF StageEpoch
  <2> QED
    BY <2>1, <2>2, StageStep
<1>5. ASSUME NEW m \in Proposals, ProposeTransaction(m)
      PROVE  Inv'
  <2>1. /\ OpenCeremony(groups[EpochsWithRollover.active], m)
        /\ groups[EpochsWithRollover.active] \in Gid
        /\ epochs' = EpochsWithRollover /\ m \in Message
        /\ UNCHANGED <<ready, signers, block, groups, key, staged, attestations>>
    BY <1>5, EpochsSeen
       DEF ProposeTransaction, Request, EpochsHaveGroups, Proposals
  <2>2. CeremoniesOK
    BY <1>1, <2>1, OpenCeremonyStep
  <2> QED
    BY <1>1, <2>1, <2>2, NothingAttestedStep
<1>6. ASSUME NEW m \in Proposals, NEW sid \in Sid, AttestTransaction(m, sid)
      PROVE  Inv'
  <2>1. CeremoniesOK
    BY <1>1, <1>6, CeremoniesUnchanged DEF AttestTransaction
  <2>2. UNCHANGED block /\ AttestEffect(m, signers', sid)
    BY <1>6 DEF AttestTransaction
  <2> QED
    BY <2>1, <2>2, AttestStep
<1>7. ASSUME NEW g \in Gid, KeyGenConfirm(g)
      PROVE  Inv'
  <2>1. CeremoniesOK
    BY <1>1, <1>7, CeremoniesUnchanged DEF KeyGenConfirm, BecomeReady
  <2> QED
    BY <1>1, <1>7, <2>1, NothingAttestedStep DEF KeyGenConfirm
<1>8. ASSUME NEW g \in Gid, NEW m \in Rollovers, KeyGenConfirmWithCallback(g, m)
      PROVE  Inv'
  <2>1. /\ OpenCeremony(groups[EpochsWithRollover.active], m)
        /\ groups[EpochsWithRollover.active] \in Gid
        /\ epochs' = EpochsWithRollover /\ m \in Message
        /\ ready' = ready \cup {g}
        /\ UNCHANGED <<signers, block, groups, key, staged, attestations>>
    BY <1>8, EpochsSeen
       DEF KeyGenConfirmWithCallback, ProposeEpochEffect, EpochsHaveGroups, Rollovers
  <2>2. CeremoniesOK
    BY <1>1, <2>1, OpenCeremonyStep
  <2> QED
    BY <1>1, <2>1, <2>2, NothingAttestedStep
<1>9. ASSUME NEW g \in Gid, NEW m \in Message, Sign(g, m)
      PROVE  Inv'
  <2>1. CeremoniesOK
    BY <1>1, <1>9, OpenCeremonyStep DEF Sign, Request
  <2> QED
    BY <1>1, <1>9, <2>1, NothingAttestedStep DEF Sign
<1>10. ASSUME NEW sid \in Sid, NEW S \in SUBSET Id, SignShare(sid, S)
       PROVE  Inv'
  <2>1. CeremoniesOK
    BY <1>10, CompleteStep DEF SignShare
  <2> QED
    BY <1>1, <1>10, <2>1, NothingAttestedStep DEF SignShare
<1>11. ASSUME NEW sid \in Sid, NEW S \in SUBSET Id, NEW m \in Rollovers, NEW g \in Gid,
              StageOnCompletion(sid, S, m, g)
       PROVE  Inv'
  BY <1>11, CompleteStep, StageStep DEF StageOnCompletion
<1>12. ASSUME NEW sid \in Sid, NEW S \in SUBSET Id, NEW m \in Proposals,
              AttestOnCompletion(sid, S, m)
       PROVE  Inv'
  BY <1>12, CompleteStep, AttestStep DEF AttestOnCompletion
<1>13. ASSUME NEW g \in Gid, NEW k \in Key, KeyGenCommit(g, k)
       PROVE  Inv'
  <2>1. CeremoniesOK
    BY <1>1, <1>13, CeremoniesUnchanged DEF KeyGenCommit
  <2>2. key' \in [Gid -> Key]
    BY <1>1, <1>13 DEF KeyGenCommit
  <2> QED
    BY <1>1, <1>13, <2>1, <2>2, NothingAttestedStep DEF KeyGenCommit
<1>14. CASE UNCHANGED vars
  <2>1. CeremoniesOK
    BY <1>1, <1>14, CeremoniesUnchanged DEF vars
  <2> QED
    BY <1>1, <1>14, <2>1, NothingAttestedStep DEF vars
<1> QED
  BY <1>2, <1>3, <1>4, <1>5, <1>6, <1>7, <1>8, <1>9, <1>10, <1>11, <1>12,
     <1>13, <1>14 DEF Next

-----------------------------------------------------------------------------
(* The refinement of EpochChain: what the lazily updated storage looks like *)
(* to a caller.                                                            *)

LEMMA ChainInitStep == Init => Chain!ChainInit
BY DEF Init, Chain!ChainInit, EpochsWithRollover, RolloverDue, Epoch

(* Storing the rollover changes nothing for a caller.                      *)
LEMMA StoredRollover ==
  ASSUME Inv, UNCHANGED <<block, groups>>,
         epochs' \in {epochs, EpochsWithRollover}
  PROVE  UNCHANGED Chain!chainVars
<1>1. EpochsWithRollover' = EpochsWithRollover
  BY DEF EpochsWithRollover, RolloverDue
<1> QED
  BY <1>1 DEF Chain!chainVars

(* The rollover takes place for every caller at its block, whoever stores  *)
(* it.                                                                     *)
LEMMA NewBlockTicks ==
  ASSUME Inv, NewBlock
  PROVE  Chain!Tick
<1>1. /\ block < MaxBlock /\ block' = block + 1 /\ block \in 0 .. MaxBlock
      /\ epochs' = epochs /\ groups' = groups /\ epochs \in Epochs
  BY DEF NewBlock, Inv, TypeOK
<1> DEFINE e == EpochsWithRollover
<1>2. CASE RolloverDue
  <2>1. RolloverDue'
    BY <1>1, <1>2, ConsensusAssumption DEF RolloverDue, Epochs
  <2>2. e' = e /\ e.staged = 0
    BY <1>1, <1>2, <2>1 DEF EpochsWithRollover
  <2> QED
    BY <1>1, <2>2 DEF Chain!Tick
<1>3. CASE ~RolloverDue /\ RolloverDue'
  <2>1. /\ epochs.staged # 0 /\ epochs.rolloverBlock = block'
    BY <1>1, <1>3, ConsensusAssumption DEF RolloverDue, Epochs
  <2>2. e = epochs
    BY <1>3 DEF EpochsWithRollover
  <2>3. e' = [previous |-> epochs.active, active |-> epochs.staged, staged |-> 0,
              rolloverBlock |-> 0]
    BY <1>1, <1>3 DEF EpochsWithRollover
  <2> QED
    BY <1>1, <2>1, <2>2, <2>3 DEF Chain!Tick
<1>4. CASE ~RolloverDue /\ ~RolloverDue'
  <2>1. e = epochs /\ e' = e
    BY <1>1, <1>4 DEF EpochsWithRollover
  <2>2. epochs.staged = 0 \/ epochs.rolloverBlock # block'
    BY <1>1, <1>4, ConsensusAssumption DEF RolloverDue, Epochs
  <2> QED
    BY <1>1, <2>1, <2>2 DEF Chain!Tick
<1> QED
  BY <1>2, <1>3, <1>4

LEMMA StageSchedules ==
  ASSUME Inv, UNCHANGED block, NEW m \in Rollovers, NEW g \in Gid, NEW sid \in Sid,
         NEW by, StageEpochEffect(m, g, by, sid)
  PROVE  Chain!ChainNext
<1> DEFINE e == EpochsWithRollover
<1>1. /\ m.proposed \in Epoch /\ m.rolloverBlock \in 0 .. MaxBlock
      /\ m.active \in Epoch
      /\ m.active = e.active /\ m.active < m.proposed
      /\ m.rolloverBlock > block /\ e.staged = 0
      /\ groups[m.proposed] = NoGroup
  BY StagedParts
<1>2. /\ block \in 0 .. MaxBlock /\ e \in Epochs
  BY EpochsSeen DEF Inv, TypeOK
<1>3. /\ epochs' = [e EXCEPT !.staged = m.proposed, !.rolloverBlock = m.rolloverBlock]
      /\ groups' = [groups EXCEPT ![m.proposed] = g]
  BY DEF StageEpochEffect
<1>4. /\ epochs'.previous = e.previous /\ epochs'.active = e.active
      /\ epochs'.staged = m.proposed /\ epochs'.rolloverBlock = m.rolloverBlock
  BY <1>2, <1>3 DEF Epochs
<1>5. ~RolloverDue'
  BY <1>1, <1>2, <1>4, ConsensusAssumption DEF RolloverDue
<1>6. e' = epochs'
  BY <1>5 DEF EpochsWithRollover
<1>7. m.proposed \in 1 .. MaxEpoch /\ m.rolloverBlock \in 1 .. MaxBlock
  BY <1>1, <1>2, ConsensusAssumption DEF Epoch
<1>8. Chain!Schedule(m.proposed, m.rolloverBlock, g)
  BY <1>1, <1>3, <1>4, <1>6 DEF Chain!Schedule
<1> QED
  BY <1>1, <1>7, <1>8 DEF Chain!ChainNext

LEMMA ChainNextStep == Inv /\ [Next]_vars => [Chain!ChainNext]_(Chain!chainVars)
<1> SUFFICES ASSUME Inv, [Next]_vars
             PROVE  Chain!ChainNext \/ UNCHANGED Chain!chainVars
  OBVIOUS
<1>1. CASE NewBlock
  BY <1>1, NewBlockTicks DEF Chain!ChainNext
<1>2. ASSUME NEW m \in Rollovers, NEW g \in Gid, NEW sid \in Sid,
             StageEpoch(m, g, sid)
      PROVE  Chain!ChainNext
  BY <1>2, StageSchedules DEF StageEpoch
<1>3. ASSUME NEW sid \in Sid, NEW S \in SUBSET Id, NEW m \in Rollovers, NEW g \in Gid,
             StageOnCompletion(sid, S, m, g)
      PROVE  Chain!ChainNext
  BY <1>3, StageSchedules DEF StageOnCompletion
<1>4. ASSUME UNCHANGED <<block, groups>>, epochs' \in {epochs, EpochsWithRollover}
      PROVE  UNCHANGED Chain!chainVars
  BY <1>4, StoredRollover
<1>5. CASE \E m \in Rollovers, g \in Gid : ProposeEpoch(m, g)
  BY <1>4, <1>5 DEF ProposeEpoch, ProposeEpochEffect
<1>6. CASE \E m \in Proposals : ProposeTransaction(m)
  BY <1>4, <1>6 DEF ProposeTransaction
<1>7. CASE \E m \in Proposals, sid \in Sid : AttestTransaction(m, sid)
  BY <1>4, <1>7 DEF AttestTransaction, AttestEffect
<1>8. CASE \E g \in Gid : KeyGenConfirm(g) \/ \E m \in Message : Sign(g, m)
  BY <1>4, <1>8 DEF KeyGenConfirm, Sign, consensusVars
<1>9. CASE \E g \in Gid, m \in Rollovers : KeyGenConfirmWithCallback(g, m)
  BY <1>4, <1>9 DEF KeyGenConfirmWithCallback, ProposeEpochEffect
<1>10. CASE \E sid \in Sid, S \in SUBSET Id : SignShare(sid, S)
  BY <1>4, <1>10 DEF SignShare, consensusVars
<1>11. CASE \E sid \in Sid, S \in SUBSET Id, m \in Proposals :
              AttestOnCompletion(sid, S, m)
  BY <1>4, <1>11 DEF AttestOnCompletion, AttestEffect
<1>12. CASE \E g \in Gid, k \in Key : KeyGenCommit(g, k)
  BY <1>4, <1>12 DEF KeyGenCommit
<1>13. CASE UNCHANGED vars
  BY <1>4, <1>13 DEF vars, consensusVars
<1> QED
  BY <1>1, <1>2, <1>3, <1>5, <1>6, <1>7, <1>8, <1>9, <1>10, <1>11, <1>12,
     <1>13 DEF Next

-----------------------------------------------------------------------------
(* The theorems.                                                           *)

(* The inductive invariant holds in every reachable state.                 *)
THEOREM ConsensusInvariance == Spec => []Inv
BY InvInit, InvNext, PTL DEF Spec

(* Every variable keeps its type, for any groups, epochs and messages.     *)
THEOREM ConsensusTypeCorrect == Spec => []TypeOK
<1>1. Inv => TypeOK
  BY DEF Inv
<1> QED
  BY <1>1, ConsensusInvariance, PTL

(* Every recorded attestation (attestTransaction, stageEpoch) is a         *)
(* completed signature of its message by the group of its epoch, however   *)
(* late it comes.                                                          *)
THEOREM AttestationsStayGenuine == Spec => []AttestationsAreGenuine
<1>1. Inv => AttestationsAreGenuine
  BY DEF Inv
<1> QED
  BY <1>1, ConsensusInvariance, PTL

(* Every epoch with a group was handed over by the one before: the group   *)
(* of the last earlier epoch that has one signed, with enough signers, for *)
(* the key that the group had when it was staged (stageEpoch).             *)
THEOREM EpochsAreHandedOver == Spec => []ChainOfHandovers
<1>1. Inv => ChainOfHandovers
  BY DEF Inv
<1> QED
  BY <1>1, ConsensusInvariance, PTL

(* As a caller of the contract sees them through _epochsWithRollover, the  *)
(* epochs are the eager chain: one in force at every block, the next       *)
(* scheduled once, with a group for ever, and taking over at its block.    *)
THEOREM ConsensusImplementsEpochChain == Spec => ImplementsEpochChain
BY ChainInitStep, ChainNextStep, ConsensusInvariance, PTL
   DEF Spec, ImplementsEpochChain, Chain!ChainSpec
=============================================================================
