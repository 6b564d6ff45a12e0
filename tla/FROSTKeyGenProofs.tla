-------------------------- MODULE FROSTKeyGenProofs --------------------------
(***************************************************************************)
(* The safety properties of FROSTKeyGen hold for any groups, trees,        *)
(* participant counts and thresholds.  They follow from an invariant that  *)
(* is inductive group by group: the participant map is consistent, the     *)
(* counters of a participant count its open disputes, and each phase knows *)
(* how many of its members are done.                                       *)
(***************************************************************************)
EXTENDS FROSTKeyGen, FiniteSetTheorems, TLAPS

IdsOf(g) == {identifiers[g][a] : a \in Registered(g)}

\* Only registered identifiers have a key, are confirmed or complain, and a
\* confirmed participant has no open complaint.
MapInv(g) ==
  /\ keys[g] \subseteq IdsOf(g)
  /\ confirmed[g] \subseteq IdsOf(g)
  /\ \A p, i \in Id : statuses[g][<<p, i>>] # "NONE" => p \in IdsOf(g)
  /\ \A p \in confirmed[g], i \in Id : statuses[g][<<p, i>>] # "SUBMITTED"

CounterInv(g) ==
  \A i \in Id :
    /\ complaints[g][i] = Cardinality(OpenBy(g, i))
    /\ accusations[g][i] = Cardinality(OpenAgainst(g, i))

PhaseInv(g) ==
  /\ status[g] = "UNINITIALIZED" => Registered(g) = {}
  /\ status[g] # "UNINITIALIZED" => ValidParameters(g)
  /\ status[g] = "COMMITTING" =>
       /\ keys[g] = {} /\ confirmed[g] = {}
       /\ pending[g] = count[g] - Cardinality(Registered(g)) /\ pending[g] > 0
  /\ status[g] \in {"SHARING", "CONFIRMING", "FINALIZED"} =>
       Cardinality(Registered(g)) = count[g]
  /\ status[g] = "SHARING" =>
       /\ confirmed[g] = {}
       /\ pending[g] = count[g] - Cardinality(keys[g]) /\ pending[g] > 0
  /\ status[g] \in {"CONFIRMING", "FINALIZED"} =>
       Cardinality(keys[g]) = count[g]
  /\ status[g] = "CONFIRMING" =>
       pending[g] = count[g] - Cardinality(confirmed[g]) /\ pending[g] > 0
  /\ status[g] = "FINALIZED" => Cardinality(confirmed[g]) = count[g]

AccusedInv(g) ==
  /\ status[g] \notin {"UNINITIALIZED", "COMPROMISED"} =>
       \A i \in Id : accusations[g][i] < threshold[g]
  /\ status[g] = "COMPROMISED" =>
       \E i \in Id : accusations[g][i] >= threshold[g]

GroupInv(g) == MapInv(g) /\ CounterInv(g) /\ PhaseInv(g) /\ AccusedInv(g)

KeyGenInv == KeyGenTypeOK /\ \A g \in Gid : GroupInv(g)

-----------------------------------------------------------------------------
(* Finite sets.                                                            *)

\* The sets the counters and phases are compared with are finite.
LEMMA FiniteSets ==
  ASSUME NEW g \in Gid
  PROVE  /\ IsFiniteSet(Registered(g)) /\ Cardinality(Registered(g)) \in Nat
         /\ \A i : IsFiniteSet(OpenBy(g, i)) /\ Cardinality(OpenBy(g, i)) \in Nat
         /\ \A i : /\ IsFiniteSet(OpenAgainst(g, i))
                   /\ Cardinality(OpenAgainst(g, i)) \in Nat
         /\ \A S \in SUBSET Id : IsFiniteSet(S) /\ Cardinality(S) \in Nat
<1>1. \A S \in SUBSET Id : IsFiniteSet(S) /\ Cardinality(S) \in Nat
  BY ParametersAssumption, FS_Subset, FS_CardinalityType
<1>2. \A S \in SUBSET Address : IsFiniteSet(S) /\ Cardinality(S) \in Nat
  BY ParametersAssumption, FS_Subset, FS_CardinalityType
<1>3. Registered(g) \in SUBSET Address
  BY DEF Registered
<1>4. \A i : OpenBy(g, i) \in SUBSET Id /\ OpenAgainst(g, i) \in SUBSET Id
  BY DEF OpenBy, OpenAgainst
<1> QED
  BY <1>1, <1>2, <1>3, <1>4

\* The identifiers in use are at most as many as the registered addresses, and
\* as many only if no two addresses share one.
LEMMA IdentifierCount ==
  ASSUME KeyGenTypeOK, NEW g \in Gid
  PROVE  /\ IsFiniteSet(IdsOf(g))
         /\ IdsOf(g) \in SUBSET Id
         /\ Cardinality(IdsOf(g)) <= Cardinality(Registered(g))
         /\ Cardinality(IdsOf(g)) = Cardinality(Registered(g)) =>
              \A a, b \in Registered(g) :
                identifiers[g][a] = identifiers[g][b] => a = b
<1> DEFINE f == [a \in Registered(g) |-> identifiers[g][a]]
<1>1. IsFiniteSet(Registered(g))
  BY FiniteSets
<1>2. f \in Surjection(Registered(g), IdsOf(g))
  BY DEF Surjection, IdsOf
<1>3. /\ IsFiniteSet(IdsOf(g))
      /\ Cardinality(IdsOf(g)) <= Cardinality(Registered(g))
      /\ Cardinality(IdsOf(g)) = Cardinality(Registered(g)) <=>
           f \in Injection(Registered(g), IdsOf(g))
  BY <1>1, <1>2, FS_Surjection
<1>4. f \in Injection(Registered(g), IdsOf(g)) =>
        \A a, b \in Registered(g) :
          identifiers[g][a] = identifiers[g][b] => a = b
  BY DEF Injection, IsInjective
<1>5. IdsOf(g) \in SUBSET Id
  BY DEF IdsOf, Registered, KeyGenTypeOK
<1> QED
  BY <1>3, <1>4, <1>5

\* A step leaves the variables of group g alone.
Untouched(g) ==
  /\ status'[g] = status[g] /\ pending'[g] = pending[g]
  /\ identifiers'[g] = identifiers[g] /\ keys'[g] = keys[g]
  /\ confirmed'[g] = confirmed[g] /\ statuses'[g] = statuses[g]
  /\ complaints'[g] = complaints[g] /\ accusations'[g] = accusations[g]

\* What an action on group g has to preserve.
StepOK(g) ==
  KeyGenTypeOK' /\ GroupInv(g)' /\ \A h \in Gid \ {g} : Untouched(h)

\* A group whose variables a step leaves alone keeps its invariant.
LEMMA GroupUntouched ==
  ASSUME NEW g \in Gid, GroupInv(g), Untouched(g)
  PROVE  GroupInv(g)'
<1>1. Registered(g)' = Registered(g)
  BY DEF Registered, Untouched
<1>2. IdsOf(g)' = IdsOf(g)
  BY <1>1 DEF IdsOf, Untouched
<1>3. \A i \in Id : OpenBy(g, i)' = OpenBy(g, i)
                    /\ OpenAgainst(g, i)' = OpenAgainst(g, i)
  BY DEF OpenBy, OpenAgainst, Untouched
<1>4. MapInv(g)'
  BY <1>2 DEF GroupInv, MapInv, Untouched
<1>5. CounterInv(g)'
  BY <1>3 DEF GroupInv, CounterInv, Untouched
<1>6. PhaseInv(g)'
  BY <1>1 DEF GroupInv, PhaseInv, ValidParameters, Untouched
<1>7. AccusedInv(g)'
  BY DEF GroupInv, AccusedInv, Untouched
<1> QED
  BY <1>4, <1>5, <1>6, <1>7 DEF GroupInv

-----------------------------------------------------------------------------
(* The parts of the actions.                                               *)

\* One member done: the status stays or, with the last one, moves on.
LEMMA PhaseStepEffect ==
  ASSUME KeyGenTypeOK, NEW g \in Gid, NEW nxt \in GroupStatus,
         NEW refill \in Nat, PhaseStep(g, nxt, refill)
  PROVE  /\ pending' \in [Gid -> Nat] /\ status' \in [Gid -> GroupStatus]
         /\ pending[g] \in Nat /\ pending[g] > 0
         /\ pending[g] = 1 => pending'[g] = refill /\ status'[g] = nxt
         /\ pending[g] # 1 =>
              pending'[g] = pending[g] - 1 /\ status'[g] = status[g]
         /\ \A h \in Gid \ {g} :
              pending'[h] = pending[h] /\ status'[h] = status[h]
BY DEF KeyGenTypeOK, PhaseStep

\* register adds one member and changes no other.
LEMMA RegisterEffect ==
  ASSUME KeyGenTypeOK, NEW g \in Gid, NEW a \in Address, NEW id \in Id,
         Register(g, a, id)
  PROVE  /\ identifiers' \in [Gid -> [Address -> Id \cup {0}]]
         /\ \A h \in Gid \ {g} : identifiers'[h] = identifiers[h]
         /\ Registered(g)' = Registered(g) \cup {a}
         /\ Cardinality(Registered(g)') = Cardinality(Registered(g)) + 1
         /\ IdsOf(g) \subseteq IdsOf(g)'
<1>1. /\ identifiers[g][a] = 0
      /\ identifiers' = [identifiers EXCEPT ![g][a] = id]
      /\ id # 0
  BY ParametersAssumption DEF Register
<1>2. /\ identifiers' \in [Gid -> [Address -> Id \cup {0}]]
      /\ \A h \in Gid \ {g} : identifiers'[h] = identifiers[h]
      /\ identifiers'[g][a] = id
      /\ \A b \in Address \ {a} : identifiers'[g][b] = identifiers[g][b]
  BY <1>1 DEF KeyGenTypeOK
<1>3. Registered(g)' = Registered(g) \cup {a}
  BY <1>1, <1>2 DEF Registered
<1>4. a \notin Registered(g)
  BY <1>1 DEF Registered
<1>5. Cardinality(Registered(g)') = Cardinality(Registered(g)) + 1
  BY <1>3, <1>4, FiniteSets, FS_AddElement
<1>6. IdsOf(g) \subseteq IdsOf(g)'
  <2> SUFFICES ASSUME NEW b \in Registered(g)
               PROVE  identifiers[g][b] \in IdsOf(g)'
    BY DEF IdsOf
  <2>1. b \in Address \ {a}
    BY <1>4 DEF Registered
  <2>2. b \in Registered(g)'
    BY <1>3
  <2>3. identifiers'[g][b] = identifiers[g][b]
    BY <1>2, <2>1
  <2> QED
    BY <2>2, <2>3 DEF IdsOf
<1> QED
  BY <1>2, <1>3, <1>5, <1>6

\* The counters stay right while no complaint changes.
LEMMA CountersKept ==
  ASSUME NEW g \in Gid, CounterInv(g),
         UNCHANGED <<statuses, complaints, accusations>>
  PROVE  CounterInv(g)'
<1>1. \A i : OpenBy(g, i)' = OpenBy(g, i) /\ OpenAgainst(g, i)' = OpenAgainst(g, i)
  BY DEF OpenBy, OpenAgainst
<1> QED
  BY <1>1 DEF CounterInv

\* A group that could be opened has at least two participants.
LEMMA ParametersOfGroup ==
  ASSUME NEW g \in Gid
  PROVE  /\ count[g] \in Nat /\ threshold[g] \in Nat
         /\ ValidParameters(g) => count[g] > 1
BY ParametersAssumption DEF ValidParameters

\* Nothing has happened in a group that was not opened.
LEMMA UnopenedGroup ==
  ASSUME NEW g \in Gid, KeyGenInv, status[g] = "UNINITIALIZED"
  PROVE  /\ Registered(g) = {} /\ keys[g] = {} /\ confirmed[g] = {}
         /\ \A i \in Id : accusations[g][i] = 0
<1>1. GroupInv(g) /\ Registered(g) = {}
  BY DEF KeyGenInv, GroupInv, PhaseInv
<1>2. IdsOf(g) = {}
  BY <1>1 DEF IdsOf
<1>3. \A i \in Id : OpenAgainst(g, i) = {}
  BY <1>1, <1>2 DEF GroupInv, MapInv, OpenAgainst
<1>4. \A i \in Id : accusations[g][i] = 0
  BY <1>1, <1>3, FS_EmptySet DEF GroupInv, CounterInv
<1> QED
  BY <1>1, <1>2, <1>4 DEF GroupInv, MapInv

-----------------------------------------------------------------------------
(* Every action preserves the invariant.                                   *)

\* Opening a group preserves the invariant.
LEMMA KeyGenStep ==
  ASSUME KeyGenInv, NEW g \in Gid, KeyGen(g)
  PROVE  StepOK(g)
<1>1. /\ status[g] = "UNINITIALIZED" /\ ValidParameters(g)
      /\ status'[g] = "COMMITTING" /\ pending'[g] = count[g]
      /\ KeyGenTypeOK'
      /\ \A h \in Gid \ {g} : Untouched(h)
  BY ParametersOfGroup DEF KeyGenInv, KeyGenTypeOK, KeyGen, mapVars,
     GroupStatus, Untouched
<1>2. UNCHANGED <<identifiers, keys, confirmed, statuses, complaints, accusations>>
  BY DEF KeyGen, mapVars
<1>3. GroupInv(g) /\ KeyGenTypeOK
  BY DEF KeyGenInv
<1>4. Registered(g) = {} /\ Registered(g)' = {} /\ IdsOf(g)' = IdsOf(g)
  BY <1>1, <1>2, <1>3 DEF GroupInv, PhaseInv, Registered, IdsOf
<1>5. /\ keys[g] = {} /\ confirmed[g] = {}
      /\ \A i \in Id : accusations[g][i] = 0
  BY <1>1, UnopenedGroup
<1>6. MapInv(g)'
  BY <1>2, <1>3, <1>4 DEF GroupInv, MapInv
<1>7. CounterInv(g)'
  BY <1>2, <1>3, CountersKept DEF GroupInv
<1>8. PhaseInv(g)'
  BY <1>1, <1>2, <1>4, <1>5, FS_EmptySet, ParametersOfGroup
     DEF PhaseInv, ValidParameters
<1>9. AccusedInv(g)'
  BY <1>1, <1>2, <1>5, ParametersOfGroup DEF AccusedInv, ValidParameters
<1> QED
  BY <1>1, <1>6, <1>7, <1>8, <1>9 DEF StepOK, GroupInv

\* A commitment preserves the invariant.
LEMMA KeyGenCommitStep ==
  ASSUME KeyGenInv, NEW g \in Gid, NEW a \in Address, NEW id \in Id,
         KeyGenCommit(g, a, id)
  PROVE  StepOK(g)
<1>1. /\ status[g] = "COMMITTING" /\ Register(g, a, id)
      /\ PhaseStep(g, "SHARING", count[g])
      /\ UNCHANGED <<keys, confirmed, statuses, complaints, accusations>>
  BY DEF KeyGenCommit
<1>2. GroupInv(g) /\ KeyGenTypeOK
  BY DEF KeyGenInv
<1>3. /\ identifiers' \in [Gid -> [Address -> Id \cup {0}]]
      /\ \A h \in Gid \ {g} : identifiers'[h] = identifiers[h]
      /\ Cardinality(Registered(g)') = Cardinality(Registered(g)) + 1
      /\ IdsOf(g) \subseteq IdsOf(g)'
  BY <1>1, <1>2, RegisterEffect
<1>4. /\ pending' \in [Gid -> Nat] /\ status' \in [Gid -> GroupStatus]
      /\ pending[g] \in Nat /\ pending[g] > 0
      /\ pending[g] = 1 => pending'[g] = count[g] /\ status'[g] = "SHARING"
      /\ pending[g] # 1 =>
           pending'[g] = pending[g] - 1 /\ status'[g] = status[g]
      /\ \A h \in Gid \ {g} : pending'[h] = pending[h] /\ status'[h] = status[h]
  BY <1>1, <1>2, PhaseStepEffect, ParametersOfGroup DEF GroupStatus
<1>5. KeyGenTypeOK' /\ \A h \in Gid \ {g} : Untouched(h)
  BY <1>1, <1>2, <1>3, <1>4 DEF KeyGenTypeOK, Untouched
<1>6. MapInv(g)'
  BY <1>1, <1>2, <1>3 DEF GroupInv, MapInv
<1>7. CounterInv(g)'
  BY <1>1, <1>2, CountersKept DEF GroupInv
<1>8. PhaseInv(g)'
  <2>1. /\ ValidParameters(g) /\ keys[g] = {} /\ confirmed[g] = {}
        /\ pending[g] = count[g] - Cardinality(Registered(g))
    BY <1>1, <1>2 DEF GroupInv, PhaseInv
  <2>2. Cardinality(Registered(g)) \in Nat /\ Cardinality({}) = 0
    BY FiniteSets, FS_EmptySet
  <2>3. CASE pending[g] = 1
    BY <1>1, <1>3, <1>4, <2>1, <2>2, <2>3, ParametersOfGroup
       DEF PhaseInv, ValidParameters
  <2>4. CASE pending[g] # 1
    BY <1>1, <1>3, <1>4, <2>1, <2>2, <2>4, ParametersOfGroup
       DEF PhaseInv, ValidParameters
  <2> QED
    BY <2>3, <2>4
<1>9. AccusedInv(g)'
  BY <1>1, <1>2, <1>4 DEF GroupInv, AccusedInv
<1> QED
  BY <1>5, <1>6, <1>7, <1>8, <1>9 DEF StepOK, GroupInv

\* Opening a group with a commitment preserves the invariant.
LEMMA KeyGenAndCommitStep ==
  ASSUME KeyGenInv, NEW g \in Gid, NEW a \in Address, NEW id \in Id,
         KeyGenAndCommit(g, a, id)
  PROVE  StepOK(g)
<1>1. CASE KeyGenCommit(g, a, id)
  BY <1>1, KeyGenCommitStep
<1>2. CASE ~ KeyGenCommit(g, a, id)
  <2>1. /\ status[g] = "UNINITIALIZED" /\ ValidParameters(g)
        /\ Register(g, a, id)
        /\ status' = [status EXCEPT ![g] = "COMMITTING"]
        /\ pending' = [pending EXCEPT ![g] = count[g] - 1]
        /\ UNCHANGED <<keys, confirmed, statuses, complaints, accusations>>
    BY <1>2 DEF KeyGenAndCommit
  <2>2. GroupInv(g) /\ KeyGenTypeOK
    BY DEF KeyGenInv
  <2>3. /\ identifiers' \in [Gid -> [Address -> Id \cup {0}]]
        /\ \A h \in Gid \ {g} : identifiers'[h] = identifiers[h]
        /\ Cardinality(Registered(g)') = Cardinality(Registered(g)) + 1
        /\ IdsOf(g) \subseteq IdsOf(g)'
    BY <2>1, <2>2, RegisterEffect
  <2>4. /\ pending' \in [Gid -> Nat] /\ status' \in [Gid -> GroupStatus]
        /\ pending'[g] = count[g] - 1 /\ pending'[g] > 0
        /\ status'[g] = "COMMITTING"
        /\ \A h \in Gid \ {g} : pending'[h] = pending[h] /\ status'[h] = status[h]
    BY <2>1, <2>2, ParametersOfGroup DEF KeyGenTypeOK, GroupStatus
  <2>5. KeyGenTypeOK' /\ \A h \in Gid \ {g} : Untouched(h)
    BY <2>1, <2>2, <2>3, <2>4 DEF KeyGenTypeOK, Untouched
  <2>6. MapInv(g)'
    BY <2>1, <2>2, <2>3 DEF GroupInv, MapInv
  <2>7. CounterInv(g)'
    BY <2>1, <2>2, CountersKept DEF GroupInv
  <2>8. /\ keys[g] = {} /\ confirmed[g] = {}
        /\ Cardinality(Registered(g)) = 0
        /\ \A i \in Id : accusations[g][i] = 0
    BY <2>1, UnopenedGroup, FS_EmptySet
  <2>9. PhaseInv(g)'
    BY <2>1, <2>3, <2>4, <2>8, ParametersOfGroup DEF PhaseInv, ValidParameters
  <2>10. AccusedInv(g)'
    BY <2>1, <2>4, <2>8, ParametersOfGroup DEF AccusedInv, ValidParameters
  <2> QED
    BY <2>5, <2>6, <2>7, <2>9, <2>10 DEF StepOK, GroupInv
<1> QED
  BY <1>1, <1>2

\* Publishing secret shares preserves the invariant; the last ones make
\* every identifier in use one with a key.
LEMMA KeyGenSecretShareStep ==
  ASSUME KeyGenInv, NEW g \in Gid, NEW a \in Address, KeyGenSecretShare(g, a)
  PROVE  StepOK(g)
<1> DEFINE id == identifiers[g][a]
<1>1. /\ status[g] = "SHARING" /\ SetKey(g, id)
      /\ PhaseStep(g, "CONFIRMING", count[g])
      /\ UNCHANGED <<identifiers, confirmed, statuses, complaints, accusations>>
  BY DEF KeyGenSecretShare
<1>2. GroupInv(g) /\ KeyGenTypeOK
  BY DEF KeyGenInv
<1>3. id \in IdsOf(g) /\ id \in Id /\ id \notin keys[g]
  BY <1>1, <1>2 DEF SetKey, IdsOf, Registered, KeyGenTypeOK
<1>4. /\ keys'[g] = keys[g] \cup {id} /\ keys' \in [Gid -> SUBSET Id]
      /\ \A h \in Gid \ {g} : keys'[h] = keys[h]
  BY <1>1, <1>2, <1>3 DEF SetKey, KeyGenTypeOK
<1>5. Cardinality(keys'[g]) = Cardinality(keys[g]) + 1
  BY <1>2, <1>3, <1>4, FiniteSets, FS_AddElement DEF KeyGenTypeOK
<1>6. /\ pending' \in [Gid -> Nat] /\ status' \in [Gid -> GroupStatus]
      /\ pending[g] \in Nat /\ pending[g] > 0
      /\ pending[g] = 1 => pending'[g] = count[g] /\ status'[g] = "CONFIRMING"
      /\ pending[g] # 1 =>
           pending'[g] = pending[g] - 1 /\ status'[g] = status[g]
      /\ \A h \in Gid \ {g} : pending'[h] = pending[h] /\ status'[h] = status[h]
  BY <1>1, <1>2, PhaseStepEffect, ParametersOfGroup DEF GroupStatus
<1>7. KeyGenTypeOK' /\ \A h \in Gid \ {g} : Untouched(h)
  BY <1>1, <1>2, <1>4, <1>6 DEF KeyGenTypeOK, Untouched
<1>8. Registered(g)' = Registered(g) /\ IdsOf(g)' = IdsOf(g)
  BY <1>1 DEF Registered, IdsOf
<1>9. MapInv(g)'
  BY <1>1, <1>2, <1>3, <1>4, <1>8 DEF GroupInv, MapInv
<1>10. CounterInv(g)'
  BY <1>1, <1>2, CountersKept DEF GroupInv
<1>11. PhaseInv(g)'
  <2>1. /\ ValidParameters(g) /\ confirmed[g] = {}
        /\ Cardinality(Registered(g)) = count[g]
        /\ pending[g] = count[g] - Cardinality(keys[g])
    BY <1>1, <1>2 DEF GroupInv, PhaseInv
  <2>2. Cardinality(keys[g]) \in Nat /\ Cardinality({}) = 0
    BY <1>2, FiniteSets, FS_EmptySet DEF KeyGenTypeOK
  <2>3. CASE pending[g] = 1
    BY <1>1, <1>5, <1>6, <1>8, <2>1, <2>2, <2>3, ParametersOfGroup
       DEF PhaseInv, ValidParameters
  <2>4. CASE pending[g] # 1
    BY <1>1, <1>5, <1>6, <1>8, <2>1, <2>2, <2>4, ParametersOfGroup
       DEF PhaseInv, ValidParameters
  <2> QED
    BY <2>3, <2>4
<1>12. AccusedInv(g)'
  BY <1>1, <1>2, <1>6 DEF GroupInv, AccusedInv
<1> QED
  BY <1>7, <1>9, <1>10, <1>11, <1>12 DEF StepOK, GroupInv

\* A confirmation preserves the invariant: who confirms has no complaint open.
LEMMA KeyGenConfirmStep ==
  ASSUME KeyGenInv, NEW g \in Gid, NEW a \in Address, KeyGenConfirm(g, a)
  PROVE  StepOK(g)
<1> DEFINE id == identifiers[g][a]
<1>1. /\ status[g] = "CONFIRMING" /\ Confirm(g, id)
      /\ PhaseStep(g, "FINALIZED", 0)
      /\ UNCHANGED <<identifiers, keys, statuses, complaints, accusations>>
  BY DEF KeyGenConfirm
<1>2. GroupInv(g) /\ KeyGenTypeOK
  BY DEF KeyGenInv
<1>3. id \in IdsOf(g) /\ id \in Id /\ id \notin confirmed[g] /\ complaints[g][id] = 0
  BY <1>1, <1>2 DEF Confirm, IdsOf, Registered, KeyGenTypeOK
<1>4. /\ confirmed'[g] = confirmed[g] \cup {id}
      /\ confirmed' \in [Gid -> SUBSET Id]
      /\ \A h \in Gid \ {g} : confirmed'[h] = confirmed[h]
  BY <1>1, <1>2, <1>3 DEF Confirm, KeyGenTypeOK
<1>5. Cardinality(confirmed'[g]) = Cardinality(confirmed[g]) + 1
  BY <1>2, <1>3, <1>4, FiniteSets, FS_AddElement DEF KeyGenTypeOK
<1>6. /\ pending' \in [Gid -> Nat] /\ status' \in [Gid -> GroupStatus]
      /\ pending[g] \in Nat /\ pending[g] > 0
      /\ pending[g] = 1 => pending'[g] = 0 /\ status'[g] = "FINALIZED"
      /\ pending[g] # 1 =>
           pending'[g] = pending[g] - 1 /\ status'[g] = status[g]
      /\ \A h \in Gid \ {g} : pending'[h] = pending[h] /\ status'[h] = status[h]
  BY <1>1, <1>2, PhaseStepEffect DEF GroupStatus
<1>7. KeyGenTypeOK' /\ \A h \in Gid \ {g} : Untouched(h)
  BY <1>1, <1>2, <1>4, <1>6 DEF KeyGenTypeOK, Untouched
<1>8. Registered(g)' = Registered(g) /\ IdsOf(g)' = IdsOf(g)
  BY <1>1 DEF Registered, IdsOf
<1>9. MapInv(g)'
  <2>1. OpenBy(g, id) = {}
    BY <1>2, <1>3, FiniteSets, FS_EmptySet DEF GroupInv, CounterInv
  <2>2. \A i \in Id : statuses[g][<<id, i>>] # "SUBMITTED"
    BY <2>1 DEF OpenBy
  <2> QED
    BY <1>1, <1>2, <1>3, <1>4, <1>8, <2>2 DEF GroupInv, MapInv
<1>10. CounterInv(g)'
  BY <1>1, <1>2, CountersKept DEF GroupInv
<1>11. PhaseInv(g)'
  <2>1. /\ ValidParameters(g)
        /\ Cardinality(Registered(g)) = count[g]
        /\ Cardinality(keys[g]) = count[g]
        /\ pending[g] = count[g] - Cardinality(confirmed[g])
    BY <1>1, <1>2 DEF GroupInv, PhaseInv
  <2>2. Cardinality(confirmed[g]) \in Nat
    BY <1>2, FiniteSets DEF KeyGenTypeOK
  <2>3. CASE pending[g] = 1
    BY <1>1, <1>5, <1>6, <1>8, <2>1, <2>2, <2>3, ParametersOfGroup
       DEF PhaseInv, ValidParameters
  <2>4. CASE pending[g] # 1
    BY <1>1, <1>5, <1>6, <1>8, <2>1, <2>2, <2>4, ParametersOfGroup
       DEF PhaseInv, ValidParameters
  <2> QED
    BY <2>3, <2>4
<1>12. AccusedInv(g)'
  BY <1>1, <1>2, <1>6 DEF GroupInv, AccusedInv
<1> QED
  BY <1>7, <1>9, <1>10, <1>11, <1>12 DEF StepOK, GroupInv

\* A complaint preserves the invariant: it opens one dispute and counts it
\* on both sides.
LEMMA KeyGenComplainStep ==
  ASSUME KeyGenInv, NEW g \in Gid, NEW a \in Address, NEW acc \in Id,
         KeyGenComplain(g, a, acc)
  PROVE  StepOK(g)
<1> DEFINE p == identifiers[g][a]
<1>1. /\ InDispute(g) /\ p # 0 /\ Complain(g, p, acc)
      /\ status' = [status EXCEPT ![g] =
                      IF accusations[g][acc] + 1 >= threshold[g]
                      THEN "COMPROMISED" ELSE @]
      /\ UNCHANGED <<pending, identifiers, keys, confirmed>>
  BY DEF KeyGenComplain
<1>2. GroupInv(g) /\ KeyGenTypeOK
  BY DEF KeyGenInv
<1>3. p \in IdsOf(g) /\ p \in Id /\ p \notin confirmed[g] /\ p # acc
  BY <1>1, <1>2 DEF Complain, IdsOf, Registered, KeyGenTypeOK
<1>4. /\ statuses[g][<<p, acc>>] = "NONE"
      /\ statuses'[g] = [statuses[g] EXCEPT ![<<p, acc>>] = "SUBMITTED"]
      /\ complaints'[g] = [complaints[g] EXCEPT ![p] = @ + 1]
      /\ accusations'[g] = [accusations[g] EXCEPT ![acc] = @ + 1]
  BY <1>1, <1>2 DEF Complain, KeyGenTypeOK
<1>5. KeyGenTypeOK'
  <2>1. statuses' \in [Gid -> [Id \X Id -> ComplaintStatus]]
    BY <1>1, <1>2, <1>3 DEF Complain, KeyGenTypeOK, ComplaintStatus
  <2>2. complaints' \in [Gid -> [Id -> Nat]] /\ accusations' \in [Gid -> [Id -> Nat]]
    BY <1>1, <1>2, <1>3 DEF Complain, KeyGenTypeOK
  <2>3. status' \in [Gid -> GroupStatus]
    BY <1>1, <1>2 DEF KeyGenTypeOK, GroupStatus
  <2> QED
    BY <1>1, <1>2, <2>1, <2>2, <2>3 DEF KeyGenTypeOK
<1>6. \A h \in Gid \ {g} : Untouched(h)
  BY <1>1, <1>2 DEF Complain, KeyGenTypeOK, Untouched
<1>7. Registered(g)' = Registered(g) /\ IdsOf(g)' = IdsOf(g)
  BY <1>1 DEF Registered, IdsOf
<1>8. \A q, i \in Id : <<q, i>> # <<p, acc>> =>
        statuses'[g][<<q, i>>] = statuses[g][<<q, i>>]
  BY <1>2, <1>4 DEF KeyGenTypeOK
<1>9. statuses'[g][<<p, acc>>] = "SUBMITTED"
  BY <1>2, <1>3, <1>4 DEF KeyGenTypeOK
<1>10. MapInv(g)'
  <2>1. MapInv(g)
    BY <1>2 DEF GroupInv
  <2>2. \A q, i \in Id : statuses'[g][<<q, i>>] # "NONE" => q \in IdsOf(g)
    BY <2>1, <1>3, <1>8 DEF MapInv
  <2>3. \A q \in confirmed[g], i \in Id : statuses'[g][<<q, i>>] # "SUBMITTED"
    <3>1. \A q \in confirmed[g] : q \in Id /\ q # p
      BY <1>2, <1>3 DEF KeyGenTypeOK
    <3> QED
      BY <3>1, <2>1, <1>8 DEF MapInv
  <2>4. keys'[g] = keys[g] /\ confirmed'[g] = confirmed[g]
    BY <1>1
  <2> QED
    BY <2>1, <2>2, <2>3, <2>4, <1>7 DEF MapInv
<1>11. CounterInv(g)'
  <2> SUFFICES ASSUME NEW i \in Id
               PROVE  /\ complaints'[g][i] = Cardinality(OpenBy(g, i)')
                      /\ accusations'[g][i] = Cardinality(OpenAgainst(g, i)')
    BY DEF CounterInv
  <2>1. /\ complaints[g][i] = Cardinality(OpenBy(g, i))
        /\ accusations[g][i] = Cardinality(OpenAgainst(g, i))
    BY <1>2 DEF GroupInv, CounterInv
  <2>2. complaints'[g][i] = Cardinality(OpenBy(g, i)')
    <3>1. CASE i = p
      <4>1. OpenBy(g, i)' = OpenBy(g, i) \cup {acc} /\ acc \notin OpenBy(g, i)
        BY <3>1, <1>3, <1>4, <1>8, <1>9 DEF OpenBy
      <4>2. Cardinality(OpenBy(g, i)') = Cardinality(OpenBy(g, i)) + 1
        BY <4>1, FiniteSets, FS_AddElement
      <4> QED
        BY <3>1, <4>2, <2>1, <1>2, <1>3, <1>4 DEF KeyGenTypeOK
    <3>2. CASE i # p
      <4>1. OpenBy(g, i)' = OpenBy(g, i)
        BY <3>2, <1>3, <1>8 DEF OpenBy
      <4> QED
        BY <3>2, <4>1, <2>1, <1>2, <1>4 DEF KeyGenTypeOK
    <3> QED
      BY <3>1, <3>2
  <2>3. accusations'[g][i] = Cardinality(OpenAgainst(g, i)')
    <3>1. CASE i = acc
      <4>1. OpenAgainst(g, i)' = OpenAgainst(g, i) \cup {p} /\ p \notin OpenAgainst(g, i)
        BY <3>1, <1>3, <1>4, <1>8, <1>9 DEF OpenAgainst
      <4>2. Cardinality(OpenAgainst(g, i)') = Cardinality(OpenAgainst(g, i)) + 1
        BY <4>1, FiniteSets, FS_AddElement
      <4> QED
        BY <3>1, <4>2, <2>1, <1>2, <1>3, <1>4 DEF KeyGenTypeOK
    <3>2. CASE i # acc
      <4>1. OpenAgainst(g, i)' = OpenAgainst(g, i)
        BY <3>2, <1>3, <1>8 DEF OpenAgainst
      <4> QED
        BY <3>2, <4>1, <2>1, <1>2, <1>4 DEF KeyGenTypeOK
    <3> QED
      BY <3>1, <3>2
  <2> QED
    BY <2>2, <2>3
<1>12. status[g] \in {"SHARING", "CONFIRMING"} /\ status'[g] \in {status[g], "COMPROMISED"}
  BY <1>1, <1>2 DEF InDispute, KeyGenTypeOK
<1>13. PhaseInv(g)'
  BY <1>1, <1>2, <1>7, <1>12 DEF GroupInv, PhaseInv, ValidParameters
<1>14. AccusedInv(g)'
  <2>1. \A i \in Id : accusations[g][i] < threshold[g] /\ accusations[g][i] \in Nat
    BY <1>2, <1>12 DEF GroupInv, AccusedInv, KeyGenTypeOK
  <2>2. /\ accusations'[g][acc] = accusations[g][acc] + 1
        /\ \A i \in Id \ {acc} : accusations'[g][i] = accusations[g][i]
    BY <1>2, <1>4 DEF KeyGenTypeOK
  <2>3. CASE accusations[g][acc] + 1 >= threshold[g]
    <3>1. status'[g] = "COMPROMISED"
      BY <1>1, <1>2, <2>3 DEF KeyGenTypeOK
    <3> QED
      BY <2>2, <2>3, <3>1 DEF AccusedInv
  <2>4. CASE ~ (accusations[g][acc] + 1 >= threshold[g])
    <3>1. status'[g] = status[g]
      BY <1>1, <1>2, <2>4 DEF KeyGenTypeOK
    <3>2. \A i \in Id : accusations'[g][i] < threshold[g]
      BY <2>1, <2>2, <2>4, ParametersOfGroup
    <3> QED
      BY <1>12, <3>1, <3>2 DEF AccusedInv
  <2> QED
    BY <2>3, <2>4
<1> QED
  BY <1>5, <1>6, <1>10, <1>11, <1>13, <1>14 DEF StepOK, GroupInv

\* A response preserves the invariant: it closes one open dispute, so
\* neither counter underflows.
LEMMA KeyGenComplaintResponseStep ==
  ASSUME KeyGenInv, NEW g \in Gid, NEW a \in Address, NEW p \in Id,
         KeyGenComplaintResponse(g, a, p)
  PROVE  StepOK(g)
<1> DEFINE acc == identifiers[g][a]
<1>1. /\ acc # 0 /\ Respond(g, p, acc)
      /\ status[g] \in {"SHARING", "CONFIRMING"}
      /\ UNCHANGED <<status, pending, identifiers, keys, confirmed>>
  BY DEF KeyGenComplaintResponse, InDispute
<1>2. GroupInv(g) /\ KeyGenTypeOK
  BY DEF KeyGenInv
<1>3. acc \in Id /\ statuses[g][<<p, acc>>] = "SUBMITTED"
  BY <1>1, <1>2 DEF Respond, KeyGenTypeOK
<1>4. /\ statuses'[g] = [statuses[g] EXCEPT ![<<p, acc>>] = "RESPONDED"]
      /\ complaints'[g] = [complaints[g] EXCEPT ![p] = @ - 1]
      /\ accusations'[g] = [accusations[g] EXCEPT ![acc] = @ - 1]
      /\ \A h \in Gid \ {g} : /\ statuses'[h] = statuses[h]
                              /\ complaints'[h] = complaints[h]
                              /\ accusations'[h] = accusations[h]
  BY <1>1, <1>2 DEF Respond, KeyGenTypeOK
<1>5. complaints[g][p] \in Nat \ {0} /\ accusations[g][acc] \in Nat \ {0}
  <2>1. acc \in OpenBy(g, p) /\ p \in OpenAgainst(g, acc)
    BY <1>3 DEF OpenBy, OpenAgainst
  <2>2. Cardinality(OpenBy(g, p)) # 0 /\ Cardinality(OpenAgainst(g, acc)) # 0
    BY <2>1, FiniteSets, FS_EmptySet
  <2> QED
    BY <2>2, <1>2, <1>3 DEF GroupInv, CounterInv, KeyGenTypeOK
<1>6. KeyGenTypeOK'
  <2>1. statuses' \in [Gid -> [Id \X Id -> ComplaintStatus]]
    BY <1>1, <1>2, <1>3 DEF Respond, KeyGenTypeOK, ComplaintStatus
  <2>2. complaints' \in [Gid -> [Id -> Nat]]
    <3>1. complaints[g][p] - 1 \in Nat
      BY <1>5
    <3> QED
      BY <1>1, <1>2, <3>1 DEF Respond, KeyGenTypeOK
  <2>3. accusations' \in [Gid -> [Id -> Nat]]
    <3>1. accusations[g][acc] - 1 \in Nat
      BY <1>5
    <3> QED
      BY <1>1, <1>2, <3>1 DEF Respond, KeyGenTypeOK
  <2> QED
    BY <1>1, <1>2, <2>1, <2>2, <2>3 DEF KeyGenTypeOK
<1>7. \A h \in Gid \ {g} : Untouched(h)
  BY <1>1, <1>4 DEF Untouched
<1>8. Registered(g)' = Registered(g) /\ IdsOf(g)' = IdsOf(g)
  BY <1>1 DEF Registered, IdsOf
<1>9. /\ statuses'[g][<<p, acc>>] = "RESPONDED"
      /\ \A q, i \in Id : <<q, i>> # <<p, acc>> =>
           statuses'[g][<<q, i>>] = statuses[g][<<q, i>>]
  BY <1>2, <1>3, <1>4 DEF KeyGenTypeOK
<1>10. MapInv(g)'
  <2>1. MapInv(g)
    BY <1>2 DEF GroupInv
  <2>2. \A q, i \in Id : statuses'[g][<<q, i>>] # "NONE" => q \in IdsOf(g)
    BY <2>1, <1>3, <1>9 DEF MapInv
  <2>3. \A q \in confirmed[g], i \in Id : statuses'[g][<<q, i>>] # "SUBMITTED"
    <3>1. \A q \in confirmed[g] : q \in Id
      BY <1>2 DEF KeyGenTypeOK
    <3>2. \A q \in confirmed[g], i \in Id : statuses[g][<<q, i>>] # "SUBMITTED"
      BY <2>1 DEF MapInv
    <3>3. ASSUME NEW q \in confirmed[g], NEW i \in Id
          PROVE  statuses'[g][<<q, i>>] # "SUBMITTED"
      BY <3>1, <3>2, <3>3, <1>9
    <3> QED
      BY <3>3
  <2>4. keys'[g] = keys[g] /\ confirmed'[g] = confirmed[g]
    BY <1>1
  <2> QED
    BY <2>1, <2>2, <2>3, <2>4, <1>8 DEF MapInv
<1>11. CounterInv(g)'
  <2> SUFFICES ASSUME NEW i \in Id
               PROVE  /\ complaints'[g][i] = Cardinality(OpenBy(g, i)')
                      /\ accusations'[g][i] = Cardinality(OpenAgainst(g, i)')
    BY DEF CounterInv
  <2>1. /\ complaints[g][i] = Cardinality(OpenBy(g, i))
        /\ accusations[g][i] = Cardinality(OpenAgainst(g, i))
    BY <1>2 DEF GroupInv, CounterInv
  <2>2. complaints'[g][i] = Cardinality(OpenBy(g, i)')
    <3>1. CASE i = p
      <4>1. OpenBy(g, i)' = OpenBy(g, i) \ {acc} /\ acc \in OpenBy(g, i)
        BY <3>1, <1>3, <1>9 DEF OpenBy
      <4>2. Cardinality(OpenBy(g, i)') = Cardinality(OpenBy(g, i)) - 1
        BY <4>1, FiniteSets, FS_RemoveElement
      <4> QED
        BY <3>1, <4>2, <2>1, <1>2, <1>3, <1>4 DEF KeyGenTypeOK
    <3>2. CASE i # p
      <4>1. OpenBy(g, i)' = OpenBy(g, i)
        BY <3>2, <1>3, <1>9 DEF OpenBy
      <4> QED
        BY <3>2, <4>1, <2>1, <1>2, <1>4 DEF KeyGenTypeOK
    <3> QED
      BY <3>1, <3>2
  <2>3. accusations'[g][i] = Cardinality(OpenAgainst(g, i)')
    <3>1. CASE i = acc
      <4>1. OpenAgainst(g, i)' = OpenAgainst(g, i) \ {p} /\ p \in OpenAgainst(g, i)
        BY <3>1, <1>3, <1>9 DEF OpenAgainst
      <4>2. Cardinality(OpenAgainst(g, i)') = Cardinality(OpenAgainst(g, i)) - 1
        BY <4>1, FiniteSets, FS_RemoveElement
      <4> QED
        BY <3>1, <4>2, <2>1, <1>2, <1>3, <1>4 DEF KeyGenTypeOK
    <3>2. CASE i # acc
      <4>1. OpenAgainst(g, i)' = OpenAgainst(g, i)
        BY <3>2, <1>3, <1>9 DEF OpenAgainst
      <4> QED
        BY <3>2, <4>1, <2>1, <1>2, <1>4 DEF KeyGenTypeOK
    <3> QED
      BY <3>1, <3>2
  <2> QED
    BY <2>2, <2>3
<1>12. PhaseInv(g)'
  BY <1>1, <1>2, <1>8 DEF GroupInv, PhaseInv, ValidParameters
<1>13. AccusedInv(g)'
  <2>1. \A i \in Id : accusations[g][i] < threshold[g] /\ accusations[g][i] \in Nat
    BY <1>1, <1>2 DEF GroupInv, AccusedInv, KeyGenTypeOK
  <2>2. \A i \in Id : accusations'[g][i] <= accusations[g][i] /\ accusations'[g][i] \in Nat
    BY <1>2, <1>4, <1>5 DEF KeyGenTypeOK
  <2>3. \A i \in Id : accusations'[g][i] < threshold[g]
    BY <2>1, <2>2, ParametersOfGroup
  <2> QED
    BY <1>1, <2>3 DEF AccusedInv
<1> QED
  BY <1>6, <1>7, <1>10, <1>11, <1>12, <1>13 DEF StepOK, GroupInv

-----------------------------------------------------------------------------
\* With no group opened the invariant holds.
LEMMA InvInit ==
  KeyGenInit => KeyGenInv
<1> SUFFICES ASSUME KeyGenInit PROVE KeyGenInv
  OBVIOUS
<1>1. KeyGenTypeOK
  BY DEF KeyGenInit, KeyGenTypeOK, GroupStatus, ComplaintStatus
<1>2. ASSUME NEW g \in Gid PROVE GroupInv(g)
  <2>1. /\ status[g] = "UNINITIALIZED" /\ keys[g] = {} /\ confirmed[g] = {}
        /\ \A d \in Id \X Id : statuses[g][d] = "NONE"
        /\ \A i \in Id : complaints[g][i] = 0 /\ accusations[g][i] = 0
        /\ \A a \in Address : identifiers[g][a] = 0
    BY DEF KeyGenInit
  <2>2. Registered(g) = {}
    BY <2>1 DEF Registered
  <2>3. \A i \in Id : OpenBy(g, i) = {} /\ OpenAgainst(g, i) = {}
    BY <2>1 DEF OpenBy, OpenAgainst
  <2>4. MapInv(g)
    BY <2>1 DEF MapInv
  <2>5. CounterInv(g)
    BY <2>1, <2>3, FS_EmptySet DEF CounterInv
  <2>6. PhaseInv(g) /\ AccusedInv(g)
    BY <2>1, <2>2 DEF PhaseInv, AccusedInv
  <2> QED
    BY <2>4, <2>5, <2>6 DEF GroupInv
<1> QED
  BY <1>1, <1>2 DEF KeyGenInv

\* A step is a step of one group, which was not finalized or compromised.
LEMMA OneGroupSteps ==
  ASSUME KeyGenInv, KeyGenNext
  PROVE  \E g \in Gid : StepOK(g) /\ ~ Terminal(g)
<1>1. ASSUME NEW g \in Gid, KeyGen(g) PROVE StepOK(g) /\ ~ Terminal(g)
  BY <1>1, KeyGenStep DEF KeyGen, Terminal
<1>2. ASSUME NEW g \in Gid, NEW a \in Address, NEW id \in Id,
             KeyGenCommit(g, a, id) \/ KeyGenAndCommit(g, a, id)
      PROVE  StepOK(g) /\ ~ Terminal(g)
  BY <1>2, KeyGenCommitStep, KeyGenAndCommitStep
     DEF KeyGenCommit, KeyGenAndCommit, Terminal
<1>3. ASSUME NEW g \in Gid, NEW a \in Address, NEW id \in Id,
             KeyGenComplain(g, a, id) \/ KeyGenComplaintResponse(g, a, id)
      PROVE  StepOK(g) /\ ~ Terminal(g)
  BY <1>3, KeyGenComplainStep, KeyGenComplaintResponseStep
     DEF KeyGenComplain, KeyGenComplaintResponse, InDispute, Terminal
<1>4. ASSUME NEW g \in Gid, NEW a \in Address,
             KeyGenSecretShare(g, a) \/ KeyGenConfirm(g, a)
      PROVE  StepOK(g) /\ ~ Terminal(g)
  BY <1>4, KeyGenSecretShareStep, KeyGenConfirmStep
     DEF KeyGenSecretShare, KeyGenConfirm, Terminal
<1> QED
  BY <1>1, <1>2, <1>3, <1>4 DEF KeyGenNext

\* Every step preserves the invariant.
LEMMA InvNext ==
  KeyGenInv /\ [KeyGenNext]_keyGenVars => KeyGenInv'
<1> SUFFICES ASSUME KeyGenInv, [KeyGenNext]_keyGenVars PROVE KeyGenInv'
  OBVIOUS
<1>1. CASE KeyGenNext
  <2>1. PICK g \in Gid : StepOK(g)
    BY <1>1, OneGroupSteps
  <2>2. \A h \in Gid \ {g} : GroupInv(h)'
    BY <2>1, GroupUntouched DEF StepOK, KeyGenInv
  <2> QED
    BY <2>1, <2>2 DEF StepOK, KeyGenInv
<1>2. CASE UNCHANGED keyGenVars
  <2>1. KeyGenTypeOK'
    BY <1>2 DEF KeyGenInv, KeyGenTypeOK, keyGenVars
  <2>2. \A g \in Gid : Untouched(g)
    BY <1>2 DEF keyGenVars, Untouched
  <2> QED
    BY <2>1, <2>2, GroupUntouched DEF KeyGenInv
<1> QED
  BY <1>1, <1>2

\* The strengthening of the properties below is an invariant of the key
\* generation contract.
THEOREM KeyGenInvariance ==
  KeyGenSpec => []KeyGenInv
BY InvInit, InvNext, PTL DEF KeyGenSpec

-----------------------------------------------------------------------------
(* The properties.                                                         *)

\* A set of identifiers in use that is as large as the set of members is all
\* of them, and then no two members share an identifier.
LEMMA AllMembers ==
  ASSUME KeyGenTypeOK, NEW g \in Gid, NEW S \in SUBSET IdsOf(g),
         Cardinality(S) = Cardinality(Registered(g))
  PROVE  /\ S = IdsOf(g)
         /\ \A a, b \in Registered(g) :
              identifiers[g][a] = identifiers[g][b] => a = b
<1>1. /\ IsFiniteSet(IdsOf(g))
      /\ Cardinality(IdsOf(g)) <= Cardinality(Registered(g))
  BY IdentifierCount
<1>2. /\ Cardinality(S) <= Cardinality(IdsOf(g))
      /\ Cardinality(IdsOf(g)) = Cardinality(S) => IdsOf(g) = S
  BY <1>1, FS_Subset
<1>3. Cardinality(Registered(g)) \in Nat /\ Cardinality(IdsOf(g)) \in Nat
  BY <1>1, FiniteSets, FS_CardinalityType
<1>4. Cardinality(IdsOf(g)) = Cardinality(Registered(g))
  BY <1>1, <1>2, <1>3
<1> QED
  BY <1>2, <1>4, IdentifierCount

\* The invariant contains the property about pending.
LEMMA PendingFromInv ==
  KeyGenInv => PendingCountsMissing
BY DEF KeyGenInv, GroupInv, PhaseInv, PendingCountsMissing

\* The invariant contains the property about the counters.
LEMMA CountersFromInv ==
  KeyGenInv => CountersMatchDisputes
BY DEF KeyGenInv, GroupInv, CounterInv, CountersMatchDisputes

\* In a finalized group everybody is confirmed, so no complaint is open.
LEMMA FinalizedFromInv ==
  KeyGenInv => FinalizedWithoutDispute
<1> SUFFICES ASSUME KeyGenInv, NEW g \in Gid, status[g] = "FINALIZED",
                    NEW p \in Id, NEW i \in Id
             PROVE  statuses[g][<<p, i>>] # "SUBMITTED"
  BY DEF FinalizedWithoutDispute
<1>1. /\ MapInv(g) /\ KeyGenTypeOK
      /\ Cardinality(confirmed[g]) = Cardinality(Registered(g))
  BY DEF KeyGenInv, GroupInv, PhaseInv
<1>2. confirmed[g] = IdsOf(g)
  BY <1>1, AllMembers DEF MapInv
<1> QED
  BY <1>1, <1>2 DEF MapInv

\* The counters the status was decided on count the open complaints.
LEMMA CompromisedFromInv ==
  KeyGenInv => CompromisedByQuorum
<1> SUFFICES ASSUME KeyGenInv, NEW g \in Gid, status[g] # "UNINITIALIZED"
             PROVE  status[g] = "COMPROMISED" <=>
                      \E i \in Id : Cardinality(OpenAgainst(g, i)) >= threshold[g]
  BY DEF CompromisedByQuorum
<1>1. \A i \in Id : accusations[g][i] = Cardinality(OpenAgainst(g, i))
                    /\ accusations[g][i] \in Nat
  BY DEF KeyGenInv, GroupInv, CounterInv, KeyGenTypeOK
<1>2. AccusedInv(g)
  BY DEF KeyGenInv, GroupInv
<1>3. CASE status[g] = "COMPROMISED"
  BY <1>1, <1>2, <1>3 DEF AccusedInv
<1>4. CASE status[g] # "COMPROMISED"
  <2>1. \A i \in Id : accusations[g][i] < threshold[g]
    BY <1>2, <1>4 DEF AccusedInv
  <2> QED
    BY <1>1, <1>4, <2>1, ParametersOfGroup
<1> QED
  BY <1>3, <1>4

\* As many keys as participants: identifiers are pairwise distinct.
LEMMA MembersFromInv ==
  KeyGenInv => MembersAreDistinct
<1> SUFFICES ASSUME KeyGenInv, NEW g \in Gid,
                    status[g] \in {"CONFIRMING", "FINALIZED"}
             PROVE  /\ Cardinality(Registered(g)) = count[g]
                    /\ \A a, b \in Registered(g) :
                         identifiers[g][a] = identifiers[g][b] => a = b
                    /\ keys[g] = IdsOf(g)
  BY DEF MembersAreDistinct, IdsOf
<1>1. /\ keys[g] \subseteq IdsOf(g) /\ KeyGenTypeOK
      /\ Cardinality(Registered(g)) = count[g]
      /\ Cardinality(keys[g]) = count[g]
  BY DEF KeyGenInv, GroupInv, MapInv, PhaseInv
<1> QED
  BY <1>1, AllMembers

\* Every variable keeps its type for any groups; in particular the counters
\* that respond decrements stay natural numbers.
THEOREM KeyGenTypeCorrect ==
  KeyGenSpec => []KeyGenTypeOK
<1>1. KeyGenInv => KeyGenTypeOK
  BY DEF KeyGenInv
<1> QED
  BY <1>1, KeyGenInvariance, PTL

\* An open phase always waits for exactly the members that have not done it.
THEOREM PendingIsExact ==
  KeyGenSpec => []PendingCountsMissing
BY PendingFromInv, KeyGenInvariance, PTL

\* The complaint counters always equal the numbers of open disputes.
THEOREM CountersAreExact ==
  KeyGenSpec => []CountersMatchDisputes
BY CountersFromInv, KeyGenInvariance, PTL

\* No group is finalized over an open complaint.
THEOREM FinalizedIsUndisputed ==
  KeyGenSpec => []FinalizedWithoutDispute
BY FinalizedFromInv, KeyGenInvariance, PTL

\* A group is compromised exactly when threshold complaints are open against
\* one member.
THEOREM CompromisedIsJustified ==
  KeyGenSpec => []CompromisedByQuorum
BY CompromisedFromInv, KeyGenInvariance, PTL

\* Whatever the participant tree, a group past sharing has count members with
\* pairwise distinct identifiers and keys.
THEOREM MembersStayDistinct ==
  KeyGenSpec => []MembersAreDistinct
BY MembersFromInv, KeyGenInvariance, PTL

\* No step changes a finalized or compromised group.
THEOREM TerminalStaysFrozen ==
  KeyGenSpec => TerminalIsFrozen
<1> DEFINE Frozen == \A g \in Gid : Terminal(g) =>
                       /\ status'[g] = status[g]
                       /\ identifiers'[g] = identifiers[g]
                       /\ keys'[g] = keys[g]
                       /\ confirmed'[g] = confirmed[g]
                       /\ statuses'[g] = statuses[g]
<1>1. KeyGenInv /\ [KeyGenNext]_keyGenVars => [Frozen]_keyGenVars
  <2> SUFFICES ASSUME KeyGenInv, KeyGenNext PROVE Frozen
    OBVIOUS
  <2>1. PICK h \in Gid : StepOK(h) /\ ~ Terminal(h)
    BY OneGroupSteps
  <2>2. \A g \in Gid : Terminal(g) => Untouched(g)
    BY <2>1 DEF StepOK
  <2> QED
    BY <2>2 DEF Untouched
<1>2. TerminalIsFrozen <=> [][Frozen]_keyGenVars
  BY DEF TerminalIsFrozen
<1> QED
  BY <1>1, <1>2, KeyGenInvariance, PTL DEF KeyGenSpec
-----------------------------------------------------------------------------
(* An opened group is never stuck.                                         *)

\* Members registered by a leaf of the tree, and complaints are against those
\* that have a key.
TreeInv ==
  \A g \in Gid :
    /\ \A a \in Registered(g) : <<identifiers[g][a], a>> \in leaves[g]
    /\ \A p, i \in Id : statuses[g][<<p, i>>] # "NONE" => i \in keys[g]

\* Only register adds a member, complain checks that the accused has a key,
\* and nobody loses a key.
LEMMA TreeNext ==
  ASSUME KeyGenTypeOK, TreeInv, [KeyGenNext]_keyGenVars
  PROVE  TreeInv'
<1>1. ASSUME UNCHANGED <<identifiers, keys, statuses>> PROVE TreeInv'
  BY <1>1 DEF TreeInv, Registered
<1>2. ASSUME NEW h \in Gid, NEW a \in Address, NEW id \in Id,
             Register(h, a, id), UNCHANGED <<keys, statuses>>
      PROVE  TreeInv'
  <2> SUFFICES ASSUME NEW g \in Gid, NEW b \in Registered(g)'
               PROVE  <<identifiers'[g][b], b>> \in leaves[g]
    BY <1>2 DEF TreeInv
  <2>1. b \in Address /\ identifiers'[g][b] # 0
    BY DEF Registered
  <2>2. CASE g = h /\ b = a
    BY <1>2, <2>2 DEF Register, KeyGenTypeOK
  <2>3. CASE ~ (g = h /\ b = a)
    <3>1. identifiers'[g][b] = identifiers[g][b]
      BY <1>2, <2>1, <2>3 DEF Register, KeyGenTypeOK
    <3> QED
      BY <2>1, <3>1 DEF TreeInv, Registered
  <2> QED
    BY <2>2, <2>3
<1>3. ASSUME NEW h \in Gid, NEW id, SetKey(h, id), UNCHANGED <<identifiers, statuses>>
      PROVE  TreeInv'
  <2>1. \A g \in Gid : keys[g] \subseteq keys'[g]
    BY <1>3 DEF SetKey, KeyGenTypeOK
  <2>2. \A g \in Gid : Registered(g)' = Registered(g)
    BY <1>3 DEF Registered
  <2> QED
    BY <1>3, <2>1, <2>2 DEF TreeInv
<1>4. ASSUME NEW h \in Gid, NEW p \in Id, NEW i \in Id, NEW s,
             i \in keys[h], statuses' = [statuses EXCEPT ![h][<<p, i>>] = s],
             UNCHANGED <<identifiers, keys>>
      PROVE  TreeInv'
  <2>1. \A g \in Gid : Registered(g)' = Registered(g)
    BY <1>4 DEF Registered
  <2> SUFFICES ASSUME NEW g \in Gid, NEW q \in Id, NEW j \in Id,
                      statuses'[g][<<q, j>>] # "NONE"
               PROVE  j \in keys[g]
    BY <1>4, <2>1 DEF TreeInv
  <2>2. CASE g = h /\ j = i
    BY <1>4, <2>2
  <2>3. CASE ~ (g = h /\ j = i)
    <3>1. statuses'[g][<<q, j>>] = statuses[g][<<q, j>>]
      BY <1>4, <2>3 DEF KeyGenTypeOK
    <3> QED
      BY <3>1 DEF TreeInv
  <2> QED
    BY <2>2, <2>3
<1>5. ASSUME NEW g \in Gid, NEW a \in Address, NEW id \in Id, KeyGenCommit(g, a, id)
      PROVE  TreeInv'
  BY <1>2, <1>5 DEF KeyGenCommit
<1>6. ASSUME NEW g \in Gid, NEW a \in Address, NEW id \in Id, KeyGenAndCommit(g, a, id)
      PROVE  TreeInv'
  BY <1>2, <1>5, <1>6 DEF KeyGenAndCommit
<1>7. ASSUME NEW g \in Gid, NEW a \in Address, NEW i \in Id, KeyGenComplain(g, a, i)
      PROVE  TreeInv'
  <2>1. identifiers[g][a] \in Id
    BY <1>7 DEF KeyGenComplain, KeyGenTypeOK
  <2> QED
    BY <1>4, <1>7, <2>1 DEF KeyGenComplain, Complain
<1>8. ASSUME NEW g \in Gid, NEW a \in Address, NEW p \in Id,
             KeyGenComplaintResponse(g, a, p)
      PROVE  TreeInv'
  <2>1. identifiers[g][a] \in Id
    BY <1>8 DEF KeyGenComplaintResponse, KeyGenTypeOK
  <2>2. identifiers[g][a] \in keys[g]
    BY <1>8, <2>1 DEF TreeInv, KeyGenComplaintResponse, Respond
  <2> QED
    BY <1>4, <1>8, <2>1, <2>2 DEF KeyGenComplaintResponse, Respond
<1>9. ASSUME NEW g \in Gid, NEW a \in Address, KeyGenSecretShare(g, a)
      PROVE  TreeInv'
  BY <1>3, <1>9 DEF KeyGenSecretShare
<1> QED
  BY <1>1, <1>5, <1>6, <1>7, <1>8, <1>9
     DEF KeyGenNext, KeyGen, KeyGenConfirm, mapVars, keyGenVars

\* Committing: fewer members than leaves, and no two leaves of one account.
LEMMA SomeoneCommits ==
  ASSUME KeyGenInv, NEW g \in Gid, WellFormed(g), status[g] = "COMMITTING"
  PROVE  \E a \in Address : CanCommit(g, a)
<1> SUFFICES ASSUME \A a \in Address : ~ CanCommit(g, a) PROVE FALSE
  OBVIOUS
<1> DEFINE f == [l \in leaves[g] |-> l[2]]
<1>1. leaves[g] \subseteq Id \X Address
  BY ParametersAssumption
<1>2. \A l \in leaves[g] : l[2] \in Registered(g)
  <2> SUFFICES ASSUME NEW l \in leaves[g] PROVE l[2] \in Registered(g)
    OBVIOUS
  <2>1. l[1] \in Id /\ l[2] \in Address /\ l = <<l[1], l[2]>>
    BY <1>1
  <2> QED
    BY <2>1 DEF CanCommit, Registered
<1>3. f \in Injection(leaves[g], Registered(g))
  BY <1>2 DEF Injection, IsInjective, WellFormed
<1>4. IsFiniteSet(Registered(g)) /\ Cardinality(Registered(g)) \in Nat
  BY FiniteSets
<1>5. /\ IsFiniteSet(leaves[g])
      /\ Cardinality(leaves[g]) <= Cardinality(Registered(g))
  BY <1>3, <1>4, FS_Injection
<1>6. Cardinality(leaves[g]) \in Nat
  BY <1>5, FS_CardinalityType
<1>7. /\ pending[g] = count[g] - Cardinality(Registered(g)) /\ pending[g] > 0
      /\ count[g] \in Nat
  BY ParametersAssumption DEF KeyGenInv, GroupInv, PhaseInv
<1> QED
  BY <1>4, <1>5, <1>6, <1>7 DEF WellFormed

\* Sharing: the members have as many identifiers as there are keys in the end.
LEMMA SomeoneShares ==
  ASSUME KeyGenInv, TreeInv, NEW g \in Gid, WellFormed(g), status[g] = "SHARING"
  PROVE  \E a \in Address : CanShare(g, a)
<1> SUFFICES ASSUME \A a \in Address : ~ CanShare(g, a) PROVE FALSE
  OBVIOUS
<1> DEFINE f == [a \in Registered(g) |-> identifiers[g][a]]
<1>1. \A a \in Registered(g) : a \in Address /\ identifiers[g][a] \in Id
  BY DEF Registered, KeyGenInv, KeyGenTypeOK
<1>2. \A a \in Registered(g) : identifiers[g][a] \in keys[g]
  BY <1>1 DEF CanShare
<1>3. \A a, b \in Registered(g) : identifiers[g][a] = identifiers[g][b] => a = b
  <2> SUFFICES ASSUME NEW a \in Registered(g), NEW b \in Registered(g),
                      identifiers[g][a] = identifiers[g][b]
               PROVE  a = b
    OBVIOUS
  <2>1. <<identifiers[g][a], a>> \in leaves[g] /\ <<identifiers[g][b], b>> \in leaves[g]
    BY DEF TreeInv
  <2> QED
    BY <2>1 DEF WellFormed
<1>4. f \in Injection(Registered(g), keys[g])
  BY <1>2, <1>3 DEF Injection, IsInjective
<1>5. /\ keys[g] \in SUBSET Id
      /\ IsFiniteSet(keys[g]) /\ Cardinality(keys[g]) \in Nat
  BY FiniteSets DEF KeyGenInv, KeyGenTypeOK
<1>6. Cardinality(Registered(g)) <= Cardinality(keys[g])
  BY <1>4, <1>5, FS_Injection
<1>7. /\ Cardinality(Registered(g)) = count[g]
      /\ pending[g] = count[g] - Cardinality(keys[g]) /\ pending[g] > 0
      /\ count[g] \in Nat
  BY ParametersAssumption DEF KeyGenInv, GroupInv, PhaseInv
<1> QED
  BY <1>5, <1>6, <1>7

\* Confirming: somebody has not confirmed, and if that is because of a
\* complaint, the accused is a member and can respond.
LEMMA SomeoneConfirms ==
  ASSUME KeyGenInv, TreeInv, NEW g \in Gid, status[g] = "CONFIRMING"
  PROVE  \E a \in Address : CanConfirm(g, a)
<1>1. keys[g] = IdsOf(g)
  BY MembersFromInv DEF MembersAreDistinct, IdsOf
<1>2. /\ confirmed[g] \subseteq keys[g] /\ keys[g] \subseteq Id
      /\ Cardinality(keys[g]) = count[g]
      /\ pending[g] = count[g] - Cardinality(confirmed[g]) /\ pending[g] > 0
  BY <1>1 DEF KeyGenInv, KeyGenTypeOK, GroupInv, MapInv, PhaseInv
<1>3. Cardinality(confirmed[g]) \in Nat /\ count[g] \in Nat
  BY <1>2, FiniteSets, ParametersAssumption
<1>4. confirmed[g] # keys[g]
  BY <1>2, <1>3
<1>5. PICK id \in keys[g] : id \notin confirmed[g]
  BY <1>2, <1>4
<1>6. PICK a \in Registered(g) : identifiers[g][a] = id
  BY <1>1 DEF IdsOf
<1>7. id \in Id /\ a \in Address
  BY <1>2 DEF Registered
<1>8. CASE complaints[g][id] = 0
  BY <1>5, <1>6, <1>7, <1>8 DEF CanConfirm
<1>9. CASE complaints[g][id] # 0
  <2>1. complaints[g][id] = Cardinality(OpenBy(g, id))
    BY <1>7 DEF KeyGenInv, GroupInv, CounterInv
  <2>2. OpenBy(g, id) # {}
    BY <1>9, <2>1, FS_EmptySet
  <2>3. PICK i \in Id : statuses[g][<<id, i>>] = "SUBMITTED"
    BY <2>2 DEF OpenBy
  <2>4. i \in IdsOf(g)
    BY <1>1, <1>7, <2>3 DEF TreeInv
  <2>5. PICK b \in Registered(g) : identifiers[g][b] = i
    BY <2>4 DEF IdsOf
  <2> QED
    BY <1>5, <1>6, <1>7, <2>3, <2>5 DEF CanConfirm
<1> QED
  BY <1>8, <1>9

\* Until a group with a well-formed tree is finalized or compromised, the
\* contract waits for a member that can do what it is waited for, after
\* whatever complaints and responses (FROSTParticipantMap.confirm).
THEOREM GroupsAreNeverStuck ==
  KeyGenSpec => []NeverStuck
<1>1. KeyGenInit => TreeInv
  BY DEF KeyGenInit, TreeInv, Registered
<1>2. KeyGenInv /\ TreeInv /\ [KeyGenNext]_keyGenVars => TreeInv'
  BY TreeNext DEF KeyGenInv
<1>3. KeyGenInv /\ TreeInv => NeverStuck
  BY SomeoneCommits, SomeoneShares, SomeoneConfirms DEF NeverStuck
<1> QED
  BY <1>1, <1>2, <1>3, KeyGenInvariance, PTL DEF KeyGenSpec
=============================================================================
