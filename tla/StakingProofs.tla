--------------------------- MODULE StakingProofs ---------------------------
(***************************************************************************)
(* The staking contract for any stakers, validators, amounts and delays.   *)
(*                                                                         *)
(* It is solvent: that needs no sums, as a transaction moves the totals    *)
(* and the balance together, or only the balance and not below what is     *)
(* owed.  Its queues are linked: each is a set of withdrawals with places  *)
(* that grow from the tail to the head as the dates get earlier, and the   *)
(* links are what the places say.  Its totals are sums: a sum over a       *)
(* finite set changes by what one value changes.  And what stakers see of  *)
(* it is the book of withdrawals.                                          *)
(***************************************************************************)
EXTENDS Staking, FiniteSetTheorems, TLAPS

Node == [amount : Int, claimableAt : Int, previous : Pointer, next : Pointer]

\* What the sums and the links are made of.
NumbersOK ==
  /\ balance \in Int
  /\ totalStakedAmount \in Int
  /\ totalPendingWithdrawals \in Int
  /\ now \in Int
  /\ withdrawDelay \in Int
  /\ pendingDelay \in [value : Int, executableAt : Int]
  /\ nextWithdrawalId \in Nat \ {0}
  /\ queues \in [Staker -> [head : Pointer, tail : Pointer]]
  /\ nodes \in [Staker -> [Pointer -> Node]]

SolvencyInv == NumbersOK /\ Solvent

\* A node keeps its type when it is linked to others.
LEMMA NodeLinked ==
  ASSUME NEW n \in Node, NEW p \in Pointer, NEW q \in Pointer
  PROVE  /\ [n EXCEPT !.next = q, !.previous = p] \in Node
         /\ [n EXCEPT !.previous = p] \in Node
         /\ n.next \in Pointer /\ n.previous \in Pointer
         /\ n.amount \in Int
BY DEF Node

\* The empty contract owes nothing.
LEMMA SolvencyInit ==
  Init => SolvencyInv
<1> SUFFICES ASSUME Init
             PROVE  SolvencyInv
  OBVIOUS
<1>1. 0 \in Pointer
  BY StakingAssumption DEF Pointer
<1>2. NoNode \in Node
  BY <1>1 DEF NoNode, Node
<1>3. NumbersOK
  BY <1>1, <1>2, StakingAssumption DEF Init, NumbersOK, NoChange
<1> QED
  BY <1>3 DEF Init, SolvencyInv, Solvent

\* Linking a new node keeps the queues well typed.
LEMMA LinkNumbers ==
  ASSUME NumbersOK, nextWithdrawalId <= MaxWithdrawals,
         NEW s \in Staker, NEW amount \in Amount, NEW previous \in Pointer,
         NEW nxt \in Pointer, Link(s, amount, previous, nxt)
  PROVE  /\ queues' \in [Staker -> [head : Pointer, tail : Pointer]]
         /\ nodes' \in [Staker -> [Pointer -> Node]]
<1> DEFINE id == nextWithdrawalId
           node == [amount |-> amount, claimableAt |-> ClaimableAt,
                    previous |-> previous, next |-> nxt]
           linked(i) == [nodes[s][i] EXCEPT
                           !.next = IF i = previous THEN id ELSE @,
                           !.previous = IF i = nxt THEN id ELSE @]
<1>1. id \in Pointer /\ 0 \in Pointer
  BY StakingAssumption DEF NumbersOK, Pointer
<1>2. node \in Node
  BY StakingAssumption DEF Node, ClaimableAt, NumbersOK
<1>3. NoNode \in Node
  BY <1>1 DEF NoNode, Node
<1>4. ASSUME NEW i \in Pointer
      PROVE  linked(i) \in Node
  <2>1. nodes[s][i] \in Node
    BY DEF NumbersOK
  <2>2. nodes[s][i].next \in Pointer /\ nodes[s][i].previous \in Pointer
    BY <2>1, NodeLinked, <1>1
  <2> QED
    BY <1>1, <2>1, <2>2, NodeLinked
<1>5. nodes' = [nodes EXCEPT ![s] = [i \in Pointer |->
                  CASE i = 0 -> NoNode
                    [] i = id -> node
                    [] OTHER -> linked(i)]]
  BY DEF Link, NumbersOK
<1>6. [i \in Pointer |-> CASE i = 0 -> NoNode
                           [] i = id -> node
                           [] OTHER -> linked(i)] \in [Pointer -> Node]
  <2> HIDE DEF node, linked
  <2> QED
    BY <1>2, <1>3, <1>4
<1>7. nodes' \in [Staker -> [Pointer -> Node]]
  BY <1>5, <1>6 DEF NumbersOK
<1>8. queues' \in [Staker -> [head : Pointer, tail : Pointer]]
  BY <1>1 DEF Link, NumbersOK
<1> QED
  BY <1>7, <1>8

\* Taking the head off a queue that has one keeps the queues well typed.
LEMMA UnlinkNumbers ==
  ASSUME NumbersOK, NEW s \in Staker, UnlinkHead(s)
  PROVE  /\ queues' \in [Staker -> [head : Pointer, tail : Pointer]]
         /\ nodes' \in [Staker -> [Pointer -> Node]]
<1> DEFINE head == queues[s].head
           first(i) == [nodes[s][i] EXCEPT !.previous = 0]
<1>1. 0 \in Pointer /\ head \in Pointer
  BY StakingAssumption DEF NumbersOK, Pointer
<1>2. NoNode \in Node
  BY <1>1 DEF NoNode, Node
<1>3. ASSUME NEW i \in Pointer
      PROVE  /\ first(i) \in Node /\ nodes[s][i] \in Node
             /\ nodes[s][i].next \in Pointer
  <2>1. nodes[s][i] \in Node
    BY DEF NumbersOK
  <2> QED
    BY <1>1, <2>1, NodeLinked
<1>4. nodes' = [nodes EXCEPT ![s] = [i \in Pointer |->
                  CASE i = head -> NoNode
                    [] i = nodes[s][head].next /\ i # head -> first(i)
                    [] OTHER -> nodes[s][i]]]
  BY DEF UnlinkHead, NumbersOK
<1>5. [i \in Pointer |-> CASE i = head -> NoNode
                           [] i = nodes[s][head].next /\ i # head -> first(i)
                           [] OTHER -> nodes[s][i]] \in [Pointer -> Node]
  <2> HIDE DEF first, head
  <2> QED
    BY <1>2, <1>3
<1>6. nodes' \in [Staker -> [Pointer -> Node]]
  BY <1>4, <1>5 DEF NumbersOK
<1>7. queues' \in [Staker -> [head : Pointer, tail : Pointer]]
  BY <1>1, <1>3 DEF UnlinkHead, NumbersOK, Node
<1> QED
  BY <1>6, <1>7

\* Starting a withdrawal moves an amount from one total to the other.
LEMMA InitiateNumbers ==
  ASSUME SolvencyInv, NEW s \in Staker, NEW v \in Validator,
         NEW amount \in Amount, Initiate(s, v, amount),
         UNCHANGED <<now, balance, configVars>>,
         queues' \in [Staker -> [head : Pointer, tail : Pointer]],
         nodes' \in [Staker -> [Pointer -> Node]]
  PROVE  SolvencyInv'
BY StakingAssumption
DEF SolvencyInv, NumbersOK, Solvent, Initiate, configVars

\* Every transaction keeps the contract solvent.
LEMMA SolvencyNext ==
  SolvencyInv /\ [Next]_vars => SolvencyInv'
<1> SUFFICES ASSUME SolvencyInv, [Next]_vars
             PROVE  SolvencyInv'
  OBVIOUS
<1>1. CASE Tick
  BY <1>1 DEF Tick, SolvencyInv, NumbersOK, Solvent, stakeVars, queueVars,
              configVars
<1>2. ASSUME NEW s \in Staker, ClaimWithdrawal(s)
      PROVE  SolvencyInv'
  <2>1. /\ queues' \in [Staker -> [head : Pointer, tail : Pointer]]
        /\ nodes' \in [Staker -> [Pointer -> Node]]
    BY <1>2, UnlinkNumbers DEF ClaimWithdrawal, SolvencyInv
  <2>2. nodes[s][queues[s].head].amount \in Int
    BY DEF SolvencyInv, NumbersOK, Node
  <2> QED
    BY <1>2, <2>1, <2>2
    DEF ClaimWithdrawal, SolvencyInv, NumbersOK, Solvent, stakeVars, configVars
<1>3. ASSUME NEW s \in Staker, NEW v \in Validator, NEW amount \in Amount,
             Stake(s, v, amount)
      PROVE  SolvencyInv'
  BY <1>3, StakingAssumption
  DEF Stake, SolvencyInv, NumbersOK, Solvent, queueVars, configVars
<1>4. ASSUME NEW s \in Staker, NEW v \in Validator, NEW amount \in Amount,
             InitiateWithdrawal(s, v, amount)
      PROVE  SolvencyInv'
  <2>1. PICK walked \in SUBSET WithdrawalId, current \in Pointer :
          Link(s, amount, current,
               CASE current = queues[s].tail -> 0
                 [] current = 0 -> queues[s].head
                 [] OTHER -> nodes[s][current].next)
    BY <1>4 DEF InitiateWithdrawal
  <2>2. /\ 0 \in Pointer /\ queues[s].head \in Pointer
        /\ nodes[s][current].next \in Pointer
    <3>1. nodes[s][current] \in Node
      BY DEF SolvencyInv, NumbersOK
    <3>2. 0 \in Pointer
      BY StakingAssumption DEF Pointer
    <3>3. queues[s].head \in Pointer
      BY DEF SolvencyInv, NumbersOK
    <3> QED
      BY <3>1, <3>2, <3>3, NodeLinked
  <2>3. (CASE current = queues[s].tail -> 0
           [] current = 0 -> queues[s].head
           [] OTHER -> nodes[s][current].next) \in Pointer
    BY <2>2
  <2>4. /\ queues' \in [Staker -> [head : Pointer, tail : Pointer]]
        /\ nodes' \in [Staker -> [Pointer -> Node]]
    BY <1>4, <2>1, <2>3, LinkNumbers DEF InitiateWithdrawal, SolvencyInv
  <2> QED
    BY <1>4, <2>4, InitiateNumbers DEF InitiateWithdrawal
<1>5. ASSUME NEW s \in Staker, NEW v \in Validator, NEW amount \in Amount,
             NEW previous \in Pointer,
             InitiateWithdrawalAtPosition(s, v, amount, previous)
      PROVE  SolvencyInv'
  <2>1. NextOf(s, previous) \in Pointer
    BY DEF NextOf, SolvencyInv, NumbersOK, Node
  <2>2. /\ queues' \in [Staker -> [head : Pointer, tail : Pointer]]
        /\ nodes' \in [Staker -> [Pointer -> Node]]
    BY <1>5, <2>1, LinkNumbers DEF InitiateWithdrawalAtPosition, SolvencyInv
  <2> QED
    BY <1>5, <2>2, InitiateNumbers DEF InitiateWithdrawalAtPosition
<1>6. ASSUME NEW d \in 1 .. ConfigTimeDelay, ProposeWithdrawDelay(d)
      PROVE  SolvencyInv'
  BY <1>6, StakingAssumption
  DEF ProposeWithdrawDelay, SolvencyInv, NumbersOK, Solvent, stakeVars,
      queueVars
<1>7. CASE ExecuteWithdrawDelayChange
  BY <1>7 DEF ExecuteWithdrawDelayChange, SolvencyInv, NumbersOK, Solvent,
              stakeVars, queueVars, NoChange
<1>8. ASSUME NEW changes \in ValidatorChange, ProposeValidators(changes)
      PROVE  SolvencyInv'
  BY <1>8 DEF ProposeValidators, SolvencyInv, NumbersOK, Solvent, stakeVars,
              queueVars
<1>9. CASE ExecuteValidatorChanges
  BY <1>9 DEF ExecuteValidatorChanges, SolvencyInv, NumbersOK, Solvent,
              stakeVars, queueVars
<1>10. CASE RecoverTokens
  BY <1>10 DEF RecoverTokens, Recoverable, SolvencyInv, NumbersOK, Solvent,
               stakeVars, queueVars, configVars
<1>11. ASSUME NEW amount \in Amount, Donate(amount)
       PROVE  SolvencyInv'
  BY <1>11, StakingAssumption
  DEF Donate, SolvencyInv, NumbersOK, Solvent, stakeVars, queueVars, configVars
<1>12. CASE UNCHANGED vars
  BY <1>12 DEF vars, stakeVars, queueVars, configVars, SolvencyInv, NumbersOK,
               Solvent
<1> QED
  BY <1>1, <1>2, <1>3, <1>4, <1>5, <1>6, <1>7, <1>8, <1>9, <1>10, <1>11,
     <1>12 DEF Next

\* The contract always holds what it owes, whatever the owner recovers.
THEOREM StakingIsSolvent ==
  Spec => []Solvent
<1>1. SolvencyInv => Solvent
  BY DEF SolvencyInv
<1> QED
  BY <1>1, SolvencyInit, SolvencyNext, PTL DEF Spec
-----------------------------------------------------------------------------
(* The queue of one staker.  A place is how far a withdrawal is from the   *)
(* tail: the list is in the order of the places, which is that of the      *)
(* dates.  q is the queue and n are the nodes.                             *)

QueueNode == [amount : Amount \cup {0}, claimableAt : Time, previous : Pointer,
              next : Pointer]
Ends == [head : Pointer, tail : Pointer]

LiveIn(n) == {id \in WithdrawalId : n[id].amount # 0}

IsFirst(n, place, i) == \A j \in LiveIn(n) : place[j] <= place[i]
IsLast(n, place, i) == \A j \in LiveIn(n) : place[i] <= place[j]

\* j is the withdrawal behind i.
Follows(n, place, i, j) ==
  /\ i \in LiveIn(n) /\ j \in LiveIn(n) /\ place[j] < place[i]
  /\ \A k \in LiveIn(n) : place[k] <= place[j] \/ place[i] <= place[k]

Sorted(n, place) ==
  /\ \A i, j \in LiveIn(n) : place[i] = place[j] => i = j
  /\ \A i, j \in LiveIn(n) : place[j] < place[i] => n[i].claimableAt <= n[j].claimableAt

EndsOK(q, n, place) ==
  /\ IF q.head = 0 THEN LiveIn(n) = {} ELSE q.head \in LiveIn(n) /\ IsFirst(n, place, q.head)
  /\ IF q.tail = 0 THEN LiveIn(n) = {} ELSE q.tail \in LiveIn(n) /\ IsLast(n, place, q.tail)

NextOK(n, place) ==
  \A i \in LiveIn(n) : IF n[i].next = 0 THEN IsLast(n, place, i)
                       ELSE Follows(n, place, i, n[i].next)

PreviousOK(n, place) ==
  \A i \in LiveIn(n) : IF n[i].previous = 0 THEN IsFirst(n, place, i)
                       ELSE Follows(n, place, n[i].previous, i)

\* What is not in the queue is deleted.
DeadOK(n) == \A i \in Pointer \ LiveIn(n) : n[i] = NoNode

InQueue(q, n, place) ==
  /\ q \in Ends /\ n \in [Pointer -> QueueNode] /\ place \in [Pointer -> Nat]
  /\ Sorted(n, place)
  /\ EndsOK(q, n, place)
  /\ NextOK(n, place)
  /\ PreviousOK(n, place)
  /\ DeadOK(n)

\* Two neighbours in the queue, or its ends, that a withdrawal with the date at
\* fits between.
Gap(q, n, previous, nxt, at) ==
  /\ IF previous = 0 THEN nxt = q.head
     ELSE /\ previous \in LiveIn(n) /\ nxt = n[previous].next
          /\ n[previous].claimableAt <= at
  /\ nxt # 0 => at <= n[nxt].claimableAt

\* What Link makes of the nodes and the ends of a queue.
LinkedNodes(n, id, node) ==
  [i \in Pointer |->
     CASE i = 0 -> NoNode
       [] i = id -> node
       [] OTHER -> [n[i] EXCEPT !.next = IF i = node.previous THEN id ELSE @,
                                !.previous = IF i = node.next THEN id ELSE @]]

LinkedEnds(q, id, node) ==
  [head |-> IF node.previous = 0 THEN id ELSE q.head,
   tail |-> IF node.next = 0 THEN id ELSE q.tail]

LEMMA Pointers ==
  /\ 0 \in Pointer /\ WithdrawalId \subseteq Pointer
  /\ \A i \in WithdrawalId : i # 0
  /\ NoNode \in QueueNode
  /\ NoNode.amount = 0 /\ NoNode.claimableAt = 0 /\ NoNode.next = 0 /\ NoNode.previous = 0
BY StakingAssumption DEF Pointer, WithdrawalId, NoNode, QueueNode, Time

LEMMA QueueNodeFields ==
  ASSUME NEW x \in QueueNode
  PROVE  /\ x.amount \in Amount \cup {0} /\ x.claimableAt \in Time
         /\ x.previous \in Pointer /\ x.next \in Pointer
BY DEF QueueNode

\* The two links of neighbours agree.
LEMMA LinksMirror ==
  ASSUME NEW q, NEW n, NEW place, InQueue(q, n, place), NEW i \in LiveIn(n)
  PROVE  /\ n[i].next # 0 => n[i].next \in LiveIn(n) /\ n[n[i].next].previous = i
         /\ n[i].previous # 0 => n[i].previous \in LiveIn(n) /\ n[n[i].previous].next = i
         /\ n[i].previous = 0 <=> i = q.head
         /\ n[i].next = 0 <=> i = q.tail
<1>1. /\ \A j \in LiveIn(n) : place[j] \in Nat /\ j # 0
      /\ \A j, k \in LiveIn(n) : place[j] = place[k] => j = k
      /\ EndsOK(q, n, place) /\ NextOK(n, place) /\ PreviousOK(n, place)
  BY Pointers DEF InQueue, Sorted, LiveIn
<1>2. ASSUME n[i].next # 0
      PROVE  n[i].next \in LiveIn(n) /\ n[n[i].next].previous = i
  <2> DEFINE j == n[i].next
  <2>1. Follows(n, place, i, j)
    BY <1>1, <1>2 DEF NextOK
  <2> HIDE DEF j
  <2>2. j \in LiveIn(n) /\ place[j] < place[i]
    BY <2>1 DEF Follows
  <2>3. n[j].previous # 0
    BY <1>1, <2>2 DEF PreviousOK, IsFirst
  <2>4. Follows(n, place, n[j].previous, j)
    BY <1>1, <2>2, <2>3 DEF PreviousOK
  <2>5. n[j].previous = i
    BY <1>1, <2>1, <2>4 DEF Follows
  <2> QED
    BY <2>2, <2>5 DEF j
<1>3. ASSUME n[i].previous # 0
      PROVE  n[i].previous \in LiveIn(n) /\ n[n[i].previous].next = i
  <2> DEFINE j == n[i].previous
  <2>1. Follows(n, place, j, i)
    BY <1>1, <1>3 DEF PreviousOK
  <2> HIDE DEF j
  <2>2. j \in LiveIn(n) /\ place[i] < place[j]
    BY <2>1 DEF Follows
  <2>3. n[j].next # 0
    BY <1>1, <2>2 DEF NextOK, IsLast
  <2>4. Follows(n, place, j, n[j].next)
    BY <1>1, <2>2, <2>3 DEF NextOK
  <2>5. n[j].next = i
    BY <1>1, <2>1, <2>4 DEF Follows
  <2> QED
    BY <2>2, <2>5 DEF j
<1>4. n[i].previous = 0 <=> i = q.head
  <2>1. q.head \in LiveIn(n) /\ IsFirst(n, place, q.head)
    BY <1>1 DEF EndsOK
  <2>2. ASSUME n[i].previous = 0 PROVE i = q.head
    <3>1. IsFirst(n, place, i)
      BY <1>1, <2>2 DEF PreviousOK
    <3> QED
      BY <1>1, <2>1, <3>1 DEF IsFirst
  <2>3. ASSUME i = q.head, n[i].previous # 0 PROVE FALSE
    <3>1. Follows(n, place, n[i].previous, i)
      BY <1>1, <2>3 DEF PreviousOK
    <3> QED
      BY <1>1, <2>1, <2>3, <3>1 DEF Follows, IsFirst
  <2> QED
    BY <2>2, <2>3
<1>5. n[i].next = 0 <=> i = q.tail
  <2>1. q.tail \in LiveIn(n) /\ IsLast(n, place, q.tail)
    BY <1>1 DEF EndsOK
  <2>2. ASSUME n[i].next = 0 PROVE i = q.tail
    <3>1. IsLast(n, place, i)
      BY <1>1, <2>2 DEF NextOK
    <3> QED
      BY <1>1, <2>1, <3>1 DEF IsLast
  <2>3. ASSUME i = q.tail, n[i].next # 0 PROVE FALSE
    <3>1. Follows(n, place, i, n[i].next)
      BY <1>1, <2>3 DEF NextOK
    <3> QED
      BY <1>1, <2>1, <2>3, <3>1 DEF Follows, IsLast
  <2> QED
    BY <2>2, <2>3
<1> QED
  BY <1>2, <1>3, <1>4, <1>5
\* The place of a gap: what is in front of it has at least place b.
GapAt(q, n, place, previous, nxt, b) ==
  /\ \A i \in LiveIn(n) : b <= place[i] => previous # 0 /\ place[previous] <= place[i]
  /\ \A i \in LiveIn(n) : place[i] < b => nxt # 0 /\ place[i] <= place[nxt]
  /\ previous # 0 => previous \in LiveIn(n) /\ b <= place[previous]
  /\ nxt # 0 => nxt \in LiveIn(n) /\ place[nxt] < b

LEMMA GapPlace ==
  ASSUME NEW q, NEW n, NEW place, InQueue(q, n, place),
         NEW previous, NEW nxt, NEW at, Gap(q, n, previous, nxt, at)
  PROVE  \E b \in Nat : GapAt(q, n, place, previous, nxt, b)
<1> DEFINE b == IF nxt = 0 THEN 0 ELSE place[nxt] + 1
<1>1. /\ \A j \in LiveIn(n) : place[j] \in Nat /\ j # 0
      /\ \A j, k \in LiveIn(n) : place[j] = place[k] => j = k
      /\ EndsOK(q, n, place) /\ NextOK(n, place) /\ PreviousOK(n, place)
  BY Pointers DEF InQueue, Sorted, LiveIn
<1>2. CASE previous = 0 /\ nxt = 0
  <2>1. LiveIn(n) = {}
    BY <1>1, <1>2 DEF Gap, EndsOK
  <2> QED
    BY <1>2, <2>1 DEF GapAt
<1>3. CASE previous = 0 /\ nxt # 0
  <2>1. nxt \in LiveIn(n) /\ IsFirst(n, place, nxt)
    BY <1>1, <1>3 DEF Gap, EndsOK
  <2>2. GapAt(q, n, place, previous, nxt, b) /\ b \in Nat
    BY <1>1, <1>3, <2>1 DEF GapAt, IsFirst
  <2> QED
    BY <2>2
<1>4. CASE previous # 0 /\ nxt = 0
  <2>1. previous \in LiveIn(n) /\ IsLast(n, place, previous)
    BY <1>1, <1>4 DEF Gap, NextOK
  <2>2. GapAt(q, n, place, previous, nxt, b) /\ b \in Nat
    BY <1>1, <1>4, <2>1 DEF GapAt, IsLast
  <2> QED
    BY <2>2
<1>5. CASE previous # 0 /\ nxt # 0
  <2>1. previous \in LiveIn(n) /\ Follows(n, place, previous, nxt)
    BY <1>1, <1>5 DEF Gap, NextOK
  <2>2. GapAt(q, n, place, previous, nxt, b) /\ b \in Nat
    BY <1>1, <1>5, <2>1 DEF GapAt, Follows
  <2> QED
    BY <2>2
<1> QED
  BY <1>2, <1>3, <1>4, <1>5

\* A withdrawal that is linked into a gap that it fits in is in the queue, and
\* the others stay what they were.
LEMMA Inserted ==
  ASSUME NEW q, NEW n, NEW place, InQueue(q, n, place),
         NEW id \in WithdrawalId, id \notin LiveIn(n), NEW node \in QueueNode,
         node.amount # 0, Gap(q, n, node.previous, node.next, node.claimableAt)
  PROVE  /\ \E after : InQueue(LinkedEnds(q, id, node), LinkedNodes(n, id, node), after)
         /\ LiveIn(LinkedNodes(n, id, node)) = LiveIn(n) \cup {id}
         /\ LinkedNodes(n, id, node)[id] = node
         /\ \A i \in LiveIn(n) :
              /\ LinkedNodes(n, id, node)[i].amount = n[i].amount
              /\ LinkedNodes(n, id, node)[i].claimableAt = n[i].claimableAt
<1> DEFINE m == LinkedNodes(n, id, node)
           r == LinkedEnds(q, id, node)
           previous == node.previous
           nxt == node.next
           at == node.claimableAt
<1>1. PICK b \in Nat : GapAt(q, n, place, previous, nxt, b)
  BY GapPlace
<1> DEFINE after == [i \in Pointer |->
             IF i = id THEN b ELSE IF b <= place[i] THEN place[i] + 1 ELSE place[i]]
<1>2. /\ q \in Ends /\ n \in [Pointer -> QueueNode] /\ place \in [Pointer -> Nat]
      /\ id \in Pointer /\ id # 0 /\ previous \in Pointer /\ nxt \in Pointer
      /\ LiveIn(n) \subseteq WithdrawalId /\ at \in Time
      /\ \A j \in LiveIn(n) : place[j] \in Nat /\ j # 0 /\ j # id /\ j \in Pointer
  BY Pointers, QueueNodeFields DEF InQueue, LiveIn
<1>3. /\ Sorted(n, place) /\ EndsOK(q, n, place) /\ NextOK(n, place)
      /\ PreviousOK(n, place) /\ DeadOK(n)
  BY DEF InQueue
<1>4. m[id] = node /\ m[0] = NoNode
  BY <1>2, Pointers DEF LinkedNodes
<1>5. ASSUME NEW i \in Pointer, i # 0, i # id
      PROVE  /\ m[i] \in QueueNode
             /\ m[i].amount = n[i].amount /\ m[i].claimableAt = n[i].claimableAt
             /\ m[i].next = IF i = previous THEN id ELSE n[i].next
             /\ m[i].previous = IF i = nxt THEN id ELSE n[i].previous
  <2> DEFINE x == n[i]
             p == IF i = previous THEN id ELSE x.next
             o == IF i = nxt THEN id ELSE x.previous
  <2>1. x \in QueueNode
    BY <1>2
  <2>2. m[i] = [x EXCEPT !.next = p, !.previous = o]
    BY <1>5 DEF LinkedNodes
  <2> HIDE DEF m, x
  <2>3. p \in Pointer /\ o \in Pointer
    BY <1>2, <2>1, QueueNodeFields
  <2> HIDE DEF p, o
  <2>4. /\ m[i] \in QueueNode /\ m[i].amount = x.amount /\ m[i].claimableAt = x.claimableAt
        /\ m[i].next = p /\ m[i].previous = o
    BY <2>1, <2>2, <2>3 DEF QueueNode
  <2> QED
    BY <2>4 DEF x, p, o
<1>6. m \in [Pointer -> QueueNode]
  <2>1. \A i \in Pointer : m[i] \in QueueNode
    BY <1>4, <1>5, Pointers
  <2>2. m = [i \in Pointer |-> m[i]]
    BY DEF LinkedNodes
  <2> HIDE DEF m
  <2> QED
    BY <2>1, <2>2
<1>7. r \in Ends /\ r.head = (IF previous = 0 THEN id ELSE q.head)
      /\ r.tail = (IF nxt = 0 THEN id ELSE q.tail)
  BY <1>2 DEF LinkedEnds, Ends
<1> HIDE DEF m, r, previous, nxt, at
<1>8. LiveIn(m) = LiveIn(n) \cup {id}
  <2>1. ASSUME NEW i \in WithdrawalId
        PROVE  m[i].amount # 0 <=> i = id \/ n[i].amount # 0
    <3>1. i \in Pointer /\ i # 0
      BY Pointers
    <3> QED
      BY <1>4, <1>5, <3>1
  <2> QED
    BY <1>2, <2>1 DEF LiveIn
<1>9. /\ after \in [Pointer -> Nat] /\ after[id] = b
      /\ \A i \in LiveIn(n) : /\ b <= place[i] => after[i] = place[i] + 1
                              /\ place[i] < b => after[i] = place[i]
  BY <1>2
<1> HIDE DEF after
<1>10. ASSUME NEW i \in LiveIn(n)
       PROVE  /\ place[i] \in Nat /\ after[i] \in Nat /\ i # 0 /\ i # id
              /\ after[i] # b /\ (after[i] < b <=> place[i] < b)
              /\ \A j \in LiveIn(n) : after[i] < after[j] <=> place[i] < place[j]
              /\ \A j \in LiveIn(n) : after[i] = after[j] <=> place[i] = place[j]
  BY <1>2, <1>9
<1>11. Sorted(m, after)
  <2>1. \A i, j \in LiveIn(m) : after[i] = after[j] => i = j
    BY <1>3, <1>8, <1>9, <1>10 DEF Sorted
  <2>2. \A i \in LiveIn(n) : m[i].claimableAt = n[i].claimableAt /\ n[i].claimableAt \in Int
    <3> TAKE i \in LiveIn(n)
    <3>1. n[i].claimableAt \in Time
      BY <1>2, QueueNodeFields
    <3> QED
      BY <1>2, <1>5, <3>1, StakingAssumption DEF Time
  <2>3. \A i \in LiveIn(n) : b <= place[i] => n[i].claimableAt <= at
    <3> SUFFICES ASSUME NEW i \in LiveIn(n), b <= place[i]
                 PROVE  n[i].claimableAt <= at
      OBVIOUS
    <3>1. /\ previous # 0 /\ previous \in LiveIn(n) /\ place[previous] <= place[i]
          /\ n[previous].claimableAt <= at
      BY <1>1 DEF GapAt, Gap, previous, at
    <3>2. n[i].claimableAt <= n[previous].claimableAt
      BY <1>3, <1>10, <2>2, <3>1 DEF Sorted
    <3>3. at \in Int
      BY <1>2, StakingAssumption DEF Time
    <3> QED
      BY <2>2, <3>1, <3>2, <3>3
  <2>4. \A i \in LiveIn(n) : place[i] < b => at <= n[i].claimableAt
    <3> SUFFICES ASSUME NEW i \in LiveIn(n), place[i] < b
                 PROVE  at <= n[i].claimableAt
      OBVIOUS
    <3>1. /\ nxt # 0 /\ nxt \in LiveIn(n) /\ place[i] <= place[nxt]
          /\ at <= n[nxt].claimableAt
      BY <1>1 DEF GapAt, Gap, nxt, at
    <3>2. n[nxt].claimableAt <= n[i].claimableAt
      BY <1>3, <1>10, <2>2, <3>1 DEF Sorted
    <3>3. at \in Int
      BY <1>2, StakingAssumption DEF Time
    <3> QED
      BY <2>2, <3>1, <3>2, <3>3
  <2>5. m[id].claimableAt = at
    BY <1>4 DEF at
  <2>6. ASSUME NEW i \in LiveIn(m), NEW j \in LiveIn(m), after[j] < after[i]
        PROVE  m[i].claimableAt <= m[j].claimableAt
    <3>1. CASE i = id /\ j = id
      BY <1>9, <2>6, <3>1
    <3>2. CASE i = id /\ j # id
      BY <1>8, <1>9, <1>10, <2>2, <2>4, <2>5, <2>6, <3>2
    <3>3. CASE i # id /\ j = id
      <4>1. b <= place[i]
        BY <1>8, <1>9, <1>10, <2>6, <3>3
      <4> QED
        BY <1>8, <2>2, <2>3, <2>5, <3>3, <4>1
    <3>4. CASE i # id /\ j # id
      BY <1>3, <1>8, <1>10, <2>2, <2>6, <3>4 DEF Sorted
    <3> QED
      BY <3>1, <3>2, <3>3, <3>4
  <2> QED
    BY <2>1, <2>6 DEF Sorted
<1> USE <1>2, <1>8, <1>9, <1>10
<1>12. ASSUME NEW i \in LiveIn(n), NEW j \in LiveIn(n), Follows(n, place, i, j),
              ~(i = previous /\ j = nxt)
       PROVE  Follows(m, after, i, j)
  <2>1. ~(after[j] < b /\ b < after[i])
    <3> SUFFICES ASSUME place[j] < b, b <= place[i] PROVE FALSE
      OBVIOUS
    <3>1. /\ nxt \in LiveIn(n) /\ place[j] <= place[nxt] /\ place[nxt] < b
          /\ previous \in LiveIn(n) /\ place[previous] <= place[i] /\ b <= place[previous]
      BY <1>1 DEF GapAt
    <3>2. place[nxt] = place[j] /\ place[previous] = place[i]
      BY <1>12, <3>1 DEF Follows
    <3> QED
      BY <1>3, <1>12, <3>1, <3>2 DEF Sorted
  <2> QED
    BY <1>12, <2>1 DEF Follows
<1>13. previous # 0 => Follows(m, after, previous, id)
  BY <1>1 DEF GapAt, Follows
<1>14. nxt # 0 => Follows(m, after, id, nxt)
  BY <1>1 DEF GapAt, Follows
<1>15. /\ previous = 0 => IsFirst(m, after, id)
       /\ nxt = 0 => IsLast(m, after, id)
  BY <1>1 DEF GapAt, IsFirst, IsLast
<1>16. ASSUME NEW i \in LiveIn(n)
       PROVE  /\ IsFirst(n, place, i) /\ previous # 0 => IsFirst(m, after, i)
              /\ IsLast(n, place, i) /\ nxt # 0 => IsLast(m, after, i)
  BY <1>1 DEF GapAt, IsFirst, IsLast
<1>17. /\ previous = 0 => nxt = q.head
       /\ previous # 0 => nxt = n[previous].next
       /\ previous # 0 => previous \in LiveIn(n)
       /\ nxt # 0 => nxt \in LiveIn(n)
       /\ nxt = 0 => previous = q.tail
       /\ nxt # 0 => previous = n[nxt].previous
  <2>1. /\ previous = 0 => nxt = q.head
        /\ previous # 0 => nxt = n[previous].next
        /\ previous # 0 => previous \in LiveIn(n)
        /\ nxt # 0 => nxt \in LiveIn(n)
    BY <1>1 DEF Gap, GapAt, previous, nxt
  <2>2. ASSUME previous # 0
        PROVE  /\ nxt = 0 => previous = q.tail
               /\ nxt # 0 => previous = n[nxt].previous
    BY <2>1, <2>2, LinksMirror
  <2>3. ASSUME previous = 0
        PROVE  /\ nxt = 0 => previous = q.tail
               /\ nxt # 0 => previous = n[nxt].previous
    <3>1. ASSUME nxt = 0 PROVE q.tail = 0
      <4>1. LiveIn(n) = {}
        BY <1>3, <2>1, <2>3, <3>1 DEF EndsOK
      <4> QED
        BY <1>3, <4>1 DEF EndsOK
    <3>2. ASSUME nxt # 0 PROVE n[nxt].previous = 0
      BY <2>1, <2>3, <3>2, LinksMirror
    <3> QED
      BY <2>3, <3>1, <3>2
  <2> QED
    BY <2>1, <2>2, <2>3
<1>18. EndsOK(r, m, after)
  <2>1. CASE previous = 0
    <3>1. r.head = id /\ IsFirst(m, after, id)
      BY <1>7, <1>15, <2>1
    <3>2. CASE nxt = 0
      BY <1>7, <1>15, <3>1, <3>2 DEF EndsOK
    <3>3. CASE nxt # 0
      <4>1. q.tail # 0 /\ q.tail \in LiveIn(n) /\ IsLast(n, place, q.tail)
        BY <1>3, <1>17, <3>3 DEF EndsOK
      <4> QED
        BY <1>7, <1>16, <3>1, <3>3, <4>1 DEF EndsOK
    <3> QED
      BY <3>2, <3>3
  <2>2. CASE previous # 0
    <3>1. q.head # 0 /\ q.head \in LiveIn(n) /\ IsFirst(n, place, q.head)
      BY <1>3, <1>17, <2>2 DEF EndsOK
    <3>2. r.head = q.head /\ IsFirst(m, after, q.head)
      BY <1>7, <1>16, <2>2, <3>1
    <3>3. CASE nxt = 0
      BY <1>7, <1>15, <3>1, <3>2, <3>3 DEF EndsOK
    <3>4. CASE nxt # 0
      <4>1. q.tail # 0 /\ q.tail \in LiveIn(n) /\ IsLast(n, place, q.tail)
        BY <1>3, <1>17, <3>4 DEF EndsOK
      <4> QED
        BY <1>7, <1>16, <3>1, <3>2, <3>4, <4>1 DEF EndsOK
    <3> QED
      BY <3>3, <3>4
  <2> QED
    BY <2>1, <2>2
<1>19. NextOK(m, after)
  <2> SUFFICES ASSUME NEW i \in LiveIn(m)
               PROVE  IF m[i].next = 0 THEN IsLast(m, after, i)
                      ELSE Follows(m, after, i, m[i].next)
    BY DEF NextOK
  <2>1. CASE i = id
    BY <1>4, <1>14, <1>15, <2>1 DEF nxt
  <2>2. CASE i # id /\ i = previous
    BY <1>5, <1>13, <2>2
  <2>3. CASE i # id /\ i # previous
    <3>1. i \in LiveIn(n) /\ m[i].next = n[i].next
      BY <1>5, <2>3
    <3>2. CASE n[i].next = 0
      <4>1. IsLast(n, place, i)
        BY <1>3, <3>1, <3>2 DEF NextOK
      <4>2. i = q.tail
        BY <3>1, <3>2, LinksMirror
      <4>3. nxt # 0
        BY <1>17, <2>3, <4>2
      <4> QED
        BY <1>16, <3>1, <3>2, <4>1, <4>3
    <3>3. CASE n[i].next # 0
      <4>1. Follows(n, place, i, n[i].next) /\ n[i].next \in LiveIn(n)
        BY <1>3, <3>1, <3>3 DEF NextOK, Follows
      <4> QED
        BY <1>12, <2>3, <3>1, <3>3, <4>1
    <3> QED
      BY <3>2, <3>3
  <2> QED
    BY <2>1, <2>2, <2>3
<1>20. PreviousOK(m, after)
  <2> SUFFICES ASSUME NEW i \in LiveIn(m)
               PROVE  IF m[i].previous = 0 THEN IsFirst(m, after, i)
                      ELSE Follows(m, after, m[i].previous, i)
    BY DEF PreviousOK
  <2>1. CASE i = id
    BY <1>4, <1>13, <1>15, <2>1 DEF previous
  <2>2. CASE i # id /\ i = nxt
    BY <1>5, <1>14, <2>2
  <2>3. CASE i # id /\ i # nxt
    <3>1. i \in LiveIn(n) /\ m[i].previous = n[i].previous
      BY <1>5, <2>3
    <3>2. CASE n[i].previous = 0
      <4>1. IsFirst(n, place, i)
        BY <1>3, <3>1, <3>2 DEF PreviousOK
      <4>2. i = q.head
        BY <3>1, <3>2, LinksMirror
      <4>3. previous # 0
        BY <1>17, <2>3, <4>2
      <4> QED
        BY <1>16, <3>1, <3>2, <4>1, <4>3
    <3>3. CASE n[i].previous # 0
      <4>1. Follows(n, place, n[i].previous, i) /\ n[i].previous \in LiveIn(n)
        BY <1>3, <3>1, <3>3 DEF PreviousOK, Follows
      <4> QED
        BY <1>12, <2>3, <3>1, <3>3, <4>1
    <3> QED
      BY <3>2, <3>3
  <2> QED
    BY <2>1, <2>2, <2>3
<1>21. DeadOK(m)
  <2> SUFFICES ASSUME NEW i \in Pointer, i \notin LiveIn(m)
               PROVE  m[i] = NoNode
    BY DEF DeadOK
  <2>1. CASE i = 0
    BY <1>4, <2>1
  <2>2. CASE i # 0
    <3>1. n[i] = NoNode /\ i # id /\ i # previous /\ i # nxt
      BY <1>3, <1>17, <2>2 DEF DeadOK
    <3>2. m[i] = [n[i] EXCEPT !.next = IF i = previous THEN id ELSE @,
                              !.previous = IF i = nxt THEN id ELSE @]
      BY <2>2, <3>1 DEF m, LinkedNodes, previous, nxt
    <3>3. m[i] = [NoNode EXCEPT !.next = NoNode.next, !.previous = NoNode.previous]
      BY <3>1, <3>2
    <3> QED
      BY <3>3 DEF NoNode
  <2> QED
    BY <2>1, <2>2
<1>22. InQueue(r, m, after)
  BY <1>6, <1>7, <1>11, <1>18, <1>19, <1>20, <1>21 DEF InQueue
<1> QED
  BY <1>4, <1>5, <1>22 DEF m, r
\* Every set of natural numbers that is not empty has a smallest member.
LEMMA NatWellOrdered ==
  ASSUME NEW T, T \subseteq Nat, T # {}
  PROVE  \E x \in T : \A y \in T : x <= y
<1> DEFINE R == {ss \in Nat \X Nat : ss[1] < ss[2]}
<1>1. IsWellFoundedOn(R, Nat)
  BY NatLessThanWellFounded DEF OpToRel
<1>2. PICK x \in T : \A y \in T : ~(<<y, x>> \in R)
  BY <1>1, WFMin
<1>3. \A y \in T : x <= y
  <2> TAKE y \in T
  <2>1. ~(y < x) /\ x \in Nat /\ y \in Nat
    BY <1>2
  <2> QED
    BY <2>1
<1> QED
  BY <1>3

\* What UnlinkHead makes of the nodes and the ends of a queue.
UnlinkedNodes(q, n) ==
  [i \in Pointer |->
     CASE i = q.head -> NoNode
       [] i = n[q.head].next /\ i # q.head -> [n[i] EXCEPT !.previous = 0]
       [] OTHER -> n[i]]

UnlinkedEnds(q, n) ==
  IF n[q.head].next = 0 THEN [head |-> 0, tail |-> 0]
  ELSE [q EXCEPT !.head = n[q.head].next]

\* A queue that loses its head stays a queue of the others.
LEMMA Removed ==
  ASSUME NEW q, NEW n, NEW place, InQueue(q, n, place), q.head # 0
  PROVE  /\ InQueue(UnlinkedEnds(q, n), UnlinkedNodes(q, n), place)
         /\ q.head \in LiveIn(n)
         /\ LiveIn(UnlinkedNodes(q, n)) = LiveIn(n) \ {q.head}
         /\ \A i \in LiveIn(n) \ {q.head} :
              /\ UnlinkedNodes(q, n)[i].amount = n[i].amount
              /\ UnlinkedNodes(q, n)[i].claimableAt = n[i].claimableAt
         /\ \A i \in LiveIn(n) : n[q.head].claimableAt <= n[i].claimableAt
<1> DEFINE m == UnlinkedNodes(q, n)
           r == UnlinkedEnds(q, n)
           h == q.head
           k == n[h].next
<1>1. /\ q \in Ends /\ n \in [Pointer -> QueueNode] /\ place \in [Pointer -> Nat]
      /\ LiveIn(n) \subseteq WithdrawalId
      /\ \A j \in LiveIn(n) : place[j] \in Nat /\ j # 0 /\ j \in Pointer
      /\ \A i, j \in LiveIn(n) : place[i] = place[j] => i = j
      /\ Sorted(n, place) /\ EndsOK(q, n, place) /\ NextOK(n, place)
      /\ PreviousOK(n, place) /\ DeadOK(n)
  BY Pointers DEF InQueue, Sorted, LiveIn
<1>2. h \in LiveIn(n) /\ IsFirst(n, place, h) /\ q.tail \in Pointer
  BY <1>1 DEF EndsOK, Ends
<1>3. /\ k # 0 => Follows(n, place, h, k) /\ k \in LiveIn(n) /\ k # h
      /\ k = 0 => LiveIn(n) = {h}
  <2>1. CASE k # 0
    BY <1>1, <1>2, <2>1 DEF NextOK, Follows
  <2>2. CASE k = 0
    <3>1. IsLast(n, place, h)
      BY <1>1, <1>2, <2>2 DEF NextOK
    <3> QED
      BY <1>1, <1>2, <2>2, <3>1 DEF IsFirst, IsLast
  <2> QED
    BY <2>1, <2>2
<1>4. ASSUME NEW i \in Pointer
      PROVE  /\ i = h => m[i] = NoNode
             /\ i # h /\ i = k => m[i] = [n[i] EXCEPT !.previous = 0]
             /\ i # h /\ i # k => m[i] = n[i]
  BY DEF UnlinkedNodes
<1>5. m = [i \in Pointer |-> m[i]]
  BY DEF UnlinkedNodes
<1>6. r = IF k = 0 THEN [head |-> 0, tail |-> 0] ELSE [q EXCEPT !.head = k]
  BY DEF UnlinkedEnds
<1> HIDE DEF m, r, k
<1>7. ASSUME NEW i \in Pointer, i # h
      PROVE  /\ m[i] \in QueueNode
             /\ m[i].amount = n[i].amount /\ m[i].claimableAt = n[i].claimableAt
             /\ m[i].next = n[i].next
             /\ m[i].previous = IF i = k THEN 0 ELSE n[i].previous
  <2>1. n[i] \in QueueNode
    BY <1>1
  <2>2. CASE i = k
    <3>1. m[i] = [n[i] EXCEPT !.previous = 0]
      BY <1>4, <1>7, <2>2
    <3>2. 0 \in Pointer
      BY Pointers
    <3> QED
      BY <2>1, <2>2, <3>1, <3>2 DEF QueueNode
  <2>3. CASE i # k
    BY <1>4, <1>7, <2>1, <2>3
  <2> QED
    BY <2>2, <2>3
<1>8. m \in [Pointer -> QueueNode]
  <2>1. \A i \in Pointer : m[i] \in QueueNode
    BY <1>4, <1>7, Pointers
  <2> QED
    BY <1>5, <2>1
<1>9. LiveIn(m) = LiveIn(n) \ {h}
  <2>1. ASSUME NEW i \in WithdrawalId
        PROVE  m[i].amount # 0 <=> i # h /\ n[i].amount # 0
    <3>1. i \in Pointer
      BY Pointers
    <3> QED
      BY <1>4, <1>7, <3>1, Pointers
  <2> QED
    BY <2>1 DEF LiveIn
<1>10. r \in Ends
  BY <1>1, <1>3, <1>6, Pointers DEF Ends
<1>11. Sorted(m, place)
  BY <1>1, <1>7, <1>9 DEF Sorted
<1>12. ASSUME NEW i \in LiveIn(m)
       PROVE  /\ IsFirst(n, place, i) => FALSE
              /\ IsLast(n, place, i) => IsLast(m, place, i)
              /\ \A j \in LiveIn(m) : Follows(n, place, i, j) => Follows(m, place, i, j)
              /\ i = k => IsFirst(m, place, i)
  BY <1>1, <1>2, <1>3, <1>9 DEF IsFirst, IsLast, Follows
<1>13. EndsOK(r, m, place)
  <2>1. CASE k = 0
    BY <1>3, <1>6, <1>9, <2>1 DEF EndsOK
  <2>2. CASE k # 0
    <3>1. r.head = k /\ r.tail = q.tail
      BY <1>1, <1>6, <2>2 DEF Ends
    <3>2. k \in LiveIn(m) /\ IsFirst(m, place, k)
      BY <1>3, <1>9, <1>12, <2>2
    <3>3. q.tail # 0 /\ q.tail \in LiveIn(n) /\ IsLast(n, place, q.tail)
      BY <1>1, <1>2 DEF EndsOK
    <3>4. q.tail # h
      BY <1>1, <1>2, <1>3, <2>2, <3>3 DEF IsLast, Follows
    <3>5. q.tail \in LiveIn(m) /\ IsLast(m, place, q.tail)
      BY <1>9, <1>12, <3>3, <3>4
    <3> QED
      BY <2>2, <3>1, <3>2, <3>3, <3>5 DEF EndsOK
  <2> QED
    BY <2>1, <2>2
<1>14. NextOK(m, place)
  <2> SUFFICES ASSUME NEW i \in LiveIn(m)
               PROVE  IF m[i].next = 0 THEN IsLast(m, place, i)
                      ELSE Follows(m, place, i, m[i].next)
    BY DEF NextOK
  <2>1. i \in LiveIn(n) /\ i # h /\ m[i].next = n[i].next
    BY <1>1, <1>7, <1>9
  <2>2. CASE n[i].next = 0
    BY <1>1, <1>12, <2>1, <2>2 DEF NextOK
  <2>3. CASE n[i].next # 0
    <3>1. Follows(n, place, i, n[i].next)
      BY <1>1, <2>1, <2>3 DEF NextOK
    <3>2. n[i].next \in LiveIn(n) /\ n[i].next # h
      BY <1>1, <1>2, <2>1, <3>1 DEF Follows, IsFirst
    <3> QED
      BY <1>9, <1>12, <2>1, <2>3, <3>1, <3>2
  <2> QED
    BY <2>2, <2>3
<1>15. PreviousOK(m, place)
  <2> SUFFICES ASSUME NEW i \in LiveIn(m)
               PROVE  IF m[i].previous = 0 THEN IsFirst(m, place, i)
                      ELSE Follows(m, place, m[i].previous, i)
    BY DEF PreviousOK
  <2>1. i \in LiveIn(n) /\ i # h /\ m[i].previous = IF i = k THEN 0 ELSE n[i].previous
    BY <1>1, <1>7, <1>9
  <2>2. CASE i = k
    BY <1>12, <2>1, <2>2
  <2>3. CASE i # k
    <3>1. n[i].previous # 0
      BY <1>1, <1>12, <2>1 DEF PreviousOK
    <3>2. Follows(n, place, n[i].previous, i) /\ n[i].previous \in LiveIn(n)
      BY <1>1, <2>1, <3>1 DEF PreviousOK, Follows
    <3>3. n[i].previous # h
      BY <1>2, <2>1, <2>3, <3>1, LinksMirror DEF k
    <3> QED
      BY <1>9, <1>12, <2>1, <2>3, <3>1, <3>2, <3>3
  <2> QED
    BY <2>2, <2>3
<1>16. DeadOK(m)
  <2> SUFFICES ASSUME NEW i \in Pointer, i \notin LiveIn(m)
               PROVE  m[i] = NoNode
    BY DEF DeadOK
  <2>1. CASE i = h
    BY <1>4, <2>1
  <2>2. CASE i # h
    <3>1. n[i] = NoNode /\ i \notin LiveIn(n)
      BY <1>1, <1>9, <2>2 DEF DeadOK
    <3>2. CASE i = k
      <4>1. m[i] = [NoNode EXCEPT !.previous = NoNode.previous]
        BY <1>4, <2>2, <3>1, <3>2, Pointers
      <4> QED
        BY <4>1 DEF NoNode
    <3>3. CASE i # k
      BY <1>4, <2>2, <3>1, <3>3
    <3> QED
      BY <3>2, <3>3
  <2> QED
    BY <2>1, <2>2
<1>17. \A i \in LiveIn(n) : n[h].claimableAt <= n[i].claimableAt
  <2> TAKE i \in LiveIn(n)
  <2>1. n[h].claimableAt \in Int
    <3>1. n[h].claimableAt \in Time
      BY <1>1, <1>2, QueueNodeFields
    <3> QED
      BY <3>1, StakingAssumption DEF Time
  <2>2. CASE i = h
    BY <2>1, <2>2
  <2>3. CASE i # h
    BY <1>1, <1>2, <2>3 DEF IsFirst, Sorted
  <2> QED
    BY <2>2, <2>3
<1>18. InQueue(r, m, place)
  BY <1>1, <1>8, <1>10, <1>11, <1>13, <1>14, <1>15, <1>16 DEF InQueue
<1> QED
  BY <1>1, <1>2, <1>7, <1>9, <1>17, <1>18 DEF m, r

-----------------------------------------------------------------------------
\* The loop of initiateWithdrawal ends in the queue, or at its end, and all
\* that is behind is claimable later.
LEMMA WalkedGap ==
  ASSUME NEW q, NEW n, NEW place, InQueue(q, n, place),
         NEW walked \in SUBSET WithdrawalId, NEW current \in Pointer, NEW at \in Int,
         n[current].claimableAt <= at, q.tail \in walked \cup {current},
         \A i \in walked : /\ n[i].claimableAt > at
                           /\ n[i].previous \in walked \cup {current}
  PROVE  Gap(q, n, current, CASE current = q.tail -> 0
                              [] current = 0 -> q.head
                              [] OTHER -> n[current].next, at)
<1> DEFINE nxt == CASE current = q.tail -> 0
                    [] current = 0 -> q.head
                    [] OTHER -> n[current].next
           T == {place[i] : i \in LiveIn(n) \ walked}
<1>1. /\ n \in [Pointer -> QueueNode] /\ 0 \notin walked
      /\ \A j \in LiveIn(n) : place[j] \in Nat /\ j # 0 /\ j \in Pointer
      /\ \A i, j \in LiveIn(n) : place[i] = place[j] => i = j
      /\ EndsOK(q, n, place) /\ NextOK(n, place) /\ PreviousOK(n, place)
  BY Pointers DEF InQueue, Sorted, LiveIn
<1>2. \A i \in walked : at <= n[i].claimableAt
  <2> TAKE i \in walked
  <2>1. n[i].claimableAt \in Int
    <3>1. n[i].claimableAt \in Time
      BY <1>1, Pointers, QueueNodeFields
    <3> QED
      BY <3>1, StakingAssumption DEF Time
  <2> QED
    BY <2>1
<1>3. CASE LiveIn(n) \subseteq walked
  <2>1. current \notin LiveIn(n)
    <3>1. ASSUME current \in LiveIn(n) PROVE FALSE
      <4>1. n[current].claimableAt > at /\ n[current].claimableAt \in Time
        BY <1>1, <1>3, <3>1, QueueNodeFields
      <4> QED
        BY <4>1, StakingAssumption DEF Time
    <3> QED
      BY <3>1
  <2>2. CASE LiveIn(n) = {}
    <3>1. q.tail = 0 /\ q.head = 0
      BY <1>1, <2>2 DEF EndsOK
    <3>2. current = 0
      BY <1>1, <3>1
    <3> QED
      BY <3>1, <3>2 DEF Gap
  <2>3. CASE LiveIn(n) # {}
    <3>1. q.head # 0 /\ q.head \in LiveIn(n) /\ q.tail # 0
      BY <1>1, <2>3 DEF EndsOK
    <3>2. n[q.head].previous = 0
      BY <3>1, LinksMirror
    <3>3. current = 0
      BY <1>1, <1>3, <3>1, <3>2
    <3>4. nxt = q.head
      BY <3>1, <3>3
    <3> QED
      BY <1>2, <1>3, <3>1, <3>3, <3>4 DEF Gap
  <2> QED
    BY <2>2, <2>3
<1>4. CASE ~(LiveIn(n) \subseteq walked)
  <2>1. T \subseteq Nat /\ T # {}
    BY <1>1, <1>4
  <2>2. PICK x \in T : \A y \in T : x <= y
    BY <2>1, NatWellOrdered
  <2>3. PICK i \in LiveIn(n) \ walked : x = place[i]
    BY <2>2
  <2>4. \A j \in LiveIn(n) : place[j] < place[i] => j \in walked
    <3> SUFFICES ASSUME NEW j \in LiveIn(n), place[j] < place[i], j \notin walked
                 PROVE  FALSE
      OBVIOUS
    <3>1. place[i] <= place[j]
      BY <2>2, <2>3
    <3> QED
      BY <1>1, <2>3, <3>1
  <2> HIDE DEF T
  <2>5. i = current
    <3>1. CASE n[i].next = 0
      BY <2>3, <3>1, LinksMirror
    <3>2. CASE n[i].next # 0
      <4> DEFINE j == n[i].next
      <4>1. Follows(n, place, i, j) /\ n[j].previous = i
        BY <1>1, <2>3, <3>2, LinksMirror DEF NextOK
      <4>2. j \in walked
        BY <2>4, <4>1 DEF Follows
      <4> QED
        BY <2>3, <4>1, <4>2
    <3> QED
      BY <3>1, <3>2
  <2>6. current # 0 /\ current \in LiveIn(n)
    BY <1>1, <2>3, <2>5
  <2>7. nxt = n[current].next
    BY <2>6, LinksMirror
  <2>8. nxt # 0 => at <= n[nxt].claimableAt
    <3>1. ASSUME nxt # 0 PROVE nxt \in walked
      <4>1. Follows(n, place, i, nxt)
        BY <1>1, <2>3, <2>5, <2>7, <3>1 DEF NextOK
      <4> QED
        BY <2>4, <4>1 DEF Follows
    <3> HIDE DEF nxt
    <3> QED
      BY <1>2, <3>1
  <2> QED
    BY <2>6, <2>7, <2>8 DEF Gap
<1> QED
  BY <1>3, <1>4
-----------------------------------------------------------------------------
(* Sums.  SumFunction adds up the values of a function over the subsets of *)
(* its domain, taking out the member that CHOOSE names.  What it computes  *)
(* is found by induction over finite sets, for which a set of good subsets *)
(* stands for the predicate.                                               *)

LEMMA SubsetInduction ==
  ASSUME NEW S, IsFiniteSet(S), NEW Good,
         \A T \in SUBSET S : (\A U \in SUBSET T : U # T => U \in Good) => T \in Good
  PROVE  SUBSET S \subseteq Good
<1> SUFFICES ASSUME NEW X \in SUBSET S, X \notin Good PROVE FALSE
  OBVIOUS
<1> DEFINE Bad == {U \in SUBSET S : U \notin Good}
           C == {Cardinality(U) : U \in Bad}
<1>1. \A U \in SUBSET S : IsFiniteSet(U) /\ Cardinality(U) \in Nat
  BY FS_Subset, FS_CardinalityType
<1>2. C \subseteq Nat /\ C # {}
  BY <1>1
<1>3. PICK c \in C : \A y \in C : c <= y
  BY <1>2, NatWellOrdered
<1>4. PICK T \in Bad : c = Cardinality(T)
  BY <1>3
<1>5. ASSUME NEW U \in SUBSET T, U # T
      PROVE  U \in Good
  <2>1. Cardinality(U) <= Cardinality(T) /\ Cardinality(U) # Cardinality(T)
    BY <1>1, <1>4, <1>5, FS_Subset
  <2>2. U \in SUBSET S /\ Cardinality(U) \in Nat /\ Cardinality(T) \in Nat
    BY <1>1, <1>4
  <2>3. ASSUME U \in Bad PROVE FALSE
    <3>1. Cardinality(T) <= Cardinality(U)
      BY <1>3, <1>4, <2>3
    <3> QED
      BY <2>1, <2>2, <3>1
  <2> QED
    BY <2>2, <2>3
<1> QED
  BY <1>4, <1>5

\* The member that is taken out, and what is left.
Pick(T) == CHOOSE x \in T : TRUE
Rest(T) == T \ {Pick(T)}

IsSum(f, g, S) ==
  g = [T \in SUBSET S |-> IF T = {} THEN 0 ELSE f[Pick(T)] + g[Rest(T)]]

LEMMA RestParts ==
  ASSUME NEW T, T # {}
  PROVE  Pick(T) \in T /\ Rest(T) \in SUBSET T /\ Rest(T) # T
         /\ Pick(T) \notin Rest(T) /\ T = Rest(T) \cup {Pick(T)}
BY DEF Pick, Rest

LEMMA SumValue ==
  ASSUME NEW f, NEW g, NEW S, IsSum(f, g, S), NEW T \in SUBSET S
  PROVE  /\ T = {} => g[T] = 0
         /\ T # {} => g[T] = f[Pick(T)] + g[Rest(T)]
<1>1. g[T] = IF T = {} THEN 0 ELSE f[Pick(T)] + g[Rest(T)]
  BY Zenon DEF IsSum
<1> QED
  BY <1>1

LEMMA SumUnique ==
  ASSUME NEW f, NEW g, NEW h, NEW S, IsFiniteSet(S), NEW U \in SUBSET S,
         IsSum(f, g, S), IsSum(f, h, U)
  PROVE  g[U] = h[U]
<1> DEFINE Good == {T \in SUBSET U : g[T] = h[T]}
<1>1. ASSUME NEW T \in SUBSET U, \A V \in SUBSET T : V # T => V \in Good
      PROVE  T \in Good
  <2>1. CASE T = {}
    BY <2>1, SumValue
  <2>2. CASE T # {}
    <3>1. Rest(T) \in Good
      BY <1>1, <2>2, RestParts
    <3>2. g[T] = f[Pick(T)] + g[Rest(T)] /\ h[T] = f[Pick(T)] + h[Rest(T)]
      BY <2>2, SumValue
    <3> QED
      BY <3>1, <3>2
  <2> QED
    BY <2>1, <2>2
<1>2. IsFiniteSet(U)
  BY FS_Subset
<1>3. SUBSET U \subseteq Good
  <2> HIDE DEF Good
  <2> QED
    BY <1>1, <1>2, SubsetInduction
<1> QED
  BY <1>3

LEMMA SumExists ==
  ASSUME NEW f, NEW S, IsFiniteSet(S)
  PROVE  \E g : IsSum(f, g, S)
<1> DEFINE Good == {T \in SUBSET S : \E g : IsSum(f, g, T)}
           R(U) == CHOOSE g : IsSum(f, g, U)
<1>1. ASSUME NEW T \in SUBSET S, \A U \in SUBSET T : U # T => U \in Good
      PROVE  T \in Good
  <2> DEFINE g == [U \in SUBSET T |->
                     IF U = {} THEN 0 ELSE f[Pick(U)] + R(Rest(U))[Rest(U)]]
  <2>1. \A U \in SUBSET T : U # T => IsSum(f, R(U), U)
    <3> TAKE U \in SUBSET T
    <3>1. U # T => \E k : IsSum(f, k, U)
      BY <1>1
    <3> QED
      BY <3>1
  <2> HIDE DEF R
  <2>2. ASSUME NEW U \in SUBSET T, U # {}
        PROVE  g[Rest(U)] = R(Rest(U))[Rest(U)]
    <3> DEFINE V == Rest(U)
    <3>1. V \in SUBSET T /\ V # T
      BY <2>2, RestParts
    <3>2. IsSum(f, R(V), V)
      BY <2>1, <3>1
    <3> HIDE DEF V
    <3>3. CASE V = {}
      <4>1. R(V)[V] = 0
        BY <3>2, <3>3, SumValue
      <4>2. g[V] = 0
        BY <3>1, <3>3
      <4> QED
        BY <4>1, <4>2 DEF V
    <3>4. CASE V # {}
      <4>1. Rest(V) \in SUBSET V /\ Rest(V) # T
        BY <3>1, <3>4, RestParts
      <4>2. IsSum(f, R(Rest(V)), Rest(V))
        BY <2>1, <3>1, <4>1
      <4>3. IsFiniteSet(V)
        BY <3>1, FS_Subset
      <4>4. R(V)[Rest(V)] = R(Rest(V))[Rest(V)]
        BY <3>2, <4>1, <4>2, <4>3, SumUnique
      <4>5. R(V)[V] = f[Pick(V)] + R(V)[Rest(V)]
        BY <3>2, <3>4, SumValue
      <4>6. g[V] = f[Pick(V)] + R(Rest(V))[Rest(V)]
        BY <3>1, <3>4
      <4> QED
        BY <4>4, <4>5, <4>6 DEF V
    <3> QED
      BY <3>3, <3>4
  <2>3. g = [U \in SUBSET T |-> IF U = {} THEN 0 ELSE f[Pick(U)] + g[Rest(U)]]
    <3>1. \A U \in SUBSET T : g[U] = IF U = {} THEN 0 ELSE f[Pick(U)] + g[Rest(U)]
      BY <2>2
    <3>2. g = [U \in SUBSET T |-> g[U]]
      OBVIOUS
    <3> HIDE DEF g
    <3> QED
      BY <3>1, <3>2
  <2> HIDE DEF g
  <2>4. IsSum(f, g, T)
    BY <2>3 DEF IsSum
  <2> QED
    BY <2>4
<1>2. SUBSET S \subseteq Good
  <2> HIDE DEF Good
  <2> QED
    BY <1>1, SubsetInduction
<1> QED
  BY <1>2

LEMMA SumIs ==
  ASSUME NEW f, NEW S, IsFiniteSet(S)
  PROVE  \E g : IsSum(f, g, S) /\ SumFunctionOnSet(f, S) = g[S]
<1> DEFINE iter == CHOOSE g : IsSum(f, g, S)
<1>1. IsSum(f, iter, S)
  BY SumExists
<1>2. SumFunctionOnSet(f, S) = iter[S]
  BY Zenon DEF SumFunctionOnSet, FoldFunctionOnSet, MapThenFoldSet, IsSum, Pick, Rest
<1> QED
  BY <1>1, <1>2
\* A sum of integers is an integer, a sum of naturals a natural.
LEMMA SumType ==
  ASSUME NEW S, IsFiniteSet(S), NEW f
  PROVE  /\ f \in [S -> Int] => SumFunction(f) \in Int
         /\ f \in [S -> Nat] => SumFunction(f) \in Nat
<1>1. PICK g : IsSum(f, g, S) /\ SumFunctionOnSet(f, S) = g[S]
  BY SumIs
<1>2. ASSUME NEW N, N = Int \/ N = Nat, f \in [S -> N]
      PROVE  SumFunction(f) \in N
  <2> DEFINE Good == {T \in SUBSET S : g[T] \in N}
  <2>1. ASSUME NEW T \in SUBSET S, \A U \in SUBSET T : U # T => U \in Good
        PROVE  T \in Good
    <3>1. CASE T = {}
      <4>1. g[T] = 0
        BY <1>1, <3>1, SumValue
      <4> QED
        BY <1>2, <4>1
    <3>2. CASE T # {}
      <4>1. Pick(T) \in T /\ Rest(T) \in Good
        BY <2>1, <3>2, RestParts
      <4>2. g[T] = f[Pick(T)] + g[Rest(T)]
        BY <1>1, <3>2, SumValue
      <4>3. f[Pick(T)] \in N /\ g[Rest(T)] \in N
        BY <1>2, <4>1
      <4>4. g[T] \in N
        BY <1>2, <4>2, <4>3
      <4> QED
        BY <4>4
    <3> QED
      BY <3>1, <3>2
  <2>2. SUBSET S \subseteq Good
    <3> HIDE DEF Good
    <3> QED
      BY <2>1, SubsetInduction
  <2>3. g[S] \in N /\ DOMAIN f = S
    BY <1>2, <2>2
  <2> QED
    BY <1>1, <2>3 DEF SumFunction
<1> QED
  BY <1>2

\* Nothing adds up to nothing.
LEMMA SumZero ==
  ASSUME NEW S, IsFiniteSet(S)
  PROVE  SumFunction([x \in S |-> 0]) = 0
<1> DEFINE f == [x \in S |-> 0]
<1>1. PICK g : IsSum(f, g, S) /\ SumFunctionOnSet(f, S) = g[S]
  BY SumIs
<1> DEFINE Good == {T \in SUBSET S : g[T] = 0}
<1>2. ASSUME NEW T \in SUBSET S, \A U \in SUBSET T : U # T => U \in Good
      PROVE  T \in Good
  <2>1. CASE T = {}
    BY <1>1, <2>1, SumValue
  <2>2. CASE T # {}
    <3>1. Pick(T) \in S /\ g[Rest(T)] = 0
      BY <1>2, <2>2, RestParts
    <3>2. g[T] = f[Pick(T)] + g[Rest(T)]
      BY <1>1, <2>2, SumValue
    <3> QED
      BY <3>1, <3>2
  <2> QED
    BY <2>1, <2>2
<1>3. SUBSET S \subseteq Good
  <2> HIDE DEF Good
  <2> QED
    BY <1>2, SubsetInduction
<1>4. g[S] = 0 /\ DOMAIN f = S
  BY <1>3
<1> HIDE DEF f
<1>5. SumFunction(f) = 0
  BY <1>1, <1>4 DEF SumFunction
<1> QED
  BY <1>5 DEF f

\* A sum changes by what one of its values changes.
LEMMA SumChange ==
  ASSUME NEW S, IsFiniteSet(S), NEW f \in [S -> Int], NEW e \in [S -> Int],
         NEW x \in S, \A y \in S : y # x => e[y] = f[y]
  PROVE  SumFunction(e) = SumFunction(f) + e[x] - f[x]
<1>1. PICK g : IsSum(f, g, S) /\ SumFunctionOnSet(f, S) = g[S]
  BY SumIs
<1>2. PICK h : IsSum(e, h, S) /\ SumFunctionOnSet(e, S) = h[S]
  BY SumIs
<1> DEFINE Good == {T \in SUBSET S :
             g[T] \in Int /\ h[T] = IF x \in T THEN g[T] + e[x] - f[x] ELSE g[T]}
<1>3. ASSUME NEW T \in SUBSET S, \A U \in SUBSET T : U # T => U \in Good
      PROVE  T \in Good
  <2>1. CASE T = {}
    <3>1. g[T] = 0 /\ h[T] = 0 /\ x \notin T
      BY <1>1, <1>2, <2>1, SumValue
    <3> QED
      BY <3>1
  <2>2. CASE T # {}
    <3> DEFINE p == Pick(T)
               R == Rest(T)
    <3>1. p \in S /\ R \in Good /\ p \notin R /\ T = R \cup {p}
      BY <1>3, <2>2, RestParts
    <3>2. g[T] = f[p] + g[R] /\ h[T] = e[p] + h[R]
      BY <1>1, <1>2, <2>2, SumValue
    <3> HIDE DEF p, R
    <3>3. /\ g[R] \in Int /\ f[p] \in Int /\ e[p] \in Int /\ f[x] \in Int /\ e[x] \in Int
          /\ h[R] = IF x \in R THEN g[R] + e[x] - f[x] ELSE g[R]
      BY <3>1
    <3>4. CASE p = x
      BY <3>1, <3>2, <3>3, <3>4
    <3>5. CASE p # x
      <4>1. e[p] = f[p] /\ (x \in T <=> x \in R)
        BY <3>1, <3>5
      <4> QED
        BY <3>2, <3>3, <4>1
    <3> QED
      BY <3>4, <3>5
  <2> QED
    BY <2>1, <2>2
<1>4. SUBSET S \subseteq Good
  <2> HIDE DEF Good
  <2> QED
    BY <1>3, SubsetInduction
<1>5. h[S] = g[S] + e[x] - f[x] /\ DOMAIN f = S /\ DOMAIN e = S
  BY <1>4
<1> QED
  BY <1>1, <1>2, <1>5 DEF SumFunction

\* None of the naturals added up is above the sum.
LEMMA SumBound ==
  ASSUME NEW S, IsFiniteSet(S), NEW f \in [S -> Nat], NEW x \in S
  PROVE  f[x] <= SumFunction(f)
<1> DEFINE e == [f EXCEPT ![x] = 0]
<1>1. e \in [S -> Nat] /\ f \in [S -> Int] /\ e \in [S -> Int] /\ e[x] = 0
  OBVIOUS
<1>2. \A y \in S : y # x => e[y] = f[y]
  OBVIOUS
<1> HIDE DEF e
<1>3. SumFunction(e) = SumFunction(f) + e[x] - f[x]
  BY <1>1, <1>2, SumChange
<1>4. SumFunction(e) \in Nat /\ SumFunction(f) \in Nat /\ f[x] \in Nat
  BY <1>1, SumType
<1> QED
  BY <1>1, <1>3, <1>4
-----------------------------------------------------------------------------
(* The totals.                                                             *)

\* st is what stakers have with validators, tv, ts and t are its totals.
StakesTotal(st, tv, ts, t) ==
  /\ st \in [Staker -> [Validator -> Nat]]
  /\ tv \in [Validator -> Nat] /\ ts \in [Staker -> Nat] /\ t \in Nat
  /\ \A v \in Validator : tv[v] = SumFunction([s \in Staker |-> st[s][v]])
  /\ \A s \in Staker : ts[s] = SumFunction(st[s])
  /\ t = SumFunction(ts)

\* One stake and the three totals it counts for move together.
LEMMA StakesMoved ==
  ASSUME NEW st, NEW tv, NEW ts, NEW t, StakesTotal(st, tv, ts, t),
         NEW s \in Staker, NEW v \in Validator, NEW d \in Int, st[s][v] + d \in Nat
  PROVE  StakesTotal([st EXCEPT ![s][v] = @ + d], [tv EXCEPT ![v] = @ + d],
                     [ts EXCEPT ![s] = @ + d], t + d)
<1> DEFINE st2 == [st EXCEPT ![s][v] = @ + d]
           tv2 == [tv EXCEPT ![v] = @ + d]
           ts2 == [ts EXCEPT ![s] = @ + d]
           Of(w) == [r \in Staker |-> st[r][w]]
           Of2(w) == [r \in Staker |-> st2[r][w]]
<1>0. IsFiniteSet(Staker) /\ IsFiniteSet(Validator)
  BY StakingAssumption
<1>1. /\ st \in [Staker -> [Validator -> Nat]]
      /\ tv \in [Validator -> Nat] /\ ts \in [Staker -> Nat] /\ t \in Nat
      /\ \A w \in Validator : tv[w] = SumFunction(Of(w))
      /\ \A r \in Staker : ts[r] = SumFunction(st[r])
      /\ t = SumFunction(ts)
  BY DEF StakesTotal
<1>2. /\ st2 \in [Staker -> [Validator -> Nat]]
      /\ st2[s][v] = st[s][v] + d
      /\ \A r \in Staker, w \in Validator : r # s \/ w # v => st2[r][w] = st[r][w]
      /\ \A r \in Staker : r # s => st2[r] = st[r]
  BY <1>1
<1>3. /\ tv2 = [w \in Validator |-> IF w = v THEN tv[w] + d ELSE tv[w]]
      /\ ts2 = [r \in Staker |-> IF r = s THEN ts[r] + d ELSE ts[r]]
  BY <1>1
<1> HIDE DEF st2, tv2, ts2
<1>4. ASSUME NEW w \in Validator
      PROVE  tv2[w] = SumFunction(Of2(w)) /\ tv2[w] \in Nat
  <2>1. Of2(w) \in [Staker -> Nat] /\ Of2(w) \in [Staker -> Int] /\ Of(w) \in [Staker -> Int]
    BY <1>1, <1>2
  <2>2. SumFunction(Of2(w)) \in Nat
    BY <1>0, <2>1, SumType
  <2>3. CASE w = v
    <3>1. \A r \in Staker : r # s => Of2(v)[r] = Of(v)[r]
      BY <1>2
    <3>2. Of2(v)[s] = st[s][v] + d /\ Of(v)[s] = st[s][v] /\ st[s][v] \in Int
      BY <1>1, <1>2
    <3>3. SumFunction(Of2(v)) = SumFunction(Of(v)) + Of2(v)[s] - Of(v)[s]
      <4> HIDE DEF Of, Of2
      <4> QED
        BY <1>0, <2>1, <2>3, <3>1, SumChange
    <3>4. tv2[v] = tv[v] + d /\ tv[v] \in Int /\ tv[v] = SumFunction(Of(v))
      BY <1>1, <1>3
    <3> HIDE DEF Of, Of2
    <3> QED
      BY <2>2, <2>3, <3>2, <3>3, <3>4
  <2>4. CASE w # v
    <3>1. Of2(w) = Of(w)
      BY <1>2, <2>4
    <3> HIDE DEF Of, Of2
    <3> QED
      BY <1>1, <1>3, <2>4, <3>1
  <2> QED
    BY <2>3, <2>4
<1>5. ASSUME NEW r \in Staker
      PROVE  ts2[r] = SumFunction(st2[r]) /\ ts2[r] \in Nat
  <2>1. st2[r] \in [Validator -> Nat] /\ st2[r] \in [Validator -> Int] /\ st[r] \in [Validator -> Int]
    BY <1>1, <1>2
  <2>2. SumFunction(st2[r]) \in Nat
    BY <1>0, <2>1, SumType
  <2>3. CASE r = s
    <3>1. \A w \in Validator : w # v => st2[s][w] = st[s][w]
      BY <1>2
    <3>2. SumFunction(st2[s]) = SumFunction(st[s]) + st2[s][v] - st[s][v]
      BY <1>0, <2>1, <2>3, <3>1, SumChange
    <3>3. /\ ts2[s] = ts[s] + d /\ ts[s] \in Int /\ ts[s] = SumFunction(st[s])
          /\ st2[s][v] = st[s][v] + d /\ st[s][v] \in Int
      BY <1>1, <1>2, <1>3
    <3> QED
      BY <2>2, <2>3, <3>2, <3>3
  <2>4. CASE r # s
    BY <1>1, <1>2, <1>3, <2>4
  <2> QED
    BY <2>3, <2>4
<1>6. tv2 \in [Validator -> Nat] /\ ts2 \in [Staker -> Nat]
  BY <1>3, <1>4, <1>5
<1>7. t + d = SumFunction(ts2) /\ t + d \in Nat
  <2>1. ts \in [Staker -> Int] /\ ts2 \in [Staker -> Int]
    BY <1>1, <1>6
  <2>2. \A r \in Staker : r # s => ts2[r] = ts[r]
    BY <1>3
  <2>3. SumFunction(ts2) = SumFunction(ts) + ts2[s] - ts[s]
    BY <1>0, <2>1, <2>2, SumChange
  <2>4. SumFunction(ts2) \in Nat
    BY <1>0, <1>6, SumType
  <2>5. ts2[s] = ts[s] + d /\ ts[s] \in Int
    BY <1>1, <1>3
  <2> QED
    BY <1>1, <2>3, <2>4, <2>5
<1>8. StakesTotal(st2, tv2, ts2, t + d)
  BY <1>2, <1>4, <1>5, <1>6, <1>7 DEF StakesTotal
<1> QED
  BY <1>8 DEF st2, tv2, ts2

\* p is what the withdrawals in the nodes n of all stakers come to.
PendingOf(n) == SumFunction([id \in Pointer |-> n[id].amount])
PendingTotal(n, p) == p = SumFunction([s \in Staker |-> PendingOf(n[s])])

LEMMA AmountsAreNat ==
  ASSUME NEW n \in [Pointer -> QueueNode]
  PROVE  /\ IsFiniteSet(Pointer)
         /\ [id \in Pointer |-> n[id].amount] \in [Pointer -> Nat]
         /\ PendingOf(n) \in Nat
<1>1. IsFiniteSet(Pointer)
  BY FS_Interval, StakingAssumption DEF Pointer
<1>2. [id \in Pointer |-> n[id].amount] \in [Pointer -> Nat]
  <2>1. ASSUME NEW id \in Pointer
        PROVE  n[id].amount \in Nat
    <3>1. n[id] \in QueueNode
      OBVIOUS
    <3>2. n[id].amount \in Amount \cup {0}
      BY <3>1, QueueNodeFields
    <3>3. Amount \subseteq Nat /\ 0 \in Nat
      BY StakingAssumption
    <3> QED
      BY <3>2, <3>3
  <2> QED
    BY <2>1
<1> QED
  BY <1>1, <1>2, SumType DEF PendingOf

\* The withdrawals of one staker change by one of them.
LEMMA PendingMoved ==
  ASSUME NEW n \in [Staker -> [Pointer -> QueueNode]], NEW p, PendingTotal(n, p),
         NEW s \in Staker, NEW m \in [Pointer -> QueueNode], NEW id \in Pointer,
         \A i \in Pointer : i # id => m[i].amount = n[s][i].amount
  PROVE  /\ PendingTotal([n EXCEPT ![s] = m], p + m[id].amount - n[s][id].amount)
         /\ p + m[id].amount - n[s][id].amount \in Nat
<1> DEFINE n2 == [n EXCEPT ![s] = m]
           Of(a) == [r \in Staker |-> PendingOf(a[r])]
           In(a) == [i \in Pointer |-> a[i].amount]
<1>1. n[s] \in [Pointer -> QueueNode] /\ IsFiniteSet(Staker) /\ IsFiniteSet(Pointer)
  BY StakingAssumption, AmountsAreNat
<1>2. n2 \in [Staker -> [Pointer -> QueueNode]] /\ n2[s] = m
      /\ \A r \in Staker : r # s => n2[r] = n[r]
  OBVIOUS
<1> HIDE DEF n2
<1>3. SumFunction(In(m)) = SumFunction(In(n[s])) + In(m)[id] - In(n[s])[id]
  <2>1. In(m) \in [Pointer -> Int] /\ In(n[s]) \in [Pointer -> Int]
    BY <1>1, AmountsAreNat
  <2>2. \A i \in Pointer : i # id => In(m)[i] = In(n[s])[i]
    OBVIOUS
  <2> HIDE DEF In
  <2> QED
    BY <1>1, <2>1, <2>2, SumChange
<1>4. PendingOf(m) = PendingOf(n[s]) + m[id].amount - n[s][id].amount
  BY <1>3 DEF PendingOf
<1>5. /\ Of(n) \in [Staker -> Nat] /\ Of(n2) \in [Staker -> Nat]
      /\ Of(n) \in [Staker -> Int] /\ Of(n2) \in [Staker -> Int]
  BY <1>2, AmountsAreNat
<1>6. \A r \in Staker : r # s => Of(n2)[r] = Of(n)[r]
  BY <1>2
<1>7. Of(n2)[s] = PendingOf(m) /\ Of(n)[s] = PendingOf(n[s])
  BY <1>2
<1>8. SumFunction(Of(n2)) = SumFunction(Of(n)) + Of(n2)[s] - Of(n)[s]
      /\ SumFunction(Of(n2)) \in Nat /\ SumFunction(Of(n)) \in Nat
  <2> HIDE DEF Of
  <2> QED
    BY <1>1, <1>5, <1>6, SumChange, SumType
<1>9. /\ PendingOf(m) \in Nat /\ PendingOf(n[s]) \in Nat
      /\ m[id].amount \in Int /\ n[s][id].amount \in Int
  BY <1>1, AmountsAreNat, StakingAssumption DEF QueueNode
<1>10. p = SumFunction(Of(n))
  BY DEF PendingTotal
<1>11. p + m[id].amount - n[s][id].amount = SumFunction(Of(n2))
  <2> HIDE DEF Of
  <2> QED
    BY <1>4, <1>7, <1>8, <1>9, <1>10
<1> QED
  BY <1>8, <1>11 DEF PendingTotal, n2
-----------------------------------------------------------------------------
(* The invariant.  The dates order each queue, the totals are the sums, and *)
(* a delay that is proposed is one that may be set.                        *)

AccountsOK ==
  StakesTotal(stakes, totalValidatorStakes, totalStakerStakes, totalStakedAmount)

QueuesOK ==
  /\ nextWithdrawalId \in 1 .. MaxWithdrawals + 1
  /\ queues \in [Staker -> Ends]
  /\ nodes \in [Staker -> [Pointer -> QueueNode]]
  /\ \A s \in Staker : \E place : InQueue(queues[s], nodes[s], place)
  /\ \A s \in Staker : \A id \in LiveIn(nodes[s]) : id < nextWithdrawalId
  /\ totalPendingWithdrawals \in Nat
  /\ PendingTotal(nodes, totalPendingWithdrawals)

ConfigOK ==
  /\ isValidator \subseteq Validator
  /\ withdrawDelay \in 1 .. ConfigTimeDelay
  /\ pendingDelay \in [value : 0 .. ConfigTimeDelay, executableAt : Nat]
  /\ pendingDelay.executableAt # 0 => pendingDelay.value # 0
  /\ pendingValidators \in
       [changes : ValidatorChange \cup {<<>>}, executableAt : Nat]

StakingInv ==
  /\ now \in Time /\ balance \in 0 .. MaxBalance
  /\ AccountsOK
  /\ QueuesOK
  /\ ConfigOK

LEMMA StakingInvMeans ==
  StakingInv => TypeOK /\ TotalsAgree /\ QueueIsLinked
<1> SUFFICES ASSUME StakingInv
             PROVE  TypeOK /\ TotalsAgree /\ QueueIsLinked
  OBVIOUS
<1>1. TypeOK
  BY DEF StakingInv, AccountsOK, QueuesOK, ConfigOK, StakesTotal, TypeOK, Ends, QueueNode
<1>2. TotalsAgree
  BY DEF StakingInv, AccountsOK, QueuesOK, StakesTotal, PendingTotal, PendingOf, TotalsAgree
<1>3. QueueIsLinked
  <2> SUFFICES ASSUME NEW s \in Staker
               PROVE  /\ queues[s].head = 0 <=> Live(s) = {}
                      /\ queues[s].tail = 0 <=> Live(s) = {}
                      /\ \A id \in Live(s) :
                           LET node == nodes[s][id]
                           IN  /\ node.previous = 0 <=> id = queues[s].head
                               /\ node.next = 0 <=> id = queues[s].tail
                               /\ node.previous # 0 =>
                                    /\ node.previous \in Live(s)
                                    /\ nodes[s][node.previous].next = id
                               /\ node.next # 0 =>
                                    /\ node.next \in Live(s)
                                    /\ nodes[s][node.next].previous = id
    BY DEF QueueIsLinked
  <2>1. PICK place : InQueue(queues[s], nodes[s], place)
    BY DEF StakingInv, QueuesOK
  <2>2. Live(s) = LiveIn(nodes[s])
    BY DEF Live, LiveIn
  <2>3. /\ queues[s].head = 0 <=> Live(s) = {}
        /\ queues[s].tail = 0 <=> Live(s) = {}
    <3>1. \A id \in LiveIn(nodes[s]) : id # 0
      BY Pointers DEF LiveIn
    <3> QED
      BY <2>1, <2>2, <3>1 DEF InQueue, EndsOK
  <2> QED
    BY <2>1, <2>2, <2>3, LinksMirror
<1> QED
  BY <1>1, <1>2, <1>3

\* The contract starts with nothing staked and empty queues.
LEMMA StakingStarts ==
  Init => StakingInv
<1> SUFFICES ASSUME Init
             PROVE  StakingInv
  OBVIOUS
<1> USE DEF Init
<1>1. now \in Time /\ balance \in 0 .. MaxBalance
  BY StakingAssumption DEF Time
<1>2. AccountsOK
  <2>1. \A v \in Validator : [s \in Staker |-> stakes[s][v]] = [s \in Staker |-> 0]
    OBVIOUS
  <2>2. \A s \in Staker : stakes[s] = [v \in Validator |-> 0]
    OBVIOUS
  <2>3. SumFunction([s \in Staker |-> 0]) = 0 /\ SumFunction([v \in Validator |-> 0]) = 0
    BY StakingAssumption, SumZero
  <2>4. \A v \in Validator : totalValidatorStakes[v] = SumFunction([s \in Staker |-> stakes[s][v]])
    BY <2>1, <2>3
  <2>5. \A s \in Staker : totalStakerStakes[s] = SumFunction(stakes[s])
    BY <2>2, <2>3
  <2>6. totalStakedAmount = SumFunction(totalStakerStakes)
    BY <2>3
  <2>7. /\ stakes \in [Staker -> [Validator -> Nat]] /\ totalStakedAmount \in Nat
        /\ totalValidatorStakes \in [Validator -> Nat] /\ totalStakerStakes \in [Staker -> Nat]
    OBVIOUS
  <2> QED
    BY ONLY <2>4, <2>5, <2>6, <2>7 DEF AccountsOK, StakesTotal
<1>3. QueuesOK
  <2> DEFINE none == [id \in Pointer |-> NoNode]
             empty == [head |-> 0, tail |-> 0]
             place == [id \in Pointer |-> 0]
  <2>1. none \in [Pointer -> QueueNode] /\ empty \in Ends /\ place \in [Pointer -> Nat]
    BY Pointers DEF Ends
  <2>2. LiveIn(none) = {}
    BY Pointers DEF LiveIn
  <2>3. InQueue(empty, none, place)
    <3>1. empty.head = 0 /\ empty.tail = 0 /\ \A i \in Pointer : none[i] = NoNode
      OBVIOUS
    <3> HIDE DEF empty, none, place
    <3> QED
      BY <2>1, <2>2, <3>1 DEF InQueue, Sorted, EndsOK, NextOK, PreviousOK, DeadOK
  <2>4. PendingOf(none) = 0
    <3>1. [id \in Pointer |-> none[id].amount] = [id \in Pointer |-> 0]
      BY Pointers
    <3>2. IsFiniteSet(Pointer)
      BY <2>1, AmountsAreNat
    <3> HIDE DEF none
    <3> QED
      BY <3>1, <3>2, SumZero DEF PendingOf
  <2>5. \A s \in Staker : nodes[s] = none /\ queues[s] = empty
    OBVIOUS
  <2> HIDE DEF none, empty
  <2>6. PendingTotal(nodes, totalPendingWithdrawals)
    <3>1. [s \in Staker |-> PendingOf(nodes[s])] = [s \in Staker |-> 0]
      BY <2>4, <2>5
    <3> QED
      BY <3>1, StakingAssumption, SumZero DEF PendingTotal
  <2>7. nextWithdrawalId \in 1 .. MaxWithdrawals + 1
    BY StakingAssumption
  <2>8. queues \in [Staker -> Ends] /\ nodes \in [Staker -> [Pointer -> QueueNode]]
    BY <2>1 DEF none, empty
  <2>9. \A s \in Staker : \E p : InQueue(queues[s], nodes[s], p)
    BY <2>3, <2>5
  <2>10. \A s \in Staker : \A id \in LiveIn(nodes[s]) : id < nextWithdrawalId
    BY <2>2, <2>5
  <2> QED
    BY <2>6, <2>7, <2>8, <2>9, <2>10 DEF QueuesOK
<1>4. ConfigOK
  BY StakingAssumption DEF ConfigOK, NoChange, NoHash
<1> QED
  BY <1>1, <1>2, <1>3, <1>4 DEF StakingInv
-----------------------------------------------------------------------------
(* What a transaction does to the queues.                                  *)

NewNode(amount, previous, nxt) ==
  [amount |-> amount, claimableAt |-> ClaimableAt, previous |-> previous,
   next |-> nxt]

\* The withdrawals of s are those before and the new one.
Queued(s, amount) ==
  /\ nextWithdrawalId \in WithdrawalId /\ nextWithdrawalId \notin LiveIn(nodes[s])
  /\ nodes' = [nodes EXCEPT ![s] = nodes'[s]]
  /\ LiveIn(nodes'[s]) = LiveIn(nodes[s]) \cup {nextWithdrawalId}
  /\ nodes'[s][nextWithdrawalId].amount = amount
  /\ nodes'[s][nextWithdrawalId].claimableAt = ClaimableAt
  /\ \A i \in LiveIn(nodes[s]) :
       /\ nodes'[s][i].amount = nodes[s][i].amount
       /\ nodes'[s][i].claimableAt = nodes[s][i].claimableAt

\* The withdrawals of s lose the first, which is the earliest.
Dequeued(s) ==
  /\ queues[s].head \in LiveIn(nodes[s])
  /\ nodes' = [nodes EXCEPT ![s] = nodes'[s]]
  /\ LiveIn(nodes'[s]) = LiveIn(nodes[s]) \ {queues[s].head}
  /\ \A i \in LiveIn(nodes'[s]) :
       /\ nodes'[s][i].amount = nodes[s][i].amount
       /\ nodes'[s][i].claimableAt = nodes[s][i].claimableAt
  /\ \A i \in LiveIn(nodes[s]) :
       nodes[s][queues[s].head].claimableAt <= nodes[s][i].claimableAt

\* What is not in the queue is deleted, and not owed.
LEMMA EmptyNode ==
  ASSUME NEW q, NEW n, NEW place, InQueue(q, n, place),
         NEW i \in Pointer, i \notin LiveIn(n)
  PROVE  n[i] = NoNode
BY DEF InQueue, DeadOK

\* A queue of s that is replaced leaves the others as they are.
LEMMA OneQueue ==
  ASSUME QueuesOK, NEW s \in Staker,
         \E place : InQueue(queues'[s], nodes'[s], place),
         queues' = [queues EXCEPT ![s] = queues'[s]],
         nodes' = [nodes EXCEPT ![s] = nodes'[s]],
         NEW id \in Pointer,
         \A i \in Pointer : i # id => nodes'[s][i].amount = nodes[s][i].amount,
         totalPendingWithdrawals' =
           totalPendingWithdrawals + nodes'[s][id].amount - nodes[s][id].amount,
         nextWithdrawalId' \in 1 .. MaxWithdrawals + 1,
         nextWithdrawalId <= nextWithdrawalId',
         \A i \in LiveIn(nodes'[s]) : i < nextWithdrawalId'
  PROVE  QueuesOK'
<1>1. /\ queues \in [Staker -> Ends] /\ nodes \in [Staker -> [Pointer -> QueueNode]]
      /\ PendingTotal(nodes, totalPendingWithdrawals)
  BY DEF QueuesOK
<1>2. queues'[s] \in Ends /\ nodes'[s] \in [Pointer -> QueueNode]
  BY DEF InQueue
<1>3. /\ queues' \in [Staker -> Ends] /\ nodes' \in [Staker -> [Pointer -> QueueNode]]
      /\ \A t \in Staker : t # s => queues'[t] = queues[t] /\ nodes'[t] = nodes[t]
  <2> DEFINE r == queues'[s]
             m == nodes'[s]
  <2>1. r \in Ends /\ m \in [Pointer -> QueueNode]
    BY <1>2
  <2>2. queues' = [queues EXCEPT ![s] = r] /\ nodes' = [nodes EXCEPT ![s] = m]
    OBVIOUS
  <2> HIDE DEF r, m
  <2> QED
    BY <1>1, <2>1, <2>2
<1>4. PendingTotal(nodes', totalPendingWithdrawals') /\ totalPendingWithdrawals' \in Nat
  <2> DEFINE m == nodes'[s]
             after == totalPendingWithdrawals + m[id].amount - nodes[s][id].amount
  <2>1. m \in [Pointer -> QueueNode]
    BY <1>2
  <2>2. \A i \in Pointer : i # id => m[i].amount = nodes[s][i].amount
    OBVIOUS
  <2>3. nodes' = [nodes EXCEPT ![s] = m] /\ totalPendingWithdrawals' = after
    OBVIOUS
  <2> HIDE DEF m
  <2>4. PendingTotal([nodes EXCEPT ![s] = m], after) /\ after \in Nat
    BY <1>1, <2>1, <2>2, PendingMoved
  <2> QED
    BY <2>3, <2>4
<1>5. \A t \in Staker : \E p : InQueue(queues'[t], nodes'[t], p)
  <2> TAKE t \in Staker
  <2>1. CASE t = s
    BY <2>1
  <2>2. CASE t # s
    BY <1>3, <2>2 DEF QueuesOK
  <2> QED
    BY <2>1, <2>2
<1>6. \A t \in Staker : \A i \in LiveIn(nodes'[t]) : i < nextWithdrawalId'
  <2> TAKE t \in Staker
  <2>1. CASE t = s
    BY <2>1
  <2>2. CASE t # s
    <3>1. nodes'[t] = nodes[t] /\ \A i \in LiveIn(nodes[t]) : i < nextWithdrawalId
      BY <1>3, <2>2 DEF QueuesOK
    <3>2. \A i \in LiveIn(nodes[t]) : i \in Int
      BY StakingAssumption DEF LiveIn, WithdrawalId
    <3>3. nextWithdrawalId \in Int /\ nextWithdrawalId' \in Int
      BY StakingAssumption DEF QueuesOK
    <3> QED
      BY <3>1, <3>2, <3>3
  <2> QED
    BY <2>1, <2>2
<1> QED
  BY <1>3, <1>4, <1>5, <1>6 DEF QueuesOK

\* A new withdrawal that is linked where its date fits.
LEMMA LinkKeepsQueues ==
  ASSUME QueuesOK, nextWithdrawalId <= MaxWithdrawals, ClaimableAt \in Time,
         NEW s \in Staker, NEW amount \in Amount,
         NEW previous \in Pointer, NEW nxt \in Pointer,
         Gap(queues[s], nodes[s], previous, nxt, ClaimableAt),
         Link(s, amount, previous, nxt),
         nextWithdrawalId' = nextWithdrawalId + 1,
         totalPendingWithdrawals' = totalPendingWithdrawals + amount
  PROVE  QueuesOK' /\ Queued(s, amount)
<1> DEFINE id == nextWithdrawalId
           node == NewNode(amount, previous, nxt)
           n == nodes[s]
           q == queues[s]
           m == LinkedNodes(n, id, node)
           r == LinkedEnds(q, id, node)
<1>1. /\ id \in WithdrawalId /\ id \in Pointer /\ id + 1 \in 1 .. MaxWithdrawals + 1
      /\ id \in Int /\ id <= id + 1
  BY StakingAssumption DEF QueuesOK, WithdrawalId, Pointer
<1>2. /\ node \in QueueNode /\ node.amount = amount /\ node.claimableAt = ClaimableAt
      /\ node.previous = previous /\ node.next = nxt
  BY DEF NewNode, QueueNode
<1>3. amount \in Int /\ amount # 0
  BY StakingAssumption
<1>4. id \notin LiveIn(n)
  BY <1>1 DEF QueuesOK
<1>5. PICK place : InQueue(q, n, place)
  BY DEF QueuesOK
<1>6. nodes' = [nodes EXCEPT ![s] = m]
  <2>1. m = [i \in Pointer |->
           CASE i = 0 -> NoNode
             [] i = id -> node
             [] OTHER -> [nodes[s][i] EXCEPT
                            !.next = IF i = previous THEN id ELSE @,
                            !.previous = IF i = nxt THEN id ELSE @]]
    BY <1>2 DEF LinkedNodes
  <2> QED
    BY <2>1 DEF Link, NewNode
<1>7. queues' = [queues EXCEPT ![s] = r]
  <2>1. queues[s] = q
    OBVIOUS
  <2>2. r = [head |-> IF previous = 0 THEN id ELSE q.head,
             tail |-> IF nxt = 0 THEN id ELSE q.tail]
    BY <1>2 DEF LinkedEnds
  <2>3. queues \in [Staker -> Ends]
    BY DEF QueuesOK
  <2> HIDE DEF r
  <2> QED
    BY <2>2, <2>3 DEF Link
<1>8. /\ \E after : InQueue(r, m, after)
      /\ LiveIn(m) = LiveIn(n) \cup {id}
      /\ m[id] = node
      /\ \A i \in LiveIn(n) : /\ m[i].amount = n[i].amount
                              /\ m[i].claimableAt = n[i].claimableAt
  <2> HIDE DEF id, node
  <2>1. Gap(q, n, node.previous, node.next, node.claimableAt) /\ node.amount # 0
    BY <1>2, <1>3
  <2> QED
    BY <1>1, <1>2, <1>4, <1>5, <2>1, Inserted
<1>9. /\ n \in [Pointer -> QueueNode] /\ nodes'[s] = m /\ queues'[s] = r
      /\ nodes' = [nodes EXCEPT ![s] = nodes'[s]]
      /\ queues' = [queues EXCEPT ![s] = queues'[s]]
  BY <1>6, <1>7 DEF QueuesOK
<1>10. PICK after : InQueue(r, m, after)
  BY <1>8
<1> HIDE DEF m, r, node, id
<1>11. m \in [Pointer -> QueueNode]
  BY <1>10 DEF InQueue
<1>12. \A i \in Pointer : i # id => m[i].amount = n[i].amount
  <2> TAKE i \in Pointer
  <2> HAVE i # id
  <2>1. CASE i \in LiveIn(n)
    BY <1>8, <2>1
  <2>2. CASE i \notin LiveIn(n)
    <3>1. i \notin LiveIn(m)
      BY <1>8, <2>2
    <3> QED
      BY <1>5, <1>10, <2>2, <3>1, EmptyNode
  <2> QED
    BY <2>1, <2>2
<1>13. n[id].amount = 0
  BY <1>1, <1>4, <1>5, EmptyNode, Pointers
<1>14. \A i \in LiveIn(m) : i < nextWithdrawalId'
  <2>1. \A i \in LiveIn(n) : i < id /\ i \in Int
    BY StakingAssumption DEF QueuesOK, LiveIn, WithdrawalId, id
  <2> QED
    BY <1>1, <1>8, <2>1 DEF id
<1>15. totalPendingWithdrawals' = totalPendingWithdrawals + m[id].amount - n[id].amount
  BY <1>2, <1>3, <1>8, <1>13 DEF QueuesOK
<1>16. QueuesOK'
  <2>1. nextWithdrawalId' \in 1 .. MaxWithdrawals + 1 /\ nextWithdrawalId <= nextWithdrawalId'
    BY <1>1 DEF id
  <2> QED
    BY <1>1, <1>9, <1>10, <1>12, <1>14, <1>15, <2>1, OneQueue
<1>17. Queued(s, amount)
  BY <1>1, <1>2, <1>4, <1>8, <1>9 DEF Queued, id
<1> QED
  BY <1>16, <1>17

\* The first withdrawal of s is taken off.
LEMMA UnlinkKeepsQueues ==
  ASSUME QueuesOK, NEW s \in Staker, queues[s].head # 0, UnlinkHead(s),
         totalPendingWithdrawals' =
           totalPendingWithdrawals - nodes[s][queues[s].head].amount,
         nextWithdrawalId' = nextWithdrawalId
  PROVE  QueuesOK' /\ Dequeued(s)
<1> DEFINE n == nodes[s]
           q == queues[s]
           h == q.head
           m == UnlinkedNodes(q, n)
           r == UnlinkedEnds(q, n)
<1>1. PICK place : InQueue(q, n, place)
  BY DEF QueuesOK
<1>2. n \in [Pointer -> QueueNode] /\ queues \in [Staker -> Ends]
      /\ nodes \in [Staker -> [Pointer -> QueueNode]]
  BY DEF QueuesOK
<1>3. nodes' = [nodes EXCEPT ![s] = m]
  BY <1>2 DEF UnlinkHead, UnlinkedNodes
<1>4. queues' = [queues EXCEPT ![s] = r]
  BY <1>2 DEF UnlinkHead, UnlinkedEnds
<1>5. /\ InQueue(r, m, place) /\ h \in LiveIn(n) /\ LiveIn(m) = LiveIn(n) \ {h}
      /\ \A i \in LiveIn(n) \ {h} : /\ m[i].amount = n[i].amount
                                    /\ m[i].claimableAt = n[i].claimableAt
      /\ \A i \in LiveIn(n) : n[h].claimableAt <= n[i].claimableAt
  BY <1>1, Removed
<1>6. /\ nodes'[s] = m /\ queues'[s] = r
      /\ nodes' = [nodes EXCEPT ![s] = nodes'[s]]
      /\ queues' = [queues EXCEPT ![s] = queues'[s]]
  BY <1>2, <1>3, <1>4
<1> HIDE DEF m, r
<1>7. h \in Pointer
  BY <1>5, Pointers DEF LiveIn
<1>8. \A i \in Pointer : i # h => m[i].amount = n[i].amount
  <2> TAKE i \in Pointer
  <2> HAVE i # h
  <2>1. CASE i \in LiveIn(n)
    BY <1>5, <2>1
  <2>2. CASE i \notin LiveIn(n)
    BY <1>1, <1>5, <2>2, EmptyNode
  <2> QED
    BY <2>1, <2>2
<1>9. m[h].amount = 0
  BY <1>5, <1>7, EmptyNode, Pointers
<1>10. totalPendingWithdrawals' = totalPendingWithdrawals + m[h].amount - n[h].amount
  <2>1. totalPendingWithdrawals \in Int
    BY DEF QueuesOK
  <2>2. n[h].amount \in Int
    <3>1. n[h].amount \in Amount \cup {0}
      BY <1>2, <1>7, QueueNodeFields
    <3>2. \A x \in Amount \cup {0} : x \in Int
      BY StakingAssumption
    <3> QED
      BY <3>1, <3>2
  <2> QED
    BY <1>9, <2>1, <2>2
<1>11. /\ nextWithdrawalId' \in 1 .. MaxWithdrawals + 1 /\ nextWithdrawalId <= nextWithdrawalId'
       /\ \A i \in LiveIn(m) : i < nextWithdrawalId'
  BY <1>5, StakingAssumption DEF QueuesOK
<1>12. QueuesOK'
  BY <1>5, <1>6, <1>7, <1>8, <1>10, <1>11, OneQueue
<1>13. Dequeued(s)
  BY <1>5, <1>6 DEF Dequeued
<1> QED
  BY <1>12, <1>13
-----------------------------------------------------------------------------
(* Each transaction keeps the invariant.                                   *)

\* A withdrawal takes its amount from a stake that has it.
LEMMA InitiateKeepsAccounts ==
  ASSUME AccountsOK, NEW s \in Staker, NEW v \in Validator, NEW amount \in Amount,
         Initiate(s, v, amount)
  PROVE  /\ AccountsOK'
         /\ amount <= totalStakerStakes[s]
         /\ totalStakerStakes' = [totalStakerStakes EXCEPT ![s] = @ - amount]
<1> DEFINE d == 0 - amount
<1>1. /\ stakes \in [Staker -> [Validator -> Nat]]
      /\ totalValidatorStakes \in [Validator -> Nat]
      /\ totalStakerStakes \in [Staker -> Nat] /\ totalStakedAmount \in Nat
      /\ totalStakerStakes[s] = SumFunction(stakes[s])
  BY DEF AccountsOK, StakesTotal
<1>2. amount \in Nat /\ d \in Int
  BY StakingAssumption
<1>3. /\ stakes[s][v] \in Nat /\ stakes[s][v] + d \in Nat /\ stakes[s][v] + d = stakes[s][v] - amount
      /\ totalValidatorStakes[v] + d = totalValidatorStakes[v] - amount
      /\ totalStakerStakes[s] + d = totalStakerStakes[s] - amount
      /\ totalStakedAmount + d = totalStakedAmount - amount
  BY <1>1, <1>2 DEF Initiate
<1> HIDE DEF d
<1>4. /\ stakes' = [stakes EXCEPT ![s][v] = @ + d]
      /\ totalValidatorStakes' = [totalValidatorStakes EXCEPT ![v] = @ + d]
      /\ totalStakerStakes' = [totalStakerStakes EXCEPT ![s] = @ + d]
      /\ totalStakedAmount' = totalStakedAmount + d
  BY Zenon, <1>3 DEF Initiate
<1>5. AccountsOK'
  BY <1>2, <1>3, <1>4, StakesMoved DEF AccountsOK
<1>6. stakes[s][v] <= SumFunction(stakes[s]) /\ SumFunction(stakes[s]) \in Nat
  BY <1>1, StakingAssumption, SumBound, SumType
<1>7. amount <= totalStakerStakes[s]
  BY <1>1, <1>2, <1>3, <1>6 DEF Initiate
<1> QED
  BY <1>5, <1>7 DEF Initiate

\* What a staker may see of a new withdrawal.
Announced(s, amount) ==
  /\ Queued(s, amount)
  /\ ClaimableAt \in Time /\ now < ClaimableAt /\ now' = now
  /\ amount <= totalStakerStakes[s]
  /\ totalStakerStakes' = [totalStakerStakes EXCEPT ![s] = @ - amount]

LEMMA WithdrawalStarts ==
  ASSUME StakingInv, NEW s \in Staker, NEW v \in Validator, NEW amount \in Amount,
         nextWithdrawalId <= MaxWithdrawals, ClaimableAt <= MaxTime,
         Initiate(s, v, amount), NEW previous \in Pointer, NEW nxt \in Pointer,
         Gap(queues[s], nodes[s], previous, nxt, ClaimableAt),
         Link(s, amount, previous, nxt), UNCHANGED <<now, balance, configVars>>
  PROVE  StakingInv' /\ Announced(s, amount)
<1>1. now \in Nat /\ withdrawDelay \in Nat \ {0}
  BY StakingAssumption DEF StakingInv, ConfigOK, Time
<1>2. ClaimableAt \in Time /\ now < ClaimableAt
  BY <1>1, StakingAssumption DEF ClaimableAt, Time
<1>3. QueuesOK' /\ Queued(s, amount)
  BY <1>2, LinkKeepsQueues DEF StakingInv, Initiate
<1>4. /\ AccountsOK' /\ amount <= totalStakerStakes[s]
      /\ totalStakerStakes' = [totalStakerStakes EXCEPT ![s] = @ - amount]
  BY InitiateKeepsAccounts DEF StakingInv
<1>5. ConfigOK' /\ now' = now /\ balance' = balance
  BY DEF StakingInv, ConfigOK, configVars
<1> QED
  BY <1>2, <1>3, <1>4, <1>5 DEF StakingInv, Announced

LEMMA InitiateWithdrawalKeeps ==
  ASSUME StakingInv, NEW s \in Staker, NEW v \in Validator, NEW amount \in Amount,
         InitiateWithdrawal(s, v, amount)
  PROVE  StakingInv' /\ Announced(s, amount)
<1> DEFINE NextAfter(current) == CASE current = queues[s].tail -> 0
                                   [] current = 0 -> queues[s].head
                                   [] OTHER -> nodes[s][current].next
<1>1. PICK walked \in SUBSET WithdrawalId, current \in Pointer :
        Walk(s, walked, current) /\ Link(s, amount, current, NextAfter(current))
  BY DEF InitiateWithdrawal
<1>2. PICK place : InQueue(queues[s], nodes[s], place)
  BY DEF StakingInv, QueuesOK
<1>3. ClaimableAt \in Int
  BY StakingAssumption DEF ClaimableAt, StakingInv, ConfigOK, Time
<1>4. Gap(queues[s], nodes[s], current, NextAfter(current), ClaimableAt)
  BY <1>1, <1>2, <1>3, WalkedGap DEF Walk
<1>5. NextAfter(current) \in Pointer
  <2>1. nodes[s][current].next \in Pointer
    <3>1. nodes[s][current] \in QueueNode
      BY DEF StakingInv, QueuesOK
    <3> QED
      BY <3>1, QueueNodeFields
  <2>2. queues[s].head \in Pointer
    BY DEF StakingInv, QueuesOK, Ends
  <2> QED
    BY <2>1, <2>2, Pointers
<1> HIDE DEF NextAfter
<1> QED
  BY <1>1, <1>4, <1>5, WithdrawalStarts DEF InitiateWithdrawal

LEMMA InitiateAtPositionKeeps ==
  ASSUME StakingInv, NEW s \in Staker, NEW v \in Validator, NEW amount \in Amount,
         NEW previous \in Pointer, InitiateWithdrawalAtPosition(s, v, amount, previous)
  PROVE  StakingInv' /\ Announced(s, amount)
<1> DEFINE n == nodes[s]
           nxt == NextOf(s, previous)
<1>1. PICK place : InQueue(queues[s], n, place)
  BY DEF StakingInv, QueuesOK
<1>2. ClaimableAt \in Int
  BY StakingAssumption DEF ClaimableAt, StakingInv, ConfigOK, Time
<1>3. n \in [Pointer -> QueueNode] /\ queues[s].head \in Pointer
  BY DEF StakingInv, QueuesOK, Ends
<1>4. nxt \in Pointer
  <2>1. n[previous].next \in Pointer
    <3>1. n[previous] \in QueueNode
      BY <1>3
    <3> QED
      BY <3>1, QueueNodeFields
  <2> QED
    BY <1>3, <2>1 DEF NextOf
<1>5. ASSUME previous # 0
      PROVE  previous \in LiveIn(n) /\ n[previous].claimableAt <= ClaimableAt
  <2>1. n[previous].claimableAt \in 1 .. ClaimableAt
    BY <1>5 DEF InitiateWithdrawalAtPosition, ValidPosition
  <2>2. n[previous].claimableAt # 0 /\ n[previous].claimableAt <= ClaimableAt
    BY <1>2, <2>1
  <2>3. n[previous] # NoNode
    BY <2>2, Pointers
  <2> QED
    BY <1>1, <2>2, <2>3, EmptyNode
<1>6. ASSUME nxt # 0
      PROVE  ClaimableAt <= n[nxt].claimableAt
  <2>1. n[nxt].claimableAt >= ClaimableAt
    BY <1>6 DEF InitiateWithdrawalAtPosition, ValidPosition
  <2>2. n[nxt].claimableAt \in Int
    <3>1. n[nxt].claimableAt \in Time
      BY <1>3, <1>4, QueueNodeFields
    <3> QED
      BY <3>1, StakingAssumption DEF Time
  <2> QED
    BY <1>2, <2>1, <2>2
<1>7. Gap(queues[s], n, previous, nxt, ClaimableAt)
  BY <1>5, <1>6 DEF Gap, NextOf
<1> QED
  BY <1>4, <1>7, WithdrawalStarts DEF InitiateWithdrawalAtPosition

LEMMA ClaimKeeps ==
  ASSUME StakingInv, NEW s \in Staker, ClaimWithdrawal(s)
  PROVE  StakingInv' /\ Dequeued(s)
<1>1. QueuesOK' /\ Dequeued(s)
  BY UnlinkKeepsQueues DEF StakingInv, ClaimWithdrawal
<1>2. AccountsOK' /\ ConfigOK' /\ now' \in Time
  BY DEF StakingInv, ClaimWithdrawal, AccountsOK, ConfigOK, stakeVars, configVars
<1>3. balance' \in 0 .. MaxBalance
  <2>1. nodes[s][queues[s].head].amount \in Nat
    <3>1. nodes[s] \in [Pointer -> QueueNode] /\ queues[s].head \in Pointer
      BY DEF StakingInv, QueuesOK, Ends
    <3>2. nodes[s][queues[s].head].amount \in Amount \cup {0}
      BY <3>1, QueueNodeFields
    <3>3. \A x \in Amount \cup {0} : x \in Nat
      BY StakingAssumption
    <3> QED
      BY <3>2, <3>3
  <2> QED
    BY <2>1, StakingAssumption DEF StakingInv, ClaimWithdrawal
<1> QED
  BY <1>1, <1>2, <1>3 DEF StakingInv

LEMMA StakeKeeps ==
  ASSUME StakingInv, NEW s \in Staker, NEW v \in Validator, NEW amount \in Amount,
         Stake(s, v, amount)
  PROVE  StakingInv'
<1>1. amount \in Nat /\ amount \in Int
  BY StakingAssumption
<1>2. stakes[s][v] + amount \in Nat
  BY <1>1 DEF StakingInv, AccountsOK, StakesTotal
<1>3. AccountsOK'
  BY <1>1, <1>2, StakesMoved DEF StakingInv, AccountsOK, Stake
<1>4. QueuesOK' /\ ConfigOK' /\ now' \in Time
  BY DEF StakingInv, Stake, QueuesOK, ConfigOK, queueVars, configVars
<1>5. balance' \in 0 .. MaxBalance
  BY <1>1, StakingAssumption DEF StakingInv, Stake
<1> QED
  BY <1>3, <1>4, <1>5 DEF StakingInv

\* The owner takes no more than what nobody is owed.
LEMMA RecoverKeeps ==
  ASSUME StakingInv, RecoverTokens
  PROVE  StakingInv'
<1>1. AccountsOK' /\ QueuesOK' /\ ConfigOK' /\ now' \in Time
  BY DEF StakingInv, RecoverTokens, AccountsOK, QueuesOK, ConfigOK, stakeVars, queueVars,
         configVars
<1>2. totalStakedAmount \in Nat /\ totalPendingWithdrawals \in Nat /\ balance \in 0 .. MaxBalance
  BY DEF StakingInv, AccountsOK, StakesTotal, QueuesOK
<1>3. balance' \in 0 .. MaxBalance
  BY <1>2, StakingAssumption DEF RecoverTokens, Recoverable
<1> QED
  BY <1>1, <1>3 DEF StakingInv
LEMMA StakingSteps ==
  StakingInv /\ [Next]_vars => StakingInv'
<1> SUFFICES ASSUME StakingInv, [Next]_vars
             PROVE  StakingInv'
  OBVIOUS
<1>1. ASSUME UNCHANGED <<stakeVars, queueVars>>
      PROVE  AccountsOK' /\ QueuesOK'
  BY <1>1 DEF StakingInv, AccountsOK, QueuesOK, stakeVars, queueVars
<1>2. ASSUME UNCHANGED configVars
      PROVE  ConfigOK'
  BY <1>2 DEF StakingInv, ConfigOK, configVars
<1>3. CASE Tick
  <2>1. now' \in Time
    BY <1>3, StakingAssumption DEF Tick, StakingInv, Time
  <2> QED
    BY <1>1, <1>2, <1>3, <2>1 DEF Tick, StakingInv
<1>4. ASSUME NEW s \in Staker, ClaimWithdrawal(s)
      PROVE  StakingInv'
  BY <1>4, ClaimKeeps
<1>5. ASSUME NEW s \in Staker, NEW v \in Validator, NEW amount \in Amount,
             Stake(s, v, amount)
      PROVE  StakingInv'
  BY <1>5, StakeKeeps
<1>6. ASSUME NEW s \in Staker, NEW v \in Validator, NEW amount \in Amount,
             InitiateWithdrawal(s, v, amount)
      PROVE  StakingInv'
  BY <1>6, InitiateWithdrawalKeeps
<1>7. ASSUME NEW s \in Staker, NEW v \in Validator, NEW amount \in Amount,
             NEW previous \in Pointer,
             InitiateWithdrawalAtPosition(s, v, amount, previous)
      PROVE  StakingInv'
  BY <1>7, InitiateAtPositionKeeps
<1>8. ASSUME NEW d \in 1 .. ConfigTimeDelay, ProposeWithdrawDelay(d)
      PROVE  StakingInv'
  <2>1. now + ConfigTimeDelay \in Nat /\ d \in 0 .. ConfigTimeDelay /\ d # 0
    BY StakingAssumption DEF StakingInv, Time
  <2>2. ConfigOK'
    BY <1>8, <2>1 DEF ProposeWithdrawDelay, StakingInv, ConfigOK
  <2> QED
    BY <1>1, <1>8, <2>2 DEF ProposeWithdrawDelay, StakingInv
<1>9. CASE ExecuteWithdrawDelayChange
  <2>1. /\ withdrawDelay' \in 1 .. ConfigTimeDelay
        /\ pendingDelay' \in [value : 0 .. ConfigTimeDelay, executableAt : Nat]
        /\ pendingDelay'.executableAt = 0
    BY <1>9, StakingAssumption DEF ExecuteWithdrawDelayChange, StakingInv, ConfigOK, NoChange
  <2>2. ConfigOK'
    BY <1>9, <2>1 DEF ExecuteWithdrawDelayChange, StakingInv, ConfigOK
  <2> QED
    BY <1>1, <1>9, <2>2 DEF ExecuteWithdrawDelayChange, StakingInv
<1>10. ASSUME NEW changes \in ValidatorChange, ProposeValidators(changes)
       PROVE  StakingInv'
  <2>1. now + ConfigTimeDelay \in Nat
    BY StakingAssumption DEF StakingInv, Time
  <2>2. ConfigOK'
    BY <1>10, <2>1 DEF ProposeValidators, StakingInv, ConfigOK
  <2> QED
    BY <1>1, <1>10, <2>2 DEF ProposeValidators, StakingInv
<1>11. CASE ExecuteValidatorChanges
  <2>1. NoHash \in [changes : ValidatorChange \cup {<<>>}, executableAt : Nat]
    BY DEF NoHash
  <2>2. isValidator' \subseteq Validator
    BY <1>11 DEF ExecuteValidatorChanges
  <2>3. ConfigOK'
    BY <1>11, <2>1, <2>2 DEF ExecuteValidatorChanges, StakingInv, ConfigOK
  <2> QED
    BY <1>1, <1>11, <2>3 DEF ExecuteValidatorChanges, StakingInv
<1>12. CASE RecoverTokens
  BY <1>12, RecoverKeeps
<1>13. ASSUME NEW amount \in Amount, Donate(amount)
       PROVE  StakingInv'
  <2>1. balance' \in 0 .. MaxBalance
    BY <1>13, StakingAssumption DEF Donate, StakingInv
  <2> QED
    BY <1>1, <1>2, <1>13, <2>1 DEF Donate, StakingInv
<1>14. CASE UNCHANGED vars
  BY <1>1, <1>2, <1>14 DEF vars, StakingInv
<1> QED
  BY <1>3, <1>4, <1>5, <1>6, <1>7, <1>8, <1>9, <1>10, <1>11, <1>12, <1>13,
     <1>14 DEF Next

\* The inductive invariant holds in every reachable state.
THEOREM StakingInvariance == Spec => []StakingInv
BY StakingStarts, StakingSteps, PTL DEF Spec

\* Every variable keeps its type: no total underflows, no balance goes below
\* what is taken from it, and the delay stays between 1 and CONFIG_TIME_DELAY.
THEOREM StakingTypeCorrect == Spec => []TypeOK
BY StakingInvariance, StakingInvMeans, PTL

\* The totals that the contract keeps are the sums of what they total, for any
\* number of stakers, validators and withdrawals.
THEOREM TotalsKeepAgreeing == Spec => []TotalsAgree
BY StakingInvariance, StakingInvMeans, PTL

\* Whatever is inserted, by the walk of the contract or where the caller says,
\* and whatever is claimed, the withdrawals of a staker stay one doubly linked
\* list from head to tail.
THEOREM QueuesStayLinked == Spec => []QueueIsLinked
BY StakingInvariance, StakingInvMeans, PTL
-----------------------------------------------------------------------------
(* The book of withdrawals.                                                *)

Dues == [s \in Staker |->
  {<<id, nodes[s][id].amount, nodes[s][id].claimableAt>> : id \in Live(s)}]

DueIn(n) == {<<id, n[id].amount, n[id].claimableAt>> : id \in LiveIn(n)}

LEMMA DuesAre ==
  /\ Dues = [s \in Staker |-> DueIn(nodes[s])]
  /\ Dues' = [s \in Staker |-> DueIn(nodes'[s])]
BY DEF Dues, DueIn, Live, LiveIn

\* A new withdrawal is the one that is added to what is due.
LEMMA QueuedIsDue ==
  ASSUME NEW s \in Staker, NEW amount, Queued(s, amount), nodes \in [Staker -> [Pointer -> QueueNode]]
  PROVE  Dues' = [Dues EXCEPT ![s] = @ \cup {<<nextWithdrawalId, amount, ClaimableAt>>}]
<1> DEFINE n == nodes[s]
           m == nodes'[s]
           id == nextWithdrawalId
           w == <<id, amount, ClaimableAt>>
<1>1. /\ LiveIn(m) = LiveIn(n) \cup {id} /\ m[id].amount = amount
      /\ m[id].claimableAt = ClaimableAt
      /\ \A i \in LiveIn(n) : m[i].amount = n[i].amount /\ m[i].claimableAt = n[i].claimableAt
  BY DEF Queued
<1>2. \A t \in Staker : t # s => nodes'[t] = nodes[t]
  <2>1. nodes' = [nodes EXCEPT ![s] = m]
    BY DEF Queued
  <2> HIDE DEF m
  <2> QED
    BY <2>1
<1>3. DueIn(m) = DueIn(n) \cup {w}
  <2> HIDE DEF m, n, id
  <2> QED
    BY <1>1 DEF DueIn
<1>4. ASSUME NEW t \in Staker
      PROVE  DueIn(nodes'[t]) = IF t = s THEN DueIn(n) \cup {w} ELSE DueIn(nodes[t])
  BY <1>2, <1>3
<1> QED
  BY <1>4, DuesAre

\* The withdrawal that is taken off was due, and no other is due before it.
LEMMA DequeuedIsPaid ==
  ASSUME NEW s \in Staker, Dequeued(s), nodes \in [Staker -> [Pointer -> QueueNode]],
         NEW w, w = <<queues[s].head, nodes[s][queues[s].head].amount,
                      nodes[s][queues[s].head].claimableAt>>
  PROVE  /\ Dues' = [Dues EXCEPT ![s] = @ \ {w}]
         /\ w \in Dues[s]
         /\ \A x \in Dues[s] : w[3] <= x[3]
<1> DEFINE n == nodes[s]
           m == nodes'[s]
           h == queues[s].head
<1>1. /\ LiveIn(m) = LiveIn(n) \ {h} /\ h \in LiveIn(n)
      /\ \A i \in LiveIn(m) : m[i].amount = n[i].amount /\ m[i].claimableAt = n[i].claimableAt
      /\ \A i \in LiveIn(n) : n[h].claimableAt <= n[i].claimableAt
  BY DEF Dequeued
<1>2. \A t \in Staker : t # s => nodes'[t] = nodes[t]
  <2>1. nodes' = [nodes EXCEPT ![s] = m]
    BY DEF Dequeued
  <2> HIDE DEF m
  <2> QED
    BY <2>1
<1>3. DueIn(m) = DueIn(n) \ {w} /\ w \in DueIn(n) /\ \A x \in DueIn(n) : w[3] <= x[3]
  <2>1. w = <<h, n[h].amount, n[h].claimableAt>>
    OBVIOUS
  <2> HIDE DEF m, n, h
  <2> QED
    BY <1>1, <2>1 DEF DueIn
<1>4. ASSUME NEW t \in Staker
      PROVE  DueIn(nodes'[t]) = IF t = s THEN DueIn(n) \ {w} ELSE DueIn(nodes[t])
  BY <1>2, <1>3
<1> QED
  BY <1>3, <1>4, DuesAre
LEMMA BookStarts ==
  Init => Book!BookInit
<1> SUFFICES ASSUME Init
             PROVE  Book!BookInit
  OBVIOUS
<1>1. now \in Time /\ totalStakerStakes = [s \in Staker |-> 0]
  BY StakingAssumption DEF Init, Time
<1>2. \A s \in Staker : Live(s) = {}
  BY Pointers DEF Init, Live
<1>3. Dues = [s \in Staker |-> {}]
  BY <1>2 DEF Dues
<1> QED
  BY <1>1, <1>3 DEF Book!BookInit, Dues

\* Both ways to insert a withdrawal announce it.
LEMMA AnnouncedToBook ==
  ASSUME StakingInv, NEW s \in Staker, NEW amount \in Amount, Announced(s, amount)
  PROVE  Book!BookNext
<1>0. PICK id, date : id = nextWithdrawalId /\ date = ClaimableAt
  OBVIOUS
<1>1. id \in WithdrawalId /\ date \in Time /\ now < date /\ now' = now
      /\ amount <= totalStakerStakes[s]
      /\ totalStakerStakes' = [totalStakerStakes EXCEPT ![s] = @ - amount]
  BY <1>0 DEF Announced, Queued
<1>2. Dues' = [Dues EXCEPT ![s] = @ \cup {<<id, amount, date>>}]
  BY <1>0, QueuedIsDue DEF Announced, StakingInv, QueuesOK
<1>3. \A t \in Staker : \A w \in Dues[t] : w[1] # id
  <2> TAKE t \in Staker
  <2>1. \A i \in LiveIn(nodes[t]) : i < id /\ i \in Int
    BY <1>0, StakingAssumption DEF StakingInv, QueuesOK, LiveIn, WithdrawalId
  <2>2. Dues[t] = DueIn(nodes[t])
    BY DuesAre
  <2>3. id \in Int
    BY <1>1, StakingAssumption DEF WithdrawalId
  <2> QED
    BY <2>1, <2>2, <2>3 DEF DueIn
<1>4. Book!Announce(s, id, amount, date)
  BY <1>1, <1>2, <1>3 DEF Book!Announce, Dues
<1> QED
  BY <1>1, <1>4 DEF Book!BookNext

LEMMA BookSteps ==
  StakingInv /\ [Next]_vars => [Book!BookNext]_(Book!bookVars)
<1> SUFFICES ASSUME StakingInv, [Next]_vars
             PROVE  Book!BookNext \/ UNCHANGED Book!bookVars
  OBVIOUS
<1>1. ASSUME UNCHANGED <<now, totalStakerStakes, nodes>>
      PROVE  UNCHANGED Book!bookVars
  BY <1>1 DEF Book!bookVars, Live
<1>2. CASE Tick
  <2>1. now' \in {t \in Time : t > now} /\ UNCHANGED <<totalStakerStakes, nodes>>
    BY <1>2, StakingAssumption DEF Tick, StakingInv, Time, stakeVars, queueVars
  <2>2. Book!Pass
    BY <2>1 DEF Book!Pass, Live
  <2> QED
    BY <2>2 DEF Book!BookNext
<1>3. ASSUME NEW s \in Staker, ClaimWithdrawal(s)
      PROVE  Book!BookNext
  <2>0. PICK w : w = <<queues[s].head, nodes[s][queues[s].head].amount,
                       nodes[s][queues[s].head].claimableAt>>
    OBVIOUS
  <2>1. Dequeued(s)
    BY <1>3, ClaimKeeps
  <2>2. /\ Dues' = [Dues EXCEPT ![s] = @ \ {w}] /\ w \in Dues[s]
        /\ \A x \in Dues[s] : w[3] <= x[3]
    BY <2>0, <2>1, DequeuedIsPaid DEF StakingInv, QueuesOK
  <2>3. w[3] <= now /\ now' = now /\ totalStakerStakes' = totalStakerStakes
    <3>1. nodes[s][queues[s].head].claimableAt \in Int /\ now \in Int
      <4>1. nodes[s][queues[s].head] \in QueueNode
        BY DEF StakingInv, QueuesOK, Ends
      <4>2. nodes[s][queues[s].head].claimableAt \in Time /\ now \in Time
        BY <4>1, QueueNodeFields DEF StakingInv
      <4> QED
        BY <4>2, StakingAssumption DEF Time
    <3> QED
      BY <1>3, <2>0, <3>1 DEF ClaimWithdrawal, stakeVars
  <2>4. Book!Pay(s, w)
    BY <2>2, <2>3 DEF Book!Pay, Dues
  <2> QED
    BY <2>2, <2>4 DEF Book!BookNext, Dues
<1>4. ASSUME NEW s \in Staker, NEW v \in Validator, NEW amount \in Amount,
             Stake(s, v, amount)
      PROVE  Book!BookNext
  <2>1. Book!Deposit(s, amount)
    BY <1>4 DEF Stake, Book!Deposit, queueVars, Live
  <2> QED
    BY <2>1 DEF Book!BookNext
<1>5. ASSUME NEW s \in Staker, NEW v \in Validator, NEW amount \in Amount,
             InitiateWithdrawal(s, v, amount)
      PROVE  Book!BookNext
  BY <1>5, InitiateWithdrawalKeeps, AnnouncedToBook
<1>6. ASSUME NEW s \in Staker, NEW v \in Validator, NEW amount \in Amount,
             NEW previous \in Pointer,
             InitiateWithdrawalAtPosition(s, v, amount, previous)
      PROVE  Book!BookNext
  BY <1>6, InitiateAtPositionKeeps, AnnouncedToBook
<1>7. CASE \/ \E d \in 1 .. ConfigTimeDelay : ProposeWithdrawDelay(d)
           \/ ExecuteWithdrawDelayChange
           \/ \E changes \in ValidatorChange : ProposeValidators(changes)
           \/ ExecuteValidatorChanges
           \/ RecoverTokens
           \/ \E amount \in Amount : Donate(amount)
           \/ UNCHANGED vars
  <2>1. UNCHANGED <<now, totalStakerStakes, nodes>>
    BY <1>7 DEF ProposeWithdrawDelay, ExecuteWithdrawDelayChange, ProposeValidators,
                ExecuteValidatorChanges, RecoverTokens, Donate, vars, stakeVars, queueVars
  <2> QED
    BY <1>1, <2>1
<1> QED
  BY <1>2, <1>3, <1>4, <1>5, <1>6, <1>7 DEF Next

\* For any stakers, amounts and delays, and however the delay changes, the
\* queues are a book of withdrawals: an announced one keeps its amount and its
\* date until it is paid, and the earliest is paid first.
THEOREM StakingImplementsBook == Spec => ImplementsWithdrawalBook
BY BookStarts, BookSteps, StakingInvariance, PTL
   DEF Spec, ImplementsWithdrawalBook, Book!BookSpec
=============================================================================
