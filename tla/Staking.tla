------------------------------- MODULE Staking -------------------------------
(***************************************************************************)
(* Staking.sol: stakes with validators, the queue of withdrawals of each   *)
(* staker (a doubly linked list in contract storage), the time-locked      *)
(* changes of the withdrawal delay and of the validators, and the recovery *)
(* of tokens.  An action is one successful transaction.                    *)
(*                                                                         *)
(* The SAFE token is a plain ERC-20: a transfer moves exactly the amount,  *)
(* and anybody may send tokens to the contract.  Left out: other tokens,   *)
(* the transfer of the ownership, the zero address, and the hash of a      *)
(* validator change, which stands here as what it hashes.  A change lists  *)
(* validators one by one and a later entry wins over an earlier one: it is *)
(* the function it amounts to.  Timestamps and ids do not reach the end of *)
(* their 128 and 64 bits.                                                  *)
(***************************************************************************)
EXTENDS Integers, FiniteSets, Functions

CONSTANTS
  Staker,          \* accounts that stake
  Validator,       \* addresses that may be validators
  Amount,          \* bound of the model: the amounts of tokens used
  ConfigTimeDelay, \* CONFIG_TIME_DELAY
  InitialDelay,    \* initialWithdrawDelay
  MaxTime,         \* bound of the model on the timestamp
  MaxWithdrawals,  \* bound of the model on the number of withdrawals
  MaxBalance,      \* bound of the model on the tokens in the contract
  ProposalTimes    \* bound of the model: when the owner makes proposals

ASSUME StakingAssumption ==
  /\ IsFiniteSet(Staker)
  /\ IsFiniteSet(Validator)
  /\ Amount \subseteq Nat \ {0}
  /\ ConfigTimeDelay \in Nat \ {0}
  /\ InitialDelay \in 1 .. ConfigTimeDelay
  /\ MaxTime \in Nat
  /\ MaxWithdrawals \in Nat
  /\ MaxBalance \in Nat
  /\ ProposalTimes \subseteq Nat

VARIABLES
  now,                     \* block.timestamp
  balance,                 \* SAFE_TOKEN.balanceOf(address(this))
  stakes,                  \* stakes[s][v]
  totalValidatorStakes, totalStakerStakes, totalStakedAmount,
  totalPendingWithdrawals,
  isValidator,             \* the registered validators
  withdrawDelay,
  nextWithdrawalId,
  queues,                  \* withdrawalQueues[s]
  nodes,                   \* withdrawalNodes[s][id]
  pendingDelay,            \* pendingWithdrawDelayChange
  pendingValidators        \* pendingValidatorChangeHash

stakeVars == <<stakes, totalValidatorStakes, totalStakerStakes,
               totalStakedAmount>>
queueVars == <<totalPendingWithdrawals, nextWithdrawalId, queues, nodes>>
configVars == <<isValidator, withdrawDelay, pendingDelay, pendingValidators>>
vars == <<now, balance, stakeVars, queueVars, configVars>>

Time == 0 .. MaxTime
WithdrawalId == 1 .. MaxWithdrawals
Pointer == 0 .. MaxWithdrawals
\* The node 0 is never written: it is the end of a queue.
NoNode == [amount |-> 0, claimableAt |-> 0, previous |-> 0, next |-> 0]
NoChange == [value |-> 0, executableAt |-> 0]
NoHash == [changes |-> <<>>, executableAt |-> 0]
ValidatorChange == UNION {[S -> BOOLEAN] : S \in SUBSET Validator \ {{}}}

TypeOK ==
  /\ now \in Time
  /\ balance \in 0 .. MaxBalance
  /\ stakes \in [Staker -> [Validator -> Nat]]
  /\ totalValidatorStakes \in [Validator -> Nat]
  /\ totalStakerStakes \in [Staker -> Nat]
  /\ totalStakedAmount \in Nat
  /\ totalPendingWithdrawals \in Nat
  /\ isValidator \subseteq Validator
  /\ withdrawDelay \in 1 .. ConfigTimeDelay
  /\ nextWithdrawalId \in 1 .. MaxWithdrawals + 1
  /\ queues \in [Staker -> [head : Pointer, tail : Pointer]]
  /\ nodes \in [Staker -> [Pointer ->
       [amount : Amount \cup {0}, claimableAt : Time, previous : Pointer,
        next : Pointer]]]
  /\ pendingDelay \in [value : 0 .. ConfigTimeDelay, executableAt : Nat]
  /\ pendingValidators \in
       [changes : ValidatorChange \cup {<<>>}, executableAt : Nat]

Init ==
  /\ now = 0
  /\ balance = 0
  /\ stakes = [s \in Staker |-> [v \in Validator |-> 0]]
  /\ totalValidatorStakes = [v \in Validator |-> 0]
  /\ totalStakerStakes = [s \in Staker |-> 0]
  /\ totalStakedAmount = 0
  /\ totalPendingWithdrawals = 0
  /\ isValidator = {}
  /\ withdrawDelay = InitialDelay
  /\ nextWithdrawalId = 1
  /\ queues = [s \in Staker |-> [head |-> 0, tail |-> 0]]
  /\ nodes = [s \in Staker |-> [id \in Pointer |-> NoNode]]
  /\ pendingDelay = NoChange
  /\ pendingValidators = NoHash

-----------------------------------------------------------------------------
(* Staking and withdrawing.                                                *)

Stake(s, v, amount) ==
  /\ v \in isValidator
  /\ balance + amount <= MaxBalance
  /\ stakes' = [stakes EXCEPT ![s][v] = @ + amount]
  /\ totalValidatorStakes' = [totalValidatorStakes EXCEPT ![v] = @ + amount]
  /\ totalStakerStakes' = [totalStakerStakes EXCEPT ![s] = @ + amount]
  /\ totalStakedAmount' = totalStakedAmount + amount
  /\ balance' = balance + amount
  /\ UNCHANGED <<now, queueVars, configVars>>

ClaimableAt == now + withdrawDelay

\* _initiateWithdrawal
InitiateKeepingTotals(s, v, amount) ==
  /\ stakes[s][v] >= amount
  /\ stakes' = [stakes EXCEPT ![s][v] = @ - amount]
  /\ totalStakerStakes' = [totalStakerStakes EXCEPT ![s] = @ - amount]
  /\ totalStakedAmount' = totalStakedAmount - amount
  /\ totalPendingWithdrawals' = totalPendingWithdrawals + amount
  /\ nextWithdrawalId' = nextWithdrawalId + 1
  /\ UNCHANGED totalValidatorStakes

InitiateAboveStake(s, v, amount) ==
  /\ stakes' = [stakes EXCEPT ![s][v] = @ - amount]
  /\ totalValidatorStakes' = [totalValidatorStakes EXCEPT ![v] = @ - amount]
  /\ totalStakerStakes' = [totalStakerStakes EXCEPT ![s] = @ - amount]
  /\ totalStakedAmount' = totalStakedAmount - amount
  /\ totalPendingWithdrawals' = totalPendingWithdrawals + amount
  /\ nextWithdrawalId' = nextWithdrawalId + 1

Initiate(s, v, amount) ==
  /\ stakes[s][v] >= amount
  /\ stakes' = [stakes EXCEPT ![s][v] = @ - amount]
  /\ totalValidatorStakes' = [totalValidatorStakes EXCEPT ![v] = @ - amount]
  /\ totalStakerStakes' = [totalStakerStakes EXCEPT ![s] = @ - amount]
  /\ totalStakedAmount' = totalStakedAmount - amount
  /\ totalPendingWithdrawals' = totalPendingWithdrawals + amount
  /\ nextWithdrawalId' = nextWithdrawalId + 1

\* The new node is linked between the nodes previous and next; 0 is the end
\* of the queue.
LinkForwardOnly(s, amount, previous, next) ==
  LET id == nextWithdrawalId
      node == [amount |-> amount, claimableAt |-> ClaimableAt,
               previous |-> previous, next |-> next]
  IN  /\ nodes' = [nodes EXCEPT ![s] = [i \in Pointer |->
           CASE i = 0 -> NoNode
             [] i = id -> node
             [] OTHER -> [@[i] EXCEPT !.next = IF i = previous THEN id ELSE @]]]
      /\ queues' = [queues EXCEPT ![s] =
           [head |-> IF previous = 0 THEN id ELSE @.head,
            tail |-> IF next = 0 THEN id ELSE @.tail]]

Link(s, amount, previous, next) ==
  LET id == nextWithdrawalId
      node == [amount |-> amount, claimableAt |-> ClaimableAt,
               previous |-> previous, next |-> next]
      linked(i) == [nodes[s][i] EXCEPT
                      !.next = IF i = previous THEN id ELSE @,
                      !.previous = IF i = next THEN id ELSE @]
  IN  /\ nodes' = [nodes EXCEPT ![s] = [i \in Pointer |->
           CASE i = 0 -> NoNode
             [] i = id -> node
             [] OTHER -> linked(i)]]
      /\ queues' = [queues EXCEPT ![s] =
           [head |-> IF previous = 0 THEN id ELSE @.head,
            tail |-> IF next = 0 THEN id ELSE @.tail]]

\* The loop of initiateWithdrawal: it walks backwards from the tail over
\* nodes that are claimable later than the new one and stops at current.
Walk(s, walked, current) ==
  LET stop == walked \cup {current}
  IN  /\ nodes[s][current].claimableAt <= ClaimableAt
      /\ queues[s].tail \in stop
      /\ \A i \in walked : /\ nodes[s][i].claimableAt > ClaimableAt
                           /\ nodes[s][i].previous \in stop

InitiateWithdrawal(s, v, amount) ==
  /\ nextWithdrawalId <= MaxWithdrawals /\ ClaimableAt <= MaxTime
  /\ Initiate(s, v, amount)
  /\ \E walked \in SUBSET WithdrawalId, current \in Pointer :
       /\ Walk(s, walked, current)
       /\ Link(s, amount, current,
               CASE current = queues[s].tail -> 0
                 [] current = 0 -> queues[s].head
                 [] OTHER -> nodes[s][current].next)
  /\ UNCHANGED <<now, balance, configVars>>

\* The caller names the node to insert after.
NextOf(s, previous) ==
  IF previous = 0 THEN queues[s].head ELSE nodes[s][previous].next

ValidPositionAfterOnly(s, previous) ==
  previous # 0 => nodes[s][previous].claimableAt \in 1 .. ClaimableAt

ValidPosition(s, previous) ==
  /\ previous # 0 => nodes[s][previous].claimableAt \in 1 .. ClaimableAt
  /\ NextOf(s, previous) # 0 =>
       nodes[s][NextOf(s, previous)].claimableAt >= ClaimableAt

InitiateWithdrawalAtPosition(s, v, amount, previous) ==
  /\ nextWithdrawalId <= MaxWithdrawals /\ ClaimableAt <= MaxTime
  /\ Initiate(s, v, amount)
  /\ ValidPosition(s, previous)
  /\ Link(s, amount, previous, NextOf(s, previous))
  /\ UNCHANGED <<now, balance, configVars>>

\* The queue loses its head and the next node becomes the first.
UnlinkHeadOnly(s) ==
  LET node == nodes[s][queues[s].head]
  IN  /\ queues' = [queues EXCEPT ![s] =
           IF node.next = 0 THEN [head |-> 0, tail |-> 0]
           ELSE [@ EXCEPT !.head = node.next]]
      /\ nodes' = [nodes EXCEPT ![s][queues[s].head] = NoNode]

UnlinkHead(s) ==
  LET node == nodes[s][queues[s].head]
  IN  /\ queues' = [queues EXCEPT ![s] =
           IF node.next = 0 THEN [head |-> 0, tail |-> 0]
           ELSE [@ EXCEPT !.head = node.next]]
      /\ nodes' = [nodes EXCEPT ![s] = [i \in Pointer |->
           CASE i = queues[s].head -> NoNode
             [] i = node.next /\ i # queues[s].head ->
                  [@[i] EXCEPT !.previous = 0]
             [] OTHER -> @[i]]]

ClaimWithdrawal(s) ==
  /\ queues[s].head # 0
  /\ LET node == nodes[s][queues[s].head]
     IN  /\ now >= node.claimableAt
         /\ totalPendingWithdrawals' = totalPendingWithdrawals - node.amount
         /\ balance >= node.amount
         /\ balance' = balance - node.amount
  /\ UnlinkHead(s)
  /\ UNCHANGED <<now, stakeVars, nextWithdrawalId, configVars>>

-----------------------------------------------------------------------------
(* Configuration: the owner proposes, and once the delay has passed        *)
(* anybody may execute.  A proposal replaces the one before.               *)

ProposeWithdrawDelay(d) ==
  /\ now \in ProposalTimes
  /\ d \in 1 .. ConfigTimeDelay
  /\ pendingDelay' = [value |-> d, executableAt |-> now + ConfigTimeDelay]
  /\ UNCHANGED <<now, balance, stakeVars, queueVars, isValidator,
                 withdrawDelay, pendingValidators>>

ExecuteWithdrawDelayChange ==
  /\ pendingDelay.executableAt # 0
  /\ now >= pendingDelay.executableAt
  /\ withdrawDelay' = pendingDelay.value
  /\ pendingDelay' = NoChange
  /\ UNCHANGED <<now, balance, stakeVars, queueVars, isValidator,
                 pendingValidators>>

ProposeValidators(changes) ==
  /\ now \in ProposalTimes
  /\ pendingValidators' =
       [changes |-> changes, executableAt |-> now + ConfigTimeDelay]
  /\ UNCHANGED <<now, balance, stakeVars, queueVars, isValidator,
                 withdrawDelay, pendingDelay>>

\* Only the arguments that hash to the pending proposal are accepted.
ExecuteValidatorChanges ==
  /\ pendingValidators # NoHash
  /\ now >= pendingValidators.executableAt
  /\ LET changes == pendingValidators.changes
     IN  isValidator' = {v \in Validator :
           IF v \in DOMAIN changes THEN changes[v] ELSE v \in isValidator}
  /\ pendingValidators' = NoHash
  /\ UNCHANGED <<now, balance, stakeVars, queueVars, withdrawDelay,
                 pendingDelay>>

RecoverAllUnstaked == balance - totalStakedAmount

\* What the owner may take: a negative difference reverts.
Recoverable == balance - totalStakedAmount - totalPendingWithdrawals

RecoverTokens ==
  /\ Recoverable > 0
  /\ balance' = balance - Recoverable
  /\ UNCHANGED <<now, stakeVars, queueVars, configVars>>

\* Somebody sends tokens to the contract.
Donate(amount) ==
  /\ balance + amount <= MaxBalance
  /\ balance' = balance + amount
  /\ UNCHANGED <<now, stakeVars, queueVars, configVars>>

Tick ==
  /\ now < MaxTime
  /\ now' = now + 1
  /\ UNCHANGED <<balance, stakeVars, queueVars, configVars>>

Next ==
  \/ Tick
  \/ \E s \in Staker :
       \/ ClaimWithdrawal(s)
       \/ \E v \in Validator, amount \in Amount :
            \/ Stake(s, v, amount)
            \/ InitiateWithdrawal(s, v, amount)
            \/ \E previous \in Pointer :
                 InitiateWithdrawalAtPosition(s, v, amount, previous)
  \/ \E d \in 1 .. ConfigTimeDelay : ProposeWithdrawDelay(d)
  \/ ExecuteWithdrawDelayChange
  \/ \E changes \in ValidatorChange : ProposeValidators(changes)
  \/ ExecuteValidatorChanges
  \/ RecoverTokens
  \/ \E amount \in Amount : Donate(amount)

Spec == Init /\ [][Next]_vars

\* Time passes and a staker claims what it can.
FairSpec ==
  Spec /\ WF_vars(Tick) /\ \A s \in Staker : WF_vars(ClaimWithdrawal(s))

-----------------------------------------------------------------------------
Live(s) == {id \in WithdrawalId : nodes[s][id].amount # 0}

\* The totals the contract keeps are the sums of what they total: no sequence
\* of stakes, withdrawals and claims of several stakers with several
\* validators makes them drift, so no subtraction underflows.
TotalsAgree ==
  /\ \A v \in Validator : totalValidatorStakes[v] =
       SumFunction([s \in Staker |-> stakes[s][v]])
  /\ \A s \in Staker : totalStakerStakes[s] = SumFunction(stakes[s])
  /\ totalStakedAmount = SumFunction(totalStakerStakes)
  /\ totalPendingWithdrawals = SumFunction([s \in Staker |->
       SumFunction([id \in Pointer |-> nodes[s][id].amount])])

\* The contract holds what it owes to stakers, whatever the owner recovers
\* and whatever is sent to it by accident.
Solvent == balance >= totalStakedAmount + totalPendingWithdrawals

\* The withdrawals of a staker form one doubly linked list from head to tail:
\* every node but the head is the next of its previous, every node but the
\* tail the previous of its next, and only these two ends are open.  Otherwise
\* a claim or an insertion walks into a deleted node and money is lost.
QueueIsLinked ==
  \A s \in Staker :
    /\ queues[s].head = 0 <=> Live(s) = {}
    /\ queues[s].tail = 0 <=> Live(s) = {}
    /\ \A id \in Live(s) :
         LET node == nodes[s][id]
         IN  /\ node.previous = 0 <=> id = queues[s].head
             /\ node.next = 0 <=> id = queues[s].tail
             /\ node.previous # 0 =>
                  /\ node.previous \in Live(s)
                  /\ nodes[s][node.previous].next = id
             /\ node.next # 0 =>
                  /\ node.next \in Live(s)
                  /\ nodes[s][node.next].previous = id

\* The linked list with its two ways to insert implements a book from which
\* the earliest withdrawal is always the next to be paid: a change of the
\* delay between two withdrawals never puts a later one in front.
Book == INSTANCE WithdrawalBook WITH
  staked <- totalStakerStakes,
  due <- [s \in Staker |->
    {<<id, nodes[s][id].amount, nodes[s][id].claimableAt>> : id \in Live(s)}]

ImplementsWithdrawalBook == Book!BookSpec

\* Every withdrawal is paid to a staker that keeps claiming, also if it goes
\* on withdrawing and the delay changes.
WithdrawalsArePaid ==
  \A s \in Staker, id \in WithdrawalId : id \in Live(s) ~> id \notin Live(s)
=============================================================================
