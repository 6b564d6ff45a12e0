--------------------------- MODULE WithdrawalBook ---------------------------
(***************************************************************************)
(* What the staking contract promises a staker about its money: what was   *)
(* staked and not withdrawn stays its stake; an announced withdrawal gets  *)
(* a fixed amount and a fixed date and is neither lost nor changed until   *)
(* it is paid; and the one paid is always the earliest, so no withdrawal   *)
(* that is due waits for one that is not.                                  *)
(***************************************************************************)
EXTENDS Integers

CONSTANTS
  Staker,         \* who stakes
  Amount,         \* amounts of tokens
  WithdrawalId,   \* the ids of withdrawals
  Time            \* timestamps

VARIABLES
  now,      \* the time
  staked,   \* staked[s]: the stake of s with all validators
  due       \* due[s]: the announced withdrawals <<id, amount, date>>

bookVars == <<now, staked, due>>

BookInit ==
  /\ now \in Time
  /\ staked = [s \in Staker |-> 0]
  /\ due = [s \in Staker |-> {}]

Deposit(s, amount) ==
  /\ staked' = [staked EXCEPT ![s] = @ + amount]
  /\ UNCHANGED <<now, due>>

\* Ids are never reused while they are due, whoever they belong to.
Announce(s, id, amount, date) ==
  /\ amount <= staked[s]
  /\ now < date
  /\ \A t \in Staker : \A w \in due[t] : w[1] # id
  /\ staked' = [staked EXCEPT ![s] = @ - amount]
  /\ due' = [due EXCEPT ![s] = @ \cup {<<id, amount, date>>}]
  /\ UNCHANGED now

Pay(s, w) ==
  /\ w[3] <= now
  /\ \A x \in due[s] : w[3] <= x[3]
  /\ due' = [due EXCEPT ![s] = @ \ {w}]
  /\ UNCHANGED <<now, staked>>

Pass == /\ now' \in {t \in Time : t > now}
        /\ UNCHANGED <<staked, due>>

BookNext ==
  \/ Pass
  \/ \E s \in Staker :
       \/ \E amount \in Amount : Deposit(s, amount)
       \/ \E id \in WithdrawalId, amount \in Amount, date \in Time :
            Announce(s, id, amount, date)
       \/ \E w \in due[s] : Pay(s, w)

BookSpec == BookInit /\ [][BookNext]_bookVars
=============================================================================
