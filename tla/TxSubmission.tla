---------------------------- MODULE TxSubmission ----------------------------
(***************************************************************************)
(* How a validator gets its actions onto the chain: the stored queue that  *)
(* is worked off one action at a time (consensus/protocol/base.ts), the    *)
(* stored transactions and their nonces (sqlite.ts) and, on every new      *)
(* block, the sweep that resubmits what is not yet executed (onchain.ts).  *)
(* Submission and sweeps interleave at every await.                        *)
(*                                                                         *)
(* The node keeps one transaction for each nonce, replaces it by a dearer  *)
(* one and executes them in the order of their nonces.  An answer about    *)
(* the account's nonce may be as old as its question.                      *)
(***************************************************************************)
EXTENDS Integers, Sequences, FiniteSets, SequencesExt

CONSTANTS
  blocksBeforeResubmit,
  PageLimit,     \* how many transactions a sweep resubmits
  Sweep,         \* sweeps that may be under way at a time
  MaxActions, MaxNonce, MaxFee, MaxAge,             \* bounds
  MaxFailures, MaxEvictions, MaxExpired, MaxStops,  \* bounds
  MaxOvertakes   \* blocks that arrive while an action is being submitted

ASSUME SubmissionAssumption ==
  /\ blocksBeforeResubmit \in Nat
  /\ MaxActions \in Nat /\ MaxNonce \in Nat /\ MaxFee \in Nat \ {0}
  /\ MaxAge \in Nat /\ MaxAge > blocksBeforeResubmit

VARIABLES
  actionQueue,  \* #actionQueue, stored
  expired,      \* the actions whose validUntil has passed
  submit,       \* #currentAction and how far its submission is
  retry,        \* is a retry of the head action on its way?
  rows,         \* the table transaction_storage, stored
  sweep,        \* the calls of checkPendingActions under way
  count,        \* the account's nonce on the chain
  pool,         \* the transaction the node holds for each nonce
  pushed,       \* history: how many actions were processed, named 1, 2, ...
  executed,     \* history: the actions executed, in order
  failures, evictions, stops, overtakes \* bounded counts

storage == <<actionQueue, rows>>
chain == <<count, pool, executed>>
bounded == <<failures, evictions, stops, overtakes>>
vars == <<storage, expired, submit, retry, sweep, chain, pushed, bounded>>

Action == 1..MaxActions
Nonce == 0..MaxNonce
Least(a, b) == IF a < b THEN a ELSE b
Most(a, b) == IF a < b THEN b ELSE a

(***************************************************************************)
(* transaction_storage: at most one row for a nonce.  age is the number of *)
(* blocks since submittedAt, Unsubmitted for NULL; fee 0 stands for NULL.  *)
(***************************************************************************)
Unsubmitted == -1
NoRow == [action |-> 0, age |-> Unsubmitted, fee |-> 0]
Used == {n \in Nonce : rows[n] # NoRow}
IsMaxNonce(n) == n \in Used /\ \A m \in Used : m <= n

(* MAX(minNonce, MAX(nonce) + 1), or minNonce for an empty table.          *)
IsNextNonce(n, minNonce) ==
  /\ n >= minNonce
  /\ \A m \in Used : m < n
  /\ n = minNonce \/ n - 1 \in Used

Deleted(table, nonces) == [n \in Nonce |-> IF n \in nonces THEN NoRow ELSE table[n]]

WithFee(table, nonce, fee) ==
  IF table[nonce] = NoRow THEN table ELSE [table EXCEPT ![nonce].fee = fee]

(* Mutant: rows that were not submitted are left alone.                    *)
MarkedSubmitted ==
  [n \in Nonce |->
     IF rows[n].age = Unsubmitted THEN rows[n]
     ELSE [rows[n] EXCEPT !.age = Least(MaxAge, @ + 1)]]

(* A block later: rows without a block of submission get this one.         *)
Marked ==
  [n \in Nonce |->
     IF rows[n] = NoRow THEN NoRow
     ELSE [rows[n] EXCEPT !.age = Least(MaxAge, @ + 1)]]

(* The rows submitted up to blocksBeforeResubmit blocks before the block   *)
(* of a sweep that is lag blocks old: those of the lowest nonces.          *)
SubmittedUpTo(table, lag) ==
  LET due == {n \in Nonce : table[n] # NoRow
                              /\ table[n].age >= Least(MaxAge, blocksBeforeResubmit + lag)}
  IN  {[nonce |-> n, action |-> table[n].action, fee |-> table[n].fee] :
         n \in {m \in due : Cardinality({k \in due : k < m}) < PageLimit}}

(***************************************************************************)
(* submitTransaction up to the node's decision.  A fee is a level: ten     *)
(* percent more is the next one, and the estimate is level 1.              *)
(***************************************************************************)
NoTx == [action |-> 0, fee |-> 0]
BumpedFee(fee) == Least(MaxFee, fee + 1)
Failing == failures < MaxFailures /\ failures' = failures + 1

NodeAnswers(nonce, action, fee, answer) ==
  \/ /\ nonce < count /\ answer = "nonce_too_low"
     /\ UNCHANGED <<pool, failures>>
  \/ /\ nonce >= count /\ pool[nonce].fee >= fee /\ answer = "error"
     /\ UNCHANGED <<pool, failures>>
  \/ /\ nonce >= count /\ pool[nonce].fee < fee /\ answer = "ok"
     /\ pool' = [pool EXCEPT ![nonce] = [action |-> action, fee |-> fee]]
     /\ UNCHANGED failures
  \/ /\ answer = "error" /\ Failing
     /\ UNCHANGED pool

(***************************************************************************)
(* The queue: process, checkNextAction.                                    *)
(***************************************************************************)
None == [pc |-> "none"]
Asking(a) == [pc |-> "asking", action |-> a, asked |-> count]
Sending(a, n) == [pc |-> "sending", action |-> a, nonce |-> n]
Answered(a, n, answer) == [pc |-> "answered", action |-> a, nonce |-> n, answer |-> answer]

(* The queue without the expired actions at its head.                      *)
Live(q) ==
  LET dropped == {i \in 1..Len(q) : \A j \in 1..i : q[j] \in expired}
  IN  SubSeq(q, Cardinality(dropped) + 1, Len(q))

CheckNextAction(q) ==
  /\ actionQueue' = Live(q)
  /\ submit' = IF Live(q) = <<>> THEN None ELSE Asking(Head(Live(q)))

Process ==
  /\ pushed < MaxActions
  /\ pushed' = pushed + 1
  /\ LET q == Append(actionQueue, pushed + 1)
     IN  IF submit = None THEN CheckNextAction(q)
         ELSE actionQueue' = q /\ UNCHANGED submit
  /\ UNCHANGED <<expired, retry, rows, sweep, chain, bounded>>

RetryTimer ==
  /\ retry /\ submit = None
  /\ CheckNextAction(actionQueue)
  /\ retry' = FALSE
  /\ UNCHANGED <<expired, rows, sweep, chain, pushed, bounded>>

(* Mutant: the action that failed goes to the end of the queue.            *)
ActionRequeued ==
  /\ submit' = None
  /\ retry' = TRUE
  /\ actionQueue' = Append(Tail(actionQueue), submit.action)

ActionFails ==
  /\ submit' = None
  /\ retry' = TRUE
  /\ UNCHANGED actionQueue

(* Mutant: the current action is not cleared.                              *)
ActionSentUncleared ==
  /\ actionQueue' = Tail(actionQueue)
  /\ UNCHANGED <<submit, retry>>

ActionSent ==
  /\ CheckNextAction(Tail(actionQueue))
  /\ UNCHANGED retry

(***************************************************************************)
(* submitAction.                                                           *)
(***************************************************************************)
CountFails ==
  /\ submit.pc = "asking" /\ Failing
  /\ ActionFails
  /\ UNCHANGED <<rows, expired, sweep, chain, pushed, evictions, stops, overtakes>>

ReserveNonce ==
  /\ submit.pc = "asking"
  /\ \E onChainNonce \in submit.asked..count, nonce \in Nonce :
       /\ IsNextNonce(nonce, onChainNonce)
       /\ rows' = [rows EXCEPT ![nonce] = [NoRow EXCEPT !.action = submit.action]]
       /\ submit' = Sending(submit.action, nonce)
  /\ UNCHANGED <<actionQueue, expired, retry, sweep, chain, pushed, bounded>>

Send ==
  /\ submit.pc = "sending"
  /\ \E answer \in {"ok", "error", "nonce_too_low"} :
       /\ NodeAnswers(submit.nonce, submit.action, BumpedFee(0), answer)
       /\ submit' = Answered(submit.action, submit.nonce, answer)
  /\ rows' = WithFee(rows, submit.nonce, BumpedFee(0))
  /\ UNCHANGED <<actionQueue, expired, retry, sweep, count, executed, pushed, evictions, stops, overtakes>>

EstimateFails ==
  /\ submit.pc = "sending" /\ Failing
  /\ submit' = Answered(submit.action, submit.nonce, "error")
  /\ UNCHANGED <<storage, expired, retry, sweep, chain, pushed, evictions, stops, overtakes>>

SendSucceeds ==
  /\ submit.pc = "answered" /\ submit.answer = "ok"
  /\ ActionSent
  /\ UNCHANGED <<rows, expired, sweep, chain, pushed, bounded>>

(* The transaction is the latest one: forget it, the action is retried.    *)
SendFails ==
  /\ submit.pc = "answered" /\ submit.answer # "ok"
  /\ IsMaxNonce(submit.nonce)
  /\ rows' = Deleted(rows, {submit.nonce})
  /\ ActionFails
  /\ UNCHANGED <<expired, sweep, chain, pushed, bounded>>

(* It is not: it is left to the sweeps, and the action counts as sent.     *)
SendLeft ==
  /\ submit.pc = "answered" /\ submit.answer # "ok"
  /\ ~IsMaxNonce(submit.nonce)
  /\ ActionSent
  /\ UNCHANGED <<rows, expired, sweep, chain, pushed, bounded>>

(***************************************************************************)
(* checkPendingActions.                                                    *)
(***************************************************************************)
Done == [pc |-> "done"]

Older(s) == IF s.pc = "asking" THEN [s EXCEPT !.lag = Least(MaxAge, @ + 1)] ELSE s

(* A send may take longer than a block, not longer than every block.       *)
NewBlock(s) ==
  /\ sweep[s] = Done
  /\ \/ submit = None /\ UNCHANGED overtakes
     \/ submit # None /\ overtakes < MaxOvertakes /\ overtakes' = overtakes + 1
  /\ rows' = Marked
  /\ sweep' = [t \in Sweep |->
                 IF t = s THEN [pc |-> "asking", asked |-> count, lag |-> 0] ELSE Older(sweep[t])]
  /\ UNCHANGED <<actionQueue, expired, submit, retry, chain, pushed, failures, evictions, stops>>

Resubmitting(txs) == IF txs = {} THEN Done ELSE [pc |-> "sending", txs |-> txs]

MarkExecuted(s) ==
  /\ sweep[s].pc = "asking"
  /\ \E currentNonce \in sweep[s].asked..count :
       rows' = Deleted(rows, 0..currentNonce - 1)
  /\ sweep' = [sweep EXCEPT ![s] = Resubmitting(SubmittedUpTo(rows', sweep[s].lag))]
  /\ UNCHANGED <<actionQueue, expired, submit, retry, chain, pushed, bounded>>

SweepFails(s) ==
  /\ sweep[s].pc = "asking" /\ Failing
  /\ sweep' = [sweep EXCEPT ![s] = Done]
  /\ UNCHANGED <<storage, expired, submit, retry, chain, pushed, evictions, stops, overtakes>>

(* The transactions of a sweep are resubmitted in the order of nonces.     *)
Resubmit(s) ==
  /\ sweep[s].pc = "sending"
  /\ \E tx \in sweep[s].txs, answer \in {"ok", "error", "nonce_too_low"} :
       /\ \A other \in sweep[s].txs : tx.nonce <= other.nonce
       /\ NodeAnswers(tx.nonce, tx.action, BumpedFee(tx.fee), answer)
       /\ rows' = WithFee(rows, tx.nonce, BumpedFee(tx.fee))
       /\ sweep' = [sweep EXCEPT ![s] =
                      [pc |-> "answered", nonce |-> tx.nonce, answer |-> answer,
                       txs |-> sweep[s].txs \ {tx}]]
  /\ UNCHANGED <<actionQueue, expired, submit, retry, count, executed, pushed, evictions, stops, overtakes>>

(* Mutant: the record is deleted whatever the error is.                    *)
ResubmittedOrDeleted(s) ==
  /\ sweep[s].pc = "answered"
  /\ rows' = IF sweep[s].answer # "ok"
             THEN Deleted(rows, {sweep[s].nonce}) ELSE rows
  /\ sweep' = [sweep EXCEPT ![s] = Resubmitting(sweep[s].txs)]
  /\ UNCHANGED <<actionQueue, expired, submit, retry, chain, pushed, bounded>>

Resubmitted(s) ==
  /\ sweep[s].pc = "answered"
  /\ rows' = IF sweep[s].answer = "nonce_too_low"
             THEN Deleted(rows, {sweep[s].nonce}) ELSE rows
  /\ sweep' = [sweep EXCEPT ![s] = Resubmitting(sweep[s].txs)]
  /\ UNCHANGED <<actionQueue, expired, submit, retry, chain, pushed, bounded>>

(***************************************************************************)
(* The chain, the clock, and the end of the process.                       *)
(***************************************************************************)
Mine ==
  /\ count \in Nonce /\ pool[count] # NoTx
  /\ executed' = Append(executed, pool[count].action)
  /\ pool' = [pool EXCEPT ![count] = NoTx]
  /\ count' = count + 1
  /\ UNCHANGED <<storage, expired, submit, retry, sweep, pushed, bounded>>

Evict ==
  /\ evictions < MaxEvictions
  /\ evictions' = evictions + 1
  /\ \E n \in Nonce : pool[n] # NoTx /\ pool' = [pool EXCEPT ![n] = NoTx]
  /\ UNCHANGED <<storage, expired, submit, retry, sweep, count, executed, pushed, failures, stops, overtakes>>

Expire ==
  /\ Cardinality(expired) < MaxExpired
  /\ \E a \in ToSet(actionQueue) \ expired : expired' = expired \cup {a}
  /\ UNCHANGED <<storage, submit, retry, sweep, chain, pushed, bounded>>

(* The queue is looked at again only when an action is added to it: a stop *)
(* after the last action of the model would tell nothing.                  *)
Restart ==
  /\ stops < MaxStops /\ pushed < MaxActions
  /\ stops' = stops + 1
  /\ submit' = None /\ retry' = FALSE
  /\ sweep' = [s \in Sweep |-> Done]
  /\ UNCHANGED <<storage, expired, chain, pushed, failures, evictions, overtakes>>

Init ==
  /\ actionQueue = <<>> /\ expired = {} /\ submit = None /\ retry = FALSE
  /\ rows = [n \in Nonce |-> NoRow]
  /\ sweep = [s \in Sweep |-> Done]
  /\ count = 0 /\ pool = [n \in Nonce |-> NoTx]
  /\ pushed = 0 /\ executed = <<>>
  /\ failures = 0 /\ evictions = 0 /\ stops = 0 /\ overtakes = 0

Submission ==
  CountFails \/ ReserveNonce \/ Send \/ EstimateFails \/ SendSucceeds \/ SendFails \/ SendLeft

Sweeping(s) == MarkExecuted(s) \/ SweepFails(s) \/ Resubmit(s) \/ Resubmitted(s)

Next ==
  \/ Process \/ RetryTimer \/ Submission
  \/ \E s \in Sweep : NewBlock(s) \/ Sweeping(s)
  \/ Mine \/ Evict \/ Expire \/ Restart

(* Answers and timers come, blocks keep arriving, actions too, and a miner *)
(* takes the next transaction.                                             *)
Fairness ==
  /\ WF_vars(Process) /\ WF_vars(RetryTimer) /\ WF_vars(Submission) /\ WF_vars(Mine)
  /\ \A s \in Sweep : SF_vars(NewBlock(s)) /\ WF_vars(Sweeping(s))

Spec == Init /\ [][Next]_vars /\ Fairness

-----------------------------------------------------------------------------
(* Types.                                                                  *)
TypeOK ==
  /\ actionQueue \in Seq(Action) /\ expired \subseteq Action
  /\ rows \in [Nonce -> [action : 0..MaxActions, age : -1..MaxAge, fee : 0..MaxFee]]
  /\ pool \in [Nonce -> [action : 0..MaxActions, fee : 0..MaxFee]]
  /\ submit.pc # "none" => actionQueue # <<>> /\ submit.action = Head(actionQueue)
  /\ count \in 0..MaxNonce + 1

Pending == {n \in Nonce : n >= count /\ pool[n] # NoTx}

(* No nonce is skipped: below every stored or pending transaction the next *)
(* nonces of the account are all stored or pending too, so the account is  *)
(* never stuck behind a nonce that nothing will use.                       *)
NoNonceGap ==
  \A n \in Used \cup Pending : \A m \in count..n : m \in Used \cup Pending

(* Actions are first executed in the order in which they were processed.   *)
InOrder ==
  \A i, j \in 1..Len(executed) :
    (i < j /\ executed[j] \notin {executed[k] : k \in 1..j - 1}) => executed[i] < executed[j]

(* The queue empties and every transaction is executed in the end.         *)
Drains == <>[](actionQueue = <<>> /\ Used = {} /\ Pending = {})
=============================================================================
