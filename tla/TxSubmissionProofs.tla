------------------------- MODULE TxSubmissionProofs -------------------------
(***************************************************************************)
(* For any numbers of actions, sweeps, failures, evictions and restarts of *)
(* TxSubmission: a validator's account is never stuck behind a nonce that  *)
(* nothing will use (NoNonceGap), the stores stay in their ranges and the  *)
(* head of the queue is what is submitted (TypeOK), and actions are        *)
(* executed in the order in which they were processed (InOrder).           *)
(***************************************************************************)
EXTENDS TxSubmission, FiniteSetTheorems, SequenceTheorems, TLAPS

Answer == {"ok", "error", "nonce_too_low"}
Row == [action : Nat, age : Int, fee : Nat]
Tx == [nonce : Nonce, action : Nat, fee : Nat]

Submitting ==
  [pc : {"sending"}, action : Nat \ {0}, nonce : Nonce]
  \cup [pc : {"answered"}, action : Nat \ {0}, nonce : Nonce, answer : Answer]

Submit == {None} \cup [pc : {"asking"}, action : Nat \ {0}, asked : Nat] \cup Submitting

SweepState ==
  {Done} \cup [pc : {"asking"}, asked : Nat, lag : Int]
  \cup [pc : {"sending"}, txs : SUBSET Tx]
  \cup [pc : {"answered"}, nonce : Nonce, answer : Answer, txs : SUBSET Tx]

Types ==
  /\ actionQueue \in Seq(Nat \ {0})
  /\ pushed \in Nat
  /\ count \in Nat
  /\ rows \in [Nonce -> Row]
  /\ \A n \in Nonce : rows[n].age >= -1
  /\ pool \in [Nonce -> [action : Nat, fee : Nat]]
  /\ submit \in Submit
  /\ submit.pc # "none" => actionQueue # <<>>
  /\ sweep \in [Sweep -> SweepState]

(* The nonces that somebody has stored, sent or is about to send.          *)
Submitted == {n \in Nonce : submit.pc \in {"sending", "answered"} /\ submit.nonce = n}
Swept ==
  {n \in Nonce : \E s \in Sweep :
     \/ /\ sweep[s].pc \in {"sending", "answered"}
        /\ \E tx \in sweep[s].txs : tx.nonce = n
     \/ sweep[s].pc = "answered" /\ sweep[s].nonce = n}
Held == {n \in Used \cup Pending \cup Submitted \cup Swept : n >= count}

(* Below each of them every nonce of the account is stored.                *)
StoredBelow == \A n \in Held : \A m \in Nonce : count <= m /\ m < n => m \in Used

(* None is above the one being submitted, whose row may be deleted.        *)
SubmittedIsLast ==
  \A n \in Submitted : n >= count => \A h \in Held : h <= n

(* What the node said about the account's nonce is not ahead of it.        *)
AnswersAreOld ==
  /\ submit.pc = "asking" => submit.asked <= count
  /\ \A s \in Sweep :
       /\ sweep[s].pc = "asking" => sweep[s].asked <= count
       /\ sweep[s].pc = "answered" /\ sweep[s].answer = "nonce_too_low"
            => sweep[s].nonce < count

Inv == Types /\ StoredBelow /\ SubmittedIsLast /\ AnswersAreOld

-----------------------------------------------------------------------------
(* The queue without its expired head is a queue of actions.               *)
LEMMA LiveType ==
  ASSUME NEW q \in Seq(Nat \ {0})
  PROVE  Live(q) \in Seq(Nat \ {0})
<1> DEFINE dropped == {i \in 1..Len(q) : \A j \in 1..i : q[j] \in expired}
<1>1. IsFiniteSet(1..Len(q))
  BY FS_Interval
<1>2. IsFiniteSet(dropped)
  BY <1>1, FS_Subset
<1>3. Cardinality(dropped) \in Nat
  BY <1>2, FS_CardinalityType
<1>4. SubSeq(q, Cardinality(dropped) + 1, Len(q)) \in Seq(Nat \ {0})
  <2> DEFINE d == Cardinality(dropped)
  <2>1. d + 1 \in Int /\ Len(q) \in Int
    BY <1>3
  <2>2. \A i \in d + 1..Len(q) : q[i] \in Nat \ {0}
    BY <1>3
  <2> HIDE DEF d
  <2>3. SubSeq(q, d + 1, Len(q)) \in Seq(Nat \ {0})
    BY <2>1, <2>2, SubSeqProperties, Zenon
  <2> QED
    BY <2>3 DEF d
<1> QED
  BY <1>4 DEF Live

(* Looking at the queue ends the submission or asks for the nonce.         *)
LEMMA CheckNextActionType ==
  ASSUME count \in Nat, NEW q \in Seq(Nat \ {0}), CheckNextAction(q)
  PROVE  /\ actionQueue' \in Seq(Nat \ {0})
         /\ submit' \in {None} \cup [pc : {"asking"}, action : Nat \ {0}, asked : Nat]
         /\ submit'.pc = "asking" => submit'.asked <= count
         /\ submit'.pc # "none" => actionQueue' # <<>>
<1>1. Live(q) \in Seq(Nat \ {0})
  BY LiveType
<1>2. Live(q) # <<>> => Head(Live(q)) \in Nat \ {0}
  BY <1>1
<1> QED
  BY <1>1, <1>2 DEF CheckNextAction, None, Asking

(* What the state of a submission or of a sweep tells of its fields.       *)
LEMMA PhaseTypes ==
  ASSUME Types
  PROVE  /\ submit.pc = "asking" => submit.action \in Nat \ {0} /\ submit.asked \in Nat
         /\ submit.pc \in {"sending", "answered"} => submit \in Submitting
         /\ \A s \in Sweep :
              /\ sweep[s].pc = "asking" => sweep[s].asked \in Nat
              /\ sweep[s].pc \in {"sending", "answered"} => sweep[s].txs \in SUBSET Tx
              /\ sweep[s].pc = "answered" => sweep[s].nonce \in Nonce
<1>1. submit \in Submit
  BY DEF Types
<1>2. /\ submit.pc = "asking" => submit.action \in Nat \ {0} /\ submit.asked \in Nat
      /\ submit.pc \in {"sending", "answered"} => submit \in Submitting
  BY <1>1 DEF Submit, None, Submitting
<1>3. ASSUME NEW s \in Sweep
      PROVE  /\ sweep[s].pc = "asking" => sweep[s].asked \in Nat
             /\ sweep[s].pc \in {"sending", "answered"} => sweep[s].txs \in SUBSET Tx
             /\ sweep[s].pc = "answered" => sweep[s].nonce \in Nonce
  <2> DEFINE w == sweep[s]
  <2>1. w \in SweepState
    BY DEF Types
  <2> HIDE DEF w
  <2>2. CASE w = Done
    BY <2>2 DEF Done, w
  <2>3. CASE w \in [pc : {"asking"}, asked : Nat, lag : Int]
    BY <2>3 DEF w
  <2>4. CASE w \in [pc : {"sending"}, txs : SUBSET Tx]
    BY <2>4 DEF w
  <2>5. CASE w \in [pc : {"answered"}, nonce : Nonce, answer : Answer, txs : SUBSET Tx]
    BY <2>5 DEF w
  <2> QED
    BY <2>1, <2>2, <2>3, <2>4, <2>5 DEF SweepState
<1> QED
  BY <1>2, <1>3

(* A step that holds on to nothing new, and forgets no row of a nonce the  *)
(* account has still to use, preserves the invariant.                      *)
LEMMA NothingNewHeld ==
  ASSUME Inv, Types', AnswersAreOld',
         count' >= count,
         Used' \subseteq Used,
         \A m \in Used : m >= count' => m \in Used',
         Pending' \subseteq Pending \cup Submitted \cup Swept,
         Submitted' \subseteq Submitted,
         Swept' \subseteq Swept \cup Used
  PROVE  Inv'
<1> USE SubmissionAssumption DEF Nonce
<1>1. count \in Nat /\ count' \in Nat
  BY DEF Inv, Types
<1>2. \A n \in Held' : n \in Held /\ n \in Nat /\ n >= count'
  <2>1. Used \cup Pending \cup Submitted \cup Swept \subseteq Nat
    BY DEF Used, Pending, Submitted, Swept
  <2> SUFFICES ASSUME NEW n \in Held'
               PROVE  n \in Held /\ n \in Nat /\ n >= count'
    OBVIOUS
  <2>2. n \in Used \cup Pending \cup Submitted \cup Swept /\ n >= count'
    BY DEF Held
  <2> QED
    BY <1>1, <2>1, <2>2 DEF Held
<1>3. StoredBelow'
  <2> SUFFICES ASSUME NEW n \in Held', NEW m \in Nonce, count' <= m, m < n
               PROVE  m \in Used'
    BY DEF StoredBelow
  <2>1. count <= m
    BY <1>1
  <2>2. m \in Used
    BY <1>2, <2>1 DEF Inv, StoredBelow
  <2> QED
    BY <2>2
<1>4. SubmittedIsLast'
  <2> SUFFICES ASSUME NEW n \in Submitted', n >= count', NEW h \in Held'
               PROVE  h <= n
    BY DEF SubmittedIsLast
  <2>1. n \in Nat /\ n >= count
    BY <1>1 DEF Submitted
  <2> QED
    BY <1>2, <2>1 DEF Inv, SubmittedIsLast
<1> QED
  BY <1>3, <1>4 DEF Inv

-----------------------------------------------------------------------------
(* The operations on the table.                                            *)
LEMMA DeletedTable ==
  ASSUME Types, NEW nonces
  PROVE  /\ Deleted(rows, nonces) \in [Nonce -> Row]
         /\ \A n \in Nonce : Deleted(rows, nonces)[n].age >= -1
         /\ {n \in Nonce : Deleted(rows, nonces)[n] # NoRow} = Used \ nonces
BY DEF Types, Deleted, Row, NoRow, Unsubmitted, Used

LEMMA FeeTable ==
  ASSUME Types, NEW nonce \in Nonce, NEW fee \in Nat
  PROVE  /\ WithFee(rows, nonce, BumpedFee(fee)) \in [Nonce -> Row]
         /\ \A n \in Nonce : WithFee(rows, nonce, BumpedFee(fee))[n].age >= -1
         /\ {n \in Nonce : WithFee(rows, nonce, BumpedFee(fee))[n] # NoRow} = Used
<1>1. BumpedFee(fee) \in Nat \ {0}
  BY SubmissionAssumption DEF BumpedFee, Least
<1> QED
  BY <1>1 DEF Types, WithFee, Row, NoRow, Unsubmitted, Used

LEMMA AgedRow ==
  ASSUME NEW r \in Row, NEW a \in Nat
  PROVE  [r EXCEPT !.age = a] \in Row /\ [r EXCEPT !.age = a].age = a
BY DEF Row

LEMMA MarkedTable ==
  ASSUME Types
  PROVE  /\ Marked \in [Nonce -> Row]
         /\ \A n \in Nonce : Marked[n].age >= -1
         /\ {n \in Nonce : Marked[n] # NoRow} = Used
<1> DEFINE age(n) == Least(MaxAge, rows[n].age + 1)
           aged(n) == [rows[n] EXCEPT !.age = age(n)]
<1>1. NoRow \in Row /\ NoRow.age = -1
  BY DEF NoRow, Row, Unsubmitted
<1>2. \A n \in Nonce : aged(n) \in Row /\ aged(n).age \in Nat /\ aged(n) # NoRow
  <2> TAKE n \in Nonce
  <2>1. rows[n] \in Row /\ rows[n].age \in Int /\ rows[n].age >= -1
    BY DEF Types, Row
  <2>2. age(n) \in Nat
    BY <2>1, SubmissionAssumption DEF Least
  <2> HIDE DEF age
  <2>3. aged(n) \in Row /\ aged(n).age = age(n)
    BY <2>1, <2>2, AgedRow, Zenon
  <2> HIDE DEF aged
  <2> QED
    BY <1>1, <2>2, <2>3
<1>3. Marked = [n \in Nonce |-> IF rows[n] = NoRow THEN NoRow ELSE aged(n)]
  BY Zenon DEF Marked
<1> HIDE DEF aged
<1> QED
  BY <1>1, <1>2, <1>3 DEF Used

(* Nothing is stored, sent or asked for at first.                          *)
LEMMA InvInit ==
  Init => Inv
<1> SUFFICES ASSUME Init
             PROVE  Inv
  OBVIOUS
<1>1. Types
  BY DEF Init, Types, NoRow, NoTx, Row, Unsubmitted, Submit, None, SweepState, Done
<1>2. Held = {}
  BY DEF Init, Held, Used, Pending, Submitted, Swept, None, Done
<1>3. AnswersAreOld
  BY DEF Init, AnswersAreOld, None, Done
<1> QED
  BY <1>1, <1>2, <1>3 DEF Inv, StoredBelow, SubmittedIsLast

-----------------------------------------------------------------------------
(* The queue and the submission of an action.                              *)
LEMMA QueueStep ==
  ASSUME Inv, UNCHANGED <<rows, sweep, count, pool>>,
         actionQueue' \in Seq(Nat \ {0}), pushed' \in Nat,
         submit' \in Submit,
         submit'.pc # "none" => actionQueue' # <<>>,
         submit'.pc = "asking" => submit'.asked <= count,
         Submitted' \subseteq Submitted
  PROVE  Inv'
<1>1. Types' /\ AnswersAreOld'
  BY DEF Inv, Types, AnswersAreOld
<1>2. count' >= count /\ Used' = Used /\ Pending' = Pending /\ Swept' = Swept
  BY DEF Inv, Types, Used, Pending, Swept
<1> QED
  BY <1>1, <1>2, NothingNewHeld

(* An action waits for its turn, or for the answer about the nonce.        *)
LEMMA IdleStep ==
  ASSUME Inv, UNCHANGED <<rows, sweep, count, pool>>,
         actionQueue' \in Seq(Nat \ {0}), pushed' \in Nat,
         submit' \in {None} \cup [pc : {"asking"}, action : Nat \ {0}, asked : Nat],
         submit'.pc # "none" => actionQueue' # <<>>,
         submit'.pc = "asking" => submit'.asked <= count
  PROVE  Inv'
<1>1. Submitted' = {}
  BY DEF Submitted, None
<1> QED
  BY <1>1, QueueStep DEF Submit

LEMMA ProcessStep == Inv /\ Process => Inv'
<1> SUFFICES ASSUME Inv, Process
             PROVE  Inv'
  OBVIOUS
<1> DEFINE q == Append(actionQueue, pushed + 1)
<1>1. q \in Seq(Nat \ {0}) /\ q # <<>> /\ pushed' \in Nat /\ count \in Nat
  <2>1. /\ actionQueue \in Seq(Nat \ {0}) /\ pushed \in Nat /\ count \in Nat
        /\ pushed' = pushed + 1
    BY DEF Inv, Types, Process
  <2> DEFINE next == pushed + 1
  <2>2. next \in Nat \ {0} /\ pushed' \in Nat
    BY <2>1
  <2> HIDE DEF next
  <2>3. /\ Append(actionQueue, next) \in Seq(Nat \ {0})
        /\ Append(actionQueue, next) # <<>>
    BY <2>1, <2>2
  <2> QED
    BY <2>1, <2>2, <2>3 DEF next
<1>2. UNCHANGED <<rows, sweep, count, pool>>
  BY DEF Process, chain
<1> HIDE DEF q
<1>3. CASE CheckNextAction(q)
  BY <1>1, <1>2, <1>3, CheckNextActionType, IdleStep
<1>4. CASE actionQueue' = q /\ UNCHANGED submit
  <2>1. submit' \in Submit /\ Submitted' = Submitted
    BY <1>4 DEF Inv, Types, Submitted
  <2>2. submit'.pc = "asking" => submit'.asked <= count
    BY <1>4 DEF Inv, AnswersAreOld
  <2> QED
    BY <1>1, <1>2, <1>4, <2>1, <2>2, QueueStep
<1> QED
  BY <1>3, <1>4 DEF Process, q

LEMMA RetryTimerStep == Inv /\ RetryTimer => Inv'
<1> SUFFICES ASSUME Inv, RetryTimer
             PROVE  Inv'
  OBVIOUS
<1>1. actionQueue \in Seq(Nat \ {0}) /\ pushed' \in Nat /\ count \in Nat
  BY DEF Inv, Types, RetryTimer
<1>2. UNCHANGED <<rows, sweep, count, pool>> /\ CheckNextAction(actionQueue)
  BY DEF RetryTimer, chain
<1> QED
  BY <1>1, <1>2, CheckNextActionType, IdleStep

LEMMA CountFailsStep == Inv /\ CountFails => Inv'
<1> SUFFICES ASSUME Inv, CountFails
             PROVE  Inv'
  OBVIOUS
<1>1. UNCHANGED <<rows, sweep, count, pool, actionQueue, pushed>> /\ submit' = None
  BY DEF CountFails, ActionFails, chain
<1>2. submit'.pc = "none"
  BY <1>1 DEF None
<1> QED
  BY <1>1, <1>2, IdleStep DEF Inv, Types

(* The nonce that is reserved follows the stored ones, or is the account's *)
(* next one, so whatever is held is not above it.                          *)
LEMMA ReserveNonceStep == Inv /\ ReserveNonce => Inv'
<1> SUFFICES ASSUME Inv, ReserveNonce
             PROVE  Inv'
  OBVIOUS
<1> USE SubmissionAssumption
<1>1. PICK onChainNonce \in submit.asked..count, nonce \in Nonce :
        /\ IsNextNonce(nonce, onChainNonce)
        /\ rows' = [rows EXCEPT ![nonce] = [NoRow EXCEPT !.action = submit.action]]
        /\ submit' = Sending(submit.action, nonce)
  BY DEF ReserveNonce
<1>2. UNCHANGED <<actionQueue, pushed, sweep, count, pool>>
  BY DEF ReserveNonce, chain
<1>3. /\ submit.action \in Nat \ {0} /\ submit.asked \in Nat
      /\ count \in Nat /\ onChainNonce \in Nat /\ onChainNonce <= count
      /\ nonce \in Nat /\ Nonce \subseteq Nat
  <2>1. submit.action \in Nat \ {0} /\ submit.asked \in Nat /\ count \in Nat
    BY PhaseTypes DEF Inv, Types, ReserveNonce
  <2> QED
    BY <1>1, <2>1 DEF Nonce
<1> DEFINE row == [NoRow EXCEPT !.action = submit.action]
<1>4. row \in Row /\ row.age = -1 /\ row # NoRow
  BY <1>3 DEF NoRow, Row, Unsubmitted
<1>5. Used' = Used \cup {nonce} /\ Submitted' = {nonce}
  <2> HIDE DEF row
  <2>1. rows' = [rows EXCEPT ![nonce] = row]
    BY <1>1 DEF row
  <2>2. Used' = Used \cup {nonce}
    BY <1>1, <1>4, <2>1 DEF Used, Inv, Types
  <2>3. Submitted' = {nonce}
    BY <1>1 DEF Submitted, Sending
  <2> QED
    BY <2>2, <2>3
<1>6. Types'
  <2> HIDE DEF row
  <2>1. rows' = [rows EXCEPT ![nonce] = row]
    BY <1>1 DEF row
  <2>2. rows' \in [Nonce -> Row] /\ \A n \in Nonce : rows'[n].age >= -1
    BY <1>4, <2>1 DEF Inv, Types
  <2>3. submit' \in Submit
    BY <1>1, <1>3 DEF Submit, Submitting, Sending
  <2>4. actionQueue # <<>>
    BY DEF Inv, Types, ReserveNonce
  <2> QED
    BY <1>2, <2>2, <2>3, <2>4 DEF Inv, Types
<1>7. AnswersAreOld'
  BY <1>1, <1>2 DEF Inv, AnswersAreOld, Sending
<1>8. Pending' = Pending /\ Swept' = Swept
  BY <1>2 DEF Pending, Swept
<1>9. \A n \in Held' : n \in Held \/ n = nonce
  BY <1>2, <1>5, <1>8 DEF Held
<1>10. Held \subseteq Nat
  BY <1>3 DEF Held, Used, Pending, Submitted, Swept
<1>11. (\A m \in Used : m < nonce) /\ (nonce <= count \/ nonce - 1 \in Used)
  BY <1>1, <1>3 DEF IsNextNonce
<1>12. StoredBelow'
  <2> SUFFICES ASSUME NEW n \in Held', NEW m \in Nonce, count <= m, m < n
               PROVE  m \in Used
    BY <1>2, <1>5 DEF StoredBelow
  <2>1. CASE n \in Held
    BY <2>1 DEF Inv, StoredBelow
  <2>2. CASE n = nonce
    <3>1. nonce - 1 \in Used /\ m <= nonce - 1 /\ nonce - 1 >= count
      BY <1>3, <1>11, <2>2
    <3>2. nonce - 1 \in Held
      BY <3>1 DEF Held
    <3> QED
      BY <1>3, <3>1, <3>2 DEF Inv, StoredBelow
  <2> QED
    BY <1>9, <2>1, <2>2
<1>13. SubmittedIsLast'
  <2> SUFFICES ASSUME nonce >= count, NEW h \in Held'
               PROVE  h <= nonce
    BY <1>2, <1>5 DEF SubmittedIsLast
  <2> HIDE DEF row
  <2>1. CASE h = nonce
    BY <1>3, <2>1
  <2>2. CASE h \in Held
    <3>1. h \in Nat /\ nonce \in Nat
      BY <1>3, <1>10, <2>2
    <3>2. ~ h > nonce
      <4>1. SUFFICES ASSUME h > nonce
                     PROVE  FALSE
        OBVIOUS
      <4>2. nonce \in Used
        BY <1>3, <2>2, <4>1 DEF Inv, StoredBelow
      <4> QED
        BY <1>3, <1>11, <4>2
    <3> QED
      BY <3>1, <3>2
  <2> QED
    BY <1>9, <2>1, <2>2
<1> QED
  BY <1>6, <1>7, <1>12, <1>13 DEF Inv

(* What the node takes is at the nonce it was sent for, and it refuses     *)
(* only nonces that the account has used.                                  *)
LEMMA NodeAnswersType ==
  ASSUME Inv, NEW nonce \in Nonce, NEW action \in Nat, NEW fee \in Nat, NEW answer,
         NodeAnswers(nonce, action, BumpedFee(fee), answer), UNCHANGED count
  PROVE  /\ pool' \in [Nonce -> [action : Nat, fee : Nat]]
         /\ Pending' \subseteq Pending \cup {nonce}
         /\ answer = "nonce_too_low" => nonce < count
<1>1. BumpedFee(fee) \in Nat
  BY SubmissionAssumption DEF BumpedFee, Least
<1>2. pool \in [Nonce -> [action : Nat, fee : Nat]]
  BY DEF Inv, Types
<1>3. CASE UNCHANGED pool
  BY <1>2, <1>3 DEF NodeAnswers, Pending
<1>4. CASE pool' = [pool EXCEPT ![nonce] = [action |-> action, fee |-> BumpedFee(fee)]]
           /\ answer = "ok"
  BY <1>1, <1>2, <1>4 DEF Pending
<1>5. answer = "nonce_too_low" => nonce < count
  BY DEF NodeAnswers
<1> QED
  BY <1>3, <1>4, <1>5 DEF NodeAnswers

LEMMA SendStep == Inv /\ Send => Inv'
<1> SUFFICES ASSUME Inv, Send
             PROVE  Inv'
  OBVIOUS
<1>1. /\ submit \in Submitting /\ submit.pc = "sending"
      /\ submit.action \in Nat \ {0} /\ submit.nonce \in Nonce
  BY DEF Inv, Types, Send, Submit, None, Submitting
<1>2. PICK answer \in {"ok", "error", "nonce_too_low"} :
        /\ NodeAnswers(submit.nonce, submit.action, BumpedFee(0), answer)
        /\ submit' = Answered(submit.action, submit.nonce, answer)
  BY DEF Send
<1>3. UNCHANGED <<actionQueue, pushed, sweep, count>>
  BY DEF Send
<1>4. /\ rows' \in [Nonce -> Row] /\ \A n \in Nonce : rows'[n].age >= -1
      /\ Used' = Used
  BY <1>1, FeeTable DEF Send, Used, Inv
<1>5. submit' \in Submit /\ Submitted' = Submitted
  BY <1>1, <1>2 DEF Submit, Submitting, Answered, Answer, Submitted
<1>6. /\ pool' \in [Nonce -> [action : Nat, fee : Nat]]
      /\ Pending' \subseteq Pending \cup {submit.nonce}
  BY <1>1, <1>2, <1>3, NodeAnswersType
<1>7. Pending' \subseteq Pending \cup Submitted
  BY <1>1, <1>6 DEF Submitted
<1>8. Types'
  BY <1>1, <1>3, <1>4, <1>5, <1>6 DEF Inv, Types
<1>9. AnswersAreOld'
  BY <1>2, <1>3 DEF Inv, AnswersAreOld, Answered
<1>10. Swept' = Swept /\ count' >= count
  BY <1>3 DEF Swept, Inv, Types
<1> QED
  BY <1>4, <1>5, <1>7, <1>8, <1>9, <1>10, NothingNewHeld

LEMMA EstimateFailsStep == Inv /\ EstimateFails => Inv'
<1> SUFFICES ASSUME Inv, EstimateFails
             PROVE  Inv'
  OBVIOUS
<1>1. /\ submit.pc = "sending" /\ actionQueue # <<>>
      /\ submit.action \in Nat \ {0} /\ submit.nonce \in Nonce
  BY DEF Inv, Types, EstimateFails, Submit, None, Submitting
<1>2. submit' = Answered(submit.action, submit.nonce, "error")
  BY DEF EstimateFails
<1>3. submit' \in Submit /\ Submitted' = Submitted /\ submit'.pc # "asking"
  BY <1>1, <1>2 DEF Submit, Submitting, Answered, Answer, Submitted
<1>4. UNCHANGED <<rows, sweep, count, pool, actionQueue, pushed>>
  BY DEF EstimateFails, storage, chain
<1> QED
  BY <1>1, <1>3, <1>4, QueueStep DEF Inv, Types

(* The action leaves the queue, the transaction stays where it is.         *)
LEMMA ActionSentStep ==
  ASSUME Inv, submit.pc = "answered", ActionSent,
         UNCHANGED <<rows, sweep, count, pool, pushed>>
  PROVE  Inv'
<1>1. actionQueue \in Seq(Nat \ {0}) /\ actionQueue # <<>> /\ count \in Nat /\ pushed' \in Nat
  BY DEF Inv, Types
<1> DEFINE q == Tail(actionQueue)
<1>2. q \in Seq(Nat \ {0})
  BY <1>1
<1>3. CheckNextAction(q)
  BY DEF ActionSent
<1> HIDE DEF q
<1> QED
  BY <1>1, <1>2, <1>3, CheckNextActionType, IdleStep

LEMMA SendSucceedsStep == Inv /\ SendSucceeds => Inv'
BY ActionSentStep DEF SendSucceeds, chain

LEMMA SendLeftStep == Inv /\ SendLeft => Inv'
BY ActionSentStep DEF SendLeft, chain

(* The row of the transaction goes; nothing is held above its nonce.       *)
LEMMA SendFailsStep == Inv /\ SendFails => Inv'
<1> SUFFICES ASSUME Inv, SendFails
             PROVE  Inv'
  OBVIOUS
<1> DEFINE last == submit.nonce
<1>1. submit.pc = "answered" /\ last \in Nonce
  BY DEF Inv, Types, SendFails, Submit, None, Submitting
<1>2. Nonce \subseteq Nat /\ count \in Nat
  BY SubmissionAssumption DEF Nonce, Inv, Types
<1>3. submit' = None /\ rows' = Deleted(rows, {last})
  BY DEF SendFails, ActionFails
<1>4. UNCHANGED <<actionQueue, pushed, sweep, count, pool>>
  BY DEF SendFails, ActionFails, chain
<1>5. Used' = Used \ {last} /\ Submitted' = {} /\ Pending' = Pending /\ Swept' = Swept
  BY <1>3, <1>4, DeletedTable DEF Inv, Used, Submitted, None, Pending, Swept
<1>6. Types'
  BY <1>3, <1>4, DeletedTable DEF Inv, Types, Submit, None
<1>7. AnswersAreOld'
  BY <1>3, <1>4 DEF Inv, AnswersAreOld, None
<1>8. Held' \subseteq Held
  BY <1>4, <1>5 DEF Held
<1>9. \A h \in Held : last >= count => h <= last
  BY <1>1 DEF Inv, SubmittedIsLast, Submitted
<1>10. StoredBelow'
  <2> HIDE DEF last
  <2> SUFFICES ASSUME NEW n \in Held, NEW m \in Nonce, count <= m, m < n
               PROVE  m \in Used \ {last}
    BY <1>4, <1>5, <1>8 DEF StoredBelow
  <2>1. m \in Used
    BY DEF Inv, StoredBelow
  <2>2. n \in Nat
    BY <1>2 DEF Held, Used, Pending, Submitted, Swept
  <2>3. m # last
    BY <1>1, <1>2, <1>9, <2>2
  <2> QED
    BY <2>1, <2>3
<1>11. SubmittedIsLast'
  BY <1>5 DEF SubmittedIsLast
<1> QED
  BY <1>6, <1>7, <1>10, <1>11 DEF Inv

-----------------------------------------------------------------------------
(* The sweeps.                                                             *)
LEMMA NewBlockStep ==
  ASSUME NEW s \in Sweep
  PROVE  Inv /\ NewBlock(s) => Inv'
<1> SUFFICES ASSUME Inv, NewBlock(s)
             PROVE  Inv'
  OBVIOUS
<1>1. UNCHANGED <<actionQueue, submit, count, pool, pushed>> /\ rows' = Marked
  BY DEF NewBlock, chain
<1>2. /\ sweep' \in [Sweep -> SweepState] /\ Swept' \subseteq Swept
      /\ \A t \in Sweep : /\ sweep'[t].pc = "asking" => sweep'[t].asked <= count
                          /\ sweep'[t].pc = "answered" => sweep'[t] = sweep[t]
  <2> DEFINE new == [pc |-> "asking", asked |-> count, lag |-> 0]
  <2>1. sweep' = [t \in Sweep |-> IF t = s THEN new ELSE Older(sweep[t])]
    BY DEF NewBlock
  <2>2. /\ new \in SweepState /\ new.pc = "asking" /\ new.asked <= count
    BY DEF Inv, Types, SweepState
  <2>3. \A t \in Sweep :
          /\ Older(sweep[t]) \in SweepState /\ Older(sweep[t]).pc = sweep[t].pc
          /\ sweep[t].pc = "asking" => Older(sweep[t]).asked = sweep[t].asked
          /\ sweep[t].pc # "asking" => Older(sweep[t]) = sweep[t]
    <3> TAKE t \in Sweep
    <3>1. sweep[t] \in SweepState
      BY DEF Inv, Types
    <3>2. CASE sweep[t].pc = "asking"
      <4>1. sweep[t] \in [pc : {"asking"}, asked : Nat, lag : Int]
        BY <3>1, <3>2 DEF SweepState, Done
      <4>2. Least(MaxAge, sweep[t].lag + 1) \in Int
        BY <4>1, SubmissionAssumption DEF Least
      <4> DEFINE lag == Least(MaxAge, sweep[t].lag + 1)
      <4>3. Older(sweep[t]) = [sweep[t] EXCEPT !.lag = lag]
        BY <3>2 DEF Older
      <4> HIDE DEF lag
      <4>4. lag \in Int
        BY <4>2 DEF lag
      <4> QED
        BY <3>2, <4>1, <4>3, <4>4 DEF SweepState
    <3>3. CASE sweep[t].pc # "asking"
      BY <3>1, <3>3 DEF Older
    <3> QED
      BY <3>2, <3>3
  <2> HIDE DEF new
  <2>4. sweep' \in [Sweep -> SweepState]
    BY <2>1, <2>2, <2>3
  <2>5. Swept' \subseteq Swept
    BY <2>1, <2>2, <2>3 DEF Swept
  <2> QED
    BY <2>1, <2>2, <2>3, <2>4, <2>5 DEF Inv, AnswersAreOld
<1>3. Used' = Used
  BY <1>1, MarkedTable DEF Inv, Used
<1>4. Types'
  BY <1>1, <1>2, MarkedTable DEF Inv, Types
<1>5. AnswersAreOld'
  BY <1>1, <1>2 DEF Inv, AnswersAreOld
<1>6. count' >= count /\ Pending' = Pending /\ Submitted' = Submitted
  BY <1>1 DEF Inv, Types, Pending, Submitted
<1> QED
  BY <1>2, <1>3, <1>4, <1>5, <1>6, NothingNewHeld

(* A sweep resubmits stored transactions only.                             *)
LEMMA SubmittedUpToType ==
  ASSUME NEW table \in [Nonce -> Row], NEW lag
  PROVE  /\ SubmittedUpTo(table, lag) \in SUBSET Tx
         /\ \A tx \in SubmittedUpTo(table, lag) : table[tx.nonce] # NoRow
<1> DEFINE due == {n \in Nonce : table[n] # NoRow
                     /\ table[n].age >= Least(MaxAge, blocksBeforeResubmit + lag)}
           page == {m \in due : Cardinality({k \in due : k < m}) < PageLimit}
           tx(n) == [nonce |-> n, action |-> table[n].action, fee |-> table[n].fee]
<1>1. SubmittedUpTo(table, lag) = {tx(n) : n \in page}
  BY DEF SubmittedUpTo
<1>2. \A n \in page : n \in Nonce /\ table[n] # NoRow
  OBVIOUS
<1> HIDE DEF page
<1>3. \A n \in page : tx(n) \in Tx /\ tx(n).nonce = n
  BY <1>2 DEF Tx, Row
<1> HIDE DEF tx
<1> QED
  BY <1>1, <1>2, <1>3

(* One sweep goes on to w: what it holds was held by it, or is stored.     *)
LEMMA SweepStep ==
  ASSUME Inv, NEW s \in Sweep, NEW w \in SweepState,
         sweep' = [sweep EXCEPT ![s] = w],
         w.pc = "asking" => w.asked <= count,
         w.pc = "answered" /\ w.answer = "nonce_too_low" => w.nonce < count,
         w.pc \in {"sending", "answered"} =>
           \A tx \in w.txs : tx.nonce \in Swept \cup Used,
         w.pc = "answered" => w.nonce \in Swept,
         UNCHANGED <<actionQueue, pushed, submit, count>>,
         rows' \in [Nonce -> Row],
         \A n \in Nonce : rows'[n].age >= -1,
         Used' \subseteq Used,
         \A m \in Used : m >= count => m \in Used',
         pool' \in [Nonce -> [action : Nat, fee : Nat]],
         Pending' \subseteq Pending \cup Swept
  PROVE  Inv'
<1>1. \A t \in Sweep : sweep'[t] = IF t = s THEN w ELSE sweep[t]
  BY DEF Inv, Types
<1>2. sweep' \in [Sweep -> SweepState]
  BY DEF Inv, Types
<1>3. Swept' \subseteq Swept \cup Used
  <2> SUFFICES ASSUME NEW n \in Swept'
               PROVE  n \in Swept \cup Used
    OBVIOUS
  <2>1. PICK t \in Sweep :
          \/ /\ sweep'[t].pc \in {"sending", "answered"}
             /\ \E tx \in sweep'[t].txs : tx.nonce = n
          \/ sweep'[t].pc = "answered" /\ sweep'[t].nonce = n
    BY DEF Swept
  <2>2. CASE t = s
    BY <1>1, <2>1, <2>2
  <2>3. CASE t # s
    BY <1>1, <2>1, <2>3 DEF Swept
  <2> QED
    BY <2>2, <2>3
<1>4. Types'
  BY <1>2 DEF Inv, Types
<1>5. AnswersAreOld'
  BY <1>1 DEF Inv, AnswersAreOld
<1>6. count' >= count /\ Submitted' = Submitted
  BY DEF Inv, Types, Submitted
<1> QED
  BY <1>3, <1>4, <1>5, <1>6, NothingNewHeld

LEMMA MarkExecutedStep ==
  ASSUME NEW s \in Sweep
  PROVE  Inv /\ MarkExecuted(s) => Inv'
<1> SUFFICES ASSUME Inv, MarkExecuted(s)
             PROVE  Inv'
  OBVIOUS
<1>1. PICK currentNonce \in sweep[s].asked..count : rows' = Deleted(rows, 0..currentNonce - 1)
  BY DEF MarkExecuted
<1> DEFINE txs == SubmittedUpTo(rows', sweep[s].lag)
           w == Resubmitting(txs)
<1>2. sweep' = [sweep EXCEPT ![s] = w]
  BY DEF MarkExecuted
<1>3. UNCHANGED <<actionQueue, pushed, submit, count, pool>>
  BY DEF MarkExecuted, chain
<1>4. /\ rows' \in [Nonce -> Row] /\ \A n \in Nonce : rows'[n].age >= -1
      /\ Used' = Used \ 0..currentNonce - 1
  BY <1>1, DeletedTable DEF Inv, Used
<1>5. currentNonce \in Int /\ currentNonce <= count /\ count \in Nat /\ Used \subseteq Nat
  <2>1. sweep[s].asked \in Nat
    BY PhaseTypes DEF MarkExecuted, Inv
  <2> QED
    BY <1>1, <2>1, SubmissionAssumption DEF Inv, Types, Used, Nonce
<1>6. \A m \in Used : m >= count => m \in Used'
  BY <1>4, <1>5
<1>7. txs \in SUBSET Tx /\ \A tx \in txs : tx.nonce \in Used'
  BY <1>4, SubmittedUpToType DEF Used, Tx
<1> HIDE DEF txs
<1>8. /\ w \in SweepState /\ w.pc \in {"done", "sending"}
      /\ w.pc = "sending" => w.txs = txs
  BY <1>7 DEF Resubmitting, SweepState, Done
<1> HIDE DEF w
<1>9. pool' \in [Nonce -> [action : Nat, fee : Nat]] /\ Pending' = Pending
  BY <1>3 DEF Inv, Types, Pending
<1> QED
  BY <1>2, <1>3, <1>4, <1>6, <1>7, <1>8, <1>9, SweepStep

LEMMA SweepFailsStep ==
  ASSUME NEW s \in Sweep
  PROVE  Inv /\ SweepFails(s) => Inv'
<1> SUFFICES ASSUME Inv, SweepFails(s)
             PROVE  Inv'
  OBVIOUS
<1>1. UNCHANGED <<actionQueue, pushed, submit, count, pool, rows>>
  BY DEF SweepFails, storage, chain
<1>2. sweep' = [sweep EXCEPT ![s] = Done] /\ Done \in SweepState /\ Done.pc = "done"
  BY DEF SweepFails, SweepState, Done
<1>3. Used' = Used /\ Pending' = Pending
  BY <1>1 DEF Used, Pending
<1> QED
  BY <1>1, <1>2, <1>3, SweepStep DEF Inv, Types

LEMMA ResubmitStep ==
  ASSUME NEW s \in Sweep
  PROVE  Inv /\ Resubmit(s) => Inv'
<1> SUFFICES ASSUME Inv, Resubmit(s)
             PROVE  Inv'
  OBVIOUS
<1>1. sweep[s].pc = "sending" /\ sweep[s].txs \in SUBSET Tx
  BY PhaseTypes DEF Resubmit, Inv
<1>2. PICK tx \in sweep[s].txs, answer \in {"ok", "error", "nonce_too_low"} :
        /\ NodeAnswers(tx.nonce, tx.action, BumpedFee(tx.fee), answer)
        /\ rows' = WithFee(rows, tx.nonce, BumpedFee(tx.fee))
        /\ sweep' = [sweep EXCEPT ![s] =
                       [pc |-> "answered", nonce |-> tx.nonce, answer |-> answer,
                        txs |-> sweep[s].txs \ {tx}]]
  BY DEF Resubmit
<1>3. tx.nonce \in Nonce /\ tx.action \in Nat /\ tx.fee \in Nat
  BY <1>1, <1>2 DEF Tx
<1>4. UNCHANGED <<actionQueue, pushed, submit, count>>
  BY DEF Resubmit
<1> DEFINE w == [pc |-> "answered", nonce |-> tx.nonce, answer |-> answer,
                 txs |-> sweep[s].txs \ {tx}]
<1>5. /\ w \in SweepState /\ w.pc = "answered" /\ w.nonce = tx.nonce
      /\ w.answer = answer /\ w.txs \subseteq sweep[s].txs
  BY <1>1, <1>2, <1>3 DEF SweepState, Answer
<1>6. sweep' = [sweep EXCEPT ![s] = w]
  BY <1>2
<1> HIDE DEF w
<1>7. /\ pool' \in [Nonce -> [action : Nat, fee : Nat]]
      /\ Pending' \subseteq Pending \cup {tx.nonce}
      /\ answer = "nonce_too_low" => tx.nonce < count
  BY <1>2, <1>3, <1>4, NodeAnswersType
<1>8. \A t \in sweep[s].txs : t.nonce \in Swept
  BY <1>1 DEF Swept, Tx
<1>9. /\ rows' \in [Nonce -> Row] /\ \A n \in Nonce : rows'[n].age >= -1
      /\ Used' = Used
  BY <1>2, <1>3, FeeTable DEF Used, Inv
<1>10. Pending' \subseteq Pending \cup Swept
  BY <1>7, <1>8
<1> QED
  BY <1>4, <1>5, <1>6, <1>7, <1>8, <1>9, <1>10, SweepStep

LEMMA ResubmittedStep ==
  ASSUME NEW s \in Sweep
  PROVE  Inv /\ Resubmitted(s) => Inv'
<1> SUFFICES ASSUME Inv, Resubmitted(s)
             PROVE  Inv'
  OBVIOUS
<1>1. /\ sweep[s].pc = "answered" /\ sweep[s].txs \in SUBSET Tx
      /\ sweep[s].nonce \in Nonce
  BY PhaseTypes DEF Resubmitted, Inv
<1>2. UNCHANGED <<actionQueue, pushed, submit, count, pool>>
  BY DEF Resubmitted, chain
<1> DEFINE w == Resubmitting(sweep[s].txs)
<1>3. sweep' = [sweep EXCEPT ![s] = w]
  BY DEF Resubmitted
<1>4. /\ w \in SweepState /\ w.pc \in {"done", "sending"}
      /\ w.pc = "sending" => w.txs = sweep[s].txs
  BY <1>1 DEF Resubmitting, SweepState, Done
<1> HIDE DEF w
<1>5. \A t \in sweep[s].txs : t.nonce \in Swept
  BY <1>1 DEF Swept, Tx
<1>6. /\ rows' \in [Nonce -> Row] /\ \A n \in Nonce : rows'[n].age >= -1
      /\ Used' \subseteq Used /\ \A m \in Used : m >= count => m \in Used'
  <2>1. CASE sweep[s].answer = "nonce_too_low"
    <3>1. rows' = Deleted(rows, {sweep[s].nonce})
      BY <2>1 DEF Resubmitted
    <3>2. sweep[s].nonce < count /\ count \in Nat /\ sweep[s].nonce \in Nat
      BY <1>1, <2>1, SubmissionAssumption DEF Inv, AnswersAreOld, Types, Nonce
    <3>3. Used' = Used \ {sweep[s].nonce}
      BY <3>1, DeletedTable DEF Inv, Used
    <3> QED
      BY <3>1, <3>2, <3>3, DeletedTable DEF Inv
  <2>2. CASE sweep[s].answer # "nonce_too_low"
    <3>1. rows' = rows
      BY <2>2 DEF Resubmitted
    <3> QED
      BY <3>1 DEF Inv, Types, Used
  <2> QED
    BY <2>1, <2>2
<1>7. pool' \in [Nonce -> [action : Nat, fee : Nat]] /\ Pending' = Pending
  BY <1>2 DEF Inv, Types, Pending
<1> QED
  BY <1>2, <1>3, <1>4, <1>5, <1>6, <1>7, SweepStep

-----------------------------------------------------------------------------
(* The chain and the end of the process.                                   *)
LEMMA MineStep == Inv /\ Mine => Inv'
<1> SUFFICES ASSUME Inv, Mine
             PROVE  Inv'
  OBVIOUS
<1>1. /\ count \in Nat /\ count \in Nonce /\ count' = count + 1
      /\ pool' = [pool EXCEPT ![count] = NoTx]
  BY DEF Inv, Types, Mine
<1>2. UNCHANGED <<rows, sweep, actionQueue, submit, pushed>>
  BY DEF Mine, storage
<1>3. pool' \in [Nonce -> [action : Nat, fee : Nat]]
  BY <1>1 DEF Inv, Types, NoTx
<1>4. Pending' \subseteq Pending
  BY <1>1, SubmissionAssumption DEF Inv, Types, Pending, Nonce
<1>5. Types'
  BY <1>1, <1>2, <1>3 DEF Inv, Types
<1>6. AnswersAreOld'
  <2>1. submit.pc = "asking" => submit.asked \in Nat
    BY PhaseTypes DEF Inv
  <2>2. \A s \in Sweep : /\ sweep[s].pc = "asking" => sweep[s].asked \in Nat
                         /\ sweep[s].pc = "answered" => sweep[s].nonce \in Nat
    BY PhaseTypes, SubmissionAssumption DEF Inv, Nonce
  <2> QED
    BY <1>1, <1>2, <2>1, <2>2 DEF Inv, AnswersAreOld
<1>7. Used' = Used /\ Submitted' = Submitted /\ Swept' = Swept
  BY <1>2 DEF Used, Submitted, Swept
<1> QED
  BY <1>1, <1>4, <1>5, <1>6, <1>7, NothingNewHeld

LEMMA EvictStep == Inv /\ Evict => Inv'
<1> SUFFICES ASSUME Inv, Evict
             PROVE  Inv'
  OBVIOUS
<1>1. PICK n \in Nonce : pool' = [pool EXCEPT ![n] = NoTx]
  BY DEF Evict
<1>2. UNCHANGED <<rows, sweep, actionQueue, submit, pushed, count>>
  BY DEF Evict, storage
<1>3. pool' \in [Nonce -> [action : Nat, fee : Nat]] /\ Pending' \subseteq Pending
  BY <1>1, <1>2 DEF Inv, Types, NoTx, Pending
<1>4. Types' /\ AnswersAreOld'
  BY <1>2, <1>3 DEF Inv, Types, AnswersAreOld
<1>5. Used' = Used /\ Submitted' = Submitted /\ Swept' = Swept /\ count' >= count
  BY <1>2 DEF Used, Submitted, Swept, Inv, Types
<1> QED
  BY <1>3, <1>4, <1>5, NothingNewHeld

LEMMA RestartStep == Inv /\ Restart => Inv'
<1> SUFFICES ASSUME Inv, Restart
             PROVE  Inv'
  OBVIOUS
<1>1. UNCHANGED <<rows, actionQueue, pushed, count, pool>>
  BY DEF Restart, storage, chain
<1>2. submit' = None /\ sweep' = [s \in Sweep |-> Done]
  BY DEF Restart
<1>3. Types'
  BY <1>1, <1>2 DEF Inv, Types, Submit, None, SweepState, Done
<1>4. AnswersAreOld'
  BY <1>2 DEF AnswersAreOld, None, Done
<1>5. Submitted' = {} /\ Swept' = {}
  BY <1>2 DEF Submitted, Swept, None, Done
<1>6. Used' = Used /\ Pending' = Pending /\ count' >= count
  BY <1>1 DEF Used, Pending, Inv, Types
<1> QED
  BY <1>3, <1>4, <1>5, <1>6, NothingNewHeld

(* Steps that leave everything the invariant speaks of as it is.           *)
LEMMA UnchangedStep ==
  Inv /\ UNCHANGED <<actionQueue, pushed, rows, submit, sweep, count, pool>> => Inv'
BY DEF Inv, Types, StoredBelow, SubmittedIsLast, AnswersAreOld,
       Held, Used, Pending, Submitted, Swept

LEMMA InvStep == Inv /\ [Next]_vars => Inv'
<1> SUFFICES ASSUME Inv, [Next]_vars
             PROVE  Inv'
  OBVIOUS
<1>1. CASE Process
  BY <1>1, ProcessStep
<1>2. CASE RetryTimer
  BY <1>2, RetryTimerStep
<1>3. CASE Submission
  BY <1>3, CountFailsStep, ReserveNonceStep, SendStep, EstimateFailsStep,
     SendSucceedsStep, SendFailsStep, SendLeftStep DEF Submission
<1>4. CASE \E s \in Sweep : NewBlock(s) \/ Sweeping(s)
  BY <1>4, NewBlockStep, MarkExecutedStep, SweepFailsStep, ResubmitStep, ResubmittedStep
     DEF Sweeping
<1>5. CASE Mine
  BY <1>5, MineStep
<1>6. CASE Evict
  BY <1>6, EvictStep
<1>7. CASE Expire
  BY <1>7, UnchangedStep DEF Expire, storage, chain
<1>8. CASE Restart
  BY <1>8, RestartStep
<1>9. CASE UNCHANGED vars
  BY <1>9, UnchangedStep DEF vars, storage, chain
<1> QED
  BY <1>1, <1>2, <1>3, <1>4, <1>5, <1>6, <1>7, <1>8, <1>9 DEF Next

(* Below what is stored or pending, every nonce of the account is stored.  *)
LEMMA InvNoNonceGap == Inv => NoNonceGap
<1> SUFFICES ASSUME Inv, NEW n \in Used \cup Pending, NEW m \in count..n
             PROVE  m \in Used \cup Pending
  BY DEF NoNonceGap
<1>1. /\ n \in Nonce /\ n \in Nat /\ n <= MaxNonce /\ count \in Nat
      /\ m \in Nat /\ count <= m /\ m <= n
  BY SubmissionAssumption DEF Inv, Types, Used, Pending, Nonce
<1>2. m \in Nonce /\ n \in Held
  BY <1>1, SubmissionAssumption DEF Held, Nonce
<1> QED
  BY <1>1, <1>2 DEF Inv, StoredBelow

(* A validator's account is never stuck: whatever fails, expires, is       *)
(* evicted or interrupted, no nonce is skipped below a transaction that is *)
(* stored or pending (submitAction, checkPendingActions).                  *)
THEOREM NoNonceGapHolds == Spec => []NoNonceGap
<1>1. Init => Inv
  BY InvInit
<1>2. Inv /\ [Next]_vars => Inv'
  BY InvStep
<1>3. Inv => NoNonceGap
  BY InvNoNonceGap
<1> QED
  BY <1>1, <1>2, <1>3, PTL DEF Spec
-----------------------------------------------------------------------------
(***************************************************************************)
(* Types.  The transactions of a sweep are what the table and the node are *)
(* given, and what is pushed bounds the names of the actions.              *)
(***************************************************************************)
PageTx == [nonce : Nonce, action : 0..MaxActions, fee : 0..MaxFee]
Pages ==
  \A s \in Sweep : sweep[s].pc \in {"sending", "answered"} => sweep[s].txs \subseteq PageTx

Ranges == TypeOK /\ pushed <= MaxActions /\ Pages

(* q is what is left of p without some actions at its head.                *)
SuffixOf(q, p) ==
  \E d \in 0..Len(p) : Len(q) = Len(p) - d /\ \A i \in 1..Len(q) : q[i] = p[i + d]

LEMMA LiveSuffix ==
  ASSUME NEW q \in Seq(Nat \ {0})
  PROVE  SuffixOf(Live(q), q)
<1> DEFINE dropped == {i \in 1..Len(q) : \A j \in 1..i : q[j] \in expired}
           d == Cardinality(dropped)
<1>1. IsFiniteSet(1..Len(q)) /\ Cardinality(1..Len(q)) = Len(q)
  <2>1. Len(q) \in Nat
    OBVIOUS
  <2>2. /\ IsFiniteSet(1..Len(q))
        /\ Cardinality(1..Len(q)) = IF 1 > Len(q) THEN 0 ELSE Len(q) - 1 + 1
    BY <2>1, FS_Interval
  <2> QED
    BY <2>1, <2>2
<1>2. dropped \subseteq 1..Len(q)
  OBVIOUS
<1>3. d \in Nat /\ d <= Len(q)
  <2> HIDE DEF dropped
  <2>1. IsFiniteSet(dropped) /\ Cardinality(dropped) <= Cardinality(1..Len(q))
    BY <1>1, <1>2, FS_Subset, Zenon
  <2>2. Cardinality(dropped) \in Nat
    BY <2>1, FS_CardinalityType
  <2> QED
    BY <1>1, <2>1, <2>2
<1>4. Live(q) = SubSeq(q, d + 1, Len(q))
  BY DEF Live
<1> HIDE DEF d
<1>5. /\ Len(Live(q)) = Len(q) - d
      /\ \A i \in 1..Len(Live(q)) : Live(q)[i] = q[i + d]
  BY <1>3, <1>4
<1>6. d \in 0..Len(q)
  BY <1>3
<1> QED
  BY <1>5, <1>6, Zenon DEF SuffixOf

LEMMA SuffixOfSuffix ==
  ASSUME NEW p \in Seq(Nat), NEW q \in Seq(Nat), NEW r \in Seq(Nat),
         SuffixOf(q, p), SuffixOf(r, q)
  PROVE  SuffixOf(r, p)
<1>1. PICK d \in 0..Len(p) : Len(q) = Len(p) - d /\ \A i \in 1..Len(q) : q[i] = p[i + d]
  BY DEF SuffixOf
<1>2. PICK e \in 0..Len(q) : Len(r) = Len(q) - e /\ \A i \in 1..Len(r) : r[i] = q[i + e]
  BY DEF SuffixOf
<1>3. d + e \in 0..Len(p) /\ Len(r) = Len(p) - (d + e)
  BY <1>1, <1>2
<1>4. \A i \in 1..Len(r) : r[i] = p[i + (d + e)]
  <2> TAKE i \in 1..Len(r)
  <2>1. i + e \in 1..Len(q) /\ i + (d + e) = (i + e) + d
    BY <1>2
  <2>2. q[i + e] = p[(i + e) + d]
    BY <1>1, <2>1
  <2> QED
    BY <1>2, <2>1, <2>2
<1> QED
  BY <1>3, <1>4 DEF SuffixOf

(* Every step leaves a rest of the queue, to which an action may be added, *)
(* and submits the head of what it leaves.                                 *)
QueueMoves ==
  /\ \/ pushed' = pushed /\ SuffixOf(actionQueue', actionQueue)
     \/ /\ pushed' = pushed + 1 /\ pushed' <= MaxActions
        /\ SuffixOf(actionQueue', Append(actionQueue, pushed + 1))
  /\ submit'.pc # "none" => submit'.action = Head(actionQueue')

LEMMA QueueKept ==
  ASSUME Inv, UNCHANGED <<actionQueue, pushed>>,
         submit'.pc # "none" => submit'.action = Head(actionQueue)
  PROVE  QueueMoves
<1>1. SuffixOf(actionQueue, actionQueue)
  <2>1. actionQueue \in Seq(Nat \ {0})
    BY DEF Inv, Types
  <2> QED
    BY <2>1 DEF SuffixOf
<1> QED
  BY <1>1 DEF QueueMoves

LEMMA CheckedSuffix ==
  ASSUME NEW q \in Seq(Nat \ {0}), CheckNextAction(q)
  PROVE  /\ SuffixOf(actionQueue', q)
         /\ submit'.pc # "none" => submit'.action = Head(actionQueue')
BY LiveSuffix DEF CheckNextAction, None, Asking

LEMMA SentMoves ==
  ASSUME Inv, submit.pc = "answered", ActionSent, UNCHANGED pushed
  PROVE  QueueMoves
<1>1. actionQueue \in Seq(Nat \ {0}) /\ actionQueue # <<>>
  BY DEF Inv, Types
<1> DEFINE q == Tail(actionQueue)
<1>2. q \in Seq(Nat \ {0}) /\ Len(q) = Len(actionQueue) - 1
      /\ \A i \in 1..Len(q) : q[i] = actionQueue[i + 1]
  BY <1>1
<1>3. CheckNextAction(q)
  BY DEF ActionSent
<1> HIDE DEF q
<1>4. SuffixOf(q, actionQueue)
  BY <1>1, <1>2 DEF SuffixOf
<1>5. actionQueue' \in Seq(Nat \ {0})
  BY <1>2, <1>3, CheckNextActionType DEF Inv, Types
<1>6. actionQueue \in Seq(Nat) /\ q \in Seq(Nat) /\ actionQueue' \in Seq(Nat)
  BY <1>1, <1>2, <1>5
<1>7. SuffixOf(actionQueue', actionQueue)
  BY <1>2, <1>3, <1>4, <1>6, CheckedSuffix, SuffixOfSuffix
<1> QED
  BY <1>2, <1>3, <1>7, CheckedSuffix DEF QueueMoves

LEMMA NextQueueMoves ==
  ASSUME Inv, TypeOK, [Next]_vars
  PROVE  QueueMoves
<1>1. submit.pc # "none" => submit.action = Head(actionQueue)
  BY DEF TypeOK
<1>2. actionQueue \in Seq(Nat \ {0}) /\ pushed \in Nat
  BY DEF Inv, Types
<1>3. CASE Process
  <2> DEFINE q == Append(actionQueue, pushed + 1)
  <2>1. /\ q \in Seq(Nat \ {0}) /\ (actionQueue # <<>> => Head(q) = Head(actionQueue))
        /\ Len(q) \in Nat
    BY <1>2
  <2>2. pushed' = pushed + 1 /\ pushed' <= MaxActions
    BY <1>2, <1>3, SubmissionAssumption DEF Process
  <2>3. \/ CheckNextAction(q)
        \/ submit # None /\ actionQueue' = q /\ UNCHANGED submit
    BY <1>3 DEF Process
  <2>4. SuffixOf(q, q)
    <3> HIDE DEF q
    <3> QED
      BY <2>1 DEF SuffixOf
  <2>5. submit.pc # "none" => actionQueue # <<>>
    BY DEF Inv, Types
  <2> HIDE DEF q
  <2>6. /\ SuffixOf(actionQueue', q)
        /\ submit'.pc # "none" => submit'.action = Head(actionQueue')
    BY <1>1, <2>1, <2>3, <2>4, <2>5, CheckedSuffix
  <2> QED
    BY <2>2, <2>6 DEF QueueMoves, q
<1>4. CASE RetryTimer
  BY <1>2, <1>4, CheckedSuffix DEF RetryTimer, QueueMoves
<1>5. CASE CountFails
  BY <1>5, QueueKept DEF CountFails, ActionFails, None
<1>6. CASE ReserveNonce
  BY <1>1, <1>6, QueueKept DEF ReserveNonce, Sending
<1>7. CASE Send
  BY <1>1, <1>7, QueueKept DEF Send, Answered
<1>8. CASE EstimateFails
  BY <1>1, <1>8, QueueKept DEF EstimateFails, Answered, storage
<1>9. CASE SendSucceeds
  BY <1>9, SentMoves DEF SendSucceeds
<1>10. CASE SendFails
  BY <1>10, QueueKept DEF SendFails, ActionFails, None
<1>11. CASE SendLeft
  BY <1>11, SentMoves DEF SendLeft
<1>12. CASE \E s \in Sweep : NewBlock(s) \/ Sweeping(s)
  BY <1>1, <1>12, QueueKept
     DEF NewBlock, Sweeping, MarkExecuted, SweepFails, Resubmit, Resubmitted, storage
<1>13. CASE Mine \/ Evict \/ Expire \/ Restart \/ UNCHANGED vars
  BY <1>1, <1>13, QueueKept DEF Mine, Evict, Expire, Restart, vars, storage, None
<1> QED
  BY <1>3, <1>4, <1>5, <1>6, <1>7, <1>8, <1>9, <1>10, <1>11, <1>12, <1>13
     DEF Next, Submission
StoredRow == [action : 0..MaxActions, age : -1..MaxAge, fee : 0..MaxFee]
PoolTx == [action : 0..MaxActions, fee : 0..MaxFee]

LEMMA QueueInRange ==
  ASSUME Inv, Inv', Ranges, QueueMoves
  PROVE  /\ actionQueue' \in Seq(Action) /\ pushed' <= MaxActions
         /\ submit'.pc # "none" => actionQueue' # <<>> /\ submit'.action = Head(actionQueue')
<1>1. /\ actionQueue \in Seq(Nat \ {0}) /\ actionQueue' \in Seq(Nat \ {0})
      /\ pushed \in Nat /\ pushed' \in Nat
      /\ submit'.pc # "none" => actionQueue' # <<>>
  BY DEF Inv, Types
<1>2. actionQueue \in Seq(Action) /\ pushed <= MaxActions /\ MaxActions \in Nat
  BY SubmissionAssumption DEF Ranges, TypeOK
<1>3. PICK p \in Seq(Action) : SuffixOf(actionQueue', p) /\ pushed' <= MaxActions
  <2>1. CASE pushed' = pushed /\ SuffixOf(actionQueue', actionQueue)
    BY <1>2, <2>1
  <2>2. CASE /\ pushed' = pushed + 1 /\ pushed' <= MaxActions
             /\ SuffixOf(actionQueue', Append(actionQueue, pushed + 1))
    <3> DEFINE a == pushed + 1
    <3>1. a \in Action
      BY <1>1, <1>2, <2>2 DEF Action
    <3> HIDE DEF a
    <3>2. Append(actionQueue, a) \in Seq(Action)
      BY <1>2, <3>1
    <3> QED
      BY <2>2, <3>2 DEF a
  <2> QED
    BY <2>1, <2>2 DEF QueueMoves
<1>4. \A i \in 1..Len(actionQueue') : actionQueue'[i] \in Action
  <2>1. PICK d \in 0..Len(p) : /\ Len(actionQueue') = Len(p) - d
                               /\ \A i \in 1..Len(actionQueue') : actionQueue'[i] = p[i + d]
    BY <1>3 DEF SuffixOf
  <2> TAKE i \in 1..Len(actionQueue')
  <2>2. i + d \in 1..Len(p)
    BY <2>1
  <2> QED
    BY <2>1, <2>2
<1> QED
  BY <1>1, <1>3, <1>4 DEF QueueMoves

LEMMA BumpedInRange ==
  ASSUME NEW fee \in Nat
  PROVE  BumpedFee(fee) \in 0..MaxFee
BY SubmissionAssumption DEF BumpedFee, Least

LEMMA DeletedInRange ==
  ASSUME Ranges, NEW nonces
  PROVE  Deleted(rows, nonces) \in [Nonce -> StoredRow]
BY SubmissionAssumption DEF Ranges, TypeOK, Deleted, StoredRow, NoRow, Unsubmitted

LEMMA FeeInRange ==
  ASSUME Ranges, NEW nonce \in Nonce, NEW fee \in Nat
  PROVE  WithFee(rows, nonce, BumpedFee(fee)) \in [Nonce -> StoredRow]
<1>1. BumpedFee(fee) \in 0..MaxFee /\ rows \in [Nonce -> StoredRow]
  BY BumpedInRange DEF Ranges, TypeOK, StoredRow
<1>2. [rows EXCEPT ![nonce].fee = BumpedFee(fee)] \in [Nonce -> StoredRow]
  <2> DEFINE f == BumpedFee(fee)
             row == [rows[nonce] EXCEPT !.fee = f]
  <2>1. f \in 0..MaxFee
    BY <1>1
  <2> HIDE DEF f
  <2>2. row \in StoredRow
    BY <1>1, <2>1 DEF StoredRow
  <2>3. [rows EXCEPT ![nonce].fee = f] = [rows EXCEPT ![nonce] = row]
    OBVIOUS
  <2> HIDE DEF row
  <2>4. [rows EXCEPT ![nonce] = row] \in [Nonce -> StoredRow]
    BY <1>1, <2>2
  <2> QED
    BY <2>3, <2>4 DEF f
<1> QED
  BY <1>1, <1>2, Zenon DEF WithFee

LEMMA MarkedInRange ==
  ASSUME Ranges
  PROVE  Marked \in [Nonce -> StoredRow]
<1> DEFINE age(n) == Least(MaxAge, rows[n].age + 1)
           aged(n) == [rows[n] EXCEPT !.age = age(n)]
<1>1. NoRow \in StoredRow /\ rows \in [Nonce -> StoredRow]
  BY SubmissionAssumption DEF Ranges, TypeOK, NoRow, StoredRow, Unsubmitted
<1>2. \A n \in Nonce : aged(n) \in StoredRow
  <2> TAKE n \in Nonce
  <2>1. rows[n] \in StoredRow
    BY <1>1
  <2>2. age(n) \in -1..MaxAge
    BY <2>1, SubmissionAssumption DEF Least, StoredRow
  <2> HIDE DEF age
  <2> QED
    BY <2>1, <2>2 DEF StoredRow
<1>3. Marked = [n \in Nonce |-> IF rows[n] = NoRow THEN NoRow ELSE aged(n)]
  BY Zenon DEF Marked
<1> HIDE DEF aged
<1> QED
  BY <1>1, <1>2, <1>3

(* What a sweep reads from a table in range is in range.                   *)
LEMMA PageInRange ==
  ASSUME NEW table \in [Nonce -> StoredRow], NEW lag
  PROVE  SubmittedUpTo(table, lag) \subseteq PageTx
<1> DEFINE due == {n \in Nonce : table[n] # NoRow
                     /\ table[n].age >= Least(MaxAge, blocksBeforeResubmit + lag)}
           page == {m \in due : Cardinality({k \in due : k < m}) < PageLimit}
           tx(n) == [nonce |-> n, action |-> table[n].action, fee |-> table[n].fee]
<1>1. SubmittedUpTo(table, lag) = {tx(n) : n \in page}
  BY DEF SubmittedUpTo
<1>2. page \subseteq Nonce
  OBVIOUS
<1> HIDE DEF page
<1>3. \A n \in page : tx(n) \in PageTx
  BY <1>2 DEF PageTx, StoredRow
<1> HIDE DEF tx
<1> QED
  BY <1>1, <1>3

LEMMA NodeInRange ==
  ASSUME Ranges, NEW nonce \in Nonce, NEW action \in 0..MaxActions, NEW fee \in Nat,
         NEW answer, NodeAnswers(nonce, action, BumpedFee(fee), answer)
  PROVE  pool' \in [Nonce -> PoolTx]
<1>1. BumpedFee(fee) \in 0..MaxFee /\ pool \in [Nonce -> PoolTx]
  BY BumpedInRange DEF Ranges, TypeOK, PoolTx
<1> DEFINE tx == [action |-> action, fee |-> BumpedFee(fee)]
<1>2. tx \in PoolTx
  BY <1>1 DEF PoolTx
<1>3. pool' = pool \/ pool' = [pool EXCEPT ![nonce] = tx]
  BY DEF NodeAnswers
<1> HIDE DEF tx
<1> QED
  BY <1>1, <1>2, <1>3

(* The parts that the queue does not decide.                               *)
Rest ==
  /\ expired \subseteq Action
  /\ rows \in [Nonce -> StoredRow]
  /\ pool \in [Nonce -> PoolTx]
  /\ count \in 0..MaxNonce + 1
  /\ Pages

LEMMA RangesOf ==
  ASSUME Inv, Inv', Ranges, QueueMoves, Rest'
  PROVE  Ranges'
<1>1. pushed' <= MaxActions /\ Pages'
  BY QueueInRange DEF Rest
<1>2. TypeOK'
  BY QueueInRange, Zenon DEF Rest, TypeOK, StoredRow, PoolTx
<1> QED
  BY <1>1, <1>2 DEF Ranges

LEMMA RangesRest == Ranges => Rest
BY DEF Ranges, TypeOK, Rest, StoredRow, PoolTx

LEMMA InitRanges == Init => Ranges
<1> SUFFICES ASSUME Init
             PROVE  Ranges
  OBVIOUS
<1> USE SubmissionAssumption
<1>1. NoRow \in StoredRow /\ NoTx \in PoolTx
  BY DEF NoRow, NoTx, StoredRow, PoolTx, Unsubmitted
<1>2. rows \in [Nonce -> StoredRow] /\ pool \in [Nonce -> PoolTx]
  BY <1>1 DEF Init
<1>3. TypeOK
  BY <1>2 DEF Init, TypeOK, StoredRow, PoolTx, None
<1>4. Pages /\ pushed <= MaxActions
  BY DEF Init, Pages, Done
<1> QED
  BY <1>3, <1>4 DEF Ranges

(* A sweep that goes on to w with transactions in range.                   *)
LEMMA PagesKept ==
  ASSUME Inv, Ranges, NEW s \in Sweep, NEW w, sweep' = [sweep EXCEPT ![s] = w],
         w.pc \in {"sending", "answered"} => w.txs \subseteq PageTx
  PROVE  Pages'
<1>1. \A t \in Sweep : sweep'[t] = IF t = s THEN w ELSE sweep[t]
  BY DEF Inv, Types
<1> QED
  BY <1>1 DEF Ranges, Pages

LEMMA RestStep ==
  ASSUME Inv, Ranges, [Next]_vars
  PROVE  Rest'
<1> USE RangesRest
<1>1. /\ submit.pc \in {"sending", "answered"} =>
           submit.action \in 0..MaxActions /\ submit.nonce \in Nonce
  <2> SUFFICES ASSUME submit.pc \in {"sending", "answered"}
               PROVE  submit.action \in 0..MaxActions /\ submit.nonce \in Nonce
    OBVIOUS
  <2>1. submit \in Submitting
    BY PhaseTypes DEF Inv
  <2>2. actionQueue \in Seq(Action) /\ actionQueue # <<>> /\ submit.action = Head(actionQueue)
    BY DEF Ranges, TypeOK
  <2>3. submit.action \in Action
    BY <2>2
  <2> QED
    BY <2>1, <2>3 DEF Submitting, Action
<1>2. ASSUME UNCHANGED <<expired, rows, sweep, count, pool>>
      PROVE  Rest'
  BY <1>2 DEF Rest, Pages
<1>3. CASE Process \/ RetryTimer \/ CountFails \/ EstimateFails \/ SendSucceeds \/ SendLeft
           \/ UNCHANGED vars
  BY <1>2, <1>3 DEF Process, RetryTimer, CountFails, EstimateFails, SendSucceeds, SendLeft,
                    vars, chain, storage
<1>4. CASE ReserveNonce
  <2>1. PICK nonce \in Nonce : rows' = [rows EXCEPT ![nonce] = [NoRow EXCEPT !.action = submit.action]]
    BY <1>4 DEF ReserveNonce
  <2> DEFINE row == [NoRow EXCEPT !.action = submit.action]
  <2>2. submit.action \in 0..MaxActions
    <3>1. actionQueue \in Seq(Action) /\ actionQueue # <<>> /\ submit.action = Head(actionQueue)
      BY <1>4 DEF Ranges, TypeOK, ReserveNonce
    <3>2. submit.action \in Action
      BY <3>1
    <3> QED
      BY <3>2 DEF Action
  <2>3. row \in StoredRow
    BY <2>2, SubmissionAssumption DEF NoRow, StoredRow, Unsubmitted
  <2> HIDE DEF row
  <2>4. rows' = [rows EXCEPT ![nonce] = row]
    BY <2>1 DEF row
  <2>5. rows' \in [Nonce -> StoredRow]
    BY <2>3, <2>4 DEF Rest
  <2> QED
    BY <1>4, <2>5 DEF Rest, Pages, ReserveNonce, chain
<1>5. CASE Send
  <2>1. rows' \in [Nonce -> StoredRow]
    BY <1>1, <1>5, FeeInRange DEF Send
  <2>2. pool' \in [Nonce -> PoolTx]
    BY <1>1, <1>5, NodeInRange DEF Send
  <2> QED
    BY <1>5, <2>1, <2>2 DEF Rest, Pages, Send
<1>6. CASE SendFails
  <2>1. rows' \in [Nonce -> StoredRow]
    BY <1>6, DeletedInRange DEF SendFails
  <2> QED
    BY <1>6, <2>1 DEF Rest, Pages, SendFails, chain
<1>7. ASSUME NEW s \in Sweep, NewBlock(s)
      PROVE  Rest'
  <2>1. rows' \in [Nonce -> StoredRow]
    BY <1>7, MarkedInRange DEF NewBlock
  <2>2. Pages'
    <3> SUFFICES ASSUME NEW t \in Sweep, sweep'[t].pc \in {"sending", "answered"}
                 PROVE  sweep'[t].txs \subseteq PageTx
      BY DEF Pages
    <3>1. sweep'[t] = IF t = s THEN [pc |-> "asking", asked |-> count, lag |-> 0]
                      ELSE Older(sweep[t])
      BY <1>7 DEF NewBlock
    <3>2. t # s /\ sweep'[t] = Older(sweep[t])
      BY <3>1
    <3>3. CASE sweep[t].pc = "asking"
      <4>1. sweep[t] \in [pc : {"asking"}, asked : Nat, lag : Int]
        BY <3>3 DEF Inv, Types, SweepState, Done
      <4> QED
        BY <3>2, <3>3, <4>1 DEF Older
    <3>4. CASE sweep[t].pc # "asking"
      BY <3>2, <3>4 DEF Older, Rest, Pages
    <3> QED
      BY <3>3, <3>4
  <2> QED
    BY <1>7, <2>1, <2>2 DEF Rest, NewBlock, chain
<1>8. ASSUME NEW s \in Sweep, MarkExecuted(s)
      PROVE  Rest'
  <2>1. rows' \in [Nonce -> StoredRow]
    BY <1>8, DeletedInRange DEF MarkExecuted
  <2> DEFINE txs == SubmittedUpTo(rows', sweep[s].lag)
  <2>2. txs \subseteq PageTx
    BY <2>1, PageInRange
  <2>3. sweep' = [sweep EXCEPT ![s] = Resubmitting(txs)]
    BY <1>8 DEF MarkExecuted
  <2> HIDE DEF txs
  <2> DEFINE w == Resubmitting(txs)
  <2>4. w.pc \in {"sending", "answered"} => w.txs \subseteq PageTx
    BY <2>2 DEF Resubmitting, Done
  <2> HIDE DEF w
  <2>5. Pages'
    BY <2>3, <2>4, PagesKept DEF w
  <2> QED
    BY <1>8, <2>1, <2>5 DEF Rest, MarkExecuted, chain
<1>9. ASSUME NEW s \in Sweep, SweepFails(s)
      PROVE  Rest'
  <2>1. Pages'
    BY <1>9, PagesKept DEF SweepFails, Done
  <2> QED
    BY <1>9, <2>1 DEF Rest, SweepFails, chain, storage
<1>10. ASSUME NEW s \in Sweep, Resubmit(s)
       PROVE  Rest'
  <2>1. sweep[s].txs \subseteq PageTx
    BY <1>10 DEF Resubmit, Rest, Pages
  <2>2. PICK tx \in sweep[s].txs, answer \in {"ok", "error", "nonce_too_low"} :
          /\ NodeAnswers(tx.nonce, tx.action, BumpedFee(tx.fee), answer)
          /\ rows' = WithFee(rows, tx.nonce, BumpedFee(tx.fee))
          /\ sweep' = [sweep EXCEPT ![s] =
                         [pc |-> "answered", nonce |-> tx.nonce, answer |-> answer,
                          txs |-> sweep[s].txs \ {tx}]]
    BY <1>10 DEF Resubmit
  <2>3. tx.nonce \in Nonce /\ tx.action \in 0..MaxActions /\ tx.fee \in Nat
    BY <2>1, SubmissionAssumption DEF PageTx
  <2>4. rows' \in [Nonce -> StoredRow] /\ pool' \in [Nonce -> PoolTx]
    BY <2>2, <2>3, FeeInRange, NodeInRange
  <2> DEFINE w == [pc |-> "answered", nonce |-> tx.nonce, answer |-> answer,
                   txs |-> sweep[s].txs \ {tx}]
  <2>5. sweep' = [sweep EXCEPT ![s] = w] /\ w.txs \subseteq PageTx
    BY <2>1, <2>2
  <2> HIDE DEF w
  <2>6. Pages'
    BY <2>5, PagesKept
  <2> QED
    BY <1>10, <2>4, <2>6 DEF Rest, Resubmit
<1>11. ASSUME NEW s \in Sweep, Resubmitted(s)
       PROVE  Rest'
  <2>1. sweep[s].txs \subseteq PageTx
    BY <1>11 DEF Resubmitted, Rest, Pages
  <2>2. rows' \in [Nonce -> StoredRow]
    BY <1>11, DeletedInRange DEF Resubmitted, Rest
  <2>3. Pages'
    BY <1>11, <2>1, PagesKept DEF Resubmitted, Resubmitting, Done
  <2> QED
    BY <1>11, <2>2, <2>3 DEF Rest, Resubmitted, chain
<1>12. CASE Mine
  <2>1. pool' \in [Nonce -> PoolTx] /\ count' \in 0..MaxNonce + 1
    BY <1>12, SubmissionAssumption DEF Mine, Rest, NoTx, PoolTx, Nonce
  <2> QED
    BY <1>12, <2>1 DEF Rest, Pages, Mine, storage
<1>13. CASE Evict
  <2>1. pool' \in [Nonce -> PoolTx]
    BY <1>13, SubmissionAssumption DEF Evict, Rest, NoTx, PoolTx
  <2> QED
    BY <1>13, <2>1 DEF Rest, Pages, Evict, storage
<1>14. CASE Expire
  <2>1. actionQueue \in Seq(Action)
    BY DEF Ranges, TypeOK
  <2>2. ToSet(actionQueue) \subseteq Action
    BY <2>1 DEF ToSet
  <2> QED
    BY <1>14, <2>2 DEF Rest, Pages, Expire, storage, chain
<1>15. CASE Restart
  BY <1>15 DEF Rest, Pages, Restart, storage, chain, Done
<1> QED
  BY <1>3, <1>4, <1>5, <1>6, <1>7, <1>8, <1>9, <1>10, <1>11, <1>12, <1>13, <1>14, <1>15
     DEF Next, Submission, Sweeping

LEMMA RangesStep == Inv /\ Ranges /\ [Next]_vars => Ranges'
<1> SUFFICES ASSUME Inv, Ranges, [Next]_vars
             PROVE  Ranges'
  OBVIOUS
<1>1. Inv' /\ QueueMoves /\ Rest'
  BY InvStep, NextQueueMoves, RestStep DEF Ranges
<1> QED
  BY <1>1, RangesOf

(* The queue, the table, the node's transactions and the nonces stay in    *)
(* the ranges that the bounds give, and the action being submitted is the  *)
(* head of the stored queue (checkNextAction, submitAction).               *)
THEOREM SubmissionTypeCorrect == Spec => []TypeOK
<1>1. Init => Inv /\ Ranges
  BY InvInit, InitRanges
<1>2. Inv /\ Ranges /\ [Next]_vars => Inv' /\ Ranges'
  BY InvStep, RangesStep
<1>3. Ranges => TypeOK
  BY DEF Ranges
<1> QED
  BY <1>1, <1>2, <1>3, PTL DEF Spec
-----------------------------------------------------------------------------
(***************************************************************************)
(* Order.  An offer is a nonce the account has still to use together with  *)
(* an action that somebody has stored, sent or is about to send for it.    *)
(* Two offers of one nonce may be of different actions; offers of a larger *)
(* nonce are of later actions, and all of them are of actions before those *)
(* that wait.                                                              *)
(***************************************************************************)
Offered(n, a) ==
  /\ n >= count
  /\ \/ rows[n] # NoRow /\ rows[n].action = a
     \/ pool[n] # NoTx /\ pool[n].action = a
     \/ submit.pc \in {"sending", "answered"} /\ submit.nonce = n /\ submit.action = a
     \/ \E s \in Sweep : /\ sweep[s].pc \in {"sending", "answered"}
                         /\ \E tx \in sweep[s].txs : tx.nonce = n /\ tx.action = a

Sorted(s) == \A i, j \in 1..Len(s) : i < j => s[i] <= s[j]

(* a was processed before the actions that wait.                           *)
BeforeQueue(a) == a <= pushed /\ \A i \in 1..Len(actionQueue) : a <= actionQueue[i]

QueueOrder ==
  /\ Sorted(actionQueue)
  /\ \A i \in 1..Len(actionQueue) : actionQueue[i] <= pushed
  /\ \A n \in Nonce, a \in Nat : Offered(n, a) => BeforeQueue(a)
  /\ \A i \in 1..Len(executed) : BeforeQueue(executed[i])

OfferOrder ==
  /\ \A n, m \in Nonce, a, b \in Nat :
       Offered(n, a) /\ Offered(m, b) /\ n < m => a <= b
  /\ \A i \in 1..Len(executed), n \in Nonce, a \in Nat : Offered(n, a) => executed[i] <= a

ExecutedOrder ==
  /\ executed \in Seq(Nat)
  /\ Sorted(executed)

Order == QueueOrder /\ OfferOrder /\ ExecutedOrder

(* The queue stays in order when its head goes and a new action comes.     *)
LEMMA QueueOrderKept ==
  ASSUME Inv, Inv', Order, QueueMoves, executed' \in Seq(Nat),
         \A n \in Nonce, a \in Nat : Offered(n, a)' =>
           \/ Offered(n, a)
           \/ a <= pushed /\ \A i \in 1..Len(actionQueue) : a <= actionQueue[i],
         \A i \in 1..Len(executed') :
           \/ \E k \in 1..Len(executed) : executed'[i] = executed[k]
           \/ \E n \in Nonce : Offered(n, executed'[i])
  PROVE  QueueOrder'
<1>1. /\ actionQueue \in Seq(Nat \ {0}) /\ actionQueue' \in Seq(Nat \ {0})
      /\ pushed \in Nat /\ pushed' \in Nat
  BY DEF Inv, Types
<1>2. PICK p \in Seq(Nat) :
        /\ SuffixOf(actionQueue', p) /\ Sorted(p)
        /\ \A i \in 1..Len(p) : p[i] <= pushed'
        /\ \A a \in Nat : BeforeQueue(a) => a <= pushed' /\ \A i \in 1..Len(p) : a <= p[i]
  <2>1. CASE pushed' = pushed /\ SuffixOf(actionQueue', actionQueue)
    <3>1. actionQueue \in Seq(Nat)
      BY <1>1
    <3> QED
      BY <2>1, <3>1 DEF Order, QueueOrder, BeforeQueue
  <2>2. CASE /\ pushed' = pushed + 1
             /\ SuffixOf(actionQueue', Append(actionQueue, pushed + 1))
    <3> DEFINE p == Append(actionQueue, pushed + 1)
    <3>1. /\ p \in Seq(Nat) /\ Len(p) = Len(actionQueue) + 1
          /\ \A i \in 1..Len(p) :
               \/ i \in 1..Len(actionQueue) /\ p[i] = actionQueue[i]
               \/ i = Len(p) /\ p[i] = pushed'
      <4> DEFINE a == pushed + 1
      <4>1. a \in Nat /\ a = pushed' /\ actionQueue \in Seq(Nat)
        BY <1>1, <2>2
      <4> HIDE DEF a
      <4>2. /\ Append(actionQueue, a) \in Seq(Nat)
            /\ Len(Append(actionQueue, a)) = Len(actionQueue) + 1
            /\ \A i \in 1..Len(actionQueue) + 1 :
                 Append(actionQueue, a)[i] = IF i = Len(actionQueue) + 1 THEN a ELSE actionQueue[i]
        BY <4>1
      <4>3. \A i \in 1..Len(actionQueue) + 1 :
              \/ i \in 1..Len(actionQueue) /\ i # Len(actionQueue) + 1
              \/ i = Len(actionQueue) + 1
        BY <1>1
      <4> QED
        BY <4>1, <4>2, <4>3 DEF a
    <3> HIDE DEF p
    <3>2. \A i \in 1..Len(actionQueue) : actionQueue[i] \in Nat /\ actionQueue[i] <= pushed
      BY <1>1 DEF Order, QueueOrder
    <3>3. Sorted(p)
      <4> SUFFICES ASSUME NEW i \in 1..Len(p), NEW j \in 1..Len(p), i < j
                   PROVE  p[i] <= p[j]
        BY DEF Sorted
      <4>1. i \in 1..Len(actionQueue) /\ p[i] = actionQueue[i]
        BY <3>1
      <4>2. CASE j \in 1..Len(actionQueue) /\ p[j] = actionQueue[j]
        BY <4>1, <4>2 DEF Order, QueueOrder, Sorted
      <4>3. CASE p[j] = pushed'
        BY <1>1, <2>2, <3>2, <4>1, <4>3
      <4> QED
        BY <3>1, <4>2, <4>3
    <3>4. \A i \in 1..Len(actionQueue) : actionQueue[i] <= pushed'
      BY <1>1, <2>2, <3>2
    <3>5. \A i \in 1..Len(p) : p[i] <= pushed'
      <4> TAKE i \in 1..Len(p)
      <4>1. CASE i \in 1..Len(actionQueue) /\ p[i] = actionQueue[i]
        BY <3>4, <4>1
      <4>2. CASE p[i] = pushed'
        BY <1>1, <4>2
      <4> QED
        BY <3>1, <4>1, <4>2
    <3>6. ASSUME NEW a \in Nat, BeforeQueue(a)
          PROVE  a <= pushed' /\ \A i \in 1..Len(p) : a <= p[i]
      <4>1. a <= pushed' /\ \A i \in 1..Len(actionQueue) : a <= actionQueue[i]
        BY <1>1, <2>2, <3>6 DEF BeforeQueue
      <4> QED
        BY <3>1, <4>1
    <3> QED
      BY <2>2, <3>1, <3>3, <3>5, <3>6 DEF p
  <2> QED
    BY <2>1, <2>2 DEF QueueMoves
<1>3. PICK d \in 0..Len(p) : /\ Len(actionQueue') = Len(p) - d
                             /\ \A i \in 1..Len(actionQueue') : actionQueue'[i] = p[i + d]
  BY <1>2 DEF SuffixOf
<1>4. \A i \in 1..Len(actionQueue') : i + d \in 1..Len(p) /\ actionQueue'[i] = p[i + d]
  BY <1>3
<1>5. Sorted(actionQueue')
  <2> SUFFICES ASSUME NEW i \in 1..Len(actionQueue'), NEW j \in 1..Len(actionQueue'), i < j
               PROVE  actionQueue'[i] <= actionQueue'[j]
    BY DEF Sorted
  <2>1. i + d < j + d
    BY <1>3
  <2> QED
    BY <1>2, <1>4, <2>1 DEF Sorted
<1>6. \A i \in 1..Len(actionQueue') : actionQueue'[i] <= pushed'
  BY <1>2, <1>4
<1>7. \A a \in Nat : BeforeQueue(a) => BeforeQueue(a)'
  BY <1>2, <1>4 DEF BeforeQueue
<1>8. \A n \in Nonce, a \in Nat : Offered(n, a)' => BeforeQueue(a)'
  <2>1. \A n \in Nonce, a \in Nat : Offered(n, a)' => BeforeQueue(a)
    BY DEF Order, QueueOrder, BeforeQueue
  <2> QED
    BY <1>7, <2>1
<1>9. (\A i \in 1..Len(executed) : BeforeQueue(executed[i]))'
  <2> SUFFICES ASSUME NEW i \in 1..Len(executed'), NEW a \in Nat, a = executed'[i]
               PROVE  BeforeQueue(a)'
    BY DEF BeforeQueue
  <2>1. BeforeQueue(a)
    BY DEF Order, QueueOrder
  <2> QED
    BY <1>7, <2>1
<1> QED
  BY <1>5, <1>6, <1>8, <1>9 DEF QueueOrder

(* Rows that a table keeps from another one, perhaps with another fee or   *)
(* age.                                                                    *)
Keeps(new, old) ==
  \A n \in Nonce : new[n] # NoRow => old[n] # NoRow /\ new[n].action = old[n].action

LEMMA TableKeeps ==
  ASSUME Types
  PROVE  /\ Keeps(rows, rows)
         /\ \A nonces : Keeps(Deleted(rows, nonces), rows)
         /\ \A nonce \in Nonce : \A fee : Keeps(WithFee(rows, nonce, fee), rows)
         /\ Keeps(Marked, rows)
<1>1. Keeps(rows, rows) /\ \A nonces : Keeps(Deleted(rows, nonces), rows)
  BY DEF Keeps, Deleted
<1>2. ASSUME NEW nonce \in Nonce, NEW fee
      PROVE  Keeps(WithFee(rows, nonce, fee), rows)
  <2>1. CASE rows[nonce] = NoRow
    BY <1>1, <2>1, Zenon DEF WithFee
  <2>2. CASE rows[nonce] # NoRow
    <3>1. WithFee(rows, nonce, fee) = [rows EXCEPT ![nonce].fee = fee]
      BY <2>2 DEF WithFee
    <3>2. \A n \in Nonce : [rows EXCEPT ![nonce].fee = fee][n].action = rows[n].action
      BY DEF Types, Row
    <3> QED
      BY <2>2, <3>1, <3>2 DEF Keeps, Types
  <2> QED
    BY <2>1, <2>2
<1>3. Keeps(Marked, rows)
  <2> DEFINE aged(n) == [rows[n] EXCEPT !.age = Least(MaxAge, rows[n].age + 1)]
  <2>1. \A n \in Nonce : aged(n).action = rows[n].action
    BY DEF Types, Row
  <2>2. Marked = [n \in Nonce |-> IF rows[n] = NoRow THEN NoRow ELSE aged(n)]
    BY Zenon DEF Marked
  <2> HIDE DEF aged
  <2> QED
    BY <2>1, <2>2 DEF Keeps
<1> QED
  BY <1>1, <1>2, <1>3

(* Nobody has a new offer: what the table keeps, what the node takes, what *)
(* is submitted and what is resubmitted was an offer before.               *)
LEMMA NoNewOffer ==
  ASSUME Inv, Inv', Keeps(rows', rows), NEW n \in Nonce, NEW a \in Nat, Offered(n, a)',
         pool'[n] # NoTx /\ pool'[n].action = a => pool'[n] = pool[n] \/ Offered(n, a),
         submit'.pc \in {"sending", "answered"} =>
           /\ submit.pc \in {"sending", "answered"}
           /\ submit'.nonce = submit.nonce /\ submit'.action = submit.action,
         \A s \in Sweep : sweep'[s].pc \in {"sending", "answered"} =>
           \A tx \in sweep'[s].txs :
             \/ sweep[s].pc \in {"sending", "answered"} /\ tx \in sweep[s].txs
             \/ rows[tx.nonce] # NoRow /\ rows[tx.nonce].action = tx.action,
         count' >= count
  PROVE  Offered(n, a)
<1>1. n >= count
  BY SubmissionAssumption DEF Offered, Inv, Types, Nonce
<1>2. CASE rows'[n] # NoRow /\ rows'[n].action = a
  BY <1>1, <1>2 DEF Keeps, Offered
<1>3. CASE pool'[n] # NoTx /\ pool'[n].action = a
  BY <1>1, <1>3 DEF Offered
<1>4. CASE submit'.pc \in {"sending", "answered"} /\ submit'.nonce = n /\ submit'.action = a
  BY <1>1, <1>4 DEF Offered
<1>5. CASE \E s \in Sweep : /\ sweep'[s].pc \in {"sending", "answered"}
                            /\ \E tx \in sweep'[s].txs : tx.nonce = n /\ tx.action = a
  BY <1>1, <1>5 DEF Offered
<1> QED
  BY <1>2, <1>3, <1>4, <1>5 DEF Offered

(* The node takes what it is sent for a nonce that it has still to use.    *)
LEMMA NodeTakes ==
  ASSUME Inv, NEW nonce \in Nonce, NEW action, NEW fee, NEW answer,
         NodeAnswers(nonce, action, fee, answer), NEW n \in Nonce
  PROVE  \/ pool'[n] = pool[n]
         \/ n = nonce /\ nonce >= count /\ pool'[n].action = action
BY DEF Inv, Types, NodeAnswers
NothingNew == \A n \in Nonce, a \in Nat : Offered(n, a)' => Offered(n, a)

LEMMA PageOffers ==
  ASSUME NEW table, NEW lag
  PROVE  \A tx \in SubmittedUpTo(table, lag) :
           /\ tx.nonce \in Nonce /\ table[tx.nonce] # NoRow
           /\ table[tx.nonce].action = tx.action
<1> DEFINE due == {n \in Nonce : table[n] # NoRow
                     /\ table[n].age >= Least(MaxAge, blocksBeforeResubmit + lag)}
           page == {m \in due : Cardinality({k \in due : k < m}) < PageLimit}
           tx(n) == [nonce |-> n, action |-> table[n].action, fee |-> table[n].fee]
<1>1. SubmittedUpTo(table, lag) = {tx(n) : n \in page}
  BY DEF SubmittedUpTo
<1>2. \A n \in page : n \in Nonce /\ table[n] # NoRow
  OBVIOUS
<1> HIDE DEF page
<1>3. \A n \in page : tx(n).nonce = n /\ tx(n).action = table[n].action
  OBVIOUS
<1> HIDE DEF tx
<1> QED
  BY <1>1, <1>2, <1>3

(* Only a reservation makes a new offer.                                   *)
LEMMA OnlyReserveOffers ==
  ASSUME Inv, Inv', [Next]_vars, ~ReserveNonce
  PROVE  NothingNew
<1> SUFFICES ASSUME NEW n \in Nonce, NEW a \in Nat, Offered(n, a)'
             PROVE  Offered(n, a)
  BY DEF NothingNew
<1> USE TableKeeps DEF Inv
<1>1. count \in Nat
  BY DEF Types
<1>2. CASE Process \/ RetryTimer \/ SendSucceeds \/ SendLeft
  <2>1. UNCHANGED <<rows, sweep, count, pool>> /\ submit'.pc \in {"none", "asking", submit.pc}
        /\ (submit'.pc \in {"sending", "answered"} => submit' = submit)
    <3>1. \A q : CheckNextAction(q) => submit'.pc \in {"none", "asking"}
      BY DEF CheckNextAction, None, Asking
    <3> QED
      BY <1>2, <3>1 DEF Process, RetryTimer, SendSucceeds, SendLeft, ActionSent, chain
  <2> QED
    BY <2>1 DEF Offered
<1>3. CASE CountFails \/ EstimateFails \/ UNCHANGED vars
  BY <1>3 DEF CountFails, EstimateFails, ActionFails, None, Answered, vars, storage, chain, Offered
<1>4. CASE Send
  <2>1. PICK answer \in {"ok", "error", "nonce_too_low"} :
          /\ NodeAnswers(submit.nonce, submit.action, BumpedFee(0), answer)
          /\ submit' = Answered(submit.action, submit.nonce, answer)
    BY <1>4 DEF Send
  <2>2. submit.pc = "sending" /\ submit.nonce \in Nonce
    BY <1>4, PhaseTypes DEF Send, Submitting
  <2>3. Keeps(rows', rows)
    BY <1>4, <2>2 DEF Send
  <2>4. submit'.nonce = submit.nonce /\ submit'.action = submit.action
    BY <2>1 DEF Answered
  <2>5. pool'[n] # NoTx /\ pool'[n].action = a => pool'[n] = pool[n] \/ Offered(n, a)
    <3>1. \/ pool'[n] = pool[n]
          \/ n = submit.nonce /\ submit.nonce >= count /\ pool'[n].action = submit.action
      BY <2>1, <2>2, NodeTakes
    <3> QED
      BY <2>2, <3>1 DEF Offered
  <2>6. UNCHANGED <<sweep, count>>
    BY <1>4 DEF Send
  <2> QED
    BY <1>1, <2>2, <2>3, <2>4, <2>5, <2>6, NoNewOffer
<1>5. CASE SendFails
  <2>1. Keeps(rows', rows) /\ UNCHANGED <<sweep, count, pool>> /\ submit' = None
    BY <1>5 DEF SendFails, ActionFails, chain
  <2> QED
    BY <1>1, <2>1, NoNewOffer DEF None
<1>6. ASSUME NEW s \in Sweep, NewBlock(s)
      PROVE  Offered(n, a)
  <2>1. Keeps(rows', rows) /\ UNCHANGED <<submit, count, pool>>
    BY <1>6 DEF NewBlock, chain
  <2>2. \A t \in Sweep : sweep'[t].pc \in {"sending", "answered"} => sweep'[t] = sweep[t]
    <3> TAKE t \in Sweep
    <3>1. sweep'[t] = IF t = s THEN [pc |-> "asking", asked |-> count, lag |-> 0]
                      ELSE Older(sweep[t])
      BY <1>6 DEF NewBlock
    <3>2. Older(sweep[t]).pc # "asking" => Older(sweep[t]) = sweep[t]
      <4>1. CASE sweep[t].pc = "asking"
        <5>1. sweep[t] \in [pc : {"asking"}, asked : Nat, lag : Int]
          BY <4>1 DEF Types, SweepState, Done
        <5> QED
          BY <4>1, <5>1 DEF Older
      <4>2. CASE sweep[t].pc # "asking"
        BY <4>2 DEF Older
      <4> QED
        BY <4>1, <4>2
    <3> QED
      BY <3>1, <3>2
  <2> QED
    BY <1>1, <2>1, <2>2, NoNewOffer
<1>7. ASSUME NEW s \in Sweep, MarkExecuted(s)
      PROVE  Offered(n, a)
  <2>1. Keeps(rows', rows) /\ UNCHANGED <<submit, count, pool>>
    BY <1>7 DEF MarkExecuted, chain
  <2> DEFINE txs == SubmittedUpTo(rows', sweep[s].lag)
             w == Resubmitting(txs)
  <2>2. \A tx \in txs : rows[tx.nonce] # NoRow /\ rows[tx.nonce].action = tx.action
    BY <2>1, PageOffers DEF Keeps
  <2>3. sweep' = [sweep EXCEPT ![s] = w]
    BY <1>7 DEF MarkExecuted
  <2> HIDE DEF txs
  <2>4. w.pc \in {"sending", "answered"} => w.txs = txs
    BY DEF Resubmitting, Done
  <2> HIDE DEF w
  <2>5. \A t \in Sweep : sweep'[t] = IF t = s THEN w ELSE sweep[t]
    BY <2>3 DEF Types
  <2> QED
    BY <1>1, <2>1, <2>2, <2>4, <2>5, NoNewOffer
<1>8. ASSUME NEW s \in Sweep, SweepFails(s)
      PROVE  Offered(n, a)
  <2>1. \A t \in Sweep : sweep'[t] = IF t = s THEN Done ELSE sweep[t]
    BY <1>8 DEF SweepFails, Types
  <2> QED
    BY <1>8, <2>1 DEF SweepFails, Done, storage, chain, Offered
<1>9. ASSUME NEW s \in Sweep, Resubmit(s)
      PROVE  Offered(n, a)
  <2>1. PICK tx \in sweep[s].txs, answer \in {"ok", "error", "nonce_too_low"} :
          /\ NodeAnswers(tx.nonce, tx.action, BumpedFee(tx.fee), answer)
          /\ rows' = WithFee(rows, tx.nonce, BumpedFee(tx.fee))
          /\ sweep' = [sweep EXCEPT ![s] =
                         [pc |-> "answered", nonce |-> tx.nonce, answer |-> answer,
                          txs |-> sweep[s].txs \ {tx}]]
    BY <1>9 DEF Resubmit
  <2>2. sweep[s].pc = "sending" /\ tx.nonce \in Nonce
    BY <1>9, <2>1, PhaseTypes DEF Resubmit, Tx
  <2>3. Keeps(rows', rows)
    BY <2>1, <2>2
  <2>4. pool'[n] # NoTx /\ pool'[n].action = a => pool'[n] = pool[n] \/ Offered(n, a)
    <3>1. \/ pool'[n] = pool[n]
          \/ n = tx.nonce /\ tx.nonce >= count /\ pool'[n].action = tx.action
      BY <2>1, <2>2, NodeTakes
    <3> QED
      BY <2>1, <2>2, <3>1 DEF Offered
  <2>5. UNCHANGED <<submit, count>>
    BY <1>9 DEF Resubmit
  <2>6. \A t \in Sweep : sweep'[t].pc \in {"sending", "answered"} =>
          \A u \in sweep'[t].txs : sweep[t].pc \in {"sending", "answered"} /\ u \in sweep[t].txs
    BY <2>1, <2>2 DEF Types
  <2> QED
    BY <1>1, <2>3, <2>4, <2>5, <2>6, NoNewOffer
<1>10. ASSUME NEW s \in Sweep, Resubmitted(s)
       PROVE  Offered(n, a)
  <2>1. Keeps(rows', rows) /\ UNCHANGED <<submit, count, pool>>
    BY <1>10 DEF Resubmitted, chain
  <2> DEFINE w == Resubmitting(sweep[s].txs)
  <2>2. w.pc \in {"sending", "answered"} => w.txs = sweep[s].txs
    BY DEF Resubmitting, Done
  <2>3. sweep' = [sweep EXCEPT ![s] = w] /\ sweep[s].pc = "answered"
    BY <1>10 DEF Resubmitted
  <2> HIDE DEF w
  <2>4. \A t \in Sweep : sweep'[t] = IF t = s THEN w ELSE sweep[t]
    BY <2>3 DEF Types
  <2> QED
    BY <1>1, <2>1, <2>2, <2>3, <2>4, NoNewOffer
<1>11. CASE Mine
  <2>1. count' = count + 1 /\ pool' = [pool EXCEPT ![count] = NoTx] /\ count \in Nonce
        /\ UNCHANGED <<rows, submit, sweep>>
    BY <1>11 DEF Mine, storage
  <2>2. pool'[n] # NoTx => pool'[n] = pool[n]
    BY <2>1 DEF Types
  <2> QED
    BY <1>1, <2>1, <2>2, NoNewOffer
<1>12. CASE Evict
  <2>1. UNCHANGED <<rows, submit, sweep, count>> /\ (pool'[n] # NoTx => pool'[n] = pool[n])
    BY <1>12 DEF Evict, storage, Types
  <2> QED
    BY <1>1, <2>1, NoNewOffer
<1>13. CASE Expire
  BY <1>13 DEF Expire, Offered, storage, chain
<1>14. CASE Restart
  BY <1>14 DEF Restart, Offered, storage, chain, None, Done
<1> QED
  BY <1>2, <1>3, <1>4, <1>5, <1>6, <1>7, <1>8, <1>9, <1>10, <1>11, <1>12, <1>13, <1>14
     DEF Next, Submission, Sweeping
(* A reservation offers the head of the queue for a nonce that no offer is *)
(* above.                                                                  *)
LEMMA ReserveOffers ==
  ASSUME Inv, Ranges, ReserveNonce
  PROVE  \E nonce \in Nonce :
           /\ \A n \in Nonce, a \in Nat :
                Offered(n, a)' =>
                  Offered(n, a) \/ (n = nonce /\ n >= count /\ a = actionQueue[1])
           /\ nonce >= count => \A n \in Nonce, a \in Nat : Offered(n, a) => n <= nonce
           /\ actionQueue # <<>>
<1>1. PICK onChainNonce \in submit.asked..count, nonce \in Nonce :
        /\ IsNextNonce(nonce, onChainNonce)
        /\ rows' = [rows EXCEPT ![nonce] = [NoRow EXCEPT !.action = submit.action]]
        /\ submit' = Sending(submit.action, nonce)
  BY DEF ReserveNonce
<1>2. UNCHANGED <<actionQueue, pushed, sweep, count, pool>>
  BY DEF ReserveNonce, chain
<1>3. /\ actionQueue # <<>> /\ submit.action = Head(actionQueue)
      /\ actionQueue \in Seq(Nat \ {0}) /\ count \in Nat /\ Nonce \subseteq Nat
      /\ submit.asked \in Nat
  <2>1. submit.pc = "asking" /\ submit.asked \in Nat
    BY PhaseTypes DEF Inv, ReserveNonce
  <2>2. actionQueue # <<>> /\ submit.action = Head(actionQueue)
    BY <2>1 DEF Ranges, TypeOK
  <2>3. actionQueue \in Seq(Nat \ {0}) /\ count \in Nat /\ Nonce \subseteq Nat
    BY SubmissionAssumption DEF Inv, Types, Nonce
  <2> QED
    BY <2>1, <2>2, <2>3
<1>4. submit.action = actionQueue[1]
  BY <1>3
<1>5. \A n \in Nonce, a \in Nat :
        Offered(n, a)' => Offered(n, a) \/ (n = nonce /\ n >= count /\ a = actionQueue[1])
  <2> DEFINE row == [NoRow EXCEPT !.action = submit.action]
  <2>1. row.action = actionQueue[1]
    BY <1>4 DEF NoRow
  <2> HIDE DEF row
  <2>2. rows' = [rows EXCEPT ![nonce] = row] /\ rows \in [Nonce -> Row]
    BY <1>1 DEF row, Inv, Types
  <2>3. submit'.nonce = nonce /\ submit'.action = actionQueue[1]
    BY <1>1, <1>4 DEF Sending
  <2> QED
    BY <1>2, <2>1, <2>2, <2>3 DEF Offered
<1>6. ASSUME nonce >= count, NEW n \in Nonce, NEW a \in Nat, Offered(n, a)
      PROVE  n <= nonce
  <2>1. n \in Held
    BY <1>6 DEF Offered, Held, Used, Pending, Submitted, Swept
  <2>2. (\A m \in Used : m < nonce) /\ nonce \in Nat /\ n \in Nat
    BY <1>1, <1>3 DEF IsNextNonce
  <2>3. nonce < n => nonce \in Used
    BY <1>6, <2>1 DEF Inv, StoredBelow
  <2> QED
    BY <2>2, <2>3
<1> QED
  BY <1>1, <1>3, <1>5, <1>6

(* Only the chain executes, and it reserves nothing.                       *)
LEMMA OnlyMineExecutes == [Next]_vars => executed' = executed \/ Mine
<1> SUFFICES ASSUME [Next]_vars, ~Mine
             PROVE  executed' = executed
  OBVIOUS
<1>1. CASE \E s \in Sweep : NewBlock(s) \/ Sweeping(s)
  BY <1>1 DEF NewBlock, Sweeping, MarkExecuted, SweepFails, Resubmit, Resubmitted, chain
<1>2. CASE Submission
  BY <1>2 DEF Submission, CountFails, ReserveNonce, Send, EstimateFails, SendSucceeds,
              SendFails, SendLeft, chain
<1> QED
  BY <1>1, <1>2 DEF Next, Process, RetryTimer, Evict, Expire, Restart, vars, chain

LEMMA ReserveOrMine == Inv /\ Mine => ~ReserveNonce
BY DEF Inv, Types, Mine, ReserveNonce, chain

LEMMA InitOrder == Init => Order
<1> SUFFICES ASSUME Init
             PROVE  Order
  OBVIOUS
<1>1. \A n \in Nonce, a \in Nat : ~Offered(n, a)
  BY DEF Init, Offered, None, Done
<1> QED
  BY <1>1 DEF Init, Order, QueueOrder, OfferOrder, ExecutedOrder, Sorted

LEMMA OrderStep == Inv /\ Ranges /\ Order /\ [Next]_vars => Order'
<1> SUFFICES ASSUME Inv, Ranges, Order, [Next]_vars
             PROVE  Order'
  OBVIOUS
<1>1. Inv' /\ QueueMoves
  BY InvStep, NextQueueMoves DEF Ranges
<1>2. /\ count \in Nat /\ pushed \in Nat /\ actionQueue \in Seq(Nat \ {0})
      /\ executed \in Seq(Nat) /\ Nonce \subseteq Nat
  BY SubmissionAssumption DEF Inv, Types, Order, ExecutedOrder, Nonce
<1>3. CASE ReserveNonce
  <2>1. PICK nonce \in Nonce :
           /\ \A n \in Nonce, a \in Nat :
                Offered(n, a)' =>
                  Offered(n, a) \/ (n = nonce /\ n >= count /\ a = actionQueue[1])
           /\ nonce >= count => \A n \in Nonce, a \in Nat : Offered(n, a) => n <= nonce
           /\ actionQueue # <<>>
    BY <1>3, ReserveOffers
  <2>2. executed' = executed
    BY <1>3 DEF ReserveNonce, chain
  <2> DEFINE h == actionQueue[1]
  <2>3. h \in Nat /\ h <= pushed /\ \A i \in 1..Len(actionQueue) : h <= actionQueue[i]
    <3>1. 1 \in 1..Len(actionQueue) /\ h \in Nat
      BY <1>2, <2>1
    <3>2. \A i \in 1..Len(actionQueue) : actionQueue[i] \in Nat /\ (i = 1 \/ 1 < i)
      BY <1>2
    <3> QED
      BY <3>1, <3>2 DEF Order, QueueOrder, Sorted
  <2>4. /\ \A n \in Nonce, a \in Nat : Offered(n, a) => a <= h
        /\ \A i \in 1..Len(executed) : executed[i] <= h
    <3>1. 1 \in 1..Len(actionQueue)
      BY <1>2, <2>1
    <3> QED
      BY <3>1 DEF Order, QueueOrder, BeforeQueue
  <2> HIDE DEF h
  <2>5. \A n \in Nonce, a \in Nat :
          Offered(n, a)' => Offered(n, a) \/ (n = nonce /\ n >= count /\ a = h)
    BY <2>1 DEF h
  <2>6. QueueOrder'
    <3>1. \A n \in Nonce, a \in Nat : Offered(n, a)' =>
            \/ Offered(n, a)
            \/ a <= pushed /\ \A i \in 1..Len(actionQueue) : a <= actionQueue[i]
      BY <2>3, <2>5
    <3> QED
      BY <1>1, <1>2, <2>2, <3>1, QueueOrderKept
  <2>7. OfferOrder'
    <3>1. ASSUME NEW n \in Nonce, NEW m \in Nonce, NEW a \in Nat, NEW b \in Nat,
                 Offered(n, a)', Offered(m, b)', n < m
          PROVE  a <= b
      <4>1. CASE Offered(n, a) /\ Offered(m, b)
        BY <3>1, <4>1 DEF Order, OfferOrder
      <4>2. CASE b = h
        BY <2>3, <2>4, <2>5, <3>1, <4>2
      <4>3. CASE n = nonce /\ n >= count /\ Offered(m, b)
        BY <1>2, <2>1, <3>1, <4>3
      <4> QED
        BY <2>5, <3>1, <4>1, <4>2, <4>3
    <3>2. \A i \in 1..Len(executed), n \in Nonce, a \in Nat : Offered(n, a)' => executed[i] <= a
      BY <2>4, <2>5 DEF Order, OfferOrder
    <3> QED
      BY <2>2, <3>1, <3>2 DEF OfferOrder
  <2> QED
    BY <2>2, <2>6, <2>7 DEF Order, ExecutedOrder
<1>4. CASE ~ReserveNonce /\ executed' = executed
  <2>1. NothingNew
    BY <1>1, <1>4, OnlyReserveOffers
  <2>2. QueueOrder'
    BY <1>1, <1>2, <1>4, <2>1, QueueOrderKept DEF NothingNew
  <2>3. OfferOrder'
    BY <1>4, <2>1 DEF Order, OfferOrder, NothingNew
  <2> QED
    BY <1>4, <2>2, <2>3 DEF Order, ExecutedOrder
<1>5. CASE Mine
  <2>1. NothingNew
    BY <1>1, <1>5, OnlyReserveOffers, ReserveOrMine
  <2> DEFINE a0 == pool[count].action
  <2>2. /\ count \in Nonce /\ a0 \in Nat /\ Offered(count, a0) /\ count' = count + 1
        /\ executed' = Append(executed, a0)
    BY <1>2, <1>5 DEF Mine, Inv, Types, Offered
  <2> HIDE DEF a0
  <2>3. /\ executed' \in Seq(Nat) /\ Len(executed') = Len(executed) + 1
        /\ \A i \in 1..Len(executed') :
             \/ i \in 1..Len(executed) /\ executed'[i] = executed[i]
             \/ i = Len(executed) + 1 /\ executed'[i] = a0
    BY <1>2, <2>2
  <2>4. QueueOrder'
    BY <1>1, <2>1, <2>2, <2>3, QueueOrderKept DEF NothingNew
  <2>5. \A n \in Nonce, a \in Nat : Offered(n, a)' => Offered(n, a) /\ a0 <= a
    <3> SUFFICES ASSUME NEW n \in Nonce, NEW a \in Nat, Offered(n, a)'
                 PROVE  Offered(n, a) /\ a0 <= a
      OBVIOUS
    <3>1. Offered(n, a) /\ count < n
      BY <1>2, <2>1, <2>2 DEF NothingNew, Offered
    <3> QED
      BY <2>2, <3>1 DEF Order, OfferOrder
  <2>6. OfferOrder'
    <3>1. \A i \in 1..Len(executed'), n \in Nonce, a \in Nat :
            Offered(n, a)' => executed'[i] <= a
      BY <2>3, <2>5 DEF Order, OfferOrder
    <3> QED
      BY <2>5, <3>1 DEF Order, OfferOrder
  <2>7. Sorted(executed')
    <3> SUFFICES ASSUME NEW i \in 1..Len(executed'), NEW j \in 1..Len(executed'), i < j
                 PROVE  executed'[i] <= executed'[j]
      BY DEF Sorted
    <3>1. i \in 1..Len(executed) /\ executed'[i] = executed[i]
      BY <1>2, <2>3
    <3>2. CASE j \in 1..Len(executed) /\ executed'[j] = executed[j]
      BY <3>1, <3>2 DEF Order, ExecutedOrder, Sorted
    <3>3. CASE executed'[j] = a0
      BY <2>2, <3>1, <3>3 DEF Order, OfferOrder
    <3> QED
      BY <2>3, <3>2, <3>3
  <2> QED
    BY <2>3, <2>4, <2>6, <2>7 DEF Order, ExecutedOrder
<1> QED
  BY <1>3, <1>4, <1>5, OnlyMineExecutes

LEMMA OrderInOrder == Order => InOrder
<1> SUFFICES ASSUME Order, NEW i \in 1..Len(executed), NEW j \in 1..Len(executed), i < j,
                    executed[j] \notin {executed[k] : k \in 1..j - 1}
             PROVE  executed[i] < executed[j]
  BY DEF InOrder
<1>1. executed \in Seq(Nat) /\ executed[i] <= executed[j]
  BY DEF Order, ExecutedOrder, Sorted
<1>2. i \in 1..j - 1
  BY <1>1
<1>3. executed[i] # executed[j]
  BY <1>2
<1>4. executed[i] \in Nat /\ executed[j] \in Nat
  BY <1>1
<1> QED
  BY <1>1, <1>3, <1>4

(* Actions reach the chain in the order in which they were processed,      *)
(* whatever fails, is evicted, resubmitted or interrupted: a later one is  *)
(* never executed before an earlier one that is executed at all            *)
(* (submitAction, checkPendingActions).                                    *)
THEOREM ExecutedInOrder == Spec => []InOrder
<1>1. Init => Inv /\ Ranges /\ Order
  BY InvInit, InitRanges, InitOrder
<1>2. Inv /\ Ranges /\ Order /\ [Next]_vars => Inv' /\ Ranges' /\ Order'
  BY InvStep, RangesStep, OrderStep
<1>3. Order => InOrder
  BY OrderInOrder
<1> QED
  BY <1>1, <1>2, <1>3, PTL DEF Spec
=============================================================================
