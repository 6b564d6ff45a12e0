------------------------ MODULE MCValidatorSigning ------------------------
(* One validator keeps its secrets in memory, the other in the database;   *)
(* a third does what it likes.  The first has still to register its nonces,*)
(* the second has registered one tree, the third lacks its last chunk.     *)
EXTENDS ValidatorSigning

CONSTANTS h1, h2, f

MCStorageOf == [v \in Honest |-> IF v = h1 THEN "memory" ELSE "sqlite"]

Registered(v) == IF v = h1 THEN 0 ELSE IF v = f THEN MaxChunk ELSE 1

Committed(v) == [c \in Chunks |-> [root |-> IF c < Registered(v) THEN <<v, 0>> ELSE NoRoot,
                                   offset |-> 0]]

MCInit ==
  /\ local = [v \in Honest |->
       IF v = h1 THEN Fresh
       ELSE [Fresh EXCEPT !.links[0] = 0, !.pendingNonces = FALSE, !.outbox = <<>>]]
  /\ attested = {}
  /\ strays = 0
  /\ sequence = [g \in {G} |-> 0]
  /\ next = [g \in {G} |-> [v \in Validator |-> Registered(v)]]
  /\ chunks = [g \in {G} |-> [v \in Validator |-> Committed(v)]]
  /\ message = [sid \in Chain!Sid |-> NoMessage]
  /\ signed = [sid \in Chain!Sid |-> NoRoot]
  /\ aggregates = [sid \in Chain!Sid |-> [r \in Selection |-> {}]]
  /\ revealed = [sid \in Chain!Sid |-> {}]
  /\ completed = [sid \in Chain!Sid |-> {}]

MCSpec == MCInit /\ [][Next]_vars /\ Fairness
=============================================================================
