---------------------------- MODULE ChainWatcher ----------------------------
(***************************************************************************)
(* The chain watcher of a validator (watcher/blocks.ts, events.ts,         *)
(* index.ts) with the handler that turns its updates into transitions      *)
(* (machine/transitions/watcher.ts), against a node whose chain grows and  *)
(* is reorganised under it.                                                *)
(*                                                                         *)
(* A step is the code between two awaits.  Each asks the node one question *)
(* about the chain as it is by then; the service may be stopped and        *)
(* started again between any two of them.                                  *)
(***************************************************************************)
EXTENDS Integers, Sequences, SequencesExt, FiniteSets

CONSTANTS
  MaxReorgDepth,             \* settings of the block watcher
  BlockPageSize,             \* settings of the event watcher
  BlockSingleQueryRetryCount,
  MaxLogsPerQuery,           \* also the node's own limit
  FallibleEvents,
  LogSets,                   \* the logs a block may hold
  Malformed,                 \* names of the logs that cannot be parsed
  ServesUncled,              \* does the node answer for uncled blocks?
  StartHeight, MaxHeight, MaxReorgs, MaxFailures, MaxStops \* bounds

ASSUME WatcherAssumption ==
  /\ MaxReorgDepth \in Nat \ {0}
  /\ BlockPageSize \in Nat \ {0}
  /\ BlockSingleQueryRetryCount \in Nat
  /\ MaxLogsPerQuery \in Nat \ {0}
  /\ StartHeight \in Nat \ {0} /\ MaxHeight \in Nat /\ StartHeight <= MaxHeight
  /\ StartHeight >= 3 * MaxReorgDepth - 2 \* an old chain: no number is cut at 0
  /\ MaxReorgs \in Nat /\ MaxFailures \in Nat /\ MaxStops \in Nat
  /\ \A logs \in LogSets : Len(logs) \in Nat /\ DOMAIN logs = 1..Len(logs)

VARIABLES
  chain,       \* the node's chain: chain[n] is block n
  top,         \* the greatest height the chain has had
  reorgs,      \* reorgs so far: names the branch of a new block
  pc,          \* "down", "fetching" (in #initialize) or "running"
  latest,      \* previouslyQueriedLatest, while fetching
  safe, last,  \* #initialize loads the blocks safe + 1..last
  blocks,      \* BlockWatcher.#blocks
  pending,     \* BlockWatcher.#pending.number
  queue,       \* BlockWatcher.#queue
  step,        \* EventWatcher.#step
  lastIndexed, \* the row of transition_watcher, 0 for none
  out,         \* the transitions this step hands to onTransition
  view, got,   \* history: the blocks reported and not taken back, and the
               \* logs the event watcher delivered for each
  failures, stops \* failed queries and stops of the service, bounded

node == <<chain, top, reorgs>>
blockWatcher == <<latest, safe, last, blocks, pending, queue>>
consumer == <<lastIndexed, view, got>>
vars == <<node, pc, blockWatcher, step, consumer, out, failures, stops>>

\* The members of T in the sequence s, in its order.
Kept(s, T) == FlattenSeq([i \in 1..Len(s) |-> IF s[i] \in T THEN <<s[i]>> ELSE <<>>])

Least(a, b) == IF a < b THEN a ELSE b
Most(a, b) == IF a < b THEN b ELSE a

(***************************************************************************)
(* The node.  A block's hash is its number and its branch, so the parent   *)
(* hash is the branch of the block before it.                              *)
(***************************************************************************)
NoBlock == [number |-> 0, fork |-> 0, parent |-> 0, logs |-> <<>>]
Tip(s) == IF s = <<>> THEN NoBlock ELSE Last(s)
Height == Len(chain)
Final == Most(top - MaxReorgDepth, 0)

Canonical(b) == b.number <= Height /\ chain[b.number] = b

Block(number, fork, parent, logs) ==
  [number |-> number, fork |-> fork, parent |-> parent,
   logs |-> [i \in 1..Len(logs) |-> [event |-> logs[i], index |-> i]]]

Grown(c, fork, logs) == Append(c, Block(Len(c) + 1, fork, Tip(c).fork, logs))

Mine ==
  /\ Height < MaxHeight
  /\ \E logs \in LogSets : chain' = Grown(chain, reorgs, logs)
  /\ top' = Most(top, Height + 1)
  /\ out' = <<>>
  /\ UNCHANGED <<reorgs, pc, blockWatcher, step, consumer, failures, stops>>

(* Blocks above the final ones give way to one block of a new branch.  The *)
(* greatest height stands for a chain that goes on growing: no reorg then. *)
Reorg ==
  /\ reorgs < MaxReorgs /\ Height < MaxHeight
  /\ \E keep \in Final..Height - 1, logs \in LogSets :
       chain' = Grown(SubSeq(chain, 1, keep), reorgs + 1, logs)
  /\ reorgs' = reorgs + 1
  /\ out' = <<>>
  /\ UNCHANGED <<top, pc, blockWatcher, step, consumer, failures, stops>>

Failing == failures < MaxFailures /\ failures' = failures + 1

(***************************************************************************)
(* Updates and the steps of the event watcher.                             *)
(***************************************************************************)
Uncle(n) == [type |-> "uncle", number |-> n]
Warp(from, to) == [type |-> "warp", from |-> from, to |-> to]
NewBlock(b) == [type |-> "new_block", block |-> b]

Idle == [type |-> "idle"]
Warping(from, to, size) == [type |-> "warping", from |-> from, to |-> to, pageSize |-> size]
Logs(b, retries) == [type |-> "block", block |-> b, retries |-> retries]

StepFor(update) ==
  CASE update.type = "warp" -> Warping(update.from, update.to, BlockPageSize)
    [] update.type = "uncle" -> Idle
    [] update.type = "new_block" -> Logs(update.block, 0)

(***************************************************************************)
(* The transitions made of an update; those before the last indexed block  *)
(* are dropped.                                                            *)
(***************************************************************************)
BlockNew(n) == [id |-> "block_new", block |-> n]
EventsOf(b, logs) ==
  [i \in 1..Len(logs) |-> [id |-> logs[i].event, block |-> b.number, index |-> logs[i].index]]

(* logToTransition throws on a log with a point that is zero or off the    *)
(* curve, which the contract lets pass.  The throw is outside the try of   *)
(* handleTransition and ends the loop over the logs of the update.         *)
Parsed(transitions) ==
  SubSeq(transitions, 1, CHOOSE n \in 0..Len(transitions) :
    /\ \A i \in 1..n : transitions[i].id \notin Malformed
    /\ n < Len(transitions) => transitions[n + 1].id \in Malformed)

(* Mutant: what was indexed before is handed over again.                   *)
HandleTransitionsAgain(transitions) ==
  /\ out' = transitions
  /\ lastIndexed' = IF transitions = <<>> THEN lastIndexed
                    ELSE Most(lastIndexed, Last(transitions).block)

HandleTransitions(transitions) ==
  /\ out' = Kept(transitions, {t \in ToSet(transitions) : t.block >= lastIndexed})
  /\ lastIndexed' = IF transitions = <<>> THEN lastIndexed
                    ELSE Most(lastIndexed, Last(transitions).block)

\* The blocks reported before the first one that is numbered n or above.
Before(n) ==
  SubSeq(view, 1, CHOOSE k \in 0..Len(view) :
                    /\ \A i \in 1..k : view[i].number < n
                    /\ k < Len(view) => view[k + 1].number >= n)

OnUpdate(update) ==
  /\ step' = StepFor(update)
  /\ CASE update.type = "warp" ->
            /\ view' = view \o SubSeq(chain, update.from, update.to)
            /\ got' = got
            /\ HandleTransitions(<<>>)
       [] update.type = "uncle" ->
            /\ view' = Before(update.number)
            /\ got' = SubSeq(got, 1, Least(Len(got), Len(view')))
            /\ HandleTransitions(<<>>)
       [] update.type = "new_block" ->
            /\ view' = Append(view, update.block)
            /\ got' = got
            /\ HandleTransitions(<<BlockNew(update.block.number)>>)

(***************************************************************************)
(* BlockWatcher: #initialize, then next.                                   *)
(***************************************************************************)
(* Mutant: goes on after the last indexed block.                           *)
CatchupAfterLast(safeBlock) ==
  IF lastIndexed = 0 \/ lastIndexed >= safeBlock THEN <<>>
  ELSE <<Warp(lastIndexed + 1, safeBlock)>>

Catchup(safeBlock) ==
  LET uncle == Most(lastIndexed - (MaxReorgDepth - 1), 0)
  IN  IF lastIndexed = 0 THEN <<>>
      ELSE (IF uncle <= lastIndexed THEN <<Uncle(uncle)>> ELSE <<>>)
           \o (IF uncle <= safeBlock THEN <<Warp(uncle, safeBlock)>> ELSE <<>>)

(* The service starts; the node is not behind what was indexed before.     *)
Start ==
  /\ pc = "down" /\ Height >= lastIndexed
  /\ pc' = "fetching"
  /\ latest' = Last(chain)
  /\ last' = Height
  /\ safe' = Most(Height - MaxReorgDepth, 0)
  /\ pending' = Height + 1
  /\ queue' = Catchup(safe')
  /\ blocks' = <<>>
  /\ out' = <<>>
  /\ UNCHANGED <<node, step, consumer, failures, stops>>

Cursor == safe + Len(blocks) + 1

(* One block of the range is loaded; a block that does not fit the one     *)
(* before it starts the loading again, without the block queried first.    *)
Fetch ==
  /\ pc = "fetching"
  /\ latest.number = Cursor \/ Cursor <= Height
  /\ LET b == IF latest.number = Cursor THEN latest ELSE chain[Cursor]
         fits == blocks = <<>> \/ Last(blocks).fork = b.parent
     IN  /\ blocks' = IF fits THEN Append(blocks, b) ELSE <<>>
         /\ IF fits /\ Cursor = last
            THEN /\ pc' = "running"
                 /\ queue' = queue \o [i \in 1..Len(blocks') |-> NewBlock(blocks'[i])]
                 /\ latest' = NoBlock /\ safe' = 0 /\ last' = 0
            ELSE /\ latest' = IF fits THEN latest ELSE NoBlock
                 /\ UNCHANGED <<pc, queue, safe, last>>
  /\ out' = <<>>
  /\ UNCHANGED <<node, pending, step, consumer, failures, stops>>

(* What a process that ends leaves behind: the database.                   *)
Halt ==
  /\ pc' = "down"
  /\ latest' = NoBlock /\ safe' = 0 /\ last' = 0
  /\ blocks' = <<>> /\ pending' = 0 /\ queue' = <<>>
  /\ step' = Idle
  /\ out' = <<>>
  /\ UNCHANGED <<node, consumer>>

(* A query of #initialize fails, or its block is not there any more: the   *)
(* service does not start.                                                 *)
FetchFails ==
  /\ pc = "fetching"
  /\ \/ Failing
     \/ /\ latest.number # Cursor /\ Cursor > Height
        /\ UNCHANGED failures
  /\ Halt
  /\ UNCHANGED stops

Stop ==
  /\ pc # "down" /\ stops < MaxStops
  /\ stops' = stops + 1
  /\ Halt
  /\ UNCHANGED failures

NextQueued ==
  /\ pc = "running" /\ step = Idle /\ queue # <<>>
  /\ queue' = Tail(queue)
  /\ OnUpdate(Head(queue))
  /\ UNCHANGED <<node, pc, latest, safe, last, blocks, pending, failures, stops>>

(* The pending block is there.  It is reported if it fits the last block;  *)
(* otherwise the last block is taken back and becomes the pending one.     *)
NextPending ==
  /\ pc = "running" /\ step = Idle /\ queue = <<>>
  /\ pending <= Height
  /\ LET b == chain[pending]
         grown == Append(blocks, b)
     IN  IF blocks # <<>> /\ Last(blocks).fork # b.parent
         THEN /\ blocks' = Front(blocks)
              /\ pending' = Last(blocks).number
              /\ OnUpdate(Uncle(Last(blocks).number))
         ELSE /\ blocks' = SubSeq(grown, Most(Len(grown) - MaxReorgDepth, 0) + 1, Len(grown))
              /\ pending' = b.number + 1
              /\ OnUpdate(NewBlock(b))
  /\ UNCHANGED <<node, pc, latest, safe, last, queue, failures, stops>>

(***************************************************************************)
(* EventWatcher: the logs of a page of blocks or of one block.             *)
(***************************************************************************)
LogsOf(bs) == FlattenSeq([i \in 1..Len(bs) |-> bs[i].logs])
Events(logs) == {logs[i].event : i \in 1..Len(logs)}
Only(event, logs) == {l \in ToSet(logs) : l.event = event}

(* An answer as long as the node's limit may be cut: it is an error.       *)
TooMany(logs) == Cardinality(logs) >= MaxLogsPerQuery
TooManyIn(bs) == Len(LogsOf(bs)) >= MaxLogsPerQuery

(* The logs a block has for the events whose query does not fail, cut at   *)
(* the node's limit.                                                       *)
Answered(b, failed) ==
  Kept(b.logs, {l \in ToSet(b.logs) :
    /\ l.event \notin failed
    /\ Cardinality({m \in Only(l.event, b.logs) : m.index <= l.index}) <= MaxLogsPerQuery})

(* One query for all the events: all the logs.                             *)
OneQueryAllEvents(bs, answer) ==
  /\ ~TooManyIn(bs)
  /\ answer = [i \in 1..Len(bs) |-> bs[i].logs]
  /\ UNCHANGED failures

(* One query per event: the logs of a fallible event may be cut or missing.*)
OneQueryPerEvent(b, answer) ==
  /\ \A e \in Events(b.logs) \ FallibleEvents : ~TooMany(Only(e, b.logs))
  /\ \E failed \in SUBSET (Events(b.logs) \cap FallibleEvents) :
       /\ answer = <<Answered(b, failed)>>
       /\ IF failed = {} THEN UNCHANGED failures ELSE Failing

(* The logs of the update become transitions, up to the first that cannot  *)
(* be parsed; the event watcher has gone on, so it asks for none again.    *)
HandOver(bs, answer) ==
  /\ got' = got \o answer
  /\ HandleTransitions(Parsed(FlattenSeq([i \in 1..Len(bs) |-> EventsOf(bs[i], answer[i])])))
  /\ UNCHANGED view

Answers(bs) == {[i \in 1..Len(bs) |-> bs[i].logs]}
                 \cup {<<Answered(b, f)>> : b \in {bs[1]}, f \in SUBSET FallibleEvents}

PageEnd == Least(step.to, step.from + step.pageSize - 1)
Page == SubSeq(chain, step.from, PageEnd)

AfterPage == IF PageEnd = step.to THEN Idle
             ELSE Warping(PageEnd + 1, step.to, BlockPageSize)

WarpPage ==
  /\ pc = "running" /\ step.type = "warping"
  /\ \E answer \in Answers(Page) :
       /\ IF step.pageSize > 1 THEN OneQueryAllEvents(Page, answer)
                               ELSE OneQueryPerEvent(Page[1], answer)
       /\ HandOver(Page, answer)
  /\ step' = AfterPage
  /\ UNCHANGED <<node, pc, blockWatcher, stops>>

(* Mutants: a page of one block becomes empty; the page keeps its size.    *)
WarpFailsRoundingDown ==
  /\ pc = "running" /\ step.type = "warping"
  /\ Failing \/ (TooManyIn(Page) /\ UNCHANGED failures)
  /\ step' = [step EXCEPT !.pageSize = @ \div 2]
  /\ out' = <<>>
  /\ UNCHANGED <<node, pc, blockWatcher, consumer, stops>>

WarpFailsSamePage ==
  /\ pc = "running" /\ step.type = "warping"
  /\ Failing \/ (TooManyIn(Page) /\ UNCHANGED failures)
  /\ out' = <<>>
  /\ UNCHANGED <<node, pc, blockWatcher, step, consumer, stops>>

(* A failed page is tried again with half its size, one block at least.    *)
WarpFails ==
  /\ pc = "running" /\ step.type = "warping"
  /\ Failing \/ (TooManyIn(Page) /\ UNCHANGED failures)
  /\ step' = [step EXCEPT !.pageSize = (@ + 1) \div 2]
  /\ out' = <<>>
  /\ UNCHANGED <<node, pc, blockWatcher, consumer, stops>>

(* The bloom filter of the header tells that there is nothing to ask for.  *)
Available(b) == Canonical(b) \/ ServesUncled \/ b.logs = <<>>

BlockLogs ==
  /\ pc = "running" /\ step.type = "block" /\ Available(step.block)
  /\ \E answer \in Answers(<<step.block>>) :
       /\ IF step.retries < BlockSingleQueryRetryCount
          THEN OneQueryAllEvents(<<step.block>>, answer)
          ELSE OneQueryPerEvent(step.block, answer)
       /\ HandOver(<<step.block>>, answer)
  /\ step' = Idle
  /\ UNCHANGED <<node, pc, blockWatcher, stops>>

(* Retries are counted as far as they matter.                              *)
BlockLogsFail ==
  /\ pc = "running" /\ step.type = "block"
  /\ \/ Failing
     \/ /\ ~Available(step.block) \/ TooManyIn(<<step.block>>)
        /\ UNCHANGED failures
  /\ step' = [step EXCEPT !.retries = Least(@ + 1, BlockSingleQueryRetryCount)]
  /\ out' = <<>>
  /\ UNCHANGED <<node, pc, blockWatcher, consumer, stops>>

Init ==
  /\ \E logs \in [1..StartHeight -> LogSets] :
       chain = [n \in 1..StartHeight |-> Block(n, 0, 0, logs[n])]
  /\ top = StartHeight /\ reorgs = 0
  /\ pc = "down"
  /\ latest = NoBlock /\ safe = 0 /\ last = 0
  /\ blocks = <<>> /\ pending = 0 /\ queue = <<>>
  /\ step = Idle
  /\ lastIndexed = 0 /\ view = <<>> /\ got = <<>>
  /\ out = <<>>
  /\ failures = 0 /\ stops = 0

Environment == Mine \/ Reorg \/ Stop
Loading == Start \/ Fetch \/ FetchFails
Watching == NextQueued \/ NextPending \/ WarpPage \/ WarpFails \/ BlockLogs \/ BlockLogsFail

Next == Environment \/ Loading \/ Watching

(* The chain goes on growing, the service is started when it is down and   *)
(* its loop goes on; that a query succeeds is not assumed, only that no    *)
(* more than MaxFailures of them fail.                                     *)
Fairness ==
  /\ WF_vars(Mine)
  /\ WF_vars(Start) /\ WF_vars(Fetch) /\ WF_vars(FetchFails)
  /\ WF_vars(Watching)

Spec == Init /\ [][Next]_vars /\ Fairness

-----------------------------------------------------------------------------
(* Types.                                                                  *)
TypeOK ==
  /\ pc \in {"down", "fetching", "running"}
  /\ Height \in 1..MaxHeight /\ top \in Height..MaxHeight
  /\ \A n \in 1..Height : chain[n].number = n /\ chain[n].fork \in 0..reorgs
  /\ Len(blocks) <= MaxReorgDepth
  /\ step.type \in {"idle", "warping", "block"}
  /\ step.type = "warping" => step.pageSize \in 1..BlockPageSize /\ step.from <= step.to
  /\ lastIndexed \in 0..top
  /\ pc # "running" => step = Idle

(* The watcher keeps the promise of ChainFeed through reorgs as deep as    *)
(* MaxReorgDepth, failed queries and restarts.                             *)
Feed == INSTANCE ChainFeed WITH Fallible <- FallibleEvents
FeedSpec == Feed!Spec

(* However the chain was reorganised and the queries failed, the watcher   *)
(* ends up with the tip of the chain and all the logs up to it.            *)
CatchesUp == <>[](Tip(view) = Tip(chain) /\ Len(got) = Len(view))
=============================================================================
