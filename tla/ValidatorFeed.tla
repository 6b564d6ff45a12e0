---------------------------- MODULE ValidatorFeed ----------------------------
(***************************************************************************)
(* From the chain to the state of a validator: the transitions the chain   *)
(* watcher hands over wait in a queue in memory, and the state machine     *)
(* (service/machine.ts) performs them one at a time.  What a transition    *)
(* does to the state is a sequence of diffs, each stored in a database     *)
(* transaction of its own (machine/storage/sqlite.ts), then a sequence of  *)
(* actions, each pushed to the stored action queue.  Here the diffs and    *)
(* actions of a transition are named by it.                                *)
(***************************************************************************)
EXTENDS ChainWatcher

CONSTANT MaxThrows  \* bound on the events whose handler throws

ASSUME FeedAssumption ==
  /\ MaxThrows \in Nat
  /\ \A logs \in LogSets : "block_new" \notin ToSet(logs) \* no event of a contract

VARIABLES
  transitions,        \* #transitionQueue: its head is the current transition
  diffs,              \* what performing the current transition gave
  performing,         \* is there a current transition?
  lastProcessedBlock, lastProcessedIndex,
  applied,            \* history: the diffs stored
  asked,              \* history: the diffs whose actions were queued
  failed,             \* history: the transitions whose handler threw
  cut,                \* history: transitions before the last indexed block
                      \* that a stop found unfinished
  resumedAt,          \* history: the last indexed block at the last start
  firstBlock          \* history: the first block the validator ever watched

machine == <<transitions, diffs, performing, lastProcessedBlock, lastProcessedIndex>>
stored == <<applied, asked, failed, cut>>
boots == <<resumedAt, firstBlock>>
feedVars == <<vars, machine, stored, boots>>

FeedInit ==
  /\ Init
  /\ transitions = <<>> /\ diffs = <<>> /\ performing = FALSE
  /\ lastProcessedBlock = 0 /\ lastProcessedIndex = 0
  /\ applied = <<>> /\ asked = <<>> /\ failed = {} /\ cut = {}
  /\ resumedAt = 0 /\ firstBlock = 0

IsEvent(t) == t.id # "block_new"

(* A step of the watcher, with what it hands to the state machine.         *)
Receive ==
  /\ Watching
  /\ transitions' = transitions \o out'
  /\ UNCHANGED <<diffs, performing, lastProcessedBlock, lastProcessedIndex, stored, boots>>

(***************************************************************************)
(* performTransition.  The block and index are taken as processed before   *)
(* the handler runs, whatever comes of it.                                 *)
(***************************************************************************)
(* Mutant: a block is processed with its first event.                      *)
ProcessedByBlock(t) == t.block <= lastProcessedBlock

Processed(t) ==
  \/ t.block < lastProcessedBlock
  \/ t.block = lastProcessedBlock /\ t.index <= lastProcessedIndex

(* Mutant: the early return is missing.                                    *)
progressToAnyBlock(block) == <<BlockNew(block)>>

progressToBlock(block) ==
  IF block <= lastProcessedBlock THEN <<>> ELSE <<BlockNew(block)>>

Throws(t) ==
  /\ Cardinality(failed) < MaxThrows
  /\ diffs' = <<>>
  /\ failed' = failed \cup {t}

PerformBlock(t) ==
  /\ ~IsEvent(t)
  /\ \/ diffs' = progressToBlock(t.block) /\ UNCHANGED failed
     \/ t.block > lastProcessedBlock /\ Throws(t)
  /\ lastProcessedBlock' = Most(lastProcessedBlock, t.block)
  /\ lastProcessedIndex' = IF t.block > lastProcessedBlock THEN 0 ELSE lastProcessedIndex

PerformEvent(t) ==
  /\ IsEvent(t) /\ ~Processed(t)
  /\ lastProcessedBlock' = t.block
  /\ lastProcessedIndex' = t.index
  /\ \/ diffs' = Append(progressToBlock(t.block), t) /\ UNCHANGED failed
     \/ Throws(t)

PerformStale(t) ==
  /\ IsEvent(t) /\ Processed(t)
  /\ diffs' = <<>>
  /\ UNCHANGED <<lastProcessedBlock, lastProcessedIndex, failed>>

Perform ==
  /\ ~performing /\ transitions # <<>>
  /\ LET t == Head(transitions)
     IN  PerformBlock(t) \/ PerformEvent(t) \/ PerformStale(t)
  /\ performing' = TRUE
  /\ out' = <<>>
  /\ UNCHANGED <<node, pc, blockWatcher, step, consumer, failures, stops,
                 transitions, applied, asked, cut, boots>>

(* The promise of the handler is settled: its diffs are stored, the actions *)
(* queued, and the transition leaves the queue.                            *)
Settle ==
  /\ performing
  /\ applied' = applied \o diffs
  /\ asked' = asked \o diffs
  /\ transitions' = Tail(transitions)
  /\ diffs' = <<>> /\ performing' = FALSE
  /\ out' = <<>>
  /\ UNCHANGED <<node, pc, blockWatcher, step, consumer, failures, stops,
                 lastProcessedBlock, lastProcessedIndex, failed, cut, boots>>

(* The process is gone, maybe between two writes of Settle.                *)
Forget ==
  /\ transitions' = <<>> /\ diffs' = <<>> /\ performing' = FALSE
  /\ lastProcessedBlock' = 0 /\ lastProcessedIndex' = 0

Kill ==
  /\ Stop
  /\ \E n \in 0..Len(diffs) :
       /\ applied' = applied \o SubSeq(diffs, 1, n)
       /\ \E m \in 0..(IF n = Len(diffs) THEN n ELSE 0) :
            asked' = asked \o SubSeq(diffs, 1, m)
  /\ cut' = cut \cup {t \in ToSet(transitions) : t.block < lastIndexed}
  /\ Forget
  /\ UNCHANGED <<failed, boots>>

Boot ==
  /\ Loading
  /\ resumedAt' = IF pc = "down" THEN lastIndexed ELSE resumedAt
  /\ firstBlock' = IF pc = "down" /\ lastIndexed = 0 THEN safe' + 1 ELSE firstBlock
  /\ UNCHANGED <<machine, stored>>

(* The handler does not support reorgs, so the chain only grows.           *)
Grow == Mine /\ UNCHANGED <<machine, stored, boots>>

FeedNext == Grow \/ Boot \/ Receive \/ Perform \/ Settle \/ Kill

FeedSpecification == FeedInit /\ [][FeedNext]_feedVars

-----------------------------------------------------------------------------
Received ==
  UNION {ToSet(EventsOf(view[i], got[i])) :
           i \in {j \in 1..Len(got) : view[j].number >= firstBlock}}

(* The events of the chain in or after a log that cannot be parsed, as far *)
(* as one answer reaches: in its block, or later in a page that holds it.  *)
Unread ==
  UNION {{t \in ToSet(EventsOf(chain[n], chain[n].logs)) :
            \E k \in 1..n : /\ n < k + BlockPageSize
                            /\ \E l \in ToSet(chain[k].logs) :
                                 l.event \in Malformed /\ (k < n \/ l.index <= t.index)} :
           n \in 1..Height}

Quiet == transitions = <<>> /\ pc = "running" /\ queue = <<>>

(* When nothing is waiting, every event the watcher delivered has been     *)
(* stored with its actions, but for those whose handler threw, those that  *)
(* a stop cut off in a block before the last indexed one, and those behind *)
(* a log that cannot be parsed: one such log costs no more than a page.    *)
(* An event of the last indexed block is never lost otherwise, whenever    *)
(* the process ends.  (A fallible event whose query failed may be handed   *)
(* over after a restart only, and is then dropped as indexed before.)      *)
NothingElseLost ==
  Quiet => \A t \in Received :
    \/ t \in (ToSet(applied) \cap ToSet(asked)) \cup failed \cup cut \cup Unread
    \/ t.id \in FallibleEvents /\ failures > 0

(* The state never goes back: no diff is stored after one of a later       *)
(* block, restarts and blocks reported again included.                     *)
NeverBackwards ==
  \A i \in 1..Len(applied) - 1 : applied[i].block <= applied[i + 1].block

(* An event is stored again only if it is of the block that was the last   *)
(* indexed one when the service started.                                   *)
RepeatsOnlyLastBlock ==
  [][\A i \in Len(applied) + 1..Len(applied') :
       applied'[i] \in ToSet(applied) => applied'[i].block = resumedAt]_applied
=============================================================================
