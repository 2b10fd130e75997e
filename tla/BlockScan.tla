----------------------------- MODULE BlockScan -----------------------------
(***************************************************************************)
(* The block scanner of the crawler: BlocksSubscriberService together with *)
(* HarvesterStoreService.  One scan loop walks over the chain and writes   *)
(* every block to three tables; forced rescans, started by Postgres        *)
(* notifications, call the same handleBlock on the same service object     *)
(* while the scan loop is suspended.  An action is what runs between two   *)
(* awaits of one of these callers; the tables change when a statement      *)
(* commits.                                                                *)
(***************************************************************************)
EXTENDS Naturals, Sequences, FiniteSets, SequencesExt

CONSTANTS
  MaxBlock,     \* the chain is not followed beyond this block
  Chains,       \* what its blocks may contain
  BufferLimit,  \* 1000 in the code
  Rescans,      \* the callers of processBlockByNumber
  RescanMode,   \* TRUE: a rescan process over From..To; FALSE: the scan process
  From, To,     \* scanRangeFrom and scanRangeTo
  MaxRescans,   \* bound: blocks that are rescanned by number
  MaxRestarts,  \* bound: restarts of the process
  MayFail,      \* TRUE: statements and RPC calls may fail
  Scan          \* the scan loop

Blocks   == 1..MaxBlock
Kinds    == {"blank", "plain", "upgrade"}
Tables   == {"block", "extrinsic", "event"}
Callers  == Rescans \cup {Scan}

\* A runtime version is known by the upgrades that led to it, 0 standing for
\* the genesis runtime; the empty set is this.spec === null.
NoSpec   == {}
Versions == {v \in SUBSET (0..MaxBlock) : 0 \in v}

Base     == IF RescanMode THEN From ELSE 0

ASSUME ScanAssumption ==
  /\ MaxBlock \in Nat
  /\ Chains \subseteq [Blocks -> Kinds]
  /\ BufferLimit \in Nat
  /\ RescanMode \in BOOLEAN
  /\ From \in Nat
  /\ To \in Nat
  /\ MaxRescans \in Nat
  /\ MaxRestarts \in Nat
  /\ MayFail \in BOOLEAN
  /\ Scan \notin Rescans

VARIABLES
  kind,       \* what each block of the chain contains
  head,       \* the last block of the chain
  height,     \* status.height
  rows,       \* for each table, the blocks whose rows it holds
  blockSpec,  \* spec_version of the rows of table block
  spec,       \* this.spec
  blankBlocks, readFromHead, cutOff,
  lastHandledBlock,  \* the block behind lastHandledBlockHash, 0 for ''
  timer,      \* the callback of readFromHeadInterval
  asked,      \* the head of the chain when the timer last asked for it
  next,       \* the block the reader yields next
  task,       \* where each caller is suspended
  failed,     \* blocks whose writing was given up and logged
  late,       \* blocks pushed to blankBlocks while it was being flushed
  reported,   \* blocks whose rescan this process has logged as finished
  rescans, restarts  \* counters for the bounds

chain    == <<kind, head>>
database == <<height, rows, blockSpec>>
shared   == <<spec, blankBlocks, readFromHead, cutOff, lastHandledBlock>>
clock    == <<timer, asked>>
history  == <<failed, late, reported>>
counters == <<rescans, restarts>>
vars     == <<chain, database, shared, clock, next, task, history, counters>>

(***************************************************************************)
(* The suspended callers.  pc names the await: "spec" getSpecLastUpgrade,  *)
(* "flush" the upserts of handleBlankBlocks, "events" the event upsert of  *)
(* eventService.process, "batches" its collection and token batches,       *)
(* "rows" the upserts of upsertHandlerBlock, "height" updateState.  todo   *)
(* are the statements of a Promise.all that have not committed, spec the   *)
(* value that getBlockCommonData has copied into the row.                  *)
(***************************************************************************)
Writing == {"events", "batches", "rows", "height"}
Working == Writing \cup {"spec", "flush"}
Places  == Working \cup {"idle", "done", "dead"}

Task == {t \in [pc : Places, block : 0..MaxBlock, batch : Seq(Blocks),
                todo : SUBSET Tables, spec : Versions \cup {NoSpec}] :
           t.pc \in Working => t.block \in Blocks}

At(where, b) ==
  [pc |-> where, block |-> b, batch |-> <<>>, todo |-> {}, spec |-> NoSpec]

Resting(where) == At(where, 0)

UpsertOf(b, s) == [At("events", b) EXCEPT !.spec = s]

FlushBefore(b, s) ==
  [At("flush", b) EXCEPT !.batch = blankBlocks, !.todo = Tables, !.spec = s]

\* The runtime that executes b: an upgrade applied in a block is in force from
\* the next block on.
Runs(b) == {0} \cup {u \in Blocks : u < b /\ kind[u] = "upgrade"}

\* What getSpecLastUpgrade answers at the hash of the parent of b: a runtime
\* writes lastRuntimeUpgrade when it initialises its first block, so that an
\* upgrade applied in the parent itself is not told yet.
SpecAt(b) == {0} \cup {u \in Blocks : u + 1 < b /\ kind[u] = "upgrade"}

Written(b) == \A t \in Tables : b \in rows[t]

Settled(b) == Written(b) \/ b \in failed

\* Writing two rows with the same key in one INSERT .. ON CONFLICT fails.
HasDuplicate(s) == \E i, j \in DOMAIN s : i # j /\ s[i] = s[j]

\* Variant: reading starts with a block that does not exist.
StartPositionsWithZero(from) == {from, from + 1}

\* Where reader.readBlocks(from) may begin: whether from itself is included is
\* decided by the harvester library.
StartPositions(from) == {from, from + 1} \ {0}

(***************************************************************************)
(* handleBlock up to its next await.                                       *)
(***************************************************************************)
\* Variants with an error, to see that the properties notice it: the limit is
\* off by one; the cut-off is ignored.
MustWriteOffByOne(b) ==
  readFromHead \/ cutOff \/ kind[b] # "blank" \/ Len(blankBlocks) > BufferLimit
MustWriteNoCutOff(b) ==
  readFromHead \/ kind[b] # "blank" \/ Len(blankBlocks) >= BufferLimit

MustWrite(b) ==
  \/ readFromHead
  \/ cutOff
  \/ kind[b] # "blank"
  \/ Len(blankBlocks) >= BufferLimit

\* Variant: the height is stored for blocks that were only buffered.
BufferAndStoreHeight(c, b) ==
  /\ ~MustWrite(b)
  /\ blankBlocks' = Append(blankBlocks, b)
  /\ task' = [task EXCEPT ![c] = IF c = Scan THEN At("height", b)
                                            ELSE Resting("idle")]
  /\ UNCHANGED <<cutOff, late, reported>>

\* A caller waits in handleBlankBlocks and will then replace the buffer.
Flushing == \E d \in Callers : task[d].pc = "flush"

Buffer(c, b) ==
  /\ ~MustWrite(b)
  /\ blankBlocks' = Append(blankBlocks, b)
  /\ task' = [task EXCEPT ![c] = Resting("idle")]
  /\ reported' = IF c \in Rescans THEN reported \cup {b} ELSE reported
  /\ late' = IF Flushing THEN late \cup {b} ELSE late
  /\ UNCHANGED cutOff

BeginWriting(c, b, s) ==
  /\ MustWrite(b)
  /\ cutOff' = FALSE
  /\ task' = [task EXCEPT ![c] = IF blankBlocks = <<>>
                                 THEN UpsertOf(b, s)
                                 ELSE FlushBefore(b, s)]
  /\ UNCHANGED <<blankBlocks, late, reported>>

\* Variant: the handled block is not remembered.
DispatchForgetful(c, b, s) ==
  /\ spec' = s
  /\ Buffer(c, b) \/ BeginWriting(c, b, s)
  /\ UNCHANGED <<readFromHead, lastHandledBlock>>

Dispatch(c, b, s) ==
  /\ spec' = s
  /\ lastHandledBlock' = b
  /\ Buffer(c, b) \/ BeginWriting(c, b, s)
  /\ UNCHANGED readFromHead

AwaitSpec(c, b) ==
  /\ task' = [task EXCEPT ![c] = At("spec", b)]
  /\ UNCHANGED <<shared, late, reported>>

HandleBlock(c, b) ==
  /\ IF spec = NoSpec THEN AwaitSpec(c, b) ELSE Dispatch(c, b, spec)
  /\ UNCHANGED <<chain, database, clock, failed, restarts>>

\* handleBlock rejects.  Nothing catches it above the scan loop, which is
\* gone; a rescan ends and its caller may serve another notification.
Abort(c) ==
  task' = [task EXCEPT ![c] = Resting(IF c = Scan THEN "dead" ELSE "idle")]

(***************************************************************************)
(* The chain and the reader.                                               *)
(***************************************************************************)
GrowChain ==
  /\ head < MaxBlock
  /\ head' = head + 1
  /\ UNCHANGED <<kind, database, shared, clock, next, task, history, counters>>

\* The scan loop of subscribe receives its next block.
Deliver ==
  /\ task[Scan].pc = "idle"
  /\ next <= head
  /\ RescanMode => next <= To
  /\ next' = next + 1
  /\ HandleBlock(Scan, next)
  /\ UNCHANGED rescans

\* Variant: the range is thought to have one more block.
EndOfRangeBeyond ==
  /\ RescanMode
  /\ task[Scan].pc = "idle"
  /\ next > To + 1
  /\ task' = [task EXCEPT ![Scan] = Resting("done")]
  /\ UNCHANGED <<chain, database, shared, clock, next, history, counters>>

\* readBlocks(from, to) is exhausted and subscribe resolves.
EndOfRange ==
  /\ RescanMode
  /\ task[Scan].pc = "idle"
  /\ next > To
  /\ task' = [task EXCEPT ![Scan] = Resting("done")]
  /\ UNCHANGED <<chain, database, shared, clock, next, history, counters>>

\* processBlockByNumber has obtained block b of a notification.
RescanBlock(r) ==
  /\ task[r].pc = "idle"
  /\ rescans < MaxRescans
  /\ rescans' = rescans + 1
  /\ \E b \in 1..head : HandleBlock(r, b)
  /\ UNCHANGED next

(***************************************************************************)
(* The continuations of handleBlock.                                       *)
(***************************************************************************)
SpecArrives(c) ==
  /\ task[c].pc = "spec"
  /\ Dispatch(c, task[c].block, SpecAt(task[c].block))
  /\ UNCHANGED <<chain, database, clock, next, failed, counters>>

SpecFails(c) ==
  /\ MayFail
  /\ task[c].pc = "spec"
  /\ Abort(c)
  /\ UNCHANGED <<chain, database, shared, clock, next, history, counters>>

\* Statement t has stored the rows of all blocks in S.
Store(c, t, S) ==
  /\ rows' = [rows EXCEPT ![t] = @ \cup S]
  /\ blockSpec' = IF t = "block"
                  THEN [b \in Blocks |-> IF b \in S THEN task[c].spec
                                                    ELSE blockSpec[b]]
                  ELSE blockSpec
  /\ task' = [task EXCEPT ![c].todo = @ \ {t}]

FlushCommits(c) ==
  /\ task[c].pc = "flush"
  /\ ~HasDuplicate(task[c].batch)
  /\ \E t \in task[c].todo : Store(c, t, ToSet(task[c].batch))
  /\ UNCHANGED <<chain, height, shared, clock, next, history, counters>>

FlushFails(c) ==
  /\ task[c].pc = "flush"
  /\ task[c].todo # {}
  /\ MayFail \/ HasDuplicate(task[c].batch)
  /\ Abort(c)
  /\ UNCHANGED <<chain, database, shared, clock, next, history, counters>>

\* Variant: the buffer is reset while its rows are still being written.
FlushDoneEarly(c) ==
  /\ task[c].pc = "flush"
  /\ blankBlocks' = <<>>
  /\ task' = [task EXCEPT ![c] = UpsertOf(task[c].block, spec)]
  /\ UNCHANGED <<chain, database, spec, readFromHead, cutOff, lastHandledBlock,
                 clock, next, history, counters>>

\* handleBlankBlocks has resolved: the buffer is replaced by an empty one,
\* with whatever was pushed to it meanwhile, and upsertHandlerBlock starts.
FlushDone(c) ==
  /\ task[c].pc = "flush"
  /\ task[c].todo = {}
  /\ blankBlocks' = <<>>
  /\ task' = [task EXCEPT ![c] = UpsertOf(task[c].block, spec)]
  /\ UNCHANGED <<chain, database, spec, readFromHead, cutOff, lastHandledBlock,
                 clock, next, history, counters>>

EventsCommit(c) ==
  /\ task[c].pc = "events"
  /\ rows' = [rows EXCEPT !["event"] = @ \cup {task[c].block}]
  /\ task' = [task EXCEPT ![c].pc = "batches"]
  /\ UNCHANGED <<chain, height, blockSpec, shared, clock, next, history,
                 counters>>

\* Variant: an upgrade does not reset the cached spec.
BatchesDoneKeepSpec(c) ==
  /\ task[c].pc = "batches"
  /\ task' = [task EXCEPT ![c].pc = "rows",
                          ![c].todo = {"block", "extrinsic"}]
  /\ UNCHANGED <<chain, database, shared, clock, next, history, counters>>

\* eventService.process returns; speckHash resets the cached spec.
BatchesDone(c) ==
  /\ task[c].pc = "batches"
  /\ spec' = IF kind[task[c].block] = "upgrade" THEN NoSpec ELSE spec
  /\ task' = [task EXCEPT ![c].pc = "rows",
                          ![c].todo = {"block", "extrinsic"}]
  /\ UNCHANGED <<chain, database, blankBlocks, readFromHead, cutOff,
                 lastHandledBlock, clock, next, history, counters>>

\* spec_name and spec_version are NOT NULL.
RowCommits(c) ==
  /\ task[c].pc = "rows"
  /\ \E t \in task[c].todo :
       /\ t = "block" => task[c].spec # NoSpec
       /\ Store(c, t, {task[c].block})
  /\ UNCHANGED <<chain, height, shared, clock, next, history, counters>>

\* Variant: isUpdateState is ignored.
AfterUpsertAlwaysStore(c) ==
  /\ task' = [task EXCEPT ![c] = At("height", task[c].block)]
  /\ UNCHANGED reported

\* handleBlock after upsertHandlerBlock: only the scan loop stores the height.
AfterUpsert(c) ==
  IF c = Scan
  THEN /\ task' = [task EXCEPT ![c] = At("height", task[c].block)]
       /\ UNCHANGED reported
  ELSE /\ task' = [task EXCEPT ![c] = Resting("idle")]
       /\ reported' = reported \cup {task[c].block}

UpsertDone(c) ==
  /\ task[c].pc = "rows"
  /\ task[c].todo = {}
  /\ AfterUpsert(c)
  /\ UNCHANGED <<chain, database, shared, clock, next, failed, late,
                 counters>>

UpsertCanFail(c) ==
  \/ task[c].pc \in {"events", "batches"} /\ MayFail
  \/ /\ task[c].pc = "rows"
     /\ task[c].todo # {}
     /\ MayFail \/ ("block" \in task[c].todo /\ task[c].spec = NoSpec)

\* An error in upsertHandlerBlock is logged and reported to Sentry, and the
\* caller goes on as if the block had been written.
UpsertFails(c) ==
  /\ UpsertCanFail(c)
  /\ failed' = failed \cup {task[c].block}
  /\ AfterUpsert(c)
  /\ UNCHANGED <<chain, database, shared, clock, next, late, counters>>

HeightCommits(c) ==
  /\ task[c].pc = "height"
  /\ height' = task[c].block
  /\ task' = [task EXCEPT ![c] = Resting("idle")]
  /\ UNCHANGED <<chain, rows, blockSpec, shared, clock, next, history, counters>>

HeightFails(c) ==
  /\ MayFail
  /\ task[c].pc = "height"
  /\ Abort(c)
  /\ UNCHANGED <<chain, database, shared, clock, next, history, counters>>

(***************************************************************************)
(* The callback of readFromHeadInterval.                                   *)
(***************************************************************************)
TimerAsks ==
  /\ timer = "armed"
  /\ head > 0
  /\ timer' = "asking"
  /\ asked' = head
  /\ UNCHANGED <<chain, database, shared, next, task, history, counters>>

\* The node answers with the head it had at some moment since the call, and
\* it is compared with the block handled last when the answer arrives.
TimerAnswered ==
  /\ timer = "asking"
  /\ \E h \in asked..head :
       /\ timer' = IF h = lastHandledBlock THEN "cleared" ELSE "armed"
       /\ readFromHead' = (readFromHead \/ h = lastHandledBlock)
  /\ cutOff' = TRUE
  /\ asked' = 0
  /\ UNCHANGED <<chain, database, spec, blankBlocks, lastHandledBlock, next,
                 task, history, counters>>

TimerFails ==
  /\ MayFail
  /\ timer = "asking"
  /\ timer' = "armed"
  /\ asked' = 0
  /\ UNCHANGED <<chain, database, shared, next, task, history, counters>>

(***************************************************************************)
(* The process stops and is started again: subscribe runs connect and      *)
(* getState.  A rescan process goes back to the beginning of its range.    *)
(***************************************************************************)
Restart ==
  /\ restarts < MaxRestarts
  /\ restarts' = restarts + 1
  /\ spec' = NoSpec
  /\ blankBlocks' = <<>>
  /\ readFromHead' = FALSE
  /\ cutOff' = FALSE
  /\ lastHandledBlock' = 0
  /\ timer' = "armed"
  /\ asked' = 0
  /\ height' = IF RescanMode THEN From ELSE height
  /\ next' \in StartPositions(height')
  /\ task' = [c \in Callers |-> Resting("idle")]
  /\ reported' = {}
  /\ UNCHANGED <<chain, rows, blockSpec, failed, late, rescans>>

\* connect or getState rejects and subscribe with it, before the timer is set.
StartFails ==
  /\ MayFail
  /\ restarts < MaxRestarts
  /\ restarts' = restarts + 1
  /\ spec' = NoSpec
  /\ blankBlocks' = <<>>
  /\ readFromHead' = FALSE
  /\ cutOff' = FALSE
  /\ lastHandledBlock' = 0
  /\ timer' = "cleared"
  /\ asked' = 0
  /\ task' = [c \in Callers |-> Resting(IF c = Scan THEN "dead" ELSE "idle")]
  /\ reported' = {}
  /\ UNCHANGED <<chain, database, next, failed, late, rescans>>

Init ==
  /\ kind \in Chains
  /\ head = 0
  /\ height = Base
  /\ rows = [t \in Tables |-> {}]
  /\ blockSpec = [b \in Blocks |-> NoSpec]
  /\ spec = NoSpec
  /\ blankBlocks = <<>>
  /\ readFromHead = FALSE
  /\ cutOff = FALSE
  /\ lastHandledBlock = 0
  /\ timer = "armed"
  /\ asked = 0
  /\ next \in StartPositions(Base)
  /\ task = [c \in Callers |-> Resting("idle")]
  /\ failed = {}
  /\ late = {}
  /\ reported = {}
  /\ rescans = 0
  /\ restarts = 0

Continue(c) ==
  \/ SpecArrives(c)
  \/ FlushCommits(c)
  \/ FlushDone(c)
  \/ EventsCommit(c)
  \/ BatchesDone(c)
  \/ RowCommits(c)
  \/ UpsertDone(c)
  \/ HeightCommits(c)

Fail(c) == SpecFails(c) \/ FlushFails(c) \/ UpsertFails(c) \/ HeightFails(c)

Next ==
  \/ GrowChain
  \/ Deliver
  \/ EndOfRange
  \/ \E r \in Rescans : RescanBlock(r)
  \/ \E c \in Callers : Continue(c) \/ Fail(c)
  \/ TimerAsks
  \/ TimerAnswered
  \/ TimerFails
  \/ Restart
  \/ StartFails

Spec == Init /\ [][Next]_vars

(***************************************************************************)
(* Fairness: Node runs every continuation whose promise is settled, the    *)
(* database and the node answer, the interval fires, the chain grows.      *)
(* Nothing is assumed of rescans and of failures.                          *)
(***************************************************************************)
Fairness ==
  /\ WF_vars(GrowChain)
  /\ WF_vars(Deliver)
  /\ WF_vars(EndOfRange)
  /\ WF_vars(TimerAsks)
  /\ WF_vars(TimerAnswered)
  /\ \A c \in Callers : WF_vars(Continue(c))

FairSpec == Spec /\ Fairness

-----------------------------------------------------------------------------
\* The variables hold values of the kinds the code stores in them.
TypeOK ==
  /\ kind \in [Blocks -> Kinds]
  /\ head \in 0..MaxBlock
  /\ height \in Nat
  /\ rows \in [Tables -> SUBSET Blocks]
  /\ blockSpec \in [Blocks -> Versions \cup {NoSpec}]
  /\ spec \in Versions \cup {NoSpec}
  /\ blankBlocks \in Seq(Blocks)
  /\ readFromHead \in BOOLEAN
  /\ cutOff \in BOOLEAN
  /\ lastHandledBlock \in 0..MaxBlock
  /\ timer \in {"armed", "asking", "cleared"}
  /\ asked \in 0..MaxBlock
  /\ next \in Nat \ {0}
  /\ task \in [Callers -> Task]
  /\ failed \subseteq Blocks
  /\ late \subseteq Blocks
  /\ reported \subseteq Blocks
  /\ rescans \in Nat
  /\ restarts \in Nat

-----------------------------------------------------------------------------
(***************************************************************************)
(* The inductive invariant behind HeightCovered.                           *)
(***************************************************************************)
Passed(b) == Settled(b) \/ b \in late

\* Only blank blocks are buffered, also while the buffer is being flushed.
BlanksOnly ==
  /\ \A b \in ToSet(blankBlocks) : kind[b] = "blank"
  /\ \A b \in late : kind[b] = "blank"

\* While its buffer is being flushed a caller has in its batch what the next
\* reset takes away, but for what was pushed since; and what handleBlankBlocks
\* has stored so far.
FlushProgress ==
  \A c \in Callers :
    task[c].pc = "flush" =>
      /\ ToSet(blankBlocks) \subseteq ToSet(task[c].batch) \cup late
      /\ \A t \in Tables \ task[c].todo : ToSet(task[c].batch) \subseteq rows[t]

\* What upsertHandlerBlock has stored so far.
UpsertProgress ==
  \A c \in Callers :
    /\ task[c].pc \in {"batches", "rows"} => task[c].block \in rows["event"]
    /\ task[c].pc = "rows" =>
         \A t \in {"block", "extrinsic"} \ task[c].todo : task[c].block \in rows[t]

OnlyScanStoresHeight == \A r \in Rescans : task[r].pc # "height"

\* The scan loop works on the block before the next one.
Current == task[Scan].pc \in Working => next = task[Scan].block + 1

\* Every block the scan loop has received was passed, is buffered or is the one
\* being handled.
Behind ==
  task[Scan].pc # "dead" =>
    \A b \in (Base + 1)..(next - 1) :
      \/ Passed(b)
      \/ b \in ToSet(blankBlocks)
      \/ task[Scan].pc \in Working /\ b = task[Scan].block

\* Before the scan loop writes a block of its own it has flushed the buffer.
Below ==
  task[Scan].pc \in Writing =>
    \A b \in (Base + 1)..(task[Scan].block - 1) : Passed(b)

\* The height is stored when the block is settled.
Stored == task[Scan].pc = "height" => Settled(task[Scan].block)

Covered == \A b \in (Base + 1)..height : Passed(b)

ScanInv ==
  /\ TypeOK
  /\ BlanksOnly
  /\ FlushProgress
  /\ UpsertProgress
  /\ OnlyScanStoresHeight
  /\ Current
  /\ Behind
  /\ Below
  /\ Stored
  /\ Covered

\* The height is never ahead of the scan loop.
HeightBehind ==
  /\ task[Scan].pc # "dead" => height <= next
  /\ task[Scan].pc \in Working => height <= task[Scan].block

\* Without rescans nothing is pushed while the buffer is being flushed.
SoloInv == late = {}

-----------------------------------------------------------------------------
\* Whatever rescans, errors and restarts happen, a block up to the stored
\* height is in all three tables, or its writing failed and was logged, or it is
\* a blank that was pushed while a flush was awaited: only those may be lost
\* when the buffer is replaced after the await (blankBlocks = []).
HeightCovered ==
  \A b \in (Base + 1)..height :
    Settled(b) \/ (b \in late /\ kind[b] = "blank")

\* Without rescans nothing is thrown away: buffering up to 1000 blank blocks
\* in memory is safe because the height stays below the buffer.
HeightSound == \A b \in (Base + 1)..height : Settled(b)

\* The buffer never outgrows the limit of handleBlock.
BufferBound == Len(blankBlocks) <= BufferLimit

\* The version s is the runtime of b, or the one before the latest upgrade.
OneBehind(b, s) ==
  /\ s \subseteq Runs(b)
  /\ \A u \in Runs(b) \ s : \A v \in Runs(b) : v <= u

\* The runtime version cached in this.spec and copied to each block row is never
\* ahead of the runtime of the block and at most one upgrade behind it, until
\* the handling of an upgrade block fails before the cache is reset.
SpecAccurate ==
  \A b \in rows["block"] :
    \/ OneBehind(b, blockSpec[b])
    \/ \E u \in failed : u < b /\ kind[u] = "upgrade"

\* No rescan and no restart of the scan process moves the stored height back.
HeightNeverBack == [][height' >= height]_height

\* The scan implements the watermark that readers of the status table see.
Watermark == INSTANCE ScanLog WITH
  done <- {b \in Blocks : Passed(b)}

WatermarkSpec == Watermark!Spec

\* Every block of the range is written, given up, pushed while a flush was
\* awaited, or still in the buffer that dies with the process.
RangeAccounted ==
  \A b \in (From + 1)..To : Passed(b) \/ b \in ToSet(blankBlocks)

\* 'Rescan for block N finished': the block is written, its failure was logged,
\* or it waits in the buffer, unless it was pushed there while a flush was
\* awaited: nothing else takes a block out of the buffer before it is written.
RescanAccounted ==
  \A b \in reported : Passed(b) \/ b \in ToSet(blankBlocks)

\* Once the cut-off has been requested, the buffered blocks are written as soon
\* as the chain yields another block.
CutOffFlushes ==
  \A b \in Blocks :
    (cutOff /\ b \in ToSet(blankBlocks) /\ next <= MaxBlock) ~> Written(b)

\* A scan that has caught up with the chain notices it.
HeadNoticed == <>readFromHead

\* A scan over a range ends, also after a restart, and then every block of the
\* range is accounted for.
RangeEnds == <>[](task[Scan].pc = "done" /\ RangeAccounted)
=============================================================================
