-------------------------- MODULE BlockScanProofs --------------------------
(***************************************************************************)
(* What holds of BlockScan for chains, buffers and numbers of rescans of   *)
(* any size.                                                               *)
(***************************************************************************)
EXTENDS BlockScan, TLAPS

(***************************************************************************)
(* The elements of a sequence.                                             *)
(***************************************************************************)
LEMMA ToSetEmpty == ToSet(<<>>) = {}
BY DEF ToSet

LEMMA ToSetType == ASSUME NEW S, NEW s \in Seq(S) PROVE ToSet(s) \subseteq S
BY DEF ToSet

LEMMA ToSetAppend ==
  ASSUME NEW S, NEW s \in Seq(S), NEW e \in S
  PROVE  ToSet(Append(s, e)) = ToSet(s) \cup {e}
<1>1. DOMAIN s = 1..Len(s) /\ Len(s) \in Nat
  OBVIOUS
<1>2. DOMAIN Append(s, e) = 1..(Len(s) + 1)
  OBVIOUS
<1>3. ASSUME NEW x \in ToSet(Append(s, e)) PROVE x \in ToSet(s) \cup {e}
  BY <1>1, <1>2, <1>3 DEF ToSet
<1>4. ToSet(s) \subseteq ToSet(Append(s, e))
  BY <1>1, <1>2 DEF ToSet
<1>5. e \in ToSet(Append(s, e))
  BY <1>1, <1>2, Append(s, e)[Len(s) + 1] = e DEF ToSet
<1>6. QED
  BY <1>3, <1>4, <1>5

(***************************************************************************)
(* The records that describe suspended callers.                            *)
(***************************************************************************)
LEMMA TaskTypes ==
  ASSUME TypeOK, NEW b \in Blocks, NEW s \in Versions \cup {NoSpec}
  PROVE  /\ \A where \in Places : At(where, b) \in Task
         /\ UpsertOf(b, s) \in Task
         /\ FlushBefore(b, s) \in Task
<1>0. b \in 0..MaxBlock
  BY ScanAssumption DEF Blocks
<1>1. \A where \in Places : At(where, b) \in Task
  BY <1>0 DEF Task, At, NoSpec, Places
<1>2. At("events", b) \in Task /\ At("flush", b) \in Task
  BY <1>1 DEF Places, Working, Writing
<1>3. UpsertOf(b, s) \in Task
  BY <1>2 DEF UpsertOf, Task
<1>4. FlushBefore(b, s) \in Task
  BY <1>2 DEF FlushBefore, Task, TypeOK
<1>5. QED
  BY <1>1, <1>3, <1>4

LEMMA RestingType ==
  \A where \in {"idle", "done", "dead"} : Resting(where) \in Task
BY ScanAssumption DEF Task, At, Resting, Places, Working, Writing, NoSpec

LEMMA SpecAtType == ASSUME NEW b PROVE SpecAt(b) \in Versions
BY ScanAssumption DEF SpecAt, Versions, Blocks

LEMMA InitTypeOK == Init => TypeOK
<1> SUFFICES ASSUME Init PROVE TypeOK
  OBVIOUS
<1>1. task \in [Callers -> Task]
  BY RestingType DEF Init, Places, Working, Writing
<1>2. Base \in Nat
  BY ScanAssumption DEF Base
<1>3. height \in Nat /\ next \in Nat \ {0}
  BY <1>2 DEF Init, StartPositions
<1>4. kind \in [Blocks -> Kinds]
  BY ScanAssumption DEF Init
<1>5. rows \in [Tables -> SUBSET Blocks]
  BY DEF Init
<1>6. blockSpec \in [Blocks -> Versions \cup {NoSpec}]
  BY DEF Init
<1>7. readFromHead \in BOOLEAN /\ cutOff \in BOOLEAN
  BY DEF Init
<1>8. blankBlocks \in Seq(Blocks)
  BY DEF Init
<1>9. head \in 0..MaxBlock /\ lastHandledBlock \in 0..MaxBlock
      /\ asked \in 0..MaxBlock /\ rescans \in Nat /\ restarts \in Nat
  BY ScanAssumption DEF Init
<1>10. spec \in Versions \cup {NoSpec} /\ failed \subseteq Blocks
       /\ late \subseteq Blocks /\ reported \subseteq Blocks
       /\ timer \in {"armed", "asking", "cleared"}
  BY DEF Init
<1>11. QED
  BY <1>1, <1>3, <1>4, <1>5, <1>6, <1>7, <1>8, <1>9, <1>10 DEF TypeOK

LEMMA DispatchType ==
  ASSUME TypeOK, NEW c \in Callers, NEW b \in Blocks, NEW s \in Versions,
         Dispatch(c, b, s)
  PROVE  /\ spec' \in Versions \cup {NoSpec}
         /\ blankBlocks' \in Seq(Blocks)
         /\ readFromHead' \in BOOLEAN
         /\ cutOff' \in BOOLEAN
         /\ lastHandledBlock' \in 0..MaxBlock
         /\ task' \in [Callers -> Task]
         /\ reported' \subseteq Blocks
         /\ late' \subseteq Blocks
<1>1. b \in 0..MaxBlock
  BY ScanAssumption DEF Blocks
<1>2. CASE Buffer(c, b)
  BY <1>1, <1>2, RestingType DEF Dispatch, Buffer, TypeOK, Places, Working, Writing
<1>3. CASE BeginWriting(c, b, s)
  BY <1>1, <1>3, TaskTypes DEF Dispatch, BeginWriting, TypeOK
<1>4. QED
  BY <1>2, <1>3 DEF Dispatch

LEMMA HandleBlockType ==
  ASSUME TypeOK, NEW c \in Callers, NEW b \in Blocks, HandleBlock(c, b)
  PROVE  /\ spec' \in Versions \cup {NoSpec}
         /\ blankBlocks' \in Seq(Blocks)
         /\ readFromHead' \in BOOLEAN
         /\ cutOff' \in BOOLEAN
         /\ lastHandledBlock' \in 0..MaxBlock
         /\ task' \in [Callers -> Task]
         /\ reported' \subseteq Blocks
         /\ late' \subseteq Blocks
<1>1. b \in 0..MaxBlock
  BY ScanAssumption DEF Blocks
<1>2. CASE spec = NoSpec
  <2>1. At("spec", b) \in Task
    BY TaskTypes, NoSpec \in Versions \cup {NoSpec} DEF Places, Working
  <2>2. QED
    BY <1>1, <1>2, <2>1 DEF HandleBlock, AwaitSpec, TypeOK, shared
<1>3. CASE spec # NoSpec
  <2>1. spec \in Versions
    BY <1>3 DEF TypeOK
  <2>2. Dispatch(c, b, spec)
    BY <1>3 DEF HandleBlock
  <2>3. QED
    BY <2>1, <2>2, DispatchType
<1>4. QED
  BY <1>2, <1>3

LEMMA AbortType ==
  ASSUME TypeOK, NEW c \in Callers, Abort(c)
  PROVE  task' \in [Callers -> Task]
BY RestingType DEF Abort, TypeOK, Places, Working, Writing

LEMMA StoreType ==
  ASSUME TypeOK, NEW c \in Callers, NEW t \in Tables, NEW S \in SUBSET Blocks,
         Store(c, t, S)
  PROVE  /\ rows' \in [Tables -> SUBSET Blocks]
         /\ blockSpec' \in [Blocks -> Versions \cup {NoSpec}]
         /\ task' \in [Callers -> Task]
<1>1. /\ rows \in [Tables -> SUBSET Blocks]
      /\ blockSpec \in [Blocks -> Versions \cup {NoSpec}]
      /\ task \in [Callers -> Task]
  BY DEF TypeOK
<1>2. rows' \in [Tables -> SUBSET Blocks]
  BY <1>1 DEF Store
<1>3. task[c].spec \in Versions \cup {NoSpec}
  BY <1>1 DEF Task
<1>4. blockSpec' \in [Blocks -> Versions \cup {NoSpec}]
  BY <1>1, <1>3 DEF Store
<1>5. [task[c] EXCEPT !.todo = @ \ {t}] \in Task
  BY <1>1 DEF Task
<1>6. task' \in [Callers -> Task]
  BY <1>1, <1>5 DEF Store
<1>7. QED
  BY <1>2, <1>4, <1>6

LEMMA AfterUpsertType ==
  ASSUME TypeOK, NEW c \in Callers, task[c].block \in Blocks, AfterUpsert(c)
  PROVE  /\ task' \in [Callers -> Task]
         /\ reported' \subseteq Blocks
<1>1. At("height", task[c].block) \in Task
  BY TaskTypes, NoSpec \in Versions \cup {NoSpec}
  DEF Places, Working, Writing
<1>2. QED
  BY <1>1, RestingType DEF AfterUpsert, TypeOK

LEMMA NextTypeOK == TypeOK /\ [Next]_vars => TypeOK'
<1> SUFFICES ASSUME TypeOK, [Next]_vars PROVE TypeOK'
  OBVIOUS
<1> USE DEF chain, database, shared, clock, history, counters
<1>1. CASE GrowChain
  BY <1>1, ScanAssumption DEF GrowChain, TypeOK
<1>2. CASE Deliver
  <2>0. next \in Nat \ {0} /\ head \in 0..MaxBlock
    BY DEF TypeOK
  <2>a. next <= head /\ HandleBlock(Scan, next) /\ next' = next + 1 /\ UNCHANGED rescans
    BY <1>2, Zenon DEF Deliver
  <2>1. next \in Blocks /\ next + 1 \in Nat \ {0}
    BY <2>0, <2>a, ScanAssumption DEF Blocks
  <2>2. Scan \in Callers
    BY DEF Callers
  <2>3. /\ HandleBlock(Scan, next) /\ next' = next + 1
        /\ UNCHANGED <<rescans, chain, database, clock, failed, restarts>>
    BY <2>a, Zenon DEF HandleBlock
  <2>4. QED
    BY <2>1, <2>2, <2>3, HandleBlockType DEF TypeOK
<1>3. CASE EndOfRange
  BY <1>3, RestingType DEF EndOfRange, TypeOK, Places, Working, Writing
<1>4. ASSUME NEW r \in Rescans, RescanBlock(r) PROVE TypeOK'
  <2>1. PICK b \in 1..head : HandleBlock(r, b)
    BY <1>4 DEF RescanBlock
  <2>2. b \in Blocks /\ r \in Callers
    BY ScanAssumption DEF TypeOK, Blocks, Callers
  <2>3. rescans' = rescans + 1 /\ UNCHANGED next /\ rescans < MaxRescans
    BY <1>4, Zenon DEF RescanBlock
  <2>4. UNCHANGED <<chain, database, clock, failed, restarts>>
    BY <2>1, Zenon DEF HandleBlock
  <2>5. QED
    BY <2>1, <2>2, <2>3, <2>4, ScanAssumption, HandleBlockType DEF TypeOK
<1>5. ASSUME NEW c \in Callers, Continue(c) PROVE TypeOK'
  <2>0. task[c] \in Task
    BY DEF TypeOK
  <2>1. CASE SpecArrives(c)
    <3>1. task[c].block \in Blocks
      BY <2>0, <2>1 DEF SpecArrives, Task, Working
    <3>2. SpecAt(task[c].block) \in Versions
      BY SpecAtType
    <3>3. QED
      BY <2>1, <3>1, <3>2, DispatchType DEF SpecArrives, TypeOK
  <2>2. CASE FlushCommits(c)
    <3>1. ToSet(task[c].batch) \subseteq Blocks
      BY <2>0, ToSetType DEF Task
    <3>2. PICK t \in task[c].todo : Store(c, t, ToSet(task[c].batch))
      BY <2>2 DEF FlushCommits
    <3>3. t \in Tables
      BY <2>0 DEF Task
    <3>4. QED
      BY <2>2, <3>1, <3>2, <3>3, StoreType DEF FlushCommits, TypeOK
  <2>3. CASE FlushDone(c)
    <3>0. task[c].block \in Blocks
      BY <2>0, <2>3 DEF FlushDone, Task, Working
    <3>1. UpsertOf(task[c].block, spec) \in Task
      BY <3>0, TaskTypes DEF TypeOK
    <3>2. QED
      BY <2>3, <3>1 DEF FlushDone, TypeOK
  <2>4. CASE EventsCommit(c)
    <3>1. task[c].block \in Blocks
      BY <2>0, <2>4 DEF EventsCommit, Task, Working, Writing
    <3>2. QED
      BY <2>0, <2>4, <3>1 DEF EventsCommit, TypeOK, Task, Places, Working, Writing, Tables
  <2>5. CASE BatchesDone(c)
    BY <2>0, <2>5 DEF BatchesDone, TypeOK, Task, Places, Working, Writing, Tables
  <2>6. CASE RowCommits(c)
    <3>1. task[c].block \in Blocks
      BY <2>0, <2>6 DEF RowCommits, Task, Working, Writing
    <3>2. PICK t \in task[c].todo : Store(c, t, {task[c].block})
      BY <2>6 DEF RowCommits
    <3>3. t \in Tables
      BY <2>0 DEF Task
    <3>4. QED
      BY <2>6, <3>1, <3>2, <3>3, StoreType DEF RowCommits, TypeOK
  <2>7. CASE UpsertDone(c)
    <3>1. task[c].block \in Blocks
      BY <2>0, <2>7 DEF UpsertDone, Task, Working, Writing
    <3>2. QED
      BY <2>7, <3>1, AfterUpsertType DEF UpsertDone, TypeOK
  <2>8. CASE HeightCommits(c)
    BY <2>0, <2>8, RestingType DEF HeightCommits, TypeOK, Task, Places, Working, Writing
  <2>9. QED
    BY <1>5, <2>1, <2>2, <2>3, <2>4, <2>5, <2>6, <2>7, <2>8 DEF Continue
<1>6. ASSUME NEW c \in Callers, Fail(c) PROVE TypeOK'
  <2>0. task[c] \in Task
    BY DEF TypeOK
  <2>1. CASE SpecFails(c)
    BY <2>1, AbortType DEF SpecFails, TypeOK
  <2>2. CASE FlushFails(c)
    BY <2>2, AbortType DEF FlushFails, TypeOK
  <2>3. CASE UpsertFails(c)
    <3>1. task[c].block \in Blocks
      BY <2>0, <2>3 DEF UpsertFails, UpsertCanFail, Task, Working, Writing
    <3>2. QED
      BY <2>3, <3>1, AfterUpsertType DEF UpsertFails, TypeOK
  <2>4. CASE HeightFails(c)
    BY <2>4, AbortType DEF HeightFails, TypeOK
  <2>5. QED
    BY <1>6, <2>1, <2>2, <2>3, <2>4 DEF Fail
<1>7. CASE TimerAsks
  BY <1>7 DEF TimerAsks, TypeOK
<1>8. CASE TimerAnswered
  <2>1. readFromHead' \in BOOLEAN /\ cutOff' \in BOOLEAN
    BY <1>8 DEF TimerAnswered, TypeOK
  <2>2. timer' \in {"armed", "asking", "cleared"} /\ asked' \in 0..MaxBlock
    BY <1>8, ScanAssumption DEF TimerAnswered
  <2>3. QED
    BY <1>8, <2>1, <2>2 DEF TimerAnswered, TypeOK
<1>9. CASE TimerFails
  BY <1>9, ScanAssumption DEF TimerFails, TypeOK
<1>10. CASE Restart
  <2>1. height' \in Nat
    BY <1>10, ScanAssumption DEF Restart, TypeOK
  <2>2. next' \in Nat \ {0}
    BY <1>10, <2>1 DEF Restart, StartPositions
  <2>3. task' \in [Callers -> Task]
    BY <1>10, RestingType DEF Restart
  <2>4. readFromHead' \in BOOLEAN /\ cutOff' \in BOOLEAN
    BY <1>10 DEF Restart
  <2>5. QED
    BY <1>10, <2>1, <2>2, <2>3, <2>4, ScanAssumption DEF Restart, TypeOK
<1>11. CASE StartFails
  <2>1. task' \in [Callers -> Task]
    BY <1>11, RestingType DEF StartFails
  <2>2. readFromHead' \in BOOLEAN /\ cutOff' \in BOOLEAN
    BY <1>11 DEF StartFails
  <2>3. QED
    BY <1>11, <2>1, <2>2, ScanAssumption DEF StartFails, TypeOK
<1>12. CASE UNCHANGED vars
  BY <1>12 DEF vars, TypeOK
<1>13. QED
  BY <1>1, <1>2, <1>3, <1>4, <1>5, <1>6, <1>7, <1>8, <1>9, <1>10, <1>11, <1>12
  DEF Next

\* The variables of the scanner keep their types, whatever the chain and
\* however many rescans, failures and restarts there are.
THEOREM ScanTypeCorrect == Spec => []TypeOK
<1>1. TypeOK /\ [Next]_vars => TypeOK'
  BY NextTypeOK
<1>2. QED
  BY <1>1, InitTypeOK, PTL DEF Spec

(***************************************************************************)
(* The safety of the stored height.                                        *)
(***************************************************************************)
LEMMA InitScanInv == Init => ScanInv
<1> SUFFICES ASSUME Init PROVE ScanInv
  OBVIOUS
<1>1. TypeOK
  BY InitTypeOK
<1>2. ToSet(blankBlocks) = {}
  BY ToSetEmpty DEF Init
<1>3. Scan \in Callers /\ \A r \in Rescans : r \in Callers
  BY DEF Callers
<1>4. \A c \in Callers : task[c].pc = "idle"
  BY DEF Init, Resting, At
<1>5. Base \in Nat /\ height = Base /\ next \in {Base, Base + 1}
  BY ScanAssumption DEF Init, StartPositions, Base
<1>6. late = {}
  BY DEF Init
<1>7. BlanksOnly
  BY <1>2, <1>6 DEF BlanksOnly
<1>8. FlushProgress /\ UpsertProgress /\ OnlyScanStoresHeight
  BY <1>3, <1>4 DEF FlushProgress, UpsertProgress, OnlyScanStoresHeight
<1>9. Current /\ Below /\ Stored
  BY <1>3, <1>4 DEF Current, Below, Stored, Working, Writing
<1>10. Behind /\ Covered
  BY <1>5 DEF Behind, Covered
<1>11. QED
  BY <1>1, <1>7, <1>8, <1>9, <1>10 DEF ScanInv

\* Rows, failures and losses are never forgotten, and blocks do not change.
LEMMA Growing ==
  ASSUME TypeOK, [Next]_vars
  PROVE  /\ \A t \in Tables : rows[t] \subseteq rows'[t]
         /\ failed \subseteq failed'
         /\ late \subseteq late'
         /\ kind' = kind
<1> USE DEF chain, database, shared, clock, history, counters
<1>1. CASE GrowChain
  BY <1>1 DEF GrowChain
<1>2. CASE Deliver
  BY <1>2 DEF Deliver, HandleBlock, Dispatch, Buffer, BeginWriting, AwaitSpec
<1>3. CASE EndOfRange
  BY <1>3 DEF EndOfRange
<1>4. ASSUME NEW r \in Rescans, RescanBlock(r)
      PROVE /\ rows' = rows /\ failed' = failed /\ late \subseteq late'
            /\ kind' = kind
  BY <1>4 DEF RescanBlock, HandleBlock, Dispatch, Buffer, BeginWriting, AwaitSpec
<1>5. ASSUME NEW c \in Callers, Continue(c)
      PROVE  /\ \A t \in Tables : rows[t] \subseteq rows'[t]
             /\ failed' = failed
             /\ late \subseteq late'
             /\ kind' = kind
  <2>1. CASE SpecArrives(c)
    BY <2>1 DEF SpecArrives, Dispatch, Buffer, BeginWriting
  <2>2. CASE FlushCommits(c)
    BY <2>2 DEF FlushCommits, Store, TypeOK
  <2>3. CASE FlushDone(c)
    BY <2>3 DEF FlushDone
  <2>4. CASE EventsCommit(c)
    BY <2>4 DEF EventsCommit, TypeOK
  <2>5. CASE BatchesDone(c)
    BY <2>5 DEF BatchesDone
  <2>6. CASE RowCommits(c)
    BY <2>6 DEF RowCommits, Store, TypeOK
  <2>7. CASE UpsertDone(c)
    BY <2>7 DEF UpsertDone
  <2>8. CASE HeightCommits(c)
    BY <2>8 DEF HeightCommits
  <2>9. QED
    BY <1>5, <2>1, <2>2, <2>3, <2>4, <2>5, <2>6, <2>7, <2>8 DEF Continue
<1>6. ASSUME NEW c \in Callers, Fail(c)
      PROVE  /\ rows' = rows /\ failed \subseteq failed' /\ late' = late
             /\ kind' = kind
  BY <1>6 DEF Fail, SpecFails, FlushFails, UpsertFails, HeightFails
<1>7. CASE TimerAsks \/ TimerAnswered \/ TimerFails
  BY <1>7 DEF TimerAsks, TimerAnswered, TimerFails
<1>8. CASE Restart \/ StartFails
  BY <1>8 DEF Restart, StartFails
<1>9. CASE UNCHANGED vars
  BY <1>9 DEF vars
<1>10. QED
  BY <1>1, <1>2, <1>3, <1>4, <1>5, <1>6, <1>7, <1>8, <1>9 DEF Next

LEMMA PassedStays ==
  ASSUME TypeOK, [Next]_vars, NEW b
  PROVE  /\ Settled(b) => Settled(b)'
         /\ Passed(b) => Passed(b)'
BY Growing DEF Passed, Settled, Written

(***************************************************************************)
(* How a caller that handles block b leaves the synchronous part of        *)
(* handleBlock: b was buffered, or it waits, or it writes with an empty    *)
(* buffer.                                                                 *)
(***************************************************************************)
Handled(c, b) ==
  /\ \A d \in Callers \ {c} : task'[d] = task[d]
  /\ \/ /\ task'[c].pc = "idle"
        /\ kind[b] = "blank"
        /\ ToSet(blankBlocks') = ToSet(blankBlocks) \cup {b}
        /\ late' = IF Flushing THEN late \cup {b} ELSE late
     \/ /\ task'[c].pc \in {"spec", "flush"}
        /\ task'[c].block = b
        /\ blankBlocks' = blankBlocks
        /\ late' = late
        /\ task'[c].pc = "flush" =>
             task'[c].batch = blankBlocks /\ task'[c].todo = Tables
     \/ /\ task'[c].pc = "events"
        /\ task'[c].block = b
        /\ blankBlocks' = blankBlocks
        /\ late' = late
        /\ ToSet(blankBlocks) = {}

LEMMA DispatchHandled ==
  ASSUME TypeOK, NEW c \in Callers, NEW b \in Blocks, NEW s, Dispatch(c, b, s)
  PROVE  Handled(c, b)
<1>1. CASE Buffer(c, b)
  <2>1. task'[c].pc = "idle" /\ \A d \in Callers \ {c} : task'[d] = task[d]
    BY <1>1 DEF Buffer, TypeOK, Resting, At
  <2>2. kind[b] = "blank"
    BY <1>1 DEF Buffer, MustWrite
  <2>3. ToSet(blankBlocks') = ToSet(blankBlocks) \cup {b}
    BY <1>1, ToSetAppend DEF Buffer, TypeOK
  <2>4. late' = IF Flushing THEN late \cup {b} ELSE late
    BY <1>1 DEF Buffer
  <2>5. QED
    BY <2>1, <2>2, <2>3, <2>4 DEF Handled
<1>2. CASE BeginWriting(c, b, s)
  <2>1. blankBlocks' = blankBlocks /\ late' = late
        /\ \A d \in Callers \ {c} : task'[d] = task[d]
    BY <1>2 DEF BeginWriting, TypeOK
  <2>2. CASE blankBlocks = <<>>
    <3>1. task'[c] = UpsertOf(b, s)
      BY <1>2, <2>2 DEF BeginWriting, TypeOK
    <3>2. task'[c].pc = "events" /\ task'[c].block = b
      BY <3>1 DEF UpsertOf, At
    <3>3. QED
      BY <2>1, <2>2, <3>2, ToSetEmpty DEF Handled
  <2>3. CASE blankBlocks # <<>>
    <3>1. task'[c] = FlushBefore(b, s)
      BY <1>2, <2>3 DEF BeginWriting, TypeOK
    <3>2. /\ task'[c].pc = "flush" /\ task'[c].block = b
          /\ task'[c].batch = blankBlocks /\ task'[c].todo = Tables
      BY <3>1 DEF FlushBefore, At
    <3>3. QED
      BY <2>1, <3>2 DEF Handled
  <2>4. QED
    BY <2>2, <2>3
<1>3. QED
  BY <1>1, <1>2 DEF Dispatch

LEMMA HandleBlockHandled ==
  ASSUME TypeOK, NEW c \in Callers, NEW b \in Blocks, HandleBlock(c, b)
  PROVE  Handled(c, b)
<1>1. CASE spec = NoSpec
  <2>1. AwaitSpec(c, b)
    BY <1>1 DEF HandleBlock
  <2>2. task'[c].pc = "spec" /\ task'[c].block = b /\ blankBlocks' = blankBlocks
        /\ late' = late
        /\ \A d \in Callers \ {c} : task'[d] = task[d]
    BY <2>1 DEF AwaitSpec, TypeOK, At, shared
  <2>3. QED
    BY <2>2 DEF Handled
<1>2. CASE spec # NoSpec
  BY <1>2, DispatchHandled DEF HandleBlock
<1>3. QED
  BY <1>1, <1>2

(***************************************************************************)
(* The parts of ScanInv that a step of one caller preserves.               *)
(***************************************************************************)
LEMMA CallerStep ==
  ASSUME ScanInv, [Next]_vars, NEW c \in Callers,
         \A d \in Callers \ {c} : task'[d] = task[d],
         task'[c].pc \in {"batches", "rows"} =>
           task'[c].block \in rows'["event"],
         task'[c].pc = "rows" =>
           \A t \in {"block", "extrinsic"} \ task'[c].todo :
             task'[c].block \in rows'[t],
         c \in Rescans => task'[c].pc # "height"
  PROVE  UpsertProgress' /\ OnlyScanStoresHeight'
<1>1. \A t \in Tables : rows[t] \subseteq rows'[t]
  BY Growing DEF ScanInv
<1>2. UpsertProgress'
  BY <1>1 DEF ScanInv, UpsertProgress, Tables
<1>3. OnlyScanStoresHeight'
  BY DEF ScanInv, OnlyScanStoresHeight, Callers
<1>4. QED
  BY <1>2, <1>3

LEMMA CallersRest ==
  ASSUME \A c \in Callers : task'[c].pc \in {"idle", "dead"}
  PROVE  UpsertProgress' /\ OnlyScanStoresHeight'
BY DEF UpsertProgress, OnlyScanStoresHeight, Callers

\* Steps that leave the scan loop alone.  The buffer may gain blank blocks,
\* and may lose blocks that are passed.
LEMMA BufferFrame ==
  ASSUME ScanInv, [Next]_vars, task'[Scan] = task[Scan],
         UNCHANGED <<next, height>>,
         \A b \in ToSet(blankBlocks') : b \in ToSet(blankBlocks) \/ kind[b] = "blank",
         \A b \in ToSet(blankBlocks) : b \in ToSet(blankBlocks') \/ Passed(b)',
         \A b \in late' : b \in late \/ kind[b] = "blank"
  PROVE  /\ BlanksOnly' /\ Current' /\ Behind'
         /\ Below' /\ Stored' /\ Covered'
<1>1. kind' = kind
  BY Growing DEF ScanInv
<1>2. \A b : (Settled(b) => Settled(b)') /\ (Passed(b) => Passed(b)')
  BY PassedStays DEF ScanInv
<1>3. BlanksOnly'
  BY <1>1 DEF ScanInv, BlanksOnly
<1>4. Behind'
  BY <1>2 DEF ScanInv, Behind
<1>5. Current' /\ Below' /\ Stored' /\ Covered'
  BY <1>2 DEF ScanInv, Current, Below, Stored, Covered
<1>6. QED
  BY <1>3, <1>4, <1>5

\* Steps that leave the scan loop and the buffer alone.
LEMMA ScanFrame ==
  ASSUME ScanInv, [Next]_vars, task'[Scan] = task[Scan],
         UNCHANGED <<next, height, blankBlocks, late>>
  PROVE  /\ BlanksOnly' /\ Current' /\ Behind'
         /\ Below' /\ Stored' /\ Covered'
BY BufferFrame

\* A rescan that leaves the synchronous part of handleBlock.
LEMMA RescanHandles ==
  ASSUME ScanInv, [Next]_vars, NEW r \in Rescans, NEW b \in Blocks,
         Handled(r, b), UNCHANGED <<next, height>>
  PROVE  /\ UpsertProgress' /\ OnlyScanStoresHeight'
         /\ BlanksOnly' /\ Current' /\ Behind'
         /\ Below' /\ Stored' /\ Covered'
<1>1. r \in Callers /\ Scan \in Callers /\ r # Scan
  BY ScanAssumption DEF Callers
<1>2. task'[Scan] = task[Scan]
  BY <1>1 DEF Handled
<1>3. task'[r].pc \in {"idle", "spec", "flush", "events"}
  BY DEF Handled
<1>4. UpsertProgress' /\ OnlyScanStoresHeight'
  BY <1>1, <1>3, CallerStep DEF Handled
<1>5. ToSet(blankBlocks) \subseteq ToSet(blankBlocks')
  BY DEF Handled
<1>6. /\ \A x \in ToSet(blankBlocks') : x \in ToSet(blankBlocks) \/ kind[x] = "blank"
      /\ \A x \in late' : x \in late \/ kind[x] = "blank"
  BY DEF Handled
<1>7. QED
  BY <1>2, <1>4, <1>5, <1>6, BufferFrame

(***************************************************************************)
(* The steps of the scan loop.                                             *)
(***************************************************************************)
LEMMA ScanHandles ==
  ASSUME ScanInv, [Next]_vars, NEW b \in Blocks, Handled(Scan, b),
         next' = b + 1, height' = height,
         \A x \in (Base + 1)..(b - 1) : Passed(x) \/ x \in ToSet(blankBlocks)
  PROVE  /\ UpsertProgress' /\ OnlyScanStoresHeight'
         /\ BlanksOnly' /\ Current' /\ Behind'
         /\ Below' /\ Stored' /\ Covered'
<1>1. Scan \in Callers /\ Scan \notin Rescans
  BY ScanAssumption DEF Callers
<1>2. kind' = kind
  BY Growing DEF ScanInv
<1>3. \A x : Passed(x) => Passed(x)'
  BY PassedStays DEF ScanInv
<1>4. UpsertProgress' /\ OnlyScanStoresHeight'
  <2>1. task'[Scan].pc \in {"idle", "spec", "flush", "events"}
    BY DEF Handled
  <2>2. QED
    BY <1>1, <2>1, CallerStep DEF Handled
<1>5. Base \in Nat /\ b \in Nat
  BY ScanAssumption DEF Base, Blocks
<1>6. BlanksOnly'
  <2>1. /\ \A x \in ToSet(blankBlocks') : x \in ToSet(blankBlocks) \/ kind[x] = "blank"
        /\ \A x \in late' : x \in late \/ kind[x] = "blank"
    BY DEF Handled
  <2>2. QED
    BY <1>2, <2>1 DEF ScanInv, BlanksOnly
<1>7. Current'
  BY DEF Current, Handled, Working, Writing
<1>8. Behind'
  <2>1. ToSet(blankBlocks) \subseteq ToSet(blankBlocks')
    BY DEF Handled
  <2>2. b \in ToSet(blankBlocks') \/ (task'[Scan].pc \in Working /\ b = task'[Scan].block)
    BY DEF Handled, Working, Writing
  <2>3. ASSUME NEW x \in (Base + 1)..(next' - 1)
        PROVE  x \in (Base + 1)..(b - 1) \/ x = b
    BY <1>5
  <2>4. QED
    BY <1>3, <2>1, <2>2, <2>3 DEF Behind
<1>9. Below'
  BY <1>3 DEF Below, Handled, Writing
<1>10. Stored' /\ Covered'
  <2>1. task'[Scan].pc # "height"
    BY DEF Handled
  <2>2. QED
    BY <1>3, <2>1 DEF Stored, Covered, ScanInv
<1>11. QED
  BY <1>4, <1>6, <1>7, <1>8, <1>9, <1>10

\* The scan loop goes on with the block it is working on.
LEMMA ScanProgresses ==
  ASSUME ScanInv, [Next]_vars,
         task[Scan].pc \in Working, task'[Scan].pc \in Working,
         task'[Scan].block = task[Scan].block,
         task'[Scan].pc \in Writing => task[Scan].pc \in Writing,
         task'[Scan].pc = "height" => Settled(task[Scan].block)',
         UNCHANGED <<next, height, blankBlocks, late>>
  PROVE  /\ BlanksOnly' /\ Current' /\ Behind'
         /\ Below' /\ Stored' /\ Covered'
<1>1. kind' = kind
  BY Growing DEF ScanInv
<1>2. \A b : (Settled(b) => Settled(b)') /\ (Passed(b) => Passed(b)')
  BY PassedStays DEF ScanInv
<1>3. BlanksOnly'
  BY <1>1 DEF ScanInv, BlanksOnly
<1>4. Behind'
  BY <1>2 DEF ScanInv, Behind, Working, Writing
<1>5. Current' /\ Below' /\ Covered'
  BY <1>2 DEF ScanInv, Current, Below, Covered
<1>6. Stored'
  BY DEF Stored
<1>7. QED
  BY <1>3, <1>4, <1>5, <1>6

\* The scan loop is gone.
LEMMA ScanDies ==
  ASSUME ScanInv, [Next]_vars, task'[Scan].pc = "dead",
         UNCHANGED <<height, late>>,
         ToSet(blankBlocks') \subseteq ToSet(blankBlocks)
  PROVE  /\ BlanksOnly' /\ Current' /\ Behind'
         /\ Below' /\ Stored' /\ Covered'
<1>1. kind' = kind
  BY Growing DEF ScanInv
<1>2. \A b : Passed(b) => Passed(b)'
  BY PassedStays DEF ScanInv
<1>3. QED
  BY <1>1, <1>2
  DEF ScanInv, BlanksOnly, Current, Behind, Below, Stored, Covered, Working, Writing

\* The parts of ScanInv besides the types and the flush.
ScanParts ==
  /\ BlanksOnly /\ UpsertProgress /\ OnlyScanStoresHeight /\ Current
  /\ Behind /\ Below /\ Stored /\ Covered

LEMMA DeliverKeeps ==
  ASSUME ScanInv, [Next]_vars, Deliver PROVE ScanParts'
<1>1. next \in Blocks /\ Scan \in Callers
  BY ScanAssumption DEF Deliver, ScanInv, TypeOK, Blocks, Callers
<1>2. Handled(Scan, next)
  BY <1>1, HandleBlockHandled DEF Deliver, ScanInv
<1>3. \A x \in (Base + 1)..(next - 1) : Passed(x) \/ x \in ToSet(blankBlocks)
  BY DEF Deliver, ScanInv, Behind, Working, Writing
<1>4. next' = next + 1 /\ height' = height
  BY DEF Deliver, HandleBlock, database
<1>5. QED
  BY <1>1, <1>2, <1>3, <1>4, ScanHandles DEF ScanParts

LEMMA SpecArrivesKeeps ==
  ASSUME ScanInv, [Next]_vars, NEW c \in Callers, SpecArrives(c)
  PROVE  ScanParts'
<1> DEFINE b == task[c].block
<1>1. b \in Blocks
  BY DEF ScanInv, TypeOK, Task, SpecArrives, Working
<1>2. Handled(c, b)
  BY <1>1, DispatchHandled DEF SpecArrives, ScanInv
<1>3. next' = next /\ height' = height
  BY DEF SpecArrives, database
<1>4. CASE c \in Rescans
  BY <1>1, <1>2, <1>3, <1>4, RescanHandles DEF ScanParts
<1>5. CASE c = Scan
  <2>1. next = b + 1
    BY <1>5 DEF ScanInv, Current, SpecArrives, Working
  <2>2. b \in Nat /\ Base \in Nat
    BY <1>1, ScanAssumption DEF Blocks, Base
  <2>3. \A x \in (Base + 1)..(b - 1) : Passed(x) \/ x \in ToSet(blankBlocks)
    <3>1. TAKE x \in (Base + 1)..(b - 1)
    <3>2. x \in (Base + 1)..(next - 1) /\ x # b
      BY <2>1, <2>2
    <3>3. QED
      BY <1>5, <3>2 DEF ScanInv, Behind, SpecArrives
  <2>4. QED
    BY <1>1, <1>2, <1>3, <1>5, <2>1, <2>3, ScanHandles DEF ScanParts
<1>6. QED
  BY <1>4, <1>5 DEF Callers

\* The four continuations that store rows or wait, and change nothing else
\* that ScanInv speaks of.
LEMMA WritingKeeps ==
  ASSUME ScanInv, [Next]_vars, NEW c \in Callers,
         FlushCommits(c) \/ EventsCommit(c) \/ BatchesDone(c) \/ RowCommits(c)
  PROVE  ScanParts'
<1> USE DEF database, shared, history
<1>0. task \in [Callers -> Task] /\ rows \in [Tables -> SUBSET Blocks]
  BY DEF ScanInv, TypeOK
<1>1. UNCHANGED <<next, height, blankBlocks, late>>
  BY DEF FlushCommits, EventsCommit, BatchesDone, RowCommits
<1>2. \A d \in Callers \ {c} : task'[d] = task[d]
  BY <1>0 DEF FlushCommits, EventsCommit, BatchesDone, RowCommits, Store
<1>3. /\ task[c].pc \in Working /\ task'[c].pc \in Working \ {"height"}
      /\ task'[c].block = task[c].block
      /\ task'[c].pc \in Writing => task[c].pc \in Writing
  BY <1>0 DEF FlushCommits, EventsCommit, BatchesDone, RowCommits, Store,
              Task, Working, Writing
<1>4. UpsertProgress' /\ OnlyScanStoresHeight'
  <2>1. CASE FlushCommits(c)
    <3>1. task'[c].pc = "flush"
      BY <1>0, <2>1 DEF FlushCommits, Store, Task
    <3>2. QED
      BY <1>2, <3>1, CallerStep
  <2>2. CASE EventsCommit(c)
    <3>1. task'[c].pc = "batches" /\ task[c].block \in rows'["event"]
      BY <1>0, <2>2 DEF EventsCommit, Task, Tables
    <3>2. QED
      BY <1>2, <1>3, <3>1, CallerStep
  <2>3. CASE BatchesDone(c)
    <3>1. task'[c].pc = "rows" /\ task'[c].todo = {"block", "extrinsic"}
          /\ task[c].block \in rows["event"] /\ rows' = rows
      BY <1>0, <2>3 DEF BatchesDone, Task, ScanInv, UpsertProgress
    <3>2. QED
      BY <1>2, <1>3, <3>1, CallerStep
  <2>4. CASE RowCommits(c)
    <3>1. PICK t \in task[c].todo : Store(c, t, {task[c].block})
      BY <2>4 DEF RowCommits
    <3>2. t \in Tables
      BY <1>0 DEF Task
    <3>3. task'[c].pc = "rows" /\ task'[c].todo = task[c].todo \ {t}
      BY <1>0, <2>4, <3>1 DEF RowCommits, Store, Task
    <3>4. task[c].block \in rows'[t]
          /\ \A u \in Tables : rows[u] \subseteq rows'[u]
      BY <1>0, <3>1, <3>2 DEF Store
    <3>5. /\ task[c].block \in rows["event"]
          /\ \A u \in {"block", "extrinsic"} \ task[c].todo : task[c].block \in rows[u]
      BY <2>4 DEF RowCommits, ScanInv, UpsertProgress
    <3>6. \A u \in {"block", "extrinsic"} \ task'[c].todo : task[c].block \in rows'[u]
      BY <3>3, <3>4, <3>5 DEF Tables
    <3>7. QED
      BY <1>2, <1>3, <3>3, <3>4, <3>5, <3>6, CallerStep DEF Tables
  <2>5. QED
    BY <2>1, <2>2, <2>3, <2>4
<1>5. CASE c = Scan
  BY <1>1, <1>3, <1>4, <1>5, ScanProgresses DEF ScanParts
<1>6. CASE c # Scan
  BY <1>1, <1>2, <1>4, <1>6, ScanFrame DEF ScanParts, Callers
<1>7. QED
  BY <1>5, <1>6

LEMMA FlushDoneKeeps ==
  ASSUME ScanInv, [Next]_vars, NEW c \in Callers, FlushDone(c)
  PROVE  ScanParts'
<1>1. task'[c].pc = "events" /\ task'[c].block = task[c].block
      /\ \A d \in Callers \ {c} : task'[d] = task[d]
  BY DEF FlushDone, ScanInv, TypeOK, UpsertOf, At
<1>2. UpsertProgress' /\ OnlyScanStoresHeight'
  BY <1>1, CallerStep
<1>3. UNCHANGED <<next, height, rows, failed, late>>
  BY DEF FlushDone, database, history
<1>4. ToSet(blankBlocks') = {}
  BY ToSetEmpty DEF FlushDone
<1>5. \A b \in ToSet(blankBlocks) : Passed(b)'
  BY <1>3 DEF FlushDone, ScanInv, FlushProgress, Passed, Settled, Written
<1>7. CASE c # Scan
  BY <1>1, <1>2, <1>3, <1>4, <1>5, <1>7, BufferFrame DEF ScanParts, Callers
<1>8. CASE c = Scan
  <2>1. kind' = kind
    BY Growing DEF ScanInv
  <2>2. \A b : Passed(b) => Passed(b)'
    BY PassedStays DEF ScanInv
  <2>3. BlanksOnly'
    BY <1>3, <1>4, <2>1 DEF ScanInv, BlanksOnly
  <2>4. next = task[Scan].block + 1
    BY <1>8 DEF FlushDone, ScanInv, Current, Working
  <2>5. Current'
    BY <1>1, <1>3, <1>8, <2>4 DEF Current
  <2>6. \A b \in (Base + 1)..(next - 1) : Passed(b)' \/ b = task[Scan].block
    BY <1>5, <1>8, <2>2 DEF ScanInv, Behind, FlushDone
  <2>7. Behind'
    BY <1>1, <1>3, <1>8, <2>6 DEF Behind, Working, Writing
  <2>8. Below'
    <3>1. task[Scan].block \in Nat /\ Base \in Nat
      BY <1>8, ScanAssumption
      DEF FlushDone, ScanInv, TypeOK, Task, Working, Blocks, Base
    <3>2. \A b \in (Base + 1)..(task[Scan].block - 1) : Passed(b)'
      BY <2>4, <2>6, <3>1
    <3>3. QED
      BY <1>1, <1>8, <3>2 DEF Below
  <2>9. Stored' /\ Covered'
    BY <1>1, <1>3, <1>8, <2>2 DEF Stored, Covered, ScanInv
  <2>10. QED
    BY <1>2, <2>3, <2>5, <2>7, <2>8, <2>9 DEF ScanParts
<1>9. QED
  BY <1>7, <1>8

\* After upsertHandlerBlock, whether it succeeded or its error was logged.
LEMMA AfterUpsertKeeps ==
  ASSUME ScanInv, [Next]_vars, NEW c \in Callers, AfterUpsert(c),
         task[c].pc \in Writing \ {"height"},
         NEW b, b = task[c].block, Settled(b)',
         UNCHANGED <<next, height, blankBlocks, late>>
  PROVE  ScanParts'
<1>0. task \in [Callers -> Task]
  BY DEF ScanInv, TypeOK
<1>1. \A d \in Callers \ {c} : task'[d] = task[d]
  BY <1>0 DEF AfterUpsert
<1>2. CASE c = Scan
  <2>1. task'[Scan].pc = "height" /\ task'[Scan].block = b
    BY <1>0, <1>2 DEF AfterUpsert, At
  <2>2. UpsertProgress' /\ OnlyScanStoresHeight'
    BY <1>1, <1>2, <2>1, ScanAssumption, CallerStep
  <2>3. QED
    BY <1>2, <2>1, <2>2, ScanProgresses DEF ScanParts, Working, Writing
<1>3. CASE c \in Rescans
  <2>0. c # Scan
    BY <1>3, ScanAssumption
  <2>1. task'[c].pc = "idle"
    BY <1>0, <2>0 DEF AfterUpsert, Resting, At
  <2>2. UpsertProgress' /\ OnlyScanStoresHeight'
    BY <1>1, <2>1, CallerStep
  <2>3. task'[Scan] = task[Scan]
    BY <1>1, <2>0 DEF Callers
  <2>4. QED
    BY <2>2, <2>3, ScanFrame DEF ScanParts
<1>4. QED
  BY <1>2, <1>3 DEF Callers

LEMMA UpsertDoneKeeps ==
  ASSUME ScanInv, [Next]_vars, NEW c \in Callers, UpsertDone(c)
  PROVE  ScanParts'
<1> DEFINE b == task[c].block
<1>1. Written(b)
  BY DEF UpsertDone, ScanInv, UpsertProgress, Written, Tables
<1>2. UNCHANGED <<rows, next, height, blankBlocks, late>>
  BY DEF UpsertDone, database, shared
<1>3. PICK x : x = b
  OBVIOUS
<1>4. Settled(x)'
  BY <1>1, <1>2, <1>3 DEF Settled, Written
<1>5. QED
  BY <1>2, <1>3, <1>4, AfterUpsertKeeps DEF UpsertDone, Writing

LEMMA UpsertFailsKeeps ==
  ASSUME ScanInv, [Next]_vars, NEW c \in Callers, UpsertFails(c)
  PROVE  ScanParts'
<1>1. PICK x : x = task[c].block
  OBVIOUS
<1>2. Settled(x)'
  BY <1>1 DEF UpsertFails, Settled
<1>3. UNCHANGED <<next, height, blankBlocks, late>>
  BY DEF UpsertFails, database, shared
<1>4. QED
  BY <1>1, <1>2, <1>3, AfterUpsertKeeps DEF UpsertFails, UpsertCanFail, Writing

LEMMA HeightCommitsKeeps ==
  ASSUME ScanInv, [Next]_vars, NEW c \in Callers, HeightCommits(c)
  PROVE  ScanParts'
<1> DEFINE b == task[Scan].block
<1>1. c = Scan
  BY DEF HeightCommits, ScanInv, OnlyScanStoresHeight, Callers
<1>2. task'[Scan].pc = "idle" /\ \A d \in Callers \ {Scan} : task'[d] = task[d]
  BY <1>1 DEF HeightCommits, ScanInv, TypeOK, Resting, At
<1>3. UNCHANGED <<next, blankBlocks, late>> /\ height' = b
  BY <1>1 DEF HeightCommits, shared, history
<1>4. kind' = kind
  BY Growing DEF ScanInv
<1>5. \A x : (Settled(x) => Settled(x)') /\ (Passed(x) => Passed(x)')
  BY PassedStays DEF ScanInv
<1>6. UpsertProgress' /\ OnlyScanStoresHeight'
  BY <1>1, <1>2, CallerStep
<1>7. Settled(b) /\ next = b + 1 /\ \A x \in (Base + 1)..(b - 1) : Passed(x)
  BY <1>1 DEF HeightCommits, ScanInv, Stored, Current, Below, Working, Writing
<1>8. b \in Nat /\ Base \in Nat
  BY <1>1, ScanAssumption
  DEF HeightCommits, ScanInv, TypeOK, Task, Working, Writing, Blocks, Base
<1>9. \A x \in (Base + 1)..b : Passed(x)
  <2>1. \A x \in (Base + 1)..b : x = b \/ x \in (Base + 1)..(b - 1)
    BY <1>8
  <2>2. QED
    BY <1>7, <2>1 DEF Passed
<1>10. Behind' /\ Covered'
  <2>1. \A x \in (Base + 1)..(next' - 1) : Passed(x)
    BY <1>3, <1>7, <1>8, <1>9
  <2>2. Behind'
    BY <1>5, <2>1 DEF Behind
  <2>3. Covered'
    BY <1>3, <1>5, <1>9 DEF Covered
  <2>4. QED
    BY <2>2, <2>3
<1>11. BlanksOnly' /\ Current' /\ Below' /\ Stored'
  BY <1>2, <1>3, <1>4 DEF ScanInv, BlanksOnly, Current, Below, Stored, Working, Writing
<1>12. QED
  BY <1>6, <1>10, <1>11 DEF ScanParts

LEMMA AbortKeeps ==
  ASSUME ScanInv, [Next]_vars, NEW c \in Callers,
         SpecFails(c) \/ FlushFails(c) \/ HeightFails(c)
  PROVE  ScanParts'
<1>1. UNCHANGED <<next, height, blankBlocks, late>> /\ Abort(c)
  BY DEF SpecFails, FlushFails, HeightFails, database, shared, history
<1>2. task'[c].pc \in {"dead", "idle"} /\ \A d \in Callers \ {c} : task'[d] = task[d]
  BY <1>1 DEF Abort, ScanInv, TypeOK, Resting, At
<1>3. UpsertProgress' /\ OnlyScanStoresHeight'
  BY <1>2, CallerStep
<1>4. CASE c = Scan
  <2>1. task'[Scan].pc = "dead"
    BY <1>1, <1>4 DEF Abort, ScanInv, TypeOK, Resting, At
  <2>2. QED
    BY <1>1, <1>3, <2>1, ScanDies DEF ScanParts
<1>5. CASE c # Scan
  BY <1>1, <1>2, <1>3, <1>5, ScanFrame DEF ScanParts, Callers
<1>6. QED
  BY <1>4, <1>5

LEMMA RestartKeeps ==
  ASSUME ScanInv, [Next]_vars, Restart PROVE ScanParts'
<1>1. \A c \in Callers : task'[c].pc = "idle"
  BY DEF Restart, Resting, At
<1>2. task'[Scan].pc = "idle"
  BY <1>1 DEF Callers
<1>3. UpsertProgress' /\ OnlyScanStoresHeight'
  BY <1>1, CallersRest
<1>4. kind' = kind
  BY Growing DEF ScanInv
<1>5. \A x : Passed(x) => Passed(x)'
  BY PassedStays DEF ScanInv
<1>6. ToSet(blankBlocks') = {} /\ late' = late
  BY ToSetEmpty DEF Restart, history
<1>7. Base \in Nat /\ height \in Nat
  BY ScanAssumption DEF Base, ScanInv, TypeOK
<1>8. Covered'
  <2>1. height' \in {height, Base}
    BY DEF Restart, Base
  <2>2. \A x \in (Base + 1)..height' : Passed(x)
    BY <1>7, <2>1 DEF ScanInv, Covered
  <2>3. QED
    BY <1>5, <2>2 DEF Covered
<1>9. Behind'
  <2>1. height' \in Nat
    BY <1>7, ScanAssumption DEF Restart
  <2>2. next' = height' \/ next' = height' + 1
    BY DEF Restart, StartPositions
  <2>3. \A x \in (Base + 1)..(next' - 1) : x \in (Base + 1)..height'
    BY <1>7, <2>1, <2>2
  <2>4. QED
    BY <1>8, <2>3 DEF Behind, Covered
<1>10. BlanksOnly' /\ Current' /\ Below' /\ Stored'
  BY <1>2, <1>4, <1>6
  DEF ScanInv, BlanksOnly, Current, Below, Stored, Working, Writing
<1>11. QED
  BY <1>3, <1>8, <1>9, <1>10 DEF ScanParts

LEMMA StartFailsKeeps ==
  ASSUME ScanInv, [Next]_vars, StartFails PROVE ScanParts'
<1>1. \A c \in Callers : task'[c].pc \in {"idle", "dead"}
  BY DEF StartFails, Resting, At
<1>2. task'[Scan].pc = "dead"
  BY DEF StartFails, Resting, At, Callers
<1>3. UNCHANGED <<height, late>> /\ ToSet(blankBlocks') = {}
  BY ToSetEmpty DEF StartFails, database, history
<1>4. QED
  BY <1>1, <1>2, <1>3, CallersRest, ScanDies DEF ScanParts

\* Steps that move neither a caller nor the buffer.
LEMMA QuietKeeps ==
  ASSUME ScanInv, [Next]_vars,
         UNCHANGED <<task, next, height, blankBlocks, late>>
  PROVE  ScanParts'
<1>1. Scan \in Callers /\ Scan \notin Rescans
  BY ScanAssumption DEF Callers
<1>2. \A t \in Tables : rows[t] \subseteq rows'[t]
  BY Growing DEF ScanInv
<1>3. UpsertProgress' /\ OnlyScanStoresHeight'
  BY <1>2 DEF ScanInv, UpsertProgress, OnlyScanStoresHeight, Tables
<1>4. QED
  BY <1>3, ScanFrame DEF ScanParts

LEMMA EndOfRangeKeeps ==
  ASSUME ScanInv, [Next]_vars, EndOfRange PROVE ScanParts'
<1>1. UNCHANGED <<next, height, rows, failed, blankBlocks, late, kind>>
  BY DEF EndOfRange, database, shared, history, chain
<1>2. task'[Scan].pc = "done" /\ \A d \in Callers \ {Scan} : task'[d] = task[d]
  BY DEF EndOfRange, ScanInv, TypeOK, Callers, Resting, At
<1>3. Scan \in Callers /\ Scan \notin Rescans
  BY ScanAssumption DEF Callers
<1>4. UpsertProgress' /\ OnlyScanStoresHeight'
  BY <1>2, <1>3, CallerStep
<1>5. \A b : (Settled(b) <=> Settled(b)') /\ (Passed(b) <=> Passed(b)')
  BY <1>1 DEF Settled, Passed, Written
<1>6. Behind'
  BY <1>1, <1>5 DEF ScanInv, Behind, EndOfRange, Working, Writing
<1>7. QED
  BY <1>1, <1>2, <1>4, <1>5, <1>6
  DEF ScanParts, ScanInv, BlanksOnly, Current, Below, Stored, Covered, Working, Writing

(***************************************************************************)
(* What is being flushed.                                                  *)
(***************************************************************************)
\* A step that starts no flush, and pushes nothing but late blocks while there
\* is one.
LEMMA FlushFrame ==
  ASSUME TypeOK, [Next]_vars, FlushProgress,
         \A c \in Callers : task'[c].pc = "flush" => task'[c] = task[c],
         Flushing => ToSet(blankBlocks') \subseteq ToSet(blankBlocks) \cup late'
  PROVE  FlushProgress'
<1> SUFFICES ASSUME NEW c \in Callers, task'[c].pc = "flush"
             PROVE  /\ ToSet(blankBlocks') \subseteq ToSet(task'[c].batch) \cup late'
                    /\ \A t \in Tables \ task'[c].todo : ToSet(task'[c].batch) \subseteq rows'[t]
  BY DEF FlushProgress
<1>1. task'[c] = task[c] /\ task[c].pc = "flush"
  OBVIOUS
<1>2. Flushing
  BY <1>1 DEF Flushing
<1>3. late \subseteq late' /\ \A t \in Tables : rows[t] \subseteq rows'[t]
  BY Growing
<1>4. QED
  BY <1>1, <1>2, <1>3 DEF FlushProgress

LEMMA HandledFlush ==
  ASSUME TypeOK, [Next]_vars, FlushProgress, NEW c \in Callers, NEW b \in Blocks,
         Handled(c, b)
  PROVE  FlushProgress'
<1>1. \A d \in Callers \ {c} : task'[d] = task[d]
  BY DEF Handled
<1>2. CASE task'[c].pc = "flush"
  <2>1. UNCHANGED <<blankBlocks, late>>
    BY <1>2 DEF Handled
  <2>2. task'[c].batch = blankBlocks /\ task'[c].todo = Tables
    BY <1>2 DEF Handled
  <2>3. \A t \in Tables : rows[t] \subseteq rows'[t]
    BY Growing
  <2>4. ASSUME NEW d \in Callers \ {c}, task[d].pc = "flush"
        PROVE  /\ ToSet(blankBlocks') \subseteq ToSet(task'[d].batch) \cup late'
               /\ \A t \in Tables \ task'[d].todo : ToSet(task'[d].batch) \subseteq rows'[t]
    BY <1>1, <2>1, <2>3, <2>4 DEF FlushProgress
  <2>5. QED
    BY <1>1, <2>1, <2>2, <2>4 DEF FlushProgress
<1>3. CASE task'[c].pc # "flush"
  <2>1. Flushing => ToSet(blankBlocks') \subseteq ToSet(blankBlocks) \cup late'
    BY <1>3 DEF Handled
  <2>2. QED
    BY <1>1, <1>3, <2>1, FlushFrame
<1>4. QED
  BY <1>2, <1>3

LEMMA NextFlush ==
  ASSUME TypeOK, [Next]_vars, FlushProgress PROVE FlushProgress'
<1> USE DEF shared, history
<1>0. task \in [Callers -> Task] /\ rows \in [Tables -> SUBSET Blocks] /\ Scan \in Callers
  BY DEF TypeOK, Callers
<1>1. CASE GrowChain \/ TimerAsks \/ TimerAnswered \/ TimerFails \/ UNCHANGED vars
  <2>1. UNCHANGED <<task, blankBlocks>>
    BY <1>1 DEF GrowChain, TimerAsks, TimerAnswered, TimerFails, vars
  <2>2. QED
    BY <2>1, FlushFrame
<1>2. CASE EndOfRange
  <2>1. /\ blankBlocks' = blankBlocks /\ task'[Scan].pc = "done"
        /\ \A c \in Callers \ {Scan} : task'[c] = task[c]
    BY <1>0, <1>2 DEF EndOfRange, Resting, At
  <2>2. QED
    BY <2>1, FlushFrame
<1>3. CASE Deliver
  <2>1. next \in Blocks
    BY <1>3, ScanAssumption DEF Deliver, TypeOK, Blocks
  <2>2. Handled(Scan, next)
    BY <1>0, <1>3, <2>1, HandleBlockHandled DEF Deliver
  <2>3. QED
    BY <1>0, <2>1, <2>2, HandledFlush
<1>4. ASSUME NEW r \in Rescans, RescanBlock(r) PROVE FlushProgress'
  <2>1. PICK b \in 1..head : HandleBlock(r, b)
    BY <1>4 DEF RescanBlock
  <2>2. b \in Blocks /\ r \in Callers
    BY ScanAssumption DEF TypeOK, Blocks, Callers
  <2>3. QED
    BY <2>1, <2>2, HandleBlockHandled, HandledFlush
<1>5. ASSUME NEW c \in Callers, SpecArrives(c) PROVE FlushProgress'
  <2>1. task[c].block \in Blocks
    BY <1>0, <1>5 DEF SpecArrives, Task, Working
  <2>2. Handled(c, task[c].block)
    BY <1>5, <2>1, DispatchHandled DEF SpecArrives
  <2>3. QED
    BY <2>1, <2>2, HandledFlush
<1>6. ASSUME NEW c \in Callers, FlushCommits(c) PROVE FlushProgress'
  <2>1. PICK t \in task[c].todo : Store(c, t, ToSet(task[c].batch))
    BY <1>6 DEF FlushCommits
  <2>2. t \in Tables /\ task[c].pc = "flush" /\ UNCHANGED <<blankBlocks, late>>
    BY <1>0, <1>6 DEF FlushCommits, Task
  <2>3. /\ task'[c].batch = task[c].batch
        /\ task'[c].todo = task[c].todo \ {t}
        /\ rows' = [rows EXCEPT ![t] = @ \cup ToSet(task[c].batch)]
        /\ \A d \in Callers \ {c} : task'[d] = task[d]
    BY <1>0, <2>1 DEF Store, Task
  <2>4. \A u \in Tables : rows[u] \subseteq rows'[u]
    BY Growing
  <2>5. \A u \in Tables \ task'[c].todo : ToSet(task[c].batch) \subseteq rows'[u]
    <3>1. ToSet(task[c].batch) \subseteq rows'[t]
      BY <1>0, <2>2, <2>3
    <3>2. \A u \in Tables \ task[c].todo : ToSet(task[c].batch) \subseteq rows'[u]
      BY <2>2, <2>4 DEF FlushProgress
    <3>3. QED
      BY <2>3, <3>1, <3>2
  <2>6. ASSUME NEW d \in Callers \ {c}, task[d].pc = "flush"
        PROVE  /\ ToSet(blankBlocks') \subseteq ToSet(task'[d].batch) \cup late'
               /\ \A u \in Tables \ task'[d].todo : ToSet(task'[d].batch) \subseteq rows'[u]
    BY <2>2, <2>3, <2>4, <2>6 DEF FlushProgress
  <2>7. ToSet(blankBlocks') \subseteq ToSet(task'[c].batch) \cup late'
    BY <2>2, <2>3 DEF FlushProgress
  <2>8. QED
    BY <2>3, <2>5, <2>6, <2>7 DEF FlushProgress
<1>7. ASSUME NEW c \in Callers, FlushDone(c) PROVE FlushProgress'
  <2>1. /\ blankBlocks' = <<>> /\ task'[c].pc = "events"
        /\ \A d \in Callers \ {c} : task'[d] = task[d]
    BY <1>0, <1>7 DEF FlushDone, UpsertOf, At
  <2>2. QED
    BY <2>1, FlushFrame, ToSetEmpty
<1>8. ASSUME NEW c \in Callers,
             \/ EventsCommit(c) \/ BatchesDone(c) \/ RowCommits(c) \/ UpsertDone(c)
             \/ HeightCommits(c) \/ Fail(c)
      PROVE  FlushProgress'
  <2>1. blankBlocks' = blankBlocks /\ \A d \in Callers \ {c} : task'[d] = task[d]
    BY <1>0, <1>8 DEF EventsCommit, BatchesDone, RowCommits, UpsertDone, HeightCommits,
       Fail, SpecFails, FlushFails, UpsertFails, HeightFails, Store, AfterUpsert, Abort
  <2>2. task'[c].pc # "flush"
    <3>1. CASE EventsCommit(c) \/ BatchesDone(c) \/ RowCommits(c)
      BY <1>0, <3>1 DEF EventsCommit, BatchesDone, RowCommits, Store, Task
    <3>2. CASE UpsertDone(c) \/ HeightCommits(c) \/ Fail(c)
      BY <1>0, <3>2
      DEF UpsertDone, HeightCommits, Fail, SpecFails, FlushFails, UpsertFails,
          HeightFails, AfterUpsert, Abort, Resting, At
    <3>3. QED
      BY <1>8, <3>1, <3>2
  <2>3. QED
    BY <2>1, <2>2, FlushFrame
<1>9. CASE Restart \/ StartFails
  <2>1. \A c \in Callers : task'[c].pc \in {"idle", "dead"}
    BY <1>9 DEF Restart, StartFails, Resting, At
  <2>2. QED
    BY <2>1 DEF FlushProgress
<1>10. QED
  BY <1>1, <1>2, <1>3, <1>4, <1>5, <1>6, <1>7, <1>8, <1>9 DEF Next, Continue

LEMMA NextScanInv == ScanInv /\ [Next]_vars => ScanInv'
<1> SUFFICES ASSUME ScanInv, [Next]_vars PROVE ScanParts'
  BY NextTypeOK, NextFlush DEF ScanInv, ScanParts
<1> USE DEF database, shared, history
<1>1. CASE GrowChain
  BY <1>1, QuietKeeps DEF GrowChain
<1>2. CASE Deliver
  BY <1>2, DeliverKeeps
<1>3. CASE EndOfRange
  BY <1>3, EndOfRangeKeeps
<1>4. ASSUME NEW r \in Rescans, RescanBlock(r) PROVE ScanParts'
  <2>1. PICK b \in 1..head : HandleBlock(r, b)
    BY <1>4 DEF RescanBlock
  <2>2. b \in Blocks /\ r \in Callers
    BY ScanAssumption DEF ScanInv, TypeOK, Blocks, Callers
  <2>3. Handled(r, b)
    BY <2>1, <2>2, HandleBlockHandled DEF ScanInv
  <2>4. UNCHANGED <<next, height>>
    BY <1>4, <2>1 DEF RescanBlock, HandleBlock
  <2>5. QED
    BY <2>2, <2>3, <2>4, RescanHandles DEF ScanParts
<1>5. ASSUME NEW c \in Callers, Continue(c) PROVE ScanParts'
  BY <1>5, SpecArrivesKeeps, WritingKeeps, FlushDoneKeeps, UpsertDoneKeeps,
     HeightCommitsKeeps DEF Continue
<1>6. ASSUME NEW c \in Callers, Fail(c) PROVE ScanParts'
  BY <1>6, AbortKeeps, UpsertFailsKeeps DEF Fail
<1>7. CASE TimerAsks \/ TimerAnswered \/ TimerFails
  BY <1>7, QuietKeeps DEF TimerAsks, TimerAnswered, TimerFails
<1>8. CASE Restart
  BY <1>8, RestartKeeps
<1>9. CASE StartFails
  BY <1>9, StartFailsKeeps
<1>10. CASE UNCHANGED vars
  BY <1>10, QuietKeeps DEF vars
<1>11. QED
  BY <1>1, <1>2, <1>3, <1>4, <1>5, <1>6, <1>7, <1>8, <1>9, <1>10 DEF Next

\* Whatever rescans, failures and restarts there are, every block up to the
\* stored height is written, or was given up and logged, or is a blank that was
\* pushed while a flush was awaited (handleBlock, blankBlocks = []).
THEOREM HeightIsCovered == Spec => []HeightCovered
<1>1. ScanInv => HeightCovered
  BY DEF ScanInv, Covered, BlanksOnly, HeightCovered, Passed
<1>2. QED
  BY <1>1, InitScanInv, NextScanInv, PTL DEF Spec

(***************************************************************************)
(* What a forced rescan reports.                                           *)
(***************************************************************************)
\* A step that keeps the buffered blocks, or passes them, and reports blocks
\* that are buffered or passed.
LEMMA AccountedFrame ==
  ASSUME TypeOK, [Next]_vars, RescanAccounted,
         \A b \in ToSet(blankBlocks) : Passed(b)' \/ b \in ToSet(blankBlocks'),
         \A b \in reported' \ reported : Passed(b)' \/ b \in ToSet(blankBlocks')
  PROVE  RescanAccounted'
<1> SUFFICES ASSUME NEW b \in reported'
             PROVE  Passed(b)' \/ b \in ToSet(blankBlocks')
  BY DEF RescanAccounted, Passed
<1>1. CASE b \in reported
  <2>1. Passed(b) \/ b \in ToSet(blankBlocks)
    BY <1>1 DEF RescanAccounted, Passed
  <2>2. Passed(b) => Passed(b)'
    BY PassedStays
  <2>3. QED
    BY <2>1, <2>2
<1>2. CASE b \notin reported
  BY <1>2
<1>3. QED
  BY <1>1, <1>2

LEMMA DispatchAccounted ==
  ASSUME TypeOK, [Next]_vars, RescanAccounted,
         NEW c \in Callers, NEW b \in Blocks, NEW s, Dispatch(c, b, s)
  PROVE  RescanAccounted'
<1>1. CASE Buffer(c, b)
  <2>1. ToSet(blankBlocks') = ToSet(blankBlocks) \cup {b}
    BY <1>1, ToSetAppend DEF Buffer, TypeOK
  <2>2. reported' \subseteq reported \cup {b}
    BY <1>1 DEF Buffer
  <2>3. QED
    BY <2>1, <2>2, AccountedFrame
<1>2. CASE BeginWriting(c, b, s)
  BY <1>2, AccountedFrame DEF BeginWriting
<1>3. QED
  BY <1>1, <1>2 DEF Dispatch

LEMMA HandleBlockAccounted ==
  ASSUME TypeOK, [Next]_vars, RescanAccounted,
         NEW c \in Callers, NEW b \in Blocks, HandleBlock(c, b)
  PROVE  RescanAccounted'
<1>1. CASE spec = NoSpec
  BY <1>1, AccountedFrame DEF HandleBlock, AwaitSpec, shared
<1>2. CASE spec # NoSpec
  BY <1>2, DispatchAccounted DEF HandleBlock
<1>3. QED
  BY <1>1, <1>2

LEMMA NextAccounted ==
  ASSUME ScanInv, RescanAccounted, [Next]_vars
  PROVE  RescanAccounted'
<1> USE DEF shared, history
<1>0. TypeOK
  BY DEF ScanInv
<1>1. CASE GrowChain \/ EndOfRange \/ TimerAsks \/ TimerAnswered \/ TimerFails \/ UNCHANGED vars
  <2>1. UNCHANGED <<blankBlocks, reported>>
    BY <1>1 DEF GrowChain, EndOfRange, TimerAsks, TimerAnswered, TimerFails, vars
  <2>2. QED
    BY <1>0, <2>1, AccountedFrame
<1>2. CASE Deliver
  <2>1. next \in Blocks /\ Scan \in Callers
    BY <1>0, <1>2, ScanAssumption DEF Deliver, TypeOK, Blocks, Callers
  <2>2. QED
    BY <1>0, <1>2, <2>1, HandleBlockAccounted DEF Deliver
<1>3. ASSUME NEW r \in Rescans, RescanBlock(r) PROVE RescanAccounted'
  <2>1. PICK b \in 1..head : HandleBlock(r, b)
    BY <1>3 DEF RescanBlock
  <2>2. b \in Blocks /\ r \in Callers
    BY <1>0, ScanAssumption DEF TypeOK, Blocks, Callers
  <2>3. QED
    BY <1>0, <2>1, <2>2, HandleBlockAccounted
<1>4. ASSUME NEW c \in Callers, SpecArrives(c) PROVE RescanAccounted'
  <2>1. task[c].block \in Blocks
    BY <1>0, <1>4 DEF SpecArrives, TypeOK, Task, Working
  <2>2. QED
    BY <1>0, <1>4, <2>1, DispatchAccounted DEF SpecArrives
<1>5. ASSUME NEW c \in Callers, FlushDone(c) PROVE RescanAccounted'
  <2>1. \A b \in ToSet(blankBlocks) : Passed(b)'
    BY <1>5 DEF FlushDone, ScanInv, FlushProgress, Passed, Settled, Written, database
  <2>2. reported' = reported
    BY <1>5 DEF FlushDone
  <2>3. QED
    BY <1>0, <2>1, <2>2, AccountedFrame
<1>6. ASSUME NEW c \in Callers,
             \/ FlushCommits(c) \/ EventsCommit(c) \/ BatchesDone(c) \/ RowCommits(c)
             \/ HeightCommits(c) \/ SpecFails(c) \/ FlushFails(c) \/ HeightFails(c)
      PROVE  RescanAccounted'
  <2>1. UNCHANGED <<blankBlocks, reported>>
    BY <1>6 DEF FlushCommits, EventsCommit, BatchesDone, RowCommits,
                HeightCommits, SpecFails, FlushFails, HeightFails
  <2>2. QED
    BY <1>0, <2>1, AccountedFrame
<1>7. ASSUME NEW c \in Callers, UpsertDone(c) \/ UpsertFails(c) PROVE RescanAccounted'
  <2>1. blankBlocks' = blankBlocks /\ reported' \subseteq reported \cup {task[c].block}
    BY <1>7 DEF UpsertDone, UpsertFails, AfterUpsert
  <2>2. PICK b : b = task[c].block
    OBVIOUS
  <2>3. CASE UpsertDone(c)
    <3>1. Written(b) /\ rows' = rows
      BY <2>2, <2>3 DEF UpsertDone, ScanInv, UpsertProgress, Written, Tables, database
    <3>2. Passed(b)'
      BY <3>1 DEF Passed, Settled, Written
    <3>3. QED
      BY <1>0, <2>1, <2>2, <3>2, AccountedFrame
  <2>4. CASE UpsertFails(c)
    <3>1. Passed(b)'
      BY <2>2, <2>4 DEF UpsertFails, Passed, Settled
    <3>2. QED
      BY <1>0, <2>1, <2>2, <3>1, AccountedFrame
  <2>5. QED
    BY <1>7, <2>3, <2>4
<1>8. CASE Restart \/ StartFails
  BY <1>8 DEF Restart, StartFails, RescanAccounted
<1>9. QED
  BY <1>1, <1>2, <1>3, <1>4, <1>5, <1>6, <1>7, <1>8 DEF Next, Continue, Fail

\* A forced rescan that is reported finished has written its block or logged
\* that it failed, or the block waits in the buffer, unless it was pushed there
\* while a flush was awaited: however rescans and the scan interleave, the reset
\* of the buffer takes away no other block.
THEOREM RescanIsAccounted == Spec => []RescanAccounted
<1>1. Init => RescanAccounted
  BY DEF Init, RescanAccounted
<1>2. QED
  BY <1>1, InitScanInv, NextScanInv, NextAccounted, PTL DEF Spec

(***************************************************************************)
(* Without rescans.                                                        *)
(***************************************************************************)
LEMMA SoloDispatch ==
  ASSUME SoloInv, Rescans = {}, NEW b, NEW s,
         task[Scan].pc # "flush", Dispatch(Scan, b, s)
  PROVE  SoloInv'
<1>1. ~Flushing
  BY DEF Flushing, Callers
<1>2. QED
  BY <1>1 DEF Dispatch, Buffer, BeginWriting, SoloInv

LEMMA NextSoloInv ==
  ASSUME Rescans = {}, SoloInv, [Next]_vars
  PROVE  SoloInv'
<1> USE DEF history
<1>1. CASE GrowChain \/ EndOfRange \/ TimerAsks \/ TimerAnswered \/ TimerFails
           \/ Restart \/ StartFails \/ UNCHANGED vars
  BY <1>1 DEF GrowChain, EndOfRange, TimerAsks, TimerAnswered, TimerFails, Restart,
              StartFails, vars, SoloInv
<1>2. CASE Deliver
  <2>1. task[Scan].pc = "idle" /\ HandleBlock(Scan, next)
    BY <1>2 DEF Deliver
  <2>2. CASE AwaitSpec(Scan, next)
    BY <2>2 DEF AwaitSpec, SoloInv
  <2>3. CASE Dispatch(Scan, next, spec)
    BY <2>1, <2>3, SoloDispatch
  <2>4. QED
    BY <2>1, <2>2, <2>3 DEF HandleBlock
<1>3. CASE SpecArrives(Scan)
  BY <1>3, SoloDispatch DEF SpecArrives
<1>4. CASE \/ FlushCommits(Scan) \/ FlushDone(Scan) \/ EventsCommit(Scan) \/ BatchesDone(Scan)
           \/ RowCommits(Scan) \/ UpsertDone(Scan) \/ HeightCommits(Scan) \/ Fail(Scan)
  BY <1>4 DEF FlushCommits, FlushDone, EventsCommit, BatchesDone, RowCommits, UpsertDone,
     HeightCommits, Fail, SpecFails, FlushFails, UpsertFails, HeightFails, SoloInv
<1>5. QED
  BY <1>1, <1>2, <1>3, <1>4 DEF Next, Continue, Callers

\* Without rescans every block up to the stored height is in all three tables,
\* or its writing failed and was logged: the buffer of blank blocks loses
\* nothing, at whatever limit it is flushed.
THEOREM HeightIsSound == ASSUME Rescans = {} PROVE Spec => []HeightSound
<1>1. Init => SoloInv
  BY DEF Init, SoloInv
<1>2. SoloInv /\ [Next]_vars => SoloInv'
  BY NextSoloInv
<1>3. ScanInv /\ SoloInv => HeightSound
  BY DEF ScanInv, SoloInv, Covered, Passed, HeightSound
<1>4. QED
  BY <1>1, <1>2, <1>3, InitScanInv, NextScanInv, PTL DEF Spec

(***************************************************************************)
(* The buffer, with any number of rescans.                                 *)
(***************************************************************************)
\* No scan and no rescan pushes to a buffer that has reached the limit, however
\* they interleave: there is no await between the test and the push.
THEOREM BufferIsBounded == Spec => []BufferBound
<1>. DEFINE Inv == blankBlocks \in Seq(Blocks) /\ BufferBound
<1>1. Init => Inv
  BY ScanAssumption DEF Init, BufferBound
<1>2. TypeOK /\ Inv /\ [Next]_vars => Inv'
  <2>. SUFFICES ASSUME TypeOK, Inv, [Next]_vars PROVE Inv'
    OBVIOUS
  <2>. USE DEF chain, database, shared, clock, history, counters
  <2>1. ASSUME NEW c, NEW b \in Blocks, Buffer(c, b)
        PROVE  Inv'
    BY <2>1, ScanAssumption DEF Buffer, MustWrite, BufferBound
  <2>2. ASSUME blankBlocks' \in {blankBlocks, <<>>}
        PROVE  Inv'
    <3>1. <<>> \in Seq(Blocks) /\ Len(<<>>) = 0
      OBVIOUS
    <3>2. 0 <= BufferLimit
      BY ScanAssumption
    <3>. QED BY <2>2, <3>1, <3>2 DEF BufferBound
  <2>. HIDE DEF Inv
  <2>3. ASSUME NEW c, NEW b \in Blocks, NEW s, Dispatch(c, b, s)
        PROVE  Inv'
    BY <2>1, <2>2, <2>3 DEF Dispatch, BeginWriting
  <2>4. ASSUME NEW c, NEW b \in Blocks, HandleBlock(c, b)
        PROVE  Inv'
    BY <2>2, <2>3, <2>4 DEF HandleBlock, AwaitSpec
  <2>5. CASE Deliver
    <3>1. next \in Blocks
      BY <2>5, ScanAssumption DEF Deliver, TypeOK, Blocks
    <3>. QED BY <2>4, <2>5, <3>1 DEF Deliver
  <2>6. CASE \E r \in Rescans : RescanBlock(r)
    <3>1. PICK r \in Rescans, b \in 1..head : HandleBlock(r, b)
      BY <2>6 DEF RescanBlock
    <3>2. b \in Blocks
      BY <3>1, ScanAssumption DEF TypeOK, Blocks
    <3>. QED BY <2>4, <3>1, <3>2
  <2>7. CASE \E c \in Callers : Continue(c) \/ Fail(c)
    <3>1. PICK c \in Callers : Continue(c) \/ Fail(c)
      BY <2>7
    <3>2. CASE SpecArrives(c)
      <4>1. task[c].block \in Blocks
        BY <3>2 DEF SpecArrives, TypeOK, Task, Working
      <4>. QED BY <2>3, <3>2, <4>1 DEF SpecArrives
    <3>3. CASE ~SpecArrives(c)
      BY <2>2, <3>1, <3>3 DEF Continue, Fail, FlushCommits, FlushDone, EventsCommit, BatchesDone,
         RowCommits, UpsertDone, HeightCommits, SpecFails, FlushFails, UpsertFails, HeightFails
    <3>. QED BY <3>2, <3>3
  <2>8. CASE \/ GrowChain \/ EndOfRange \/ TimerAsks \/ TimerAnswered \/ TimerFails
             \/ Restart \/ StartFails \/ UNCHANGED vars
    BY <2>2, <2>8 DEF GrowChain, EndOfRange, TimerAsks, TimerAnswered, TimerFails, Restart,
       StartFails, vars
  <2>. QED BY <2>5, <2>6, <2>7, <2>8 DEF Next
<1>3. Inv => BufferBound
  OBVIOUS
<1>. QED BY <1>1, <1>2, <1>3, ScanTypeCorrect, PTL DEF Spec

(***************************************************************************)
(* The cached spec, without rescans.                                       *)
(***************************************************************************)
\* s is a version for block b, or one of the blocks f is an upgrade before b.
Fits(f, b, s) == OneBehind(b, s) \/ \E u \in f : u < b /\ kind[u] = "upgrade"

NoUpgrade(b, d) == b <= d /\ \A u \in Blocks : b <= u /\ u < d => kind[u] # "upgrade"

\* The cached spec s fits the block in hand, or the next one; since the oldest
\* block of the buffer there was no upgrade, for an upgrade empties it.
Fitting(f, t, s, buffer, following) ==
  /\ t.pc = "idle" =>
       /\ s # NoSpec => Fits(f, following, s)
       /\ \A b \in ToSet(buffer) : NoUpgrade(b, following)
  /\ t.pc = "spec" => \A b \in ToSet(buffer) : NoUpgrade(b, t.block)
  /\ t.pc = "flush" =>
       /\ Fits(f, t.block, t.spec) /\ Fits(f, t.block, s)
       /\ \A b \in ToSet(t.batch) : NoUpgrade(b, t.block)
  /\ t.pc \in Writing => buffer = <<>>
  /\ t.pc \in {"events", "batches", "rows"} => Fits(f, t.block, t.spec)
  /\ t.pc \in {"events", "batches"} => Fits(f, t.block, s)
  /\ t.pc \in {"rows", "height"} => (s # NoSpec => Fits(f, t.block + 1, s))

RowsFit(f, table, version) == \A b \in table : Fits(f, b, version[b])

SpecInv ==
  /\ RowsFit(failed, rows["block"], blockSpec)
  /\ Fitting(failed, task[Scan], spec, blankBlocks, next)

LEMMA FitsEarlier ==
  ASSUME TypeOK, NEW b \in Nat, NEW d \in Nat, NEW s, NoUpgrade(b, d), Fits(failed, d, s)
  PROVE  Fits(failed, b, s)
<1>1. \A u \in Blocks : u \in Nat
  BY ScanAssumption DEF Blocks
<1>2. Runs(b) = Runs(d)
  BY <1>1 DEF NoUpgrade, Runs
<1>3. failed \subseteq Blocks
  BY DEF TypeOK
<1>. QED BY <1>1, <1>2, <1>3 DEF Fits, NoUpgrade, OneBehind

LEMMA FitsLater ==
  ASSUME TypeOK, NEW b \in Nat, NEW s, NEW f \in SUBSET Blocks, kind[b] # "upgrade", Fits(f, b, s)
  PROVE  Fits(f, b + 1, s)
<1>1. \A u \in Blocks : u \in Nat
  BY ScanAssumption DEF Blocks
<1>2. Runs(b + 1) = Runs(b)
  BY <1>1 DEF Runs
<1>. QED BY <1>1, <1>2 DEF Fits, OneBehind

\* The answer at the hash of the parent misses at most the upgrade in the parent.
LEMMA AnswerFits ==
  ASSUME NEW b \in Blocks, NEW f PROVE Fits(f, b, SpecAt(b))
<1>1. \A u \in Blocks : u \in Nat /\ u >= 1
  BY ScanAssumption DEF Blocks
<1>2. SpecAt(b) \subseteq Runs(b)
  BY <1>1 DEF SpecAt, Runs
<1>3. ASSUME NEW u \in Runs(b) \ SpecAt(b), NEW v \in Runs(b) PROVE v <= u
  BY <1>1 DEF SpecAt, Runs
<1>4. QED
  BY <1>2, <1>3 DEF Fits, OneBehind

LEMMA NoUpgradeLater ==
  ASSUME TypeOK, NEW b \in Nat, NEW d \in Nat, kind[d] # "upgrade", NoUpgrade(b, d)
  PROVE  NoUpgrade(b, d + 1) /\ NoUpgrade(d, d + 1)
<1>1. \A u \in Blocks : u \in Nat
  BY ScanAssumption DEF Blocks
<1>. QED BY <1>1 DEF NoUpgrade

LEMMA SpecFrame ==
  ASSUME kind' = kind,
         RowsFit(failed', rows'["block"], blockSpec'),
         Fitting(failed', task'[Scan], spec', blankBlocks', next')
  PROVE  SpecInv'
BY DEF SpecInv, RowsFit, Fitting, Fits, NoUpgrade, OneBehind, Runs

\* Block d is the one in hand, s its version.
LEMMA DispatchFits ==
  ASSUME TypeOK, TypeOK', NEW d \in Blocks, NEW s, Fits(failed, d, s),
         \A b \in ToSet(blankBlocks) : NoUpgrade(b, d),
         Dispatch(Scan, d, s), next' = d + 1, UNCHANGED failed
  PROVE  Fitting(failed', task'[Scan], spec', blankBlocks', next')
<1>1. /\ spec' = s
      /\ d \in Nat
      /\ ToSet(blankBlocks) \subseteq Blocks
      /\ \A u \in Blocks : u \in Nat
      /\ task \in [Callers -> Task] /\ Scan \in Callers
      /\ failed \subseteq Blocks
  <2>1. spec' = s
    BY DEF Dispatch
  <2>2. ToSet(blankBlocks) \subseteq Blocks
    BY ToSetType DEF TypeOK
  <2>3. \A u \in Blocks : u \in Nat
    BY ScanAssumption DEF Blocks
  <2>4. task \in [Callers -> Task] /\ Scan \in Callers /\ failed \subseteq Blocks
    BY DEF TypeOK, Callers
  <2>5. QED
    BY <2>1, <2>2, <2>3, <2>4
<1>2. CASE Buffer(Scan, d)
  <2>1. task'[Scan] = Resting("idle") /\ blankBlocks' = Append(blankBlocks, d)
    BY <1>1, <1>2 DEF Buffer
  <2>2. kind[d] # "upgrade"
    BY <1>2 DEF Buffer, MustWrite
  <2>3. ToSet(blankBlocks') = ToSet(blankBlocks) \cup {d}
    <3>1. blankBlocks \in Seq(Blocks)
      BY DEF TypeOK
    <3>. QED BY <2>1, <3>1, ToSetAppend
  <2>4. Fits(failed, d + 1, s)
    BY <1>1, <2>2, FitsLater
  <2>5. NoUpgrade(d, d)
    BY <1>1 DEF NoUpgrade
  <2>6. \A b \in ToSet(blankBlocks') : NoUpgrade(b, d + 1)
    BY <1>1, <2>2, <2>3, <2>5, NoUpgradeLater
  <2>7. task'[Scan].pc = "idle"
    BY <2>1 DEF Resting, At
  <2>. QED BY <1>1, <2>4, <2>6, <2>7 DEF Fitting, Writing
<1>3. CASE BeginWriting(Scan, d, s) /\ blankBlocks = <<>>
  <2>1. task'[Scan] = UpsertOf(d, s) /\ blankBlocks' = <<>>
    BY <1>1, <1>3 DEF BeginWriting
  <2>2. task'[Scan].pc = "events" /\ task'[Scan].block = d /\ task'[Scan].spec = s
    BY <2>1 DEF UpsertOf, At
  <2>. QED BY <1>1, <2>1, <2>2 DEF Fitting
<1>4. CASE BeginWriting(Scan, d, s) /\ blankBlocks # <<>>
  <2>1. task'[Scan] = FlushBefore(d, s)
    BY <1>1, <1>4 DEF BeginWriting
  <2>2. /\ task'[Scan].pc = "flush" /\ task'[Scan].block = d /\ task'[Scan].spec = s
        /\ task'[Scan].batch = blankBlocks
    BY <2>1 DEF FlushBefore, At
  <2>. QED BY <1>1, <2>2 DEF Fitting, Writing
<1>. QED BY <1>2, <1>3, <1>4 DEF Dispatch

\* A statement that stores blocks of whose version the row tells.
LEMMA StoreFits ==
  ASSUME TypeOK, SpecInv, NEW t, NEW S \in SUBSET Blocks, Store(Scan, t, S), t \in Tables,
         t = "block" => \A b \in S : Fits(failed, b, task[Scan].spec)
  PROVE  RowsFit(failed, rows'["block"], blockSpec')
<1>1. CASE t = "block"
  <2>1. /\ rows'["block"] = rows["block"] \cup S
        /\ \A b \in Blocks : blockSpec'[b] = IF b \in S THEN task[Scan].spec ELSE blockSpec[b]
    BY <1>1 DEF Store, TypeOK, Tables
  <2>2. rows["block"] \subseteq Blocks
    BY DEF TypeOK, Tables
  <2>. QED BY <1>1, <2>1, <2>2 DEF SpecInv, RowsFit
<1>2. CASE t # "block"
  <2>1. rows'["block"] = rows["block"] /\ blockSpec' = blockSpec
    BY <1>2 DEF Store, TypeOK, Tables
  <2>. QED BY <2>1 DEF SpecInv
<1>. QED BY <1>1, <1>2

LEMMA NextSpecInv ==
  ASSUME Rescans = {}, ScanInv, TypeOK', SpecInv, [Next]_vars
  PROVE  SpecInv'
<1>. USE DEF chain, database, shared, clock, history, counters
<1>. DEFINE t == task[Scan]
<1>0. /\ Callers = {Scan} /\ Scan \in Callers /\ TypeOK
      /\ task \in [Callers -> Task] /\ t \in Task
      /\ failed \subseteq Blocks
      /\ \A u \in Blocks : u \in Nat
      /\ t.pc \in Working => t.block \in Blocks /\ next = t.block + 1
  <2>1. TypeOK /\ Callers = {Scan} /\ Current
    BY DEF ScanInv, Callers
  <2>2. t \in Task /\ failed \subseteq Blocks /\ task \in [Callers -> Task]
    BY <2>1 DEF TypeOK
  <2>3. \A u \in Blocks : u \in Nat
    BY ScanAssumption DEF Blocks
  <2>4. t.pc \in Working => t.block \in Blocks
    BY <2>2 DEF Task
  <2>. QED BY <2>1, <2>2, <2>3, <2>4 DEF Current
<1>. HIDE DEF t
<1>1. CASE GrowChain \/ TimerAsks \/ TimerAnswered \/ TimerFails \/ UNCHANGED vars
  <2>1. UNCHANGED <<kind, failed, rows, blockSpec, task, spec, blankBlocks, next>>
    BY <1>1 DEF GrowChain, TimerAsks, TimerAnswered, TimerFails, vars
  <2>. QED BY <2>1, SpecFrame DEF SpecInv
<1>2. CASE Deliver
  <2>1. /\ next \in Blocks /\ next' = next + 1 /\ t.pc = "idle"
        /\ UNCHANGED <<kind, failed, rows, blockSpec>>
    BY <1>0, <1>2, ScanAssumption DEF Deliver, HandleBlock, TypeOK, Blocks, t
  <2>2. CASE spec = NoSpec
    <3>1. task'[Scan] = At("spec", next) /\ UNCHANGED <<spec, blankBlocks>>
      BY <1>0, <1>2, <2>2 DEF Deliver, HandleBlock, AwaitSpec
    <3>2. task'[Scan].pc = "spec" /\ task'[Scan].block = next
      BY <3>1 DEF At
    <3>3. Fitting(failed', task'[Scan], spec', blankBlocks', next')
      BY <2>1, <3>1, <3>2 DEF SpecInv, Fitting, Writing, t
    <3>. QED BY <2>1, <3>3, SpecFrame DEF SpecInv
  <2>3. CASE spec # NoSpec
    <3>1. Fits(failed, next, spec) /\ \A b \in ToSet(blankBlocks) : NoUpgrade(b, next)
      BY <2>1, <2>3 DEF SpecInv, Fitting, t
    <3>2. Dispatch(Scan, next, spec)
      BY <1>2, <2>3 DEF Deliver, HandleBlock
    <3>. QED BY <1>0, <2>1, <3>1, <3>2, DispatchFits, SpecFrame DEF SpecInv
  <2>. QED BY <2>2, <2>3
<1>3. CASE EndOfRange \/ StartFails
  <2>1. /\ task'[Scan].pc \in {"done", "dead"}
        /\ UNCHANGED <<kind, failed, rows, blockSpec>>
    BY <1>0, <1>3 DEF EndOfRange, StartFails, Resting, At
  <2>2. Fitting(failed', task'[Scan], spec', blankBlocks', next')
    BY <2>1 DEF Fitting, Writing
  <2>. QED BY <2>1, <2>2, SpecFrame DEF SpecInv
<1>4. CASE Restart
  <2>1. /\ task'[Scan].pc = "idle" /\ spec' = NoSpec /\ blankBlocks' = <<>>
        /\ UNCHANGED <<kind, failed, rows, blockSpec>>
    BY <1>0, <1>4 DEF Restart, Resting, At
  <2>2. Fitting(failed', task'[Scan], spec', blankBlocks', next')
    BY <2>1, ToSetEmpty DEF Fitting, Writing
  <2>. QED BY <2>1, <2>2, SpecFrame DEF SpecInv
<1>5. CASE SpecArrives(Scan)
  <2>1. /\ t.block \in Blocks /\ next' = t.block + 1
        /\ UNCHANGED <<kind, failed, rows, blockSpec>>
        /\ Dispatch(Scan, t.block, SpecAt(t.block))
        /\ t.pc = "spec"
    BY <1>0, <1>5 DEF SpecArrives, Working, t
  <2>2. Fits(failed, t.block, SpecAt(t.block)) /\ \A b \in ToSet(blankBlocks) : NoUpgrade(b, t.block)
    BY <2>1, AnswerFits DEF SpecInv, Fitting, t
  <2>. QED BY <1>0, <2>1, <2>2, DispatchFits, SpecFrame DEF SpecInv
<1>6. CASE FlushCommits(Scan)
  <2>1. PICK x \in t.todo : Store(Scan, x, ToSet(t.batch))
    BY <1>6 DEF FlushCommits, t
  <2>2. /\ UNCHANGED <<kind, failed, spec, blankBlocks, next>>
        /\ t.pc = "flush" /\ x \in Tables
        /\ t.batch \in Seq(Blocks)
    BY <1>0, <1>6 DEF FlushCommits, Task, t
  <2>3. ToSet(t.batch) \subseteq Blocks /\ t.block \in Blocks
    BY <1>0, <2>2, ToSetType DEF Working
  <2>4. \A b \in ToSet(t.batch) : Fits(failed, b, t.spec)
    BY <1>0, <2>2, <2>3, FitsEarlier DEF SpecInv, Fitting, t
  <2>5. RowsFit(failed, rows'["block"], blockSpec')
    BY <1>0, <2>1, <2>2, <2>3, <2>4, StoreFits DEF t
  <2>6. task'[Scan].pc = t.pc /\ task'[Scan].block = t.block /\ task'[Scan].spec = t.spec
        /\ task'[Scan].batch = t.batch
    BY <1>0, <2>1 DEF Store, Task, t
  <2>7. Fitting(failed', task'[Scan], spec', blankBlocks', next')
    BY <2>2, <2>6 DEF SpecInv, Fitting, Writing, t
  <2>. QED BY <2>2, <2>5, <2>7, SpecFrame
<1>7. CASE FlushDone(Scan)
  <2>1. /\ task'[Scan] = UpsertOf(t.block, spec) /\ blankBlocks' = <<>> /\ t.pc = "flush"
        /\ UNCHANGED <<kind, failed, rows, blockSpec, spec>>
    BY <1>0, <1>7 DEF FlushDone, t
  <2>2. task'[Scan].pc = "events" /\ task'[Scan].block = t.block /\ task'[Scan].spec = spec
    BY <2>1 DEF UpsertOf, At
  <2>3. Fits(failed, t.block, spec)
    BY <2>1 DEF SpecInv, Fitting, t
  <2>4. Fitting(failed', task'[Scan], spec', blankBlocks', next')
    BY <2>1, <2>2, <2>3 DEF Fitting
  <2>. QED BY <2>1, <2>4, SpecFrame DEF SpecInv
<1>8. CASE EventsCommit(Scan)
  <2>1. /\ UNCHANGED <<kind, failed, blockSpec, spec, blankBlocks>>
        /\ t.pc = "events" /\ rows'["block"] = rows["block"]
    BY <1>0, <1>8 DEF EventsCommit, TypeOK, Tables, t
  <2>2. task'[Scan].pc = "batches" /\ task'[Scan].block = t.block /\ task'[Scan].spec = t.spec
    BY <1>0, <1>8 DEF EventsCommit, Task, t
  <2>3. Fitting(failed', task'[Scan], spec', blankBlocks', next')
    BY <2>1, <2>2 DEF SpecInv, Fitting, Writing, t
  <2>. QED BY <2>1, <2>3, SpecFrame DEF SpecInv
<1>9. CASE BatchesDone(Scan)
  <2>1. /\ UNCHANGED <<kind, failed, rows, blockSpec, blankBlocks>>
        /\ t.pc = "batches"
        /\ spec' = IF kind[t.block] = "upgrade" THEN NoSpec ELSE spec
    BY <1>9 DEF BatchesDone, t
  <2>2. task'[Scan].pc = "rows" /\ task'[Scan].block = t.block /\ task'[Scan].spec = t.spec
    BY <1>0, <1>9 DEF BatchesDone, Task, t
  <2>3. spec' # NoSpec => Fits(failed, t.block + 1, spec')
    <3>1. t.block \in Nat /\ Fits(failed, t.block, spec)
      BY <1>0, <2>1 DEF SpecInv, Fitting, Working, Writing, t
    <3>. QED BY <1>0, <2>1, <3>1, FitsLater
  <2>4. Fitting(failed', task'[Scan], spec', blankBlocks', next')
    BY <2>1, <2>2, <2>3 DEF SpecInv, Fitting, Writing, t
  <2>. QED BY <2>1, <2>4, SpecFrame DEF SpecInv
<1>10. CASE RowCommits(Scan)
  <2>1. PICK x \in t.todo : Store(Scan, x, {t.block})
    BY <1>10 DEF RowCommits, t
  <2>2. /\ UNCHANGED <<kind, failed, spec, blankBlocks, next>>
        /\ t.pc = "rows" /\ x \in Tables
    BY <1>0, <1>10 DEF RowCommits, Task, t
  <2>3. t.block \in Blocks /\ Fits(failed, t.block, t.spec)
    BY <1>0, <2>2 DEF SpecInv, Fitting, Working, Writing, t
  <2>4. RowsFit(failed, rows'["block"], blockSpec')
    BY <1>0, <2>1, <2>2, <2>3, StoreFits DEF t
  <2>5. task'[Scan].pc = t.pc /\ task'[Scan].block = t.block /\ task'[Scan].spec = t.spec
    BY <1>0, <2>1 DEF Store, Task, t
  <2>6. Fitting(failed', task'[Scan], spec', blankBlocks', next')
    BY <2>2, <2>5 DEF SpecInv, Fitting, Writing, t
  <2>. QED BY <2>2, <2>4, <2>6, SpecFrame
<1>11. CASE UpsertDone(Scan)
  <2>1. /\ UNCHANGED <<kind, failed, rows, blockSpec, spec, blankBlocks>>
        /\ t.pc = "rows" /\ task'[Scan] = At("height", t.block)
    BY <1>0, <1>11 DEF UpsertDone, AfterUpsert, t
  <2>2. task'[Scan].pc = "height" /\ task'[Scan].block = t.block
    BY <2>1 DEF At
  <2>3. Fitting(failed', task'[Scan], spec', blankBlocks', next')
    BY <2>1, <2>2 DEF SpecInv, Fitting, Writing, t
  <2>. QED BY <2>1, <2>3, SpecFrame DEF SpecInv
<1>12. CASE UpsertFails(Scan)
  <2>1. /\ UNCHANGED <<kind, rows, blockSpec, spec, blankBlocks>>
        /\ failed' = failed \cup {t.block}
        /\ t.pc \in {"events", "batches", "rows"} /\ task'[Scan] = At("height", t.block)
    BY <1>0, <1>12 DEF UpsertFails, UpsertCanFail, AfterUpsert, t
  <2>2. task'[Scan].pc = "height" /\ task'[Scan].block = t.block
    BY <2>1 DEF At
  <2>3. t.block \in Blocks /\ t.block \in Nat
    BY <1>0, <2>1 DEF Working, Writing
  <2>4. \A b, s : Fits(failed, b, s) => Fits(failed', b, s)
    BY <2>1 DEF Fits
  <2>5. spec # NoSpec => Fits(failed', t.block + 1, spec)
    <3>1. CASE t.pc = "rows"
      BY <2>4, <3>1 DEF SpecInv, Fitting, t
    <3>2. CASE kind[t.block] = "upgrade"
      BY <2>1, <2>3, <3>2 DEF Fits
    <3>3. CASE t.pc \in {"events", "batches"} /\ kind[t.block] # "upgrade"
      <4>1. Fits(failed, t.block, spec)
        BY <3>3 DEF SpecInv, Fitting, t
      <4>. QED BY <1>0, <2>3, <2>4, <3>3, <4>1, FitsLater
    <3>. QED BY <2>1, <3>1, <3>2, <3>3
  <2>6. blankBlocks = <<>>
    BY <2>1 DEF SpecInv, Fitting, Writing, t
  <2>7. Fitting(failed', task'[Scan], spec', blankBlocks', next')
    BY <2>1, <2>2, <2>5, <2>6 DEF Fitting
  <2>8. RowsFit(failed', rows'["block"], blockSpec')
    BY <2>1, <2>4 DEF SpecInv, RowsFit
  <2>. QED BY <2>1, <2>7, <2>8, SpecFrame
<1>13. CASE HeightCommits(Scan)
  <2>1. /\ UNCHANGED <<kind, failed, rows, blockSpec, spec, blankBlocks, next>>
        /\ t.pc = "height" /\ task'[Scan].pc = "idle"
    BY <1>0, <1>13 DEF HeightCommits, Resting, At, t
  <2>2. blankBlocks = <<>> /\ (spec # NoSpec => Fits(failed, next, spec))
    BY <1>0, <2>1 DEF SpecInv, Fitting, Working, Writing, t
  <2>3. Fitting(failed', task'[Scan], spec', blankBlocks', next')
    BY <2>1, <2>2, ToSetEmpty DEF Fitting, Writing
  <2>. QED BY <2>1, <2>3, SpecFrame DEF SpecInv
<1>14. CASE SpecFails(Scan) \/ FlushFails(Scan) \/ HeightFails(Scan)
  <2>1. /\ UNCHANGED <<kind, failed, rows, blockSpec>> /\ task'[Scan].pc = "dead"
    BY <1>0, <1>14 DEF SpecFails, FlushFails, HeightFails, Abort, Resting, At
  <2>2. Fitting(failed', task'[Scan], spec', blankBlocks', next')
    BY <2>1 DEF Fitting, Writing
  <2>. QED BY <2>1, <2>2, SpecFrame DEF SpecInv
<1>. QED BY <1>0, <1>1, <1>2, <1>3, <1>4, <1>5, <1>6, <1>7, <1>8, <1>9, <1>10, <1>11, <1>12, <1>13,
         <1>14 DEF Next, Continue, Fail

\* Without rescans a row of the table block, also one that was written from the
\* buffer long after, has the version of the runtime that ran the block or the
\* one before its latest upgrade, unless the handling of an upgrade before it
\* failed: the cached spec never falls two upgrades behind.
THEOREM SpecIsAccurate == ASSUME Rescans = {} PROVE Spec => []SpecAccurate
<1>1. Init => SpecInv
  BY ToSetEmpty DEF Init, SpecInv, RowsFit, Fitting, Writing, Callers, Resting, At, Tables
<1>2. ScanInv /\ TypeOK' /\ SpecInv /\ [Next]_vars => SpecInv'
  BY NextSpecInv
<1>3. SpecInv => SpecAccurate
  BY DEF SpecInv, RowsFit, Fits, SpecAccurate
<1>4. ScanInv => TypeOK
  BY DEF ScanInv
<1>. QED BY <1>1, <1>2, <1>3, <1>4, InitScanInv, NextScanInv, PTL DEF Spec

(***************************************************************************)
(* The order in which heights are stored.                                  *)
(***************************************************************************)
LEMMA NextHeightBehind ==
  ASSUME ScanInv, HeightBehind, [Next]_vars PROVE HeightBehind'
<1> USE DEF chain, database, shared, clock, history, counters
<1>0. /\ Scan \in Callers /\ task \in [Callers -> Task] /\ task[Scan] \in Task
      /\ next \in Nat /\ height \in Nat
  BY DEF Callers, ScanInv, TypeOK
<1>1. CASE UNCHANGED <<next, height, task[Scan]>>
  BY <1>1 DEF HeightBehind
<1>2. CASE Deliver
  <2>1. next \in Blocks
    BY <1>2, ScanAssumption DEF Deliver, ScanInv, TypeOK, Blocks
  <2>2. Handled(Scan, next)
    BY <1>0, <1>2, <2>1, HandleBlockHandled DEF Deliver, ScanInv
  <2>3. height <= next /\ next' = next + 1 /\ height' = height
    BY <1>2 DEF Deliver, HandleBlock, HeightBehind
  <2>4. height' <= next'
    BY <1>0, <2>3
  <2>5. task'[Scan].pc \in Working => height' <= task'[Scan].block
    BY <2>2, <2>3 DEF Handled, Working, Writing
  <2>6. QED
    BY <2>4, <2>5 DEF HeightBehind
<1>3. CASE EndOfRange
  <2>1. task'[Scan].pc = "done" /\ UNCHANGED <<next, height>>
    BY <1>0, <1>3 DEF EndOfRange, Resting, At
  <2>2. QED
    BY <1>3, <2>1 DEF HeightBehind, EndOfRange, Working, Writing
<1>4. ASSUME NEW r \in Rescans, RescanBlock(r) PROVE HeightBehind'
  <2>1. PICK b \in 1..head : HandleBlock(r, b)
    BY <1>4 DEF RescanBlock
  <2>2. b \in Blocks /\ r \in Callers /\ r # Scan
    BY ScanAssumption DEF ScanInv, TypeOK, Blocks, Callers
  <2>3. Handled(r, b)
    BY <2>1, <2>2, HandleBlockHandled DEF ScanInv
  <2>4. UNCHANGED <<next, height, task[Scan]>>
    BY <1>0, <1>4, <2>1, <2>2, <2>3 DEF RescanBlock, HandleBlock, Handled
  <2>5. QED
    BY <1>1, <2>4
<1>5. ASSUME NEW c \in Callers, Continue(c) PROVE HeightBehind'
  <2>1. CASE SpecArrives(c)
    <3>1. task[c].block \in Blocks
      BY <2>1 DEF SpecArrives, ScanInv, TypeOK, Task, Working
    <3>2. Handled(c, task[c].block)
      BY <2>1, <3>1, DispatchHandled DEF SpecArrives, ScanInv
    <3>3. UNCHANGED <<next, height>>
      BY <2>1 DEF SpecArrives
    <3>4. CASE c = Scan
      BY <2>1, <3>2, <3>3, <3>4
      DEF SpecArrives, Handled, HeightBehind, Working, Writing
    <3>5. CASE c # Scan
      BY <1>0, <1>1, <3>2, <3>3, <3>5 DEF Handled
    <3>6. QED
      BY <3>4, <3>5
  <2>2. CASE FlushCommits(c) \/ FlushDone(c) \/ EventsCommit(c) \/ BatchesDone(c)
             \/ RowCommits(c) \/ UpsertDone(c)
    <3>1. UNCHANGED <<next, height>> /\ task[c].pc \in Working
      BY <2>2 DEF FlushCommits, FlushDone, EventsCommit, BatchesDone, RowCommits,
                  UpsertDone, Store, Working, Writing
    <3>2. CASE c = Scan
      <4>1. task'[Scan].block = task[Scan].block /\ task'[Scan].pc \in Working
        BY <1>0, <2>2, <3>2
        DEF FlushCommits, FlushDone, EventsCommit, BatchesDone, RowCommits,
            UpsertDone, Store, AfterUpsert, UpsertOf, At, Task, Working, Writing
      <4>2. QED
        BY <3>1, <3>2, <4>1 DEF HeightBehind, Working, Writing
    <3>3. CASE c # Scan
      <4>1. task'[Scan] = task[Scan]
        BY <1>0, <2>2, <3>3
        DEF FlushCommits, FlushDone, EventsCommit, BatchesDone, RowCommits,
            UpsertDone, Store, AfterUpsert
      <4>2. QED
        BY <1>1, <3>1, <4>1
    <3>4. QED
      BY <3>2, <3>3
  <2>3. CASE HeightCommits(c)
    <3>1. c = Scan
      BY <2>3 DEF HeightCommits, ScanInv, OnlyScanStoresHeight, Callers
    <3>2. next = task[Scan].block + 1 /\ task[Scan].block \in Nat
      BY <1>0, <2>3, <3>1, ScanAssumption
      DEF HeightCommits, ScanInv, Current, Task, Working, Writing, Blocks
    <3>3. height' = task[Scan].block /\ next' = next /\ task'[Scan].pc = "idle"
      BY <1>0, <2>3, <3>1 DEF HeightCommits, Resting, At
    <3>4. QED
      BY <3>2, <3>3 DEF HeightBehind, Working, Writing
  <2>4. QED
    BY <1>5, <2>1, <2>2, <2>3 DEF Continue
<1>6. ASSUME NEW c \in Callers, Fail(c) PROVE HeightBehind'
  <2>1. UNCHANGED <<next, height>>
    BY <1>6 DEF Fail, SpecFails, FlushFails, UpsertFails, HeightFails
  <2>2. CASE c = Scan
    <3>1. CASE UpsertFails(c)
      <4>1. task'[Scan].block = task[Scan].block /\ task'[Scan].pc = "height"
        BY <1>0, <2>2, <3>1 DEF UpsertFails, AfterUpsert, At
      <4>2. task[Scan].pc \in Working
        BY <2>2, <3>1 DEF UpsertFails, UpsertCanFail, Working, Writing
      <4>3. QED
        BY <2>1, <4>1, <4>2 DEF HeightBehind, Working, Writing
    <3>2. CASE Abort(Scan)
      <4>1. task'[Scan].pc = "dead"
        BY <1>0, <3>2 DEF Abort, Resting, At
      <4>2. QED
        BY <4>1 DEF HeightBehind, Working, Writing
    <3>3. QED
      BY <1>6, <2>2, <3>1, <3>2 DEF Fail, SpecFails, FlushFails, HeightFails
  <2>3. CASE c # Scan
    <3>1. task'[Scan] = task[Scan]
      BY <1>0, <1>6, <2>3
      DEF Fail, SpecFails, FlushFails, UpsertFails, HeightFails, Abort, AfterUpsert
    <3>2. QED
      BY <1>1, <2>1, <3>1
  <2>4. QED
    BY <2>2, <2>3
<1>7. CASE Restart
  <2>1. height' \in Nat
    BY <1>0, <1>7, ScanAssumption DEF Restart
  <2>2. next' = height' \/ next' = height' + 1
    BY <1>7 DEF Restart, StartPositions
  <2>3. task'[Scan].pc = "idle"
    BY <1>0, <1>7 DEF Restart, Resting, At
  <2>4. QED
    BY <2>1, <2>2, <2>3 DEF HeightBehind, Working, Writing
<1>8. CASE StartFails
  <2>1. task'[Scan].pc = "dead"
    BY <1>0, <1>8 DEF StartFails, Resting, At
  <2>2. QED
    BY <2>1 DEF HeightBehind, Working, Writing
<1>9. CASE GrowChain \/ TimerAsks \/ TimerAnswered \/ TimerFails \/ UNCHANGED vars
  <2>1. UNCHANGED <<next, height, task[Scan]>>
    BY <1>9 DEF GrowChain, TimerAsks, TimerAnswered, TimerFails, vars
  <2>2. QED
    BY <1>1, <2>1
<1>10. QED
  BY <1>2, <1>3, <1>4, <1>5, <1>6, <1>7, <1>8, <1>9 DEF Next

\* Only HeightCommits and the restart of a rescan process change the height.
LEMMA HeightSteps ==
  ASSUME ScanInv, [Next]_vars, height' # height
  PROVE  \/ HeightCommits(Scan)
         \/ RescanMode /\ Restart
<1> USE DEF chain, database, shared, clock, history, counters
<1>1. CASE \E c \in Callers : HeightCommits(c)
  BY <1>1 DEF HeightCommits, ScanInv, OnlyScanStoresHeight, Callers
<1>2. CASE Restart
  BY <1>2 DEF Restart
<1>3. ~(GrowChain \/ EndOfRange \/ TimerAsks \/ TimerAnswered \/ TimerFails
        \/ StartFails \/ UNCHANGED vars)
  BY DEF GrowChain, EndOfRange, TimerAsks, TimerAnswered, TimerFails, StartFails, vars
<1>4. ~Deliver /\ \A r \in Rescans : ~RescanBlock(r)
  BY DEF Deliver, RescanBlock, HandleBlock
<1>5. ASSUME NEW c \in Callers PROVE ~Fail(c)
  BY DEF Fail, SpecFails, FlushFails, UpsertFails, HeightFails
<1>6. ASSUME NEW c \in Callers, Continue(c) PROVE HeightCommits(c)
  BY <1>6 DEF Continue, SpecArrives, FlushCommits, FlushDone, EventsCommit,
              BatchesDone, RowCommits, UpsertDone
<1>7. QED
  BY <1>1, <1>2, <1>3, <1>4, <1>5, <1>6 DEF Next

\* A height that is stored is above the height it replaces.
LEMMA HeightRises ==
  ASSUME ScanInv, HeightBehind, HeightCommits(Scan)
  PROVE  height' >= height
BY DEF HeightCommits, HeightBehind, Working, Writing

LEMMA InitHeightBehind == Init => HeightBehind
<1> SUFFICES ASSUME Init PROVE HeightBehind
  OBVIOUS
<1>1. Base \in Nat /\ height = Base /\ next \in {Base, Base + 1}
  BY ScanAssumption DEF Init, StartPositions, Base
<1>2. task[Scan].pc = "idle"
  BY DEF Init, Resting, At, Callers
<1>3. QED
  BY <1>1, <1>2 DEF HeightBehind, Working, Writing

\* The scan process never stores a lower height than the stored one, although
\* it stores the number of whatever block it has just handled.
THEOREM HeightOnlyRises ==
  ASSUME RescanMode = FALSE PROVE Spec => HeightNeverBack
<1>1. ScanInv /\ HeightBehind /\ [Next]_vars => HeightBehind'
  BY NextHeightBehind
<1>2. ScanInv /\ HeightBehind /\ [Next]_vars => [height' >= height]_height
  BY HeightSteps, HeightRises
<1>3. QED
  BY <1>1, <1>2, InitHeightBehind, InitScanInv, NextScanInv, PTL
  DEF Spec, HeightNeverBack

\* A step of the scanner is a step of the watermark or leaves it alone.
LEMMA WatermarkStep ==
  ASSUME RescanMode = FALSE, ScanInv, HeightBehind, [Next]_vars
  PROVE  Watermark!Next
<1> DEFINE done == {b \in Blocks : Passed(b)}
<1>1. done \subseteq done'
  BY PassedStays DEF ScanInv
<1>2. CASE height' = height
  BY <1>1, <1>2 DEF Watermark!Next, Watermark!Settle
<1>3. CASE height' # height
  <2>1. HeightCommits(Scan)
    BY <1>3, HeightSteps
  <2>2. done' = done
    BY <2>1 DEF HeightCommits, history, Passed, Settled, Written
  <2>3. height' = task[Scan].block /\ task[Scan].block \in Blocks
    BY <2>1
    DEF HeightCommits, ScanInv, TypeOK, Task, Callers, Working, Writing
  <2>4. height' \in 0..MaxBlock
    BY <2>3, ScanAssumption DEF Blocks
  <2>5. height' >= height
    BY <2>1, HeightRises
  <2>6. \A b \in (Base + 1)..height' : Passed(b) /\ b \in Blocks
    <3>1. TAKE b \in (Base + 1)..height'
    <3>2. Base \in Nat
      BY ScanAssumption DEF Base
    <3>3. b \in Blocks
      BY <2>4, <3>2, ScanAssumption DEF Blocks
    <3>4. b = task[Scan].block \/ b \in (Base + 1)..(task[Scan].block - 1)
      BY <2>3, <2>4, <3>2
    <3>5. Passed(b)
      BY <2>1, <3>4
      DEF HeightCommits, ScanInv, Below, Stored, Passed, Working, Writing
    <3>6. QED
      BY <3>3, <3>5
  <2>7. Watermark!Covered(height', done)
    BY <2>6 DEF Watermark!Covered
  <2>8. QED
    BY <2>2, <2>4, <2>5, <2>7 DEF Watermark!Next, Watermark!Advance
<1>4. QED
  BY <1>2, <1>3

\* The scan process implements the watermark, for chains of any length.
THEOREM ImplementsWatermark ==
  ASSUME RescanMode = FALSE PROVE Spec => WatermarkSpec
<1>1. Init => Watermark!Init
  BY DEF Init, Watermark!Init, Passed, Settled, Written, Tables
<1>2. ScanInv /\ HeightBehind /\ [Next]_vars
        => [Watermark!Next]_<<height, {b \in Blocks : Passed(b)}>>
  BY WatermarkStep
<1>3. ScanInv /\ HeightBehind /\ [Next]_vars => HeightBehind'
  BY NextHeightBehind
<1>4. QED
  BY <1>1, <1>2, <1>3, InitHeightBehind, InitScanInv, NextScanInv, PTL
  DEF Spec, WatermarkSpec, Watermark!Spec
=============================================================================
