------------------------ MODULE RescanListenerProofs ------------------------
(***************************************************************************)
(* What holds of RescanListener for any number of handlers, blocks, page   *)
(* sizes and collections.                                                  *)
(***************************************************************************)
EXTENDS RescanListener, FiniteSetTheorems, WellFoundedInduction, TLAPS

LEMMA IdleType == Idle \in Task
BY DEF Idle, Task, Places, OfCollections, Resting

\* A suspended handler may move on.
LEMMA TaskMoves ==
  ASSUME NEW t \in Task, NEW p \in Places,
         p \in {"update", "inner", "tokens"} => t.collections # <<>>
  PROVE  /\ [t EXCEPT !.pc = p] \in Task
         /\ \A S \in SUBSET Blocks : [t EXCEPT !.pc = p, !.todo = S] \in Task
         /\ \A n \in Nat : [t EXCEPT !.pc = p, !.batches = n] \in Task
BY DEF Task

LEMMA TaskCollections ==
  ASSUME NEW t \in Task, NEW s \in Seq(Nat)
  PROVE  [t EXCEPT !.pc = "cursor", !.collections = s] \in Task
BY DEF Task, Places, OfCollections

LEMMA InitTypeOK == Init => TypeOK
<1> SUFFICES ASSUME Init PROVE TypeOK
  OBVIOUS
<1>1. isFastRescanActive \in BOOLEAN /\ isCollectionRescanActive \in BOOLEAN
  BY DEF Init
<1>2. free \in Nat /\ queue \in Seq(Handlers)
  BY ListenerAssumption DEF Init
<1>3. task \in [Handlers -> Task]
  BY IdleType DEF Init
<1>4. QED
  BY <1>1, <1>2, <1>3 DEF Init, TypeOK

LEMMA NextTypeOK == TypeOK /\ [Next]_vars => TypeOK'
<1> SUFFICES ASSUME TypeOK, [Next]_vars PROVE TypeOK'
  OBVIOUS
<1> USE DEF flags, pool, ghost
<1>1. CASE IndexGrows
  BY <1>1 DEF IndexGrows, TypeOK
<1>2. CASE StopFastRescan
  BY <1>2 DEF StopFastRescan, TypeOK
<1>3. ASSUME NEW h \in Handlers, Throw(h) PROVE task' \in [Handlers -> Task]
  BY <1>3, IdleType DEF Throw, TypeOK
<1>4. ASSUME NEW h \in Handlers, Notified(h) PROVE TypeOK'
  <2>1. CASE ForceRescan(h)
    <3>1. PICK blocks \in BlockLists :
            task' = [task EXCEPT ![h] =
              IF blocks = {} THEN Idle ELSE [Idle EXCEPT !.pc = "force", !.todo = blocks]]
      BY <2>1 DEF ForceRescan
    <3>2. [Idle EXCEPT !.pc = "force", !.todo = blocks] \in Task
      BY IdleType, ListenerAssumption DEF Task, Places
    <3>3. task' \in [Handlers -> Task]
      BY <3>1, <3>2, IdleType DEF TypeOK
    <3>4. QED
      BY <2>1, <3>3 DEF ForceRescan, TypeOK
  <2>2. CASE StartFastRescan(h)
    <3>1. PICK form \in Payloads :
            IF Parses(form)
            THEN /\ \E from, to \in Blocks, size \in PageSizes :
                      task' = [task EXCEPT ![h] = FirstPage(from, to, size)]
                 /\ isFastRescanActive' = TRUE
            ELSE /\ Throw(h)
                 /\ UNCHANGED isFastRescanActive
      BY <2>2, Zenon DEF StartFastRescan
    <3>2. \A from, to \in Blocks, size \in PageSizes : FirstPage(from, to, size) \in Task
      <4> SUFFICES ASSUME NEW from \in Blocks, NEW to \in Blocks, NEW size \in PageSizes
                   PROVE  FirstPage(from, to, size) \in Task
        OBVIOUS
      <4>1. from \in Nat /\ to \in Nat /\ size \in Nat
        BY ListenerAssumption DEF Blocks
      <4>2. InRange(from, to) \subseteq Blocks
        BY DEF InRange, TypeOK
      <4>3. "page" \in Places
        BY DEF Places, OfFast
      <4>4. QED
        BY <4>1, <4>2, <4>3, IdleType DEF FirstPage, Task
    <3>3. task' \in [Handlers -> Task]
      BY <1>3, <3>1, <3>2 DEF TypeOK
    <3>4. isFastRescanActive' \in BOOLEAN
      BY <3>1 DEF TypeOK
    <3>5. overrun' \in [Handlers -> Nat]
      BY <2>2 DEF StartFastRescan, TypeOK
    <3>6. QED
      BY <2>2, <3>3, <3>4, <3>5 DEF StartFastRescan, TypeOK
  <2>3. CASE RescanAllCollections(h)
    <3>1. [Idle EXCEPT !.pc = "outer"] \in Task
      BY IdleType DEF Task, Places, OfCollections
    <3>2. queue' \in Seq(Handlers)
      BY <2>3 DEF RescanAllCollections, TypeOK
    <3>3. QED
      BY <2>3, <3>1, <3>2 DEF RescanAllCollections, TypeOK
  <2>4. QED
    BY <1>4, <2>1, <2>2, <2>3 DEF Notified
<1>5. ASSUME NEW h \in Handlers, Continue(h) PROVE TypeOK'
  <2>0. task[h] \in Task /\ task \in [Handlers -> Task]
    BY DEF TypeOK
  <2>1. CASE ForcedBlockDone(h)
    <3>1. PICK b \in task[h].todo : task' = [task EXCEPT ![h] = AfterForced(@, b)]
      BY <2>1 DEF ForcedBlockDone
    <3>2. [task[h] EXCEPT !.todo = @ \ {b}] \in Task
      BY <2>0 DEF Task
    <3>3. AfterForced(task[h], b) \in Task
      BY <3>2, IdleType DEF AfterForced
    <3>4. QED
      BY <2>0, <2>1, <3>1, <3>3 DEF ForcedBlockDone, TypeOK
  <2>2. CASE PageArrives(h)
    <3>1. PageOf(task[h]) \subseteq Blocks
      BY DEF PageOf, InRange, TypeOK
    <3>2. /\ [task[h] EXCEPT !.pc = "finished"] \in Task
          /\ [task[h] EXCEPT !.pc = "blocks", !.todo = PageOf(task[h])] \in Task
      BY <2>0, <3>1, TaskMoves DEF Places, OfFast, Resting
    <3>3. task' \in [Handlers -> Task]
      BY <2>0, <2>2, <3>2 DEF PageArrives
    <3>4. QED
      BY <2>2, <3>3 DEF PageArrives, TypeOK
  <2>3. CASE BlockDone(h)
    <3>1. PICK b \in task[h].todo : task' = [task EXCEPT ![h] = AfterBlock(@, b)]
      BY <2>3 DEF BlockDone
    <3>2. AfterBlock(task[h], b) \in Task
      <4>1. PICK t \in Task : t = [task[h] EXCEPT !.todo = @ \ {b}, !.seen = @ \cup {b}]
        BY <2>0 DEF Task
      <4>2. [t EXCEPT !.pc = "page", !.page = @ + 1] \in Task
        <5>1. t.page + 1 \in Nat
          BY DEF Task
        <5>2. QED
          BY <5>1 DEF Task, Places, OfFast
      <4>3. QED
        BY <4>1, <4>2, IdleType DEF AfterBlock
    <3>3. task' \in [Handlers -> Task]
      BY <2>0, <3>1, <3>2
    <3>4. overrun' \in [Handlers -> Nat]
      BY <2>3 DEF BlockDone, TypeOK
    <3>5. QED
      BY <2>3, <3>3, <3>4 DEF BlockDone, TypeOK
  <2>4. CASE Connect(h)
    <3>1. free' \in Nat /\ queue' \in Seq(Handlers)
      BY <2>4 DEF Connect, TypeOK
    <3>2. CASE task[h].pc = "outer"
      <4>1. [task[h] EXCEPT !.pc = "cursor", !.collections = Collections] \in Task
        BY <2>0, TaskCollections, ListenerAssumption
      <4>2. task' = [task EXCEPT ![h].pc = "cursor", ![h].collections = Collections]
        BY <2>4, <3>2 DEF Connect
      <4>3. task' \in [Handlers -> Task]
        BY <2>0, <4>1, <4>2
      <4>4. QED
        BY <2>4, <3>1, <4>3 DEF Connect, TypeOK
    <3>3. CASE task[h].pc = "inner"
      <4>1. PICK n \in 0..MaxBatches :
              task' = [task EXCEPT ![h].pc = "tokens", ![h].batches = n]
        BY <2>4, <3>3 DEF Connect
      <4>2. task[h].collections # <<>> /\ n \in Nat
        BY <2>0, <3>3, ListenerAssumption DEF Task
      <4>3. [task[h] EXCEPT !.pc = "tokens", !.batches = n] \in Task
        BY <2>0, <4>2, TaskMoves DEF Places, OfCollections
      <4>4. task' \in [Handlers -> Task]
        BY <2>0, <4>1, <4>3
      <4>5. QED
        BY <2>4, <3>1, <4>4 DEF Connect, TypeOK
    <3>4. QED
      BY <2>4, <3>2, <3>3 DEF Connect
  <2>5. CASE NextCollection(h)
    <3>1. task' \in [Handlers -> Task]
      <4>1. task[h].collections # <<>>
        BY <2>0, <2>5 DEF NextCollection, Task
      <4>2. [task[h] EXCEPT !.pc = "update"] \in Task
        BY <2>0, <4>1, TaskMoves DEF Places, OfCollections
      <4>3. QED
        BY <2>0, <2>5, <4>2 DEF NextCollection
    <3>2. QED
      BY <2>5, <3>1 DEF NextCollection, TypeOK
  <2>6. CASE CollectionUpdated(h)
    <3>1. task' \in [Handlers -> Task]
      <4>1. task[h].collections # <<>>
        BY <2>0, <2>6 DEF CollectionUpdated, Task
      <4>2. [task[h] EXCEPT !.pc = "inner"] \in Task
        BY <2>0, <4>1, TaskMoves DEF Places, OfCollections
      <4>3. QED
        BY <2>0, <2>6, <4>2 DEF CollectionUpdated
    <3>2. queue' \in Seq(Handlers)
      BY <2>6 DEF CollectionUpdated, TypeOK
    <3>3. QED
      BY <2>6, <3>1, <3>2 DEF CollectionUpdated, TypeOK
  <2>7. CASE NextTokens(h)
    <3>1. task' \in [Handlers -> Task]
      <4>1. task[h].batches - 1 \in Nat
        BY <2>0, <2>7 DEF NextTokens, Task
      <4>2. [task[h] EXCEPT !.batches = @ - 1] \in Task
        BY <2>0, <4>1 DEF Task
      <4>3. QED
        BY <2>0, <2>7, <4>2 DEF NextTokens
    <3>2. QED
      BY <2>7, <3>1 DEF NextTokens, TypeOK
  <2>8. CASE TokensDone(h)
    <3>1. Tail(task[h].collections) \in Seq(Nat)
      BY <2>0, <2>8 DEF TokensDone, Task
    <3>2. task' \in [Handlers -> Task]
      <4>1. [task[h] EXCEPT !.pc = "cursor", !.collections = Tail(@)] \in Task
        BY <2>0, <3>1, TaskCollections
      <4>2. QED
        BY <2>0, <2>8, <4>1 DEF TokensDone
    <3>3. QED
      BY <2>8, <3>2 DEF TokensDone, TypeOK
  <2>9. CASE CollectionsDone(h)
    <3>1. isCollectionRescanActive' \in BOOLEAN
      BY <2>9 DEF CollectionsDone
    <3>2. free' \in Nat
      BY <2>9 DEF CollectionsDone, TypeOK
    <3>3. QED
      BY <1>3, <2>9, <3>1, <3>2 DEF CollectionsDone, TypeOK
  <2>10. QED
    BY <1>5, <2>1, <2>2, <2>3, <2>4, <2>5, <2>6, <2>7, <2>8, <2>9 DEF Continue
<1>6. ASSUME NEW h \in Handlers, Fail(h) PROVE TypeOK'
  <2>1. task' \in [Handlers -> Task]
    BY <1>3, <1>6 DEF Fail, ForcedBlockFails, FastRescanFails, CursorFails
  <2>2. leaked' \in Nat
    BY <1>6 DEF Fail, ForcedBlockFails, FastRescanFails, CursorFails, TypeOK
  <2>3. abandoned' \in BOOLEAN
    BY <1>6 DEF Fail, ForcedBlockFails, FastRescanFails, CursorFails, TypeOK
  <2>4. QED
    BY <1>6, <2>1, <2>2, <2>3 DEF Fail, ForcedBlockFails, FastRescanFails, CursorFails, TypeOK
<1>7. CASE UNCHANGED vars
  BY <1>7 DEF vars, TypeOK
<1>8. QED
  BY <1>1, <1>2, <1>4, <1>5, <1>6, <1>7 DEF Next

\* The variables of the listener keep their types, whatever notifications
\* arrive and whatever fails.
THEOREM ListenerTypeCorrect == Spec => []TypeOK
<1>1. TypeOK /\ [Next]_vars => TypeOK'
  BY NextTypeOK
<1>2. QED
  BY <1>1, InitTypeOK, PTL DEF Spec

(***************************************************************************)
(* The clients of the pool.                                                *)
(***************************************************************************)
\* Every client but the listener's own is free, held by a handler or leaked.
PoolCounted ==
  free + Cardinality(Running(HoldsOuter)) + Cardinality(Running(HoldsInner)) + leaked
    = PoolSize - 1

LEMMA RunningFinite ==
  ASSUME NEW P
  PROVE  /\ IsFiniteSet(Running(P))
         /\ Cardinality(Running(P)) \in Nat
         /\ Cardinality(Running(P)) <= Cardinality(Handlers)
BY ListenerAssumption, FS_Subset, FS_CardinalityType DEF Running

\* A step of one handler adds it to the handlers at some places, removes it,
\* or leaves them as they are.
LEMMA RunningStep ==
  ASSUME NEW P, NEW h \in Handlers, \A g \in Handlers \ {h} : task'[g] = task[g]
  PROVE  Cardinality(Running(P))' = Cardinality(Running(P))
           + (IF task'[h].pc \in P THEN 1 ELSE 0) - (IF task[h].pc \in P THEN 1 ELSE 0)
<1>1. IsFiniteSet(Running(P)) /\ Cardinality(Running(P)) \in Nat
  BY RunningFinite
<1>2. CASE task'[h].pc \in P
  <2>1. Running(P)' = Running(P) \cup {h}
    BY <1>2 DEF Running
  <2>2. h \in Running(P) <=> task[h].pc \in P
    BY DEF Running
  <2>3. Cardinality(Running(P) \cup {h}) =
          IF h \in Running(P) THEN Cardinality(Running(P)) ELSE Cardinality(Running(P)) + 1
    BY <1>1, FS_AddElement
  <2>4. Cardinality(Running(P))' = Cardinality(Running(P) \cup {h})
    BY <2>1
  <2>5. QED
    BY <1>1, <1>2, <2>2, <2>3, <2>4
<1>3. CASE task'[h].pc \notin P
  <2>1. Running(P)' = Running(P) \ {h}
    BY <1>3 DEF Running
  <2>2. h \in Running(P) <=> task[h].pc \in P
    BY DEF Running
  <2>3. Cardinality(Running(P) \ {h}) =
          IF h \in Running(P) THEN Cardinality(Running(P)) - 1 ELSE Cardinality(Running(P))
    BY <1>1, FS_RemoveElement
  <2>4. Cardinality(Running(P))' = Cardinality(Running(P) \ {h})
    BY <2>1
  <2>5. QED
    BY <1>1, <1>3, <2>2, <2>3, <2>4
<1>4. QED
  BY <1>2, <1>3

\* A handler that neither takes nor returns a client.
LEMMA PoolFrame ==
  ASSUME PoolCounted, NEW h \in Handlers, free' = free, leaked' = leaked,
         \A g \in Handlers \ {h} : task'[g] = task[g],
         task'[h].pc \in HoldsOuter <=> task[h].pc \in HoldsOuter,
         task'[h].pc \in HoldsInner <=> task[h].pc \in HoldsInner
  PROVE  PoolCounted'
<1>1. /\ Cardinality(Running(HoldsOuter))' = Cardinality(Running(HoldsOuter))
      /\ Cardinality(Running(HoldsInner))' = Cardinality(Running(HoldsInner))
  <2>1. Cardinality(Running(HoldsOuter)) \in Nat /\ Cardinality(Running(HoldsInner)) \in Nat
    BY RunningFinite
  <2>2. QED
    BY <2>1, RunningStep
<1>2. QED
  BY <1>1 DEF PoolCounted

LEMMA NextPoolCounted ==
  ASSUME TypeOK, PoolCounted, [Next]_vars
  PROVE  PoolCounted'
<1> USE DEF flags, pool, ghost
<1>0. task \in [Handlers -> Task] /\ free \in Nat /\ PoolSize \in Nat /\ leaked \in Nat
  BY ListenerAssumption DEF TypeOK
<1>1. CASE IndexGrows \/ StopFastRescan \/ UNCHANGED vars
  BY <1>1 DEF IndexGrows, StopFastRescan, vars, PoolCounted, Running
<1>2. ASSUME NEW h \in Handlers,
             ForceRescan(h) \/ StartFastRescan(h) \/ RescanAllCollections(h)
      PROVE  PoolCounted'
  <2>1. free' = free /\ leaked' = leaked /\ task[h].pc \in Resting
    BY <1>2 DEF ForceRescan, StartFastRescan, RescanAllCollections
  <2>2. /\ task'[h].pc \in {"idle", "force", "page", "outer"}
        /\ \A g \in Handlers \ {h} : task'[g] = task[g]
    <3>1. CASE ForceRescan(h)
      <4>1. PICK blocks \in BlockLists :
              task' = [task EXCEPT ![h] =
                IF blocks = {} THEN Idle ELSE [Idle EXCEPT !.pc = "force", !.todo = blocks]]
        BY <3>1 DEF ForceRescan
      <4>2. QED
        BY <1>0, <4>1 DEF Idle
    <3>2. CASE StartFastRescan(h)
      <4>1. \/ \E from, to \in Blocks, size \in PageSizes :
                 task' = [task EXCEPT ![h] = FirstPage(from, to, size)]
            \/ task' = [task EXCEPT ![h] = Idle]
        BY <3>2 DEF StartFastRescan, Throw
      <4>2. Idle.pc = "idle"
        BY DEF Idle
      <4>3. \A from, to, size : FirstPage(from, to, size).pc = "page"
        BY DEF FirstPage, Idle
      <4>4. QED
        BY <1>0, <4>1, <4>2, <4>3
    <3>3. CASE RescanAllCollections(h)
      BY <1>0, <3>3 DEF RescanAllCollections, Idle
    <3>4. QED
      BY <1>2, <3>1, <3>2, <3>3
  <2>3. QED
    BY <2>1, <2>2, PoolFrame DEF Resting, HoldsOuter, HoldsInner
<1>3. ASSUME NEW h \in Handlers,
             ForcedBlockDone(h) \/ PageArrives(h) \/ BlockDone(h)
      PROVE  PoolCounted'
  <2>1. free' = free /\ leaked' = leaked /\ task[h].pc \in {"force", "page", "blocks"}
        /\ \A g \in Handlers \ {h} : task'[g] = task[g]
    BY <1>0, <1>3 DEF ForcedBlockDone, PageArrives, BlockDone
  <2>2. task'[h].pc \in {"idle", "force", "page", "blocks", "finished"}
    <3>1. CASE ForcedBlockDone(h)
      BY <1>0, <3>1 DEF ForcedBlockDone, AfterForced, Idle, Task
    <3>2. CASE PageArrives(h)
      BY <1>0, <3>2 DEF PageArrives, Task
    <3>3. CASE BlockDone(h)
      BY <1>0, <3>3 DEF BlockDone, AfterBlock, Idle, Task
    <3>4. QED
      BY <1>3, <3>1, <3>2, <3>3
  <2>3. QED
    BY <2>1, <2>2, PoolFrame DEF HoldsOuter, HoldsInner
<1>4. ASSUME NEW h \in Handlers,
             NextCollection(h) \/ CollectionUpdated(h) \/ NextTokens(h)
      PROVE  PoolCounted'
  <2>1. free' = free /\ leaked' = leaked /\ \A g \in Handlers \ {h} : task'[g] = task[g]
    BY <1>0, <1>4 DEF NextCollection, CollectionUpdated, NextTokens
  <2>2. /\ task[h].pc \in HoldsOuter /\ task'[h].pc \in HoldsOuter
        /\ task'[h].pc \in HoldsInner <=> task[h].pc \in HoldsInner
    BY <1>0, <1>4 DEF NextCollection, CollectionUpdated, NextTokens, Task,
                      HoldsOuter, HoldsInner
  <2>3. QED
    BY <2>1, <2>2, PoolFrame
<1>5. ASSUME NEW h \in Handlers, Connect(h) \/ TokensDone(h) \/ CollectionsDone(h)
      PROVE  PoolCounted'
  <2> DEFINE O == Cardinality(Running(HoldsOuter))
             I == Cardinality(Running(HoldsInner))
  <2>1. O \in Nat /\ I \in Nat
    BY RunningFinite
  <2>2. \A g \in Handlers \ {h} : task'[g] = task[g]
    BY <1>0, <1>5 DEF Connect, TokensDone, CollectionsDone, Throw
  <2>3. /\ O' = O + (IF task'[h].pc \in HoldsOuter THEN 1 ELSE 0)
                  - (IF task[h].pc \in HoldsOuter THEN 1 ELSE 0)
        /\ I' = I + (IF task'[h].pc \in HoldsInner THEN 1 ELSE 0)
                  - (IF task[h].pc \in HoldsInner THEN 1 ELSE 0)
    BY <2>2, RunningStep
  <2>4. CASE Connect(h) /\ task[h].pc = "outer"
    <3>1. task'[h].pc = "cursor" /\ free' = free - 1 /\ leaked' = leaked
      BY <1>0, <2>4 DEF Connect, Task
    <3>2. O' = O + 1 /\ I' = I
      BY <2>1, <2>3, <2>4, <3>1 DEF HoldsOuter, HoldsInner
    <3>3. QED
      BY <1>0, <2>1, <3>1, <3>2 DEF PoolCounted
  <2>5. CASE Connect(h) /\ task[h].pc = "inner"
    <3>1. task'[h].pc = "tokens" /\ free' = free - 1 /\ leaked' = leaked
      BY <1>0, <2>5 DEF Connect, Task
    <3>2. O' = O /\ I' = I + 1
      BY <2>1, <2>3, <2>5, <3>1 DEF HoldsOuter, HoldsInner
    <3>3. QED
      BY <1>0, <2>1, <3>1, <3>2 DEF PoolCounted
  <2>6. CASE TokensDone(h)
    <3>1. task[h].pc = "tokens" /\ task'[h].pc = "cursor" /\ free' = free + 1 /\ leaked' = leaked
      BY <1>0, <2>6 DEF TokensDone, Task
    <3>2. O' = O /\ I' = I - 1
      BY <2>1, <2>3, <3>1 DEF HoldsOuter, HoldsInner
    <3>3. QED
      BY <1>0, <2>1, <3>1, <3>2 DEF PoolCounted
  <2>7. CASE CollectionsDone(h)
    <3>1. task[h].pc = "cursor" /\ task'[h].pc = "idle" /\ free' = free + 1 /\ leaked' = leaked
      BY <1>0, <2>7 DEF CollectionsDone, Throw, Idle
    <3>2. O' = O - 1 /\ I' = I
      BY <2>1, <2>3, <3>1 DEF HoldsOuter, HoldsInner
    <3>3. QED
      BY <1>0, <2>1, <3>1, <3>2 DEF PoolCounted
  <2>8. QED
    BY <1>5, <2>4, <2>5, <2>6, <2>7 DEF Connect
<1>6. ASSUME NEW h \in Handlers, Fail(h) PROVE PoolCounted'
  <2> DEFINE O == Cardinality(Running(HoldsOuter))
             I == Cardinality(Running(HoldsInner))
  <2>1. task'[h].pc = "idle" /\ \A g \in Handlers \ {h} : task'[g] = task[g]
    BY <1>0, <1>6 DEF Fail, ForcedBlockFails, FastRescanFails, CursorFails, Throw, Idle
  <2>2. CASE ForcedBlockFails(h) \/ FastRescanFails(h)
    <3>1. free' = free /\ leaked' = leaked /\ task[h].pc \in {"force", "page", "blocks"}
      BY <2>2 DEF ForcedBlockFails, FastRescanFails, OfFast
    <3>2. QED
      BY <2>1, <3>1, PoolFrame DEF HoldsOuter, HoldsInner
  <2>3. CASE CursorFails(h)
    <3>1. /\ free' = free /\ task[h].pc \in {"cursor", "tokens"}
          /\ leaked' = leaked + (IF task[h].pc \in HoldsInner THEN 2 ELSE 1)
      BY <2>3 DEF CursorFails
    <3>2. O \in Nat /\ I \in Nat
      BY RunningFinite
    <3>3. O' = O - 1
      BY <2>1, <3>1, <3>2, RunningStep DEF HoldsOuter
    <3>4. I' = I - (IF task[h].pc \in HoldsInner THEN 1 ELSE 0)
      BY <2>1, <3>1, <3>2, RunningStep DEF HoldsInner
    <3>5. QED
      BY <1>0, <3>1, <3>2, <3>3, <3>4 DEF PoolCounted
  <2>4. QED
    BY <1>6, <2>2, <2>3 DEF Fail
<1>7. QED
  BY <1>1, <1>2, <1>3, <1>4, <1>5, <1>6 DEF Next, Notified, Continue

\* Rescans of all collections never starve each other of clients before failed
\* cursors have lost all that the pool has to spare: with the default pool of
\* ten, two rescans at a time stand six lost clients, and eight stand none.
THEOREM PoolStaysAlive == Spec => []PoolAlive
<1>1. Init => PoolCounted
  <2> SUFFICES ASSUME Init PROVE PoolCounted
    OBVIOUS
  <2>1. Running(HoldsOuter) = {} /\ Running(HoldsInner) = {}
    BY DEF Init, Idle, Running, HoldsOuter, HoldsInner
  <2>2. QED
    BY <2>1, FS_EmptySet, ListenerAssumption DEF Init, PoolCounted
<1>2. TypeOK /\ PoolCounted /\ [Next]_vars => PoolCounted'
  BY NextPoolCounted
<1>3. TypeOK /\ PoolCounted => PoolAlive
  <2> SUFFICES ASSUME TypeOK, PoolCounted, free = 0,
                      Running({"cursor", "update", "tokens"}) = {}
               PROVE  Drained
    BY DEF PoolAlive, TypeOK
  <2>1. Running(HoldsInner) = {}
    BY DEF Running, HoldsInner
  <2>2. Cardinality(Running(HoldsInner)) = 0
    BY <2>1, FS_EmptySet
  <2>3. /\ Cardinality(Running(HoldsOuter)) \in Nat
        /\ Cardinality(Running(HoldsOuter)) <= Cardinality(Handlers)
    BY RunningFinite
  <2>4. Cardinality(Handlers) \in Nat
    BY ListenerAssumption, FS_CardinalityType
  <2>5. QED
    BY <2>2, <2>3, <2>4, ListenerAssumption DEF PoolCounted, Drained, TypeOK
<1>4. TypeOK /\ [Next]_vars => TypeOK'
  BY NextTypeOK
<1>5. QED
  BY <1>1, <1>2, <1>3, <1>4, InitTypeOK, PTL DEF Spec

(***************************************************************************)
(* The pages of a fast rescan.                                             *)
(***************************************************************************)
LEMMA LeastExists ==
  ASSUME NEW S \in SUBSET Nat, S # {}
  PROVE  \E m \in S : \A x \in S : m <= x
<1> DEFINE R == {ss \in Nat \X Nat : ss[1] < ss[2]}
<1>1. IsWellFoundedOn(R, Nat)
  BY NatLessThanWellFounded DEF OpToRel
<1>2. PICK m \in S : \A x \in S : ~(<<x, m>> \in R)
  BY <1>1, WFMin
<1>3. ASSUME NEW x \in S PROVE m <= x
  <2>1. x \in Nat /\ m \in Nat
    OBVIOUS
  <2>2. ~(x < m)
    BY <1>2, <2>1
  <2>3. QED
    BY <2>1, <2>2
<1>4. QED
  BY <1>3

LEMMA GreatestExists ==
  ASSUME NEW n \in Nat, NEW S \in SUBSET (0..n), S # {}
  PROVE  \E m \in S : \A x \in S : x <= m
<1> DEFINE Mirror == {n - x : x \in S}
<1>0. \A x \in S : x \in Nat /\ n - x \in Nat
  OBVIOUS
<1>1. Mirror \in SUBSET Nat /\ Mirror # {}
  BY <1>0
<1>2. PICK y \in Mirror : \A x \in Mirror : y <= x
  BY <1>1, LeastExists
<1>3. PICK m \in S : y = n - m
  OBVIOUS
<1>4. \A x \in S : n - m <= n - x
  BY <1>2, <1>3
<1>5. \A x \in S : x <= m
  BY <1>0, <1>4
<1>6. QED
  BY <1>5

LEMMA FoundFinite ==
  ASSUME NEW found \in SUBSET Blocks, NEW T \in SUBSET found
  PROVE  IsFiniteSet(T) /\ Cardinality(T) \in Nat
<1>1. IsFiniteSet(Blocks)
  BY FS_Interval, ListenerAssumption DEF Blocks
<1>2. IsFiniteSet(T)
  BY <1>1, FS_Subset
<1>3. QED
  BY <1>2, FS_CardinalityType

LEMMA PositionType ==
  ASSUME NEW found \in SUBSET Blocks, NEW b \in found
  PROVE  Position(b, found) \in Nat \ {0}
<1> DEFINE T == {x \in found : x <= b}
<1>1. IsFiniteSet(T) /\ Cardinality(T) \in Nat
  BY FoundFinite
<1>2. b \in T
  BY DEF Blocks
<1>3. Cardinality(T) # 0
  BY <1>1, <1>2, FS_EmptySet
<1>4. QED
  BY <1>1, <1>3 DEF Position

\* More blocks in the table only move a block to a later position.
LEMMA PositionGrows ==
  ASSUME NEW found \in SUBSET Blocks, NEW more \in SUBSET Blocks,
         found \subseteq more, NEW b \in found
  PROVE  Position(b, found) <= Position(b, more)
<1> DEFINE T == {x \in found : x <= b}
           U == {x \in more : x <= b}
<1>1. IsFiniteSet(U) /\ T \in SUBSET U
  BY FoundFinite
<1>2. Cardinality(T) <= Cardinality(U)
  BY <1>1, FS_Subset
<1>3. QED
  BY <1>2 DEF Position

\* Positions have no gaps: where one is beyond k, one is k + 1.
LEMMA PositionNext ==
  ASSUME NEW found \in SUBSET Blocks, NEW k \in Nat,
         NEW a \in found, Position(a, found) > k
  PROVE  \E b \in found : Position(b, found) = k + 1
<1> DEFINE Beyond == {x \in found : Position(x, found) > k}
<1>0. \A x \in found : x \in Nat /\ x <= MaxBlock
  BY ListenerAssumption DEF Blocks
<1>1. Beyond \in SUBSET Nat /\ Beyond # {}
  BY <1>0
<1>2. PICK b \in Beyond : \A x \in Beyond : b <= x
  BY <1>1, LeastExists
<1> DEFINE Below == {x \in found : x < b}
           Upto  == {x \in found : x <= b}
<1>3. IsFiniteSet(Below) /\ Cardinality(Below) \in Nat
  BY FoundFinite
<1>4. Upto = Below \cup {b} /\ b \notin Below
  <2>1. \A x \in found : x <= b <=> x < b \/ x = b
    BY <1>0
  <2>2. ~(b < b)
    BY <1>0
  <2>3. QED
    BY <2>1, <2>2
<1>5. Position(b, found) = Cardinality(Below) + 1
  <2>1. Cardinality(Below \cup {b}) = Cardinality(Below) + 1
    BY <1>3, <1>4, FS_AddElement
  <2>2. QED
    BY <1>4, <2>1 DEF Position
<1>6. Cardinality(Below) <= k
  <2>1. CASE Below = {}
    BY <2>1, FS_EmptySet
  <2>2. CASE Below # {}
    <3>1. Below \in SUBSET (0..MaxBlock)
      BY <1>0, ListenerAssumption
    <3>2. PICK m \in Below : \A x \in Below : x <= m
      BY <2>2, <3>1, GreatestExists, ListenerAssumption
    <3>3. m \in found /\ m < b /\ m \notin Beyond
      BY <1>0, <1>2
    <3>4. {x \in found : x <= m} = Below
      <4>1. \A x \in found : x <= m => x < b
        BY <1>0, <3>3
      <4>2. QED
        BY <3>2, <4>1
    <3>5. Position(m, found) = Cardinality(Below)
      BY <3>4 DEF Position
    <3>6. QED
      BY <1>3, <3>3, <3>5
  <2>3. QED
    BY <2>1, <2>2
<1>7. Position(b, found) > k /\ b \in found
  OBVIOUS
<1>8. QED
  BY <1>3, <1>5, <1>6, <1>7

\* What the pages that a fast rescan has read account for: of the blocks that
\* are due, those up to the position it has reached.
Reached(t, position, blocks) ==
  LET found == InRange(t.from, t.to)
  IN  \A b \in t.due : b \in found /\ (Position(b, found) <= position => b \in blocks)

PagesRead(t) ==
  /\ t.pc = "page" => Reached(t, t.page * t.size, t.seen)
  /\ t.pc = "blocks" => Reached(t, (t.page + 1) * t.size, t.seen \cup t.todo)
  /\ t.pc = "finished" => t.due \subseteq t.seen
  /\ t.pc \in OfFast => t.size > 0

FastInv == \A h \in Handlers : PagesRead(task[h])

LEMMA PagesArithmetic ==
  ASSUME NEW page \in Nat, NEW size \in Nat, size > 0
  PROVE  /\ page * size \in Nat /\ (page + 1) * size \in Nat
         /\ page * size + 1 <= (page + 1) * size
<1>1. page * size \in Nat /\ (page + 1) * size = page * size + size
  OBVIOUS
<1>2. QED
  BY <1>1

LEMMA InRangeType ==
  ASSUME TypeOK, NEW from, NEW to PROVE InRange(from, to) \in SUBSET Blocks
BY DEF TypeOK, InRange

\* The scan fills the table.
LEMMA PagesReadGrows ==
  ASSUME TypeOK, TypeOK', indexed \subseteq indexed', NEW t \in Task, PagesRead(t)
  PROVE  PagesRead(t)'
<1> DEFINE found == InRange(t.from, t.to)
<1>1. found \in SUBSET Blocks /\ found' \in SUBSET Blocks /\ found \subseteq found'
  BY DEF TypeOK, InRange
<1>2. t.page * t.size \in Nat /\ (t.page + 1) * t.size \in Nat
  BY DEF Task
<1>3. ASSUME NEW n \in Nat, NEW S, Reached(t, n, S)
      PROVE  Reached(t, n, S)'
  <2>1. ASSUME NEW b \in t.due
        PROVE  b \in found' /\ (Position(b, found') <= n => b \in S)
    <3>1. b \in found /\ (Position(b, found) <= n => b \in S)
      BY <1>3, <2>1 DEF Reached
    <3>2. Position(b, found) <= Position(b, found')
      BY <1>1, <3>1, PositionGrows
    <3>3. Position(b, found) \in Nat /\ Position(b, found') \in Nat
      BY <1>1, <3>1, PositionType
    <3>4. QED
      BY <1>1, <3>1, <3>2, <3>3
  <2>2. QED
    BY <2>1 DEF Reached, Position
<1>4. QED
  BY <1>2, <1>3 DEF PagesRead

\* A step of one handler that leaves the table alone.
LEMMA FastFrame ==
  ASSUME TypeOK, FastInv, indexed' = indexed, NEW h \in Handlers,
         \A g \in Handlers \ {h} : task'[g] = task[g],
         PagesRead(task'[h])
  PROVE  FastInv'
<1>1. ASSUME NEW g \in Handlers PROVE PagesRead(task[g])'
  <2>1. PagesRead(task'[g])
    BY DEF FastInv
  <2>2. QED
    BY <2>1 DEF PagesRead, Reached, InRange, Position
<1>2. QED
  BY <1>1 DEF FastInv

LEMMA PagesIdle == PagesRead(Idle)
BY DEF PagesRead, Idle, OfFast

LEMMA FirstPageRead ==
  ASSUME TypeOK, NEW from \in Blocks, NEW to \in Blocks, NEW size \in Nat, size > 0
  PROVE  PagesRead(FirstPage(from, to, size))
<1> DEFINE t == FirstPage(from, to, size)
<1>1. /\ t.pc = "page" /\ t.size = size /\ t.page * t.size = 0
      /\ t.from = from /\ t.to = to /\ t.due = InRange(from, to)
  BY DEF FirstPage, Idle
<1>2. \A b \in InRange(from, to) : ~(Position(b, InRange(from, to)) <= 0)
  BY InRangeType, PositionType
<1>3. Reached(t, 0, t.seen)
  BY <1>1, <1>2 DEF Reached
<1>4. QED
  BY <1>1, <1>3 DEF PagesRead

LEMMA PageArrivesReads ==
  ASSUME TypeOK, FastInv, NEW h \in Handlers, PageArrives(h)
  PROVE  PagesRead(task'[h])
<1> DEFINE t == task[h]
           found == InRange(t.from, t.to)
<1>0. t \in Task /\ task \in [Handlers -> Task] /\ t.pc = "page"
  BY DEF TypeOK, PageArrives
<1>1. Reached(t, t.page * t.size, t.seen) /\ t.size > 0
  BY <1>0 DEF FastInv, PagesRead, OfFast
<1>2. /\ t.page * t.size \in Nat /\ (t.page + 1) * t.size \in Nat
      /\ t.page * t.size + 1 <= (t.page + 1) * t.size
  <2>1. t.page \in Nat /\ t.size \in Nat
    BY <1>0 DEF Task
  <2>2. QED
    BY <1>1, <2>1, PagesArithmetic
<1>3. found \in SUBSET Blocks /\ \A b \in found : Position(b, found) \in Nat
  BY InRangeType, PositionType
<1>4. CASE PageOf(t) = {}
  <2>1. task'[h] = [t EXCEPT !.pc = "finished"]
    BY <1>0, <1>4 DEF PageArrives
  <2>2. ASSUME NEW b \in t.due PROVE b \in t.seen
    <3>1. b \in found /\ (Position(b, found) <= t.page * t.size => b \in t.seen)
      BY <1>1, <2>2 DEF Reached
    <3>2. CASE Position(b, found) > t.page * t.size
      <4>1. PICK a \in found : Position(a, found) = t.page * t.size + 1
        BY <1>2, <1>3, <3>1, <3>2, PositionNext
      <4>2. a \in PageOf(t)
        BY <1>2, <4>1 DEF PageOf
      <4>3. QED
        BY <1>4, <4>2
    <3>3. QED
      BY <1>2, <1>3, <3>1, <3>2
  <2>3. task'[h].pc = "finished" /\ task'[h].due = t.due /\ task'[h].seen = t.seen
    BY <1>0, <2>1 DEF Task
  <2>4. QED
    BY <2>2, <2>3 DEF PagesRead, OfFast
<1>5. CASE PageOf(t) # {}
  <2>1. task'[h] = [t EXCEPT !.pc = "blocks", !.todo = PageOf(t)]
    BY <1>0, <1>5 DEF PageArrives
  <2>2. /\ task'[h].pc = "blocks" /\ task'[h].todo = PageOf(t)
        /\ task'[h].due = t.due /\ task'[h].seen = t.seen
        /\ task'[h].from = t.from /\ task'[h].to = t.to
        /\ task'[h].page = t.page /\ task'[h].size = t.size
    BY <1>0, <2>1 DEF Task
  <2>3. Reached(t, (t.page + 1) * t.size, t.seen \cup PageOf(t))
    <3>1. ASSUME NEW b \in t.due
          PROVE  /\ b \in found
                 /\ Position(b, found) <= (t.page + 1) * t.size => b \in t.seen \cup PageOf(t)
      BY <1>1, <1>2, <1>3, <3>1 DEF Reached, PageOf
    <3>2. QED
      BY <3>1 DEF Reached
  <2>4. QED
    BY <1>1, <2>2, <2>3 DEF PagesRead, Reached
<1>6. QED
  BY <1>4, <1>5

LEMMA BlockDoneReads ==
  ASSUME TypeOK, FastInv, NEW h \in Handlers, BlockDone(h)
  PROVE  PagesRead(task'[h])
<1> DEFINE t == task[h]
<1>0. t \in Task /\ task \in [Handlers -> Task] /\ t.pc = "blocks"
  BY DEF TypeOK, BlockDone
<1>1. Reached(t, (t.page + 1) * t.size, t.seen \cup t.todo) /\ t.size > 0
  BY <1>0 DEF FastInv, PagesRead, OfFast
<1>2. PICK b \in t.todo : task'[h] = AfterBlock(t, b)
  BY <1>0 DEF BlockDone
<1>3. PICK d \in Task : d = [t EXCEPT !.todo = @ \ {b}, !.seen = @ \cup {b}]
  BY <1>0, <1>2 DEF Task
<1>4. /\ d.pc = "blocks" /\ d.due = t.due /\ d.from = t.from /\ d.to = t.to
      /\ d.page = t.page /\ d.size = t.size
      /\ d.seen = t.seen \cup {b} /\ d.todo = t.todo \ {b}
  BY <1>0, <1>3 DEF Task
<1>5. Reached(d, (d.page + 1) * d.size, d.seen \cup d.todo)
  BY <1>1, <1>2, <1>4 DEF Reached
<1>6. CASE d.todo # {}
  <2>1. task'[h] = d
    BY <1>2, <1>3, <1>6 DEF AfterBlock
  <2>2. QED
    BY <1>1, <1>4, <1>5, <2>1 DEF PagesRead
<1>7. CASE d.todo = {} /\ isFastRescanActive
  <2>1. task'[h] = [d EXCEPT !.pc = "page", !.page = @ + 1]
    BY <1>2, <1>3, <1>7 DEF AfterBlock
  <2>2. /\ task'[h].pc = "page" /\ task'[h].page = d.page + 1
        /\ task'[h].size = d.size /\ task'[h].seen = d.seen /\ task'[h].due = d.due
        /\ task'[h].from = d.from /\ task'[h].to = d.to
    BY <2>1 DEF Task
  <2>3. Reached(d, (d.page + 1) * d.size, d.seen)
    BY <1>5, <1>7 DEF Reached
  <2>4. QED
    BY <1>1, <1>4, <2>2, <2>3 DEF PagesRead, Reached
<1>8. CASE d.todo = {} /\ ~isFastRescanActive
  <2>1. task'[h] = Idle
    BY <1>2, <1>3, <1>8 DEF AfterBlock
  <2>2. QED
    BY <2>1, PagesIdle
<1>9. QED
  BY <1>6, <1>7, <1>8

LEMMA NextFastInv ==
  ASSUME 0 \notin PageSizes, TypeOK, FastInv, [Next]_vars
  PROVE  FastInv'
<1> USE DEF flags, pool, ghost
<1>0. task \in [Handlers -> Task] /\ TypeOK'
  BY NextTypeOK DEF TypeOK
<1>1. CASE IndexGrows
  <2>1. indexed \subseteq indexed' /\ task' = task
    BY <1>1 DEF IndexGrows
  <2>2. ASSUME NEW h \in Handlers PROVE PagesRead(task[h])'
    <3>1. PICK t \in Task : t = task[h]
      BY <1>0
    <3>2. PagesRead(t)'
      BY <1>0, <2>1, <3>1, PagesReadGrows DEF FastInv
    <3>3. QED
      BY <2>1, <3>1, <3>2
  <2>3. QED
    BY <2>2 DEF FastInv
<1>2. CASE StopFastRescan \/ UNCHANGED vars
  BY <1>2 DEF StopFastRescan, vars, FastInv, PagesRead, Reached, InRange, Position
<1>3. ASSUME NEW h \in Handlers, StartFastRescan(h) PROVE FastInv'
  <2>1. indexed' = indexed
    BY <1>3 DEF StartFastRescan
  <2>2. \/ \E from, to \in Blocks, size \in PageSizes :
             task' = [task EXCEPT ![h] = FirstPage(from, to, size)]
        \/ task' = [task EXCEPT ![h] = Idle]
    BY <1>3 DEF StartFastRescan, Throw
  <2>3. PagesRead(task'[h])
    <3>1. \A size \in PageSizes : size \in Nat /\ size > 0
      BY ListenerAssumption
    <3>2. QED
      BY <1>0, <2>2, <3>1, FirstPageRead, PagesIdle
  <2>4. QED
    BY <1>0, <2>1, <2>2, <2>3, FastFrame
<1>4. ASSUME NEW h \in Handlers, PageArrives(h) PROVE FastInv'
  BY <1>0, <1>4, PageArrivesReads, FastFrame DEF PageArrives
<1>5. ASSUME NEW h \in Handlers, BlockDone(h) PROVE FastInv'
  BY <1>0, <1>5, BlockDoneReads, FastFrame DEF BlockDone
<1>6. ASSUME NEW h \in Handlers,
             \/ ForceRescan(h) \/ ForcedBlockDone(h) \/ RescanAllCollections(h)
             \/ Connect(h) \/ NextCollection(h) \/ CollectionUpdated(h)
             \/ NextTokens(h) \/ TokensDone(h) \/ CollectionsDone(h) \/ Fail(h)
      PROVE  FastInv'
  <2>1. indexed' = indexed /\ \A g \in Handlers \ {h} : task'[g] = task[g]
    BY <1>0, <1>6
    DEF ForceRescan, ForcedBlockDone, RescanAllCollections, Connect, NextCollection,
        CollectionUpdated, NextTokens, TokensDone, CollectionsDone, Fail,
        ForcedBlockFails, FastRescanFails, CursorFails, Throw
  <2>2. task'[h].pc \notin {"page", "blocks", "finished"}
    <3>1. Idle.pc = "idle"
      BY DEF Idle
    <3>2. CASE ForceRescan(h)
      <4>1. PICK blocks \in BlockLists :
              task' = [task EXCEPT ![h] =
                IF blocks = {} THEN Idle ELSE [Idle EXCEPT !.pc = "force", !.todo = blocks]]
        BY <3>2 DEF ForceRescan
      <4>2. QED
        BY <1>0, <4>1 DEF Idle
    <3>3. CASE ForcedBlockDone(h)
      BY <1>0, <3>1, <3>3 DEF ForcedBlockDone, AfterForced, Task
    <3>4. CASE \/ RescanAllCollections(h) \/ Connect(h) \/ NextCollection(h)
               \/ CollectionUpdated(h) \/ NextTokens(h) \/ TokensDone(h)
      BY <1>0, <3>4
      DEF RescanAllCollections, Connect, NextCollection, CollectionUpdated, NextTokens,
          TokensDone, Idle, Task
    <3>5. CASE CollectionsDone(h) \/ Fail(h)
      BY <1>0, <3>1, <3>5
      DEF CollectionsDone, Fail, ForcedBlockFails, FastRescanFails, CursorFails, Throw
    <3>6. QED
      BY <1>6, <3>2, <3>3, <3>4, <3>5
  <2>3. PagesRead(task'[h])
    BY <2>2 DEF PagesRead, OfFast
  <2>4. QED
    BY <2>1, <2>3, FastFrame
<1>7. QED
  BY <1>1, <1>2, <1>3, <1>4, <1>5, <1>6 DEF Next, Notified, Continue

\* A fast rescan that ends because a page is empty has rescanned every block
\* that was indexed when it was started, however the table has grown since and
\* whatever other rescans run: paging by OFFSET is sound, for pages of at least
\* one block.
THEOREM FastRescanIsComplete ==
  ASSUME 0 \notin PageSizes PROVE Spec => []FastRescanComplete
<1>1. Init => FastInv
  BY PagesIdle DEF Init, FastInv
<1>2. TypeOK /\ FastInv /\ [Next]_vars => FastInv'
  BY NextFastInv
<1>3. FastInv => FastRescanComplete
  BY DEF FastInv, PagesRead, FastRescanComplete
<1>4. TypeOK /\ [Next]_vars => TypeOK'
  BY NextTypeOK
<1>5. QED
  BY <1>1, <1>2, <1>3, <1>4, InitTypeOK, PTL DEF Spec

(***************************************************************************)
(* The flag of the fast rescan.                                            *)
(***************************************************************************)
\* A step of one handler after which a fast rescan of its own still runs.
LEMMA ActiveFrame ==
  ASSUME ActiveIsRunning, NEW h \in Handlers,
         isFastRescanActive' = isFastRescanActive, abandoned' = abandoned,
         \A g \in Handlers \ {h} : task'[g] = task[g],
         isFastRescanActive /\ task[h].pc \in OfFast => task'[h].pc \in OfFast
  PROVE  ActiveIsRunning'
<1> SUFFICES ASSUME isFastRescanActive, ~abandoned PROVE Running(OfFast)' # {}
  BY DEF ActiveIsRunning
<1>1. PICK g \in Handlers : task[g].pc \in OfFast
  BY DEF ActiveIsRunning, Running
<1>2. task'[g].pc \in OfFast
  BY <1>1
<1>3. QED
  BY <1>2 DEF Running

LEMMA NextActive ==
  ASSUME TypeOK, ActiveIsRunning, [Next]_vars
  PROVE  ActiveIsRunning'
<1> USE DEF flags, ghost
<1>0. task \in [Handlers -> Task]
  BY DEF TypeOK
<1>1. CASE IndexGrows \/ StopFastRescan \/ UNCHANGED vars
  BY <1>1 DEF IndexGrows, StopFastRescan, vars, ActiveIsRunning, Running
<1>2. ASSUME NEW h \in Handlers, StartFastRescan(h) PROVE ActiveIsRunning'
  <2>1. PICK form \in Payloads :
          IF Parses(form)
          THEN /\ \E from, to \in Blocks, size \in PageSizes :
                    task' = [task EXCEPT ![h] = FirstPage(from, to, size)]
               /\ isFastRescanActive' = TRUE
          ELSE /\ Throw(h)
               /\ UNCHANGED isFastRescanActive
    BY <1>2 DEF StartFastRescan
  <2>2. CASE Parses(form)
    <3>1. task'[h].pc = "page"
      BY <1>0, <2>1, <2>2 DEF FirstPage, Idle
    <3>2. QED
      BY <3>1 DEF ActiveIsRunning, Running, OfFast
  <2>3. CASE ~Parses(form)
    <3>1. ~isFastRescanActive /\ isFastRescanActive' = isFastRescanActive /\ abandoned' = abandoned
      BY <1>2, <2>1, <2>3 DEF StartFastRescan
    <3>2. QED
      BY <3>1 DEF ActiveIsRunning
  <2>4. QED
    BY <2>2, <2>3
<1>3. ASSUME NEW h \in Handlers, PageArrives(h) PROVE ActiveIsRunning'
  <2>1. CASE PageOf(task[h]) = {}
    BY <1>3, <2>1 DEF PageArrives, ActiveIsRunning
  <2>2. CASE PageOf(task[h]) # {}
    <3>1. task'[h].pc = "blocks" /\ \A g \in Handlers \ {h} : task'[g] = task[g]
      BY <1>0, <1>3, <2>2 DEF PageArrives, Task
    <3>2. QED
      BY <1>3, <2>2, <3>1, ActiveFrame DEF PageArrives, OfFast
  <2>3. QED
    BY <2>1, <2>2
<1>4. ASSUME NEW h \in Handlers, BlockDone(h) PROVE ActiveIsRunning'
  <2>1. PICK b \in task[h].todo : task' = [task EXCEPT ![h] = AfterBlock(@, b)]
    BY <1>4 DEF BlockDone
  <2>2. task'[h] = AfterBlock(task[h], b) /\ \A g \in Handlers \ {h} : task'[g] = task[g]
    BY <1>0, <2>1
  <2>3. task[h] \in Task /\ task[h].pc = "blocks"
    BY <1>0, <1>4 DEF BlockDone
  <2>4. isFastRescanActive => task'[h].pc \in {"page", "blocks"}
    BY <2>2, <2>3 DEF AfterBlock, Task
  <2>5. QED
    BY <1>4, <2>2, <2>4, ActiveFrame DEF BlockDone, OfFast
<1>5. ASSUME NEW h \in Handlers,
             \/ ForceRescan(h) \/ RescanAllCollections(h) \/ ForcedBlockDone(h)
             \/ Connect(h) \/ NextCollection(h) \/ CollectionUpdated(h)
             \/ NextTokens(h) \/ TokensDone(h) \/ CollectionsDone(h)
      PROVE  ActiveIsRunning'
  <2>1. /\ task[h].pc \notin OfFast
        /\ isFastRescanActive' = isFastRescanActive /\ abandoned' = abandoned
    BY <1>5 DEF ForceRescan, RescanAllCollections, ForcedBlockDone, Connect,
                NextCollection, CollectionUpdated, NextTokens, TokensDone,
                CollectionsDone, Resting, OfFast
  <2>2. \A g \in Handlers \ {h} : task'[g] = task[g]
    BY <1>0, <1>5
    DEF ForceRescan, RescanAllCollections, ForcedBlockDone, Connect,
        NextCollection, CollectionUpdated, NextTokens, TokensDone,
        CollectionsDone, Throw
  <2>3. QED
    BY <2>1, <2>2, ActiveFrame
<1>6. ASSUME NEW h \in Handlers, Fail(h) PROVE ActiveIsRunning'
  <2>1. CASE FastRescanFails(h)
    BY <2>1 DEF FastRescanFails, ActiveIsRunning
  <2>2. CASE ForcedBlockFails(h) \/ CursorFails(h)
    <3>1. /\ task[h].pc \notin OfFast
          /\ isFastRescanActive' = isFastRescanActive /\ abandoned' = abandoned
          /\ \A g \in Handlers \ {h} : task'[g] = task[g]
      BY <1>0, <2>2 DEF ForcedBlockFails, CursorFails, Throw, OfFast
    <3>2. QED
      BY <3>1, ActiveFrame
  <2>3. QED
    BY <1>6, <2>1, <2>2 DEF Fail
<1>7. QED
  BY <1>1, <1>2, <1>3, <1>4, <1>5, <1>6 DEF Next, Notified, Continue

\* 'Fast rescan is already active' is said only when one is, however often it is
\* stopped and started, or when one has failed and nobody has sent
\* stop_fast_rescan since: startFastRescan has no catch that clears the flag.
THEOREM ActiveRescanRuns == Spec => []ActiveIsRunning
<1>1. Init => ActiveIsRunning
  BY DEF Init, ActiveIsRunning
<1>2. TypeOK /\ ActiveIsRunning /\ [Next]_vars => ActiveIsRunning'
  BY NextActive
<1>3. TypeOK /\ [Next]_vars => TypeOK'
  BY NextTypeOK
<1>4. QED
  BY <1>1, <1>2, <1>3, InitTypeOK, PTL DEF Spec

(***************************************************************************)
(* stop_fast_rescan.                                                       *)
(***************************************************************************)
\* No two blocks have the same position.
LEMMA PositionRises ==
  ASSUME NEW found \in SUBSET Blocks, NEW a \in found, NEW b \in found, a < b
  PROVE  Position(a, found) < Position(b, found)
<1> DEFINE A == {x \in found : x <= a}
           B == {x \in found : x <= b}
<1>1. \A x \in found : x \in Nat
  BY DEF Blocks
<1>2. IsFiniteSet(B) /\ Cardinality(B) \in Nat /\ Cardinality(A) \in Nat
  BY FoundFinite
<1>3. b \in B /\ A \in SUBSET (B \ {b})
  BY <1>1
<1>4. IsFiniteSet(B \ {b}) /\ Cardinality(B \ {b}) = Cardinality(B) - 1
  BY <1>2, <1>3, FS_RemoveElement
<1>5. Cardinality(A) <= Cardinality(B \ {b})
  BY <1>3, <1>4, FS_Subset
<1>6. QED
  BY <1>2, <1>4, <1>5 DEF Position

\* A page has no more blocks than its size says.
LEMMA PageShort ==
  ASSUME TypeOK, NEW t \in Task
  PROVE  /\ IsFiniteSet(PageOf(t)) /\ Cardinality(PageOf(t)) \in Nat
         /\ Cardinality(PageOf(t)) <= t.size
<1> DEFINE found == InRange(t.from, t.to)
           first == t.page * t.size + 1
           last  == (t.page + 1) * t.size
           where == [b \in PageOf(t) |-> Position(b, found)]
<1>1. found \in SUBSET Blocks /\ PageOf(t) \in SUBSET found
  BY InRangeType DEF PageOf
<1>2. IsFiniteSet(PageOf(t)) /\ Cardinality(PageOf(t)) \in Nat
  BY <1>1, FoundFinite
<1>3. t.size \in Nat /\ t.page * t.size \in Nat /\ first \in Nat /\ last \in Nat /\ last = first + t.size - 1
  <2>1. t.page \in Nat /\ t.size \in Nat
    BY DEF Task
  <2>2. t.page * t.size \in Nat /\ (t.page + 1) * t.size = t.page * t.size + t.size
    BY <2>1
  <2>3. QED
    BY <2>1, <2>2
<1>4. IsFiniteSet(first..last) /\ Cardinality(first..last) = t.size
  <2>1. first \in Int /\ last \in Int
    BY <1>3
  <2>2. /\ IsFiniteSet(first..last)
        /\ Cardinality(first..last) = IF first > last THEN 0 ELSE last - first + 1
    BY <2>1, FS_Interval
  <2>3. QED
    BY <1>3, <2>2
<1>5. where \in [PageOf(t) -> first..last]
  <2>1. \A b \in PageOf(t) : Position(b, found) \in Nat
    BY <1>1, PositionType
  <2>2. \A b \in PageOf(t) : Position(b, found) > t.page * t.size /\ Position(b, found) <= last
    BY DEF PageOf
  <2>3. ASSUME NEW b \in PageOf(t) PROVE Position(b, found) \in first..last
    <3>1. t.page * t.size \in Nat
      BY <1>3
    <3>2. PICK k \in Nat : k = t.page * t.size
      BY <3>1
    <3>3. Position(b, found) \in Nat /\ Position(b, found) > k /\ Position(b, found) <= last
      BY <2>1, <2>2, <3>2
    <3>4. first = k + 1
      BY <3>2
    <3> HIDE DEF first, last, found
    <3>5. QED
      BY <1>3, <3>3, <3>4
  <2>4. QED
    BY <2>3
<1>6. ASSUME NEW a \in PageOf(t), NEW b \in PageOf(t), a # b
      PROVE  where[a] # where[b]
  <2>1. a \in found /\ b \in found /\ (a < b \/ b < a)
    BY <1>1, <1>6 DEF Blocks
  <2>2. Position(a, found) \in Nat /\ Position(b, found) \in Nat
    BY <1>1, <2>1, PositionType
  <2>3. QED
    BY <1>1, <2>1, <2>2, PositionRises
<1> HIDE DEF where, first, last
<1>7. ~(t.size < Cardinality(PageOf(t)))
  <2> SUFFICES ASSUME Cardinality(first..last) < Cardinality(PageOf(t)) PROVE FALSE
    BY <1>4
  <2>1. PICK S : S = PageOf(t)
    OBVIOUS
  <2>2. PICK T : T = first..last
    OBVIOUS
  <2>3. PICK f \in [S -> T] : f = where
    BY <1>5, <2>1, <2>2
  <2>4. IsFiniteSet(S) /\ IsFiniteSet(T) /\ Cardinality(T) < Cardinality(S)
    BY <1>2, <1>4, <2>1, <2>2
  <2>5. \E x, y \in S : x # y /\ f[x] = f[y]
    BY <2>4, FS_PigeonHole
  <2>6. QED
    BY <1>6, <2>1, <2>3, <2>5
<1>8. QED
  BY <1>2, <1>3, <1>7

\* A rescan t that has done n blocks since the flag was cleared has no more to
\* do than the rest of its page.
Heeds(t, n, active) ==
  t.pc \in OfFast =>
    /\ active => n = 0
    /\ t.pc = "page" => n = 0
    /\ t.pc = "blocks" => /\ t.todo # {} /\ IsFiniteSet(t.todo)
                          /\ n + Cardinality(t.todo) <= t.size

HeedInv == \A h \in Handlers : Heeds(task[h], overrun[h], isFastRescanActive)

LEMMA HeedFrame ==
  ASSUME HeedInv, NEW h \in Handlers, overrun' = overrun,
         isFastRescanActive' => isFastRescanActive,
         \A g \in Handlers \ {h} : task'[g] = task[g],
         task'[h].pc \notin OfFast \/ task'[h] = task[h]
  PROVE  HeedInv'
BY DEF HeedInv, Heeds

LEMMA BlockDoneHeeds ==
  ASSUME TypeOK, HeedInv, NEW h \in Handlers, BlockDone(h)
  PROVE  HeedInv'
<1> DEFINE t == task[h]
           n == overrun[h]
<1>0. /\ t \in Task /\ task \in [Handlers -> Task] /\ t.pc = "blocks"
      /\ overrun \in [Handlers -> Nat] /\ n \in Nat
  BY DEF TypeOK, BlockDone
<1>1. PICK b \in t.todo : task' = [task EXCEPT ![h] = AfterBlock(@, b)]
  BY DEF BlockDone
<1>2. /\ isFastRescanActive' = isFastRescanActive
      /\ overrun' = IF isFastRescanActive THEN overrun ELSE [overrun EXCEPT ![h] = @ + 1]
  BY DEF BlockDone, flags
<1>3. /\ isFastRescanActive => n = 0
      /\ IsFiniteSet(t.todo) /\ n + Cardinality(t.todo) <= t.size
  BY <1>0 DEF HeedInv, Heeds, OfFast
<1>4. PICK d \in Task : d = [t EXCEPT !.todo = @ \ {b}, !.seen = @ \cup {b}]
  BY <1>0, <1>1 DEF Task
<1>5. d.pc = "blocks" /\ d.size = t.size /\ d.todo = t.todo \ {b}
  BY <1>0, <1>4 DEF Task
<1>6. /\ IsFiniteSet(d.todo) /\ Cardinality(d.todo) \in Nat
      /\ Cardinality(d.todo) = Cardinality(t.todo) - 1 /\ Cardinality(t.todo) \in Nat
  BY <1>1, <1>3, <1>5, FS_RemoveElement, FS_CardinalityType
<1>7. t.size \in Nat
  BY <1>0 DEF Task
<1>8. Heeds(task'[h], overrun'[h], isFastRescanActive')
  <2>1. task'[h] = AfterBlock(t, b)
    BY <1>0, <1>1
  <2>2. CASE d.todo # {}
    <3>1. task'[h] = d
      BY <1>4, <2>1, <2>2 DEF AfterBlock
    <3>2. overrun'[h] = IF isFastRescanActive THEN n ELSE n + 1
      BY <1>0, <1>2
    <3>3. overrun'[h] + Cardinality(d.todo) <= d.size
      BY <1>0, <1>3, <1>5, <1>6, <1>7, <3>2
    <3>4. QED
      BY <1>2, <1>3, <1>5, <1>6, <2>2, <3>1, <3>2, <3>3 DEF Heeds
  <2>3. CASE d.todo = {} /\ isFastRescanActive
    <3>1. task'[h] = [d EXCEPT !.pc = "page", !.page = @ + 1]
      BY <1>4, <2>1, <2>3 DEF AfterBlock
    <3>2. task'[h].pc = "page" /\ overrun'[h] = 0
      BY <1>2, <1>3, <2>3, <3>1 DEF Task
    <3>3. QED
      BY <3>2 DEF Heeds
  <2>4. CASE d.todo = {} /\ ~isFastRescanActive
    <3>1. task'[h] = Idle
      BY <1>4, <2>1, <2>4 DEF AfterBlock
    <3>2. QED
      BY <3>1 DEF Heeds, Idle, OfFast
  <2>5. QED
    BY <2>2, <2>3, <2>4
<1>9. ASSUME NEW g \in Handlers \ {h} PROVE Heeds(task'[g], overrun'[g], isFastRescanActive')
  BY <1>0, <1>1, <1>2 DEF HeedInv, Heeds
<1>10. QED
  BY <1>8, <1>9 DEF HeedInv

LEMMA NextHeedInv ==
  ASSUME TypeOK, HeedInv, [Next]_vars PROVE HeedInv'
<1> USE DEF flags, pool, ghost
<1>0. task \in [Handlers -> Task]
  BY DEF TypeOK
<1>1. CASE IndexGrows \/ StopFastRescan \/ UNCHANGED vars
  BY <1>1 DEF IndexGrows, StopFastRescan, vars, HeedInv, Heeds
<1>2. ASSUME NEW h \in Handlers, StartFastRescan(h) PROVE HeedInv'
  <2>1. CASE \E from, to \in Blocks, size \in PageSizes :
               task' = [task EXCEPT ![h] = FirstPage(from, to, size)]
             /\ overrun' = [g \in Handlers |-> 0]
    <3>1. ~isFastRescanActive /\ task'[h].pc = "page"
          /\ \A g \in Handlers \ {h} : task'[g] = task[g]
      BY <1>0, <1>2, <2>1 DEF StartFastRescan, FirstPage, Idle
    <3>2. Heeds(task'[h], overrun'[h], isFastRescanActive')
      BY <2>1, <3>1 DEF Heeds
    <3>3. ASSUME NEW g \in Handlers \ {h} PROVE Heeds(task'[g], overrun'[g], isFastRescanActive')
      <4>1. task'[g] = task[g] /\ overrun'[g] = 0 /\ overrun[g] \in Nat /\ task[g] \in Task
        BY <2>1, <3>1 DEF TypeOK
      <4>2. Heeds(task[g], overrun[g], isFastRescanActive)
        BY DEF HeedInv
      <4>3. CASE task[g].pc = "blocks"
        <5>1. /\ task[g].todo # {} /\ IsFiniteSet(task[g].todo)
              /\ overrun[g] + Cardinality(task[g].todo) <= task[g].size
          BY <4>2, <4>3 DEF Heeds, OfFast
        <5>2. Cardinality(task[g].todo) \in Nat /\ task[g].size \in Nat
          BY <4>1, <5>1, FS_CardinalityType DEF Task
        <5>3. 0 + Cardinality(task[g].todo) <= task[g].size
          BY <4>1, <5>1, <5>2
        <5>4. QED
          BY <4>1, <4>3, <5>1, <5>3 DEF Heeds
      <4>4. CASE task[g].pc # "blocks"
        BY <4>1, <4>4 DEF Heeds
      <4>5. QED
        BY <4>3, <4>4
    <3>4. QED
      BY <3>2, <3>3 DEF HeedInv
  <2>2. CASE Throw(h) /\ UNCHANGED <<isFastRescanActive, overrun>>
    <3>1. task'[h].pc = "idle" /\ \A g \in Handlers \ {h} : task'[g] = task[g]
      BY <1>0, <2>2 DEF Throw, Idle
    <3>2. QED
      BY <2>2, <3>1, HeedFrame DEF OfFast
  <2>3. QED
    <3>1. PICK form \in Payloads :
            IF Parses(form)
            THEN /\ \E from, to \in Blocks, size \in PageSizes :
                      task' = [task EXCEPT ![h] = FirstPage(from, to, size)]
                 /\ isFastRescanActive' = TRUE
                 /\ overrun' = [g \in Handlers |-> 0]
            ELSE /\ Throw(h)
                 /\ UNCHANGED <<isFastRescanActive, overrun>>
      BY <1>2, Zenon DEF StartFastRescan
    <3>2. CASE Parses(form)
      BY <2>1, <3>1, <3>2
    <3>3. CASE ~Parses(form)
      BY <2>2, <3>1, <3>3
    <3>4. QED
      BY <3>2, <3>3
<1>3. ASSUME NEW h \in Handlers, PageArrives(h) PROVE HeedInv'
  <2>1. overrun' = overrun /\ task[h] \in Task /\ task[h].pc = "page"
        /\ \A g \in Handlers \ {h} : task'[g] = task[g]
    BY <1>0, <1>3 DEF PageArrives
  <2>2. CASE PageOf(task[h]) = {}
    <3>1. task'[h].pc = "finished" /\ isFastRescanActive' = FALSE
      BY <1>0, <1>3, <2>2 DEF PageArrives, Task
    <3>2. QED
      BY <2>1, <3>1, HeedFrame DEF OfFast
  <2>3. CASE PageOf(task[h]) # {}
    <3>1. /\ task'[h].pc = "blocks" /\ task'[h].todo = PageOf(task[h])
          /\ task'[h].size = task[h].size
      BY <1>0, <1>3, <2>1, <2>3 DEF PageArrives, Task
    <3>2. isFastRescanActive' = isFastRescanActive
      BY <1>3, <2>3 DEF PageArrives
    <3>3. overrun[h] = 0
      BY <2>1 DEF HeedInv, Heeds, OfFast
    <3>4. IsFiniteSet(PageOf(task[h])) /\ 0 + Cardinality(PageOf(task[h])) <= task[h].size
      BY <2>1, PageShort
    <3>5. Heeds(task'[h], overrun'[h], isFastRescanActive')
      BY <2>1, <2>3, <3>1, <3>3, <3>4 DEF Heeds
    <3>6. \A g \in Handlers \ {h} : Heeds(task'[g], overrun'[g], isFastRescanActive')
      BY <2>1, <3>2 DEF HeedInv, Heeds
    <3>7. QED
      BY <3>5, <3>6 DEF HeedInv
  <2>4. QED
    BY <2>2, <2>3
<1>4. ASSUME NEW h \in Handlers, BlockDone(h) PROVE HeedInv'
  BY <1>4, BlockDoneHeeds
<1>5. ASSUME NEW h \in Handlers,
             \/ ForceRescan(h) \/ ForcedBlockDone(h) \/ RescanAllCollections(h)
             \/ Connect(h) \/ NextCollection(h) \/ CollectionUpdated(h)
             \/ NextTokens(h) \/ TokensDone(h) \/ CollectionsDone(h) \/ Fail(h)
      PROVE  HeedInv'
  <2>1. /\ overrun' = overrun /\ isFastRescanActive' = isFastRescanActive
        /\ \A g \in Handlers \ {h} : task'[g] = task[g]
    BY <1>0, <1>5
    DEF ForceRescan, ForcedBlockDone, RescanAllCollections, Connect, NextCollection,
        CollectionUpdated, NextTokens, TokensDone, CollectionsDone, Fail,
        ForcedBlockFails, FastRescanFails, CursorFails, Throw
  <2>2. task'[h].pc \notin OfFast
    <3>1. Idle.pc = "idle"
      BY DEF Idle
    <3>2. CASE ForceRescan(h)
      <4>1. PICK blocks \in BlockLists :
              task' = [task EXCEPT ![h] =
                IF blocks = {} THEN Idle ELSE [Idle EXCEPT !.pc = "force", !.todo = blocks]]
        BY <3>2 DEF ForceRescan
      <4>2. QED
        BY <1>0, <4>1 DEF Idle, OfFast
    <3>3. CASE ForcedBlockDone(h)
      BY <1>0, <3>1, <3>3 DEF ForcedBlockDone, AfterForced, Task, OfFast
    <3>4. CASE \/ RescanAllCollections(h) \/ Connect(h) \/ NextCollection(h)
               \/ CollectionUpdated(h) \/ NextTokens(h) \/ TokensDone(h)
      BY <1>0, <3>4
      DEF RescanAllCollections, Connect, NextCollection, CollectionUpdated, NextTokens,
          TokensDone, Idle, Task, OfFast
    <3>5. CASE CollectionsDone(h) \/ Fail(h)
      BY <1>0, <3>1, <3>5
      DEF CollectionsDone, Fail, ForcedBlockFails, FastRescanFails, CursorFails, Throw, OfFast
    <3>6. QED
      BY <1>5, <3>2, <3>3, <3>4, <3>5
  <2>3. QED
    BY <2>1, <2>2, HeedFrame
<1>6. QED
  BY <1>1, <1>2, <1>3, <1>4, <1>5 DEF Next, Notified, Continue

\* stop_fast_rescan, and the end of any other fast rescan, stop every loop that
\* runs before it has done another page of blocks, however rescans are started
\* and stopped while it is inside one.
THEOREM StopIsHeeded == Spec => []StopHeeded
<1>1. Init => HeedInv
  BY DEF Init, HeedInv, Heeds, Idle, OfFast
<1>2. TypeOK /\ HeedInv /\ [Next]_vars => HeedInv'
  BY NextHeedInv
<1>3. TypeOK /\ HeedInv => StopHeeded
  <2> SUFFICES ASSUME TypeOK, HeedInv, NEW h \in Running(OfFast)
               PROVE  overrun[h] = 0 \/ overrun[h] < task[h].size
    BY DEF StopHeeded
  <2>1. h \in Handlers /\ task[h].pc \in OfFast /\ overrun[h] \in Nat /\ task[h].size \in Nat
    BY DEF Running, TypeOK, Task
  <2>2. CASE task[h].pc = "page"
    BY <2>1, <2>2 DEF HeedInv, Heeds
  <2>3. CASE task[h].pc = "blocks"
    <3>1. /\ task[h].todo # {} /\ IsFiniteSet(task[h].todo)
          /\ overrun[h] + Cardinality(task[h].todo) <= task[h].size
      BY <2>1, <2>3 DEF HeedInv, Heeds
    <3>2. Cardinality(task[h].todo) \in Nat /\ Cardinality(task[h].todo) # 0
      BY <3>1, FS_CardinalityType, FS_EmptySet
    <3>3. QED
      BY <2>1, <3>1, <3>2
  <2>4. QED
    BY <2>1, <2>2, <2>3 DEF OfFast
<1>4. TypeOK /\ [Next]_vars => TypeOK'
  BY NextTypeOK
<1>5. QED
  BY <1>1, <1>2, <1>3, <1>4, InitTypeOK, PTL DEF Spec
=============================================================================
