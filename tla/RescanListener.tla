--------------------------- MODULE RescanListener ---------------------------
(***************************************************************************)
(* PgEventsListener: an operator starts and stops rescans with Postgres    *)
(* notifications.  Every notification runs its handler at once, whatever   *)
(* other handlers are suspended; they share two flags and the pool of      *)
(* Postgres clients, of which the listener keeps one for itself.  What     *)
(* processBlockByNumber and the collection and token services do to the    *)
(* tables is not visible here.                                             *)
(***************************************************************************)
EXTENDS Naturals, Sequences, FiniteSets

CONSTANTS
  Handlers,     \* the handlers that may run at the same time
  MaxBlock,
  Payloads,     \* forms of the payloads of start_fast_rescan
  PageSizes,    \* page sizes in the payloads of start_fast_rescan
  BlockLists,   \* the blocks in the payloads of force_rescan_block
  Collections,  \* the collections in the table, in order of their ids
  MaxBatches,   \* bound: batches of ten tokens in a collection
  PoolSize,     \* clients of the pool, 10 by default
  MayFail       \* TRUE: queries and RPC calls may fail

Blocks == 1..MaxBlock

Forms == {"from", "from-to", "from-to-size", "from-to/sections",
          "from-to-size/sections"}

ASSUME ListenerAssumption ==
  /\ IsFiniteSet(Handlers)
  /\ MaxBlock \in Nat
  /\ Payloads \subseteq Forms
  /\ PageSizes \subseteq Nat
  /\ BlockLists \subseteq SUBSET Blocks
  /\ Collections \in Seq(Nat)
  /\ MaxBatches \in Nat
  /\ PoolSize \in Nat \ {0}
  /\ MayFail \in BOOLEAN

VARIABLES
  indexed,   \* blocks with rows in harvester_events of the asked sections
  isFastRescanActive,
  isCollectionRescanActive,
  free,      \* clients of the pool that nobody holds
  queue,     \* handlers waiting for a client, first come first served
  task,      \* where each handler is suspended
  leaked,    \* clients that nobody holds and nobody released
  abandoned, \* a fast rescan has failed since the flag was last cleared by an operator
  overrun    \* how many blocks each fast rescan has done since the flag was cleared

flags == <<isFastRescanActive, isCollectionRescanActive>>
pool  == <<free, queue>>
ghost == <<leaked, abandoned, overrun>>
vars  == <<indexed, flags, pool, task, ghost>>

(***************************************************************************)
(* The suspended handlers.  pc names the await: "force" and "blocks" are   *)
(* processBlockByNumber, "page" getNextBlocks, "outer" and "inner" the     *)
(* pool.connect of rescanAllCollections and of rescanCollection, "cursor"  *)
(* and "tokens" reads of their cursors, "update" updateWithoutBlock.       *)
(* due are the indexed blocks of the range when the rescan was started.    *)
(***************************************************************************)
OfFast        == {"page", "blocks"}
OfCollections == {"outer", "cursor", "update", "inner", "tokens"}
HoldsOuter    == {"cursor", "update", "inner", "tokens"}
HoldsInner    == {"tokens"}
Resting       == {"idle", "finished"}
Places        == OfFast \cup OfCollections \cup Resting \cup {"force"}

Task == {t \in [pc : Places, from : Nat, to : Nat, size : Nat, page : Nat,
                todo : SUBSET Blocks, due : SUBSET Blocks, seen : SUBSET Blocks,
                collections : Seq(Nat), batches : Nat] :
           t.pc \in {"update", "inner", "tokens"} => t.collections # <<>>}

Idle == [pc |-> "idle", from |-> 1, to |-> 1, size |-> 0, page |-> 0,
         todo |-> {}, due |-> {}, seen |-> {}, collections |-> <<>>,
         batches |-> 0]

Running(places) == {h \in Handlers : task[h].pc \in places}

InRange(from, to) == {b \in indexed : from <= b /\ b <= to}

\* The handler's promise rejects; it holds on to everything it has.
Throw(h) == task' = [task EXCEPT ![h] = Idle]

\* The scan loop writes the events of a block.
IndexGrows ==
  /\ \E b \in Blocks \ indexed : indexed' = indexed \cup {b}
  /\ UNCHANGED <<flags, pool, task, ghost>>

-----------------------------------------------------------------------------
(***************************************************************************)
(* force_rescan_block: blocks one after the other, up to the first error.  *)
(***************************************************************************)
ForceRescan(h) ==
  /\ task[h].pc \in Resting
  /\ \E blocks \in BlockLists :
       task' = [task EXCEPT ![h] =
         IF blocks = {} THEN Idle ELSE [Idle EXCEPT !.pc = "force", !.todo = blocks]]
  /\ UNCHANGED <<indexed, flags, pool, ghost>>

\* The order of the list makes no difference here.
AfterForced(t, b) ==
  IF t.todo = {b} THEN Idle ELSE [t EXCEPT !.todo = @ \ {b}]

ForcedBlockDone(h) ==
  /\ task[h].pc = "force"
  /\ \E b \in task[h].todo : task' = [task EXCEPT ![h] = AfterForced(@, b)]
  /\ UNCHANGED <<indexed, flags, pool, ghost>>

ForcedBlockFails(h) ==
  /\ MayFail
  /\ task[h].pc = "force"
  /\ Throw(h)
  /\ UNCHANGED <<indexed, flags, pool, ghost>>

-----------------------------------------------------------------------------
(***************************************************************************)
(* start_fast_rescan and stop_fast_rescan.                                 *)
(***************************************************************************)
\* parseBlockRangePayload throws without a "-", and without a "/".
Parses(form) == form \in {"from-to/sections", "from-to-size/sections"}

\* Variant: the first page is page 1.
FirstPageOne(from, to, size) ==
  [Idle EXCEPT !.pc = "page", !.from = from, !.to = to, !.size = size,
               !.page = 1, !.due = InRange(from, to)]

FirstPage(from, to, size) ==
  [Idle EXCEPT !.pc = "page", !.from = from, !.to = to, !.size = size,
               !.due = InRange(from, to)]

\* While the flag is set the notification is only logged.
StartFastRescan(h) ==
  /\ task[h].pc \in Resting
  /\ ~isFastRescanActive
  /\ \E form \in Payloads :
       IF Parses(form)
       THEN /\ \E from, to \in Blocks, size \in PageSizes :
                 task' = [task EXCEPT ![h] = FirstPage(from, to, size)]
            /\ isFastRescanActive' = TRUE
            /\ overrun' = [g \in Handlers |-> 0]
       ELSE /\ Throw(h)
            /\ UNCHANGED <<isFastRescanActive, overrun>>
  /\ UNCHANGED <<indexed, isCollectionRescanActive, pool, leaked, abandoned>>

\* SELECT distinct "blockId" .. ORDER BY "blockId" OFFSET .. LIMIT ..
Position(b, found) == Cardinality({x \in found : x <= b})

PageOf(t) ==
  LET found == InRange(t.from, t.to)
  IN  {b \in found : /\ Position(b, found) > t.page * t.size
                     /\ Position(b, found) <= (t.page + 1) * t.size}

\* Variant: the flag is left set when there is no page any more.
PageArrivesStuck(h) ==
  /\ task[h].pc = "page"
  /\ task' = [task EXCEPT ![h] = IF PageOf(@) = {} THEN [@ EXCEPT !.pc = "finished"]
                                ELSE [@ EXCEPT !.pc = "blocks", !.todo = PageOf(task[h])]]
  /\ UNCHANGED <<indexed, flags, pool, ghost>>

PageArrives(h) ==
  /\ task[h].pc = "page"
  /\ IF PageOf(task[h]) = {}
     THEN /\ isFastRescanActive' = FALSE
          /\ task' = [task EXCEPT ![h].pc = "finished"]
     ELSE /\ task' = [task EXCEPT ![h].pc = "blocks", ![h].todo = PageOf(task[h])]
          /\ UNCHANGED isFastRescanActive
  /\ UNCHANGED <<indexed, isCollectionRescanActive, pool, ghost>>

\* Variant: the flag is not looked at between two pages.
AfterBlockHeedless(t, b) ==
  LET done == [t EXCEPT !.todo = @ \ {b}, !.seen = @ \cup {b}]
  IN  IF done.todo # {} THEN done
      ELSE [done EXCEPT !.pc = "page", !.page = @ + 1]

\* What becomes of the rescan when block b of the page is done; after the last
\* block of a page the flag decides.
AfterBlock(t, b) ==
  LET done == [t EXCEPT !.todo = @ \ {b}, !.seen = @ \cup {b}]
  IN  IF done.todo # {} THEN done
      ELSE IF isFastRescanActive THEN [done EXCEPT !.pc = "page", !.page = @ + 1]
      ELSE Idle

BlockDone(h) ==
  /\ task[h].pc = "blocks"
  /\ \E b \in task[h].todo :
       /\ \A x \in task[h].todo : b <= x
       /\ task' = [task EXCEPT ![h] = AfterBlock(@, b)]
  /\ overrun' = IF isFastRescanActive THEN overrun ELSE [overrun EXCEPT ![h] = @ + 1]
  /\ UNCHANGED <<indexed, flags, pool, leaked, abandoned>>

FastRescanFails(h) ==
  /\ MayFail
  /\ task[h].pc \in OfFast
  /\ Throw(h)
  /\ abandoned' = TRUE
  /\ UNCHANGED <<indexed, flags, pool, leaked, overrun>>

StopFastRescan ==
  /\ isFastRescanActive' = FALSE
  /\ abandoned' = FALSE
  /\ UNCHANGED <<indexed, isCollectionRescanActive, pool, task, leaked, overrun>>

-----------------------------------------------------------------------------
(***************************************************************************)
(* rescan_all_collection.                                                  *)
(***************************************************************************)
\* Nothing sets isCollectionRescanActive before the rescan.
RescanAllCollections(h) ==
  /\ task[h].pc \in Resting
  /\ ~isCollectionRescanActive
  /\ task' = [task EXCEPT ![h] = [Idle EXCEPT !.pc = "outer"]]
  /\ queue' = Append(queue, h)
  /\ UNCHANGED <<indexed, flags, free, ghost>>

\* pool.connect hands a client to the first handler that waits for one.
Connect(h) ==
  /\ free > 0
  /\ queue # <<>>
  /\ h = Head(queue)
  /\ free' = free - 1
  /\ queue' = Tail(queue)
  /\ \/ /\ task[h].pc = "outer"
        /\ task' = [task EXCEPT ![h].pc = "cursor", ![h].collections = Collections]
     \/ /\ task[h].pc = "inner"
        /\ \E n \in 0..MaxBatches :
             task' = [task EXCEPT ![h].pc = "tokens", ![h].batches = n]
  /\ UNCHANGED <<indexed, flags, ghost>>

\* Variant: an empty read of the cursor does not end the loop.
NextCollectionUnguarded(h) ==
  /\ task[h].pc = "cursor"
  /\ task' = [task EXCEPT ![h].pc = "update"]
  /\ UNCHANGED <<indexed, flags, pool, ghost>>

NextCollection(h) ==
  /\ task[h].pc = "cursor"
  /\ task[h].collections # <<>>
  /\ task' = [task EXCEPT ![h].pc = "update"]
  /\ UNCHANGED <<indexed, flags, pool, ghost>>

\* rescanCollection: whether the update succeeds or not, a client is wanted.
CollectionUpdated(h) ==
  /\ task[h].pc = "update"
  /\ task' = [task EXCEPT ![h].pc = "inner"]
  /\ queue' = Append(queue, h)
  /\ UNCHANGED <<indexed, flags, free, ghost>>

NextTokens(h) ==
  /\ task[h].pc = "tokens"
  /\ task[h].batches > 0
  /\ task' = [task EXCEPT ![h].batches = @ - 1]
  /\ UNCHANGED <<indexed, flags, pool, ghost>>

\* Variant: the client of rescanCollection is not released.
TokensDoneLeaking(h) ==
  /\ task[h].pc = "tokens"
  /\ task[h].batches = 0
  /\ task' = [task EXCEPT ![h].pc = "cursor", ![h].collections = Tail(@)]
  /\ UNCHANGED <<indexed, flags, pool, ghost>>

TokensDone(h) ==
  /\ task[h].pc = "tokens"
  /\ task[h].batches = 0
  /\ free' = free + 1
  /\ task' = [task EXCEPT ![h].pc = "cursor", ![h].collections = Tail(@)]
  /\ UNCHANGED <<indexed, flags, queue, ghost>>

CollectionsDone(h) ==
  /\ task[h].pc = "cursor"
  /\ task[h].collections = <<>>
  /\ isCollectionRescanActive' = FALSE
  /\ free' = free + 1
  /\ Throw(h)
  /\ UNCHANGED <<indexed, isFastRescanActive, queue, ghost>>

\* A cursor fails: nothing releases the clients of the handler.
CursorFails(h) ==
  /\ MayFail
  /\ task[h].pc \in {"cursor", "tokens"}
  /\ Throw(h)
  /\ leaked' = leaked + (IF task[h].pc \in HoldsInner THEN 2 ELSE 1)
  /\ UNCHANGED <<indexed, flags, pool, abandoned, overrun>>

-----------------------------------------------------------------------------
\* The listener has taken its own client.
Init ==
  /\ indexed \in SUBSET Blocks
  /\ isFastRescanActive = FALSE
  /\ isCollectionRescanActive = FALSE
  /\ free = PoolSize - 1
  /\ queue = <<>>
  /\ task = [h \in Handlers |-> Idle]
  /\ leaked = 0
  /\ abandoned = FALSE
  /\ overrun = [h \in Handlers |-> 0]

Notified(h) == ForceRescan(h) \/ StartFastRescan(h) \/ RescanAllCollections(h)

Continue(h) ==
  \/ ForcedBlockDone(h)
  \/ PageArrives(h)
  \/ BlockDone(h)
  \/ Connect(h)
  \/ NextCollection(h)
  \/ CollectionUpdated(h)
  \/ NextTokens(h)
  \/ TokensDone(h)
  \/ CollectionsDone(h)

Fail(h) == ForcedBlockFails(h) \/ FastRescanFails(h) \/ CursorFails(h)

Next ==
  \/ IndexGrows
  \/ StopFastRescan
  \/ \E h \in Handlers : Notified(h) \/ Continue(h) \/ Fail(h)

Spec == Init /\ [][Next]_vars

\* Queries and calls are answered; nothing is assumed of the notifications.
FairSpec == Spec /\ \A h \in Handlers : WF_vars(Continue(h))

-----------------------------------------------------------------------------
\* The variables hold values of the kinds the code stores in them.
TypeOK ==
  /\ indexed \subseteq Blocks
  /\ isFastRescanActive \in BOOLEAN
  /\ isCollectionRescanActive \in BOOLEAN
  /\ free \in Nat
  /\ queue \in Seq(Handlers)
  /\ task \in [Handlers -> Task]
  /\ leaked \in Nat
  /\ abandoned \in BOOLEAN
  /\ overrun \in [Handlers -> Nat]

\* 'Fast rescan finished because no more blocks to rescan' is true: paging by
\* OFFSET over a table that the scan fills misses no block that was there when
\* the rescan was started.
FastRescanComplete ==
  \A h \in Handlers : task[h].pc = "finished" => task[h].due \subseteq task[h].seen

\* stop_fast_rescan is heeded by every loop that runs, also by one that an
\* earlier stop and start have left behind and by one that another loop stops
\* at its end: a loop that goes on has done less than one page since.
StopHeeded ==
  \A h \in Running(OfFast) : overrun[h] = 0 \/ overrun[h] < task[h].size

\* Enough clients are lost for the handlers to wait for each other for ever.
Drained == leaked + Cardinality(Handlers) >= PoolSize - 1

\* Handlers that wait for a client, also for a second one while they hold one,
\* get it: the pool stands as many failed cursors as it has clients to spare.
PoolAlive ==
  Running({"outer", "inner"}) # {} =>
    free > 0 \/ Running({"cursor", "update", "tokens"}) # {} \/ Drained

\* A rescan of all collections ends, however many run at the same time, unless
\* failed cursors have drained the pool.
CollectionsEnd ==
  \A h \in Handlers : (task[h].pc \in OfCollections) ~> (task[h].pc = "idle" \/ Drained)

\* 'Fast rescan is already active' is only said when one is, or one has failed
\* and nobody has sent stop_fast_rescan since.
ActiveIsRunning == isFastRescanActive => Running(OfFast) # {} \/ abandoned
=============================================================================
