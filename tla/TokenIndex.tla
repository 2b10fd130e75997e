----------------------------- MODULE TokenIndex -----------------------------
(***************************************************************************)
(* EventService.process for the collection and token events of one block   *)
(* after the other: CollectionService.batchProcess, then                   *)
(* TokenService.batchProcess, whose events are handled at the same time,   *)
(* every query an await.  Writes of the tables tokens and collections are  *)
(* READ COMMITTED transactions that end with the triggers of StatTriggers. *)
(* Tokens are NFTs.  Chunks are not told apart: a worker that is done may  *)
(* take the next event at once, which only adds interleavings.             *)
(***************************************************************************)
EXTENDS StatTriggers

CONSTANTS
  Workers,      \* events handled at the same time, 50 and 100 by default
  NoAddress,    \* the data of an event without an address
  MaxBlocks,    \* bound: blocks
  MaxEvents,    \* bound: chain operations in each block
  Rescanners,   \* the workers that run rescanTokens at the block before
  Foreign,      \* owners whose address the chain writes with a prefix of its own
  MayFail,      \* tokens whose events may be rejected: a query or a call fails
  ReadsHead     \* tokens whose reads at a block may fail: the head is read then

ASSUME IndexAssumption ==
  /\ IsFiniteSet(Tokens)
  /\ IsFiniteSet(Collections)
  /\ Tokens # {}
  /\ Of \in [Tokens -> Collections]
  /\ Owners # {}
  /\ NoAddress \notin Owners
  /\ MaxBlocks \in Nat
  /\ MaxEvents \in [1..MaxBlocks -> Nat]
  /\ Rescanners \subseteq Workers
  /\ Foreign \subseteq Owners
  /\ MayFail \subseteq Tokens
  /\ ReadsHead \subseteq Tokens

VARIABLES
  chain,        \* the tokens at the block that is handled
  before,       \* the tokens at the block before
  chainCollections,  \* the collections at the block that is handled
  height,       \* blocks handled or being handled
  size,         \* chain operations in the block so far
  head,         \* what reads of the head have shown: no later block undoes it
  ahead,        \* ghost: tokens one of whose last events was answered by the head
  early,        \* ghost: tokens burned by such an answer before their block
  phase,        \* "chain" while the block is made, then which batch runs
  events,       \* token events of the block not taken yet
  collectionEvents,
  leftover,     \* addresses that `data` of batchProcess may still hold
  tokens,       \* table tokens
  tokens_owners,
  collections,  \* table collections
  collections_stats,
  total,        \* table total, names collections and tokens
  task,         \* where each worker is suspended
  failed        \* ghost: tokens one of whose events was rejected

blocks  == <<chain, before, chainCollections, height, size>>
beyond  == <<head, ahead, early>>
onChain == <<chain, before, chainCollections, height, size, head, ahead, early>>
pending == <<phase, events, collectionEvents, leftover>>
tables  == <<tokens, tokens_owners, collections, collections_stats, total>>
vars    == <<onChain, pending, tables, task, failed>>

CollectionStatus == {"absent", "live", "burned"}

Kinds == {"destroyed", "created", "transfer", "property"}

Event == [token : Tokens, kind : Kinds, address : Owners \cup {NoAddress}]

\* pc names the await.  "inserting", "updating" and "burning" are open
\* transactions: the row is locked, the holders trigger has read the table.
TokenPlaces  == {"owners", "owner", "find", "insert", "inserting", "update",
                 "updating", "part", "burn", "burning"}
Writing      == {"inserting", "updating", "burning"}
OtherPlaces  == {"idle", "save", "destroy"}

Task == [pc : TokenPlaces \cup OtherPlaces, token : Tokens, row : Row,
         address : Owners \cup {NoAddress}, delta : {-1, 0, 1},
         collection : Collections, burned : BOOLEAN,
         todo : SUBSET {"collections", "tokens"}]

Absent == [status |-> "absent", owner |-> CHOOSE o \in Owners : TRUE]

Idle == [pc |-> "idle", token |-> CHOOSE t \in Tokens : TRUE, row |-> Absent,
         address |-> NoAddress, delta |-> 0,
         collection |-> CHOOSE c \in Collections : TRUE, burned |-> FALSE,
         todo |-> {}]

\* Variant: a block waits for the rescans too.
QuietAll == \A w \in Workers : task[w].pc = "idle"

\* batchProcess waits for its own events, not for a rescan.
Quiet == \A w \in Workers \ Rescanners : task[w].pc = "idle"

Locked(t) == \E w \in Workers : task[w].pc \in Writing /\ task[w].token = t

LiveCount == Cardinality(Statuses(tokens, "live"))

-----------------------------------------------------------------------------
(***************************************************************************)
(* A block is made on the chain.                                           *)
(***************************************************************************)
\* A token is minted once and destroyed once; what it has become, it stays.
Later(s) == CASE s = "absent" -> {"absent", "live", "burned"}
              [] s = "live"   -> {"live", "burned"}
              [] s = "burned" -> {"burned"}

AtLeast(shown, s) == IF shown \in Later(s) THEN shown ELSE s

\* Variant: of two events with the same name the last is kept.
GrowKeepLast(t, row, kind, address) ==
  /\ phase = "chain"
  /\ height < MaxBlocks
  /\ size < MaxEvents[height + 1]
  /\ chainCollections[Of[t]] = "live"
  /\ chain' = [chain EXCEPT ![t] = row]
  /\ size' = size + 1
  /\ LET event == [token |-> t, kind |-> kind, address |-> address]
     IN  events' = {e \in events : e.token # t \/ e.kind # kind} \cup {event}
  /\ leftover' = IF kind = "property" THEN leftover ELSE leftover \cup {address}
  /\ head' = [head EXCEPT ![t] = AtLeast(@, row.status)]
  /\ UNCHANGED <<before, chainCollections, height, ahead, early, phase, collectionEvents,
                 tables, task, failed>>

Grow(t, row, kind, address) ==
  /\ phase = "chain"
  /\ height < MaxBlocks
  /\ size < MaxEvents[height + 1]
  /\ chainCollections[Of[t]] = "live"
  /\ chain' = [chain EXCEPT ![t] = row]
  /\ size' = size + 1
  /\ LET event == [token |-> t, kind |-> kind, address |-> address]
     IN  events' = IF \E e \in events : e.token = t /\ e.kind = kind
                   THEN events ELSE events \cup {event}
  /\ leftover' = IF kind = "property" THEN leftover ELSE leftover \cup {address}
  /\ head' = [head EXCEPT ![t] = AtLeast(@, row.status)]
  /\ UNCHANGED <<before, chainCollections, height, ahead, early, phase, collectionEvents,
                 tables, task, failed>>

Mint(t) ==
  /\ chain[t].status = "absent"
  /\ \E o \in Owners : Grow(t, [status |-> "live", owner |-> o], "created", o)

\* Of the events of a token with the same name batchProcess keeps the first.
Transfer(t) ==
  /\ chain[t].status = "live"
  /\ \E o \in Owners \ {chain[t].owner} :
       Grow(t, [chain[t] EXCEPT !.owner = o], "transfer", chain[t].owner)

Burn(t) ==
  /\ chain[t].status = "live"
  /\ Grow(t, [chain[t] EXCEPT !.status = "burned"], "destroyed", chain[t].owner)

SetProperty(t) ==
  /\ chain[t].status = "live"
  /\ Grow(t, chain[t], "property", NoAddress)

\* The tokens of a collection that live, or will: the head has them.
Coming(c) == {t \in Tokens : Of[t] = c /\ chain[t].status = "absent" /\ head[t] # "absent"}

\* A collection is created or changed, or, when it has no tokens, destroyed.
CollectionEvent(c) ==
  /\ phase = "chain"
  /\ height < MaxBlocks
  /\ size < MaxEvents[height + 1]
  /\ \/ /\ chainCollections[c] # "burned"
        /\ chainCollections' = [chainCollections EXCEPT ![c] = "live"]
     \/ /\ chainCollections[c] = "live"
        /\ LiveIn(chain, c) \cup Coming(c) = {}
        /\ chainCollections' = [chainCollections EXCEPT ![c] = "burned"]
  /\ collectionEvents' = collectionEvents \cup {c}
  /\ size' = size + 1
  /\ UNCHANGED <<chain, before, height, beyond, phase, events, leftover, tables, task, failed>>

-----------------------------------------------------------------------------
(***************************************************************************)
(* process: the events are stored, whose triggers count actions and        *)
(* transfers in collections_stats, then one batch follows the other.       *)
(***************************************************************************)
Named == collectionEvents \cup {Of[e.token] : e \in {x \in events : x.kind # "property"}}

\* An event with data reads the token again, whatever was read before.
Renewed(t) ==
  chain[t].status = "live" /\ \E e \in events : e.token = t /\ e.kind # "property"

StoreEvents ==
  /\ phase = "chain"
  /\ size > 0
  /\ phase' = "collections"
  /\ collections_stats' = [c \in Collections |->
       IF c \in Named /\ ~collections_stats[c].exists THEN FreshStats
       ELSE collections_stats[c]]
  /\ ahead' = ahead \ {t \in Tokens : Renewed(t)}
  /\ UNCHANGED <<blocks, head, early, events, collectionEvents, leftover, tokens,
                 tokens_owners, collections, total, task, failed>>

CollectionsProcessed ==
  /\ phase = "collections"
  /\ collectionEvents = {}
  /\ Quiet
  /\ phase' = "tokens"
  /\ UNCHANGED <<onChain, events, collectionEvents, leftover, tables, task, failed>>

BlockProcessed ==
  /\ phase = "tokens"
  /\ events = {}
  /\ Quiet
  /\ phase' = "chain"
  /\ before' = chain
  /\ height' = height + 1
  /\ size' = 0
  /\ leftover' = {}
  /\ UNCHANGED <<chain, chainCollections, beyond, events, collectionEvents, tables, task, failed>>

-----------------------------------------------------------------------------
(***************************************************************************)
(* CollectionService.update and burn.                                      *)
(***************************************************************************)
\* prepareDataForDb reads burned before it builds the row.
TakeCollection(w) ==
  /\ w \notin Rescanners
  /\ phase = "collections"
  /\ task[w].pc = "idle"
  /\ \E c \in collectionEvents :
       /\ collectionEvents' = collectionEvents \ {c}
       /\ task' = [task EXCEPT ![w] =
            IF chainCollections[c] = "burned"
            THEN [Idle EXCEPT !.pc = "destroy", !.collection = c,
                              !.todo = {"collections", "tokens"}]
            ELSE [Idle EXCEPT !.pc = "save", !.collection = c,
                              !.burned = (collections[c] = "burned")]]
  /\ UNCHANGED <<onChain, phase, events, leftover, tables, failed>>

\* upsert, with update_collections_total and delete_collections_stats.
SaveCollection(w) ==
  /\ task[w].pc = "save"
  /\ LET c   == task[w].collection
         new == IF task[w].burned THEN "burned" ELSE "live"
     IN  /\ collections' = [collections EXCEPT ![c] = new]
         /\ total' = [total EXCEPT !.collections =
              CASE collections[c] = "absent" -> @ + 1
                [] collections[c] = "live" /\ task[w].burned -> @ - 1
                [] OTHER -> @]
         /\ collections_stats' = IF collections[c] = "live" /\ task[w].burned
                                 THEN [collections_stats EXCEPT ![c] = NoStats]
                                 ELSE collections_stats
  /\ task' = [task EXCEPT ![w] = Idle]
  /\ UNCHANGED <<onChain, pending, tokens, tokens_owners, failed>>

\* burn issues its two updates at once; allSettled hides that one fails.
AfterBurn(t, statement) ==
  IF t.todo = {statement} THEN Idle ELSE [t EXCEPT !.todo = @ \ {statement}]

BurnCollection(w) ==
  /\ task[w].pc = "destroy"
  /\ "collections" \in task[w].todo
  /\ LET c == task[w].collection
     IN  IF collections[c] = "live"
         THEN /\ collections' = [collections EXCEPT ![c] = "burned"]
              /\ total' = [total EXCEPT !.collections = @ - 1]
              /\ collections_stats' = [collections_stats EXCEPT ![c] = NoStats]
         ELSE UNCHANGED <<collections, total, collections_stats>>
  /\ task' = [task EXCEPT ![w] = AfterBurn(@, "collections")]
  /\ UNCHANGED <<onChain, pending, tokens, tokens_owners, failed>>

BurnItsTokens(w) ==
  /\ task[w].pc = "destroy"
  /\ "tokens" \in task[w].todo
  /\ LET c    == task[w].collection
         live == LiveIn(tokens, c)
     IN  /\ \A t \in Tokens : Of[t] = c => ~Locked(t)
         /\ tokens' = [t \in Tokens |->
              IF t \in live THEN [tokens[t] EXCEPT !.status = "burned"] ELSE tokens[t]]
         /\ total' = [total EXCEPT !.tokens = @ - Cardinality(live)]
         /\ collections_stats' =
              [collections_stats EXCEPT ![c] = BurnStats(@, Cardinality(live))]
  /\ task' = [task EXCEPT ![w] = AfterBurn(@, "tokens")]
  /\ UNCHANGED <<onChain, pending, tokens_owners, collections, failed>>

\* One of the queries of a collection event fails.
CollectionFails(w) ==
  /\ MayFail # {}
  /\ \/ /\ task[w].pc = "save"
        /\ task' = [task EXCEPT ![w] = Idle]
     \/ /\ task[w].pc = "destroy"
        /\ \E s \in task[w].todo : task' = [task EXCEPT ![w] = AfterBurn(@, s)]
  /\ UNCHANGED <<onChain, pending, tables, failed>>

-----------------------------------------------------------------------------
(***************************************************************************)
(* TokenService.update.                                                    *)
(***************************************************************************)
\* Variant: without an address only the owner row is skipped.
BeginUnchecked(t, row, address) ==
  [Idle EXCEPT !.token = t, !.row = row, !.address = address,
     !.pc = IF row.status = "live"
            THEN IF address = NoAddress THEN "find" ELSE "owners"
            ELSE IF address = NoAddress THEN "burn" ELSE "part"]

\* What getTokenData answered decides.  Only data that is not empty has owners
\* to save; without an address to look for, the burn throws.
Begin(t, row, address) ==
  [Idle EXCEPT !.token = t, !.row = row, !.address = address,
     !.pc = IF row.status = "live"
            THEN IF address = NoAddress THEN "find" ELSE "owners"
            ELSE IF address = NoAddress THEN "idle" ELSE "part"]

Rejected(t, row, address) ==
  IF row.status # "live" /\ address = NoAddress THEN {t} ELSE {}

Start(w, t, row, address) ==
  /\ task' = [task EXCEPT ![w] = Begin(t, row, address)]
  /\ failed' = failed \cup Rejected(t, row, address)

\* getTokenData reads the token at the block ..
FromBlock(w, t, row, address) ==
  /\ Start(w, t, row, address)
  /\ UNCHANGED beyond

\* What the head may answer: blocks that are not handled yet, and all that other
\* reads have shown.  Which account owns the token there is left open.
HeadRows(t) ==
  {row \in Row :
     /\ row.status \in Later(head[t])
     /\ row.status # "live" => row.owner = chain[t].owner
     /\ chainCollections[Of[t]] = "burned" => row.status = head[t]}

\* .. and, when that fails, at the head: nothing tells the caller.
FromHead(w, t, address) ==
  /\ t \in ReadsHead
  /\ \E row \in HeadRows(t) :
       /\ Start(w, t, row, address)
       /\ head' = [head EXCEPT ![t] = row.status]
       /\ early' = IF /\ row.status = "burned" /\ chain[t].status = "live"
                     /\ address # NoAddress
                  THEN early \cup {t} ELSE early
  /\ ahead' = ahead \cup {t}

\* The addresses that the data passed to update may hold: `data` is shared by
\* all events, a property event finds the data of an event before it.
DataOf(event) ==
  IF event.kind # "property" THEN {event.address}
  ELSE IF leftover = {} THEN {NoAddress} ELSE leftover

TakeToken(w) ==
  /\ w \notin Rescanners
  /\ phase = "tokens"
  /\ task[w].pc = "idle"
  /\ \E event \in events :
       /\ events' = events \ {event}
       /\ \E address \in DataOf(event) :
            \/ FromBlock(w, event.token, chain[event.token], address)
            \/ FromHead(w, event.token, address)
  /\ UNCHANGED <<blocks, phase, collectionEvents, leftover, tables>>

\* TokenReScanner.rescanTokens at the block before, with empty data.
RescanToken(w) ==
  /\ w \in Rescanners
  /\ task[w].pc = "idle"
  /\ \E t \in Tokens :
       FromBlock(w, t, before[t], NoAddress) \/ FromHead(w, t, NoAddress)
  /\ UNCHANGED <<blocks, pending, tables>>

Move(w, pc) == task' = [task EXCEPT ![w].pc = pc]

Finish(w) == task' = [task EXCEPT ![w] = Idle]

\* saveNFTOwnerToken: delete all owners of the token, then upsert the one.
DeleteOwners(w) ==
  /\ task[w].pc = "owners"
  /\ tokens_owners' = [tokens_owners EXCEPT ![task[w].token] = {}]
  /\ Move(w, "owner")
  /\ UNCHANGED <<onChain, pending, tokens, collections, collections_stats, total, failed>>

SaveOwner(w) ==
  /\ task[w].pc = "owner"
  /\ tokens_owners' = [tokens_owners EXCEPT ![task[w].token] = @ \cup {task[w].row.owner}]
  /\ Move(w, "find")
  /\ UNCHANGED <<onChain, pending, tokens, collections, collections_stats, total, failed>>

\* Variant: no look whether the token exists.
FindTokenBlind(w) ==
  /\ task[w].pc = "find"
  /\ Move(w, "insert")
  /\ UNCHANGED <<onChain, pending, tables, failed>>

\* findOne: the answer is used in a later statement.
FindToken(w) ==
  /\ task[w].pc = "find"
  /\ Move(w, IF tokens[task[w].token].status = "absent" THEN "insert" ELSE "update")
  /\ UNCHANGED <<onChain, pending, tables, failed>>

\* The row is written and the holders trigger reads the table, in which it sees
\* what is committed.
Write(w, pc, delta) ==
  /\ ~Locked(task[w].token)
  /\ task' = [task EXCEPT ![w].pc = pc, ![w].delta = delta]

InsertToken(w) ==
  /\ task[w].pc = "insert"
  /\ LET t == task[w].token
     IN  /\ tokens[t].status = "absent"
         /\ Write(w, "inserting", HoldersOnInsert(tokens, t, task[w].row.owner))
  /\ UNCHANGED <<onChain, pending, tables, failed>>

\* Another event of the token was faster: the unique index rejects the insert.
InsertRefused(w) ==
  /\ task[w].pc = "insert"
  /\ tokens[task[w].token].status # "absent"
  /\ Finish(w)
  /\ UNCHANGED <<onChain, pending, tables, failed>>

UpdateToken(w) ==
  /\ task[w].pc = "update"
  /\ LET t == task[w].token
     IN  Write(w, "updating", HoldersOnUpdate(tokens, t, tokens[t].owner, task[w].row.owner))
  /\ UNCHANGED <<onChain, pending, tables, failed>>

\* burnTokenOwnerPart, findOne and delete of the row that it found: it looks for
\* the normalized address, the row has the owner as the chain writes it.
DropOwner(w) ==
  /\ task[w].pc = "part"
  /\ tokens_owners' = [tokens_owners EXCEPT
       ![task[w].token] = @ \ ({task[w].address} \ Foreign)]
  /\ Move(w, "burn")
  /\ UNCHANGED <<onChain, pending, tokens, collections, collections_stats, total, failed>>

BurnToken(w) ==
  /\ task[w].pc = "burn"
  /\ LET t == task[w].token
     IN  IF tokens[t].status = "absent"
         THEN ~Locked(t) /\ Finish(w)
         ELSE Write(w, "burning", IF tokens[t].status = "live"
                                  THEN HoldersOnBurn(tokens, t, tokens[t].owner) ELSE 0)
  /\ UNCHANGED <<onChain, pending, tables, failed>>

\* The statement commits with what its triggers did.
Commit(w, row, count) ==
  LET t == task[w].token
      c == Of[t]
      held == AddHolders(collections_stats[c], task[w].delta)
  IN  /\ tokens' = [tokens EXCEPT ![t] = row]
      /\ total' = [total EXCEPT !.tokens = @ + count]
      /\ collections_stats' = [collections_stats EXCEPT ![c] =
           IF count = 0 THEN held ELSE AddTokens(held, count)]
      /\ Finish(w)
      /\ UNCHANGED <<onChain, pending, tokens_owners, collections, failed>>

TokenInserted(w) ==
  /\ task[w].pc = "inserting"
  /\ Commit(w, task[w].row, 1)

\* Variant: an update is counted like an insert.
TokenUpdatedCounted(w) ==
  /\ task[w].pc = "updating"
  /\ Commit(w, task[w].row, 1)

\* prepareDataForDb sets burned to false; no trigger counts a token that returns.
TokenUpdated(w) ==
  /\ task[w].pc = "updating"
  /\ Commit(w, task[w].row, 0)

\* Variant: a token burned twice is counted twice.
TokenBurnedTwice(w) ==
  /\ task[w].pc = "burning"
  /\ Commit(w, [tokens[task[w].token] EXCEPT !.status = "burned"], -1)

TokenBurned(w) ==
  /\ task[w].pc = "burning"
  /\ LET old == tokens[task[w].token]
     IN  Commit(w, [old EXCEPT !.status = "burned"],
                IF old.status = "live" THEN -1 ELSE 0)

\* A query or a call fails, the event is rejected and logged.
TokenFails(w) ==
  /\ task[w].pc \in TokenPlaces
  /\ task[w].token \in MayFail
  /\ failed' = failed \cup {task[w].token}
  /\ Finish(w)
  /\ UNCHANGED <<onChain, pending, tables>>

-----------------------------------------------------------------------------
Init ==
  /\ chain = [t \in Tokens |-> Absent]
  /\ before = chain
  /\ chainCollections = [c \in Collections |-> "absent"]
  /\ height = 0
  /\ size = 0
  /\ head = [t \in Tokens |-> "absent"]
  /\ ahead = {}
  /\ early = {}
  /\ phase = "chain"
  /\ events = {}
  /\ collectionEvents = {}
  /\ leftover = {}
  /\ tokens = [t \in Tokens |-> Absent]
  /\ tokens_owners = [t \in Tokens |-> {}]
  /\ collections = [c \in Collections |-> "absent"]
  /\ collections_stats = [c \in Collections |-> NoStats]
  /\ total = [collections |-> 0, tokens |-> 0]
  /\ task = [w \in Workers |-> Idle]
  /\ failed = {}

ChainStep ==
  \/ \E t \in Tokens : Mint(t) \/ Transfer(t) \/ Burn(t) \/ SetProperty(t)
  \/ \E c \in Collections : CollectionEvent(c)

Continue(w) ==
  \/ SaveCollection(w) \/ BurnCollection(w) \/ BurnItsTokens(w)
  \/ DeleteOwners(w) \/ SaveOwner(w) \/ FindToken(w)
  \/ InsertToken(w) \/ InsertRefused(w) \/ UpdateToken(w)
  \/ DropOwner(w) \/ BurnToken(w)
  \/ TokenInserted(w) \/ TokenUpdated(w) \/ TokenBurned(w)

Next ==
  \/ ChainStep
  \/ StoreEvents
  \/ CollectionsProcessed
  \/ BlockProcessed
  \/ \E w \in Workers :
       \/ TakeCollection(w) \/ TakeToken(w) \/ RescanToken(w)
       \/ Continue(w)
       \/ CollectionFails(w) \/ TokenFails(w)

Spec == Init /\ [][Next]_vars

\* Queries are answered and batchProcess goes on; the chain may stop.  A
\* statement that waits for a row gets it in its turn: Postgres queues them.
FairSpec ==
  /\ Spec
  /\ WF_vars(CollectionsProcessed \/ BlockProcessed)
  /\ \A w \in Workers :
       /\ WF_vars(TakeCollection(w) \/ TakeToken(w) \/ Continue(w))
       /\ SF_vars(InsertToken(w) \/ UpdateToken(w) \/ BurnToken(w) \/ BurnItsTokens(w))

-----------------------------------------------------------------------------
\* The variables hold values of the kinds the code stores in them.
TypeOK ==
  /\ chain \in [Tokens -> Row]
  /\ before \in [Tokens -> Row]
  /\ chainCollections \in [Collections -> CollectionStatus]
  /\ height \in Nat
  /\ size \in Nat
  /\ head \in [Tokens -> {"absent", "live", "burned"}]
  /\ ahead \subseteq Tokens
  /\ early \subseteq Tokens
  /\ phase \in {"chain", "collections", "tokens"}
  /\ events \subseteq Event
  /\ collectionEvents \subseteq Collections
  /\ leftover \subseteq Owners
  /\ tokens \in [Tokens -> Row]
  /\ tokens_owners \in [Tokens -> SUBSET Owners]
  /\ collections \in [Collections -> CollectionStatus]
  /\ collections_stats \in [Collections -> Stats]
  /\ total \in [collections : Int, tokens : Int]
  /\ task \in [Workers -> Task]
  /\ failed \subseteq Tokens

Settled == phase = "chain" /\ size = 0 /\ \A w \in Workers : task[w].pc = "idle"

\* Between two blocks the table tokens says what the chain says of every token
\* none of whose events was rejected, although the events of a block are handled
\* in any order and may insert the same row twice.  A row may be ahead of its block
\* when the head answered for it: with a later owner, or burned already.  The next
\* event of the token that has data puts that right.
TokensFollowChain ==
  Settled => \A t \in Tokens \ failed :
    IF chain[t].status # "live" THEN tokens[t].status # "live"
    ELSE IF t \in ahead THEN tokens[t].status = "live" \/ t \in early
    ELSE tokens[t] = chain[t]

\* .. and tokens_owners names its owner and nobody else, although owners are
\* deleted and saved in two statements and a burned token is only known by the
\* addresses in its events.  These name no owner of another prefix, whose row stays.
OwnersFollowChain ==
  Settled => \A t \in Tokens \ (failed \cup ahead) :
    IF chain[t].status = "live" THEN tokens_owners[t] = {chain[t].owner}
    ELSE tokens_owners[t] \subseteq Foreign

\* total counts the rows that are not burned, whatever is in flight.
TotalExact ==
  /\ early = {} => total.tokens = LiveCount
  /\ total.collections = Cardinality({c \in Collections : collections[c] = "live"})

\* collections_stats counts the tokens of every collection that is not burned.
TokensCountExact ==
  \A c \in Collections :
    collections[c] # "burned" /\ (\A t \in early : Of[t] # c) =>
      collections_stats[c].tokens = Cardinality(LiveIn(tokens, c))

\* Without rescans both counters are exact after every statement, until a token
\* is burned before its block: another event may bring it back, uncounted.
CountersExact == TotalExact /\ TokensCountExact

\* .. and its holders: '--Check owner already has token in collection'.
HoldersExact ==
  \A c \in Collections : chainCollections[c] # "burned" =>
    collections_stats[c].holders = Cardinality(HoldersOf(tokens, c))

\* Whatever is rescanned, a row is only there for a token that was minted and
\* only marked burned for a token that was destroyed, both on the chain as far as
\* the head has shown it; before the block that destroys it only an event marks it
\* burned that the head answered, never a rescan.
RowsComeFromChain ==
  \A t \in Tokens :
    /\ tokens[t].status # "absent" => head[t] # "absent"
    /\ tokens[t].status = "burned" =>
         chain[t].status = "burned" \/ (t \in early /\ head[t] = "burned")

\* .. and a token that a rescan brings back is missing in the counters, but
\* none is counted that is not there, nor are the tokens of a burned collection.
CountsNeverHigh ==
  /\ total.tokens <= LiveCount
  /\ \A c \in Collections : collections_stats[c].tokens <= Cardinality(LiveIn(tokens, c))

\* Every block comes to an end, its events handled or rejected.
BlockEnds == phase # "chain" ~> phase = "chain"

-----------------------------------------------------------------------------
(***************************************************************************)
(* Why the counters are exact, when nothing is rescanned: the crawler only *)
(* knows what the chain says, a worker in the middle of an event works on  *)
(* the block that is handled, and a row has one writer.                    *)
(***************************************************************************)
LivePlaces == {"owners", "owner", "find", "insert", "inserting", "update", "updating"}
BurnPlaces == {"part", "burn", "burning"}

ChainKnown ==
  /\ \A t \in Tokens :
       /\ tokens[t].status # "absent" => chain[t].status # "absent"
       /\ tokens[t].status = "burned" => chain[t].status = "burned" \/ t \in early
       /\ chain[t].status = "live" => chainCollections[Of[t]] # "burned"
       /\ head[t] \in Later(chain[t].status)
  /\ \A c \in Collections : collections[c] = "burned" => chainCollections[c] = "burned"

EventsKnown == \A e \in events : chain[e.token].status # "absent"

AtBlock(t) ==
  /\ t.pc \in LivePlaces =>
       /\ phase = "tokens" /\ t.row.status = "live" /\ chain[t.token].status = "live"
       /\ t.token \notin ahead => t.row = chain[t.token]
  /\ t.pc \in BurnPlaces =>
       phase = "tokens" /\ (chain[t.token].status = "burned" \/ t.token \in ahead \cap early)
  /\ t.pc = "save" =>
       phase = "collections" /\ chainCollections[t.collection] # "burned" /\ ~t.burned
  /\ t.pc = "destroy" => phase = "collections" /\ chainCollections[t.collection] = "burned"

RowReady(t) ==
  /\ t.pc = "inserting" => tokens[t.token].status = "absent"
  /\ t.pc \in {"update", "updating", "burning"} => tokens[t.token].status # "absent"

OneWriter ==
  \A v, w \in Workers :
    task[v].pc \in Writing /\ task[w].pc \in Writing /\ task[v].token = task[w].token
      => v = w

\* A row of collections_stats that does not exist counts nothing.
StatsFormed == \A c \in Collections : collections_stats[c].exists \/ collections_stats[c].tokens = 0

\* The inductive invariant of the counters: exact counts and why they stay so.
IndexInv ==
  /\ TypeOK
  /\ ChainKnown
  /\ EventsKnown
  /\ \A w \in Workers : AtBlock(task[w]) /\ RowReady(task[w])
  /\ OneWriter
  /\ StatsFormed
  /\ TotalExact
  /\ TokensCountExact
=============================================================================
