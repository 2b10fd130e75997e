# A formal model of unique-scan-backend

unique-scan-backend reads the blocks of a Unique Network chain into Postgres
(`apps/crawler`) and answers GraphQL queries from there (`apps/web-api`). What
makes it hard is the crawler: one Node.js process in which the scan of new
blocks, forced rescans, the events of a block and rescans of single tokens and
collections are suspended at every `await` and write the same tables, whose triggers
keep counters; a schema that 54 migrations made while rows were there; and an API that
builds its SQL from trees of arguments. This directory holds TLA+ modules of these
parts, TLC configurations that check them on small instances, and TLAPS proofs for
instances of every size.

## The system

Paths are under `src/`; `crawler` stands for `apps/crawler/src`, `web-api` for
`apps/web-api/src`.

| Component | State | Operations | Talks to | What is hard | What makes it correct | Modelled in |
|---|---|---|---|---|---|---|
| Block scanner `crawler/subscribers/blocks.subscriber.service.ts`, its store `processor/harvester-store.service.ts`, `services/block.service.ts` | `blankBlocks`, `spec`, `cutOff`, `lastHandledBlockHash`; tables block, chain, system (status height), harvester_error | `subscribe`, `handleBlock`, `processBlockByNumber`, `upsertHandlerBlock`, the timer | reader of the harvester library, Postgres, SDK; called by the listener | `await`s between reading and resetting the buffer, crash with a full buffer, rescans beside the scan | every block up to the stored height is written or its failure logged; the height never moves back | `BlockScan`, `ScanLog` |
| Listener `crawler/subscribers/pg.events.listener.ts`, `pg.payload.parsers.ts` | `isFastRescanActive`, `isCollectionRescanActive`, clients of the pg pool | `force_rescan_block`, `start_fast_rescan`, `stop_fast_rescan`, `rescan_all_collections`, ... | pg pool, block scanner, token and collection services | handlers are not awaited: any number run side by side; a nested `pool.connect()`; clients leaked on errors | complete rescans, a stop is heeded at the end of a page, no starvation of the pool | `RescanListener` |
| Events `crawler/services/event/event.service.ts` | none | `process` a block: convert, store, then collections, then tokens | the services below | a failed batch is only logged | order of the batches | `TokenIndex`, `Accounts` |
| Tokens `crawler/services/token/token.service.ts`, `subscribers/token.rescaner.ts` | tables tokens, tokens_owners, attributes | `batchProcess`, `update`, `burn`, `rescanTokens` | SDK, nesting service, Postgres | up to 100 events at once, two of the same token among them; a read at the block that fails is answered by the head; insert-or-update in two statements; owners deleted and saved in two statements | tables follow the chain | `TokenIndex`, `Nesting` (NFTs) |
| Nesting `crawler/services/token/nesting.service.ts` | `parent_id`, `children` of tokens and tokens_owners | `handleNesting`, `removeTokenFromParents` | SDK, Postgres | reads of the head; read-filter-write of other tokens' rows; walks along stored parents; swallowed errors | parents follow the chain, children are tokens that were there, walks end unless stored parents lead in a circle | `Nesting` |
| Collections `crawler/services/collection.service.ts` | table collections | `batchProcess`, `update`, `burn` | SDK, Postgres | two updates at once in `burn`, errors hidden by `allSettled` | as tokens | `TokenIndex` |
| Arguments of events `crawler/services/event/event.arguments.service.ts` | none | `eventDataConverter`, one descriptor for each of 44 events | account service | starts account calls nobody waits for; throws on some arguments | every account is handed on | `EventArgs` |
| Accounts `crawler/services/account/account.service.ts`, `services/extrinsic.service.ts`, cache `common/sdk/sdk-cache.decorator.ts` | table account; cache of reads | `processRawAccountRecord`, `upsert` | SDK, cache, Postgres | calls overtake each other; reads of the head cached under keys without a block | rows come to rest and are fresh | `Accounts` |
| Triggers in `migrations/` | tables total, collections_stats, tokens_stats | on every insert and update | - | adjust counters by row transitions inside concurrent transactions | counters count | `StatTriggers`, `TokenIndex`, `Nesting`, `Accounts` |
| Migrations, `common/typeorm.config.ts`, entities `common/entities/` | the schema, triggers and recounted counters | `db:migration:run`, `db:migration:revert` | Postgres | order by name, rows of older releases, reverts that do not restore, one transaction for all | a deploy always succeeds and gives one schema, which serves the code | `Migrations`, `PgSchema`, `Entities`, `ExtrinsicRewrites` |
| Web API `web-api/utils/base.service.ts` and the list services | none | GraphQL arguments to SQL, page and count | Postgres | boolean structure of conditions, joins and distinct rows, two statements for one answer, offsets in a changing table | rows returned are those asked for, none is missed, the count fits | `WebLists` |
| Statistics of the web API `web-api/statisticsV2` | cache of 12 s | `withCache`, time bounds | Postgres | concurrent misses | - | no |
| `services/evm/evm.service.ts`, `subscribers/accounts.subscriber.service.ts` | - | - | - | not called, not started | - | no |
| `common/monitoring`, configuration, resolvers, DTOs, contract upload, e2e scripts | - | - | - | - | - | no: no behaviour to check |

Nothing but Postgres (and, in a rescan, the cache) survives a restart of the crawler.
Postgres runs every statement of the ORM as a READ COMMITTED transaction of its own,
except where the code opens one; a trigger is part of the statement's transaction and
sees only what is committed besides its own writes.

How the modules fit together: `BlockScan` hands a block to `upsertHandlerBlock`, whose
batches `TokenIndex` and `Nesting` take apart event by event and whose conversion of
arguments starts the calls of `Accounts` (which extends `EventArgs`); `RescanListener`
calls the block scanner and the token service; `TokenIndex` extends `StatTriggers`;
`Migrations` extends `Entities`, which extends `PgSchema`, and makes the triggers that
the other modules rely on. `WebLists` reads what all of them write.

## The modules

### ScanLog, BlockScan

`ScanLog` is the promise: a watermark that only rises, over a set of blocks that
are settled (written, or given up with an entry in harvester_error).

`BlockScan` is the process. `task` says where each caller of `handleBlock` is
suspended: the scan loop and each forced rescan. One action is the code between two
`await`s:

| Code | Action |
|---|---|
| `readBlocks` delivers a block, `handleBlock` up to its first `await` | `Deliver`, `RescanBlock(r)` |
| `getSpecLastUpgrade` answered | `SpecArrives` / `SpecFails` |
| `handleBlankBlocks` commits; `this.blankBlocks = []` | `FlushCommits`, `FlushDone` / `FlushFails` |
| events, batches, rows of `upsertHandlerBlock`, its `catch` | `EventsCommit`, `BatchesDone`, `RowCommits`, `UpsertDone` / `UpsertFails` |
| `updateState` | `HeightCommits` / `HeightFails` |
| the timer of `subscribe` and the answer of `getLastBlockHash` | `TimerAsks`, `TimerAnswered`, `TimerFails` |
| end of a finite range; restart of the process and failed start | `EndOfRange`, `Restart`, `StartFails` |

`blankBlocks = []` runs after an `await`: whatever another caller pushed meanwhile is
dropped. The model has this; the ghost `late` takes down a block when it is pushed while
some caller awaits a flush (`Flushing`), so that only these may get lost. A duplicate in
the buffer makes the multi-row upsert fail as in Postgres. A version of the runtime is the
set of upgrades that led to it: `Runs(b)` is the one that runs block b, `SpecAt(b)` what
`getSpecLastUpgrade` answers at the hash of its parent, which names the old version when
the parent is the block of the upgrade. The extraction of events from a block has no
`await` in it and is not a step. Bounds: `MaxBlock` blocks of the kinds `Chains` allows, a
buffer limit of 2 in place of 1000 (the code compares lengths only, and chains of four
blocks reach it), `MaxRescans`, `MaxRestarts`. One restart is enough to lose a buffer and
to start again at the stored height; two rescans, of any two blocks, are enough for one to
push while the other, or the scan, flushes.

| Run | Question and result |
|---|---|
| `scan` | Without rescans, with failures and restarts: `HeightSound` (every block up to the stored height is written or given up), `BufferBound`, `SpecAccurate` (a block is stored with the version that ran it or the one before the latest upgrade, never with a later one), and `WatermarkSpec`: the process implements `ScanLog` |
| `scan_rescan` | With forced rescans beside the scan of a range, and after its end: `HeightCovered` (what the height passes is written, given up, or a blank pushed while a flush was awaited), `HeightNeverBack`, `RescanAccounted` (a rescan reported finished has stored its block, or logged its failure, or buffered it, and it leaves the buffer only by being written or, if it was pushed while a flush was awaited, by the reset after it) |
| `scan_modes` | Under fairness, the two modes of a start as two instances of `BlockScan` in one specification: following every chain of four blocks, `CutOffFlushes` and `HeadNoticed`; over the range 1..3 with a restart, `RangeEnds` (it ends, and then every block is written, given up, or still in the buffer; nobody else pushes) |

### RescanListener

`task[h]` is a notification in flight. Pages of a fast rescan are cut by rank, as
OFFSET and LIMIT cut them from a table that grows (`IndexGrows`). `free` counts the
clients of the pool and `queue` those who wait for one, first come first served as in
node-postgres; a cursor that fails keeps its clients for good (`leaked`). `Payloads` are
forms of payloads, those that the parsers accept and those that throw. A notification
that is refused with a warning changes nothing and is not a step. A crash loses all of
this state and needs no action.

| Run | Question and result |
|---|---|
| `listener` | any query may fail: `FastRescanComplete` (a fast rescan that ends by itself has rescanned all that was indexed at its start), `PoolAlive` (handlers never all wait for clients that only they hold, until failed cursors have drained the pool), `ActiveIsRunning` (the flag is set only while a fast rescan runs, or after one failed and nobody stopped since), `StopHeeded` (once the flag is cleared a loop does fewer blocks than a page, unless a rescan is started meanwhile, whose flag it takes for its own), and under fairness `CollectionsEnd` |

Two handlers are the least that can disturb each other; two blocks and pages of one
or two make up to two pages and a last empty one; `PoolSize` 5 is one client for the
listener, two handlers, one to spare, and one that may leak before the pool is drained.

The default pool has ten clients and nothing limits the rescans: nine rescans of all
collections at a time hold a client each and wait for a second for ever, and every
failed cursor lowers that number.

### StatTriggers, TokenIndex

`StatTriggers` has the triggers on tokens as operators on a table
`[Tokens -> Row]`, in the form the last migration leaves them. `TokenIndex` is
`EventService.process` over blocks the model makes up itself (`Mint`, `Transfer`,
`Burn`, `SetProperty`, `CollectionEvent`: external, any order the chain allows).
A block goes through the phases "collections" and "tokens"; `Workers` are the events
handled at the same time. A write is two steps: `Write` locks the row and the holders
trigger reads the table, `Commit` makes row and counters visible. `total` and the
`tokens` count are relative updates, `SET count = count + 1`, and belong to the
commit. `Rescanners` are workers that run `rescanTokens` at the block before, at any
time; batches do not wait for them.

`getTokenData` reads the token at the block (`FromBlock`) and, when that fails, at the
head, without telling anybody (`FromHead`). `head` is what such reads have shown of each
token so far: later blocks must come true to it, and each further answer is any row that
can still follow (`HeadRows`), with any owner. Two ghosts mark what the head has done:
`ahead`, tokens one of whose last events it answered, until a block has an event that
reads the token again (`Renewed`), and `early`, tokens it burned while their block still had
them. `saveNFTOwnerToken` stores an owner as the chain writes it and `burnTokenOwnerPart`
looks for the normalized address: of `Foreign` owners, whose addresses have another
prefix, `DropOwner` finds no row.

Abstractions: tokens are NFTs (`getRFTBalances` is 0 for them); chunks of
`batchProcess` are not told apart, which only adds interleavings; find and delete of
`burnTokenOwnerPart` are one step; the update that `burn()` of a collection sends to
tokens is one step, as nothing else writes tokens in its phase but rescans, whose locks
it waits for. `failed` is a ghost: tokens one of whose events was rejected, about
which the tables may be wrong until a later event.

| Run | Question and result |
|---|---|
| `token_index` | two concurrent events, three owners, any query about t1 may fail, any read of t2 may be answered by the head: `TokensFollowChain` (but for a row ahead of its block, which has a later owner or is burned already), `OwnersFollowChain` (a burned token leaves at most owners of another prefix), and `CountersExact` (total and the tokens of a collection, after every statement, until a token is burned early) |
| `token_rescans` | two concurrent events of a token and a rescan of the block before, again and again, any of which the head may answer: `RowsComeFromChain` (a row is there only for a token minted by the head, and burned only if it is destroyed at the block or, by an event the head answered, at the head), `CountsNeverHigh`, and `BlockEnds` |
| `holders_race` | violated: two tokens minted for one owner at once are two holders |

Two tokens of one collection, two owners and two workers are the least in which
events of one token, and of two tokens of one owner, interleave. The third owner of
`token_index` is for a token that changes hands twice in a block. Each token has one kind
of trouble, rejected events or answers of the head: what excuses the one would
hide the other. A first block of two operations and a second of three (`TwoThree`) let the
second find what the first has left, and transfer a token twice and burn it;
`token_rescans` has one token, two blocks of two operations and a rescan that reads the
first block while the second is handled.

### Nesting

`head` is where every token is at the head of the chain, `now` where it was at the
block that is handled: `getTokenData` reads the latter, or the head when that read
fails, and bundles and parents are always read at the head. `task[e]` is where the
handling of an event stands; one action is one query or call. `updateTokenParents`
(`UpdateTokenParents`, `UpdateParent`, `UpdateParentOwner`), `unnestBundle`
(`FindParent`, `FilterParent`), `unnestBundleOwners` (`FindParentOwner`,
`FilterParentOwner`) and `removeTokenFromParents` (`GetParentsByChildren`,
`RemoveChildFromToken`) are loops over these. `NestingFails` and `ParentFails` are the
errors that are swallowed, `EventFails` those that reject the event. Three ghosts say
what the properties may expect: `under` (who has ever been in whom), `lost` (a row whose
children were written from an old read) and `rejected`.

| Run | Question and result |
|---|---|
| `nesting` | up to three tokens in a chain or apart with up to three operations, a tree of five with one, in blocks of one or two, the chain ahead of the crawler, one failure: `ParentsFollowChain`, `ChildrenWereNested` (no token gets into children that was not in the token at some block), `BurnedLeavesParents` (a burned token is in no children, but where an update was lost), `StatsCountChildren`, `BatchEnds` (a batch ends, or `unnestBundle` is at a token that is above itself by the stored parents: nothing else holds it up) |

Three tokens are the least with a grandparent, whose children two events write; three
operations move a token, move it again and burn it. Five tokens are the least for
`unnestBundle` to go up a level from a parent that keeps children: the bundle that leaves,
a token in it, the parent, another token in that, and its parent. Blocks of more than two
events, and `nested`, `type` and `bundle_created`, which are written and never read, are
left out.

### EventArgs, Accounts

`EventArgs` is the table of descriptors: for each of the 44 events which argument is
an account, which is taken for what, which parser starts a call for which account, and
which throws. `Accounts` has the two conversions of a block (`ConvertEvents`,
`ConvertExtrinsics`), each of which starts calls; a call (`jobs`) reads the balances at
the head through the cache and upserts the row, whose trigger adds the change to three
rows of total. Amounts are counted in halves of a token, for the trigger adds doubles to
a bigint. Balances change only by Balances, System and Treasury events, and start at
zero.

| Run | Question and result |
|---|---|
| `accounts` | two accounts, any of the 44 events and then a transfer, live and in a rescan, one fault: `HoldersNeverLow`, `SupplyDrift` (off by at most half a token for every write of a fraction, exact while amounts are whole), `FreshUnlessExcused` (when the calls have returned a row is as new as the last block that named the account, unless that call met an earlier one, failed, or read the cache of a rescan), `RowsSettle` |
| `recipients` | violated: the recipient of a transfer is never handed to AccountService |

Two accounts are sender and recipient; two blocks make two calls for one account that
may overtake each other; one fault is a call that fails or a restart.

### PgSchema, Entities, ExtrinsicRewrites, Migrations

`PgSchema` states the rules of Postgres for the statements the migrations use (external): a
database is a catalogue, a few rows of interest and the counters triggers keep, and a
statement that is not valid makes the transaction fail. `Migrations` has one definition for
each of the 54 migrations, its statements up and down; `Entities` has the columns the
code's entities need; `ExtrinsicRewrites` the two migrations that rewrite rows in chunks,
whose loops end for all rows whose addresses decode: on one that does not,
`normalizeSubstrateAddress` throws and every deploy fails (`Converts`; the first release
stored keys and addresses only). A deploy ships one more release, or all (`Jumps`), and
runs what is pending in typeorm's order and one transaction; `Revert` undoes the last; in
between the crawler stores and burns rows, on which the triggers count.

| Run | Question and result |
|---|---|
| `migrations` | `Deployable` (what is pending can always be run, but for 1664975508835 after its revert), `SchemaDetermined` (the catalogue is consistent, is what the migrations that were run make, and the last release has one schema whatever way led there), `SchemaServesCode` (entities and upserts fit it), `CountersExact` (up to what was burned before the triggers knew of burning), `DeployKeepsRows` |

`ExecAll`, `Up`, `BumpAll` and `RunOrder` are recursive functions, so that they can be
reasoned about; the CHOOSE in `Up` is from a set of one, and makes TLC run each migration
once. When several triggers move counters for one row, which comes first is not fixed
(`SetToSeq` in `BumpAll`); Postgres takes them by name.

`MaxWork` 3 allows three rows, or one row and one revert, at any of the 54 releases.
Eight kinds of rows of interest stand for all that counters tell apart. Rows satisfy
foreign keys, and a collection is stored before its tokens and events.

### WebLists

One definition for each of fifteen list services says how it builds its query; the
operators after them follow `base.service.ts` from the argument where over parameters whose
names may clash (`Bound`), orders, distinct_on, joins and limits to a page and a count.
`Conditions` are the places in an argument whose condition holds of a row, and `Sql` says
what a row of conditions means of which some were added with orWhere; `Means` is what the
argument says, entry by entry. Arguments nest: they are the set `Arguments`, and `Depth`
is any number that is greater for an argument than for the members of its lists, so that
`On`, `Means`, `Conditions` and `OrFirst` are recursive functions and can be reasoned about.
A client asks, receives page and
count in two statements, and goes on to the next page, while the crawler writes and
queries fail.

| Run | Question and result |
|---|---|
| `web_lists` | `PageMeansWhere` (a page holds only what every part of the argument lets through, unless an `_or` stands behind something), `PagesComplete` (who reads page after page, ordered by the key, receives every row that was in the list all the time), `CountFits` (count and pages agree when nothing was written between them, up to joined rows and the group of NULL) |

Tables of two rows and a third that may come, change or go, pages of one or two
(`DefaultPageSize` 2 in place of 10), one write. Two rows are enough to tell every
condition from its negation, three to have a second page after a change.

## Fairness

`BlockScan` (`scan_modes`): the scan loop and the timer go on (weak fairness of
`Continue(c)` and of the timer's steps), the reader delivers and the chain grows, as the
event loop of Node.js runs what is ready; restarts and failures owe nothing. Nothing fails
there, for a query that always fails keeps everything from ending and the code has no
retry; the range is restarted once. `RescanListener`: weak fairness of `Continue(h)`;
anything may fail. `TokenIndex` (`token_rescans`): weak fairness of the change of phase and
of each worker; strong fairness of the statements that wait for a row lock, which Postgres
grants in order of arrival, so that a lock that others take again and again is obtained in
the end. `Nesting`: weak fairness of the crawler as a whole, `BatchProcess` or a step of
some event: that alone makes every batch end that does not go round in a circle.
`Accounts`: weak fairness for each account of the steps of its calls; the chain and the
crawler may stop. `Migrations` and `WebLists` have no liveness: people deploy, clients ask.

## What is proved

`*Proofs.tla` extend the modules; the constants keep only the assumptions that the
modules declare (`ScanAssumption`, `ListenerAssumption`, `IndexAssumption`,
`NestingAssumption`, `AccountsAssumption`, `WebAssumption`: finite sets, naturals, non-empty
sets, requests as the GraphQL types admit them).

- `BlockScanProofs`. `ScanTypeCorrect`, `HeightIsCovered`, `HeightIsSound`,
  `HeightOnlyRises`, `RescanIsAccounted`, `ImplementsWatermark`, `BufferIsBounded`,
  `SpecIsAccurate` (without rescans). The argument is `ScanInv`: below the position of the
  scan every block is settled, in the buffer, `late`, or the one in hand, a caller that is
  about to store a height has settled it and flushed the buffer, and while a flush is
  awaited the buffer holds nothing but its batch and what is `late` (`FlushProgress`), so
  that the reset loses nothing else. The height alone is not inductive: it says nothing of
  the buffer that the next flush writes. `SpecInv` adds that since the oldest block in the
  buffer there was no upgrade, so that the version in hand fits all that is flushed: it is
  that of the block or one upgrade behind (`OneBehind`), for the answer at the parent hash
  misses at most the upgrade in the parent (`AnswerFits`), and an upgrade block resets the
  cache.
- `RescanListenerProofs`. `ListenerTypeCorrect`; `PoolStaysAlive` (counting clients: the
  clients that are free, held, or leaked add up to the pool, each handler holds one while it
  waits for a second, so that when nobody works and none is free the pool is drained);
  `FastRescanIsComplete` (the table only grows, wherever in the order, so that the rank of
  a block that was there never falls behind the page); `StopIsHeeded` (by `HeedInv`: what a
  loop has done since the flag was cleared and what is left of its page are no more than a
  page, `PageShort`, and it reads no further page); `ActiveRescanRuns` (the flag is set
  by a start only, and the loop that ends clears it, unless it failed).
- `TokenIndexProofs`. `IndexTypeCorrect`; `CountersAreExact`, for any number of events at
  once, when nothing is rescanned. The counts are not inductive alone: they are kept by
  `IndexInv`, which adds that a worker in the middle of an event works on the block that is
  handled (`AtBlock`), that a row has one writer (`OneWriter`), that what a worker found
  about the row still holds (`RowReady`), that the tables know no more than the chain
  (`ChainKnown`, by which an update finds a burned row only of a token that is `early`),
  and that a missing row of statistics counts nothing (`StatsFormed`). With a rescan
  `AtBlock` fails, as the worker has the row of another block: an update then finds a
  burned row and no trigger counts it (`TokenRescanProofs` says what stays). `TokensFollow`
  (`TokensFollowChain`), without rescans, by `FollowInv`: a row that is not as the chain
  has it, or ahead of it by an answer of the head (`RowFollows`), has an event that waits
  or is being handled (`RowsTold`), and an insert that will be refused finds what it would
  have written (`LateInsert`); `OwnersFollow` (`OwnersFollowChain`), by `OwnersInv`: until
  its events are taken the addresses in them name the owner that the table has
  (`OwnersBefore`), then the table is right, but for owners of another prefix
  (`OwnersRight`), or somebody is still to write it (`OwnersOfLive`, `OwnersOfBurned`), and
  who is about to save the owner finds no other (`OneOwner`).
- `TokenRescanProofs`, with any number of rescans. `RowsAreFromChain`, by `RowsInv`: the
  chain only moves forward (absent, live, burned) and its head is never behind
  (`HeadKnown`), so that what a worker has read of it, at whatever block or at the head,
  never says more than the head has shown (`Justified`); a burn ahead of its block needs an
  address, which a rescan does not have (`Burnable`). `CountsAreNeverHigh`
  (`CountsNeverHigh`), by `CountsInv`: a row is written by one worker at a time, what an
  insert counts was not in the table, and a statement that finds less than it expects
  counts less, never more.
- `NestingProofs`. `TypeCorrect`; `NestedBefore` (`ChildrenWereNested`), by `NestInv`: all
  that an event holds to be written into a children column is of a bundle at some head or
  was in that column before; `ParentsCorrect` (`ParentsFollowChain`), for any number of
  events, blocks ahead and failures, by `ParentInv`: a token whose row is not as the head
  has it has an event in a block that waits or in the one that is handled (`RowsTold`),
  and what an event has read of the token's place is the head's or an event of a later
  block will tell (`TaskTold`). That is why an answer from the head, where the block's was
  asked for, does no harm to parent_id; `StatsCorrect`
  (`StatsCountChildren`, where the start has nothing in a token that is not minted).
  `BurnsCorrect` (`BurnedLeavesParents`, from the same starts as
  `StatsCorrect`), by `BurnInv`: a burn is final and the block that burns has the event
  (`BurnsTold`), nothing is in a bundle before it is minted (`AbsentEmpty`), and neither a
  running event nor a row holds a burned child that nobody will take out
  (`TaskDead`, `TaskClean`, `RowClean`).
- `AccountsProofs`. `TypeCorrect`, which contains that every descriptor names an account
  where an account row is written, for all 44 events; `HoldersLowerBound` (the rows of
  total move with the row in one statement, case by case of `HoldersAfter`);
  `RowsFresh`, by `FreshInv`: the calls that run for an account nobody excuses are all of
  the last block that named it, and what they have read is no older. `SupplyIsBounded`
  (`SupplyDrift`): the supply is the number of half tokens in the table, a set, and each
  write moves the column of totals by the difference rounded, so that it is off by at
  most one half more (`Distance`) when a row changes by a fraction and by no more
  otherwise.

- `WebListsProofs`. `TypeCorrect`; then what conditions mean. A recursive function has the
  value its body gives when the body looks only at members that lie deeper (`Recursion`,
  from the library's recursion over a well-founded order, here that of `Depth`), so that
  `MeansUnfold`, `ConditionsUnfold` and `OrFirstUnfold` open one level of an argument, and
  induction over `Depth` (`DepthInduction`) gives `AllAgree`: for arguments of any nesting
  in which an `_or` comes first, a row satisfies the SQL that is built if and only if it
  satisfies every entry. `WhereMeans` adds the condition of the service. Hence
  `PagesMeanWhere` (`PageMeansWhere`), for all services, tables and requests.
  `PagesAreComplete` (`PagesComplete`), by `PagesInv`: of a row that was in the list all
  the time and was not received yet, as many rows stand before it as the client has passed
  (`ToCome`). An insert only adds to the rows before it, and the page read next has it or
  is full and leaves it behind (`PlaceOfRow`, `NotReceived`). `CountIsOfTheList`
  (`CountFits`), from the same invariant, which says that answer and table agree while
  nothing is written (`AnswerCurrent`), and from the lengths of the results
  (`CountOfResults`).

- `MigrationsProofs`, for any rows, jumps and amount of work. `FilesFacts` reads off the
  54 files that every statement is well formed (`Proper`: a key has columns, a table has
  its key among its columns, an altered column keeps its name, a trigger counts finitely
  many things), that only 1676377784283 deletes rows on the way up, and that twenty files
  (`Additive`) have nothing but statements that add and the generated downs of these.
  `EffectLinked` goes through the statements: one that Postgres accepts keeps the catalogue
  linked (`Linked`). CatalogueSound itself is not inductive: an `add key` needs that the
  table of a unique index exists, hence that an index has columns and that those are
  columns of its table, and a trigger can be counted only if its function is finite. The
  lemmas on `ExecAll`, `Up`, `RunOrder` and `BumpAll` say that these recursive functions
  are what their bodies say (`ExecAllUnfolds` and the like, by the library's well-founded
  induction), so that a property of a statement holds of a transaction (`ExecAllBetter`)
  and of a deploy (`UpBetter`), whatever subset of the files is pending. `CatalogueInv`
  is then kept by every action: `CatalogueIsSound` (the first conjunct of
  SchemaDetermined), `DeploysKeepRows` (`DeployKeepsRows`).
  `SchemaFollowsAdditiveHistory` (SchemaFollowsHistory, where what was reverted is
  additive) is by `HistoryInv`: an empty database on which the same migrations are run has
  the catalogue of the real one (`Mirrors`). Statements read no rows but one, which asks
  for an empty table, so that a database without rows follows the real one
  (`ExecAllMirrored`, `UpMirrored`); deploys add up (`UpJoin`); the converse of a
  statement that adds gives the catalogue back it was run on, for it was linked
  (`Restored`), and a down takes back its up from the last statement to the first
  (`UndoRestores`).

Only model-checked: everything under fairness (TLAPS proves no liveness and no `ENABLED`),
and of `Migrations` what takes running the 54 files rather than reasoning about any of
them: that the statements are valid where they come (`Deployable`), which schema comes
out (OneSchema, `SchemaServesCode`), that the downs of the 28 other files that are not
listed as lossy restore what their ups replaced, and what the triggers of each release
count (`CountersExact`).

## Findings

Two runs each check one statement of the source's own comments, quoted in
PROJECT.json, and find it violated: `holders_race` (a trigger that cannot see uncommitted
rows) and `recipients` (an account nobody hands on).

Known divergences that the models have as the code has them, and that no run is
spent on:

- blocks: a blank block pushed to the buffer while the other caller of `handleBlock` awaits
  the flush of it is thrown away by the reset, and the height moves past it (`late`); after
  an upgrade the spec is asked for at the hash of the upgrade block and is the old one,
  with which all rows are written until the next upgrade or restart (`SpecAt`); the blanks
  at the end of a finite range stay in the buffer and are never written (the third way out
  in `RangeAccounted`); `Rescan for block N finished` is logged for a block that is only
  buffered (likewise in `RescanAccounted`); the same blank block pushed by the scan and by
  a rescan makes the multi-row upsert fail before the buffer is reset, so that every later
  flush fails too (`HasDuplicate`, `FlushFails`);
- listener: a stop followed by a start while the old loop is inside a page leaves two fast
  rescans running, and the one that ends first clears the flag of the other; a fast rescan
  that fails leaves `isFastRescanActive` set until somebody sends `stop_fast_rescan`;
  nothing sets `isCollectionRescanActive`, so that rescans of all collections run side by
  side (`RescanAllCollections` has the guard, and it never bites);
  `parseBlockRangePayload` throws on the forms `1-100` and `1-100-50` that its comment
  gives, for want of a section list (`Parses`); a page size of 0 ends a fast rescan at its
  first page;
- tokens: when the state of a block cannot be read, `getTokenData` answers from the head
  and the row gets a later owner, or is burned, before its time, until the next event of
  the token that has data; another event of a token burned like that writes it live again,
  and no trigger counts it; the row in tokens_owners of an owner whose address has another
  prefix than 42 stays when the token is burned, for it is looked up by the normalized
  address; a rescan of a token at an older block writes a destroyed token live again, and
  no trigger counts it; when a collection is burned with its last tokens, the triggers of
  the tokens insert the row of collections_stats again that the collection's has deleted,
  and count it below zero;
- nesting: of two events of a block that write the children of one row the later undoes the
  other (`lost`); a token that is minted into another never enters its parent's children,
  for only a transfer handles nesting; a token moved directly between tokens stays in the
  children of the first; a token put back to an account stays in the children of its old
  parent when another event of the block has saved its row before (`parent_id` is read from
  that row); `unnestBundle` passes over rows without children, and it can go round for
  ever: of a bundle b with a and d in it, t in a and c in t, a moves to an account and its
  event is rejected, b moves into a, and when t then moves to an account the loop goes a,
  b, a, b, for by the rows each is in the other and neither runs out of children
  (`Circling`); `removeTokenFromParents` leaves tokens_owners alone; `children_count` of a
  row inserted with children is 0 (`StatsCountChildren`);
- accounts: `ReserveRepatriated` throws (BigInt of an account) and its block's events are
  lost while the height moves on; events of collections start no account call; calls are
  started twice for an event; `block_height` and `timestamp` of account rows are always 0;
  holders are counted too high once an account loses one of two balances
  (`HoldersNeverLow` is one-sided); an unhandled rejection ends the process unless Sentry is
  enabled;
- migrations: `nestedrftowners16766184701113` sorts behind all others, so that a fresh
  database runs it last and cannot be reverted (its down is not valid SQL); 1664975508835
  cannot be run again after its revert (it drops a trigger that is not there); fourteen downs
  always fail, three more once there are rows; the reverts in `Lossy` succeed and do not
  restore; 1659414459225 never inserts the rows of total, which 1659610454950 repairs;
  1660024778236 empties the statistics of collections without a recount; 1670929199000 counts
  what was burned before; 1671103166234 makes the type column anew, so that the values
  1673954094930 looks for are gone;
- web API: an `_or` behind another key, or behind the condition of a service, takes
  back what stands before it (`findBundles`, the tokens of a collection, transfers,
  transactions); an empty `_in` is ignored; a page past the end has count 0; the group of
  NULL is not counted; a distinct_on column that is not first in the order, or of a table
  that is not joined, is an error of Postgres and so an empty list; two conditions on one
  column may draw the same parameter name.

## Not modelled, and why

- The owners of fungible and refungible tokens (`saveReFungibleOwnerToken`, the other half of
  `burnTokenOwnerPart`), the attributes table (deleted and inserted in two statements by
  events of one token at once, `token.service.ts:428`), `updateWithoutBlock` of tokens and
  collections: variants of what `TokenIndex` has, which would multiply its states; the rows
  they write are read by nobody in the crawler but themselves.
- The conversion of schemas, properties and attributes (`collection.service.ts`,
  `token.service.ts`): data without influence on control.
- `EvmService.parseEvents` and `AccountsSubscriberService`, which nothing calls.
- Of the entities: `event.data` (text, jsonb in the database), `tokens_owners.owner` (varchar,
  text), the requirement of `tokens_owners.block_number` and of `schema_v2`, the label NESTED
  that only the database has. They differ, and no statement of the crawler depends on it.
- Of the API: `HolderService` (its `_in` always fails, for `replaceQueryParams` does not
  replace lists), `attributesV1`, the root of a bundle, the children of a token,
  `statistic()` (which formats `fromDate` for both ends), `_like` and `_ilike`, and the
  statistics with their cache of 12 s, in which of two concurrent misses the older answer may
  stay: single queries with no state beyond that.
- Wording of logs, GraphQL declarations, monitoring, configuration parsing, contract upload:
  no behaviour to check.
- The composition of `BlockScan` and `TokenIndex` in one state space: the interface is that
  a block's rows count as settled when its batches have returned, whatever they rejected
  (`BatchesDone`), and the product of both has too many states for TLC.

