-------------------------- MODULE TokenIndexProofs --------------------------
(***************************************************************************)
(* What holds of TokenIndex for any number of tokens, collections, owners, *)
(* concurrent events and blocks.                                           *)
(***************************************************************************)
EXTENDS TokenIndex, FiniteSetTheorems, TLAPS

(***************************************************************************)
(* Values of the operators.                                                *)
(***************************************************************************)
LEMMA AbsentType == Absent \in Row
BY IndexAssumption DEF Absent, Row

LEMMA SomeNames ==
  /\ (CHOOSE t \in Tokens : TRUE) \in Tokens
  /\ (CHOOSE c \in Collections : TRUE) \in Collections
<1>1. PICK t \in Tokens : TRUE
  BY IndexAssumption
<1>2. Of[t] \in Collections
  BY <1>1, IndexAssumption
<1>3. QED
  BY <1>1, <1>2

LEMMA IdleType == Idle \in Task
<1>1. /\ Idle.token \in Tokens
      /\ Idle.row \in Row
      /\ Idle.collection \in Collections
  BY SomeNames, AbsentType DEF Idle
<1>2. Idle.todo \in SUBSET {"collections", "tokens"}
  BY DEF Idle
<1>3. QED
  BY <1>1, <1>2 DEF Idle, Task, OtherPlaces

LEMMA BeginType ==
  ASSUME NEW t \in Tokens, NEW row \in Row, NEW address \in Owners \cup {NoAddress}
  PROVE  Begin(t, row, address) \in Task
<1>1. Begin(t, row, address).pc \in TokenPlaces \cup OtherPlaces
  BY DEF Begin, TokenPlaces, OtherPlaces, Idle
<1>2. QED
  BY <1>1, IdleType DEF Begin, Task, Idle

LEMMA DeltaTypes ==
  ASSUME NEW table, NEW t, NEW a, NEW b
  PROVE  /\ HoldersOnInsert(table, t, a) \in {-1, 0, 1}
         /\ HoldersOnUpdate(table, t, a, b) \in {-1, 0, 1}
         /\ HoldersOnBurn(table, t, a) \in {-1, 0, 1}
BY DEF HoldersOnInsert, HoldersOnUpdate, HoldersOnBurn

LEMMA StatsTypes ==
  /\ NoStats \in Stats
  /\ FreshStats \in Stats
  /\ \A s \in Stats, d \in Int : AddTokens(s, d) \in Stats /\ AddHolders(s, d) \in Stats
  /\ \A s \in Stats, n \in Nat : BurnStats(s, n) \in Stats
<1>1. NoStats \in Stats /\ FreshStats \in Stats
  BY DEF NoStats, FreshStats, Stats
<1>2. ASSUME NEW s \in Stats, NEW d \in Int PROVE AddTokens(s, d) \in Stats
  <2>1. s.tokens + d \in Int /\ (IF d > 0 THEN d ELSE 0) \in Int
    BY DEF Stats
  <2>2. [s EXCEPT !.tokens = @ + d] \in Stats
    BY <2>1 DEF Stats
  <2>3. [FreshStats EXCEPT !.tokens = IF d > 0 THEN d ELSE 0] \in Stats
    BY <2>1, <1>1 DEF Stats
  <2>4. QED
    BY <2>2, <2>3 DEF AddTokens
<1>3. ASSUME NEW s \in Stats, NEW d \in Int PROVE AddHolders(s, d) \in Stats
  <2>1. s.holders + d \in Int /\ (IF d > 0 THEN d ELSE 0) \in Int
    BY DEF Stats
  <2>2. [s EXCEPT !.holders = @ + d] \in Stats
    BY <2>1 DEF Stats
  <2>3. [FreshStats EXCEPT !.holders = IF d > 0 THEN d ELSE 0] \in Stats
    BY <2>1, <1>1 DEF Stats
  <2>4. QED
    BY <2>2, <2>3 DEF AddHolders
<1>4. ASSUME NEW s \in Stats, NEW n \in Nat PROVE BurnStats(s, n) \in Stats
  <2>1. s.tokens - n \in Int /\ s.holders - n \in Int /\ 0 - n \in Int /\ 1 - n \in Int
    BY DEF Stats
  <2>2. [s EXCEPT !.tokens = @ - n, !.holders = @ - n] \in Stats
    BY <2>1 DEF Stats
  <2>3. [FreshStats EXCEPT !.tokens = 0 - n, !.holders = 1 - n] \in Stats
    BY <2>1, <1>1 DEF Stats
  <2>4. QED
    BY <2>2, <2>3 DEF BurnStats
<1>5. QED
  BY <1>1, <1>2, <1>3, <1>4

\* Sets of tokens are finite, and what the counters compare is a number.
LEMMA Counted ==
  ASSUME NEW table
  PROVE  /\ IsFiniteSet(Statuses(table, "live"))
         /\ Cardinality(Statuses(table, "live")) \in Nat
         /\ \A c : /\ IsFiniteSet(LiveIn(table, c))
                   /\ Cardinality(LiveIn(table, c)) \in Nat
<1>1. IsFiniteSet(Statuses(table, "live"))
  BY IndexAssumption, FS_Subset DEF Statuses
<1>2. \A c : IsFiniteSet(LiveIn(table, c))
  BY <1>1, FS_Subset DEF LiveIn
<1>3. QED
  BY <1>1, <1>2, FS_CardinalityType

LEMMA AfterBurnType ==
  ASSUME NEW t \in Task, NEW s PROVE AfterBurn(t, s) \in Task
<1>1. [t EXCEPT !.todo = @ \ {s}] \in Task
  BY DEF Task
<1>2. QED
  BY <1>1, IdleType DEF AfterBurn

LEMMA MoveTypes ==
  ASSUME NEW t \in Task, NEW pc \in TokenPlaces, NEW d \in {-1, 0, 1}
  PROVE  /\ [t EXCEPT !.pc = pc] \in Task
         /\ [t EXCEPT !.pc = pc, !.delta = d] \in Task
BY DEF Task

\* A worker's task may be replaced by any task.
LEMMA TaskUpdate ==
  ASSUME TypeOK, NEW w \in Workers, NEW t \in Task
  PROVE  [task EXCEPT ![w] = t] \in [Workers -> Task]
BY DEF TypeOK

-----------------------------------------------------------------------------
(***************************************************************************)
(* TypeOK is inductive.                                                    *)
(***************************************************************************)
LEMMA InitType == Init => TypeOK
<1>1. SUFFICES ASSUME Init PROVE TypeOK
  OBVIOUS
<1>2. NoStats \in Stats
  BY StatsTypes
<1>3. total \in [collections : Int, tokens : Int]
  BY <1>1 DEF Init
<1>4. QED
  BY <1>1, <1>2, <1>3, AbsentType, IdleType DEF Init, TypeOK, CollectionStatus

LEMMA GrowType ==
  ASSUME TypeOK, NEW t \in Tokens, NEW row \in Row, NEW kind \in Kinds,
         NEW address \in Owners \cup {NoAddress},
         kind = "property" \/ address \in Owners,
         Grow(t, row, kind, address)
  PROVE  TypeOK'
<1>1. [token |-> t, kind |-> kind, address |-> address] \in Event
  BY DEF Event
<1>2. events' \subseteq Event
  BY <1>1 DEF Grow, TypeOK
<1>3. leftover' \subseteq Owners
  BY DEF Grow, TypeOK
<1>4. chain' \in [Tokens -> Row] /\ size' \in Nat
  BY DEF Grow, TypeOK
<1>5. head' \in [Tokens -> {"absent", "live", "burned"}]
  <2>1. AtLeast(head[t], row.status) \in {"absent", "live", "burned"}
    BY DEF AtLeast, TypeOK, Row
  <2>2. QED
    BY <2>1 DEF Grow, TypeOK
<1>6. QED
  BY <1>2, <1>3, <1>4, <1>5 DEF Grow, TypeOK, tables

LEMMA ChainType == ASSUME TypeOK, ChainStep PROVE TypeOK'
<1>1. ASSUME NEW t \in Tokens, Mint(t) PROVE TypeOK'
  <2>1. PICK o \in Owners : Grow(t, [status |-> "live", owner |-> o], "created", o)
    BY <1>1 DEF Mint
  <2>2. [status |-> "live", owner |-> o] \in Row
    BY DEF Row
  <2>3. QED
    BY <2>1, <2>2, GrowType DEF Kinds
<1>2. ASSUME NEW t \in Tokens, Transfer(t) PROVE TypeOK'
  <2>1. PICK o \in Owners : Grow(t, [chain[t] EXCEPT !.owner = o], "transfer", chain[t].owner)
    BY <1>2 DEF Transfer
  <2>2. [chain[t] EXCEPT !.owner = o] \in Row /\ chain[t].owner \in Owners
    BY DEF TypeOK, Row
  <2>3. QED
    BY <2>1, <2>2, GrowType DEF Kinds
<1>3. ASSUME NEW t \in Tokens, Burn(t) PROVE TypeOK'
  <2>1. [chain[t] EXCEPT !.status = "burned"] \in Row /\ chain[t].owner \in Owners
    BY DEF TypeOK, Row
  <2>2. QED
    BY <1>3, <2>1, GrowType DEF Burn, Kinds
<1>4. ASSUME NEW t \in Tokens, SetProperty(t) PROVE TypeOK'
  <2>1. chain[t] \in Row
    BY DEF TypeOK
  <2>2. QED
    BY <1>4, <2>1, GrowType DEF SetProperty, Kinds
<1>5. ASSUME NEW c \in Collections, CollectionEvent(c) PROVE TypeOK'
  <2>1. chainCollections' \in [Collections -> CollectionStatus] /\ size' \in Nat
    BY <1>5 DEF CollectionEvent, TypeOK, CollectionStatus
  <2>2. QED
    BY <1>5, <2>1 DEF CollectionEvent, TypeOK, tables, beyond
<1>6. QED
  BY <1>1, <1>2, <1>3, <1>4, <1>5 DEF ChainStep

LEMMA BatchType ==
  ASSUME TypeOK, StoreEvents \/ CollectionsProcessed \/ BlockProcessed PROVE TypeOK'
<1>1. CASE StoreEvents
  <2>1. collections_stats' \in [Collections -> Stats]
    BY <1>1, StatsTypes DEF StoreEvents, TypeOK
  <2>2. QED
    BY <1>1, <2>1 DEF StoreEvents, TypeOK, blocks
<1>2. CASE CollectionsProcessed
  BY <1>2 DEF CollectionsProcessed, TypeOK, onChain, tables
<1>3. CASE BlockProcessed
  BY <1>3 DEF BlockProcessed, TypeOK, tables, beyond
<1>4. QED
  BY <1>1, <1>2, <1>3

LEMMA CollectionType ==
  ASSUME TypeOK, NEW w \in Workers,
         TakeCollection(w) \/ SaveCollection(w) \/ BurnCollection(w)
           \/ BurnItsTokens(w) \/ CollectionFails(w)
  PROVE  TypeOK'
<1>0. task[w] \in Task /\ task[w].collection \in Collections
  BY DEF TypeOK, Task
<1>1. CASE TakeCollection(w)
  <2>1. PICK c \in collectionEvents :
          task' = [task EXCEPT ![w] =
            IF chainCollections[c] = "burned"
            THEN [Idle EXCEPT !.pc = "destroy", !.collection = c,
                              !.todo = {"collections", "tokens"}]
            ELSE [Idle EXCEPT !.pc = "save", !.collection = c,
                              !.burned = (collections[c] = "burned")]]
    BY <1>1 DEF TakeCollection
  <2>2. c \in Collections
    BY DEF TypeOK
  <2>3. [Idle EXCEPT !.pc = "destroy", !.collection = c,
                     !.todo = {"collections", "tokens"}] \in Task
    BY <2>2, IdleType DEF Task, OtherPlaces
  <2>4. [Idle EXCEPT !.pc = "save", !.collection = c,
                     !.burned = (collections[c] = "burned")] \in Task
    <3>1. (collections[c] = "burned") \in BOOLEAN
      OBVIOUS
    <3>2. QED
      BY <2>2, <3>1, IdleType DEF Task, OtherPlaces
  <2>5. task' \in [Workers -> Task]
    BY <2>1, <2>3, <2>4, TaskUpdate
  <2>6. QED
    BY <1>1, <2>5 DEF TakeCollection, TypeOK, onChain, tables
<1>2. CASE SaveCollection(w)
  <2>1. collections' \in [Collections -> CollectionStatus]
    BY <1>2 DEF SaveCollection, TypeOK, CollectionStatus
  <2>2. total' \in [collections : Int, tokens : Int]
    <3>1. total.collections \in Int /\ total.collections + 1 \in Int /\ total.collections - 1 \in Int
      BY DEF TypeOK
    <3>2. PICK n \in Int : total' = [total EXCEPT !.collections = n]
      BY <1>2, <3>1 DEF SaveCollection
    <3>3. QED
      BY <3>2 DEF TypeOK
  <2>3. collections_stats' \in [Collections -> Stats]
    BY <1>2, StatsTypes DEF SaveCollection, TypeOK
  <2>4. task' \in [Workers -> Task]
    BY <1>2, IdleType, TaskUpdate DEF SaveCollection
  <2>5. QED
    BY <1>2, <2>1, <2>2, <2>3, <2>4 DEF SaveCollection, TypeOK, onChain, pending
<1>3. CASE BurnCollection(w)
  <2>1. collections' \in [Collections -> CollectionStatus]
    BY <1>3 DEF BurnCollection, TypeOK, CollectionStatus
  <2>2. total' \in [collections : Int, tokens : Int]
    BY <1>3 DEF BurnCollection, TypeOK
  <2>3. collections_stats' \in [Collections -> Stats]
    BY <1>3, StatsTypes DEF BurnCollection, TypeOK
  <2>4. task' \in [Workers -> Task]
    BY <1>0, <1>3, AfterBurnType, TaskUpdate DEF BurnCollection
  <2>5. QED
    BY <1>3, <2>1, <2>2, <2>3, <2>4 DEF BurnCollection, TypeOK, onChain, pending
<1>4. CASE BurnItsTokens(w)
  <2> DEFINE live == LiveIn(tokens, task[w].collection)
  <2>1. Cardinality(live) \in Nat
    BY Counted
  <2>2. tokens' \in [Tokens -> Row]
    <3>1. \A t \in Tokens : [tokens[t] EXCEPT !.status = "burned"] \in Row
      BY DEF TypeOK, Row
    <3>2. QED
      BY <1>4, <3>1 DEF BurnItsTokens, TypeOK
  <2>3. total' \in [collections : Int, tokens : Int]
    BY <1>4, <2>1 DEF BurnItsTokens, TypeOK
  <2>4. collections_stats' \in [Collections -> Stats]
    <3>1. BurnStats(collections_stats[task[w].collection], Cardinality(live)) \in Stats
      BY <1>0, <2>1, StatsTypes DEF TypeOK
    <3>2. QED
      BY <1>4, <3>1 DEF BurnItsTokens, TypeOK
  <2>5. task' \in [Workers -> Task]
    BY <1>0, <1>4, AfterBurnType, TaskUpdate DEF BurnItsTokens
  <2>6. QED
    BY <1>4, <2>2, <2>3, <2>4, <2>5 DEF BurnItsTokens, TypeOK, onChain, pending
<1>5. CASE CollectionFails(w)
  <2>1. PICK t \in Task : task' = [task EXCEPT ![w] = t]
    BY <1>0, <1>5, IdleType, AfterBurnType DEF CollectionFails
  <2>2. QED
    BY <1>5, <2>1, TaskUpdate DEF CollectionFails, TypeOK, onChain, pending, tables
<1>6. QED
  BY <1>1, <1>2, <1>3, <1>4, <1>5

LEMMA StartType ==
  ASSUME TypeOK, NEW w \in Workers, NEW t \in Tokens, NEW row \in Row,
         NEW address \in Owners \cup {NoAddress}, Start(w, t, row, address)
  PROVE  task' \in [Workers -> Task] /\ failed' \subseteq Tokens
<1>1. Begin(t, row, address) \in Task
  BY BeginType
<1>2. task' = [task EXCEPT ![w] = Begin(t, row, address)]
  BY DEF Start
<1>3. failed' \subseteq Tokens
  <2>1. failed' = failed \cup Rejected(t, row, address)
    BY DEF Start
  <2>2. failed \subseteq Tokens /\ Rejected(t, row, address) \subseteq Tokens
    BY DEF Rejected, TypeOK
  <2>3. QED
    BY <2>1, <2>2
<1>4. QED
  BY <1>1, <1>2, <1>3, TaskUpdate

\* What getTokenData answers is a row, the block's or the head's.
LEMMA AnswerType ==
  ASSUME TypeOK, NEW w \in Workers, NEW t \in Tokens, NEW row \in Row,
         NEW address \in Owners \cup {NoAddress},
         FromBlock(w, t, row, address) \/ FromHead(w, t, address)
  PROVE  /\ task' \in [Workers -> Task] /\ failed' \subseteq Tokens
         /\ head' \in [Tokens -> {"absent", "live", "burned"}]
         /\ ahead' \subseteq Tokens /\ early' \subseteq Tokens
<1>1. CASE FromBlock(w, t, row, address)
  BY <1>1, StartType DEF FromBlock, beyond, TypeOK
<1>2. CASE FromHead(w, t, address)
  <2>1. PICK shown \in HeadRows(t) :
          /\ Start(w, t, shown, address)
          /\ head' = [head EXCEPT ![t] = shown.status]
          /\ early' = early \cup {t} \/ early' = early
    BY <1>2 DEF FromHead
  <2>2. shown \in Row /\ shown.status \in {"absent", "live", "burned"}
    BY DEF HeadRows, Row
  <2>3. ahead' = ahead \cup {t}
    BY <1>2 DEF FromHead
  <2>4. QED
    BY <2>1, <2>2, <2>3, StartType DEF TypeOK
<1>3. QED
  BY <1>1, <1>2

LEMMA CommitType ==
  ASSUME TypeOK, NEW w \in Workers, NEW row \in Row, NEW count \in Int,
         Commit(w, row, count)
  PROVE  TypeOK'
<1>1. task[w].token \in Tokens /\ task[w].delta \in Int
  BY DEF TypeOK, Task
<1>2. Of[task[w].token] \in Collections
  BY <1>1, IndexAssumption
<1>3. tokens' \in [Tokens -> Row]
  BY <1>1 DEF Commit, TypeOK
<1>4. total' \in [collections : Int, tokens : Int]
  BY DEF Commit, TypeOK
<1>5. collections_stats' \in [Collections -> Stats]
  <2> DEFINE held == AddHolders(collections_stats[Of[task[w].token]], task[w].delta)
  <2>1. held \in Stats
    BY <1>1, <1>2, StatsTypes DEF TypeOK
  <2>2. AddTokens(held, count) \in Stats
    BY <2>1, StatsTypes
  <2>3. QED
    BY <2>1, <2>2 DEF Commit, TypeOK
<1>6. task' \in [Workers -> Task]
  BY IdleType, TaskUpdate DEF Commit, Finish
<1>7. QED
  BY <1>3, <1>4, <1>5, <1>6 DEF Commit, TypeOK, onChain, pending

LEMMA TokenType ==
  ASSUME TypeOK, NEW w \in Workers,
         \/ TakeToken(w) \/ RescanToken(w) \/ DeleteOwners(w) \/ SaveOwner(w)
         \/ FindToken(w) \/ InsertToken(w) \/ InsertRefused(w) \/ UpdateToken(w)
         \/ DropOwner(w) \/ BurnToken(w) \/ TokenInserted(w) \/ TokenUpdated(w)
         \/ TokenBurned(w) \/ TokenFails(w)
  PROVE  TypeOK'
<1>0. /\ task[w] \in Task
      /\ task[w].token \in Tokens
      /\ task[w].row \in Row
      /\ task[w].row.owner \in Owners
      /\ tokens[task[w].token] \in Row
  BY DEF TypeOK, Task, Row
<1>1. CASE TakeToken(w)
  <2>1. PICK event \in events :
          /\ events' = events \ {event}
          /\ \E address \in DataOf(event) :
               \/ FromBlock(w, event.token, chain[event.token], address)
               \/ FromHead(w, event.token, address)
    BY <1>1 DEF TakeToken
  <2>2. PICK address \in DataOf(event) :
          \/ FromBlock(w, event.token, chain[event.token], address)
          \/ FromHead(w, event.token, address)
    BY <2>1
  <2>3. event.token \in Tokens /\ event.address \in Owners \cup {NoAddress}
    BY DEF TypeOK, Event
  <2>4. address \in Owners \cup {NoAddress}
    BY <2>3 DEF DataOf, TypeOK
  <2>5. chain[event.token] \in Row
    BY <2>3 DEF TypeOK
  <2>6. /\ task' \in [Workers -> Task] /\ failed' \subseteq Tokens
        /\ head' \in [Tokens -> {"absent", "live", "burned"}]
        /\ ahead' \subseteq Tokens /\ early' \subseteq Tokens
    BY <2>2, <2>3, <2>4, <2>5, AnswerType
  <2>7. QED
    BY <1>1, <2>1, <2>6 DEF TakeToken, TypeOK, blocks, tables
<1>2. CASE RescanToken(w)
  <2>1. PICK t \in Tokens : FromBlock(w, t, before[t], NoAddress) \/ FromHead(w, t, NoAddress)
    BY <1>2 DEF RescanToken
  <2>2. before[t] \in Row
    BY DEF TypeOK
  <2>3. /\ task' \in [Workers -> Task] /\ failed' \subseteq Tokens
        /\ head' \in [Tokens -> {"absent", "live", "burned"}]
        /\ ahead' \subseteq Tokens /\ early' \subseteq Tokens
    BY <2>1, <2>2, AnswerType
  <2>4. QED
    BY <1>2, <2>3 DEF RescanToken, TypeOK, blocks, pending, tables
<1>3. ASSUME NEW pc \in TokenPlaces, Move(w, pc) PROVE task' \in [Workers -> Task]
  BY <1>0, <1>3, MoveTypes, TaskUpdate DEF Move
<1>4. ASSUME NEW pc \in TokenPlaces, NEW d \in {-1, 0, 1}, Write(w, pc, d)
      PROVE  task' \in [Workers -> Task]
  BY <1>0, <1>4, MoveTypes, TaskUpdate DEF Write
<1>5. ASSUME Finish(w) PROVE task' \in [Workers -> Task]
  BY <1>5, IdleType, TaskUpdate DEF Finish
<1>20. ASSUME UNCHANGED <<onChain, pending, tables, failed>>, task' \in [Workers -> Task]
       PROVE  TypeOK'
  BY <1>20 DEF TypeOK, onChain, pending, tables
<1>6. CASE DeleteOwners(w)
  BY <1>0, <1>3, <1>6 DEF DeleteOwners, TypeOK, onChain, pending, TokenPlaces
<1>7. CASE SaveOwner(w)
  <2>1. task[w].token \in Tokens /\ task[w].row.owner \in Owners
    BY <1>0 DEF Task, Row
  <2>2. tokens_owners' \in [Tokens -> SUBSET Owners]
    BY <1>7, <2>1 DEF SaveOwner, TypeOK
  <2>3. task' \in [Workers -> Task]
    BY <1>3, <1>7 DEF SaveOwner, TokenPlaces
  <2>4. UNCHANGED <<onChain, pending, tokens, collections, collections_stats, total, failed>>
    BY <1>7 DEF SaveOwner
  <2>. QED BY <2>2, <2>3, <2>4 DEF TypeOK, onChain, pending
<1>8. CASE FindToken(w)
  <2>1. PICK pc \in {"insert", "update"} : Move(w, pc)
    BY <1>8 DEF FindToken
  <2>2. UNCHANGED <<onChain, pending, tables, failed>>
    BY <1>8 DEF FindToken
  <2>. QED BY <1>3, <1>20, <2>1, <2>2 DEF TokenPlaces
<1>9. CASE InsertToken(w)
  BY <1>4, <1>9, <1>20, DeltaTypes DEF InsertToken, TokenPlaces
<1>10. CASE InsertRefused(w)
  BY <1>5, <1>10, <1>20 DEF InsertRefused
<1>11. CASE UpdateToken(w)
  BY <1>4, <1>11, <1>20, DeltaTypes DEF UpdateToken, TokenPlaces
<1>12. CASE DropOwner(w)
  BY <1>0, <1>3, <1>12 DEF DropOwner, TypeOK, onChain, pending, TokenPlaces
<1>13. CASE BurnToken(w)
  <2>1. task' \in [Workers -> Task]
    BY <1>4, <1>5, <1>13, DeltaTypes DEF BurnToken, TokenPlaces
  <2>2. QED
    BY <1>13, <2>1 DEF BurnToken, TypeOK, onChain, pending, tables
<1>14. CASE TokenInserted(w)
  BY <1>0, <1>14, CommitType DEF TokenInserted
<1>15. CASE TokenUpdated(w)
  BY <1>0, <1>15, CommitType DEF TokenUpdated
<1>16. CASE TokenBurned(w)
  <2>1. [tokens[task[w].token] EXCEPT !.status = "burned"] \in Row
    BY <1>0 DEF Row
  <2>2. QED
    BY <1>16, <2>1, CommitType DEF TokenBurned
<1>17. CASE TokenFails(w)
  BY <1>0, <1>5, <1>17 DEF TokenFails, TypeOK, onChain, pending, tables
<1>18. QED
  BY <1>1, <1>2, <1>6, <1>7, <1>8, <1>9, <1>10, <1>11, <1>12, <1>13, <1>14,
     <1>15, <1>16, <1>17

LEMMA NextType == ASSUME TypeOK, [Next]_vars PROVE TypeOK'
<1>1. CASE UNCHANGED vars
  BY <1>1 DEF vars, onChain, pending, tables, TypeOK
<1>2. CASE Next
  BY <1>2, ChainType, BatchType, CollectionType, TokenType DEF Next, Continue
<1>3. QED
  BY <1>1, <1>2

\* The tables and what the crawler remembers keep their types, whatever the
\* chain does and whichever queries fail.
THEOREM IndexTypeCorrect == Spec => []TypeOK
<1>1. Init => TypeOK
  BY InitType
<1>2. TypeOK /\ [Next]_vars => TypeOK'
  BY NextType
<1>3. QED
  BY <1>1, <1>2, PTL DEF Spec
-----------------------------------------------------------------------------
(***************************************************************************)
(* IndexInv is inductive when nothing is rescanned.                        *)
(***************************************************************************)
\* What one row does to the two counters of tokens: one more, one less, the same.
LEMMA RowCounts ==
  ASSUME NEW table \in [Tokens -> Row], NEW row \in Row, NEW t \in Tokens,
         NEW count \in {-1, 0, 1},
         count = (IF row.status = "live" THEN 1 ELSE 0)
                   - (IF table[t].status = "live" THEN 1 ELSE 0)
  PROVE  LET new == [table EXCEPT ![t] = row]
         IN  /\ Cardinality(Statuses(new, "live")) = Cardinality(Statuses(table, "live")) + count
             /\ Cardinality(LiveIn(new, Of[t])) = Cardinality(LiveIn(table, Of[t])) + count
             /\ \A c : c # Of[t] => LiveIn(new, c) = LiveIn(table, c)
<1> DEFINE new == [table EXCEPT ![t] = row]
           A == Statuses(table, "live")
           B == Statuses(new, "live")
           C == LiveIn(table, Of[t])
           D == LiveIn(new, Of[t])
<1>1. new[t] = row /\ \A u \in Tokens \ {t} : new[u] = table[u]
  OBVIOUS
<1>2. /\ IsFiniteSet(A) /\ Cardinality(A) \in Nat
      /\ IsFiniteSet(C) /\ Cardinality(C) \in Nat
  BY Counted
<1> HIDE DEF new
<1>3. ASSUME count = 1
      PROVE  Cardinality(B) = Cardinality(A) + count /\ Cardinality(D) = Cardinality(C) + count
  <2>1. row.status = "live" /\ table[t].status # "live"
    BY <1>3
  <2>2a. B = A \cup {t} /\ t \notin A
    <3>1. \A u \in Tokens : new[u].status = "live" <=> u = t \/ table[u].status = "live"
      BY <1>1, <2>1
    <3>. QED BY <2>1, <3>1 DEF Statuses
  <2>2b. D = C \cup {t} /\ t \notin C
    BY <2>2a DEF LiveIn
  <2>2. B = A \cup {t} /\ t \notin A /\ D = C \cup {t} /\ t \notin C
    BY <2>2a, <2>2b
  <2>3a. Cardinality(B) = Cardinality(A) + 1
    <3>1. Cardinality(A \cup {t}) = Cardinality(A) + 1
      BY <1>2, <2>2, FS_AddElement
    <3>2. QED
      BY <2>2a, <3>1
  <2>3b. Cardinality(D) = Cardinality(C) + 1
    <3>1. Cardinality(C \cup {t}) = Cardinality(C) + 1
      BY <1>2, <2>2, FS_AddElement
    <3>2. QED
      BY <2>2b, <3>1
  <2>4. QED
    BY <1>3, <2>3a, <2>3b
<1>4. ASSUME count = -1
      PROVE  Cardinality(B) = Cardinality(A) + count /\ Cardinality(D) = Cardinality(C) + count
  <2>1. row.status # "live" /\ table[t].status = "live"
    BY <1>4
  <2>2a. B = A \ {t} /\ t \in A
    <3>1. \A u \in Tokens : new[u].status = "live" <=> u # t /\ table[u].status = "live"
      BY <1>1, <2>1
    <3>. QED BY <2>1, <3>1 DEF Statuses
  <2>2b. D = C \ {t} /\ t \in C
    BY <2>2a DEF LiveIn
  <2>2. B = A \ {t} /\ t \in A /\ D = C \ {t} /\ t \in C
    BY <2>2a, <2>2b
  <2>3a. Cardinality(B) = Cardinality(A) - 1
    <3>1. Cardinality(A \ {t}) = Cardinality(A) - 1
      BY <1>2, <2>2, FS_RemoveElement
    <3>2. QED
      BY <2>2a, <3>1
  <2>3b. Cardinality(D) = Cardinality(C) - 1
    <3>1. Cardinality(C \ {t}) = Cardinality(C) - 1
      BY <1>2, <2>2, FS_RemoveElement
    <3>2. QED
      BY <2>2b, <3>1
  <2>4. QED
    BY <1>2, <1>4, <2>3a, <2>3b
<1>5. ASSUME count = 0
      PROVE  Cardinality(B) = Cardinality(A) + count /\ Cardinality(D) = Cardinality(C) + count
  <2>1. row.status = "live" <=> table[t].status = "live"
    BY <1>5
  <2>2a. B = A
    <3>1. \A u \in Tokens : new[u].status = "live" <=> table[u].status = "live"
      BY <1>1, <2>1
    <3>. QED BY <3>1 DEF Statuses
  <2>2. B = A /\ D = C
    BY <2>2a DEF LiveIn
  <2>3. QED
    BY <1>2, <1>5, <2>2
<1>6. \A c : c # Of[t] => LiveIn(new, c) = LiveIn(table, c)
  BY <1>1 DEF Statuses, LiveIn
<1>7. Cardinality(B) = Cardinality(A) + count /\ Cardinality(D) = Cardinality(C) + count
  BY <1>3, <1>4, <1>5
<1>8. QED
  BY <1>6, <1>7 DEF new

\* The holders trigger leaves the count of tokens alone.
LEMMA HoldersKeepTokens ==
  ASSUME NEW s \in Stats, NEW d \in Int, s.exists \/ s.tokens = 0
  PROVE  LET held == AddHolders(s, d)
         IN  /\ held.tokens = s.tokens
             /\ held.exists \/ held.tokens = 0
             /\ s.exists => held.exists
<1>1. CASE d = 0
  BY <1>1 DEF AddHolders
<1>2. CASE d # 0 /\ s.exists
  <2>1. AddHolders(s, d) = [s EXCEPT !.holders = @ + d]
    BY <1>2 DEF AddHolders
  <2>2. QED
    BY <1>2, <2>1 DEF Stats
<1>3. CASE d # 0 /\ ~s.exists
  <2>1. AddHolders(s, d) = [FreshStats EXCEPT !.holders = IF d > 0 THEN d ELSE 0]
    BY <1>3 DEF AddHolders
  <2>2. QED
    BY <1>3, <2>1 DEF FreshStats
<1>4. QED
  BY <1>1, <1>2, <1>3

LEMMA TokensCounted ==
  ASSUME NEW s \in Stats, s.exists \/ s.tokens = 0, NEW d \in {-1, 1}, s.exists \/ d = 1
  PROVE  AddTokens(s, d).tokens = s.tokens + d /\ AddTokens(s, d).exists
<1>1. CASE s.exists
  <2>1. AddTokens(s, d) = [s EXCEPT !.tokens = @ + d]
    BY <1>1 DEF AddTokens
  <2>2. QED
    BY <1>1, <2>1 DEF Stats
<1>2. CASE ~s.exists
  <2>1. d = 1 /\ s.tokens = 0
    BY <1>2
  <2>2. AddTokens(s, d) = [FreshStats EXCEPT !.tokens = 1]
    BY <1>2, <2>1 DEF AddTokens
  <2>3. QED
    BY <2>1, <2>2 DEF FreshStats
<1>3. QED
  BY <1>1, <1>2

\* A row of statistics exists after tokens were counted, whatever the count.
LEMMA AddTokensExists ==
  ASSUME NEW s \in Stats, NEW d \in Int PROVE AddTokens(s, d).exists
<1>1. CASE s.exists
  <2>1. AddTokens(s, d) = [s EXCEPT !.tokens = @ + d]
    BY <1>1 DEF AddTokens
  <2>2. QED
    BY <1>1, <2>1 DEF Stats
<1>2. CASE ~s.exists
  <2>1. AddTokens(s, d) = [FreshStats EXCEPT !.tokens = IF d > 0 THEN d ELSE 0]
    BY <1>2 DEF AddTokens
  <2>2. QED
    BY <2>1 DEF FreshStats
<1>3. QED
  BY <1>1, <1>2

\* A step that changes no table and leaves one worker where the invariant wants it.
LEMMA WorkerStep ==
  ASSUME IndexInv, TypeOK', NEW w \in Workers, NEW t,
         task' = [task EXCEPT ![w] = t], AtBlock(t), RowReady(t),
         t.pc \in Writing => ~Locked(t.token),
         UNCHANGED <<chain, chainCollections, head, ahead, early, phase, events, tokens,
           collections, collections_stats, total>>
  PROVE  IndexInv'
<1>1. task \in [Workers -> Task]
  BY DEF IndexInv, TypeOK
<1>2. \A v \in Workers : task'[v] = IF v = w THEN t ELSE task[v]
  BY <1>1
<1>3. ASSUME NEW v \in Workers PROVE AtBlock(task[v])' /\ RowReady(task[v])'
  BY <1>2 DEF IndexInv, AtBlock, RowReady
<1>4. OneWriter'
  <2>1. SUFFICES ASSUME NEW u \in Workers, NEW v \in Workers,
                        task'[u].pc \in Writing, task'[v].pc \in Writing,
                        task'[u].token = task'[v].token
                 PROVE  u = v
    BY DEF OneWriter
  <2>2. CASE u # w /\ v # w
    BY <1>2, <2>1, <2>2 DEF IndexInv, OneWriter
  <2>3. CASE u = w \/ v = w
    BY <1>2, <2>1, <2>3 DEF Locked
  <2>4. QED
    BY <2>2, <2>3
<1>5. ChainKnown' /\ EventsKnown' /\ StatsFormed' /\ TotalExact' /\ TokensCountExact'
  BY DEF IndexInv, ChainKnown, EventsKnown, StatsFormed, TotalExact, LiveCount,
         TokensCountExact
<1>6. QED
  BY <1>3, <1>4, <1>5 DEF IndexInv

LEMMA IdlePlace == AtBlock(Idle) /\ RowReady(Idle) /\ Idle.pc \notin Writing
BY DEF Idle, AtBlock, RowReady, LivePlaces, BurnPlaces, Writing

LEMMA QuietPhases ==
  ASSUME Rescanners = {}, IndexInv, phase = "chain" \/ Quiet
  PROVE  \A w \in Workers : \/ task[w].pc = "idle"
                            \/ task[w].pc \notin LivePlaces \cup BurnPlaces
                                 \cup {"save", "destroy"}
BY DEF IndexInv, AtBlock, Quiet

\* Nothing is known of a block while it is made or when its batches are done.
LEMMA BlockInv ==
  ASSUME Rescanners = {}, IndexInv, TypeOK',
         ChainStep \/ StoreEvents \/ CollectionsProcessed \/ BlockProcessed
  PROVE  IndexInv'
<1>1. UNCHANGED <<tokens, collections, total, task>>
  BY DEF ChainStep, Mint, Transfer, Burn, SetProperty, Grow, CollectionEvent,
         StoreEvents, CollectionsProcessed, BlockProcessed, tables
<1>2. phase = "chain" \/ Quiet
  BY DEF ChainStep, Mint, Transfer, Burn, SetProperty, Grow, CollectionEvent,
         StoreEvents, CollectionsProcessed, BlockProcessed
<1>3. ASSUME NEW w \in Workers PROVE AtBlock(task[w])' /\ RowReady(task[w])'
  <2>1. \/ task[w].pc = "idle"
        \/ task[w].pc \notin LivePlaces \cup BurnPlaces \cup {"save", "destroy"}
    BY <1>2, QuietPhases
  <2>2. AtBlock(task[w])'
    BY <1>1, <2>1 DEF AtBlock, LivePlaces, BurnPlaces
  <2>3. RowReady(task[w])'
    BY <1>1 DEF IndexInv, RowReady
  <2>4. QED
    BY <2>2, <2>3
<1>4. ChainKnown' /\ EventsKnown'
  <2>1. CASE \E t \in Tokens : Mint(t) \/ Transfer(t) \/ Burn(t) \/ SetProperty(t)
    <3>1. PICK t \in Tokens : Mint(t) \/ Transfer(t) \/ Burn(t) \/ SetProperty(t)
      BY <2>1
    <3>0. chain[t] \in Row
      BY DEF IndexInv, TypeOK
    <3>2a. PICK row \in Row :
            /\ \E kind, address : Grow(t, row, kind, address)
            /\ row.status # "absent"
            /\ chain[t].status # "burned"
      <4>1. CASE Mint(t)
        <5>1. PICK o \in Owners : Grow(t, [status |-> "live", owner |-> o], "created", o)
          BY <4>1 DEF Mint
        <5>2. [status |-> "live", owner |-> o] \in Row
          BY DEF Row
        <5>3. QED
          BY <4>1, <5>1, <5>2 DEF Mint
      <4>2. CASE Transfer(t)
        <5>1. PICK o \in Owners :
                Grow(t, [chain[t] EXCEPT !.owner = o], "transfer", chain[t].owner)
          BY <4>2 DEF Transfer
        <5>2. /\ [chain[t] EXCEPT !.owner = o] \in Row
              /\ [chain[t] EXCEPT !.owner = o].status = chain[t].status
          BY <3>0 DEF Row
        <5>3. QED
          BY <4>2, <5>1, <5>2 DEF Transfer
      <4>3. CASE Burn(t)
        <5>1. /\ [chain[t] EXCEPT !.status = "burned"] \in Row
              /\ [chain[t] EXCEPT !.status = "burned"].status = "burned"
          BY <3>0 DEF Row
        <5>2. QED
          BY <4>3, <5>1 DEF Burn
      <4>4. CASE SetProperty(t)
        BY <3>0, <4>4 DEF SetProperty
      <4>5. QED
        BY <3>1, <4>1, <4>2, <4>3, <4>4
    <3>2. /\ chain' = [chain EXCEPT ![t] = row]
          /\ head' = [head EXCEPT ![t] = AtLeast(@, row.status)]
          /\ \A e \in events' : e.token = t \/ e \in events
          /\ chainCollections[Of[t]] = "live"
          /\ row.status # "absent"
          /\ chain[t].status # "burned"
      BY <3>2a DEF Grow
    <3>3. chainCollections' = chainCollections
      BY <3>1 DEF Mint, Transfer, Burn, SetProperty, Grow
    <3>4. /\ chain'[t] = row /\ head'[t] = AtLeast(head[t], row.status)
          /\ \A u \in Tokens \ {t} : chain'[u] = chain[u] /\ head'[u] = head[u]
      BY <3>2 DEF IndexInv, TypeOK
    <3>5. AtLeast(head[t], row.status) \in Later(row.status)
      BY DEF AtLeast, Later, Row
    <3>6. early' = early
      BY <3>1 DEF Mint, Transfer, Burn, SetProperty, Grow
    <3>7. ChainKnown'
      BY <1>1, <3>2, <3>3, <3>4, <3>5, <3>6 DEF IndexInv, ChainKnown
    <3>8. EventsKnown'
      <4>1. ASSUME NEW e \in events' PROVE chain'[e.token].status # "absent"
        <5>1. e.token \in Tokens
          BY DEF TypeOK, Event
        <5>2. QED
          BY <3>2, <3>4, <5>1 DEF IndexInv, EventsKnown
      <4>2. QED
        BY <4>1 DEF EventsKnown
    <3>9. QED
      BY <3>7, <3>8
  <2>2. CASE \E c \in Collections : CollectionEvent(c)
    <3>1. PICK c \in Collections : CollectionEvent(c)
      BY <2>2
    <3>2. /\ UNCHANGED <<chain, head, early, events>>
          /\ \A d \in Collections \ {c} : chainCollections'[d] = chainCollections[d]
      BY <3>1 DEF CollectionEvent, beyond, IndexInv, TypeOK
    <3>3. \/ chainCollections[c] # "burned" /\ chainCollections'[c] = "live"
          \/ LiveIn(chain, c) = {} /\ chainCollections'[c] = "burned"
      <4>1. chainCollections \in [Collections -> CollectionStatus]
        BY DEF IndexInv, TypeOK
      <4>2. QED
        BY <3>1, <4>1 DEF CollectionEvent
    <3>4. /\ \A t \in Tokens : chain'[t].status = "live" => chainCollections'[Of[t]] # "burned"
          /\ \A d \in Collections : collections'[d] = "burned" => chainCollections'[d] = "burned"
      <4>1. \A t \in Tokens : chain[t].status = "live" => t \in LiveIn(chain, Of[t])
        BY DEF LiveIn, Statuses
      <4>2. \A t \in Tokens : Of[t] \in Collections
        BY IndexAssumption
      <4>3. QED
        BY <1>1, <3>2, <3>3, <4>1, <4>2 DEF IndexInv, ChainKnown
    <3>5. QED
      BY <1>1, <3>2, <3>3, <3>4 DEF IndexInv, ChainKnown, EventsKnown
  <2>3. CASE StoreEvents \/ CollectionsProcessed \/ BlockProcessed
    BY <1>1, <2>3 DEF StoreEvents, CollectionsProcessed, BlockProcessed, onChain,
                      blocks, beyond, IndexInv, ChainKnown, EventsKnown
  <2>4. QED
    BY <2>1, <2>2, <2>3 DEF ChainStep
<1>5. /\ \A c \in Collections :
          \/ collections_stats'[c] = collections_stats[c]
          \/ ~collections_stats[c].exists /\ collections_stats'[c] = FreshStats
  BY DEF ChainStep, Mint, Transfer, Burn, SetProperty, Grow, CollectionEvent,
         StoreEvents, CollectionsProcessed, BlockProcessed, tables
<1>9. early' = early
  BY DEF ChainStep, Mint, Transfer, Burn, SetProperty, Grow, CollectionEvent,
         StoreEvents, CollectionsProcessed, BlockProcessed, onChain, beyond
<1>6. StatsFormed' /\ TokensCountExact'
  <2>1. FreshStats.tokens = 0 /\ FreshStats.exists
    BY DEF FreshStats
  <2>2. \A c \in Collections : LiveIn(tokens, c)' = LiveIn(tokens, c)
    BY <1>1
  <2>3. QED
    BY <1>1, <1>5, <1>9, <2>1, <2>2 DEF IndexInv, StatsFormed, TokensCountExact
<1>7. OneWriter' /\ TotalExact'
  BY <1>1, <1>9 DEF IndexInv, OneWriter, TotalExact, LiveCount
<1>8. QED
  BY <1>3, <1>4, <1>6, <1>7 DEF IndexInv

\* A worker of the collections batch only remembers a collection of its kind.
LEMMA AfterBurnPlace ==
  ASSUME NEW t \in Task, NEW x, AtBlock(t), t.pc = "destroy"
  PROVE  /\ AtBlock(AfterBurn(t, x)) /\ RowReady(AfterBurn(t, x))
         /\ AfterBurn(t, x).pc \notin Writing
<1>1. CASE t.todo = {x}
  BY <1>1, IdlePlace DEF AfterBurn
<1>2. CASE t.todo # {x}
  <2> DEFINE new == [t EXCEPT !.todo = @ \ {x}]
  <2>1. new.pc = t.pc /\ new.collection = t.collection
    BY DEF Task
  <2>2. AfterBurn(t, x) = new
    BY <1>2 DEF AfterBurn
  <2>3. QED
    BY <2>1, <2>2 DEF AtBlock, RowReady, LivePlaces, BurnPlaces, Writing
<1>3. QED
  BY <1>1, <1>2

LEMMA TakeCollectionInv ==
  ASSUME IndexInv, TypeOK', NEW w \in Workers, TakeCollection(w)
  PROVE  IndexInv'
<1>1. PICK c \in collectionEvents :
        task' = [task EXCEPT ![w] =
          IF chainCollections[c] = "burned"
          THEN [Idle EXCEPT !.pc = "destroy", !.collection = c,
                            !.todo = {"collections", "tokens"}]
          ELSE [Idle EXCEPT !.pc = "save", !.collection = c,
                            !.burned = (collections[c] = "burned")]]
  BY DEF TakeCollection
<1>2. c \in Collections
  BY DEF IndexInv, TypeOK
<1>3. phase = "collections" /\ UNCHANGED <<chain, chainCollections, head, ahead, early, phase, events, tokens,
           collections, collections_stats, total>>
  BY DEF TakeCollection, onChain, tables
<1>4. CASE chainCollections[c] = "burned"
  <2> DEFINE t == [Idle EXCEPT !.pc = "destroy", !.collection = c,
                               !.todo = {"collections", "tokens"}]
  <2>1. t.pc = "destroy" /\ t.collection = c
    BY DEF Idle
  <2>2. AtBlock(t) /\ RowReady(t) /\ t.pc \notin Writing
    BY <1>3, <1>4, <2>1 DEF AtBlock, RowReady, LivePlaces, BurnPlaces, Writing
  <2>3. QED
    BY <1>1, <1>3, <1>4, <2>2, WorkerStep
<1>5. CASE chainCollections[c] # "burned"
  <2> DEFINE t == [Idle EXCEPT !.pc = "save", !.collection = c,
                               !.burned = (collections[c] = "burned")]
  <2>1. t.pc = "save" /\ t.collection = c /\ t.burned = (collections[c] = "burned")
    BY DEF Idle
  <2>2. collections[c] # "burned"
    BY <1>2, <1>5 DEF IndexInv, ChainKnown
  <2>3. AtBlock(t) /\ RowReady(t) /\ t.pc \notin Writing
    BY <1>3, <1>5, <2>1, <2>2 DEF AtBlock, RowReady, LivePlaces, BurnPlaces, Writing
  <2>4. QED
    BY <1>1, <1>3, <1>5, <2>3, WorkerStep
<1>6. QED
  BY <1>4, <1>5

\* What is left to show of a step that moves a worker to a place outside the
\* tables' transactions and writes tables.
LEMMA OthersStay ==
  ASSUME IndexInv, TypeOK', NEW w \in Workers, NEW t \in Task,
         task' = [task EXCEPT ![w] = t], AtBlock(t), RowReady(t), t.pc \notin Writing,
         UNCHANGED <<chain, chainCollections, head, ahead, early, phase, events>>,
         \A v \in Workers \ {w} : RowReady(task[v])'
  PROVE  (\A v \in Workers : AtBlock(task[v])' /\ (v # w => RowReady(task[v])')) /\ OneWriter'
<1>1. task \in [Workers -> Task]
  BY DEF IndexInv, TypeOK
<1>2. \A v \in Workers : task'[v] = IF v = w THEN t ELSE task[v]
  BY <1>1
<1>3. ASSUME NEW v \in Workers PROVE AtBlock(task[v])'
  BY <1>2 DEF IndexInv, AtBlock
<1>4. OneWriter'
  BY <1>2 DEF IndexInv, OneWriter
<1>5. QED
  BY <1>3, <1>4

LiveAmong(table) == Cardinality({d \in Collections : table[d] = "live"})

\* The row of a collection changes between absent, live and burned.
LEMMA CountCollection ==
  ASSUME NEW old, NEW new, NEW c \in Collections,
         \A d \in Collections \ {c} : new[d] = old[d]
  PROVE  /\ old[c] # "live" /\ new[c] = "live" => LiveAmong(new) = LiveAmong(old) + 1
         /\ old[c] = "live" /\ new[c] # "live" => LiveAmong(new) = LiveAmong(old) - 1
         /\ (old[c] = "live") = (new[c] = "live") => LiveAmong(new) = LiveAmong(old)
<1> DEFINE L(table) == {d \in Collections : table[d] = "live"}
<1>1. IsFiniteSet(L(old)) /\ IsFiniteSet(L(new))
  BY IndexAssumption, FS_Subset
<1>2. ASSUME old[c] # "live", new[c] = "live"
      PROVE  Cardinality(L(new)) = Cardinality(L(old)) + 1
  <2>1. L(new) = L(old) \cup {c} /\ c \notin L(old)
    BY <1>2
  <2>2. QED
    BY <1>1, <2>1, FS_AddElement
<1>3. ASSUME old[c] = "live", new[c] # "live"
      PROVE  Cardinality(L(new)) = Cardinality(L(old)) - 1
  <2>1. L(new) = L(old) \ {c} /\ c \in L(old)
    BY <1>3
  <2>2. QED
    BY <1>1, <2>1, FS_RemoveElement
<1>4. ASSUME (old[c] = "live") = (new[c] = "live") PROVE L(new) = L(old)
  BY <1>4
<1>5. QED
  BY <1>2, <1>3, <1>4 DEF LiveAmong

\* SaveCollection and BurnCollection write one row of collections and leave the
\* table tokens alone.
LEMMA CollectionRowInv ==
  ASSUME IndexInv, TypeOK', NEW w \in Workers, NEW c \in Collections, NEW t \in Task,
         task' = [task EXCEPT ![w] = t], AtBlock(t), RowReady(t), t.pc \notin Writing,
         UNCHANGED <<chain, chainCollections, head, ahead, early, phase, events, tokens,
           total.tokens>>,
         \A d \in Collections \ {c} : /\ collections'[d] = collections[d]
                                     /\ collections_stats'[d] = collections_stats[d],
         collections'[c] = "burned" => chainCollections[c] = "burned",
         \/ /\ collections_stats'[c] = collections_stats[c]
            /\ collections[c] = "burned" => collections'[c] = "burned"
         \/ collections_stats'[c] = NoStats /\ collections'[c] = "burned",
         total'.collections =
           total.collections + (IF collections'[c] = "live" THEN 1 ELSE 0)
             - (IF collections[c] = "live" THEN 1 ELSE 0)
  PROVE  IndexInv'
<1>1. \A v \in Workers \ {w} : RowReady(task[v])'
  BY DEF IndexInv, TypeOK, RowReady
<1>2. RowReady(task[w])'
  BY DEF IndexInv, TypeOK, RowReady
<1>3. (\A v \in Workers : AtBlock(task[v])' /\ RowReady(task[v])') /\ OneWriter'
  BY <1>1, <1>2, OthersStay
<1>4. ChainKnown' /\ EventsKnown'
  BY DEF IndexInv, ChainKnown, EventsKnown
<1>5. StatsFormed' /\ TokensCountExact'
  <2>1. ~NoStats.exists /\ NoStats.tokens = 0
    BY DEF NoStats
  <2>2. \A d \in Collections : LiveIn(tokens, d)' = LiveIn(tokens, d)
    OBVIOUS
  <2>3. QED
    BY <2>1, <2>2 DEF IndexInv, StatsFormed, TokensCountExact
<1>6. TotalExact'
  <2>1. total.collections = LiveAmong(collections) /\ (early = {} => total.tokens = LiveCount)
    BY DEF IndexInv, TotalExact, LiveAmong
  <2>2. /\ collections[c] # "live" /\ collections'[c] = "live" => LiveAmong(collections') = LiveAmong(collections) + 1
        /\ collections[c] = "live" /\ collections'[c] # "live" => LiveAmong(collections') = LiveAmong(collections) - 1
        /\ (collections[c] = "live") = (collections'[c] = "live") => LiveAmong(collections') = LiveAmong(collections)
    <3>1. \A d \in Collections \ {c} : collections'[d] = collections[d]
      OBVIOUS
    <3>2. QED
      BY <3>1, CountCollection
  <2>3. total.collections \in Int
    BY DEF IndexInv, TypeOK
  <2>4. total'.collections = LiveAmong(collections')
    <3>1. CASE collections[c] = "live" /\ collections'[c] = "live"
      BY <2>1, <2>2, <2>3, <3>1
    <3>2. CASE collections[c] = "live" /\ collections'[c] # "live"
      BY <2>1, <2>2, <2>3, <3>2
    <3>3. CASE collections[c] # "live" /\ collections'[c] = "live"
      BY <2>1, <2>2, <2>3, <3>3
    <3>4. CASE collections[c] # "live" /\ collections'[c] # "live"
      BY <2>1, <2>2, <2>3, <3>4
    <3>5. QED
      BY <3>1, <3>2, <3>3, <3>4
  <2>5. early' = {} => total'.tokens = LiveCount'
    BY <2>1 DEF LiveCount
  <2>6. QED
    BY <2>4, <2>5 DEF TotalExact, LiveAmong
<1>7. QED
  BY <1>3, <1>4, <1>5, <1>6 DEF IndexInv

LEMMA SaveCollectionInv ==
  ASSUME IndexInv, TypeOK', NEW w \in Workers, SaveCollection(w)
  PROVE  IndexInv'
<1> DEFINE c == task[w].collection
<1>1. /\ c \in Collections
      /\ collections \in [Collections -> CollectionStatus]
      /\ total \in [collections : Int, tokens : Int]
  BY DEF IndexInv, TypeOK, Task
<1>2. /\ ~task[w].burned
      /\ chainCollections[c] # "burned"
      /\ collections[c] # "burned"
  BY <1>1 DEF SaveCollection, IndexInv, AtBlock, ChainKnown
<1>3. /\ collections' = [collections EXCEPT ![c] = "live"]
      /\ collections_stats' = collections_stats
      /\ task' = [task EXCEPT ![w] = Idle]
      /\ UNCHANGED <<chain, chainCollections, head, ahead, early, phase, events, tokens>>
  BY <1>2 DEF SaveCollection, onChain, pending
<1>4. total' = [total EXCEPT !.collections = IF collections[c] = "absent" THEN @ + 1 ELSE @]
  <2>1. CASE collections[c] = "absent"
    BY <2>1 DEF SaveCollection
  <2>2. CASE collections[c] # "absent"
    <3>1. total' = [total EXCEPT !.collections = total.collections]
      BY <1>2, <2>2 DEF SaveCollection
    <3>2. QED
      BY <2>2, <3>1
  <2>3. QED
    BY <2>1, <2>2
<1>5. collections[c] \in {"absent", "live"}
  BY <1>1, <1>2 DEF CollectionStatus
<1>6. /\ total'.tokens = total.tokens
      /\ total'.collections = total.collections + 1
            - (IF collections[c] = "live" THEN 1 ELSE 0)
  <2>1. CASE collections[c] = "absent"
    BY <1>1, <1>4, <2>1
  <2>2. CASE collections[c] = "live"
    BY <1>1, <1>4, <2>2
  <2>3. QED
    BY <1>5, <2>1, <2>2
<1>7. collections'[c] = "live" /\ \A d \in Collections \ {c} : collections'[d] = collections[d]
  BY <1>1, <1>3
<1>8. QED
  BY <1>1, <1>2, <1>3, <1>6, <1>7, IdleType, IdlePlace, CollectionRowInv

LEMMA BurnCollectionInv ==
  ASSUME IndexInv, TypeOK', NEW w \in Workers, BurnCollection(w)
  PROVE  IndexInv'
<1> DEFINE c == task[w].collection
           t == AfterBurn(task[w], "collections")
<1>1. /\ c \in Collections
      /\ task[w] \in Task
      /\ collections \in [Collections -> CollectionStatus]
      /\ collections_stats \in [Collections -> Stats]
      /\ total \in [collections : Int, tokens : Int]
  BY DEF IndexInv, TypeOK, Task
<1>2. AtBlock(task[w]) /\ task[w].pc = "destroy" /\ chainCollections[c] = "burned"
  BY DEF BurnCollection, IndexInv, AtBlock
<1>3. /\ t \in Task /\ AtBlock(t) /\ RowReady(t) /\ t.pc \notin Writing
      /\ task' = [task EXCEPT ![w] = t]
      /\ UNCHANGED <<chain, chainCollections, head, ahead, early, phase, events, tokens>>
  BY <1>1, <1>2, AfterBurnType, AfterBurnPlace DEF BurnCollection, onChain, pending
<1>4. CASE collections[c] = "live"
  <2>1. /\ collections' = [collections EXCEPT ![c] = "burned"]
        /\ total' = [total EXCEPT !.collections = @ - 1]
        /\ collections_stats' = [collections_stats EXCEPT ![c] = NoStats]
    BY <1>4 DEF BurnCollection
  <2>2. /\ collections'[c] = "burned" /\ collections_stats'[c] = NoStats
        /\ \A d \in Collections \ {c} : /\ collections'[d] = collections[d]
                                         /\ collections_stats'[d] = collections_stats[d]
        /\ total'.tokens = total.tokens
        /\ total'.collections = total.collections - 1
    BY <1>1, <2>1
  <2>3. total'.collections =
           total.collections + (IF collections'[c] = "live" THEN 1 ELSE 0)
             - (IF collections[c] = "live" THEN 1 ELSE 0)
    BY <1>1, <1>4, <2>2
  <2>4. QED
    BY <1>1, <1>2, <1>3, <2>2, <2>3, CollectionRowInv
<1>5. CASE collections[c] # "live"
  <2>1. UNCHANGED <<collections, total, collections_stats>>
    BY <1>5 DEF BurnCollection
  <2>2. total'.collections =
           total.collections + (IF collections'[c] = "live" THEN 1 ELSE 0)
             - (IF collections[c] = "live" THEN 1 ELSE 0)
    BY <1>1, <1>5, <2>1
  <2>3. QED
    BY <1>1, <1>2, <1>3, <2>1, <2>2, CollectionRowInv
<1>6. QED
  BY <1>4, <1>5

LEMMA CollectionFailsInv ==
  ASSUME IndexInv, TypeOK', NEW w \in Workers, CollectionFails(w)
  PROVE  IndexInv'
<1>1. task[w] \in Task /\ AtBlock(task[w])
  BY DEF IndexInv, TypeOK
<1>2. PICK t \in Task : /\ task' = [task EXCEPT ![w] = t]
                        /\ AtBlock(t) /\ RowReady(t) /\ t.pc \notin Writing
  BY <1>1, IdleType, IdlePlace, AfterBurnType, AfterBurnPlace DEF CollectionFails
<1>3. UNCHANGED <<chain, chainCollections, head, ahead, early, phase, events, tokens,
           collections, collections_stats, total>>
  BY DEF CollectionFails, onChain, pending, tables
<1>4. QED
  BY <1>2, <1>3, WorkerStep

LEMMA BurnItsTokensInv ==
  ASSUME IndexInv, TypeOK', NEW w \in Workers, BurnItsTokens(w)
  PROVE  IndexInv'
<1> DEFINE c == task[w].collection
           t == AfterBurn(task[w], "tokens")
           live == LiveIn(tokens, c)
           n == Cardinality(live)
<1>1. /\ c \in Collections
      /\ task[w] \in Task
      /\ tokens \in [Tokens -> Row]
      /\ collections_stats \in [Collections -> Stats]
      /\ collections_stats[c] \in Stats
      /\ total \in [collections : Int, tokens : Int]
  BY DEF IndexInv, TypeOK, Task
<1>2. AtBlock(task[w]) /\ task[w].pc = "destroy" /\ chainCollections[c] = "burned"
  BY DEF BurnItsTokens, IndexInv, AtBlock
<1>3. /\ t \in Task /\ AtBlock(t) /\ RowReady(t) /\ t.pc \notin Writing
      /\ task' = [task EXCEPT ![w] = t]
      /\ UNCHANGED <<chain, chainCollections, head, ahead, early, phase, events, collections>>
  BY <1>1, <1>2, AfterBurnType, AfterBurnPlace DEF BurnItsTokens, onChain, pending
<1>4. /\ tokens' = [u \in Tokens |->
           IF u \in live THEN [tokens[u] EXCEPT !.status = "burned"] ELSE tokens[u]]
      /\ total' = [total EXCEPT !.tokens = @ - n]
      /\ collections_stats' = [collections_stats EXCEPT ![c] = BurnStats(@, n)]
  BY DEF BurnItsTokens
<1>5. \A u \in Tokens : tokens'[u].status = IF u \in live THEN "burned" ELSE tokens[u].status
  BY <1>1, <1>4 DEF Row
<1>6. \A u \in live : tokens[u].status = "live" /\ Of[u] = c
  BY DEF LiveIn, Statuses
<1>7. (\A v \in Workers : AtBlock(task[v])' /\ RowReady(task[v])') /\ OneWriter'
  <2>1. ASSUME NEW v \in Workers \ {w} PROVE RowReady(task[v])'
    <3>1. task'[v] = task[v] /\ task[v].token \in Tokens
      BY <1>3 DEF IndexInv, TypeOK, Task
    <3>2. (tokens'[task[v].token].status = "absent") = (tokens[task[v].token].status = "absent")
      BY <1>5, <1>6, <3>1
    <3>3. QED
      BY <3>1, <3>2 DEF IndexInv, RowReady
  <2>2. RowReady(task[w])'
    <3>1. task'[w] = t
      BY <1>3 DEF IndexInv, TypeOK
    <3>2. t.pc \in {"idle", "destroy"}
      BY <1>1, <1>2 DEF AfterBurn, Idle, Task
    <3>3. QED
      BY <3>1, <3>2 DEF RowReady
  <2>3. QED
    BY <1>3, <2>1, <2>2, OthersStay
<1>8. ChainKnown' /\ EventsKnown'
  <2>1. \A u \in live : chain[u].status = "burned"
    <3>1. ASSUME NEW u \in live PROVE chain[u].status = "burned"
      <4>1. u \in Tokens /\ tokens[u].status # "absent" /\ Of[u] = c
        BY <1>6 DEF LiveIn, Statuses
      <4>2. chain[u].status # "absent" /\ chain[u].status # "live"
        BY <1>2, <4>1 DEF IndexInv, ChainKnown
      <4>3. chain[u].status \in {"absent", "live", "burned"}
        BY <4>1 DEF IndexInv, TypeOK, Row
      <4>4. QED
        BY <4>2, <4>3
    <3>2. QED
      BY <3>1
  <2>2. QED
    BY <1>3, <1>5, <2>1 DEF IndexInv, ChainKnown, EventsKnown
<1>9. n \in Nat /\ LiveCount \in Nat
  BY Counted DEF LiveCount
<1>10. TotalExact'
  <2>1. Statuses(tokens, "live")' = Statuses(tokens, "live") \ live
    BY <1>5 DEF Statuses, LiveIn
  <2>2. live \subseteq Statuses(tokens, "live")
    BY DEF LiveIn
  <2>3. Cardinality(Statuses(tokens, "live") \ live) = LiveCount - n
    <3>1. Statuses(tokens, "live") \cap live = live
      BY <2>2
    <3>2. QED
      BY <3>1, Counted, FS_Difference DEF LiveCount
  <2>4. early' = {} => total'.tokens = LiveCount'
    BY <1>1, <1>3, <1>4, <2>1, <2>3 DEF IndexInv, TotalExact, LiveCount
  <2>5. total'.collections = total.collections
    BY <1>1, <1>4
  <2>6. QED
    BY <1>3, <2>4, <2>5 DEF IndexInv, TotalExact
<1>11. /\ LiveIn(tokens', c) = {}
       /\ \A d \in Collections \ {c} : LiveIn(tokens', d) = LiveIn(tokens, d)
  BY <1>3, <1>5, <1>6 DEF LiveIn, Statuses
<1>12. collections_stats'[c] = BurnStats(collections_stats[c], n)
       /\ \A d \in Collections \ {c} : collections_stats'[d] = collections_stats[d]
  BY <1>1, <1>4
<1>13. /\ n = 0 => collections_stats'[c] = collections_stats[c]
       /\ n # 0 => collections_stats'[c].exists
       /\ n # 0 /\ collections_stats[c].exists
            => collections_stats'[c].tokens = collections_stats[c].tokens - n
  <2>1. CASE n = 0
    BY <1>12, <2>1 DEF BurnStats
  <2>2. CASE n # 0 /\ collections_stats[c].exists
    <3>1. collections_stats'[c] = [collections_stats[c] EXCEPT !.tokens = @ - n, !.holders = @ - n]
      BY <1>12, <2>2 DEF BurnStats
    <3>2. QED
      BY <1>1, <2>2, <3>1 DEF Stats
  <2>3. CASE n # 0 /\ ~collections_stats[c].exists
    <3>1. collections_stats'[c] = [FreshStats EXCEPT !.tokens = 0 - n, !.holders = 1 - n]
      BY <1>12, <2>3 DEF BurnStats
    <3>2. QED
      BY <2>3, <3>1 DEF FreshStats
  <2>4. QED
    BY <2>1, <2>2, <2>3
<1>14. StatsFormed'
  BY <1>12, <1>13 DEF IndexInv, StatsFormed
<1>15. TokensCountExact'
  <2>1. ASSUME collections[c] # "burned", \A u \in early : Of[u] # c
        PROVE  collections_stats'[c].tokens = 0
    <3>1. collections_stats[c].tokens = n /\ (collections_stats[c].exists \/ n = 0)
      BY <1>1, <2>1 DEF IndexInv, TokensCountExact, StatsFormed
    <3>2. QED
      BY <1>9, <1>13, <3>1
  <2>2. Cardinality(LiveIn(tokens', c)) = 0
    BY <1>11, FS_EmptySet
  <2>3. QED
    BY <1>3, <1>11, <1>12, <2>1, <2>2 DEF IndexInv, TokensCountExact
<1>16. QED
  BY <1>7, <1>8, <1>10, <1>14, <1>15 DEF IndexInv

\* A transaction commits: the row has one writer, who counts what it changes.
LEMMA CommitInv ==
  ASSUME IndexInv, TypeOK', NEW w \in Workers, task[w].pc \in Writing,
         NEW row \in Row, NEW count \in {-1, 0, 1}, Commit(w, row, count),
         row.status # "absent",
         chain[task[w].token].status # "absent",
         row.status = "burned" =>
           chain[task[w].token].status = "burned" \/ task[w].token \in early,
         \/ count = (IF row.status = "live" THEN 1 ELSE 0)
                      - (IF tokens[task[w].token].status = "live" THEN 1 ELSE 0)
         \/ task[w].token \in early
  PROVE  IndexInv'
<1> DEFINE t == task[w].token
           c == Of[t]
           old == collections_stats[c]
           held == AddHolders(old, task[w].delta)
<1>1. /\ t \in Tokens
      /\ task[w].delta \in Int
      /\ tokens \in [Tokens -> Row]
      /\ collections_stats \in [Collections -> Stats]
      /\ total \in [collections : Int, tokens : Int]
  BY DEF IndexInv, TypeOK, Task
<1>2. c \in Collections /\ old \in Stats
  BY <1>1, IndexAssumption
<1>3. /\ tokens' = [tokens EXCEPT ![t] = row]
      /\ total' = [total EXCEPT !.tokens = @ + count]
      /\ collections_stats' =
           [collections_stats EXCEPT ![c] = IF count = 0 THEN held ELSE AddTokens(held, count)]
      /\ task' = [task EXCEPT ![w] = Idle]
      /\ UNCHANGED <<chain, chainCollections, head, ahead, early, phase, events, collections>>
  BY DEF Commit, Finish, onChain, pending
<1>4. tokens'[t] = row /\ \A u \in Tokens \ {t} : tokens'[u] = tokens[u]
  BY <1>1, <1>3
<1>5. /\ collections_stats'[c] = IF count = 0 THEN held ELSE AddTokens(held, count)
      /\ \A d \in Collections \ {c} : collections_stats'[d] = collections_stats[d]
  BY <1>1, <1>2, <1>3
<1>6. (\A v \in Workers : AtBlock(task[v])' /\ RowReady(task[v])') /\ OneWriter'
  <2>1. ASSUME NEW v \in Workers \ {w} PROVE RowReady(task[v])'
    <3>1. task'[v] = task[v] /\ task[v].token \in Tokens
      BY <1>3 DEF IndexInv, TypeOK, Task
    <3>2. task[v].pc = "inserting" => task[v].token # t
      BY DEF IndexInv, OneWriter, Writing
    <3>3. tokens'[task[v].token] = IF task[v].token = t THEN row ELSE tokens[task[v].token]
      BY <1>4, <3>1
    <3>4. QED
      BY <3>1, <3>2, <3>3 DEF IndexInv, RowReady
  <2>2. RowReady(task[w])'
    <3>1. task'[w].pc = "idle"
      BY <1>3 DEF IndexInv, TypeOK, Idle
    <3>2. QED
      BY <3>1 DEF RowReady
  <2>3. QED
    BY <1>3, <2>1, <2>2, IdleType, IdlePlace, OthersStay
<1>7. ChainKnown' /\ EventsKnown'
  BY <1>3, <1>4 DEF IndexInv, ChainKnown, EventsKnown
<1>9. \A d : d # c => LiveIn(tokens', d) = LiveIn(tokens, d)
  BY <1>4 DEF LiveIn, Statuses
<1>10. ASSUME t \notin early
       PROVE  /\ LiveCount' = LiveCount + count
              /\ Cardinality(LiveIn(tokens', c)) = Cardinality(LiveIn(tokens, c)) + count
  <2>1. count = (IF row.status = "live" THEN 1 ELSE 0) - (IF tokens[t].status = "live" THEN 1 ELSE 0)
    BY <1>10
  <2> DEFINE new == [tokens EXCEPT ![t] = row]
  <2> HIDE DEF t, c
  <2>2. /\ Cardinality(Statuses(new, "live")) = Cardinality(Statuses(tokens, "live")) + count
        /\ Cardinality(LiveIn(new, Of[t])) = Cardinality(LiveIn(tokens, Of[t])) + count
        /\ \A d : d # Of[t] => LiveIn(new, d) = LiveIn(tokens, d)
    BY <1>1, <2>1, RowCounts
  <2>3. tokens' = new /\ Of[t] = c
    BY <1>3 DEF c
  <2> HIDE DEF new
  <2>4. LiveCount' = Cardinality(Statuses(new, "live"))
    BY <2>3 DEF LiveCount
  <2>5. QED
    BY <2>2, <2>3, <2>4 DEF LiveCount
<1>11. TotalExact'
  <2>1. total'.tokens = total.tokens + count /\ total'.collections = total.collections
    BY <1>1, <1>3
  <2>2. QED
    BY <1>3, <1>10, <2>1 DEF IndexInv, TotalExact
<1>12. /\ held \in Stats
       /\ held.tokens = old.tokens
       /\ held.exists \/ held.tokens = 0
       /\ old.exists => held.exists
  <2>1. old.exists \/ old.tokens = 0
    BY <1>2 DEF IndexInv, StatsFormed
  <2>2. QED
    BY <1>1, <1>2, <2>1, StatsTypes, HoldersKeepTokens
<1>13. StatsFormed'
  <2>1. collections_stats'[c].exists \/ collections_stats'[c].tokens = 0
    BY <1>5, <1>12, AddTokensExists
  <2>2. QED
    BY <1>5, <2>1 DEF IndexInv, StatsFormed
<1>14. ASSUME collections[c] # "burned", \A u \in early : Of[u] # c
       PROVE  collections_stats'[c].tokens = old.tokens + count
  <2>1. CASE count = 0
    <3>1. collections_stats'[c] = held
      BY <1>5, <2>1
    <3>2. old.tokens \in Int
      BY <1>2 DEF Stats
    <3>3. QED
      BY <1>12, <2>1, <3>1, <3>2
  <2>2. CASE count # 0
    <3>1. held.exists \/ count = 1
      <4>1. SUFFICES ASSUME count = -1 PROVE held.exists
        BY <2>2
      <4>2. t \in LiveIn(tokens, c)
        BY <1>1, <1>14, <4>1 DEF LiveIn, Statuses
      <4>3. Cardinality(LiveIn(tokens, c)) # 0
        BY <4>2, Counted, FS_EmptySet
      <4>4. old.tokens # 0
        BY <1>2, <1>14, <4>3 DEF IndexInv, TokensCountExact
      <4>5. old.exists
        BY <1>2, <4>4 DEF IndexInv, StatsFormed
      <4>6. QED
        BY <1>12, <4>5
    <3>2. count \in {-1, 1}
      BY <2>2
    <3>3. AddTokens(held, count).tokens = held.tokens + count
      BY <1>12, <3>1, <3>2, TokensCounted
    <3>4. QED
      BY <1>5, <1>12, <2>2, <3>3
  <2>3. QED
    BY <2>1, <2>2
<1>15. TokensCountExact'
  <2>1. ASSUME NEW d \in Collections, collections[d] # "burned", \A u \in early : Of[u] # d
        PROVE  collections_stats'[d].tokens = Cardinality(LiveIn(tokens', d))
    <3>1. collections_stats[d].tokens = Cardinality(LiveIn(tokens, d))
      BY <2>1 DEF IndexInv, TokensCountExact
    <3>2. CASE d = c
      <4>1. t \notin early
        BY <2>1, <3>2
      <4>2. QED
        BY <1>10, <1>14, <2>1, <3>1, <3>2, <4>1
    <3>3. CASE d # c
      BY <1>5, <1>9, <3>1, <3>3
    <3>4. QED
      BY <3>2, <3>3
  <2>2. QED
    BY <1>3, <2>1 DEF TokensCountExact
<1>16. QED
  BY <1>6, <1>7, <1>11, <1>13, <1>15 DEF IndexInv

\* What the head answers is what the chain has or will have.
LEMMA HeadAnswer ==
  ASSUME IndexInv, NEW t \in Tokens, chain[t].status # "absent", NEW row \in HeadRows(t)
  PROVE  /\ row \in Row
         /\ row.status \in Later(chain[t].status)
         /\ row.status # "absent"
         /\ row.status = "live" => chain[t].status = "live"
<1>1. row \in Row /\ row.status \in Later(head[t]) /\ head[t] \in Later(chain[t].status)
  BY DEF HeadRows, IndexInv, ChainKnown
<1>2. chain[t].status \in {"live", "burned"}
  BY DEF IndexInv, TypeOK, Row
<1>3. QED
  BY <1>1, <1>2 DEF Later

\* An event starts, with the token as the block has it or as the head has it.
LEMMA TokenTaken ==
  ASSUME IndexInv, NEW w \in Workers, TakeToken(w)
  PROVE  /\ phase = "tokens" /\ task[w].pc = "idle"
         /\ UNCHANGED <<chain, chainCollections, size, phase, tokens, tokens_owners,
                        collections, collections_stats, total>>
         /\ ahead \subseteq ahead' /\ early \subseteq early'
         /\ \A u \in Tokens : head'[u] \in Later(chain[u].status)
         /\ \E event \in events, row \in Row : \E address \in DataOf(event) :
              /\ events' = events \ {event}
              /\ event.token \in Tokens
              /\ Start(w, event.token, row, address)
              /\ row.status \in {"live", "burned"}
              /\ row.status = "live" => chain[event.token].status = "live"
              /\ row = chain[event.token] \/ event.token \in ahead'
              /\ row.status = "burned" /\ address # NoAddress =>
                   chain[event.token].status = "burned" \/ event.token \in ahead' \cap early'
<1>0. TypeOK /\ \A u \in Tokens : head[u] \in Later(chain[u].status)
  BY DEF IndexInv, ChainKnown
<1>1. /\ phase = "tokens" /\ task[w].pc = "idle"
      /\ UNCHANGED <<chain, chainCollections, size, phase, tokens, tokens_owners,
                     collections, collections_stats, total>>
  BY DEF TakeToken, blocks, tables
<1>2. PICK event \in events :
        /\ events' = events \ {event}
        /\ \E address \in DataOf(event) :
             \/ FromBlock(w, event.token, chain[event.token], address)
             \/ FromHead(w, event.token, address)
  BY DEF TakeToken
<1>3. PICK address \in DataOf(event) :
        \/ FromBlock(w, event.token, chain[event.token], address)
        \/ FromHead(w, event.token, address)
  BY <1>2
<1>4. PICK t : t = event.token
  OBVIOUS
<1>5. t \in Tokens /\ chain[t] \in Row /\ chain[t].status \in {"live", "burned"}
  <2>1. t \in Tokens
    BY <1>0, <1>4 DEF TypeOK, Event
  <2>2. chain[t] \in Row /\ chain[t].status # "absent"
    BY <1>0, <1>4, <2>1 DEF TypeOK, IndexInv, EventsKnown
  <2>3. QED
    BY <2>1, <2>2 DEF Row
<1>6. CASE FromBlock(w, t, chain[t], address)
  <2>1. Start(w, t, chain[t], address) /\ UNCHANGED <<head, ahead, early>>
    BY <1>6 DEF FromBlock, beyond
  <2>2. QED
    BY <1>0, <1>1, <1>2, <1>4, <1>5, <2>1
<1>7. CASE FromHead(w, t, address)
  <2>1. PICK row \in HeadRows(t) :
          /\ Start(w, t, row, address)
          /\ head' = [head EXCEPT ![t] = row.status]
          /\ early' = IF /\ row.status = "burned" /\ chain[t].status = "live"
                         /\ address # NoAddress
                      THEN early \cup {t} ELSE early
    BY <1>7 DEF FromHead
  <2>2. ahead' = ahead \cup {t}
    BY <1>7 DEF FromHead
  <2>3. /\ row \in Row /\ row.status \in Later(chain[t].status) /\ row.status # "absent"
        /\ row.status = "live" => chain[t].status = "live"
    BY <1>5, HeadAnswer
  <2>4. \A u \in Tokens : head'[u] \in Later(chain[u].status)
    BY <1>0, <1>5, <2>1, <2>3 DEF TypeOK
  <2>5. row.status \in {"live", "burned"}
    BY <2>3 DEF Row
  <2>6. row.status = "burned" /\ address # NoAddress =>
          chain[t].status = "burned" \/ t \in ahead' \cap early'
    BY <1>5, <2>1, <2>2
  <2>7. ahead \subseteq ahead' /\ early \subseteq early' /\ t \in ahead'
    BY <2>1, <2>2
  <2>8. QED
    BY <1>1, <1>2, <1>4, <1>5, <2>1, <2>3, <2>4, <2>5, <2>6, <2>7
<1>8. QED
  BY <1>3, <1>4, <1>6, <1>7

LEMMA TakeTokenInv ==
  ASSUME IndexInv, TypeOK', NEW w \in Workers, TakeToken(w)
  PROVE  IndexInv'
<1>0. /\ TypeOK /\ phase = "tokens"
      /\ UNCHANGED <<chain, chainCollections, phase, tokens, collections, collections_stats, total>>
      /\ ahead \subseteq ahead' /\ early \subseteq early'
      /\ \A u \in Tokens : head'[u] \in Later(chain[u].status)
  BY TokenTaken DEF IndexInv
<1>1. PICK event \in events, row \in Row : \E address \in DataOf(event) :
        /\ events' = events \ {event}
        /\ event.token \in Tokens
        /\ Start(w, event.token, row, address)
        /\ row.status \in {"live", "burned"}
        /\ row.status = "live" => chain[event.token].status = "live"
        /\ row = chain[event.token] \/ event.token \in ahead'
        /\ row.status = "burned" /\ address # NoAddress =>
             chain[event.token].status = "burned" \/ event.token \in ahead' \cap early'
  BY TokenTaken
<1>2. PICK t \in Tokens : t = event.token
  BY <1>1
<1>4. PICK address :
        /\ Start(w, t, row, address)
        /\ row.status = "live" => chain[t].status = "live"
        /\ row = chain[t] \/ t \in ahead'
        /\ row.status = "burned" /\ address # NoAddress =>
             chain[t].status = "burned" \/ t \in ahead' \cap early'
  BY <1>1, <1>2
<1> DEFINE new == Begin(t, row, address)
<1>5. /\ new.token = t /\ new.row = row
      /\ new.pc = IF row.status = "live"
                  THEN IF address = NoAddress THEN "find" ELSE "owners"
                  ELSE IF address = NoAddress THEN "idle" ELSE "part"
  BY DEF Begin, Idle
<1>6. \A v \in Workers : task'[v] = IF v = w THEN new ELSE task[v]
  BY <1>0, <1>4 DEF Start, TypeOK
<1> HIDE DEF new
<1>7. row.status \in {"live", "burned"}
  BY <1>1
<1>8. ASSUME NEW v \in Workers PROVE AtBlock(task[v])' /\ RowReady(task[v])'
  <2>1. CASE v # w
    <3>1. AtBlock(task[v]) /\ RowReady(task[v]) /\ task'[v] = task[v]
      BY <1>6, <2>1 DEF IndexInv
    <3>2. QED
      BY <1>0, <1>4, <3>1 DEF AtBlock, RowReady
  <2>2. CASE v = w
    <3>1. task'[v] = new
      BY <1>6, <2>2
    <3>2. AtBlock(task[v])'
      BY <1>0, <1>4, <1>5, <1>7, <3>1 DEF AtBlock, LivePlaces, BurnPlaces
    <3>3. RowReady(task[v])'
      BY <1>5, <3>1 DEF RowReady
    <3>4. QED
      BY <3>2, <3>3
  <2>3. QED
    BY <2>1, <2>2
<1>9. OneWriter'
  <2>1. new.pc \notin Writing
    BY <1>5 DEF Writing
  <2>2. QED
    BY <1>6, <2>1 DEF IndexInv, OneWriter
<1>10. ChainKnown' /\ EventsKnown'
  BY <1>0, <1>1, <1>4 DEF IndexInv, ChainKnown, EventsKnown
<1>11. StatsFormed' /\ TotalExact' /\ TokensCountExact'
  BY <1>0, <1>4 DEF IndexInv, StatsFormed, TotalExact, LiveCount, TokensCountExact
<1>12. QED
  BY <1>8, <1>9, <1>10, <1>11 DEF IndexInv

\* The steps of an event that write no table with a counter.
LEMMA EventStepInv ==
  ASSUME IndexInv, TypeOK', NEW w \in Workers,
         \/ DeleteOwners(w) \/ SaveOwner(w) \/ FindToken(w) \/ InsertToken(w)
         \/ InsertRefused(w) \/ UpdateToken(w) \/ DropOwner(w) \/ BurnToken(w)
         \/ TokenFails(w)
  PROVE  IndexInv'
<1>1. task[w] \in Task /\ AtBlock(task[w]) /\ RowReady(task[w])
  BY DEF IndexInv, TypeOK
<1>2. UNCHANGED <<chain, chainCollections, head, ahead, early, phase, events, tokens,
           collections, collections_stats, total>>
  BY DEF DeleteOwners, SaveOwner, FindToken, InsertToken, InsertRefused, UpdateToken,
         DropOwner, BurnToken, TokenFails, onChain, pending, tables
<1>3. ASSUME Finish(w) PROVE IndexInv'
  BY <1>2, <1>3, IdlePlace, WorkerStep DEF Finish
<1>4. ASSUME NEW pc \in TokenPlaces, Move(w, pc), pc \notin Writing,
             AtBlock([task[w] EXCEPT !.pc = pc]), RowReady([task[w] EXCEPT !.pc = pc])
      PROVE  IndexInv'
  <2> DEFINE t == [task[w] EXCEPT !.pc = pc]
  <2>1. t.pc = pc
    BY <1>1 DEF Task
  <2>2. task' = [task EXCEPT ![w] = t]
    BY <1>4 DEF Move
  <2>3. QED
    BY <1>2, <1>4, <2>1, <2>2, WorkerStep
<1>5. ASSUME NEW pc \in TokenPlaces, NEW d, Write(w, pc, d),
             AtBlock([task[w] EXCEPT !.pc = pc, !.delta = d]),
             RowReady([task[w] EXCEPT !.pc = pc, !.delta = d])
      PROVE  IndexInv'
  <2> DEFINE t == [task[w] EXCEPT !.pc = pc, !.delta = d]
  <2>1. t.token = task[w].token
    BY <1>1 DEF Task
  <2>2. task' = [task EXCEPT ![w] = t] /\ ~Locked(t.token)
    BY <1>5, <2>1 DEF Write
  <2>3. QED
    BY <1>2, <1>5, <2>2, WorkerStep
<1>6. ASSUME NEW pc \in TokenPlaces, NEW d
      PROVE  /\ [task[w] EXCEPT !.pc = pc].pc = pc
             /\ [task[w] EXCEPT !.pc = pc].token = task[w].token
             /\ [task[w] EXCEPT !.pc = pc].row = task[w].row
             /\ [task[w] EXCEPT !.pc = pc, !.delta = d].pc = pc
             /\ [task[w] EXCEPT !.pc = pc, !.delta = d].token = task[w].token
             /\ [task[w] EXCEPT !.pc = pc, !.delta = d].row = task[w].row
  BY <1>1 DEF Task
<1>7. CASE DeleteOwners(w)
  <2>1. Move(w, "owner") /\ task[w].pc = "owners"
    BY <1>7 DEF DeleteOwners
  <2>2. QED
    BY <1>1, <1>4, <1>6, <2>1
       DEF AtBlock, RowReady, LivePlaces, BurnPlaces, Writing, TokenPlaces
<1>8. CASE SaveOwner(w)
  <2>1. Move(w, "find") /\ task[w].pc = "owner"
    BY <1>8 DEF SaveOwner
  <2>2. QED
    BY <1>1, <1>4, <1>6, <2>1
       DEF AtBlock, RowReady, LivePlaces, BurnPlaces, Writing, TokenPlaces
<1>9. CASE FindToken(w)
  <2>1. PICK pc \in {"insert", "update"} :
          /\ Move(w, pc) /\ task[w].pc = "find"
          /\ pc = "update" => tokens[task[w].token].status # "absent"
    BY <1>9 DEF FindToken
  <2>2. QED
    BY <1>1, <1>4, <1>6, <2>1
       DEF AtBlock, RowReady, LivePlaces, BurnPlaces, Writing, TokenPlaces
<1>10. CASE InsertToken(w)
  <2>1. /\ task[w].pc = "insert" /\ tokens[task[w].token].status = "absent"
        /\ \E d : Write(w, "inserting", d)
    BY <1>10 DEF InsertToken
  <2>2. QED
    BY <1>1, <1>5, <1>6, <2>1
       DEF AtBlock, RowReady, LivePlaces, BurnPlaces, Writing, TokenPlaces
<1>11. CASE UpdateToken(w)
  <2>1. task[w].pc = "update" /\ \E d : Write(w, "updating", d)
    BY <1>11 DEF UpdateToken
  <2>2. QED
    BY <1>1, <1>5, <1>6, <2>1
       DEF AtBlock, RowReady, LivePlaces, BurnPlaces, Writing, TokenPlaces
<1>12. CASE DropOwner(w)
  <2>1. Move(w, "burn") /\ task[w].pc = "part"
    BY <1>12 DEF DropOwner
  <2>2. QED
    BY <1>1, <1>4, <1>6, <2>1
       DEF AtBlock, RowReady, LivePlaces, BurnPlaces, Writing, TokenPlaces
<1>13. CASE BurnToken(w) /\ tokens[task[w].token].status # "absent"
  <2>1. task[w].pc = "burn" /\ \E d : Write(w, "burning", d)
    BY <1>13 DEF BurnToken
  <2>2. QED
    BY <1>1, <1>5, <1>6, <1>13, <2>1
       DEF AtBlock, RowReady, LivePlaces, BurnPlaces, Writing, TokenPlaces
<1>14. CASE BurnToken(w) /\ tokens[task[w].token].status = "absent"
  BY <1>3, <1>14 DEF BurnToken
<1>15. CASE InsertRefused(w) \/ TokenFails(w)
  BY <1>3, <1>15 DEF InsertRefused, TokenFails
<1>16. QED
  BY <1>7, <1>8, <1>9, <1>10, <1>11, <1>12, <1>13, <1>14, <1>15

\* A token is never counted twice: an insert finds no row, an update finds a row
\* that is not burned, a burn counts only a row that was not burned.
LEMMA TokenCommitInv ==
  ASSUME IndexInv, TypeOK', NEW w \in Workers,
         TokenInserted(w) \/ TokenUpdated(w) \/ TokenBurned(w)
  PROVE  IndexInv'
<1> DEFINE t == task[w].token
<1>1. /\ t \in Tokens
      /\ tokens[t] \in Row
      /\ chain[t] \in Row
      /\ task[w].row \in Row
  BY DEF IndexInv, TypeOK, Task
<1>2. AtBlock(task[w]) /\ RowReady(task[w])
  BY DEF IndexInv
<1>3. CASE TokenInserted(w)
  <2>1. /\ task[w].pc = "inserting" /\ Commit(w, task[w].row, 1)
        /\ task[w].row.status = "live" /\ chain[t].status = "live"
        /\ tokens[t].status = "absent"
    BY <1>2, <1>3 DEF TokenInserted, AtBlock, RowReady, LivePlaces
  <2>2. QED
    BY <1>1, <2>1, CommitInv DEF Writing
<1>4. CASE TokenUpdated(w)
  <2>1. /\ task[w].pc = "updating" /\ Commit(w, task[w].row, 0)
        /\ task[w].row.status = "live" /\ chain[t].status = "live"
        /\ tokens[t].status # "absent"
    BY <1>2, <1>4 DEF TokenUpdated, AtBlock, RowReady, LivePlaces
  <2>2. tokens[t].status = "live" \/ t \in early
    <3>1. tokens[t].status # "burned" \/ t \in early
      BY <1>1, <2>1 DEF IndexInv, ChainKnown
    <3>2. QED
      BY <1>1, <2>1, <3>1 DEF Row
  <2>3. QED
    BY <1>1, <2>1, <2>2, CommitInv DEF Writing
<1>5. CASE TokenBurned(w)
  <2> DEFINE row == [tokens[t] EXCEPT !.status = "burned"]
             count == IF tokens[t].status = "live" THEN -1 ELSE 0
  <2>1. /\ task[w].pc = "burning" /\ Commit(w, row, count)
        /\ chain[t].status = "burned" \/ t \in early
        /\ tokens[t].status # "absent"
    BY <1>2, <1>5 DEF TokenBurned, AtBlock, RowReady, BurnPlaces
  <2>2. row \in Row /\ row.status = "burned" /\ count \in {-1, 0, 1}
    BY <1>1 DEF Row
  <2>3. chain[t].status # "absent" /\ (chain[t].status = "burned" \/ t \in early)
    <3>1. chain[t].status # "absent"
      BY <1>1, <2>1 DEF IndexInv, ChainKnown
    <3>2. QED
      BY <2>1, <3>1
  <2>4. count = (IF row.status = "live" THEN 1 ELSE 0)
                  - (IF tokens[t].status = "live" THEN 1 ELSE 0)
    BY <2>2
  <2> HIDE DEF row, count
  <2>5. QED
    BY <1>1, <2>1, <2>2, <2>3, <2>4, CommitInv DEF Writing
<1>6. QED
  BY <1>3, <1>4, <1>5

LEMMA InitInv == Init => IndexInv
<1>1. SUFFICES ASSUME Init PROVE IndexInv
  OBVIOUS
<1>2. TypeOK
  BY <1>1, InitType
<1>3. Absent.status = "absent" /\ NoStats.tokens = 0 /\ Idle.pc = "idle"
  BY DEF Absent, NoStats, Idle
<1>4. Statuses(tokens, "live") = {} /\ \A c : LiveIn(tokens, c) = {}
  BY <1>1, <1>3 DEF Init, Statuses, LiveIn
<1>5. TotalExact
  <2>1. {c \in Collections : collections[c] = "live"} = {}
    BY <1>1 DEF Init
  <2>2. total.tokens = 0 /\ total.collections = 0
    BY <1>1 DEF Init
  <2>3. QED
    BY <1>4, <2>1, <2>2, FS_EmptySet DEF TotalExact, LiveCount
<1>6. TokensCountExact /\ StatsFormed
  BY <1>1, <1>3, <1>4, FS_EmptySet DEF Init, TokensCountExact, StatsFormed
<1>7. (\A w \in Workers : AtBlock(task[w]) /\ RowReady(task[w])) /\ OneWriter
  BY <1>1, <1>3, IdlePlace DEF Init, OneWriter, Writing
<1>8. ChainKnown /\ EventsKnown
  BY <1>1, <1>3 DEF Init, ChainKnown, EventsKnown, Later
<1>9. QED
  BY <1>2, <1>5, <1>6, <1>7, <1>8 DEF IndexInv

LEMMA NextInv == ASSUME Rescanners = {}, IndexInv, [Next]_vars PROVE IndexInv'
<1>1. TypeOK'
  BY NextType DEF IndexInv
<1>2. CASE UNCHANGED vars
  <2>1. UNCHANGED <<chain, chainCollections, head, ahead, early, phase, events, tokens,
                    collections, collections_stats, total, task>>
    BY <1>2 DEF vars, onChain, pending, tables
  <2>2. QED
    BY <1>1, <2>1 DEF IndexInv, ChainKnown, EventsKnown, AtBlock, RowReady, OneWriter, StatsFormed,
                      TotalExact, LiveCount, TokensCountExact
<1>3. CASE ChainStep \/ StoreEvents \/ CollectionsProcessed \/ BlockProcessed
  BY <1>1, <1>3, BlockInv
<1>4. ASSUME NEW w \in Workers,
             \/ TakeCollection(w) \/ SaveCollection(w) \/ BurnCollection(w)
             \/ BurnItsTokens(w) \/ CollectionFails(w)
      PROVE  IndexInv'
  BY <1>1, <1>4, TakeCollectionInv, SaveCollectionInv, BurnCollectionInv, BurnItsTokensInv,
     CollectionFailsInv
<1>5. ASSUME NEW w \in Workers,
             \/ TakeToken(w) \/ RescanToken(w) \/ DeleteOwners(w) \/ SaveOwner(w)
             \/ FindToken(w) \/ InsertToken(w) \/ InsertRefused(w) \/ UpdateToken(w)
             \/ DropOwner(w) \/ BurnToken(w) \/ TokenInserted(w) \/ TokenUpdated(w)
             \/ TokenBurned(w) \/ TokenFails(w)
      PROVE  IndexInv'
  <2>1. ~RescanToken(w)
    BY DEF RescanToken
  <2>2. QED
    BY <1>1, <1>5, <2>1, TakeTokenInv, EventStepInv, TokenCommitInv
<1>6. QED
  BY <1>2, <1>3, <1>4, <1>5 DEF Next, Continue

\* When nothing is rescanned, total and collections_stats count the tokens and
\* collections that are not burned after every statement, however the events of
\* a block interleave, whichever of their queries fail, and although one event
\* may insert, update or burn a row that another has just written.
THEOREM CountersAreExact == ASSUME Rescanners = {} PROVE Spec => []CountersExact
<1>1. Init => IndexInv
  BY InitInv
<1>2. IndexInv /\ [Next]_vars => IndexInv'
  BY NextInv
<1>3. IndexInv => CountersExact
  BY DEF IndexInv, CountersExact
<1>4. QED
  BY <1>1, <1>2, <1>3, PTL DEF Spec

-----------------------------------------------------------------------------
(***************************************************************************)
(* Why the tables follow the chain, when nothing is rescanned: a row that  *)
(* is not as the chain has it, or as the head had it, has an event that    *)
(* waits or is being handled, and all events of a token that read the      *)
(* block write the same row.                                               *)
(***************************************************************************)
RowFollows(t) ==
  IF chain[t].status # "live" THEN tokens[t].status # "live"
  ELSE IF t \in ahead THEN tokens[t].status = "live" \/ t \in early
  ELSE tokens[t] = chain[t]

Busy(w, t) == task[w].pc \in TokenPlaces /\ task[w].token = t

\* An insert that will be refused finds a row that needs no other.
LateInsert ==
  \A w \in Workers : task[w].pc = "insert" =>
    LET t == task[w].token IN tokens[t].status = "absent" \/ RowFollows(t)

RowsTold ==
  \A t \in Tokens \ failed :
    \/ RowFollows(t)
    \/ \E e \in events : e.token = t
    \/ \E w \in Workers : Busy(w, t)

EventsCounted == events # {} => size # 0

FollowInv == RowsTold /\ LateInsert /\ EventsCounted

\* A worker's step that leaves its token busy, rejected, or as the chain has it.
LEMMA FollowWorker ==
  ASSUME FollowInv, TypeOK, NEW w \in Workers, NEW n,
         task' = [task EXCEPT ![w] = n],
         UNCHANGED <<chain, size>>, events' \subseteq events, failed \subseteq failed',
         LateInsert',
         \A t \in Tokens \ failed' : RowFollows(t) => RowFollows(t)',
         \A e \in events \ events' :
           \/ e.token \in failed'
           \/ n.pc \in TokenPlaces /\ n.token = e.token,
         \A t \in Tokens \ failed' : Busy(w, t) =>
           (n.pc \in TokenPlaces /\ n.token = t) \/ RowFollows(t)'
  PROVE  FollowInv'
<1>1. \A v \in Workers : task'[v] = IF v = w THEN n ELSE task[v]
  BY DEF TypeOK
<1>2. ASSUME NEW t \in Tokens \ failed'
      PROVE  \/ RowFollows(t)'
             \/ \E e \in events' : e.token = t
             \/ \E v \in Workers : Busy(v, t)'
  <2>1. CASE RowFollows(t)
    BY <1>2, <2>1
  <2>2. ASSUME NEW e \in events, e.token = t PROVE (\E x \in events' : x.token = t) \/ Busy(w, t)'
    BY <1>1, <1>2, <2>2 DEF Busy
  <2>3. ASSUME NEW v \in Workers, Busy(v, t)
        PROVE  Busy(v, t)' \/ RowFollows(t)'
    <3>1. CASE v = w
      BY <1>1, <1>2, <2>3, <3>1 DEF Busy
    <3>2. CASE v # w
      BY <1>1, <2>3, <3>2 DEF Busy
    <3>. QED BY <3>1, <3>2
  <2>. QED BY <1>2, <2>1, <2>2, <2>3 DEF FollowInv, RowsTold
<1>3. EventsCounted'
  BY DEF FollowInv, EventsCounted
<1>. QED BY <1>2, <1>3 DEF FollowInv, RowsTold

\* The steps of an event that write no row of tokens, and where they leave it.
LEMMA EventMoves ==
  ASSUME TypeOK, NEW w \in Workers,
         \/ DeleteOwners(w) \/ SaveOwner(w) \/ FindToken(w) \/ InsertToken(w)
         \/ UpdateToken(w) \/ DropOwner(w)
         \/ BurnToken(w) /\ tokens[task[w].token].status # "absent"
  PROVE  /\ UNCHANGED <<chain, ahead, early, size, phase, events, tokens, failed>>
         /\ task[w].pc \in TokenPlaces
         /\ \E n \in Task :
              /\ task' = [task EXCEPT ![w] = n]
              /\ n.pc \in TokenPlaces
              /\ n.token = task[w].token
              /\ n.pc = "insert" => tokens[n.token].status = "absent"
              /\ n.pc = "owner" <=> DeleteOwners(w)
              /\ n.pc \notin {"owners", "part"}
<1>1. task[w] \in Task
  BY DEF TypeOK
<1>3. UNCHANGED <<chain, ahead, early, size, phase, events, tokens, failed>>
  BY DEF DeleteOwners, SaveOwner, FindToken, InsertToken, UpdateToken, DropOwner, BurnToken,
     onChain, pending, tables
<1>4. ASSUME NEW pc \in TokenPlaces, Move(w, pc), pc \notin {"owners", "part"},
             pc = "insert" => tokens[task[w].token].status = "absent",
             pc = "owner" <=> DeleteOwners(w), task[w].pc \in TokenPlaces
      PROVE  \E n \in Task :
               /\ task' = [task EXCEPT ![w] = n]
               /\ n.pc \in TokenPlaces
               /\ n.token = task[w].token
               /\ n.pc = "insert" => tokens[n.token].status = "absent"
               /\ n.pc = "owner" <=> DeleteOwners(w)
               /\ n.pc \notin {"owners", "part"}
  <2>. DEFINE n == [task[w] EXCEPT !.pc = pc]
  <2>1. n \in Task /\ n.pc = pc /\ n.token = task[w].token
    BY <1>1, <1>4 DEF Task, TokenPlaces
  <2>2. task' = [task EXCEPT ![w] = n]
    BY <1>4 DEF Move
  <2>. HIDE DEF n
  <2>. QED BY <1>4, <2>1, <2>2
<1>5. ASSUME NEW pc \in Writing, NEW d \in {-1, 0, 1}, Write(w, pc, d), ~DeleteOwners(w),
             task[w].pc \in TokenPlaces
      PROVE  \E n \in Task :
               /\ task' = [task EXCEPT ![w] = n]
               /\ n.pc \in TokenPlaces
               /\ n.token = task[w].token
               /\ n.pc = "insert" => tokens[n.token].status = "absent"
               /\ n.pc = "owner" <=> DeleteOwners(w)
               /\ n.pc \notin {"owners", "part"}
  <2>. DEFINE n == [task[w] EXCEPT !.pc = pc, !.delta = d]
  <2>0. pc \in TokenPlaces /\ pc \notin {"insert", "owner", "owners", "part"}
    BY <1>5 DEF Writing, TokenPlaces
  <2>1. n \in Task /\ n.pc = pc /\ n.token = task[w].token
    BY <1>1, <1>5, <2>0 DEF Task, TokenPlaces
  <2>2. task' = [task EXCEPT ![w] = n]
    BY <1>5 DEF Write
  <2>. HIDE DEF n
  <2>. QED BY <1>5, <2>0, <2>1, <2>2
<1>6. CASE DeleteOwners(w)
  BY <1>3, <1>4, <1>6 DEF DeleteOwners, TokenPlaces
<1>7. CASE SaveOwner(w) /\ ~DeleteOwners(w)
  BY <1>3, <1>4, <1>7 DEF SaveOwner, TokenPlaces
<1>8. CASE FindToken(w) /\ ~DeleteOwners(w)
  BY <1>3, <1>4, <1>8 DEF FindToken, TokenPlaces
<1>9. CASE DropOwner(w) /\ ~DeleteOwners(w)
  BY <1>3, <1>4, <1>9 DEF DropOwner, TokenPlaces
<1>10. CASE InsertToken(w) /\ ~DeleteOwners(w)
  BY <1>3, <1>5, <1>10, DeltaTypes DEF InsertToken, TokenPlaces, Writing
<1>11. CASE UpdateToken(w) /\ ~DeleteOwners(w)
  BY <1>3, <1>5, <1>11, DeltaTypes DEF UpdateToken, TokenPlaces, Writing
<1>12. CASE BurnToken(w) /\ tokens[task[w].token].status # "absent" /\ ~DeleteOwners(w)
  <2>1. PICK d \in {-1, 0, 1} : Write(w, "burning", d)
    BY <1>12, DeltaTypes DEF BurnToken
  <2>. QED BY <1>3, <1>5, <1>12, <2>1 DEF BurnToken, TokenPlaces, Writing
<1>. QED BY <1>6, <1>7, <1>8, <1>9, <1>10, <1>11, <1>12

LEMMA FollowMoves ==
  ASSUME FollowInv, TypeOK, NEW w \in Workers,
         \/ DeleteOwners(w) \/ SaveOwner(w) \/ FindToken(w) \/ InsertToken(w)
         \/ UpdateToken(w) \/ DropOwner(w)
         \/ BurnToken(w) /\ tokens[task[w].token].status # "absent"
  PROVE  FollowInv'
<1>1. UNCHANGED <<chain, ahead, early, size, events, tokens, failed>>
  BY EventMoves
<1>2. PICK n \in Task :
        /\ task' = [task EXCEPT ![w] = n]
        /\ n.pc \in TokenPlaces
        /\ n.token = task[w].token
        /\ n.pc = "insert" => tokens[n.token].status = "absent"
  BY EventMoves
<1>3. LateInsert'
  BY <1>1, <1>2 DEF FollowInv, LateInsert, TypeOK, RowFollows
<1>4. \A t \in Tokens \ failed' : RowFollows(t) => RowFollows(t)'
  BY <1>1 DEF RowFollows
<1>. QED BY <1>1, <1>2, <1>3, <1>4, FollowWorker DEF Busy

\* A step with which an event ends, rejected or with the row it has written.
LEMMA FollowEnds ==
  ASSUME FollowInv, IndexInv, NEW w \in Workers,
         \/ InsertRefused(w) \/ TokenFails(w)
         \/ BurnToken(w) /\ tokens[task[w].token].status = "absent"
  PROVE  FollowInv'
<1>1. TypeOK /\ AtBlock(task[w])
  BY DEF IndexInv
<1>0. PICK t \in Tokens : t = task[w].token
  BY DEF IndexInv, TypeOK, Task
<1>2. /\ task' = [task EXCEPT ![w] = Idle]
      /\ UNCHANGED <<chain, ahead, early, size, events, tokens>> /\ failed \subseteq failed'
  BY DEF InsertRefused, TokenFails, BurnToken, Finish, onChain, pending, tables
<1>3. Idle.pc = "idle"
  BY DEF Idle
<1>4. LateInsert'
  BY <1>1, <1>2, <1>3 DEF FollowInv, LateInsert, TypeOK, RowFollows
<1>5. \A u \in Tokens \ failed' : RowFollows(u) => RowFollows(u)'
  BY <1>2 DEF RowFollows
<1>6. t \in failed' \/ RowFollows(t)'
  <2>1. CASE InsertRefused(w)
    <3>0. task[w].pc = "insert" /\ tokens[t].status # "absent"
      BY <1>0, <2>1 DEF InsertRefused
    <3>1. RowFollows(t)
      BY <1>0, <3>0 DEF FollowInv, LateInsert
    <3>. QED BY <1>2, <3>1 DEF RowFollows
  <2>2. CASE TokenFails(w)
    BY <1>0, <2>2 DEF TokenFails
  <2>3. CASE BurnToken(w) /\ tokens[t].status = "absent"
    <3>1. chain[t].status = "burned" \/ t \in ahead \cap early
      BY <1>0, <1>1, <2>3 DEF BurnToken, AtBlock, BurnPlaces
    <3>. QED BY <1>2, <2>3, <3>1 DEF RowFollows
  <2>. QED BY <1>0, <2>1, <2>2, <2>3
<1>7. \A u \in Tokens \ failed' : Busy(w, u) => RowFollows(u)'
  BY <1>0, <1>6 DEF Busy
<1>8. events \ events' = {} /\ events' \subseteq events
  BY <1>2
<1>. QED BY <1>1, <1>2, <1>4, <1>5, <1>7, <1>8, FollowWorker

LEMMA FollowCommit ==
  ASSUME FollowInv, IndexInv, NEW w \in Workers,
         TokenInserted(w) \/ TokenUpdated(w) \/ TokenBurned(w)
  PROVE  FollowInv'
<1>0. PICK t \in Tokens : t = task[w].token
  BY DEF IndexInv, TypeOK, Task
<1>1. TypeOK /\ AtBlock(task[w]) /\ tokens[t] \in Row
  BY DEF IndexInv, TypeOK
<1>2. PICK row, count :
        /\ Commit(w, row, count)
        /\ \/ /\ chain[t].status = "live" /\ row.status = "live"
              /\ t \in ahead \/ row = chain[t]
           \/ /\ row.status = "burned"
              /\ chain[t].status = "burned" \/ t \in ahead \cap early
  <2>1. CASE TokenInserted(w) \/ TokenUpdated(w)
    <3>1. task[w].pc \in LivePlaces /\ \E count : Commit(w, task[w].row, count)
      BY <2>1 DEF TokenInserted, TokenUpdated, LivePlaces
    <3>. QED BY <1>0, <1>1, <3>1 DEF AtBlock
  <2>2. CASE TokenBurned(w)
    <3>1. [tokens[t] EXCEPT !.status = "burned"].status = "burned"
      BY <1>1 DEF Row
    <3>2. \E count : Commit(w, [tokens[t] EXCEPT !.status = "burned"], count)
      BY <1>0, <2>2 DEF TokenBurned
    <3>3. chain[t].status = "burned" \/ t \in ahead \cap early
      BY <1>0, <1>1, <2>2 DEF TokenBurned, AtBlock, BurnPlaces
    <3>. QED BY <3>1, <3>2, <3>3
  <2>. QED BY <2>1, <2>2
<1>3. /\ task' = [task EXCEPT ![w] = Idle]
      /\ tokens' = [tokens EXCEPT ![t] = row]
      /\ UNCHANGED <<chain, ahead, early, size, events, failed>>
  BY <1>0, <1>2 DEF Commit, Finish, onChain, pending
<1>4. \A u \in Tokens : tokens'[u] = IF u = t THEN row ELSE tokens[u]
  BY <1>1, <1>3 DEF TypeOK
<1>5. RowFollows(t)'
  BY <1>2, <1>3, <1>4 DEF RowFollows
<1>6. ASSUME NEW u \in Tokens, RowFollows(u) PROVE RowFollows(u)'
  <2>1. CASE u = t
    BY <1>5, <2>1
  <2>2. CASE u # t
    BY <1>3, <1>4, <1>6, <2>2 DEF RowFollows
  <2>. QED BY <2>1, <2>2
<1>7. LateInsert'
  <2>1. SUFFICES ASSUME NEW v \in Workers, task'[v].pc = "insert"
                 PROVE  \/ (tokens[task[v].token].status = "absent")'
                        \/ RowFollows(task[v].token)'
    BY DEF LateInsert
  <2>2. task'[v] = task[v] /\ task[v].token \in Tokens
    BY <1>1, <1>3, <2>1 DEF TypeOK, Task, Idle
  <2>3. tokens[task[v].token].status = "absent" \/ RowFollows(task[v].token)
    BY <2>1, <2>2 DEF FollowInv, LateInsert
  <2>4. CASE task[v].token = t
    BY <1>5, <2>2, <2>4
  <2>5. CASE task[v].token # t
    <3>1. tokens'[task[v].token] = tokens[task[v].token]
      BY <1>4, <2>2, <2>5
    <3>. QED BY <1>6, <2>2, <2>3, <3>1
  <2>. QED BY <2>4, <2>5
<1>. QED BY <1>0, <1>1, <1>3, <1>5, <1>6, <1>7, FollowWorker DEF Busy

LEMMA BeginPlaces ==
  ASSUME NEW t \in Tokens, NEW row, NEW address
  PROVE  LET n == Begin(t, row, address)
         IN  /\ n.token = t /\ n.row = row /\ n.address = address
             /\ n.pc = IF row.status = "live"
                       THEN IF address = NoAddress THEN "find" ELSE "owners"
                       ELSE IF address = NoAddress THEN "idle" ELSE "part"
BY DEF Begin, Idle

LEMMA FollowTake ==
  ASSUME FollowInv, IndexInv, NEW w \in Workers, TakeToken(w)
  PROVE  FollowInv'
<1>1. /\ TypeOK /\ UNCHANGED <<chain, size, tokens>> /\ task[w].pc = "idle"
      /\ ahead \subseteq ahead' /\ early \subseteq early'
  BY TokenTaken DEF IndexInv
<1>2. PICK event \in events, row \in Row : \E address \in DataOf(event) :
        /\ events' = events \ {event}
        /\ event.token \in Tokens
        /\ Start(w, event.token, row, address)
  BY TokenTaken
<1>3. PICK address \in DataOf(event) : Start(w, event.token, row, address)
  BY <1>2
<1>. DEFINE n == Begin(event.token, row, address)
<1>5. task' = [task EXCEPT ![w] = n] /\ failed \subseteq failed'
  BY <1>3 DEF Start
<1>6. n.token = event.token /\ n.pc \in {"find", "owners", "idle", "part"}
  BY <1>2, BeginPlaces
<1>7. n.pc = "idle" => event.token \in failed'
  <2>1. n.pc = "idle" => row.status # "live" /\ address = NoAddress
    BY <1>2, BeginPlaces
  <2>. QED BY <1>3, <2>1 DEF Start, Rejected
<1>. HIDE DEF n
<1>9. \A t : RowFollows(t) => RowFollows(t)'
  BY <1>1 DEF RowFollows
<1>8. LateInsert'
  <2>1. \A v \in Workers : task'[v] = IF v = w THEN n ELSE task[v]
    BY <1>1, <1>5 DEF TypeOK
  <2>2. SUFFICES ASSUME NEW v \in Workers, task'[v].pc = "insert"
                 PROVE  \/ (tokens[task[v].token].status = "absent")'
                        \/ RowFollows(task[v].token)'
    BY DEF LateInsert
  <2>3. task'[v] = task[v]
    BY <1>6, <2>1, <2>2
  <2>4. tokens[task[v].token].status = "absent" \/ RowFollows(task[v].token)
    BY <2>2, <2>3 DEF FollowInv, LateInsert
  <2>. QED BY <1>1, <1>9, <2>3, <2>4
<1>10. events \ events' \subseteq {event} /\ events' \subseteq events
  BY <1>2
<1>. QED BY <1>1, <1>5, <1>6, <1>7, <1>8, <1>9, <1>10, FollowWorker DEF Busy, TokenPlaces

\* Workers that handle an event of a collection.
LEMMA CollectionTaken ==
  ASSUME NEW w \in Workers, TakeCollection(w)
  PROVE  \E n : task' = [task EXCEPT ![w] = n] /\ n.pc \in {"save", "destroy"}
<1>1. PICK c \in collectionEvents :
        task' = [task EXCEPT ![w] =
          IF chainCollections[c] = "burned"
          THEN [Idle EXCEPT !.pc = "destroy", !.collection = c,
                            !.todo = {"collections", "tokens"}]
          ELSE [Idle EXCEPT !.pc = "save", !.collection = c,
                            !.burned = (collections[c] = "burned")]]
  BY ZenonT(30) DEF TakeCollection
<1>2. /\ [Idle EXCEPT !.pc = "destroy", !.collection = c,
                      !.todo = {"collections", "tokens"}].pc = "destroy"
      /\ [Idle EXCEPT !.pc = "save", !.collection = c,
                      !.burned = (collections[c] = "burned")].pc = "save"
  BY DEF Idle
<1>. QED BY <1>1, <1>2

LEMMA CollectionMoves ==
  ASSUME TypeOK, NEW w \in Workers,
         \/ TakeCollection(w) \/ SaveCollection(w) \/ BurnCollection(w)
         \/ BurnItsTokens(w) \/ CollectionFails(w)
  PROVE  /\ UNCHANGED <<chain, ahead, early, size, phase, events, tokens_owners, failed>>
         /\ UNCHANGED tokens \/ BurnItsTokens(w)
         /\ task[w].pc \in OtherPlaces
         /\ \E n : task' = [task EXCEPT ![w] = n] /\ n.pc \in OtherPlaces
<1>1. task[w] \in Task
  BY DEF TypeOK
<1>2. \A x : task[w].pc = "destroy" => AfterBurn(task[w], x).pc \in {"idle", "destroy"}
  BY <1>1 DEF AfterBurn, Idle, Task
<1>3. Idle.pc = "idle"
  BY DEF Idle
<1>4. CASE TakeCollection(w)
  <2>1. UNCHANGED <<chain, ahead, early, size, phase, events, tokens_owners, failed, tokens>>
    BY <1>4, ZenonT(30) DEF TakeCollection, onChain, tables
  <2>2. task[w].pc = "idle"
    BY <1>4, ZenonT(30) DEF TakeCollection
  <2>. QED BY <1>4, <2>1, <2>2, CollectionTaken DEF OtherPlaces
<1>5. CASE SaveCollection(w)
  BY <1>3, <1>5 DEF SaveCollection, onChain, pending, OtherPlaces
<1>6. CASE BurnCollection(w)
  <2>1. UNCHANGED <<chain, ahead, early, size, phase, events, tokens_owners, failed, tokens>>
    BY <1>6 DEF BurnCollection, onChain, pending
  <2>2. task[w].pc = "destroy" /\ task' = [task EXCEPT ![w] = AfterBurn(task[w], "collections")]
    BY <1>6 DEF BurnCollection
  <2>. QED BY <1>2, <2>1, <2>2 DEF OtherPlaces
<1>7. CASE BurnItsTokens(w)
  <2>1. UNCHANGED <<chain, ahead, early, size, phase, events, tokens_owners, failed>>
    BY <1>7 DEF BurnItsTokens, onChain, pending
  <2>2. task[w].pc = "destroy" /\ task' = [task EXCEPT ![w] = AfterBurn(task[w], "tokens")]
    BY <1>7 DEF BurnItsTokens
  <2>. QED BY <1>2, <1>7, <2>1, <2>2 DEF OtherPlaces
<1>8. CASE CollectionFails(w)
  <2>1. UNCHANGED <<chain, ahead, early, size, phase, events, tokens_owners, failed, tokens>>
    BY <1>8 DEF CollectionFails, onChain, pending, tables
  <2>2. \/ task[w].pc = "save" /\ task' = [task EXCEPT ![w] = Idle]
        \/ task[w].pc = "destroy" /\ \E x : task' = [task EXCEPT ![w] = AfterBurn(task[w], x)]
    BY <1>8 DEF CollectionFails
  <2>. QED BY <1>2, <1>3, <2>1, <2>2 DEF OtherPlaces
<1>. QED BY <1>4, <1>5, <1>6, <1>7, <1>8

LEMMA FollowCollection ==
  ASSUME FollowInv, IndexInv, NEW w \in Workers,
         \/ TakeCollection(w) \/ SaveCollection(w) \/ BurnCollection(w)
         \/ BurnItsTokens(w) \/ CollectionFails(w)
  PROVE  FollowInv'
<1>. TypeOK
  BY DEF IndexInv
<1>1. UNCHANGED <<chain, ahead, early, size, events, failed>> /\ task[w].pc \notin TokenPlaces
  BY CollectionMoves DEF TokenPlaces, OtherPlaces
<1>2. PICK n : task' = [task EXCEPT ![w] = n] /\ n.pc \notin TokenPlaces
  BY CollectionMoves DEF TokenPlaces, OtherPlaces
<1>3. CASE UNCHANGED tokens
  <2>1. LateInsert'
    BY <1>1, <1>2, <1>3 DEF FollowInv, LateInsert, TypeOK, TokenPlaces, RowFollows
  <2>2. \A t \in Tokens \ failed' : RowFollows(t) => RowFollows(t)'
    BY <1>1, <1>3 DEF RowFollows
  <2>. QED BY <1>1, <1>2, <2>1, <2>2, FollowWorker DEF Busy
<1>4. CASE BurnItsTokens(w)
  <2>1. /\ task[w].pc = "destroy" /\ phase = "collections"
        /\ task[w].collection \in Collections
        /\ chainCollections[task[w].collection] = "burned"
    BY <1>1, <1>4 DEF BurnItsTokens, IndexInv, AtBlock, TypeOK, Task
  <2>2. \A v \in Workers : task[v].pc # "insert"
    BY <2>1 DEF IndexInv, AtBlock, LivePlaces
  <2>3. LateInsert'
    BY <1>1, <1>2, <2>2 DEF LateInsert, TypeOK, TokenPlaces
  <2>4. ASSUME NEW t \in Tokens
        PROVE  \/ tokens'[t] = tokens[t]
               \/ chain[t].status # "live" /\ tokens'[t].status = "burned"
    <3>1. tokens[t] \in Row
      BY <1>1 DEF TypeOK
    <3>2. [tokens[t] EXCEPT !.status = "burned"].status = "burned"
      BY <3>1 DEF Row
    <3>3. tokens'[t] = IF t \in LiveIn(tokens, task[w].collection)
                       THEN [tokens[t] EXCEPT !.status = "burned"] ELSE tokens[t]
      BY <1>4 DEF BurnItsTokens
    <3>4. t \in LiveIn(tokens, task[w].collection) => Of[t] = task[w].collection
      BY DEF LiveIn
    <3>5. chain[t].status = "live" => chainCollections[Of[t]] # "burned"
      BY DEF IndexInv, ChainKnown
    <3>. QED BY <2>1, <3>2, <3>3, <3>4, <3>5
  <2>5. \A t \in Tokens \ failed' : RowFollows(t) => RowFollows(t)'
    BY <1>1, <2>4 DEF RowFollows
  <2>. QED BY <1>1, <1>2, <2>3, <2>5, FollowWorker DEF Busy
<1>. QED BY <1>3, <1>4, CollectionMoves

\* The chain goes on in no phase in which rows are written.
LEMMA FollowChain ==
  ASSUME FollowInv, IndexInv, ChainStep
  PROVE  FollowInv'
<1>1. TypeOK /\ phase = "chain" /\ UNCHANGED <<ahead, early, tokens, task, failed>>
  BY DEF IndexInv, ChainStep, Mint, Transfer, Burn, SetProperty, Grow, CollectionEvent, tables,
         beyond
<1>2. \A v \in Workers : task'[v].pc # "insert"
  BY <1>1 DEF IndexInv, AtBlock, LivePlaces
<1>3. size' # 0
  BY <1>1 DEF ChainStep, Mint, Transfer, Burn, SetProperty, Grow, CollectionEvent, TypeOK
<1>4. ASSUME NEW t \in Tokens, Mint(t) \/ Transfer(t) \/ Burn(t) \/ SetProperty(t)
      PROVE  RowsTold'
  <2>1. PICK row, kind, address : Grow(t, row, kind, address)
    BY <1>4 DEF Mint, Transfer, Burn, SetProperty
  <2>2. \A u \in Tokens \ {t} : chain'[u] = chain[u]
    BY <1>1, <2>1 DEF Grow, TypeOK
  <2>3. events \subseteq events'
    BY <2>1 DEF Grow
  <2>4. \E e \in events' : e.token = t
    <3>1. [token |-> t, kind |-> kind, address |-> address].token = t
      OBVIOUS
    <3>. QED BY <2>1, <3>1 DEF Grow
  <2>. QED BY <1>1, <2>2, <2>3, <2>4 DEF FollowInv, RowsTold, RowFollows, Busy
<1>5. ASSUME NEW c \in Collections, CollectionEvent(c)
      PROVE  RowsTold'
  BY <1>1, <1>5 DEF CollectionEvent, FollowInv, RowsTold, RowFollows, Busy
<1>6. RowsTold'
  BY <1>4, <1>5 DEF ChainStep
<1>. QED BY <1>2, <1>3, <1>6 DEF FollowInv, LateInsert, EventsCounted

LEMMA FollowBatch ==
  ASSUME FollowInv, IndexInv,
         \/ StoreEvents \/ CollectionsProcessed \/ BlockProcessed \/ UNCHANGED vars
  PROVE  FollowInv'
<1>1. UNCHANGED <<chain, early, events, tokens, task, failed>>
  BY DEF StoreEvents, CollectionsProcessed, BlockProcessed, vars, onChain, blocks, beyond,
         pending, tables
<1>2. UNCHANGED size \/ events = {}
  BY DEF StoreEvents, CollectionsProcessed, BlockProcessed, vars, onChain, blocks
<1>3. CASE UNCHANGED ahead
  BY <1>1, <1>2, <1>3 DEF FollowInv, RowsTold, RowFollows, Busy, LateInsert, EventsCounted
<1>4. CASE StoreEvents
  <2>1. \A t \in Tokens : (t \in ahead' <=> t \in ahead) \/ \E e \in events : e.token = t
    BY <1>4 DEF StoreEvents, Renewed
  <2>2. \A t \in Tokens : RowFollows(t) => RowFollows(t)' \/ \E e \in events' : e.token = t
    BY <1>1, <2>1 DEF RowFollows
  <2>3. RowsTold'
    BY <1>1, <2>2 DEF FollowInv, RowsTold, Busy
  <2>4. \A v \in Workers : task'[v].pc # "insert"
    BY <1>1, <1>4 DEF StoreEvents, IndexInv, AtBlock, LivePlaces
  <2>. QED BY <1>1, <1>2, <2>3, <2>4 DEF FollowInv, LateInsert, EventsCounted
<1>. QED BY <1>3, <1>4 DEF CollectionsProcessed, BlockProcessed, vars, onChain, beyond

LEMMA NextFollow ==
  ASSUME Rescanners = {}, FollowInv, IndexInv, [Next]_vars
  PROVE  FollowInv'
<1>1. ASSUME NEW w \in Workers,
             \/ DeleteOwners(w) \/ SaveOwner(w) \/ FindToken(w) \/ InsertToken(w)
             \/ UpdateToken(w) \/ DropOwner(w) \/ BurnToken(w)
      PROVE  FollowInv'
  BY <1>1, FollowMoves, FollowEnds DEF IndexInv
<1>2. ASSUME NEW w \in Workers,
             \/ InsertRefused(w) \/ TokenFails(w) \/ TakeToken(w)
             \/ TokenInserted(w) \/ TokenUpdated(w) \/ TokenBurned(w)
      PROVE  FollowInv'
  BY <1>2, FollowEnds, FollowTake, FollowCommit
<1>3. \A w \in Workers : ~RescanToken(w)
  BY DEF RescanToken
<1>. QED BY <1>1, <1>2, <1>3, FollowCollection, FollowChain, FollowBatch DEF Next, Continue

\* Between two blocks a row of tokens is as the chain has the token, unless an
\* event of it was rejected, for any number of events at once and of blocks; a
\* token the head answered for is there, unless it was burned ahead of its block.
THEOREM TokensFollow == ASSUME Rescanners = {} PROVE Spec => []TokensFollowChain
<1>1. Init => FollowInv
  <2>1. Idle.pc = "idle" /\ Absent.status = "absent"
    BY DEF Idle, Absent
  <2>. QED BY <2>1 DEF Init, FollowInv, RowsTold, RowFollows, LateInsert, EventsCounted
<1>2. FollowInv /\ IndexInv /\ [Next]_vars => FollowInv'
  BY NextFollow
<1>3. FollowInv => TokensFollowChain
  BY DEF FollowInv, EventsCounted, RowsTold, TokensFollowChain, Settled, RowFollows, Busy, TokenPlaces
<1>. QED BY <1>1, <1>2, <1>3, InitInv, NextInv, PTL DEF Spec

-----------------------------------------------------------------------------
(***************************************************************************)
(* Why tokens_owners follows the chain: before the events of a token are   *)
(* handled their addresses name the owner that the table still has; while  *)
(* they are handled, the table is right, or somebody is still to write it. *)
(* The row of an owner of another prefix stays when the token is burned.   *)
(***************************************************************************)
RightOwners(t) == IF chain[t].status = "live" THEN {chain[t].owner} ELSE {}

OwnersRight(t) ==
  IF chain[t].status = "burned" THEN tokens_owners[t] \subseteq Foreign
  ELSE tokens_owners[t] = RightOwners(t)

Tells(e, t) == e.token = t /\ e.kind # "property"

OwnersBefore(t) ==
  IF \E e \in events : Tells(e, t)
  THEN \A o \in tokens_owners[t] : \E e \in events : Tells(e, t) /\ e.address = o
  ELSE OwnersRight(t)

OwnersOfLive(t) ==
  \/ tokens_owners[t] = RightOwners(t)
  \/ \E e \in events : Tells(e, t)
  \/ \E w \in Workers : task[w].pc \in {"owners", "owner"} /\ task[w].token = t

OwnersOfBurned(t) ==
  \A o \in tokens_owners[t] :
    \/ chain[t].status = "burned" /\ o \in Foreign
    \/ \E e \in events : Tells(e, t) /\ e.address = o
    \/ \E w \in Workers : task[w].pc = "part" /\ task[w].token = t /\ task[w].address = o

OwnersTold(t) ==
  /\ phase = "chain" => OwnersBefore(t)
  /\ phase # "chain" /\ chain[t].status = "live" => OwnersOfLive(t)
  /\ phase # "chain" /\ chain[t].status # "live" => OwnersOfBurned(t)

\* Who is about to save the owner that the block has finds no other.
OneOwner ==
  \A w \in Workers : task[w].pc = "owner" /\ task[w].token \notin ahead =>
    tokens_owners[task[w].token] \subseteq {chain[task[w].token].owner}

TellsAddress == \A e \in events : e.kind # "property" => e.address # NoAddress

OwnersInv ==
  /\ \A t \in Tokens \ (failed \cup ahead) : OwnersTold(t)
  /\ OneOwner
  /\ TellsAddress

\* A worker's step that has nothing to do with owners.
LEMMA OwnersWorker ==
  ASSUME OwnersInv, TypeOK, NEW w \in Workers, NEW n,
         task' = [task EXCEPT ![w] = n], n.pc # "owner",
         UNCHANGED <<chain, ahead, phase, events, tokens_owners>>, failed \subseteq failed',
         task[w].pc \notin {"owners", "owner", "part"} \/ task[w].token \in failed'
  PROVE  OwnersInv'
<1>1. \A v \in Workers : task'[v] = IF v = w THEN n ELSE task[v]
  BY DEF TypeOK
<1>2. OneOwner' /\ TellsAddress'
  BY <1>1 DEF OwnersInv, OneOwner, TellsAddress
<1>3. ASSUME NEW t \in Tokens \ (failed' \cup ahead') PROVE OwnersTold(t)'
  <2>1. OwnersTold(t)
    BY <1>3 DEF OwnersInv
  <2>2. OwnersBefore(t) => OwnersBefore(t)'
    BY DEF OwnersBefore, OwnersRight, RightOwners
  <2>3. OwnersOfLive(t) => OwnersOfLive(t)'
    BY <1>1, <1>3 DEF OwnersOfLive, RightOwners
  <2>4. OwnersOfBurned(t) => OwnersOfBurned(t)'
    BY <1>1, <1>3 DEF OwnersOfBurned
  <2>. QED BY <2>1, <2>2, <2>3, <2>4 DEF OwnersTold
<1>. QED BY <1>2, <1>3 DEF OwnersInv

\* A worker's step that writes the owners of a token that is in its hands.
LEMMA OwnersWriter ==
  ASSUME OwnersInv, TypeOK, NEW w \in Workers, NEW n, NEW t \in Tokens, NEW owners,
         phase = "tokens", task[w].token = t, n.token = t,
         task' = [task EXCEPT ![w] = n],
         tokens_owners' = [tokens_owners EXCEPT ![t] = owners],
         UNCHANGED <<chain, ahead, phase, events, failed>>,
         t \in failed \cup ahead \/ OwnersTold(t)',
         \/ t \in ahead
         \/ owners \subseteq {chain[t].owner}
         \/ \A v \in Workers \ {w} : task[v].pc = "owner" => task[v].token # t,
         n.pc = "owner" => t \in ahead \/ owners \subseteq {chain[t].owner}
  PROVE  OwnersInv'
<1>1. \A v \in Workers : task'[v] = IF v = w THEN n ELSE task[v]
  BY DEF TypeOK
<1>2. \A u \in Tokens : tokens_owners'[u] = IF u = t THEN owners ELSE tokens_owners[u]
  BY DEF TypeOK
<1>3. OneOwner'
  <2>1. SUFFICES ASSUME NEW v \in Workers, task'[v].pc = "owner", task'[v].token \notin ahead
                 PROVE  tokens_owners'[task'[v].token] \subseteq {chain[task'[v].token].owner}
    BY DEF OneOwner
  <2>2. CASE v = w
    BY <1>1, <1>2, <2>1, <2>2
  <2>3. CASE v # w
    <3>1. task'[v] = task[v] /\ task[v].token \in Tokens
      BY <1>1, <2>3 DEF TypeOK, Task
    <3>2. tokens_owners[task[v].token] \subseteq {chain[task[v].token].owner}
      BY <2>1, <3>1 DEF OwnersInv, OneOwner
    <3>. QED BY <1>2, <2>1, <2>3, <3>1, <3>2
  <2>. QED BY <2>2, <2>3
<1>4. ASSUME NEW u \in Tokens \ (failed' \cup ahead'), u # t PROVE OwnersTold(u)'
  <2>1. OwnersTold(u) /\ tokens_owners'[u] = tokens_owners[u]
    BY <1>2, <1>4 DEF OwnersInv
  <2>2. OwnersOfLive(u) => OwnersOfLive(u)'
    BY <1>1, <1>4, <2>1 DEF OwnersOfLive, RightOwners
  <2>3. OwnersOfBurned(u) => OwnersOfBurned(u)'
    BY <1>1, <1>4, <2>1 DEF OwnersOfBurned
  <2>. QED BY <2>1, <2>2, <2>3 DEF OwnersTold
<1>5. TellsAddress'
  BY DEF OwnersInv, TellsAddress
<1>. QED BY <1>3, <1>4, <1>5 DEF OwnersInv

LEMMA OwnersWritten ==
  ASSUME OwnersInv, IndexInv, NEW w \in Workers,
         DeleteOwners(w) \/ SaveOwner(w) \/ DropOwner(w)
  PROVE  OwnersInv'
<1>1. TypeOK /\ AtBlock(task[w]) /\ \A v \in Workers : AtBlock(task[v])
  BY DEF IndexInv
<1>2. PICK t \in Tokens : t = task[w].token
  BY <1>1 DEF TypeOK, Task
<1>3. UNCHANGED <<chain, ahead, phase, events, failed>>
  BY EventMoves, <1>1
<1>4. PICK n \in Task :
        /\ task' = [task EXCEPT ![w] = n]
        /\ n.token = t
        /\ n.pc = "owner" <=> DeleteOwners(w)
        /\ n.pc \notin {"owners", "part"}
  BY EventMoves, <1>1, <1>2
<1>5. \A v \in Workers : task'[v] = IF v = w THEN n ELSE task[v]
  BY <1>1, <1>4 DEF TypeOK
<1>6. CASE DeleteOwners(w)
  <2>1. tokens_owners' = [tokens_owners EXCEPT ![t] = {}] /\ task[w].pc = "owners"
    BY <1>2, <1>6 DEF DeleteOwners
  <2>2. phase = "tokens" /\ chain[t].status = "live"
    BY <1>1, <1>2, <2>1 DEF AtBlock, LivePlaces
  <2>3. OwnersTold(t)'
    BY <1>3, <1>4, <1>5, <1>6, <2>2 DEF OwnersTold, OwnersOfLive
  <2>. QED BY <1>1, <1>2, <1>3, <1>4, <2>1, <2>2, <2>3, OwnersWriter
<1>7. CASE SaveOwner(w)
  <2>1. /\ tokens_owners' = [tokens_owners EXCEPT ![t] = @ \cup {task[w].row.owner}]
        /\ task[w].pc = "owner"
    BY <1>2, <1>7 DEF SaveOwner
  <2>2. /\ phase = "tokens" /\ chain[t].status = "live"
        /\ t \notin ahead => task[w].row = chain[t]
    BY <1>1, <1>2, <2>1 DEF AtBlock, LivePlaces
  <2>3. t \notin ahead => tokens_owners[t] \subseteq {chain[t].owner}
    BY <1>2, <2>1 DEF OwnersInv, OneOwner
  <2>. DEFINE owners == tokens_owners[t] \cup {task[w].row.owner}
  <2>4. t \notin ahead => owners = {chain[t].owner}
    BY <2>2, <2>3
  <2>5. tokens_owners' = [tokens_owners EXCEPT ![t] = owners]
    BY <2>1
  <2>6. tokens_owners'[t] = owners
    BY <1>1, <2>5 DEF TypeOK
  <2>. HIDE DEF owners
  <2>7. t \notin ahead => OwnersTold(t)'
    BY <1>3, <2>2, <2>4, <2>6 DEF OwnersTold, OwnersOfLive, RightOwners
  <2>8. n.pc # "owner"
    BY <1>4, <2>1 DEF DeleteOwners
  <2>. QED BY <1>1, <1>2, <1>3, <1>4, <2>2, <2>4, <2>5, <2>7, <2>8, OwnersWriter
<1>8. CASE DropOwner(w)
  <2>1. /\ tokens_owners' = [tokens_owners EXCEPT ![t] = @ \ ({task[w].address} \ Foreign)]
        /\ task[w].pc = "part"
    BY <1>2, <1>8 DEF DropOwner
  <2>2. phase = "tokens" /\ (t \in ahead \/ chain[t].status = "burned")
    BY <1>1, <1>2, <2>1 DEF AtBlock, BurnPlaces
  <2>3. t \in ahead \/ \A v \in Workers : task[v].pc = "owner" => task[v].token # t
    BY <1>1, <2>2 DEF AtBlock, LivePlaces
  <2>4. tokens_owners'[t] = tokens_owners[t] \ ({task[w].address} \ Foreign)
    BY <1>1, <2>1 DEF TypeOK
  <2>5. n.pc # "owner"
    BY <1>4, <2>1 DEF DeleteOwners
  <2>6. ASSUME t \notin failed \cup ahead PROVE OwnersTold(t)'
    <3>0. chain[t].status = "burned"
      BY <2>2, <2>6
    <3>1. OwnersOfBurned(t)
      BY <2>2, <2>6, <3>0 DEF OwnersInv, OwnersTold
    <3>2. OwnersOfBurned(t)'
      BY <1>2, <1>3, <1>5, <2>4, <3>0, <3>1 DEF OwnersOfBurned
    <3>. QED BY <1>3, <2>2, <3>0, <3>2 DEF OwnersTold
  <2>. QED BY <1>1, <1>2, <1>3, <1>4, <2>1, <2>2, <2>3, <2>5, <2>6, OwnersWriter
<1>. QED BY <1>6, <1>7, <1>8

\* A worker takes an event and with it what the event tells of the owner.
LEMMA OwnersTake ==
  ASSUME OwnersInv, IndexInv, NEW w \in Workers, TakeToken(w)
  PROVE  OwnersInv'
<1>1. /\ TypeOK /\ phase = "tokens" /\ task[w].pc = "idle"
      /\ UNCHANGED <<chain, phase, tokens_owners>> /\ ahead \subseteq ahead'
  BY TokenTaken DEF IndexInv
<1>2. PICK event \in events, row \in Row : \E address \in DataOf(event) :
        /\ events' = events \ {event}
        /\ event.token \in Tokens
        /\ Start(w, event.token, row, address)
        /\ row = chain[event.token] \/ event.token \in ahead'
  BY TokenTaken
<1>3. PICK address \in DataOf(event) : Start(w, event.token, row, address)
  BY <1>2
<1>4. PICK t \in Tokens : t = event.token
  BY <1>2
<1>. DEFINE n == Begin(t, row, address)
<1>5. task' = [task EXCEPT ![w] = n] /\ failed \subseteq failed'
  BY <1>3, <1>4 DEF Start
<1>6. /\ n.token = t /\ n.address = address
      /\ n.pc = IF row.status = "live"
                THEN IF address = NoAddress THEN "find" ELSE "owners"
                ELSE IF address = NoAddress THEN "idle" ELSE "part"
  BY BeginPlaces
<1>11. row = chain[t] \/ t \in ahead'
  BY <1>2, <1>4
<1>. HIDE DEF n
<1>7. event.kind # "property" => address = event.address /\ address # NoAddress
  BY <1>3 DEF OwnersInv, TellsAddress, DataOf
<1>8. \A v \in Workers : task'[v] = IF v = w THEN n ELSE task[v]
  BY <1>1, <1>5 DEF TypeOK
<1>9. OneOwner' /\ TellsAddress'
  BY <1>1, <1>2, <1>6, <1>8 DEF OwnersInv, OneOwner, TellsAddress
<1>10. ASSUME NEW u \in Tokens \ (failed' \cup ahead') PROVE OwnersTold(u)'
  <2>1. OwnersTold(u)
    BY <1>1, <1>5, <1>10 DEF OwnersInv
  <2>2. ASSUME chain[u].status = "live" PROVE OwnersOfLive(u)'
    <3>1. OwnersOfLive(u)
      BY <1>1, <2>1, <2>2 DEF OwnersTold
    <3>2. CASE tokens_owners[u] = RightOwners(u)
      BY <1>1, <3>2 DEF OwnersOfLive, RightOwners
    <3>3. CASE \E v \in Workers : task[v].pc \in {"owners", "owner"} /\ task[v].token = u
      BY <1>1, <1>8, <3>3 DEF OwnersOfLive
    <3>4. ASSUME NEW e \in events, Tells(e, u) PROVE OwnersOfLive(u)'
      <4>1. CASE e = event
        <5>1. n.pc = "owners" /\ n.token = u
          BY <1>4, <1>6, <1>7, <1>10, <1>11, <2>2, <3>4, <4>1 DEF Tells
        <5>. QED BY <1>8, <5>1 DEF OwnersOfLive
      <4>2. CASE e # event
        BY <1>2, <3>4, <4>2 DEF OwnersOfLive
      <4>. QED BY <4>1, <4>2
    <3>. QED BY <3>1, <3>2, <3>3, <3>4 DEF OwnersOfLive
  <2>3. ASSUME chain[u].status # "live" PROVE OwnersOfBurned(u)'
    <3>1. OwnersOfBurned(u)
      BY <1>1, <2>1, <2>3 DEF OwnersTold
    <3>2. SUFFICES ASSUME NEW o \in tokens_owners[u]
                   PROVE  \/ chain[u].status = "burned" /\ o \in Foreign
                          \/ \E e \in events' : Tells(e, u) /\ e.address = o
                          \/ \E v \in Workers :
                               task'[v].pc = "part" /\ task'[v].token = u /\ task'[v].address = o
      BY <1>1 DEF OwnersOfBurned
    <3>3. CASE \E v \in Workers : task[v].pc = "part" /\ task[v].token = u /\ task[v].address = o
      BY <1>1, <1>8, <3>3
    <3>4. ASSUME NEW e \in events, Tells(e, u), e.address = o
          PROVE  \/ \E x \in events' : Tells(x, u) /\ x.address = o
                 \/ task'[w].pc = "part" /\ task'[w].token = u /\ task'[w].address = o
      <4>1. CASE e = event
        <5>1. n.pc = "part" /\ n.token = u /\ n.address = o
          BY <1>4, <1>6, <1>7, <1>10, <1>11, <2>3, <3>4, <4>1 DEF Tells
        <5>. QED BY <1>8, <5>1
      <4>2. CASE e # event
        BY <1>2, <3>4, <4>2
      <4>. QED BY <4>1, <4>2
    <3>. QED BY <3>1, <3>3, <3>4 DEF OwnersOfBurned
  <2>. QED BY <1>1, <2>2, <2>3 DEF OwnersTold
<1>. QED BY <1>9, <1>10 DEF OwnersInv

\* What the chain does to a token is told with the owner that the table has.
LEMMA OwnersGrow ==
  ASSUME OwnersInv, IndexInv, phase = "chain",
         NEW t \in Tokens, NEW row, NEW kind, NEW address, Grow(t, row, kind, address),
         IF kind = "property" THEN row = chain[t]
         ELSE /\ chain[t].status # "burned"
              /\ address # NoAddress /\ RightOwners(t) \subseteq {address}
  PROVE  OwnersInv'
<1>1. TypeOK /\ UNCHANGED <<ahead, phase, tokens_owners, task, failed>>
  BY DEF IndexInv, Grow, tables
<1>2. chain' = [chain EXCEPT ![t] = row] /\ events \subseteq events'
  BY DEF Grow
<1>3. PICK event : /\ event.token = t /\ event.kind = kind /\ event.address = address
                   /\ events' = IF \E e \in events : e.token = t /\ e.kind = kind
                                THEN events ELSE events \cup {event}
  <2>. DEFINE event == [token |-> t, kind |-> kind, address |-> address]
  <2>1. event.token = t /\ event.kind = kind /\ event.address = address
    OBVIOUS
  <2>2. events' = IF \E e \in events : e.token = t /\ e.kind = kind
                  THEN events ELSE events \cup {event}
    BY DEF Grow
  <2>. QED BY <2>1, <2>2
<1>4. TellsAddress'
  BY <1>3 DEF OwnersInv, TellsAddress
<1>5. OneOwner'
  BY <1>1 DEF OneOwner, IndexInv, AtBlock, LivePlaces
<1>6. ASSUME NEW u \in Tokens \ (failed' \cup ahead') PROVE OwnersBefore(u)'
  <2>1. OwnersBefore(u)
    BY <1>1, <1>6 DEF OwnersInv, OwnersTold
  <2>2. CASE \E e \in events : Tells(e, u)
    BY <1>1, <1>2, <2>1, <2>2 DEF OwnersBefore
  <2>3. ASSUME ~\E e \in events : Tells(e, u), u # t \/ kind = "property"
        PROVE  OwnersBefore(u)'
    <3>1. ~\E e \in events' : Tells(e, u)
      BY <1>3, <2>3 DEF Tells
    <3>2. chain'[u] = chain[u]
      BY <1>1, <1>2, <2>3 DEF TypeOK
    <3>. QED BY <1>1, <2>1, <2>3, <3>1, <3>2 DEF OwnersBefore, OwnersRight, RightOwners
  <2>4. ASSUME ~\E e \in events : Tells(e, u), u = t, kind # "property"
        PROVE  OwnersBefore(u)'
    <3>1. event \in events' /\ Tells(event, u)
      BY <1>3, <2>4 DEF Tells
    <3>2. \A o \in tokens_owners'[u] : event.address = o
      BY <1>1, <1>3, <2>1, <2>4 DEF OwnersBefore, OwnersRight
    <3>. QED BY <3>1, <3>2 DEF OwnersBefore
  <2>. QED BY <2>2, <2>3, <2>4
<1>. QED BY <1>1, <1>4, <1>5, <1>6 DEF OwnersInv, OwnersTold

LEMMA OwnersChain ==
  ASSUME OwnersInv, IndexInv, ChainStep
  PROVE  OwnersInv'
<1>1. TypeOK /\ NoAddress \notin Owners
  BY IndexAssumption DEF IndexInv
<1>2. ASSUME NEW t \in Tokens, Mint(t) PROVE OwnersInv'
  <2>1. PICK o \in Owners : Grow(t, [status |-> "live", owner |-> o], "created", o)
    BY <1>2 DEF Mint
  <2>2. /\ phase = "chain" /\ o # NoAddress
        /\ RightOwners(t) = {} /\ chain[t].status = "absent"
    BY <1>1, <1>2, <2>1 DEF Mint, Grow, RightOwners
  <2>. QED BY <2>1, <2>2, OwnersGrow
<1>3. ASSUME NEW t \in Tokens, Transfer(t) \/ Burn(t) PROVE OwnersInv'
  <2>1. chain[t].status = "live" /\ chain[t].owner \in Owners
    BY <1>1, <1>3 DEF Transfer, Burn, TypeOK, Row
  <2>2. RightOwners(t) = {chain[t].owner} /\ chain[t].owner # NoAddress
    BY <1>1, <2>1 DEF RightOwners
  <2>3. PICK row, kind : Grow(t, row, kind, chain[t].owner) /\ kind # "property"
    <3>0. "transfer" # "property" /\ "destroyed" # "property"
      OBVIOUS
    <3>1. CASE Transfer(t)
      <4>1. PICK o \in Owners :
              Grow(t, [chain[t] EXCEPT !.owner = o], "transfer", chain[t].owner)
        BY <3>1, Zenon DEF Transfer
      <4>. QED BY <3>0, <4>1, Zenon
    <3>2. CASE Burn(t)
      <4>1. Grow(t, [chain[t] EXCEPT !.status = "burned"], "destroyed", chain[t].owner)
        BY <3>2, Zenon DEF Burn
      <4>. QED BY <3>0, <4>1, Zenon
    <3>. QED BY <1>3, <3>1, <3>2
  <2>4. phase = "chain"
    BY <2>3 DEF Grow
  <2>. QED BY <2>1, <2>2, <2>3, <2>4, OwnersGrow
<1>4. ASSUME NEW t \in Tokens, SetProperty(t) PROVE OwnersInv'
  <2>1. Grow(t, chain[t], "property", NoAddress)
    BY <1>4 DEF SetProperty
  <2>2. phase = "chain"
    BY <2>1 DEF Grow
  <2>. QED BY <2>1, <2>2, OwnersGrow
<1>5. ASSUME NEW c \in Collections, CollectionEvent(c) PROVE OwnersInv'
  <2>1. /\ UNCHANGED <<chain, ahead, phase, events, tokens_owners, task, failed>>
        /\ phase = "chain"
    BY <1>5 DEF CollectionEvent, tables, beyond
  <2>. QED BY <2>1 DEF OwnersInv, OwnersTold, OwnersBefore, OwnersRight, RightOwners, OneOwner,
                       TellsAddress
<1>. QED BY <1>2, <1>3, <1>4, <1>5 DEF ChainStep

LEMMA OwnersBatch ==
  ASSUME Rescanners = {}, OwnersInv, IndexInv,
         StoreEvents \/ CollectionsProcessed \/ BlockProcessed \/ UNCHANGED vars
  PROVE  OwnersInv'
<1>1. UNCHANGED <<chain, events, tokens_owners, task, failed>>
  BY DEF StoreEvents, CollectionsProcessed, BlockProcessed, vars, onChain, blocks, pending, tables
<1>2. StoreEvents \/ UNCHANGED ahead
  BY DEF CollectionsProcessed, BlockProcessed, vars, onChain, beyond
<1>3. OneOwner' /\ TellsAddress'
  <2>1. CASE StoreEvents
    <3>1. \A v \in Workers : task[v].pc # "owner"
      BY <2>1 DEF StoreEvents, IndexInv, AtBlock, LivePlaces
    <3>. QED BY <1>1, <3>1 DEF OwnersInv, OneOwner, TellsAddress
  <2>2. CASE UNCHANGED ahead
    BY <1>1, <2>2 DEF OwnersInv, OneOwner, TellsAddress
  <2>. QED BY <1>2, <2>1, <2>2
<1>4. ASSUME NEW t \in Tokens \ (failed' \cup ahead') PROVE OwnersTold(t)'
  <2>1. /\ OwnersBefore(t) <=> OwnersBefore(t)'
        /\ OwnersOfLive(t) <=> OwnersOfLive(t)'
        /\ OwnersOfBurned(t) <=> OwnersOfBurned(t)'
    BY <1>1 DEF OwnersBefore, OwnersOfLive, OwnersOfBurned, OwnersRight, RightOwners
  <2>2. CASE t \in ahead
    <3>1. StoreEvents /\ Renewed(t) /\ phase' = "collections"
      BY <1>2, <1>4, <2>2 DEF StoreEvents
    <3>2. chain'[t].status = "live" /\ OwnersOfLive(t)
      BY <1>1, <3>1 DEF Renewed, OwnersOfLive, Tells
    <3>. QED BY <2>1, <3>1, <3>2 DEF OwnersTold
  <2>3. ASSUME t \notin ahead PROVE OwnersTold(t)
    BY <1>1, <1>4, <2>3 DEF OwnersInv
  <2>4. CASE StoreEvents /\ t \notin ahead
    <3>1. OwnersBefore(t) /\ phase' = "collections"
      BY <2>3, <2>4 DEF OwnersTold, StoreEvents
    <3>2. chain[t].status = "live" => OwnersOfLive(t)
      BY <3>1 DEF OwnersBefore, OwnersOfLive, OwnersRight
    <3>3. chain[t].status # "live" => OwnersOfBurned(t)
      BY <3>1 DEF OwnersBefore, OwnersOfBurned, OwnersRight, RightOwners
    <3>. QED BY <1>1, <2>1, <3>1, <3>2, <3>3 DEF OwnersTold
  <2>5. CASE (CollectionsProcessed \/ UNCHANGED vars) /\ t \notin ahead
    <3>1. (phase' = "chain") = (phase = "chain")
      BY <2>5 DEF CollectionsProcessed, vars, pending
    <3>. QED BY <1>1, <2>1, <2>3, <2>5, <3>1 DEF OwnersTold
  <2>6. CASE BlockProcessed /\ t \notin ahead
    <3>1. events = {} /\ phase = "tokens" /\ phase' = "chain" /\ \A w \in Workers : task[w].pc = "idle"
      BY <2>6 DEF BlockProcessed, Quiet
    <3>2. CASE chain[t].status = "live"
      <4>1. OwnersOfLive(t)
        BY <2>3, <2>6, <3>1, <3>2 DEF OwnersTold
      <4>. QED BY <1>1, <2>1, <3>1, <3>2, <4>1 DEF OwnersTold, OwnersOfLive, OwnersBefore, OwnersRight
    <3>3. CASE chain[t].status # "live"
      <4>1. OwnersOfBurned(t)
        BY <2>3, <2>6, <3>1, <3>3 DEF OwnersTold
      <4>2. \A o \in tokens_owners[t] : chain[t].status = "burned" /\ o \in Foreign
        BY <3>1, <4>1 DEF OwnersOfBurned
      <4>3. OwnersBefore(t)
        BY <3>1, <3>3, <4>2 DEF OwnersBefore, OwnersRight, RightOwners
      <4>. QED BY <1>1, <2>1, <3>1, <4>3 DEF OwnersTold
    <3>. QED BY <3>2, <3>3
  <2>. QED BY <2>2, <2>4, <2>5, <2>6
<1>. QED BY <1>3, <1>4 DEF OwnersInv

LEMMA NextOwners ==
  ASSUME Rescanners = {}, OwnersInv, IndexInv, [Next]_vars
  PROVE  OwnersInv'
<1>. TypeOK
  BY DEF IndexInv
<1>1. ASSUME NEW w \in Workers,
             \/ FindToken(w) \/ InsertToken(w) \/ UpdateToken(w)
             \/ BurnToken(w) /\ tokens[task[w].token].status # "absent"
      PROVE  OwnersInv'
  <2>1. task[w].pc \in {"find", "insert", "update", "burn"} /\ UNCHANGED tokens_owners
    BY <1>1 DEF FindToken, InsertToken, UpdateToken, BurnToken, tables
  <2>2. UNCHANGED <<chain, ahead, phase, events, failed>>
    BY <1>1, EventMoves
  <2>3. PICK n \in Task : task' = [task EXCEPT ![w] = n] /\ (n.pc = "owner" <=> DeleteOwners(w))
    BY <1>1, EventMoves
  <2>4. n.pc # "owner"
    BY <2>1, <2>3 DEF DeleteOwners
  <2>. QED BY <2>1, <2>2, <2>3, <2>4, OwnersWorker
<1>2. ASSUME NEW w \in Workers,
             \/ InsertRefused(w) \/ TokenFails(w)
             \/ BurnToken(w) /\ tokens[task[w].token].status = "absent"
             \/ TokenInserted(w) \/ TokenUpdated(w) \/ TokenBurned(w)
      PROVE  OwnersInv'
  <2>1. /\ task' = [task EXCEPT ![w] = Idle]
        /\ UNCHANGED <<chain, ahead, phase, events, tokens_owners>> /\ failed \subseteq failed'
    BY <1>2 DEF InsertRefused, TokenFails, BurnToken, TokenInserted, TokenUpdated, TokenBurned,
                Commit, Finish, onChain, pending, tables
  <2>2. \/ task[w].pc \in {"insert", "burn", "inserting", "updating", "burning"}
        \/ task[w].token \in failed'
    BY <1>2 DEF InsertRefused, TokenFails, BurnToken, TokenInserted, TokenUpdated, TokenBurned
  <2>3. Idle.pc # "owner"
    BY DEF Idle
  <2>. QED BY <2>1, <2>2, <2>3, OwnersWorker
<1>3. ASSUME NEW w \in Workers,
             \/ TakeCollection(w) \/ SaveCollection(w) \/ BurnCollection(w)
             \/ BurnItsTokens(w) \/ CollectionFails(w)
      PROVE  OwnersInv'
  <2>1. /\ UNCHANGED <<chain, ahead, phase, events, tokens_owners, failed>>
        /\ task[w].pc \in OtherPlaces
    BY <1>3, CollectionMoves
  <2>2. PICK n : task' = [task EXCEPT ![w] = n] /\ n.pc \in OtherPlaces
    BY <1>3, CollectionMoves
  <2>. QED BY <2>1, <2>2, OwnersWorker DEF OtherPlaces
<1>4. ASSUME NEW w \in Workers, BurnToken(w) PROVE OwnersInv'
  BY <1>1, <1>2, <1>4
<1>5. \A w \in Workers : ~RescanToken(w)
  BY DEF RescanToken
<1>. QED BY <1>1, <1>2, <1>3, <1>4, <1>5, OwnersTake, OwnersWritten, OwnersChain, OwnersBatch
     DEF Next, Continue

\* Between two blocks tokens_owners names the owner that the chain has of a
\* token and nobody else, unless an event of it was rejected or the head answered
\* for its block, for any number of events at once and of blocks; of a burned token
\* only the row of an owner stays whose address has a prefix of its own.
THEOREM OwnersFollow == ASSUME Rescanners = {} PROVE Spec => []OwnersFollowChain
<1>1. Init => FollowInv /\ OwnersInv
  <2>1. Idle.pc = "idle" /\ Absent.status = "absent"
    BY DEF Idle, Absent
  <2>2. Init => FollowInv
    BY <2>1 DEF Init, FollowInv, RowsTold, RowFollows, LateInsert, EventsCounted
  <2>. QED BY <2>1, <2>2 DEF Init, OwnersInv, OwnersTold, OwnersBefore, OwnersRight, RightOwners,
                             OneOwner, TellsAddress
<1>2. FollowInv /\ OwnersInv /\ IndexInv /\ [Next]_vars => FollowInv' /\ OwnersInv'
  BY NextFollow, NextOwners
<1>3. FollowInv /\ OwnersInv => OwnersFollowChain
  <2>1. SUFFICES ASSUME FollowInv, OwnersInv, Settled, NEW t \in Tokens \ (failed \cup ahead)
                 PROVE  IF chain[t].status = "live" THEN tokens_owners[t] = {chain[t].owner}
                        ELSE tokens_owners[t] \subseteq Foreign
    BY DEF OwnersFollowChain
  <2>2. events = {} /\ phase = "chain"
    BY <2>1 DEF FollowInv, EventsCounted, Settled
  <2>. QED BY <2>1, <2>2 DEF OwnersInv, OwnersTold, OwnersBefore, OwnersRight, RightOwners
<1>. QED BY <1>1, <1>2, <1>3, InitInv, NextInv, PTL DEF Spec
=============================================================================
