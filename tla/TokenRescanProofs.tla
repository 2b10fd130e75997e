-------------------------- MODULE TokenRescanProofs --------------------------
(***************************************************************************)
(* What holds of TokenIndex while tokens are rescanned too.                *)
(***************************************************************************)
EXTENDS TokenIndexProofs

(***************************************************************************)
(* A token is minted, then perhaps burned, and a collection that is burned *)
(* stays so: whatever a worker has once read, of a block or of the head,   *)
(* never becomes more than the head has.                                   *)
(***************************************************************************)
Burnable(t) == chain[t].status = "burned" \/ (t \in early /\ head[t] = "burned")

Justified(t) ==
  /\ t.pc \in LivePlaces => t.row.status = "live" /\ head[t.token] # "absent"
  /\ t.pc \in BurnPlaces => Burnable(t.token)
  /\ t.pc = "destroy" => chainCollections[t.collection] = "burned"

HeadKnown == \A t \in Tokens : head[t] \in Later(chain[t].status)

BeforeKnown == \A t \in Tokens : before[t].status # "absent" => head[t] # "absent"

BurnedAreEmpty ==
  \A t \in Tokens :
    chainCollections[Of[t]] = "burned" /\ head[t] # "absent" => chain[t].status = "burned"

RowsInv ==
  /\ TypeOK
  /\ RowsComeFromChain
  /\ HeadKnown
  /\ BeforeKnown
  /\ BurnedAreEmpty
  /\ EventsKnown
  /\ \A w \in Workers : Justified(task[w])

\* The chain goes on, and the tables and the workers stay as they are.
LEMMA RowsChain ==
  ASSUME RowsInv, TypeOK', UNCHANGED <<before, tokens, early, task>>,
         \A t \in Tokens :
           /\ chain[t].status = "burned" => chain'[t].status = "burned"
           /\ head[t] # "absent" => head'[t] # "absent"
           /\ head[t] = "burned" => head'[t] = "burned",
         \A c \in Collections : chainCollections[c] = "burned" => chainCollections'[c] = "burned",
         HeadKnown', BurnedAreEmpty', EventsKnown'
  PROVE  RowsInv'
<1>1. RowsComeFromChain' /\ BeforeKnown'
  BY DEF RowsInv, RowsComeFromChain, BeforeKnown
<1>2. ASSUME NEW w \in Workers PROVE Justified(task[w])'
  <2>1. task[w].token \in Tokens /\ task[w].collection \in Collections
    BY DEF RowsInv, TypeOK, Task
  <2>2. Justified(task[w])
    BY DEF RowsInv
  <2>3. QED
    BY <2>1, <2>2 DEF Justified, Burnable
<1>3. QED
  BY <1>1, <1>2 DEF RowsInv

LEMMA RowsGrow ==
  ASSUME RowsInv, TypeOK', NEW t \in Tokens, NEW row \in Row, NEW kind, NEW address,
         Grow(t, row, kind, address),
         row.status # "absent", chain[t].status # "burned"
  PROVE  RowsInv'
<1>0. head \in [Tokens -> {"absent", "live", "burned"}] /\ row.status \in {"live", "burned"}
  BY DEF RowsInv, TypeOK, Row
<1>1. \A u \in Tokens : chain'[u] = IF u = t THEN row ELSE chain[u]
  BY DEF RowsInv, TypeOK, Grow
<1>2. chainCollections' = chainCollections /\ chainCollections[Of[t]] = "live"
  BY DEF Grow
<1>3. \A u \in Tokens : head'[u] = IF u = t THEN AtLeast(head[u], row.status) ELSE head[u]
  BY <1>0 DEF Grow
<1>4. /\ AtLeast(head[t], row.status) \in Later(row.status)
      /\ head[t] # "absent" => AtLeast(head[t], row.status) # "absent"
      /\ head[t] = "burned" => AtLeast(head[t], row.status) = "burned"
  BY <1>0 DEF AtLeast, Later
<1>5. HeadKnown'
  BY <1>1, <1>3, <1>4 DEF RowsInv, HeadKnown
<1>6. BurnedAreEmpty'
  BY <1>1, <1>2, <1>3 DEF RowsInv, BurnedAreEmpty
<1>7. \A e \in events' : e.token = t \/ e \in events
  BY DEF Grow
<1>8. EventsKnown'
  <2>1. ASSUME NEW e \in events' PROVE chain'[e.token].status # "absent"
    <3>1. e.token \in Tokens
      BY DEF TypeOK, Event
    <3>2. QED
      BY <1>1, <1>7, <3>1 DEF RowsInv, EventsKnown
  <2>2. QED
    BY <2>1 DEF EventsKnown
<1>9. UNCHANGED <<before, tokens, early, task>>
  BY DEF Grow, tables
<1>10. QED
  BY <1>1, <1>2, <1>3, <1>4, <1>5, <1>6, <1>8, <1>9, RowsChain

LEMMA RowsChainStep == ASSUME RowsInv, TypeOK', ChainStep PROVE RowsInv'
<1>0. TypeOK
  BY DEF RowsInv
<1>1. ASSUME NEW t \in Tokens, Mint(t) PROVE RowsInv'
  <2>1. PICK o \in Owners : Grow(t, [status |-> "live", owner |-> o], "created", o)
    BY <1>1 DEF Mint
  <2>2. [status |-> "live", owner |-> o] \in Row
    BY DEF Row
  <2>3. QED
    BY <1>1, <2>1, <2>2, RowsGrow DEF Mint
<1>2. ASSUME NEW t \in Tokens, Transfer(t) PROVE RowsInv'
  <2>1. PICK o \in Owners : Grow(t, [chain[t] EXCEPT !.owner = o], "transfer", chain[t].owner)
    BY <1>2 DEF Transfer
  <2>2. [chain[t] EXCEPT !.owner = o] \in Row /\ [chain[t] EXCEPT !.owner = o].status = "live"
    BY <1>0, <1>2 DEF Transfer, TypeOK, Row
  <2>3. QED
    BY <1>2, <2>1, <2>2, RowsGrow DEF Transfer
<1>3. ASSUME NEW t \in Tokens, Burn(t) PROVE RowsInv'
  <2>1. chain[t] \in Row
    BY <1>0 DEF TypeOK
  <2>2. [chain[t] EXCEPT !.status = "burned"] \in Row
    BY <2>1 DEF Row
  <2>3. [chain[t] EXCEPT !.status = "burned"].status = "burned"
    BY <2>1 DEF Row
  <2>4. QED
    BY <1>3, <2>2, <2>3, RowsGrow DEF Burn
<1>4. ASSUME NEW t \in Tokens, SetProperty(t) PROVE RowsInv'
  <2>1. chain[t] \in Row /\ chain[t].status = "live"
    BY <1>0, <1>4 DEF TypeOK, SetProperty
  <2>2. QED
    BY <1>4, <2>1, RowsGrow DEF SetProperty
<1>5. ASSUME NEW c \in Collections, CollectionEvent(c) PROVE RowsInv'
  <2>1. UNCHANGED <<chain, before, head, early, tokens, task, events>>
    BY <1>5 DEF CollectionEvent, tables, beyond
  <2>2. \A d \in Collections : chainCollections[d] = "burned" => chainCollections'[d] = "burned"
    BY <1>0, <1>5 DEF CollectionEvent, TypeOK
  <2>3. ASSUME NEW t \in Tokens, head[t] # "absent", chain[t].status # "burned"
        PROVE  chainCollections'[Of[t]] # "burned"
    <3>1. chainCollections[Of[t]] # "burned" /\ Of[t] \in Collections
      BY <2>3, IndexAssumption DEF RowsInv, BurnedAreEmpty
    <3>2. chain[t].status \in {"absent", "live"}
      BY <1>0, <2>3 DEF TypeOK, Row
    <3>3. LiveIn(chain, c) \cup Coming(c) = {} => Of[t] # c
      BY <2>3, <3>2 DEF LiveIn, Statuses, Coming
    <3>4. QED
      BY <1>0, <1>5, <3>1, <3>3 DEF CollectionEvent, TypeOK
  <2>4. HeadKnown' /\ BurnedAreEmpty' /\ EventsKnown'
    BY <2>1, <2>3 DEF BurnedAreEmpty, RowsInv, EventsKnown, HeadKnown
  <2>5. QED
    BY <2>1, <2>2, <2>4, RowsChain
<1>6. QED
  BY <1>1, <1>2, <1>3, <1>4, <1>5 DEF ChainStep

\* One worker moves on; the rows it writes are those the chain allows.
LEMMA RowsWorker ==
  ASSUME RowsInv, TypeOK', NEW w \in Workers, NEW t,
         task' = [task EXCEPT ![w] = t], Justified(t), RowsComeFromChain',
         events' \subseteq events, UNCHANGED <<chain, before, chainCollections, head, early>>
  PROVE  RowsInv'
<1>1. \A v \in Workers : task'[v] = IF v = w THEN t ELSE task[v]
  BY DEF RowsInv, TypeOK
<1>2. \A v \in Workers : Justified(task[v])'
  BY <1>1 DEF RowsInv, Justified, Burnable
<1>3. HeadKnown' /\ BeforeKnown' /\ BurnedAreEmpty' /\ EventsKnown'
  BY DEF RowsInv, HeadKnown, BeforeKnown, BurnedAreEmpty, EventsKnown
<1>4. QED
  BY <1>2, <1>3 DEF RowsInv

LEMMA IdleJustified == Justified(Idle)
BY DEF Justified, Idle, LivePlaces, BurnPlaces

LEMMA RowsCollection ==
  ASSUME RowsInv, TypeOK', NEW w \in Workers,
         TakeCollection(w) \/ SaveCollection(w) \/ BurnCollection(w) \/ CollectionFails(w)
  PROVE  RowsInv'
<1>0. Justified(task[w])
  BY DEF RowsInv
<1>1. UNCHANGED <<chain, before, chainCollections, head, early, tokens, events>>
  BY DEF TakeCollection, SaveCollection, BurnCollection, CollectionFails, onChain, pending, tables
<1>2. RowsComeFromChain'
  BY <1>1 DEF RowsInv, RowsComeFromChain
<1>3. \A s : Justified(AfterBurn(task[w], s))
  <2>1. TAKE s
  <2>2. task[w] \in Task
    BY DEF RowsInv, TypeOK
  <2>3. CASE task[w].todo = {s}
    BY <2>3, IdleJustified DEF AfterBurn
  <2>4. CASE task[w].todo # {s}
    <3>1. /\ AfterBurn(task[w], s).pc = task[w].pc
          /\ AfterBurn(task[w], s).token = task[w].token
          /\ AfterBurn(task[w], s).row = task[w].row
          /\ AfterBurn(task[w], s).collection = task[w].collection
      BY <2>2, <2>4 DEF AfterBurn, Task
    <3>2. QED
      BY <1>0, <3>1 DEF Justified
  <2>5. QED
    BY <2>3, <2>4
<1>4. \E t : Justified(t) /\ task' = [task EXCEPT ![w] = t]
  <2>1. CASE TakeCollection(w)
    <3>1. PICK c \in collectionEvents :
            task' = [task EXCEPT ![w] =
              IF chainCollections[c] = "burned"
              THEN [Idle EXCEPT !.pc = "destroy", !.collection = c,
                                !.todo = {"collections", "tokens"}]
              ELSE [Idle EXCEPT !.pc = "save", !.collection = c,
                                !.burned = (collections[c] = "burned")]]
      BY <2>1 DEF TakeCollection
    <3>2. chainCollections[c] = "burned" =>
            Justified([Idle EXCEPT !.pc = "destroy", !.collection = c,
                                   !.todo = {"collections", "tokens"}])
      BY DEF Justified, Idle, LivePlaces, BurnPlaces
    <3>3. Justified([Idle EXCEPT !.pc = "save", !.collection = c,
                                 !.burned = (collections[c] = "burned")])
      BY DEF Justified, Idle, LivePlaces, BurnPlaces
    <3>4. QED
      BY <3>1, <3>2, <3>3
  <2>2. CASE SaveCollection(w)
    BY <2>2, IdleJustified DEF SaveCollection
  <2>3. CASE BurnCollection(w)
    BY <1>3, <2>3 DEF BurnCollection
  <2>4. CASE CollectionFails(w)
    BY <1>3, <2>4, IdleJustified DEF CollectionFails
  <2>5. QED
    BY <2>1, <2>2, <2>3, <2>4
<1>5. QED
  BY <1>1, <1>2, <1>4, RowsWorker

\* All live tokens of a collection that is burned are burned on the chain.
LEMMA RowsBurnItsTokens ==
  ASSUME RowsInv, TypeOK', NEW w \in Workers, BurnItsTokens(w) PROVE RowsInv'
<1> DEFINE c == task[w].collection
<1>0. task[w] \in Task /\ Justified(task[w]) /\ task[w].pc = "destroy"
  BY DEF RowsInv, TypeOK, BurnItsTokens
<1>1. chainCollections[c] = "burned"
  BY <1>0 DEF Justified
<1>2. UNCHANGED <<chain, before, chainCollections, head, early, events>>
  BY DEF BurnItsTokens, onChain, pending
<1>3. RowsComeFromChain'
  <2>1. ASSUME NEW t \in Tokens
        PROVE  /\ tokens'[t].status # "absent" => head[t] # "absent"
               /\ tokens'[t].status = "burned" => Burnable(t)
    <3>1. /\ tokens[t].status # "absent" => head[t] # "absent"
          /\ tokens[t].status = "burned" => Burnable(t)
      BY DEF RowsInv, RowsComeFromChain, Burnable
    <3>2. tokens'[t] = IF t \in LiveIn(tokens, c) THEN [tokens[t] EXCEPT !.status = "burned"]
                                                   ELSE tokens[t]
      BY DEF BurnItsTokens
    <3>3. CASE t \in LiveIn(tokens, c)
      <4>1. tokens[t].status = "live" /\ Of[t] = c
        BY <3>3 DEF LiveIn, Statuses
      <4>2. head[t] # "absent" /\ chain[t].status = "burned"
        BY <1>1, <3>1, <4>1 DEF RowsInv, BurnedAreEmpty
      <4>3. QED
        BY <4>2 DEF Burnable
    <3>4. CASE t \notin LiveIn(tokens, c)
      BY <3>1, <3>2, <3>4
    <3>5. QED
      BY <3>3, <3>4
  <2>2. QED
    BY <1>2, <2>1 DEF RowsComeFromChain, Burnable
<1>4. Justified(AfterBurn(task[w], "tokens"))
  <2>1. CASE task[w].todo = {"tokens"}
    BY <2>1, IdleJustified DEF AfterBurn
  <2>2. CASE task[w].todo # {"tokens"}
    <3>1. /\ AfterBurn(task[w], "tokens").pc = "destroy"
          /\ AfterBurn(task[w], "tokens").collection = c
      BY <1>0, <2>2 DEF AfterBurn, Task
    <3>2. QED
      BY <1>1, <3>1 DEF Justified, LivePlaces, BurnPlaces
  <2>3. QED
    BY <2>1, <2>2
<1>5. task' = [task EXCEPT ![w] = AfterBurn(task[w], "tokens")]
  BY DEF BurnItsTokens
<1>6. QED
  BY <1>2, <1>3, <1>4, <1>5, RowsWorker

\* A token is read at a block or at the head: what has shown of it stays so.
LEMMA RowsStart ==
  ASSUME RowsInv, TypeOK', NEW w \in Workers, NEW t \in Tokens, NEW row \in Row, NEW address,
         Start(w, t, row, address),
         UNCHANGED <<chain, before, chainCollections, tokens>>, events' \subseteq events,
         early \subseteq early', NEW s, s \in Later(head[t]),
         \A u \in Tokens : head'[u] = IF u = t THEN s ELSE head[u],
         chainCollections[Of[t]] = "burned" => s = head[t],
         row.status = "live" => s # "absent",
         row.status # "live" /\ address # NoAddress =>
           chain[t].status = "burned" \/ (t \in early' /\ s = "burned")
  PROVE  RowsInv'
<1>0. head[t] \in {"absent", "live", "burned"} /\ chain[t].status \in {"absent", "live", "burned"}
  BY DEF RowsInv, TypeOK, Row
<1>1. /\ head[t] # "absent" => s # "absent"
      /\ head[t] = "burned" => s = "burned"
      /\ s \in Later(chain[t].status)
  BY <1>0 DEF RowsInv, HeadKnown, Later
<1>2. HeadKnown' /\ BeforeKnown' /\ BurnedAreEmpty' /\ EventsKnown'
  BY <1>1 DEF RowsInv, HeadKnown, BeforeKnown, BurnedAreEmpty, EventsKnown
<1>3. \A u \in Tokens : Burnable(u) => Burnable(u)'
  BY <1>1 DEF Burnable
<1>4. RowsComeFromChain'
  BY <1>1, <1>3 DEF RowsInv, RowsComeFromChain, Burnable
<1> DEFINE n == Begin(t, row, address)
<1>5. /\ n.token = t /\ n.row = row
      /\ n.pc = IF row.status = "live"
                THEN IF address = NoAddress THEN "find" ELSE "owners"
                ELSE IF address = NoAddress THEN "idle" ELSE "part"
  BY BeginPlaces
<1>6. \A v \in Workers : task'[v] = IF v = w THEN n ELSE task[v]
  BY DEF Start, RowsInv, TypeOK
<1> HIDE DEF n
<1>7. ASSUME NEW v \in Workers PROVE Justified(task[v])'
  <2>1. CASE v = w
    <3>1. task'[v] = n /\ head'[t] = s
      BY <1>6, <2>1
    <3>2. n.pc \in LivePlaces => row.status = "live"
      BY <1>5 DEF LivePlaces
    <3>3. n.pc \in BurnPlaces => row.status # "live" /\ address # NoAddress
      BY <1>5 DEF BurnPlaces
    <3>4. n.pc # "destroy"
      BY <1>5
    <3>5. QED
      BY <1>5, <3>1, <3>2, <3>3, <3>4 DEF Justified, Burnable
  <2>2. CASE v # w
    <3>1. task'[v] = task[v] /\ Justified(task[v]) /\ task[v].token \in Tokens
      BY <1>6, <2>2 DEF RowsInv, TypeOK, Task
    <3>2. head[task[v].token] # "absent" => head'[task[v].token] # "absent"
      BY <1>1, <3>1
    <3>3. QED
      BY <1>3, <3>1, <3>2 DEF Justified
  <2>3. QED
    BY <2>1, <2>2
<1>8. QED
  BY <1>2, <1>4, <1>7 DEF RowsInv

\* The answer of the head, for an event or for a rescan.
LEMMA RowsFromHead ==
  ASSUME RowsInv, TypeOK', NEW w \in Workers, NEW t \in Tokens, NEW address,
         FromHead(w, t, address),
         UNCHANGED <<chain, before, chainCollections, tokens>>, events' \subseteq events,
         address = NoAddress \/ chain[t].status # "absent"
  PROVE  RowsInv'
<1>1. PICK row \in HeadRows(t) :
        /\ Start(w, t, row, address)
        /\ head' = [head EXCEPT ![t] = row.status]
        /\ early' = IF /\ row.status = "burned" /\ chain[t].status = "live"
                       /\ address # NoAddress
                    THEN early \cup {t} ELSE early
  BY DEF FromHead
<1>2. PICK s : s = row.status
  OBVIOUS
<1>3. /\ row \in Row /\ s \in Later(head[t])
      /\ chainCollections[Of[t]] = "burned" => s = head[t]
  BY <1>2 DEF HeadRows
<1>4. \A u \in Tokens : head'[u] = IF u = t THEN s ELSE head[u]
  BY <1>1, <1>2 DEF RowsInv, TypeOK
<1>5. early \subseteq early'
  BY <1>1
<1>6. ASSUME s # "live", address # NoAddress
      PROVE  chain[t].status = "burned" \/ (t \in early' /\ s = "burned")
  <2>1. chain[t].status \in {"live", "burned"} /\ head[t] \in Later(chain[t].status)
    BY <1>6 DEF RowsInv, TypeOK, HeadKnown, Row
  <2>2. chain[t].status = "live" => s = "burned"
    BY <1>3, <1>6, <2>1 DEF Later
  <2>3. QED
    BY <1>1, <1>2, <1>6, <2>1, <2>2
<1>7. QED
  BY <1>1, <1>2, <1>3, <1>4, <1>5, <1>6, RowsStart

\* An event is taken, or a token rescanned at the block before.
LEMMA RowsTake ==
  ASSUME RowsInv, TypeOK', NEW w \in Workers, TakeToken(w) \/ RescanToken(w)
  PROVE  RowsInv'
<1>0. TypeOK
  BY DEF RowsInv
<1>1. UNCHANGED <<chain, before, chainCollections, tokens>> /\ events' \subseteq events
  BY DEF TakeToken, RescanToken, blocks, pending, tables
<1>2. ASSUME NEW t \in Tokens, NEW row \in Row, NEW address, FromBlock(w, t, row, address),
             row.status # "absent" => head[t] # "absent",
             row.status # "live" /\ address # NoAddress => chain[t].status = "burned"
      PROVE  RowsInv'
  <2>1. Start(w, t, row, address) /\ UNCHANGED <<head, early>>
    BY <1>2 DEF FromBlock, beyond
  <2>2. head[t] \in Later(head[t])
    BY <1>0 DEF TypeOK, Later
  <2>3. QED
    BY <1>1, <1>2, <2>1, <2>2, RowsStart
<1>3. CASE TakeToken(w)
  <2>1. PICK event \in events : \E address \in DataOf(event) :
          \/ FromBlock(w, event.token, chain[event.token], address)
          \/ FromHead(w, event.token, address)
    BY <1>3 DEF TakeToken
  <2>2. PICK t \in Tokens : t = event.token
    BY <1>0 DEF TypeOK, Event
  <2>3. PICK address : FromBlock(w, t, chain[t], address) \/ FromHead(w, t, address)
    BY <2>1, <2>2
  <2>4. chain[t].status \in {"live", "burned"} /\ chain[t] \in Row
    BY <1>0, <2>2 DEF RowsInv, EventsKnown, TypeOK, Row
  <2>5. head[t] # "absent"
    BY <2>4 DEF RowsInv, HeadKnown, Later
  <2>6. CASE FromBlock(w, t, chain[t], address)
    BY <1>2, <2>4, <2>5, <2>6
  <2>7. CASE FromHead(w, t, address)
    BY <1>1, <2>4, <2>7, RowsFromHead
  <2>8. QED
    BY <2>3, <2>6, <2>7
<1>4. CASE RescanToken(w)
  <2>1. PICK t \in Tokens : FromBlock(w, t, before[t], NoAddress) \/ FromHead(w, t, NoAddress)
    BY <1>4 DEF RescanToken
  <2>2. before[t] \in Row /\ (before[t].status # "absent" => head[t] # "absent")
    BY <1>0 DEF TypeOK, RowsInv, BeforeKnown
  <2>3. QED
    BY <1>1, <1>2, <2>1, <2>2, RowsFromHead
<1>5. QED
  BY <1>3, <1>4

\* Steps of an event that write no row of tokens.
LEMMA RowsEventStep ==
  ASSUME RowsInv, TypeOK', NEW w \in Workers,
         \/ DeleteOwners(w) \/ SaveOwner(w) \/ FindToken(w) \/ InsertToken(w)
         \/ InsertRefused(w) \/ UpdateToken(w) \/ DropOwner(w) \/ BurnToken(w)
         \/ TokenFails(w)
  PROVE  RowsInv'
<1>0. task[w] \in Task /\ Justified(task[w])
  BY DEF RowsInv, TypeOK
<1>1. UNCHANGED <<chain, before, chainCollections, head, early, tokens, events>>
  BY DEF DeleteOwners, SaveOwner, FindToken, InsertToken, InsertRefused, UpdateToken,
         DropOwner, BurnToken, TokenFails, onChain, pending, tables
<1>2. RowsComeFromChain'
  BY <1>1 DEF RowsInv, RowsComeFromChain
<1>3. \A pc \in LivePlaces : task[w].pc \in LivePlaces =>
        Justified([task[w] EXCEPT !.pc = pc])
        /\ \A d : Justified([task[w] EXCEPT !.pc = pc, !.delta = d])
  BY <1>0 DEF Justified, Task, LivePlaces, BurnPlaces
<1>4. \A pc \in BurnPlaces : task[w].pc \in BurnPlaces =>
        Justified([task[w] EXCEPT !.pc = pc])
        /\ \A d : Justified([task[w] EXCEPT !.pc = pc, !.delta = d])
  BY <1>0 DEF Justified, Task, LivePlaces, BurnPlaces
<1>5. \E t : Justified(t) /\ task' = [task EXCEPT ![w] = t]
  <2>1. CASE DeleteOwners(w)
    BY <1>3, <2>1 DEF DeleteOwners, Move, LivePlaces
  <2>2. CASE SaveOwner(w)
    BY <1>3, <2>2 DEF SaveOwner, Move, LivePlaces
  <2>3. CASE FindToken(w)
    BY <1>3, <2>3 DEF FindToken, Move, LivePlaces
  <2>4. CASE InsertToken(w)
    BY <1>3, <2>4 DEF InsertToken, Write, LivePlaces
  <2>5. CASE UpdateToken(w)
    BY <1>3, <2>5 DEF UpdateToken, Write, LivePlaces
  <2>6. CASE DropOwner(w)
    BY <1>4, <2>6 DEF DropOwner, Move, BurnPlaces
  <2>7. CASE BurnToken(w)
    <3>1. CASE tokens[task[w].token].status = "absent"
      BY <2>7, <3>1, IdleJustified DEF BurnToken, Finish
    <3>2. CASE tokens[task[w].token].status # "absent"
      <4>1. PICK d : Write(w, "burning", d)
        BY <2>7, <3>2 DEF BurnToken
      <4>2. Justified([task[w] EXCEPT !.pc = "burning", !.delta = d])
        BY <1>4, <2>7 DEF BurnToken, BurnPlaces
      <4>3. task' = [task EXCEPT ![w] = [task[w] EXCEPT !.pc = "burning", !.delta = d]]
        BY <4>1 DEF Write
      <4>4. QED
        BY <4>2, <4>3
    <3>3. QED
      BY <3>1, <3>2
  <2>8. CASE InsertRefused(w) \/ TokenFails(w)
    BY <2>8, IdleJustified DEF InsertRefused, TokenFails, Finish
  <2>9. QED
    BY <2>1, <2>2, <2>3, <2>4, <2>5, <2>6, <2>7, <2>8
<1>6. QED
  BY <1>1, <1>2, <1>5, RowsWorker

\* The statements that write a row of tokens commit.
LEMMA RowsCommit ==
  ASSUME RowsInv, TypeOK', NEW w \in Workers,
         TokenInserted(w) \/ TokenUpdated(w) \/ TokenBurned(w)
  PROVE  RowsInv'
<1> DEFINE t == task[w].token
<1>0. /\ task[w] \in Task /\ Justified(task[w]) /\ t \in Tokens
      /\ tokens[t] \in Row /\ tokens \in [Tokens -> Row]
  BY DEF RowsInv, TypeOK, Task
<1>1. PICK row : tokens' = [tokens EXCEPT ![t] = row]
                 /\ (\/ row.status = "live" /\ head[t] # "absent"
                     \/ row.status = "burned" /\ head[t] # "absent" /\ Burnable(t))
  <2>1. CASE TokenInserted(w) \/ TokenUpdated(w)
    <3>1. task[w].row.status = "live" /\ head[t] # "absent"
      BY <1>0, <2>1 DEF TokenInserted, TokenUpdated, Justified, LivePlaces
    <3>2. tokens' = [tokens EXCEPT ![t] = task[w].row]
      BY <2>1 DEF TokenInserted, TokenUpdated, Commit
    <3>3. QED
      BY <3>1, <3>2
  <2>2. CASE TokenBurned(w)
    <3>0. Burnable(t)
      BY <1>0, <2>2 DEF TokenBurned, Justified, BurnPlaces
    <3>1. head[t] # "absent"
      BY <1>0, <3>0 DEF Burnable, RowsInv, HeadKnown, Later
    <3>2. tokens' = [tokens EXCEPT ![t] = [tokens[t] EXCEPT !.status = "burned"]]
      BY <2>2 DEF TokenBurned, Commit
    <3>3. [tokens[t] EXCEPT !.status = "burned"].status = "burned"
      BY <1>0 DEF Row
    <3>4. QED
      BY <3>0, <3>1, <3>2, <3>3
  <2>3. QED
    BY <2>1, <2>2
<1>2. UNCHANGED <<chain, before, chainCollections, head, early, events>>
      /\ task' = [task EXCEPT ![w] = Idle]
  BY DEF TokenInserted, TokenUpdated, TokenBurned, Commit, Finish, onChain, pending
<1>3. \A u \in Tokens : tokens'[u] = IF u = t THEN row ELSE tokens[u]
  BY <1>0, <1>1
<1>4. RowsComeFromChain'
  BY <1>1, <1>2, <1>3 DEF RowsInv, RowsComeFromChain, Burnable
<1>5. QED
  BY <1>2, <1>4, IdleJustified, RowsWorker

LEMMA RowsBatch ==
  ASSUME RowsInv, TypeOK',
         StoreEvents \/ CollectionsProcessed \/ BlockProcessed \/ UNCHANGED vars
  PROVE  RowsInv'
<1>1. UNCHANGED <<chain, chainCollections, head, early, tokens, events, task>>
      /\ before' \in {before, chain}
  BY DEF StoreEvents, CollectionsProcessed, BlockProcessed, vars, onChain, blocks, beyond,
         pending, tables
<1>2. HeadKnown' /\ RowsComeFromChain' /\ BurnedAreEmpty' /\ EventsKnown'
  BY <1>1 DEF RowsInv, HeadKnown, RowsComeFromChain, BurnedAreEmpty, EventsKnown
<1>3. BeforeKnown'
  <2>1. \A t \in Tokens : chain[t].status # "absent" => head[t] # "absent"
    BY DEF RowsInv, HeadKnown, TypeOK, Row, Later
  <2>2. QED
    BY <1>1, <2>1 DEF RowsInv, BeforeKnown
<1>4. \A w \in Workers : Justified(task[w])'
  BY <1>1 DEF RowsInv, Justified, Burnable
<1>5. QED
  BY <1>2, <1>3, <1>4 DEF RowsInv

LEMMA NextRows == ASSUME RowsInv, [Next]_vars PROVE RowsInv'
<1>1. TypeOK'
  BY NextType DEF RowsInv
<1>2. CASE StoreEvents \/ CollectionsProcessed \/ BlockProcessed \/ UNCHANGED vars
  BY <1>1, <1>2, RowsBatch
<1>3. CASE ChainStep
  BY <1>1, <1>3, RowsChainStep
<1>4. ASSUME NEW w \in Workers,
             \/ TakeCollection(w) \/ SaveCollection(w) \/ BurnCollection(w)
             \/ BurnItsTokens(w) \/ CollectionFails(w)
      PROVE  RowsInv'
  BY <1>1, <1>4, RowsCollection, RowsBurnItsTokens
<1>5. ASSUME NEW w \in Workers,
             \/ TakeToken(w) \/ RescanToken(w) \/ DeleteOwners(w) \/ SaveOwner(w)
             \/ FindToken(w) \/ InsertToken(w) \/ InsertRefused(w) \/ UpdateToken(w)
             \/ DropOwner(w) \/ BurnToken(w) \/ TokenInserted(w) \/ TokenUpdated(w)
             \/ TokenBurned(w) \/ TokenFails(w)
      PROVE  RowsInv'
  BY <1>1, <1>5, RowsTake, RowsEventStep, RowsCommit
<1>6. QED
  BY <1>2, <1>3, <1>4, <1>5 DEF Next, Continue

\* However many rescans of tokens at an older block run beside the events of the
\* new one, and whatever fails, the table tokens has rows of minted tokens only
\* and marks no token burned that was not destroyed, on the chain up to its head;
\* ahead of the block that destroys it only for an event that the head answered.
THEOREM RowsAreFromChain == Spec => []RowsComeFromChain
<1>1. Init => RowsInv
  <2>1. SUFFICES ASSUME Init PROVE RowsInv
    OBVIOUS
  <2>2. TypeOK
    BY <2>1, InitType
  <2>3. Absent.status = "absent"
    BY DEF Absent
  <2>4. RowsComeFromChain /\ HeadKnown /\ BeforeKnown /\ BurnedAreEmpty /\ EventsKnown
    BY <2>1, <2>3 DEF Init, RowsComeFromChain, HeadKnown, Later, BeforeKnown, BurnedAreEmpty,
                      EventsKnown
  <2>5. \A w \in Workers : Justified(task[w])
    BY <2>1, IdleJustified DEF Init
  <2>6. QED
    BY <2>2, <2>4, <2>5 DEF RowsInv
<1>2. RowsInv /\ [Next]_vars => RowsInv'
  BY NextRows
<1>3. RowsInv => RowsComeFromChain
  BY DEF RowsInv
<1>4. QED
  BY <1>1, <1>2, <1>3, PTL DEF Spec

-----------------------------------------------------------------------------
(***************************************************************************)
(* Why no counter is too high.  A statement has its row for itself, what   *)
(* an insert counts was not there, and what an update or an insert writes  *)
(* is live; a row of collections_stats that is missing or deleted counts   *)
(* less, never more.                                                       *)
(***************************************************************************)
Writable(t) == RowReady(t) /\ (t.pc \in LivePlaces => t.row.status = "live")

CountsInv ==
  /\ TypeOK
  /\ \A w \in Workers : Writable(task[w])
  /\ OneWriter
  /\ CountsNeverHigh

\* A worker outside the events of tokens writes no row.
LEMMA OtherWritable ==
  ASSUME NEW t, t.pc \in OtherPlaces PROVE Writable(t) /\ t.pc \notin Writing
BY DEF Writable, RowReady, LivePlaces, OtherPlaces, Writing

\* What AddTokens and AddHolders leave in the count of tokens.
LEMMA AddsNoMore ==
  ASSUME NEW s \in Stats, NEW d \in Int, NEW count \in {-1, 0, 1}, NEW n \in Nat,
         NEW m \in Nat, s.tokens <= n, n + count <= m
  PROVE  LET held == AddHolders(s, d)
         IN  (IF count = 0 THEN held ELSE AddTokens(held, count)).tokens <= m
<1> DEFINE held == AddHolders(s, d)
<1>1. held \in Stats /\ held.tokens <= n
  <2>1. CASE d = 0
    BY <2>1 DEF AddHolders
  <2>2. CASE d # 0 /\ s.exists
    <3>1. held = [s EXCEPT !.holders = @ + d]
      BY <2>2 DEF AddHolders
    <3>2. held.tokens = s.tokens /\ held.exists = s.exists
      BY <3>1 DEF Stats
    <3>3. QED
      BY <2>2, <3>2, StatsTypes
  <2>3. CASE d # 0 /\ ~s.exists
    <3>1. held = [FreshStats EXCEPT !.holders = IF d > 0 THEN d ELSE 0]
      BY <2>3 DEF AddHolders
    <3>2. held.tokens = 0
      BY <3>1 DEF FreshStats
    <3>3. QED
      BY <3>2, StatsTypes
  <2>4. QED
    BY <2>1, <2>2, <2>3
<1> HIDE DEF held
<1>2. held.tokens \in Int
  BY <1>1 DEF Stats
<1>3. CASE count = 0
  BY <1>1, <1>2, <1>3 DEF held
<1>4. CASE count # 0 /\ held.exists
  <2>1. AddTokens(held, count) = [held EXCEPT !.tokens = @ + count]
    BY <1>4 DEF AddTokens
  <2>2. AddTokens(held, count).tokens = held.tokens + count
    BY <1>1, <2>1 DEF Stats
  <2>3. QED
    BY <1>1, <1>2, <1>4, <2>2 DEF held
<1>5. CASE count # 0 /\ ~held.exists
  <2>1. AddTokens(held, count) = [FreshStats EXCEPT !.tokens = IF count > 0 THEN count ELSE 0]
    BY <1>5 DEF AddTokens
  <2>2. AddTokens(held, count).tokens = IF count > 0 THEN count ELSE 0
    BY <2>1 DEF FreshStats
  <2>3. AddTokens(held, count).tokens <= m
    BY <2>2
  <2>4. QED
    BY <1>5, <2>3 DEF held
<1>6. QED
  BY <1>3, <1>4, <1>5

LEMMA BurnsNoMore ==
  ASSUME NEW s \in Stats, NEW n \in Nat, s.tokens <= n PROVE BurnStats(s, n).tokens <= 0
<1>1. s.tokens \in Int
  BY DEF Stats
<1>2. CASE n = 0
  BY <1>2 DEF BurnStats
<1>3. CASE n # 0 /\ s.exists
  <2>1. BurnStats(s, n) = [s EXCEPT !.tokens = @ - n, !.holders = @ - n]
    BY <1>3 DEF BurnStats
  <2>2. BurnStats(s, n).tokens = s.tokens - n
    BY <2>1 DEF Stats
  <2>3. QED
    BY <1>1, <2>2
<1>4. CASE n # 0 /\ ~s.exists
  <2>1. BurnStats(s, n) = [FreshStats EXCEPT !.tokens = 0 - n, !.holders = 1 - n]
    BY <1>4 DEF BurnStats
  <2>2. BurnStats(s, n).tokens = 0 - n
    BY <2>1 DEF FreshStats
  <2>3. QED
    BY <2>2
<1>5. QED
  BY <1>2, <1>3, <1>4

\* A step that leaves the table tokens alone and resets statistics at most.
LEMMA CountsReset ==
  ASSUME CountsInv, UNCHANGED tokens, total'.tokens = total.tokens,
         \A c \in Collections : \/ collections_stats'[c] = collections_stats[c]
                                \/ collections_stats'[c].tokens = 0
  PROVE  CountsNeverHigh'
<1>1. total'.tokens <= LiveCount'
  BY DEF CountsInv, CountsNeverHigh, LiveCount
<1>2. ASSUME NEW c \in Collections
      PROVE  collections_stats'[c].tokens <= Cardinality(LiveIn(tokens', c))
  <2>1. Cardinality(LiveIn(tokens, c)) \in Nat /\ LiveIn(tokens', c) = LiveIn(tokens, c)
    BY Counted
  <2>2. collections_stats[c].tokens <= Cardinality(LiveIn(tokens, c))
    BY DEF CountsInv, CountsNeverHigh
  <2>3. CASE collections_stats'[c] = collections_stats[c]
    BY <2>1, <2>2, <2>3
  <2>4. CASE collections_stats'[c].tokens = 0
    BY <2>1, <2>4
  <2>5. QED
    BY <2>3, <2>4
<1>3. QED
  BY <1>1, <1>2 DEF CountsNeverHigh

\* One worker moves on and no row of tokens is written.
LEMMA CountsWorker ==
  ASSUME CountsInv, TypeOK', NEW w \in Workers, NEW t,
         task' = [task EXCEPT ![w] = t], Writable(t),
         t.pc \in Writing => ~Locked(t.token),
         UNCHANGED tokens, CountsNeverHigh'
  PROVE  CountsInv'
<1>1. \A v \in Workers : task'[v] = IF v = w THEN t ELSE task[v]
  BY DEF CountsInv, TypeOK
<1>2. \A v \in Workers : Writable(task[v])'
  BY <1>1 DEF CountsInv, Writable, RowReady
<1>3. OneWriter'
  <2>1. SUFFICES ASSUME NEW u \in Workers, NEW v \in Workers,
                        task'[u].pc \in Writing, task'[v].pc \in Writing,
                        task'[u].token = task'[v].token
                 PROVE  u = v
    BY DEF OneWriter
  <2>2. CASE u # w /\ v # w
    BY <1>1, <2>1, <2>2 DEF CountsInv, OneWriter
  <2>3. CASE u = w \/ v = w
    BY <1>1, <2>1, <2>3 DEF Locked
  <2>4. QED
    BY <2>2, <2>3
<1>4. QED
  BY <1>2, <1>3 DEF CountsInv

\* A worker is done and has written rows; what the others wait to write is as
\* it was.
LEMMA CountsWriter ==
  ASSUME CountsInv, TypeOK', NEW w \in Workers, NEW t,
         task' = [task EXCEPT ![w] = t], t.pc \in OtherPlaces,
         \A v \in Workers \ {w} : RowReady(task[v])',
         CountsNeverHigh'
  PROVE  CountsInv'
<1>1. \A v \in Workers : task'[v] = IF v = w THEN t ELSE task[v]
  BY DEF CountsInv, TypeOK
<1>2. ASSUME NEW v \in Workers PROVE Writable(task[v])'
  <2>1. CASE v = w
    BY <1>1, <2>1 DEF Writable, RowReady, LivePlaces, OtherPlaces
  <2>2. CASE v # w
    <3>1. task'[v] = task[v] /\ Writable(task[v])
      BY <1>1, <2>2 DEF CountsInv
    <3>2. QED
      BY <2>2, <3>1 DEF Writable
  <2>3. QED
    BY <2>1, <2>2
<1>3. OneWriter'
  BY <1>1 DEF CountsInv, OneWriter, OtherPlaces, Writing
<1>4. QED
  BY <1>2, <1>3 DEF CountsInv

\* The chain and the batches write no row of tokens and reset no counter of it.
LEMMA CountsBatch ==
  ASSUME CountsInv, TypeOK',
         \/ ChainStep \/ StoreEvents \/ CollectionsProcessed \/ BlockProcessed
         \/ UNCHANGED vars
  PROVE  CountsInv'
<1>1. UNCHANGED <<tokens, task, total>>
  BY DEF ChainStep, Mint, Transfer, Burn, SetProperty, CollectionEvent, Grow, StoreEvents,
         CollectionsProcessed, BlockProcessed, vars, tables
<1>2. ASSUME NEW c \in Collections
      PROVE  \/ collections_stats'[c] = collections_stats[c]
             \/ collections_stats'[c].tokens = 0
  <2>1. CASE StoreEvents
    <3>1. collections_stats'[c] \in {FreshStats, collections_stats[c]}
      BY <2>1 DEF StoreEvents
    <3>2. FreshStats.tokens = 0
      BY DEF FreshStats
    <3>3. QED
      BY <3>1, <3>2
  <2>2. CASE ~StoreEvents
    <3>1. UNCHANGED collections_stats
      BY <2>2 DEF ChainStep, Mint, Transfer, Burn, SetProperty, CollectionEvent, Grow,
             CollectionsProcessed, BlockProcessed, vars, tables
    <3>2. QED
      BY <3>1
  <2>3. QED
    BY <2>1, <2>2
<1>3. CountsNeverHigh'
  BY <1>1, <1>2, CountsReset
<1>4. (\A w \in Workers : Writable(task[w])') /\ OneWriter'
  BY <1>1 DEF CountsInv, Writable, RowReady, OneWriter
<1>5. QED
  BY <1>3, <1>4 DEF CountsInv

\* A row of a collection is written, or it is burned with its statistics.
LEMMA CountsCollection ==
  ASSUME CountsInv, TypeOK', NEW w \in Workers,
         TakeCollection(w) \/ SaveCollection(w) \/ BurnCollection(w) \/ CollectionFails(w)
  PROVE  CountsInv'
<1>0. /\ TypeOK
      /\ task[w] \in Task
      /\ collections_stats \in [Collections -> Stats]
      /\ total \in [collections : Int, tokens : Int]
  BY DEF CountsInv, TypeOK
<1>1. UNCHANGED tokens
  BY DEF TakeCollection, SaveCollection, BurnCollection, CollectionFails, tables
<1>2. total'.tokens = total.tokens
  <2>1. CASE TakeCollection(w) \/ CollectionFails(w)
    BY <2>1 DEF TakeCollection, CollectionFails, tables
  <2>2. CASE SaveCollection(w)
    <3>1. PICK n : total' = [total EXCEPT !.collections = n]
      BY <2>2 DEF SaveCollection
    <3>2. QED
      BY <1>0, <3>1
  <2>3. CASE BurnCollection(w)
    <3>1. total' = total \/ total' = [total EXCEPT !.collections = @ - 1]
      BY <2>3 DEF BurnCollection
    <3>2. QED
      BY <1>0, <3>1
  <2>4. QED
    BY <2>1, <2>2, <2>3
<1>3. ASSUME NEW c \in Collections
      PROVE  \/ collections_stats'[c] = collections_stats[c]
             \/ collections_stats'[c].tokens = 0
  <2>1. \/ UNCHANGED collections_stats
        \/ collections_stats' = [collections_stats EXCEPT ![task[w].collection] = NoStats]
    BY DEF TakeCollection, SaveCollection, BurnCollection, CollectionFails, tables
  <2>2. NoStats.tokens = 0
    BY DEF NoStats
  <2>3. QED
    BY <1>0, <2>1, <2>2
<1>4. CountsNeverHigh'
  BY <1>1, <1>2, <1>3, CountsReset
<1>5. \A s : task[w].pc = "destroy" => AfterBurn(task[w], s).pc \in OtherPlaces
  <2>1. ASSUME NEW s, task[w].pc = "destroy" PROVE AfterBurn(task[w], s).pc \in OtherPlaces
    <3>1. CASE task[w].todo = {s}
      BY <3>1 DEF AfterBurn, Idle, OtherPlaces
    <3>2. CASE task[w].todo # {s}
      BY <1>0, <2>1, <3>2 DEF AfterBurn, Task, OtherPlaces
    <3>3. QED
      BY <3>1, <3>2
  <2>2. QED
    BY <2>1
<1>6. Idle.pc \in OtherPlaces
  BY DEF Idle, OtherPlaces
<1>7. \E t : t.pc \in OtherPlaces /\ task' = [task EXCEPT ![w] = t]
  <2>1. CASE TakeCollection(w)
    <3>1. PICK c \in collectionEvents :
            task' = [task EXCEPT ![w] =
              IF chainCollections[c] = "burned"
              THEN [Idle EXCEPT !.pc = "destroy", !.collection = c,
                                !.todo = {"collections", "tokens"}]
              ELSE [Idle EXCEPT !.pc = "save", !.collection = c,
                                !.burned = (collections[c] = "burned")]]
      BY <2>1 DEF TakeCollection
    <3>2. /\ [Idle EXCEPT !.pc = "destroy", !.collection = c,
                          !.todo = {"collections", "tokens"}].pc \in OtherPlaces
          /\ [Idle EXCEPT !.pc = "save", !.collection = c,
                          !.burned = (collections[c] = "burned")].pc \in OtherPlaces
      BY DEF Idle, OtherPlaces
    <3>3. QED
      BY <3>1, <3>2
  <2>2. CASE SaveCollection(w)
    BY <1>6, <2>2 DEF SaveCollection
  <2>3. CASE BurnCollection(w)
    <3>1. /\ task' = [task EXCEPT ![w] = AfterBurn(task[w], "collections")]
          /\ task[w].pc = "destroy"
      BY <2>3 DEF BurnCollection
    <3>2. QED
      BY <1>5, <3>1
  <2>4. CASE CollectionFails(w)
    BY <1>5, <1>6, <2>4 DEF CollectionFails
  <2>5. QED
    BY <2>1, <2>2, <2>3, <2>4
<1>8. QED
  BY <1>1, <1>4, <1>7, OtherWritable, CountsWorker

\* One statement burns all rows of a collection; the triggers count each once.
LEMMA CountsBurnItsTokens ==
  ASSUME CountsInv, TypeOK', NEW w \in Workers, BurnItsTokens(w) PROVE CountsInv'
<1> DEFINE c == task[w].collection
           live == LiveIn(tokens, c)
           n == Cardinality(live)
<1>1. /\ c \in Collections
      /\ task[w] \in Task
      /\ tokens \in [Tokens -> Row]
      /\ collections_stats \in [Collections -> Stats]
      /\ collections_stats[c] \in Stats
      /\ total \in [collections : Int, tokens : Int]
  BY DEF CountsInv, TypeOK, Task
<1>2. /\ tokens' = [u \in Tokens |->
           IF u \in live THEN [tokens[u] EXCEPT !.status = "burned"] ELSE tokens[u]]
      /\ total' = [total EXCEPT !.tokens = @ - n]
      /\ collections_stats' = [collections_stats EXCEPT ![c] = BurnStats(@, n)]
      /\ task' = [task EXCEPT ![w] = AfterBurn(task[w], "tokens")]
      /\ task[w].pc = "destroy"
  BY DEF BurnItsTokens
<1>3. \A u \in Tokens : tokens'[u].status = IF u \in live THEN "burned" ELSE tokens[u].status
  BY <1>1, <1>2 DEF Row
<1>4. \A u \in live : tokens[u].status = "live" /\ Of[u] = c
  BY DEF LiveIn, Statuses
<1>5. AfterBurn(task[w], "tokens").pc \in OtherPlaces
  <2>1. CASE task[w].todo = {"tokens"}
    BY <2>1 DEF AfterBurn, Idle, OtherPlaces
  <2>2. CASE task[w].todo # {"tokens"}
    BY <1>1, <1>2, <2>2 DEF AfterBurn, Task, OtherPlaces
  <2>3. QED
    BY <2>1, <2>2
<1>6. ASSUME NEW v \in Workers \ {w} PROVE RowReady(task[v])'
  <2>1. task'[v] = task[v] /\ task[v].token \in Tokens /\ RowReady(task[v])
    BY <1>2 DEF CountsInv, TypeOK, Task, Writable
  <2>2. (tokens'[task[v].token].status = "absent") = (tokens[task[v].token].status = "absent")
    BY <1>3, <1>4, <2>1
  <2>3. QED
    BY <2>1, <2>2 DEF RowReady
<1>7. n \in Nat /\ LiveCount \in Nat
  BY Counted DEF LiveCount
<1>8. total'.tokens <= LiveCount'
  <2>1. Statuses(tokens, "live")' = Statuses(tokens, "live") \ live
    BY <1>3 DEF Statuses, LiveIn
  <2>2. Statuses(tokens, "live") \cap live = live
    BY DEF LiveIn
  <2>3. Cardinality(Statuses(tokens, "live") \ live) = LiveCount - n
    BY <2>2, Counted, FS_Difference DEF LiveCount
  <2>4. LiveCount' = LiveCount - n
    BY <2>1, <2>3 DEF LiveCount
  <2>5. total'.tokens = total.tokens - n /\ total.tokens \in Int
    BY <1>1, <1>2
  <2>6. total.tokens <= LiveCount
    BY DEF CountsInv, CountsNeverHigh
  <2>7. QED
    BY <1>7, <2>4, <2>5, <2>6
<1>9. ASSUME NEW d \in Collections
      PROVE  collections_stats'[d].tokens <= Cardinality(LiveIn(tokens', d))
  <2>1. collections_stats[d].tokens <= Cardinality(LiveIn(tokens, d))
    BY DEF CountsInv, CountsNeverHigh
  <2>2. CASE d = c
    <3>1. collections_stats'[c] = BurnStats(collections_stats[c], n)
      BY <1>1, <1>2
    <3>2. BurnStats(collections_stats[c], n).tokens <= 0
      BY <1>1, <1>7, <2>1, <2>2, BurnsNoMore
    <3>3. LiveIn(tokens', c) = {}
      BY <1>3 DEF LiveIn, Statuses
    <3>4. QED
      BY <2>2, <3>1, <3>2, <3>3, FS_EmptySet
  <2>3. CASE d # c
    <3>1. collections_stats'[d] = collections_stats[d]
      BY <1>1, <1>2, <2>3
    <3>2. LiveIn(tokens', d) = LiveIn(tokens, d)
      BY <1>3, <1>4, <2>3 DEF LiveIn, Statuses
    <3>3. QED
      BY <2>1, <3>1, <3>2
  <2>4. QED
    BY <2>2, <2>3
<1>10. CountsNeverHigh'
  BY <1>8, <1>9 DEF CountsNeverHigh
<1>11. QED
  BY <1>2, <1>5, <1>6, <1>10, CountsWriter

\* An event is taken, or a token rescanned; a row to be saved is live.
LEMMA CountsTake ==
  ASSUME CountsInv, TypeOK', NEW w \in Workers, TakeToken(w) \/ RescanToken(w)
  PROVE  CountsInv'
<1>0. ASSUME NEW t, NEW row, NEW address, FromBlock(w, t, row, address) \/ FromHead(w, t, address)
      PROVE  \E r : Start(w, t, r, address)
  BY <1>0 DEF FromBlock, FromHead
<1>1. PICK t, row, address : t \in Tokens /\ Start(w, t, row, address)
  <2>1. CASE TakeToken(w)
    <3>1. PICK event \in events : \E address \in DataOf(event) :
            \/ FromBlock(w, event.token, chain[event.token], address)
            \/ FromHead(w, event.token, address)
      BY <2>1 DEF TakeToken
    <3>2. event.token \in Tokens
      BY DEF CountsInv, TypeOK, Event
    <3>3. QED
      BY <1>0, <3>1, <3>2
  <2>2. CASE RescanToken(w)
    <3>1. PICK t \in Tokens : FromBlock(w, t, before[t], NoAddress) \/ FromHead(w, t, NoAddress)
      BY <2>2 DEF RescanToken
    <3>2. QED
      BY <1>0, <3>1
  <2>3. QED
    BY <2>1, <2>2
<1> DEFINE n == Begin(t, row, address)
<1>2. task' = [task EXCEPT ![w] = n]
  BY <1>1 DEF Start
<1>3. n.row = row
      /\ n.pc = IF row.status = "live"
                THEN IF address = NoAddress THEN "find" ELSE "owners"
                ELSE IF address = NoAddress THEN "idle" ELSE "part"
  BY <1>1, BeginPlaces
<1> HIDE DEF n
<1>4. Writable(n) /\ n.pc \notin Writing
  BY <1>3 DEF Writable, RowReady, LivePlaces, Writing
<1>5. UNCHANGED <<tokens, collections_stats, total>>
  BY DEF TakeToken, RescanToken, tables
<1>6. CountsNeverHigh'
  BY <1>5, CountsReset
<1>7. QED
  BY <1>2, <1>4, <1>5, <1>6, CountsWorker

\* The steps of an event that write no row of tokens.
LEMMA CountsEventStep ==
  ASSUME CountsInv, TypeOK', NEW w \in Workers,
         \/ DeleteOwners(w) \/ SaveOwner(w) \/ FindToken(w) \/ InsertToken(w)
         \/ InsertRefused(w) \/ UpdateToken(w) \/ DropOwner(w) \/ BurnToken(w)
         \/ TokenFails(w)
  PROVE  CountsInv'
<1>1. task[w] \in Task /\ Writable(task[w])
  BY DEF CountsInv, TypeOK
<1>2. UNCHANGED <<tokens, collections_stats, total>>
  BY DEF DeleteOwners, SaveOwner, FindToken, InsertToken, InsertRefused, UpdateToken,
         DropOwner, BurnToken, TokenFails, tables
<1>3. CountsNeverHigh'
  BY <1>2, CountsReset
<1>4. ASSUME Finish(w) PROVE CountsInv'
  <2>1. Idle.pc \in OtherPlaces
    BY DEF Idle, OtherPlaces
  <2>2. QED
    BY <1>2, <1>3, <1>4, <2>1, OtherWritable, CountsWorker DEF Finish
<1>5. ASSUME NEW pc \in TokenPlaces, NEW d
      PROVE  /\ [task[w] EXCEPT !.pc = pc].pc = pc
             /\ [task[w] EXCEPT !.pc = pc].token = task[w].token
             /\ [task[w] EXCEPT !.pc = pc].row = task[w].row
             /\ [task[w] EXCEPT !.pc = pc, !.delta = d].pc = pc
             /\ [task[w] EXCEPT !.pc = pc, !.delta = d].token = task[w].token
             /\ [task[w] EXCEPT !.pc = pc, !.delta = d].row = task[w].row
  BY <1>1 DEF Task
<1>6. ASSUME NEW pc \in TokenPlaces \ Writing, Move(w, pc),
             pc = "update" => tokens[task[w].token].status # "absent",
             pc \in LivePlaces => task[w].row.status = "live"
      PROVE  CountsInv'
  <2> DEFINE t == [task[w] EXCEPT !.pc = pc]
  <2>1. t.pc = pc /\ t.token = task[w].token /\ t.row = task[w].row
    BY <1>5
  <2>2. task' = [task EXCEPT ![w] = t]
    BY <1>6 DEF Move
  <2> HIDE DEF t
  <2>3. Writable(t) /\ t.pc \notin Writing
    BY <1>6, <2>1 DEF Writable, RowReady, Writing
  <2>4. QED
    BY <1>2, <1>3, <2>2, <2>3, CountsWorker
<1>7. ASSUME NEW pc \in Writing, NEW d, Write(w, pc, d),
             pc = "inserting" => tokens[task[w].token].status = "absent",
             pc # "inserting" => tokens[task[w].token].status # "absent",
             pc # "burning" => task[w].row.status = "live"
      PROVE  CountsInv'
  <2> DEFINE t == [task[w] EXCEPT !.pc = pc, !.delta = d]
  <2>1. t.pc = pc /\ t.token = task[w].token /\ t.row = task[w].row
    BY <1>5, <1>7 DEF Writing, TokenPlaces
  <2>2. task' = [task EXCEPT ![w] = t] /\ ~Locked(t.token)
    BY <1>7, <2>1 DEF Write
  <2> HIDE DEF t
  <2>3. Writable(t)
    BY <1>7, <2>1 DEF Writable, RowReady, Writing, LivePlaces
  <2>4. QED
    BY <1>2, <1>3, <2>2, <2>3, CountsWorker
<1>8. task[w].pc \in LivePlaces => task[w].row.status = "live"
  BY <1>1 DEF Writable
<1>9. CASE DeleteOwners(w) \/ SaveOwner(w)
  <2>1. PICK pc \in {"owner", "find"} : Move(w, pc) /\ task[w].pc \in LivePlaces
    BY <1>9 DEF DeleteOwners, SaveOwner, LivePlaces
  <2>2. pc \in TokenPlaces \ Writing /\ pc # "update"
    BY DEF TokenPlaces, Writing
  <2>3. QED
    BY <1>6, <1>8, <2>1, <2>2
<1>10. CASE FindToken(w)
  <2>1. PICK pc \in {"insert", "update"} :
          /\ Move(w, pc) /\ task[w].pc = "find"
          /\ pc = "update" => tokens[task[w].token].status # "absent"
    BY <1>10 DEF FindToken
  <2>2. pc \in TokenPlaces \ Writing /\ task[w].pc \in LivePlaces
    BY <2>1 DEF TokenPlaces, Writing, LivePlaces
  <2>3. QED
    BY <1>6, <1>8, <2>1, <2>2
<1>11. CASE InsertToken(w)
  <2>1. PICK d : /\ Write(w, "inserting", d) /\ task[w].pc = "insert"
                 /\ tokens[task[w].token].status = "absent"
    BY <1>11 DEF InsertToken
  <2>2. task[w].pc \in LivePlaces /\ "inserting" \in Writing /\ "inserting" # "burning"
    BY <2>1 DEF LivePlaces, Writing
  <2>3. QED
    BY <1>7, <1>8, <2>1, <2>2
<1>12. CASE UpdateToken(w)
  <2>1. PICK d : Write(w, "updating", d) /\ task[w].pc = "update"
    BY <1>12 DEF UpdateToken
  <2>2. task[w].pc \in LivePlaces /\ "updating" \in Writing /\ "updating" # "inserting"
    BY <2>1 DEF LivePlaces, Writing
  <2>3. tokens[task[w].token].status # "absent"
    BY <1>1, <2>1 DEF Writable, RowReady
  <2>4. QED
    BY <1>7, <1>8, <2>1, <2>2, <2>3
<1>13. CASE DropOwner(w)
  <2>1. Move(w, "burn")
    BY <1>13 DEF DropOwner
  <2>2. "burn" \in TokenPlaces \ Writing /\ "burn" \notin LivePlaces
    BY DEF TokenPlaces, Writing, LivePlaces
  <2>3. "burn" # "update"
    OBVIOUS
  <2>4. QED
    BY <1>6, <2>1, <2>2, <2>3
<1>14. CASE BurnToken(w) /\ tokens[task[w].token].status # "absent"
  <2>1. PICK d : Write(w, "burning", d)
    BY <1>14 DEF BurnToken
  <2>2. "burning" \in Writing /\ "burning" # "inserting"
    BY DEF Writing
  <2>3. QED
    BY <1>7, <1>14, <2>1, <2>2
<1>15. CASE BurnToken(w) /\ tokens[task[w].token].status = "absent"
  BY <1>4, <1>15 DEF BurnToken
<1>16. CASE InsertRefused(w) \/ TokenFails(w)
  BY <1>4, <1>16 DEF InsertRefused, TokenFails
<1>17. QED
  BY <1>9, <1>10, <1>11, <1>12, <1>13, <1>14, <1>15, <1>16

\* What a commit does to the rows is at least what it counts.
LEMMA CommitCounts ==
  ASSUME NEW table \in [Tokens -> Row], NEW row \in Row, NEW t \in Tokens,
         NEW count \in {-1, 0, 1},
         \/ count = (IF row.status = "live" THEN 1 ELSE 0)
                      - (IF table[t].status = "live" THEN 1 ELSE 0)
         \/ count = 0 /\ row.status = "live"
  PROVE  LET new == [table EXCEPT ![t] = row]
         IN  /\ Cardinality(Statuses(new, "live")) >= Cardinality(Statuses(table, "live")) + count
             /\ Cardinality(LiveIn(new, Of[t])) >= Cardinality(LiveIn(table, Of[t])) + count
             /\ \A c : c # Of[t] => LiveIn(new, c) = LiveIn(table, c)
<1> DEFINE new == [table EXCEPT ![t] = row]
<1>1. /\ Cardinality(Statuses(table, "live")) \in Nat
      /\ Cardinality(LiveIn(table, Of[t])) \in Nat
  BY Counted
<1>2. CASE count = (IF row.status = "live" THEN 1 ELSE 0)
                     - (IF table[t].status = "live" THEN 1 ELSE 0)
  <2>1. /\ Cardinality(Statuses(new, "live")) = Cardinality(Statuses(table, "live")) + count
        /\ Cardinality(LiveIn(new, Of[t])) = Cardinality(LiveIn(table, Of[t])) + count
        /\ \A c : c # Of[t] => LiveIn(new, c) = LiveIn(table, c)
    BY <1>2, RowCounts
  <2> HIDE DEF new
  <2>2. Cardinality(Statuses(new, "live")) >= Cardinality(Statuses(table, "live")) + count
    BY <1>1, <2>1
  <2>3. Cardinality(LiveIn(new, Of[t])) >= Cardinality(LiveIn(table, Of[t])) + count
    BY <1>1, <2>1
  <2>4. QED
    BY <2>1, <2>2, <2>3 DEF new
<1>3. CASE count = 0 /\ row.status = "live"
  <2>1. \A u \in Tokens : new[u].status = "live" <=> u = t \/ table[u].status = "live"
    BY <1>3
  <2>2. \A u \in Tokens : Of[u] # Of[t] => new[u] = table[u]
    OBVIOUS
  <2> HIDE DEF new
  <2>3. Cardinality(Statuses(table, "live")) <= Cardinality(Statuses(new, "live"))
    <3>1. Statuses(table, "live") \subseteq Statuses(new, "live")
      BY <2>1 DEF Statuses
    <3>2. IsFiniteSet(Statuses(new, "live"))
      BY Counted
    <3>3. QED
      BY <3>1, <3>2, FS_Subset
  <2>4. Cardinality(LiveIn(table, Of[t])) <= Cardinality(LiveIn(new, Of[t]))
    <3>1. LiveIn(table, Of[t]) \subseteq LiveIn(new, Of[t])
      BY <2>1 DEF LiveIn, Statuses
    <3>2. \A c : IsFiniteSet(LiveIn(new, c))
      BY Counted
    <3>3. QED
      BY <3>1, <3>2, FS_Subset
  <2>5. /\ Cardinality(Statuses(new, "live")) >= Cardinality(Statuses(table, "live")) + count
        /\ Cardinality(LiveIn(new, Of[t])) >= Cardinality(LiveIn(table, Of[t])) + count
    BY <1>1, <1>3, <2>3, <2>4
  <2>6. \A c : c # Of[t] => LiveIn(new, c) = LiveIn(table, c)
    BY <2>2 DEF LiveIn, Statuses
  <2>7. QED
    BY <2>5, <2>6 DEF new
<1>4. QED
  BY <1>2, <1>3

\* A transaction commits.
LEMMA CountsCommit ==
  ASSUME CountsInv, TypeOK', NEW w \in Workers, task[w].pc \in Writing,
         NEW row \in Row, NEW count \in {-1, 0, 1}, Commit(w, row, count),
         row.status # "absent",
         \/ count = (IF row.status = "live" THEN 1 ELSE 0)
                      - (IF tokens[task[w].token].status = "live" THEN 1 ELSE 0)
         \/ count = 0 /\ row.status = "live"
  PROVE  CountsInv'
<1>1. PICK t \in Tokens : t = task[w].token
  BY DEF CountsInv, TypeOK, Task
<1>2. PICK c \in Collections : c = Of[t]
  BY IndexAssumption
<1>3. /\ task[w].delta \in Int
      /\ tokens \in [Tokens -> Row]
      /\ collections_stats \in [Collections -> Stats]
      /\ collections_stats[c] \in Stats
      /\ total \in [collections : Int, tokens : Int]
  BY DEF CountsInv, TypeOK, Task
<1>4. /\ tokens' = [tokens EXCEPT ![t] = row]
      /\ total' = [total EXCEPT !.tokens = @ + count]
      /\ collections_stats' = [collections_stats EXCEPT ![c] =
           LET held == AddHolders(collections_stats[c], task[w].delta)
           IN  IF count = 0 THEN held ELSE AddTokens(held, count)]
      /\ task' = [task EXCEPT ![w] = Idle]
  <2>1. Of[task[w].token] = c
    BY <1>1, <1>2
  <2>2. QED
    BY <1>1, <2>1, Zenon DEF Commit, Finish
<1>5. /\ LiveCount' >= LiveCount + count
      /\ Cardinality(LiveIn(tokens', c)) >= Cardinality(LiveIn(tokens, c)) + count
      /\ \A d : d # c => LiveIn(tokens', d) = LiveIn(tokens, d)
  <2> DEFINE new == [tokens EXCEPT ![t] = row]
  <2>1. \/ count = (IF row.status = "live" THEN 1 ELSE 0)
                     - (IF tokens[t].status = "live" THEN 1 ELSE 0)
        \/ count = 0 /\ row.status = "live"
    BY <1>1
  <2>2. /\ Cardinality(Statuses(new, "live")) >= Cardinality(Statuses(tokens, "live")) + count
        /\ Cardinality(LiveIn(new, Of[t])) >= Cardinality(LiveIn(tokens, Of[t])) + count
        /\ \A d : d # Of[t] => LiveIn(new, d) = LiveIn(tokens, d)
    BY <1>3, <2>1, CommitCounts
  <2>3. tokens' = new
    BY <1>4
  <2> HIDE DEF new
  <2>4. LiveCount' = Cardinality(Statuses(new, "live"))
    BY <2>3 DEF LiveCount
  <2>5. QED
    BY <1>2, <2>2, <2>3, <2>4 DEF LiveCount
<1>6. LiveCount \in Nat /\ LiveCount' \in Nat
  BY Counted DEF LiveCount
<1>7. /\ Cardinality(LiveIn(tokens, c)) \in Nat
      /\ Cardinality(LiveIn(tokens', c)) \in Nat
  BY Counted
<1>8. total'.tokens <= LiveCount'
  <2>1. total'.tokens = total.tokens + count /\ total.tokens \in Int
    BY <1>3, <1>4
  <2>2. total.tokens <= LiveCount
    BY DEF CountsInv, CountsNeverHigh
  <2>3. QED
    BY <1>5, <1>6, <2>1, <2>2
<1>9. ASSUME NEW d \in Collections
      PROVE  collections_stats'[d].tokens <= Cardinality(LiveIn(tokens', d))
  <2>1. collections_stats[d].tokens <= Cardinality(LiveIn(tokens, d))
    BY DEF CountsInv, CountsNeverHigh
  <2>2. CASE d = c
    <3>1. collections_stats'[c] =
            LET held == AddHolders(collections_stats[c], task[w].delta)
            IN  IF count = 0 THEN held ELSE AddTokens(held, count)
      BY <1>3, <1>4
    <3>2. Cardinality(LiveIn(tokens, c)) + count <= Cardinality(LiveIn(tokens', c))
      BY <1>5, <1>7
    <3>3. QED
      BY <1>3, <1>7, <2>1, <2>2, <3>1, <3>2, AddsNoMore
  <2>3. CASE d # c
    <3>1. collections_stats'[d] = collections_stats[d]
      BY <1>3, <1>4, <2>3
    <3>2. QED
      BY <1>5, <2>1, <2>3, <3>1
  <2>4. QED
    BY <2>2, <2>3
<1>10. CountsNeverHigh'
  BY <1>8, <1>9 DEF CountsNeverHigh
<1>11. ASSUME NEW v \in Workers \ {w} PROVE RowReady(task[v])'
  <2>1. task'[v] = task[v] /\ task[v].token \in Tokens /\ RowReady(task[v])
    BY <1>4 DEF CountsInv, TypeOK, Task, Writable
  <2>2. task[v].pc = "inserting" => task[v].token # t
    BY <1>1 DEF CountsInv, OneWriter, Writing
  <2>3. tokens'[task[v].token] = IF task[v].token = t THEN row ELSE tokens[task[v].token]
    BY <1>3, <1>4, <2>1
  <2>4. QED
    BY <2>1, <2>2, <2>3 DEF RowReady
<1>12. Idle.pc \in OtherPlaces
  BY DEF Idle, OtherPlaces
<1>13. QED
  BY <1>4, <1>10, <1>11, <1>12, CountsWriter

\* An insert counts one and finds no row, an update counts nothing and leaves a
\* live row, a burn counts only a row that was live.
LEMMA CountsTokenCommit ==
  ASSUME CountsInv, TypeOK', NEW w \in Workers,
         TokenInserted(w) \/ TokenUpdated(w) \/ TokenBurned(w)
  PROVE  CountsInv'
<1>1. PICK t \in Tokens : t = task[w].token
  BY DEF CountsInv, TypeOK, Task
<1>2. Writable(task[w]) /\ tokens[t] \in Row /\ task[w].row \in Row
  BY DEF CountsInv, TypeOK, Task
<1>3. CASE TokenInserted(w) \/ TokenUpdated(w)
  <2>1. PICK count \in {0, 1} :
          /\ Commit(w, task[w].row, count)
          /\ task[w].pc = IF count = 1 THEN "inserting" ELSE "updating"
    BY <1>3 DEF TokenInserted, TokenUpdated
  <2>2. task[w].row.status = "live"
    BY <1>2, <2>1 DEF Writable, LivePlaces
  <2>3. task[w].pc \in Writing
    BY <2>1 DEF Writing
  <2>4. CASE count = 1
    <3>1. tokens[t].status = "absent"
      BY <1>1, <1>2, <2>1, <2>4 DEF Writable, RowReady
    <3>2. count = (IF task[w].row.status = "live" THEN 1 ELSE 0)
                    - (IF tokens[task[w].token].status = "live" THEN 1 ELSE 0)
      BY <1>1, <2>2, <2>4, <3>1
    <3>3. QED
      BY <1>2, <2>1, <2>2, <2>3, <2>4, <3>2, CountsCommit
  <2>5. CASE count = 0
    BY <1>2, <2>1, <2>2, <2>3, <2>5, CountsCommit
  <2>6. QED
    BY <2>4, <2>5
<1>4. CASE TokenBurned(w)
  <2> DEFINE row == [tokens[t] EXCEPT !.status = "burned"]
             count == IF tokens[t].status = "live" THEN -1 ELSE 0
  <2>1. task[w].pc \in Writing /\ Commit(w, row, count)
    BY <1>1, <1>4 DEF TokenBurned, Writing
  <2>2. row \in Row /\ row.status = "burned" /\ count \in {-1, 0, 1}
    BY <1>2 DEF Row
  <2>3. count = (IF row.status = "live" THEN 1 ELSE 0)
                  - (IF tokens[task[w].token].status = "live" THEN 1 ELSE 0)
    BY <1>1, <2>2
  <2> HIDE DEF row, count
  <2>4. QED
    BY <2>1, <2>2, <2>3, CountsCommit
<1>5. QED
  BY <1>3, <1>4

LEMMA NextCounts == ASSUME CountsInv, [Next]_vars PROVE CountsInv'
<1>1. TypeOK'
  BY NextType DEF CountsInv
<1>2. CASE \/ ChainStep \/ StoreEvents \/ CollectionsProcessed \/ BlockProcessed
           \/ UNCHANGED vars
  BY <1>1, <1>2, CountsBatch
<1>3. ASSUME NEW w \in Workers,
             \/ TakeCollection(w) \/ SaveCollection(w) \/ BurnCollection(w)
             \/ BurnItsTokens(w) \/ CollectionFails(w)
      PROVE  CountsInv'
  BY <1>1, <1>3, CountsCollection, CountsBurnItsTokens
<1>4. ASSUME NEW w \in Workers,
             \/ TakeToken(w) \/ RescanToken(w) \/ DeleteOwners(w) \/ SaveOwner(w)
             \/ FindToken(w) \/ InsertToken(w) \/ InsertRefused(w) \/ UpdateToken(w)
             \/ DropOwner(w) \/ BurnToken(w) \/ TokenInserted(w) \/ TokenUpdated(w)
             \/ TokenBurned(w) \/ TokenFails(w)
      PROVE  CountsInv'
  BY <1>1, <1>4, CountsTake, CountsEventStep, CountsTokenCommit
<1>5. QED
  BY <1>2, <1>3, <1>4 DEF Next, Continue

\* However often tokens are rescanned at an older block beside the events of the
\* new one, and whatever fails, total and collections_stats never count a token
\* that is not there as live: only one that came back may be missing.
THEOREM CountsAreNeverHigh == Spec => []CountsNeverHigh
<1>1. Init => CountsInv
  <2>1. SUFFICES ASSUME Init PROVE CountsInv
    OBVIOUS
  <2>2. IndexInv
    BY <2>1, InitInv
  <2>3. CountsNeverHigh
    <3>1. total.tokens = 0 /\ \A c \in Collections : collections_stats[c].tokens = 0
      BY <2>1 DEF Init, NoStats
    <3>2. LiveCount \in Nat /\ \A c : Cardinality(LiveIn(tokens, c)) \in Nat
      BY Counted DEF LiveCount
    <3>3. QED
      BY <3>1, <3>2 DEF CountsNeverHigh
  <2>4. Idle.pc = "idle"
    BY DEF Idle
  <2>5. \A w \in Workers : Writable(task[w])
    BY <2>1, <2>4 DEF Init, Writable, RowReady, LivePlaces
  <2>6. QED
    BY <2>2, <2>3, <2>5 DEF IndexInv, CountsInv
<1>2. CountsInv /\ [Next]_vars => CountsInv'
  BY NextCounts
<1>3. CountsInv => CountsNeverHigh
  BY DEF CountsInv
<1>4. QED
  BY <1>1, <1>2, <1>3, PTL DEF Spec
=============================================================================
