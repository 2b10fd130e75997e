---------------------------- MODULE NestingProofs ----------------------------
(***************************************************************************)
(* What holds of Nesting for any tokens, trees, numbers of operations and  *)
(* of faults.                                                              *)
(***************************************************************************)
EXTENDS Nesting, FiniteSetTheorems, TLAPS

(***************************************************************************)
(* Types.                                                                  *)
(***************************************************************************)
LEMMA PlacesApart ==
  /\ {"absent", "account", "burned"} \subseteq Places
  /\ Tokens \subseteq Places
  /\ \A t \in Tokens : t \notin {"absent", "account", "burned"}
BY NestingAssumption DEF Places

LEMMA CountsAreNumbers ==
  ASSUME NEW S \in SUBSET Tokens
  PROVE  Cardinality(S) \in Nat
BY NestingAssumption, FS_Subset, FS_CardinalityType

LEMMA BegunType == Begun \in Task
<1>1. (CHOOSE t \in Tokens : TRUE) \in Tokens
  BY NestingAssumption
<1>2. NoTree \in [Tokens -> SUBSET Tokens] /\ NoLinks \in Links
  BY DEF NoTree, NoLinks, Links
<1>3. "absent" \in Places
  BY PlacesApart
<1>. QED BY <1>1, <1>2, <1>3 DEF Begun, Task

LEMMA LinksType ==
  /\ \A row \in Row : LinksOf(row) \in Links
  /\ \A row \in OwnerRow : LinksOf(row) \in Links
BY DEF Row, OwnerRow, Links, LinksOf

LEMMA RowType ==
  ASSUME NEW children \in SUBSET Tokens
  PROVE  /\ \A row \in Row : [row EXCEPT !.children = children] \in Row
         /\ \A row \in OwnerRow : [row EXCEPT !.children = children] \in OwnerRow
BY DEF Row, OwnerRow

LEMMA TreeType ==
  ASSUME NEW f \in [Tokens -> Places], NEW t \in Tokens
  PROVE  GetTokenChildren(f, t) \in [Tokens -> SUBSET Tokens]
BY DEF GetTokenChildren, Below

\* An action of a task moves it to a place of its type.
LEMMA BecomeType ==
  ASSUME TypeOK, NEW e \in DOMAIN task, NEW t \in Task, Become(e, t)
  PROVE  /\ DOMAIN task' = DOMAIN task
         /\ DOMAIN task' \subseteq Event
         /\ task' \in [DOMAIN task' -> Task]
         /\ task'[e] = t
         /\ \A x \in DOMAIN task \ {e} : task'[x] = task[x]
BY DEF TypeOK, Become

LEMMA FinishType ==
  ASSUME TypeOK, NEW e \in DOMAIN task, Finish(e)
  PROVE  /\ DOMAIN task' = DOMAIN task \ {e}
         /\ DOMAIN task' \subseteq Event
         /\ task' \in [DOMAIN task' -> Task]
         /\ \A x \in DOMAIN task' : task'[x] = task[x]
BY DEF TypeOK, Finish

LEMMA MoveType ==
  ASSUME TypeOK, NEW e \in DOMAIN task,
         NEW pc \in {"data", "row", "ownerRow", "bundle", "walk", "parent", "parentOwner", "unnest",
                     "filter", "unnestOwner", "filterOwner", "select", "remove", "owners",
                     "owner", "find", "insert", "update", "part", "burn"}
  PROVE  [task[e] EXCEPT !.pc = pc] \in Task
<1>1. ASSUME NEW t \in Task
      PROVE  [t EXCEPT !.pc = pc] \in Task
  BY DEF Task
<1>. QED BY <1>1 DEF TypeOK

LEMMA AfterType ==
  ASSUME TypeOK, NEW e \in DOMAIN task
  PROVE  ThenUnnest(e) \in Task /\ ThenOwners(e) \in Task
<1>. DEFINE t == task[e]
<1>1. t \in Task /\ e \in Event /\ e.token \in Tokens
  BY DEF TypeOK, Event
<1>2. t.owned \in Links /\ t.held \in Links
  BY <1>1 DEF Task
<1>. HIDE DEF t
<1>3. ASSUME NEW l \in Links, Leaves(l, t.place), NEW pc \in {"unnest", "unnestOwner"}
      PROVE  [t EXCEPT !.pc = pc, !.cur = l.parent, !.gone = l.children \cup {e.token}] \in Task
  <2>1. l.parent \in Tokens /\ l.children \cup {e.token} \subseteq Tokens
    BY <1>1, <1>3 DEF Links, Leaves
  <2>. QED BY <1>1, <2>1 DEF Task
<1>4. [t EXCEPT !.pc = "owners"] \in Task
  BY <1>1 DEF Task
<1>5. ThenOwners(e) \in Task
  BY <1>2, <1>3, <1>4 DEF ThenOwners, t
<1>. QED BY <1>2, <1>3, <1>5 DEF ThenUnnest, t

LEMMA ChildrenType ==
  ASSUME TypeOK, NEW t \in Tokens, NEW seen, NEW children \in SUBSET Tokens,
         UpdateChildren(t, seen, children)
  PROVE  /\ tokens' \in [Tokens -> Row]
         /\ counts' \in [Tokens -> Nat]
         /\ lost' \subseteq Tokens
<1>1. CASE tokens[t].status = "absent"
  BY <1>1 DEF TypeOK, UpdateChildren
<1>2. CASE tokens[t].status # "absent"
  <2>1. [tokens[t] EXCEPT !.children = children] \in Row
    BY RowType DEF TypeOK
  <2>2. tokens' \in [Tokens -> Row]
    BY <1>2, <2>1 DEF TypeOK, UpdateChildren
  <2>3. NestedStats(counts[t], tokens[t].children, children) \in Nat
    BY CountsAreNumbers DEF TypeOK, NestedStats
  <2>. QED BY <1>2, <2>2, <2>3 DEF TypeOK, UpdateChildren
<1>. QED BY <1>1, <1>2

LEMMA OwnerChildrenType ==
  ASSUME TypeOK, NEW t \in Tokens, NEW children \in SUBSET Tokens,
         UpdateOwnerChildren(t, children)
  PROVE  owners' \in [Tokens -> OwnerRow]
<1>1. [owners[t] EXCEPT !.children = children] \in OwnerRow
  BY RowType DEF TypeOK
<1>. QED BY <1>1 DEF TypeOK, UpdateOwnerChildren

LEMMA OperationType ==
  ASSUME NEW f \in [Tokens -> Places], NEW o \in Operations(f)
  PROVE  o.token \in Tokens /\ After(f, o) \in [Tokens -> Places] /\ EventOf(o) \in Event
<1>1. PICK t \in Tokens : o \in OperationsOn(f, t)
  BY DEF Operations
<1>2. Holders(f, t) \subseteq Places
  BY PlacesApart DEF Holders
<1>3. o.token = t /\ o.kind \in Kinds /\ o.to \in Places
  BY <1>1, <1>2, PlacesApart DEF OperationsOn, Op, Kinds
<1>. QED BY <1>3 DEF After, EventOf, Event

LEMMA GrowType ==
  ASSUME TypeOK, NEW f \in [Tokens -> Places], NEW events \in SUBSET Event,
         NEW n \in {1, 2}, n <= left, Grow(f, events, n)
  PROVE  TypeOK'
<1>1. [place |-> f, events |-> events] \in Block
  BY DEF Block
<1>2. queue' \in Seq(Block)
  BY <1>1 DEF TypeOK, Grow
<1>3. left' \in Nat /\ under' \subseteq Tokens \X Tokens
  BY DEF TypeOK, Grow
<1>. QED BY <1>2, <1>3 DEF TypeOK, Grow, tables, ghosts

LEMMA ProduceIsGrow ==
  ASSUME TypeOK, Produce
  PROVE  \E f \in [Tokens -> Places], events \in SUBSET Event, n \in {1, 2} :
           /\ n <= left
           /\ Grow(f, events, n)
           /\ \A t \in Tokens : f[t] # head[t] => \E e \in events : e.token = t
<1>1. head \in [Tokens -> Places]
  BY DEF TypeOK
<1>2. PICK o \in Operations(head) :
         \/ Grow(After(head, o), {EventOf(o)}, 1)
         \/ /\ left > 1
            /\ \E p \in Operations(After(head, o)) :
                 Grow(After(After(head, o), p), {EventOf(o), EventOf(p)}, 2)
  BY DEF Produce
<1>6. 1 <= left /\ (left > 1 => 2 <= left)
  BY DEF Produce, TypeOK
<1>3. /\ o.token \in Tokens /\ After(head, o) \in [Tokens -> Places] /\ EventOf(o) \in Event
      /\ EventOf(o).token = o.token
  BY <1>1, <1>2, OperationType DEF EventOf
<1>4. CASE Grow(After(head, o), {EventOf(o)}, 1)
  <2>1. \A t \in Tokens : After(head, o)[t] # head[t] => EventOf(o).token = t
    BY <1>1, <1>3 DEF After
  <2>. QED BY <1>3, <1>4, <1>6, <2>1
<1>5. CASE /\ left > 1
           /\ \E p \in Operations(After(head, o)) :
                Grow(After(After(head, o), p), {EventOf(o), EventOf(p)}, 2)
  <2>1. PICK p \in Operations(After(head, o)) :
           Grow(After(After(head, o), p), {EventOf(o), EventOf(p)}, 2)
    BY <1>5
  <2>2. /\ p.token \in Tokens /\ After(After(head, o), p) \in [Tokens -> Places]
        /\ EventOf(p) \in Event /\ EventOf(p).token = p.token
    BY <1>3, <2>1, OperationType DEF EventOf
  <2>3. \A t \in Tokens : After(After(head, o), p)[t] # head[t] =>
          EventOf(o).token = t \/ EventOf(p).token = t
    BY <1>1, <1>3, <2>2 DEF After
  <2>4. {EventOf(o), EventOf(p)} \in SUBSET Event
    BY <1>3, <2>2
  <2>5. \A t \in Tokens : After(After(head, o), p)[t] # head[t] =>
          \E e \in {EventOf(o), EventOf(p)} : e.token = t
    BY <2>3
  <2>. QED BY <1>5, <1>6, <2>1, <2>2, <2>4, <2>5
<1>. QED BY <1>2, <1>4, <1>5

LEMMA BatchType ==
  ASSUME TypeOK, BatchProcess
  PROVE  TypeOK'
<1>1. Head(queue) \in Block /\ Tail(queue) \in Seq(Block)
  BY DEF TypeOK, BatchProcess
<1>2. Head(queue).place \in [Tokens -> Places] /\ Head(queue).events \subseteq Event
  BY <1>1 DEF Block
<1>3. DOMAIN task' \subseteq Event /\ task' \in [DOMAIN task' -> Task]
  BY <1>2, BegunType DEF BatchProcess
<1>. QED BY <1>1, <1>2, <1>3 DEF TypeOK, BatchProcess, tables, ghosts

LEMMA HandleNestingType ==
  ASSUME TypeOK, NEW e \in DOMAIN task, HandleNesting(e)
  PROVE  TypeOK'
<1>. DEFINE t == task[e]
<1>1. /\ e.token \in Tokens
      /\ t \in Task
      /\ head \in [Tokens -> Places]
  BY DEF TypeOK, Event
<1>2. t.cur \in Tokens /\ t.up \in Links /\ t.tree \in [Tokens -> SUBSET Tokens]
  BY <1>1 DEF Task
<1>3. /\ \A x \in Tokens : tokens[x] \in Row /\ LinksOf(tokens[x]) \in Links
      /\ \A x \in Tokens : owners[x] \in OwnerRow /\ LinksOf(owners[x]) \in Links
  BY LinksType DEF TypeOK
<1>. HIDE DEF t
<1>4. CASE ReadRow(e) \/ ReadOwnerRow(e)
  <2>1. tokens[e.token].children \subseteq Tokens
    BY <1>1, <1>3 DEF Row
  <2>2. PICK n \in Task : Become(e, n)
    <3>1. [t EXCEPT !.pc = "owners", !.children = tokens[e.token].children] \in Task
      BY <1>1, <2>1 DEF Task
    <3>2. [t EXCEPT !.pc = "ownerRow", !.held = LinksOf(tokens[e.token])] \in Task
      BY <1>1, <1>3 DEF Task
    <3>3. ASSUME NEW pc \in {"bundle", "select", "owners"}
          PROVE  [t EXCEPT !.owned = LinksOf(owners[e.token]), !.pc = pc] \in Task
      BY <1>1, <1>3 DEF Task
    <3>4. CASE ReadRow(e)
      BY <3>1, <3>2, <3>4 DEF ReadRow, t
    <3>5. CASE ReadOwnerRow(e)
      BY <3>3, <3>5 DEF ReadOwnerRow, t
    <3>. QED BY <1>4, <3>4, <3>5
  <2>. QED BY <1>4, <2>2, BecomeType DEF ReadRow, ReadOwnerRow, Silent, onChain, tables, ghosts,
                                         TypeOK
<1>5. CASE GetTokenBundle(e)
  <2>1. PICK n \in Task : Become(e, n)
    <3>. DEFINE tree == GetTokenChildren(head, e.token)
    <3>1. tree \in [Tokens -> SUBSET Tokens] /\ tree[e.token] \subseteq Tokens
      BY <1>1, TreeType
    <3>. HIDE DEF tree
    <3>2. [t EXCEPT !.pc = "walk", !.cur = e.token, !.tree = tree, !.children = tree[e.token]] \in Task
      BY <1>1, <3>1 DEF Task
    <3>3. [t EXCEPT !.pc = "owners"] \in Task
      BY <1>1 DEF Task
    <3>. QED BY <1>5, <3>2, <3>3 DEF GetTokenBundle, Move, t, tree
  <2>. QED BY <1>5, <2>1, BecomeType DEF GetTokenBundle, Silent, onChain, tables, ghosts, TypeOK
<1>6. CASE UpdateTokenParents(e)
  <2>1. PICK n \in Task : Become(e, n)
    <3>1. ASSUME InToken(head, t.cur), NEW pc \in {"walk", "parent"}
          PROVE  [t EXCEPT !.cur = head[t.cur], !.pc = pc] \in Task
      <4>1. head[t.cur] \in Tokens
        BY <3>1 DEF InToken
      <4>. QED BY <1>1, <4>1 DEF Task
    <3>. QED BY <1>6, <3>1, AfterType DEF UpdateTokenParents, t
  <2>2. faults' \in Nat
    BY <1>6 DEF UpdateTokenParents, TypeOK
  <2>. QED BY <1>6, <2>1, <2>2, BecomeType DEF UpdateTokenParents, onChain, tables, TypeOK
<1>7. CASE UpdateParent(e)
  <2>1. t.tree[t.cur] \subseteq Tokens
    BY <1>2
  <2>2. tokens' \in [Tokens -> Row] /\ counts' \in [Tokens -> Nat] /\ lost' \subseteq Tokens
    BY <1>2, <1>7, <2>1, ChildrenType DEF UpdateParent, t
  <2>. QED BY <1>7, <2>2, BecomeType, MoveType DEF UpdateParent, Move, onChain, ghosts, TypeOK
<1>8. CASE UpdateParentOwner(e)
  <2>1. t.tree[t.cur] \subseteq Tokens
    BY <1>2
  <2>2. owners' \in [Tokens -> OwnerRow]
    BY <1>2, <1>8, <2>1, OwnerChildrenType DEF UpdateParentOwner, t
  <2>. QED BY <1>8, <2>2, BecomeType, MoveType DEF UpdateParentOwner, Move, onChain, ghosts, TypeOK
<1>9. CASE FindParent(e)
  <2>1. PICK n \in Task : Become(e, n)
    <3>1. [t EXCEPT !.pc = "filter", !.up = LinksOf(tokens[t.cur])] \in Task
      BY <1>1, <1>2, <1>3 DEF Task
    <3>. QED BY <1>9, <3>1, AfterType DEF FindParent, t
  <2>. QED BY <1>9, <2>1, BecomeType DEF FindParent, Silent, onChain, tables, ghosts, TypeOK
<1>10. CASE FilterParent(e)
  <2>1. t.up.children \ t.gone \in SUBSET Tokens
    BY <1>2 DEF Links
  <2>2. tokens' \in [Tokens -> Row] /\ counts' \in [Tokens -> Nat] /\ lost' \subseteq Tokens
    BY <1>2, <1>10, <2>1, ChildrenType DEF FilterParent, t
  <2>3. PICK n \in Task : Become(e, n)
    <3>1. ASSUME GoesUp(t.up)
          PROVE  [t EXCEPT !.pc = "unnest", !.cur = t.up.parent] \in Task
      <4>1. t.up.parent \in Tokens
        BY <1>2, <3>1 DEF GoesUp, Links
      <4>. QED BY <1>1, <4>1 DEF Task
    <3>. QED BY <1>10, <3>1, AfterType DEF FilterParent, t
  <2>. QED BY <1>10, <2>2, <2>3, BecomeType DEF FilterParent, onChain, ghosts, TypeOK
<1>11. CASE FindParentOwner(e)
  <2>1. PICK n \in Task : Become(e, n)
    <3>1. [t EXCEPT !.pc = "filterOwner", !.up = LinksOf(owners[t.cur])] \in Task
      BY <1>1, <1>2, <1>3 DEF Task
    <3>2. [t EXCEPT !.pc = "owners"] \in Task
      BY <1>1 DEF Task
    <3>. QED BY <1>11, <3>1, <3>2 DEF FindParentOwner, t
  <2>. QED BY <1>11, <2>1, BecomeType DEF FindParentOwner, Silent, onChain, tables, ghosts, TypeOK
<1>12. CASE FilterParentOwner(e)
  <2>1. t.up.children \ t.gone \in SUBSET Tokens
    BY <1>2 DEF Links
  <2>2. owners' \in [Tokens -> OwnerRow]
    BY <1>2, <1>12, <2>1, OwnerChildrenType DEF FilterParentOwner, t
  <2>3. PICK n \in Task : Become(e, n)
    <3>1. ASSUME GoesUp(t.up)
          PROVE  [t EXCEPT !.pc = "unnestOwner", !.cur = t.up.parent] \in Task
      <4>1. t.up.parent \in Tokens
        BY <1>2, <3>1 DEF GoesUp, Links
      <4>. QED BY <1>1, <4>1 DEF Task
    <3>2. [t EXCEPT !.pc = "owners"] \in Task
      BY <1>1 DEF Task
    <3>. QED BY <1>12, <3>1, <3>2 DEF FilterParentOwner, t
  <2>. QED BY <1>12, <2>2, <2>3, BecomeType DEF FilterParentOwner, onChain, ghosts, TypeOK
<1>13. CASE GetParentsByChildren(e)
  <2>1. PICK n \in Task : Become(e, n)
    <3>. DEFINE parents == {p \in Tokens : e.token \in tokens[p].children}
                todo == {[token |-> p, children |-> tokens[p].children] : p \in parents}
    <3>1. todo \subseteq [token : Tokens, children : SUBSET Tokens]
      BY <1>3 DEF Row
    <3>. HIDE DEF todo
    <3>2. ASSUME NEW pc \in {"burn", "owners", "remove"}
          PROVE  [t EXCEPT !.todo = todo, !.pc = pc] \in Task
      BY <1>1, <3>1 DEF Task
    <3>. HIDE DEF parents
    <3>3. (IF parents = {} THEN AfterRemoval(t) ELSE "remove") \in {"burn", "owners", "remove"}
      BY DEF AfterRemoval
    <3>. QED BY <1>13, <3>2, <3>3 DEF GetParentsByChildren, t, todo, parents
  <2>. QED BY <1>13, <2>1, BecomeType DEF GetParentsByChildren, Silent, onChain, tables, ghosts, TypeOK
<1>14. CASE RemoveChildFromToken(e)
  <2>1. t.todo \subseteq [token : Tokens, children : SUBSET Tokens]
    BY <1>1 DEF Task
  <2>2. PICK x \in t.todo :
          /\ UpdateChildren(x.token, x.children, x.children \ {e.token})
          /\ Become(e, [t EXCEPT !.todo = @ \ {x},
               !.pc = IF t.todo = {x} THEN AfterRemoval(t) ELSE "remove"])
    BY <1>14 DEF RemoveChildFromToken, t
  <2>3. x.token \in Tokens /\ x.children \ {e.token} \in SUBSET Tokens
    BY <2>1
  <2>4. tokens' \in [Tokens -> Row] /\ counts' \in [Tokens -> Nat] /\ lost' \subseteq Tokens
    BY <2>2, <2>3, ChildrenType
  <2>5. (IF t.todo = {x} THEN AfterRemoval(t) ELSE "remove") \in {"burn", "owners", "remove"}
    BY DEF AfterRemoval
  <2>6. [t EXCEPT !.todo = @ \ {x},
               !.pc = IF t.todo = {x} THEN AfterRemoval(t) ELSE "remove"] \in Task
    BY <1>1, <2>1, <2>5 DEF Task
  <2>. QED BY <1>14, <2>2, <2>4, <2>6, BecomeType DEF RemoveChildFromToken, onChain, ghosts, TypeOK
<1>. QED BY <1>4, <1>5, <1>6, <1>7, <1>8, <1>9, <1>10, <1>11, <1>12, <1>13, <1>14 DEF HandleNesting

LEMMA PreparedType ==
  ASSUME TypeOK, NEW e \in DOMAIN task
  PROVE  /\ Prepared(e) \in Row
         /\ ParentId(task[e]) \in Tokens \cup {NoToken}
         /\ task[e].children \subseteq Tokens
<1>1. task[e] \in Task
  BY DEF TypeOK
<1>2. task[e].children \subseteq Tokens
  BY <1>1 DEF Task
<1>. QED BY <1>2 DEF Prepared, ParentId, Row

LEMMA UpdateType ==
  ASSUME TypeOK, NEW e \in DOMAIN task, Update(e)
  PROVE  TypeOK'
<1>1. e.token \in Tokens /\ task[e] \in Task
  BY DEF TypeOK, Event
<1>2. CASE GetTokenData(e)
  <2>1. PICK f \in {now, head} :
          /\ faults' = IF f = now THEN faults ELSE faults + 1
          /\ Become(e, [task[e] EXCEPT !.pc = IF Live(f, e.token) THEN "row" ELSE "part",
                                       !.place = f[e.token], !.bundle = IsBundle(f, e.token)])
    BY <1>2 DEF GetTokenData
  <2>2. f[e.token] \in Places /\ IsBundle(f, e.token) \in BOOLEAN
    BY <1>1 DEF TypeOK, IsBundle, InToken
  <2>3. ASSUME NEW pc \in {"row", "part"}, NEW place \in Places, NEW b \in BOOLEAN
        PROVE  [task[e] EXCEPT !.pc = pc, !.place = place, !.bundle = b] \in Task
    <3>1. ASSUME NEW t \in Task
          PROVE  [t EXCEPT !.pc = pc, !.place = place, !.bundle = b] \in Task
      BY DEF Task
    <3>. QED BY <1>1, <3>1
  <2>4. PICK n \in Task : Become(e, n)
    BY <2>1, <2>2, <2>3
  <2>5. faults' \in Nat
    BY <2>1 DEF TypeOK
  <2>. QED BY <1>2, <2>4, <2>5, BecomeType DEF GetTokenData, onChain, tables, TypeOK
<1>3. CASE DeleteOwner(e)
  <2>1. NoOwnerRow \in OwnerRow
    BY DEF NoOwnerRow, OwnerRow
  <2>2. owners' \in [Tokens -> OwnerRow]
    BY <1>3, <2>1 DEF DeleteOwner, TypeOK
  <2>3. PICK n \in Task : Become(e, n)
    BY <1>3, MoveType DEF DeleteOwner, Move
  <2>. QED BY <1>3, <2>2, <2>3, BecomeType DEF DeleteOwner, onChain, ghosts, TypeOK
<1>4. CASE SaveOwner(e)
  <2>1. [exists |-> TRUE, parent |-> ParentId(task[e]), children |-> task[e].children] \in OwnerRow
    BY PreparedType DEF OwnerRow
  <2>2. owners' \in [Tokens -> OwnerRow]
    BY <1>4, <2>1 DEF SaveOwner, TypeOK
  <2>. QED BY <1>4, <2>2, BecomeType, MoveType DEF SaveOwner, Move, onChain, ghosts, TypeOK
<1>5. CASE FindToken(e)
  <2>1. PICK n \in Task : Become(e, n)
    BY <1>5, MoveType DEF FindToken, Move
  <2>. QED BY <1>5, <2>1, BecomeType DEF FindToken, Silent, onChain, tables, ghosts, TypeOK
<1>6. CASE InsertToken(e)
  <2>1. tokens' \in [Tokens -> Row]
    BY <1>6, PreparedType DEF InsertToken, TypeOK
  <2>. QED BY <1>6, <2>1, FinishType DEF InsertToken, onChain, ghosts, TypeOK
<1>7. CASE InsertRefused(e)
  BY <1>1, <1>7, FinishType DEF InsertRefused, onChain, tables, TypeOK
<1>8. CASE UpdateToken(e)
  <2>1. tokens' \in [Tokens -> Row]
    BY <1>8, PreparedType DEF UpdateToken, TypeOK
  <2>2. NestedStats(counts[e.token], tokens[e.token].children, task[e].children) \in Nat
    BY <1>1, PreparedType, CountsAreNumbers DEF NestedStats, TypeOK
  <2>3. counts' \in [Tokens -> Nat] /\ lost' \subseteq Tokens
    BY <1>1, <1>8, <2>2 DEF UpdateToken, TypeOK
  <2>. QED BY <1>8, <2>1, <2>3, FinishType DEF UpdateToken, onChain, ghosts, TypeOK
<1>9. CASE DropOwner(e)
  <2>1. NoOwnerRow \in OwnerRow
    BY DEF NoOwnerRow, OwnerRow
  <2>2. owners' \in [Tokens -> OwnerRow] /\ rejected' \subseteq Tokens
    BY <1>1, <1>9, <2>1 DEF DropOwner, TypeOK
  <2>3. DOMAIN task' \subseteq Event /\ task' \in [DOMAIN task' -> Task]
    BY <1>9, MoveType, BecomeType, FinishType DEF DropOwner, Move
  <2>. QED BY <1>9, <2>2, <2>3 DEF DropOwner, onChain, TypeOK
<1>10. CASE BurnToken(e)
  <2>1. ASSUME NEW row \in Row
        PROVE  [row EXCEPT !.status = "burned"] \in Row
    BY DEF Row
  <2>2. tokens' \in [Tokens -> Row]
    BY <1>1, <1>10, <2>1 DEF BurnToken, TypeOK
  <2>. QED BY <1>10, <2>2, FinishType DEF BurnToken, onChain, ghosts, TypeOK
<1>. QED BY <1>2, <1>3, <1>4, <1>5, <1>6, <1>7, <1>8, <1>9, <1>10 DEF Update

LEMMA FailsType ==
  ASSUME TypeOK, NEW e \in DOMAIN task, Fails(e)
  PROVE  TypeOK'
<1>1. e.token \in Tokens
  BY DEF TypeOK, Event
<1>2. CASE NestingFails(e)
  <2>1. faults' \in Nat
    BY <1>2 DEF NestingFails, TypeOK
  <2>2. Become(e, [task[e] EXCEPT !.pc = "owners"]) /\ [task[e] EXCEPT !.pc = "owners"] \in Task
    BY <1>2, MoveType DEF NestingFails, Move
  <2>. QED BY <1>2, <2>1, <2>2, BecomeType DEF NestingFails, onChain, tables, TypeOK
<1>3. CASE ParentFails(e)
  BY <1>3, AfterType, BecomeType DEF ParentFails, onChain, tables, TypeOK
<1>4. CASE EventFails(e)
  <2>1. faults' \in Nat /\ rejected' \subseteq Tokens
    BY <1>1, <1>4 DEF EventFails, TypeOK
  <2>2. Finish(e)
    BY <1>4 DEF EventFails
  <2>. QED BY <1>4, <2>1, <2>2, FinishType DEF EventFails, onChain, tables, TypeOK
<1>. QED BY <1>2, <1>3, <1>4 DEF Fails

LEMMA InitType ==
  ASSUME Init
  PROVE  TypeOK
<1>1. head \in [Tokens -> Places] /\ now \in [Tokens -> Places]
  BY NestingAssumption DEF Init
<1>2. \A t \in Tokens : RowOf(head, t) \in Row /\ OwnerRowOf(head, t) \in OwnerRow
  BY DEF RowOf, OwnerRowOf, Row, OwnerRow, ParentIn, InToken, Below, Live
<1>3. \A t \in Tokens : Cardinality(Below(head, t)) \in Nat
  BY CountsAreNumbers DEF Below
<1>4. queue \in Seq(Block) /\ left \in Nat /\ faults \in Nat
  BY NestingAssumption DEF Init
<1>5. DOMAIN task \subseteq Event /\ task \in [DOMAIN task -> Task]
  BY DEF Init
<1>6. tokens \in [Tokens -> Row] /\ owners \in [Tokens -> OwnerRow] /\ counts \in [Tokens -> Nat]
  BY <1>2, <1>3 DEF Init
<1>. QED BY <1>1, <1>4, <1>5, <1>6 DEF Init, TypeOK

LEMMA TypeStep ==
  ASSUME TypeOK, [Next]_vars
  PROVE  TypeOK'
<1>1. CASE Produce
  BY <1>1, ProduceIsGrow, GrowType
<1>2. CASE BatchProcess
  BY <1>2, BatchType
<1>3. CASE \E e \in DOMAIN task : Handle(e) \/ Fails(e)
  BY <1>3, HandleNestingType, UpdateType, FailsType DEF Handle
<1>4. CASE UNCHANGED vars
  BY <1>4 DEF vars, onChain, tables, ghosts, TypeOK
<1>. QED BY <1>1, <1>2, <1>3, <1>4 DEF Next

\* Every variable keeps its type, for any number of tokens and any trees.
THEOREM TypeCorrect == Spec => []TypeOK
<1>1. Init => TypeOK
  BY InitType
<1>2. TypeOK /\ [Next]_vars => TypeOK'
  BY TypeStep
<1>. QED BY <1>1, <1>2, PTL DEF Spec

-----------------------------------------------------------------------------
(***************************************************************************)
(* Only tokens that were in it get into the children of a row: all that a  *)
(* task holds to be written is of some block, or was in the row before.    *)
(***************************************************************************)
HeadKnown == \A t, p \in Tokens : p \in Above(head, t) => <<t, p>> \in under

TaskNested(e, t) ==
  /\ \A p \in Tokens : \A c \in t.tree[p] : <<c, p>> \in under
  /\ \A c \in t.children : <<c, e.token>> \in under
  /\ \A x \in t.todo : \A c \in x.children : <<c, x.token>> \in under
  /\ t.pc \in {"filter", "filterOwner"} => \A c \in t.up.children : <<c, t.cur>> \in under

NestInv ==
  /\ TypeOK
  /\ HeadKnown
  /\ ChildrenWereNested
  /\ \A e \in DOMAIN task : TaskNested(e, task[e])

LEMMA NestFrame ==
  ASSUME NestInv, TypeOK', NEW e \in DOMAIN task, UNCHANGED <<head, under>>,
         ChildrenWereNested',
         \/ \E n : Become(e, n) /\ TaskNested(e, n)
         \/ Finish(e)
  PROVE  NestInv'
<1>1. HeadKnown'
  BY DEF NestInv, HeadKnown, Above, Parents, InToken
<1>2. TypeOK
  BY DEF NestInv
<1>3. ASSUME NEW x \in DOMAIN task'
      PROVE  TaskNested(x, task[x])'
  <2>1. CASE Finish(e)
    BY <1>2, <1>3, <2>1 DEF NestInv, TypeOK, Finish, TaskNested
  <2>2. ASSUME NEW n, Become(e, n), TaskNested(e, n)
        PROVE  TaskNested(x, task[x])'
    <3>1. x \in DOMAIN task /\ task'[x] = IF x = e THEN n ELSE task[x]
      BY <1>2, <1>3, <2>2 DEF TypeOK, Become
    <3>2. TaskNested(x, task'[x])
      BY <2>2, <3>1 DEF NestInv
    <3>. QED BY <3>2 DEF TaskNested
  <2>. QED BY <2>1, <2>2
<1>. QED BY <1>1, <1>3 DEF NestInv

LEMMA ChildrenNested ==
  ASSUME NestInv, NEW t \in Tokens, NEW seen, NEW children \in SUBSET Tokens,
         \A c \in children : <<c, t>> \in under,
         UpdateChildren(t, seen, children), UNCHANGED <<owners, under>>
  PROVE  ChildrenWereNested'
<1>0. tokens \in [Tokens -> Row]
  BY DEF NestInv, TypeOK
<1>1. \A p \in Tokens : tokens'[p].children \in {tokens[p].children, children}
  BY <1>0 DEF UpdateChildren, Row
<1>2. \A p \in Tokens \ {t} : tokens'[p].children = tokens[p].children
  BY <1>0 DEF UpdateChildren, Row
<1>. QED BY <1>1, <1>2 DEF NestInv, ChildrenWereNested

LEMMA OwnerChildrenNested ==
  ASSUME NestInv, NEW t \in Tokens, NEW children \in SUBSET Tokens,
         \A c \in children : <<c, t>> \in under,
         UpdateOwnerChildren(t, children), UNCHANGED <<tokens, under>>
  PROVE  ChildrenWereNested'
<1>1. \A p \in Tokens : owners'[p].children \in {owners[p].children, children}
  BY DEF NestInv, TypeOK, UpdateOwnerChildren, OwnerRow
<1>2. \A p \in Tokens \ {t} : owners'[p].children = owners[p].children
  BY DEF NestInv, TypeOK, UpdateOwnerChildren, OwnerRow
<1>. QED BY <1>1, <1>2 DEF NestInv, ChildrenWereNested

\* A task that goes on with what it has holds nothing new.
LEMMA MoveNested ==
  ASSUME NestInv, NEW e \in DOMAIN task,
         NEW pc \in {"data", "row", "ownerRow", "bundle", "walk", "parent", "parentOwner", "unnest",
                     "unnestOwner", "select", "remove", "owners",
                     "owner", "find", "insert", "update", "part", "burn"}
  PROVE  TaskNested(e, [task[e] EXCEPT !.pc = pc])
<1>1. task[e] \in Task /\ TaskNested(e, task[e])
  BY DEF NestInv, TypeOK
<1>. QED BY <1>1 DEF TaskNested, Task

LEMMA AfterNested ==
  ASSUME NestInv, NEW e \in DOMAIN task
  PROVE  TaskNested(e, ThenUnnest(e)) /\ TaskNested(e, ThenOwners(e))
<1>. DEFINE t == task[e]
<1>1. t \in Task /\ TaskNested(e, t)
  BY DEF NestInv, TypeOK
<1>. HIDE DEF t
<1>2. ASSUME NEW c, NEW g, NEW pc \in {"unnest", "unnestOwner"}
      PROVE  TaskNested(e, [t EXCEPT !.pc = pc, !.cur = c, !.gone = g])
  BY <1>1 DEF TaskNested, Task
<1>3. TaskNested(e, [t EXCEPT !.pc = "owners"])
  BY MoveNested DEF t
<1>4. TaskNested(e, ThenOwners(e))
  BY <1>2, <1>3 DEF ThenOwners, t
<1>. QED BY <1>2, <1>4 DEF ThenUnnest, t

LEMMA HandleNestingNested ==
  ASSUME NestInv, NEW e \in DOMAIN task, HandleNesting(e)
  PROVE  NestInv'
<1>. DEFINE t == task[e]
<1>1. /\ TypeOK /\ TypeOK'
      /\ e.token \in Tokens
      /\ t \in Task /\ TaskNested(e, t)
      /\ ChildrenWereNested /\ HeadKnown
  BY HandleNestingType DEF NestInv, TypeOK, Event
<1>2. t.cur \in Tokens /\ t.up \in Links /\ t.tree \in [Tokens -> SUBSET Tokens]
  BY <1>1 DEF Task
<1>3. /\ \A x \in Tokens : \A c \in LinksOf(tokens[x]).children : <<c, x>> \in under
      /\ \A x \in Tokens : \A c \in LinksOf(owners[x]).children : <<c, x>> \in under
  BY <1>1 DEF LinksOf, ChildrenWereNested
<1>4. UNCHANGED <<tokens, owners, under>> => ChildrenWereNested'
  BY <1>1 DEF ChildrenWereNested
<1>. HIDE DEF t
<1>5. CASE ReadRow(e) \/ ReadOwnerRow(e)
  <2>1. ASSUME NEW owned, NEW pc \in {"bundle", "select", "owners"}
        PROVE  TaskNested(e, [t EXCEPT !.owned = owned, !.pc = pc])
    BY <1>1 DEF TaskNested, Task
  <2>2. ASSUME NEW held
        PROVE  TaskNested(e, [t EXCEPT !.pc = "ownerRow", !.held = held])
    BY <1>1 DEF TaskNested, Task
  <2>3. TaskNested(e, [t EXCEPT !.pc = "owners", !.children = tokens[e.token].children])
    BY <1>1 DEF TaskNested, Task, ChildrenWereNested
  <2>4. \E n : Become(e, n) /\ TaskNested(e, n)
    <3>1. CASE ReadRow(e)
      BY <2>2, <2>3, <3>1 DEF ReadRow, t
    <3>2. CASE ReadOwnerRow(e)
      BY <2>1, <3>2 DEF ReadOwnerRow, t
    <3>. QED BY <1>5, <3>1, <3>2
  <2>. QED BY <1>1, <1>4, <1>5, <2>4, NestFrame DEF ReadRow, ReadOwnerRow, Silent, onChain, tables
<1>6. CASE GetTokenBundle(e)
  <2>. DEFINE tree == GetTokenChildren(head, e.token)
  <2>1. \A p \in Tokens : \A c \in tree[p] : <<c, p>> \in under
    BY <1>1 DEF GetTokenChildren, Below, HeadKnown
  <2>. HIDE DEF tree
  <2>2. TaskNested(e, [t EXCEPT !.pc = "walk", !.cur = e.token, !.tree = tree,
                                !.children = tree[e.token]])
    BY <1>1, <2>1 DEF TaskNested, Task
  <2>3. \E n : Become(e, n) /\ TaskNested(e, n)
    BY <1>6, <2>2, MoveNested DEF GetTokenBundle, Move, t, tree
  <2>. QED BY <1>1, <1>4, <1>6, <2>3, NestFrame DEF GetTokenBundle, Silent, onChain, tables
<1>7. CASE UpdateTokenParents(e)
  <2>1. ASSUME NEW c, NEW pc \in {"walk", "parent"}
        PROVE  TaskNested(e, [t EXCEPT !.cur = c, !.pc = pc])
    BY <1>1 DEF TaskNested, Task
  <2>2. \E n : Become(e, n) /\ TaskNested(e, n)
    BY <1>7, <2>1, AfterNested DEF UpdateTokenParents, t
  <2>. QED BY <1>1, <1>4, <1>7, <2>2, NestFrame DEF UpdateTokenParents, onChain, tables
<1>8. CASE UpdateParent(e)
  <2>1. t.tree[t.cur] \in SUBSET Tokens /\ \A c \in t.tree[t.cur] : <<c, t.cur>> \in under
    BY <1>1, <1>2 DEF TaskNested
  <2>2. UNCHANGED <<owners, under, head>>
    BY <1>8 DEF UpdateParent, onChain
  <2>3. ChildrenWereNested'
    BY <1>2, <1>8, <2>1, <2>2, ChildrenNested DEF UpdateParent, t
  <2>4. \E n : Become(e, n) /\ TaskNested(e, n)
    BY <1>8, MoveNested DEF UpdateParent, Move
  <2>. QED BY <1>1, <2>2, <2>3, <2>4, NestFrame
<1>9. CASE UpdateParentOwner(e)
  <2>1. t.tree[t.cur] \in SUBSET Tokens /\ \A c \in t.tree[t.cur] : <<c, t.cur>> \in under
    BY <1>1, <1>2 DEF TaskNested
  <2>2. UNCHANGED <<tokens, under, head>>
    BY <1>9 DEF UpdateParentOwner, onChain
  <2>3. ChildrenWereNested'
    BY <1>2, <1>9, <2>1, <2>2, OwnerChildrenNested DEF UpdateParentOwner, t
  <2>4. \E n : Become(e, n) /\ TaskNested(e, n)
    BY <1>9, MoveNested DEF UpdateParentOwner, Move
  <2>. QED BY <1>1, <2>2, <2>3, <2>4, NestFrame
<1>10. CASE FindParent(e)
  <2>1. TaskNested(e, [t EXCEPT !.pc = "filter", !.up = LinksOf(tokens[t.cur])])
    BY <1>1, <1>2, <1>3 DEF TaskNested, Task
  <2>2. \E n : Become(e, n) /\ TaskNested(e, n)
    BY <1>10, <2>1, AfterNested DEF FindParent, t
  <2>. QED BY <1>1, <1>4, <1>10, <2>2, NestFrame DEF FindParent, Silent, onChain, tables
<1>11. CASE FilterParent(e)
  <2>1. /\ t.up.children \ t.gone \in SUBSET Tokens
        /\ \A c \in t.up.children \ t.gone : <<c, t.cur>> \in under
    BY <1>1, <1>2, <1>11 DEF TaskNested, FilterParent, t, Links
  <2>2. UNCHANGED <<owners, under, head>>
    BY <1>11 DEF FilterParent, onChain
  <2>3. ChildrenWereNested'
    BY <1>2, <1>11, <2>1, <2>2, ChildrenNested DEF FilterParent, t
  <2>4. ASSUME NEW c
        PROVE  TaskNested(e, [t EXCEPT !.pc = "unnest", !.cur = c])
    BY <1>1 DEF TaskNested, Task
  <2>5. \E n : Become(e, n) /\ TaskNested(e, n)
    BY <1>11, <2>4, AfterNested DEF FilterParent, t
  <2>. QED BY <1>1, <2>2, <2>3, <2>5, NestFrame
<1>12. CASE FindParentOwner(e)
  <2>1. TaskNested(e, [t EXCEPT !.pc = "filterOwner", !.up = LinksOf(owners[t.cur])])
    BY <1>1, <1>2, <1>3 DEF TaskNested, Task
  <2>2. \E n : Become(e, n) /\ TaskNested(e, n)
    BY <1>12, <2>1, MoveNested DEF FindParentOwner, t
  <2>. QED BY <1>1, <1>4, <1>12, <2>2, NestFrame DEF FindParentOwner, Silent, onChain, tables
<1>13. CASE FilterParentOwner(e)
  <2>1. /\ t.up.children \ t.gone \in SUBSET Tokens
        /\ \A c \in t.up.children \ t.gone : <<c, t.cur>> \in under
    BY <1>1, <1>2, <1>13 DEF TaskNested, FilterParentOwner, t, Links
  <2>2. UNCHANGED <<tokens, under, head>>
    BY <1>13 DEF FilterParentOwner, onChain
  <2>3. ChildrenWereNested'
    BY <1>2, <1>13, <2>1, <2>2, OwnerChildrenNested DEF FilterParentOwner, t
  <2>4. ASSUME NEW c
        PROVE  TaskNested(e, [t EXCEPT !.pc = "unnestOwner", !.cur = c])
    BY <1>1 DEF TaskNested, Task
  <2>5. \E n : Become(e, n) /\ TaskNested(e, n)
    BY <1>13, <2>4, MoveNested DEF FilterParentOwner, t
  <2>. QED BY <1>1, <2>2, <2>3, <2>5, NestFrame
<1>14. CASE GetParentsByChildren(e)
  <2>. DEFINE parents == {p \in Tokens : e.token \in tokens[p].children}
              todo == {[token |-> p, children |-> tokens[p].children] : p \in parents}
  <2>1. \A x \in todo : \A c \in x.children : <<c, x.token>> \in under
    BY <1>1 DEF ChildrenWereNested
  <2>. HIDE DEF todo
  <2>2. ASSUME NEW pc \in {"burn", "owners", "remove"}
        PROVE  TaskNested(e, [t EXCEPT !.todo = todo, !.pc = pc])
    BY <1>1, <2>1 DEF TaskNested, Task
  <2>. HIDE DEF parents
  <2>3. (IF parents = {} THEN AfterRemoval(t) ELSE "remove") \in {"burn", "owners", "remove"}
    BY DEF AfterRemoval
  <2>4. \E n : Become(e, n) /\ TaskNested(e, n)
    BY <1>14, <2>2, <2>3 DEF GetParentsByChildren, t, todo, parents
  <2>. QED BY <1>1, <1>4, <1>14, <2>4, NestFrame DEF GetParentsByChildren, Silent, onChain, tables
<1>15. CASE RemoveChildFromToken(e)
  <2>1. t.todo \subseteq [token : Tokens, children : SUBSET Tokens]
    BY <1>1 DEF Task
  <2>2. PICK x \in t.todo :
          /\ UpdateChildren(x.token, x.children, x.children \ {e.token})
          /\ Become(e, [t EXCEPT !.todo = @ \ {x},
               !.pc = IF t.todo = {x} THEN AfterRemoval(t) ELSE "remove"])
    BY <1>15 DEF RemoveChildFromToken, t
  <2>3. /\ x.token \in Tokens /\ x.children \ {e.token} \in SUBSET Tokens
        /\ \A c \in x.children \ {e.token} : <<c, x.token>> \in under
    BY <1>1, <2>1 DEF TaskNested
  <2>4. UNCHANGED <<owners, under, head>>
    BY <1>15 DEF RemoveChildFromToken, onChain
  <2>5. ChildrenWereNested'
    BY <2>2, <2>3, <2>4, ChildrenNested
  <2>6. ASSUME NEW pc \in {"burn", "owners", "remove"}
        PROVE  TaskNested(e, [t EXCEPT !.todo = @ \ {x}, !.pc = pc])
    BY <1>1 DEF TaskNested, Task
  <2>7. (IF t.todo = {x} THEN AfterRemoval(t) ELSE "remove") \in {"burn", "owners", "remove"}
    BY DEF AfterRemoval
  <2>8. \E n : Become(e, n) /\ TaskNested(e, n)
    BY <2>2, <2>6, <2>7
  <2>. QED BY <1>1, <2>4, <2>5, <2>8, NestFrame
<1>. QED BY <1>5, <1>6, <1>7, <1>8, <1>9, <1>10, <1>11, <1>12, <1>13, <1>14, <1>15 DEF HandleNesting

LEMMA UpdateNested ==
  ASSUME NestInv, NEW e \in DOMAIN task, Update(e)
  PROVE  NestInv'
<1>1. /\ TypeOK /\ TypeOK'
      /\ e.token \in Tokens
      /\ task[e] \in Task /\ TaskNested(e, task[e])
      /\ ChildrenWereNested
  BY UpdateType DEF NestInv, TypeOK, Event
<1>2. UNCHANGED <<head, under>>
  BY DEF Update, GetTokenData, DeleteOwner, SaveOwner, FindToken, InsertToken, InsertRefused,
         UpdateToken, DropOwner, BurnToken, Silent, onChain
<1>3. \A c \in task[e].children : <<c, e.token>> \in under
  BY <1>1 DEF TaskNested
<1>4. \A p \in Tokens : tokens'[p].children \in {tokens[p].children} \cup
                          (IF p = e.token THEN {task[e].children} ELSE {})
  <2>1. Prepared(e).children = task[e].children
    BY DEF Prepared
  <2>2. CASE InsertToken(e) \/ UpdateToken(e)
    BY <1>1, <2>1, <2>2 DEF InsertToken, UpdateToken, TypeOK
  <2>3. CASE BurnToken(e)
    <3>1. tokens[e.token] \in Row
      BY <1>1 DEF TypeOK
    <3>2. [tokens[e.token] EXCEPT !.status = "burned"].children = tokens[e.token].children
      BY <3>1 DEF Row
    <3>. QED BY <1>1, <2>3, <3>2 DEF BurnToken, TypeOK
  <2>4. CASE UNCHANGED tokens
    BY <2>4
  <2>5. \/ InsertToken(e) \/ UpdateToken(e) \/ BurnToken(e)
        \/ GetTokenData(e) \/ DeleteOwner(e) \/ SaveOwner(e) \/ FindToken(e)
        \/ InsertRefused(e) \/ DropOwner(e)
    BY DEF Update
  <2>6. ASSUME \/ GetTokenData(e) \/ DeleteOwner(e) \/ SaveOwner(e) \/ FindToken(e)
               \/ InsertRefused(e) \/ DropOwner(e)
        PROVE  UNCHANGED tokens
    BY <2>6 DEF GetTokenData, DeleteOwner, SaveOwner, FindToken, InsertRefused, DropOwner,
                Silent, tables
  <2>. QED BY <2>2, <2>3, <2>4, <2>5, <2>6
<1>5. \A p \in Tokens : owners'[p].children \in {owners[p].children, {}} \cup
                          (IF p = e.token THEN {task[e].children} ELSE {})
  <2>1. NoOwnerRow.children = {}
    BY DEF NoOwnerRow
  <2>0. owners \in [Tokens -> OwnerRow]
    BY <1>1 DEF TypeOK
  <2>2. CASE DeleteOwner(e) \/ SaveOwner(e) \/ DropOwner(e)
    <3>1. CASE DeleteOwner(e)
      BY <1>1, <2>0, <2>1, <3>1 DEF DeleteOwner
    <3>2. CASE SaveOwner(e)
      BY <1>1, <2>0, <3>2 DEF SaveOwner
    <3>3. CASE DropOwner(e)
      BY <1>1, <2>0, <2>1, <3>3 DEF DropOwner
    <3>. QED BY <2>2, <3>1, <3>2, <3>3
  <2>3. CASE UNCHANGED owners
    BY <2>3
  <2>. QED BY <2>2, <2>3 DEF Update, GetTokenData, FindToken, InsertToken, InsertRefused,
         UpdateToken, BurnToken, Silent, tables
<1>6. ChildrenWereNested'
  BY <1>1, <1>2, <1>3, <1>4, <1>5 DEF ChildrenWereNested
<1>7. (\E n : Become(e, n) /\ TaskNested(e, n)) \/ Finish(e)
  <2>1. CASE GetTokenData(e)
    <3>1. ASSUME NEW pc \in {"row", "part"}, NEW place, NEW b
          PROVE  TaskNested(e, [task[e] EXCEPT !.pc = pc, !.place = place, !.bundle = b])
      BY <1>1 DEF TaskNested, Task
    <3>. QED BY <2>1, <3>1 DEF GetTokenData
  <2>2. CASE DeleteOwner(e) \/ SaveOwner(e) \/ FindToken(e)
    BY <2>2, MoveNested DEF DeleteOwner, SaveOwner, FindToken, Move
  <2>3. CASE InsertToken(e) \/ InsertRefused(e) \/ UpdateToken(e) \/ BurnToken(e)
    BY <2>3 DEF InsertToken, InsertRefused, UpdateToken, BurnToken
  <2>4. CASE DropOwner(e)
    BY <2>4, MoveNested DEF DropOwner, Move
  <2>. QED BY <2>1, <2>2, <2>3, <2>4 DEF Update
<1>. QED BY <1>1, <1>2, <1>6, <1>7, NestFrame

LEMMA FailsNested ==
  ASSUME NestInv, NEW e \in DOMAIN task, Fails(e)
  PROVE  NestInv'
<1>1. TypeOK /\ TypeOK' /\ ChildrenWereNested
  BY FailsType DEF NestInv
<1>2. UNCHANGED <<head, under, tokens, owners>>
  BY DEF Fails, NestingFails, ParentFails, EventFails, onChain, tables
<1>3. ChildrenWereNested'
  BY <1>1, <1>2 DEF ChildrenWereNested
<1>4. (\E n : Become(e, n) /\ TaskNested(e, n)) \/ Finish(e)
  BY MoveNested, AfterNested DEF Fails, NestingFails, ParentFails, EventFails, Move
<1>. QED BY <1>1, <1>2, <1>3, <1>4, NestFrame

LEMMA NestStep ==
  ASSUME NestInv, [Next]_vars
  PROVE  NestInv'
<1>1. TypeOK /\ TypeOK'
  BY TypeStep DEF NestInv
<1>2. CASE Produce
  <2>1. PICK f \in [Tokens -> Places], events \in SUBSET Event, n \in {1, 2} : Grow(f, events, n)
    BY <1>1, <1>2, ProduceIsGrow
  <2>2. HeadKnown'
    BY <2>1 DEF Grow, HeadKnown
  <2>3. under \subseteq under' /\ UNCHANGED <<tokens, owners, task>>
    BY <2>1 DEF Grow, tables
  <2>4. ChildrenWereNested'
    BY <2>3 DEF NestInv, ChildrenWereNested
  <2>5. ASSUME NEW e \in DOMAIN task
        PROVE  TaskNested(e, task[e])'
    BY <2>3, <2>5 DEF NestInv, TaskNested
  <2>. QED BY <1>1, <2>2, <2>3, <2>4, <2>5 DEF NestInv
<1>3. CASE BatchProcess
  <2>1. HeadKnown' /\ ChildrenWereNested'
    BY <1>3 DEF BatchProcess, NestInv, HeadKnown, ChildrenWereNested, tables, Above, Parents, InToken
  <2>2. ASSUME NEW e \in DOMAIN task'
        PROVE  TaskNested(e, task[e])'
    <3>1. task'[e] = Begun
      BY <1>3, <2>2 DEF BatchProcess
    <3>. QED BY <3>1 DEF TaskNested, Begun, NoTree, NoLinks
  <2>. QED BY <1>1, <2>1, <2>2 DEF NestInv
<1>4. CASE \E e \in DOMAIN task : Handle(e) \/ Fails(e)
  BY <1>4, HandleNestingNested, UpdateNested, FailsNested DEF Handle
<1>5. CASE UNCHANGED vars
  <2>1. UNCHANGED <<head, under, tokens, owners, task>>
    BY <1>5 DEF vars, onChain, tables
  <2>. QED BY <1>1, <2>1 DEF NestInv, HeadKnown, ChildrenWereNested, TaskNested, Above, Parents, InToken
<1>. QED BY <1>2, <1>3, <1>4, <1>5 DEF Next

LEMMA NestStart ==
  ASSUME Init
  PROVE  NestInv
<1>1. HeadKnown
  BY DEF Init, HeadKnown
<1>2. \A p \in Tokens : tokens[p].children = Below(head, p) /\ owners[p].children = Below(head, p)
  BY DEF Init, RowOf, OwnerRowOf
<1>3. ChildrenWereNested
  BY <1>1, <1>2 DEF ChildrenWereNested, HeadKnown, Below
<1>. QED BY <1>1, <1>3, InitType DEF NestInv, Init

\* children lists a token only under a token it has been in, for any trees,
\* whatever fails, is lost or comes late.
THEOREM NestedBefore == Spec => []ChildrenWereNested
<1>1. Init => NestInv
  BY NestStart
<1>2. NestInv /\ [Next]_vars => NestInv'
  BY NestStep
<1>3. NestInv => ChildrenWereNested
  BY DEF NestInv
<1>. QED BY <1>1, <1>2, <1>3, PTL DEF Spec

-----------------------------------------------------------------------------
(***************************************************************************)
(* parent_id follows the chain: a token whose row is not as the head has   *)
(* it has an event in a block that waits or in the one that is handled.    *)
(***************************************************************************)
Waits(t) == \E i \in DOMAIN queue : \E e \in queue[i].events : e.token = t

QueueTold ==
  /\ \A t \in Tokens : ~Waits(t) => now[t] = head[t]
  /\ \A i \in DOMAIN queue : \A t \in Tokens :
       \/ queue[i].place[t] = head[t]
       \/ \E j \in DOMAIN queue : j > i /\ \E e \in queue[j].events : e.token = t

DeadPlaces == {"part", "burn"}
LivePlaces == {"row", "ownerRow", "bundle", "walk", "parent", "parentOwner", "unnest",
               "filter", "unnestOwner", "filterOwner", "owners", "owner", "find", "insert", "update"}

TaskTold(e, t) ==
  /\ t.pc # "data" => t.place = head[e.token] \/ Waits(e.token)
  /\ t.pc \in LivePlaces => t.place \notin {"absent", "burned"}
  /\ t.pc \in DeadPlaces => t.place \in {"absent", "burned"}

RowTold(t) ==
  Live(head, t) => tokens[t].status = "live" /\ tokens[t].parent = ParentIn(head, t)

RowsTold ==
  \A t \in Tokens \ rejected : RowTold(t) \/ Waits(t) \/ \E e \in DOMAIN task : e.token = t

ParentInv ==
  /\ TypeOK
  /\ QueueTold
  /\ \A e \in DOMAIN task : TaskTold(e, task[e])
  /\ RowsTold

LEMMA SameChain ==
  ASSUME UNCHANGED onChain
  PROVE  /\ \A t : Waits(t)' = Waits(t)
         /\ QueueTold' = QueueTold
BY DEF onChain, Waits, QueueTold

\* A statement leaves status and parent_id of a row that is told, or the event
\* that wrote it is rejected.
LEMMA ParentFrame ==
  ASSUME ParentInv, TypeOK', NEW e \in DOMAIN task, UNCHANGED onChain,
         rejected \subseteq rejected',
         \A t \in Tokens \ rejected' : RowTold(t) => RowTold(t)' \/ Waits(t),
         \/ \E n : Become(e, n) /\ TaskTold(e, n)
         \/ Finish(e) /\ (e.token \in rejected' \/ RowTold(e.token)' \/ Waits(e.token))
  PROVE  ParentInv'
<1>1. TypeOK /\ QueueTold /\ RowsTold
  BY DEF ParentInv
<1>2. \A t : Waits(t)' = Waits(t)
  BY SameChain
<1>3. QueueTold'
  BY <1>1, SameChain
<1>4. ASSUME NEW x \in DOMAIN task'
      PROVE  TaskTold(x, task[x])'
  <2>1. TaskTold(x, task'[x])
    BY <1>1, <1>4 DEF ParentInv, TypeOK, Become, Finish
  <2>. QED BY <1>2, <2>1 DEF TaskTold, onChain
<1>5. ASSUME NEW t \in Tokens \ rejected'
      PROVE  RowTold(t)' \/ Waits(t)' \/ \E x \in DOMAIN task' : x.token = t
  <2>1. CASE RowTold(t) \/ Waits(t)
    BY <1>2, <1>5, <2>1
  <2>2. CASE \E x \in DOMAIN task : x.token = t
    <3>1. CASE \E n : Become(e, n)
      BY <1>1, <2>2, <3>1 DEF Become, TypeOK
    <3>2. CASE Finish(e) /\ (e.token \in rejected' \/ RowTold(e.token)' \/ Waits(e.token))
      <4>1. CASE t = e.token
        BY <1>2, <1>5, <3>2, <4>1
      <4>2. CASE t # e.token
        BY <2>2, <3>2, <4>2 DEF Finish
      <4>. QED BY <4>1, <4>2
    <3>. QED BY <3>1, <3>2
  <2>. QED BY <1>1, <1>5, <2>1, <2>2 DEF RowsTold
<1>. QED BY <1>3, <1>4, <1>5 DEF ParentInv, RowsTold

\* Statements on children leave the rest of every row alone.
LEMMA ChildrenTold ==
  ASSUME TypeOK, NEW t \in Tokens, NEW seen, NEW children,
         UpdateChildren(t, seen, children), UNCHANGED head
  PROVE  \A x \in Tokens : RowTold(x) => RowTold(x)'
<1>1. ASSUME NEW row \in Row
      PROVE  LET new == [row EXCEPT !.children = children]
             IN  new.status = row.status /\ new.parent = row.parent
  BY DEF Row
<1>2. \A x \in Tokens : tokens[x] \in Row
  BY DEF TypeOK
<1>3. \A x \in Tokens : tokens'[x].status = tokens[x].status /\ tokens'[x].parent = tokens[x].parent
  BY <1>1, <1>2 DEF TypeOK, UpdateChildren
<1>. QED BY <1>3 DEF RowTold, Live, ParentIn, InToken

LEMMA MoveTold ==
  ASSUME ParentInv, NEW e \in DOMAIN task, task[e].pc \in LivePlaces, NEW pc \in LivePlaces
  PROVE  TaskTold(e, [task[e] EXCEPT !.pc = pc])
<1>1. task[e] \in Task /\ TaskTold(e, task[e])
  BY DEF ParentInv, TypeOK
<1>. QED BY <1>1 DEF TaskTold, Task, LivePlaces, DeadPlaces

LEMMA AfterTold ==
  ASSUME ParentInv, NEW e \in DOMAIN task, task[e].pc \in LivePlaces
  PROVE  TaskTold(e, ThenUnnest(e)) /\ TaskTold(e, ThenOwners(e))
<1>. DEFINE t == task[e]
<1>1. t \in Task /\ TaskTold(e, t)
  BY DEF ParentInv, TypeOK
<1>. HIDE DEF t
<1>2. ASSUME NEW c, NEW g, NEW pc \in {"unnest", "unnestOwner"}
      PROVE  TaskTold(e, [t EXCEPT !.pc = pc, !.cur = c, !.gone = g])
  BY <1>1 DEF TaskTold, Task, LivePlaces, DeadPlaces, t
<1>3. TaskTold(e, [t EXCEPT !.pc = "owners"])
  BY MoveTold DEF t, LivePlaces
<1>4. TaskTold(e, ThenOwners(e))
  BY <1>2, <1>3 DEF ThenOwners, t
<1>. QED BY <1>2, <1>4 DEF ThenUnnest, t

\* After the removal a task goes where its token's place sends it.
LEMMA RemovalTold ==
  ASSUME NEW e, NEW t \in Task, TaskTold(e, t), t.pc \in LivePlaces \cup DeadPlaces \cup {"select", "remove"},
         NEW pc \in {AfterRemoval(t), "remove"}, NEW todo
  PROVE  TaskTold(e, [t EXCEPT !.todo = todo, !.pc = pc])
<1>1. t.pc # "data"
  BY DEF LivePlaces, DeadPlaces
<1>2. [t EXCEPT !.todo = todo, !.pc = pc].pc = pc /\ [t EXCEPT !.todo = todo, !.pc = pc].place = t.place
  BY DEF Task
<1>. QED BY <1>1, <1>2 DEF TaskTold, AfterRemoval, LivePlaces, DeadPlaces

LEMMA HandleNestingTold ==
  ASSUME ParentInv, NEW e \in DOMAIN task, HandleNesting(e)
  PROVE  ParentInv'
<1>. DEFINE t == task[e]
<1>1. /\ TypeOK /\ TypeOK'
      /\ t \in Task /\ TaskTold(e, t)
  BY HandleNestingType DEF ParentInv, TypeOK
<1>2. t.cur \in Tokens
  BY <1>1 DEF Task
<1>3. /\ UNCHANGED onChain
      /\ UNCHANGED rejected
  BY DEF HandleNesting, ReadRow, ReadOwnerRow, GetTokenBundle, UpdateTokenParents, UpdateParent,
         UpdateParentOwner, FindParent, FilterParent, FindParentOwner, FilterParentOwner,
         GetParentsByChildren, RemoveChildFromToken, Silent, ghosts
<1>4. \A x \in Tokens : RowTold(x) => RowTold(x)'
  <2>1. CASE UNCHANGED tokens
    BY <1>3, <2>1 DEF RowTold, Live, ParentIn, InToken, onChain
  <2>2. CASE UpdateParent(e)
    BY <1>1, <1>2, <1>3, <2>2, ChildrenTold DEF UpdateParent, t, onChain
  <2>3. CASE FilterParent(e)
    BY <1>1, <1>2, <1>3, <2>3, ChildrenTold DEF FilterParent, t, onChain
  <2>4. CASE RemoveChildFromToken(e)
    <3>1. PICK x \in t.todo : UpdateChildren(x.token, x.children, x.children \ {e.token})
      BY <2>4 DEF RemoveChildFromToken, t
    <3>2. x.token \in Tokens
      BY <1>1, <3>1 DEF Task
    <3>. QED BY <1>1, <1>3, <3>1, <3>2, ChildrenTold DEF onChain
  <2>. QED BY <2>1, <2>2, <2>3, <2>4
       DEF HandleNesting, ReadRow, ReadOwnerRow, GetTokenBundle, UpdateTokenParents,
           UpdateParentOwner, FindParent, FindParentOwner, FilterParentOwner,
           GetParentsByChildren, Silent, tables
<1>5. \E n : Become(e, n) /\ TaskTold(e, n)
  <2>. HIDE DEF t
  <2>1. CASE ReadRow(e)
    <3>1. t.pc = "row"
      BY <2>1 DEF ReadRow, t
    <3>2. ASSUME NEW held
          PROVE  TaskTold(e, [t EXCEPT !.pc = "ownerRow", !.held = held])
      BY <1>1, <3>1 DEF TaskTold, Task, LivePlaces, DeadPlaces
    <3>3. ASSUME NEW children
          PROVE  TaskTold(e, [t EXCEPT !.pc = "owners", !.children = children])
      BY <1>1, <3>1 DEF TaskTold, Task, LivePlaces, DeadPlaces
    <3>. QED BY <2>1, <3>2, <3>3 DEF ReadRow, t
  <2>9. CASE ReadOwnerRow(e)
    <3>1. t.pc = "ownerRow"
      BY <2>9 DEF ReadOwnerRow, t
    <3>2. ASSUME NEW owned, NEW pc \in {"bundle", "select", "owners"}
          PROVE  TaskTold(e, [t EXCEPT !.owned = owned, !.pc = pc])
      BY <1>1, <3>1 DEF TaskTold, Task, LivePlaces, DeadPlaces
    <3>. QED BY <2>9, <3>2 DEF ReadOwnerRow, t
  <2>2. CASE GetTokenBundle(e)
    <3>1. t.pc = "bundle"
      BY <2>2 DEF GetTokenBundle, t
    <3>2. ASSUME NEW tree, NEW children
          PROVE  TaskTold(e, [t EXCEPT !.pc = "walk", !.cur = e.token, !.tree = tree,
                                       !.children = children])
      BY <1>1, <3>1 DEF TaskTold, Task, LivePlaces, DeadPlaces
    <3>3. TaskTold(e, [t EXCEPT !.pc = "owners"])
      BY <3>1, MoveTold DEF t, LivePlaces
    <3>. QED BY <2>2, <3>2, <3>3 DEF GetTokenBundle, Move, t
  <2>3. CASE UpdateTokenParents(e)
    <3>1. t.pc \in LivePlaces /\ t.pc = "walk"
      BY <2>3 DEF UpdateTokenParents, t, LivePlaces
    <3>2. ASSUME NEW c, NEW pc \in {"walk", "parent"}
          PROVE  TaskTold(e, [t EXCEPT !.cur = c, !.pc = pc])
      BY <1>1, <3>1 DEF TaskTold, Task, LivePlaces, DeadPlaces
    <3>. QED BY <2>3, <3>1, <3>2, AfterTold DEF UpdateTokenParents, t
  <2>4. CASE UpdateParent(e) \/ UpdateParentOwner(e)
    BY <2>4, MoveTold DEF UpdateParent, UpdateParentOwner, Move, LivePlaces
  <2>5. CASE FindParent(e) \/ FindParentOwner(e)
    <3>1. t.pc \in LivePlaces /\ t.pc \in {"unnest", "unnestOwner"}
      BY <2>5 DEF FindParent, FindParentOwner, t, LivePlaces
    <3>2. ASSUME NEW up, NEW pc \in {"filter", "filterOwner"}
          PROVE  TaskTold(e, [t EXCEPT !.pc = pc, !.up = up])
      BY <1>1, <3>1 DEF TaskTold, Task, LivePlaces, DeadPlaces
    <3>3. TaskTold(e, [t EXCEPT !.pc = "owners"])
      BY <3>1, MoveTold DEF t, LivePlaces
    <3>. QED BY <2>5, <3>1, <3>2, <3>3, AfterTold DEF FindParent, FindParentOwner, t
  <2>6. CASE FilterParent(e) \/ FilterParentOwner(e)
    <3>1. t.pc \in LivePlaces /\ t.pc \in {"filter", "filterOwner"}
      BY <2>6 DEF FilterParent, FilterParentOwner, t, LivePlaces
    <3>2. ASSUME NEW c, NEW pc \in {"unnest", "unnestOwner"}
          PROVE  TaskTold(e, [t EXCEPT !.pc = pc, !.cur = c])
      BY <1>1, <3>1 DEF TaskTold, Task, LivePlaces, DeadPlaces
    <3>3. TaskTold(e, [t EXCEPT !.pc = "owners"])
      BY <3>1, MoveTold DEF t, LivePlaces
    <3>. QED BY <2>6, <3>1, <3>2, <3>3, AfterTold DEF FilterParent, FilterParentOwner, t
  <2>7. CASE GetParentsByChildren(e)
    BY <1>1, <2>7, RemovalTold DEF GetParentsByChildren, t
  <2>8. CASE RemoveChildFromToken(e)
    BY <1>1, <2>8, RemovalTold DEF RemoveChildFromToken, t
  <2>. QED BY <2>1, <2>2, <2>3, <2>4, <2>5, <2>6, <2>7, <2>8, <2>9 DEF HandleNesting
<1>. QED BY <1>1, <1>3, <1>4, <1>5, ParentFrame

\* What an event writes is what the head has, or another event waits.
LEMMA WrittenTold ==
  ASSUME ParentInv, NEW e \in DOMAIN task, task[e].pc \in LivePlaces, UNCHANGED <<onChain>>,
         tokens' = [tokens EXCEPT ![e.token] = Prepared(e)]
  PROVE  /\ RowTold(e.token)' \/ Waits(e.token)
         /\ \A t \in Tokens : RowTold(t) => RowTold(t)' \/ Waits(t)
<1>1. /\ TypeOK /\ e.token \in Tokens /\ task[e] \in Task /\ TaskTold(e, task[e])
      /\ head' = head
  BY DEF ParentInv, TypeOK, Event, onChain
<1>2. task[e].place = head[e.token] \/ Waits(e.token)
  BY <1>1 DEF TaskTold, LivePlaces
<1>3. tokens'[e.token] = Prepared(e) /\ \A t \in Tokens \ {e.token} : tokens'[t] = tokens[t]
  BY <1>1 DEF TypeOK
<1>4. task[e].place = head[e.token] => RowTold(e.token)'
  BY <1>1, <1>3 DEF RowTold, Prepared, ParentId, ParentIn, InToken, Live
<1>5. \A t \in Tokens \ {e.token} : RowTold(t) => RowTold(t)'
  BY <1>1, <1>3 DEF RowTold, ParentIn, InToken, Live
<1>. QED BY <1>2, <1>4, <1>5

\* A token is marked burned that the head has not, or another event waits.
LEMMA BurnedTold ==
  ASSUME ParentInv, NEW e \in DOMAIN task, BurnToken(e)
  PROVE  /\ RowTold(e.token)' \/ Waits(e.token)
         /\ \A t \in Tokens : RowTold(t) => RowTold(t)' \/ Waits(t)
<1>1. /\ TypeOK /\ e.token \in Tokens /\ task[e] \in Task /\ TaskTold(e, task[e])
      /\ head' = head
  BY DEF ParentInv, TypeOK, Event, BurnToken, onChain
<1>2. task[e].place \in {"absent", "burned"} /\ (task[e].place = head[e.token] \/ Waits(e.token))
  BY <1>1 DEF TaskTold, BurnToken, DeadPlaces
<1>3. task[e].place = head[e.token] => RowTold(e.token)'
  BY <1>1, <1>2 DEF RowTold, Live
<1>4. \A t \in Tokens \ {e.token} : RowTold(t) => RowTold(t)'
  BY <1>1 DEF RowTold, ParentIn, InToken, Live, BurnToken, TypeOK
<1>. QED BY <1>2, <1>3, <1>4

LEMMA UpdateTold ==
  ASSUME ParentInv, NEW e \in DOMAIN task, Update(e)
  PROVE  ParentInv'
<1>. DEFINE t == task[e]
<1>1. /\ TypeOK /\ TypeOK' /\ e.token \in Tokens
      /\ t \in Task /\ TaskTold(e, t) /\ QueueTold
  BY UpdateType DEF ParentInv, TypeOK, Event
<1>2. UNCHANGED onChain
  BY DEF Update, GetTokenData, DeleteOwner, SaveOwner, FindToken, InsertToken, InsertRefused,
         UpdateToken, DropOwner, BurnToken, Silent
<1>3. UNCHANGED tokens => \A x \in Tokens : RowTold(x) => RowTold(x)'
  BY <1>2 DEF RowTold, Live, ParentIn, InToken, onChain
<1>. HIDE DEF t
<1>4. CASE GetTokenData(e)
  <2>1. PICK f \in {now, head} :
          Become(e, [t EXCEPT !.pc = IF Live(f, e.token) THEN "row" ELSE "part",
                              !.place = f[e.token], !.bundle = IsBundle(f, e.token)])
    BY <1>4 DEF GetTokenData, t
  <2>2. f[e.token] = head[e.token] \/ Waits(e.token)
    BY <1>1 DEF QueueTold
  <2>3. ASSUME NEW b, NEW pc \in {"row", "part"}, pc = "row" <=> Live(f, e.token)
        PROVE  TaskTold(e, [t EXCEPT !.pc = pc, !.place = f[e.token], !.bundle = b])
    BY <1>1, <2>2, <2>3 DEF TaskTold, Task, LivePlaces, DeadPlaces, Live
  <2>4. \E n : Become(e, n) /\ TaskTold(e, n)
    BY <2>1, <2>3
  <2>5. UNCHANGED tokens /\ UNCHANGED rejected
    BY <1>4 DEF GetTokenData, tables
  <2>. QED BY <1>1, <1>2, <1>3, <2>4, <2>5, ParentFrame
<1>5. CASE DeleteOwner(e) \/ SaveOwner(e) \/ FindToken(e)
  <2>1. \E n : Become(e, n) /\ TaskTold(e, n)
    BY <1>5, MoveTold DEF DeleteOwner, SaveOwner, FindToken, Move, LivePlaces
  <2>2. UNCHANGED tokens /\ UNCHANGED rejected
    BY <1>5 DEF DeleteOwner, SaveOwner, FindToken, Silent, tables, ghosts
  <2>. QED BY <1>1, <1>2, <1>3, <2>1, <2>2, ParentFrame
<1>6. CASE InsertToken(e) \/ UpdateToken(e)
  <2>1. /\ tokens' = [tokens EXCEPT ![e.token] = Prepared(e)]
        /\ task[e].pc \in LivePlaces /\ Finish(e) /\ UNCHANGED rejected
    BY <1>6 DEF InsertToken, UpdateToken, LivePlaces, ghosts
  <2>2. /\ RowTold(e.token)' \/ Waits(e.token)
        /\ \A x \in Tokens : RowTold(x) => RowTold(x)' \/ Waits(x)
    BY <1>2, <2>1, WrittenTold
  <2>. QED BY <1>1, <1>2, <2>1, <2>2, ParentFrame
<1>7. CASE InsertRefused(e)
  <2>1. UNCHANGED tokens /\ rejected' = rejected \cup {e.token} /\ Finish(e)
    BY <1>7 DEF InsertRefused, tables
  <2>. QED BY <1>1, <1>2, <1>3, <2>1, ParentFrame
<1>8. CASE DropOwner(e)
  <2>1. UNCHANGED tokens
    BY <1>8 DEF DropOwner
  <2>2. t.pc = "part"
    BY <1>8 DEF DropOwner, t
  <2>3. TaskTold(e, [t EXCEPT !.pc = "select"])
    BY <1>1, <2>2 DEF TaskTold, Task, LivePlaces, DeadPlaces
  <2>4. CASE Move(e, "select") /\ UNCHANGED rejected
    <3>1. \E n : Become(e, n) /\ TaskTold(e, n)
      BY <2>3, <2>4 DEF Move, t
    <3>. QED BY <1>1, <1>2, <1>3, <2>1, <2>4, <3>1, ParentFrame
  <2>5. CASE Finish(e) /\ rejected' = rejected \cup {e.token}
    BY <1>1, <1>2, <1>3, <2>1, <2>5, ParentFrame
  <2>. QED BY <1>8, <2>4, <2>5 DEF DropOwner
<1>9. CASE BurnToken(e)
  <2>1. Finish(e) /\ UNCHANGED rejected
    BY <1>9 DEF BurnToken, ghosts
  <2>2. /\ RowTold(e.token)' \/ Waits(e.token)
        /\ \A x \in Tokens : RowTold(x) => RowTold(x)' \/ Waits(x)
    BY <1>9, BurnedTold
  <2>. QED BY <1>1, <1>2, <2>1, <2>2, ParentFrame
<1>. QED BY <1>4, <1>5, <1>6, <1>7, <1>8, <1>9 DEF Update

LEMMA FailsTold ==
  ASSUME ParentInv, NEW e \in DOMAIN task, Fails(e)
  PROVE  ParentInv'
<1>. DEFINE t == task[e]
<1>1. /\ TypeOK /\ TypeOK' /\ e.token \in Tokens
      /\ t \in Task /\ TaskTold(e, t)
  BY FailsType DEF ParentInv, TypeOK, Event
<1>2. UNCHANGED onChain /\ UNCHANGED tokens
  BY DEF Fails, NestingFails, ParentFails, EventFails, tables
<1>3. \A x \in Tokens : RowTold(x) => RowTold(x)'
  BY <1>2 DEF RowTold, Live, ParentIn, InToken, onChain
<1>. HIDE DEF t
<1>4. CASE NestingFails(e)
  <2>1. TaskTold(e, [t EXCEPT !.pc = "owners"])
    <3>1. CASE t.pc \in LivePlaces
      BY <3>1, MoveTold DEF t, LivePlaces
    <3>2. CASE t.pc \in {"select", "remove"} /\ AfterRemoval(t) = "owners"
      BY <1>1, <3>2 DEF TaskTold, Task, AfterRemoval, LivePlaces, DeadPlaces
    <3>. QED BY <1>4, <3>1, <3>2 DEF NestingFails, LivePlaces, t
  <2>2. \E n : Become(e, n) /\ TaskTold(e, n)
    BY <1>4, <2>1 DEF NestingFails, Move, t
  <2>3. UNCHANGED rejected
    BY <1>4 DEF NestingFails
  <2>. QED BY <1>1, <1>2, <1>3, <2>2, <2>3, ParentFrame
<1>5. CASE ParentFails(e)
  <2>1. \E n : Become(e, n) /\ TaskTold(e, n)
    BY <1>5, AfterTold DEF ParentFails, LivePlaces
  <2>2. UNCHANGED rejected
    BY <1>5 DEF ParentFails
  <2>. QED BY <1>1, <1>2, <1>3, <2>1, <2>2, ParentFrame
<1>6. CASE EventFails(e)
  <2>1. Finish(e) /\ rejected' = rejected \cup {e.token}
    BY <1>6 DEF EventFails
  <2>. QED BY <1>1, <1>2, <1>3, <2>1, ParentFrame
<1>. QED BY <1>4, <1>5, <1>6 DEF Fails

LEMMA ProduceTold ==
  ASSUME ParentInv, Produce
  PROVE  ParentInv'
<1>1. TypeOK /\ TypeOK' /\ QueueTold /\ RowsTold
  BY TypeStep DEF ParentInv, Next
<1>2. PICK f \in [Tokens -> Places], events \in SUBSET Event, n \in {1, 2} :
        /\ Grow(f, events, n)
        /\ \A t \in Tokens : f[t] # head[t] => \E e \in events : e.token = t
  BY <1>1, ProduceIsGrow
<1>. DEFINE block == [place |-> f, events |-> events]
            last  == Len(queue) + 1
<1>3. /\ head' = f /\ now' = now /\ queue' = Append(queue, block)
      /\ UNCHANGED <<task, tokens, rejected>>
  BY <1>2 DEF Grow, tables, ghosts
<1>4. /\ queue \in Seq(Block) /\ block \in Block
      /\ block.place = f /\ block.events = events
  BY <1>1 DEF TypeOK, Block
<1>. HIDE DEF block
<1>5. /\ Len(queue) \in Nat
      /\ DOMAIN queue = 1..Len(queue)
      /\ DOMAIN queue' = DOMAIN queue \cup {last}
      /\ queue'[last] = block
      /\ \A i \in DOMAIN queue : queue'[i] = queue[i] /\ last > i
  BY <1>3, <1>4
<1>. HIDE DEF last
<1>6. ASSUME NEW t
      PROVE  Waits(t)' <=> Waits(t) \/ \E e \in events : e.token = t
  BY <1>4, <1>5 DEF Waits
<1>7. QueueTold'
  <2>1. \A t \in Tokens : ~Waits(t)' => now'[t] = head'[t]
    BY <1>1, <1>2, <1>3, <1>6 DEF QueueTold
  <2>2. ASSUME NEW i \in DOMAIN queue', NEW t \in Tokens
        PROVE  \/ queue'[i].place[t] = f[t]
               \/ \E j \in DOMAIN queue' : j > i /\ \E e \in queue'[j].events : e.token = t
    <3>1. CASE i = last
      BY <1>4, <1>5, <3>1
    <3>2. CASE i \in DOMAIN queue
      <4>1. CASE \E e \in events : e.token = t
        BY <1>4, <1>5, <3>2, <4>1
      <4>2. CASE queue[i].place[t] = head[t] /\ f[t] = head[t]
        BY <1>5, <3>2, <4>2
      <4>3. CASE \E j \in DOMAIN queue : j > i /\ \E e \in queue[j].events : e.token = t
        BY <1>5, <4>3
      <4>. QED BY <1>1, <1>2, <3>2, <4>1, <4>2, <4>3 DEF QueueTold
    <3>. QED BY <1>5, <2>2, <3>1, <3>2
  <2>. QED BY <1>3, <2>1, <2>2 DEF QueueTold
<1>8. ASSUME NEW e \in DOMAIN task
      PROVE  TaskTold(e, task[e])'
  <2>1. TaskTold(e, task[e]) /\ e.token \in Tokens
    BY <1>1, <1>8 DEF ParentInv, TypeOK, Event
  <2>2. Waits(e.token)' \/ head'[e.token] = head[e.token]
    BY <1>2, <1>3, <1>6, <2>1
  <2>. QED BY <1>3, <1>6, <2>1, <2>2 DEF TaskTold
<1>9. ASSUME NEW t \in Tokens, RowTold(t)
      PROVE  RowTold(t)' \/ Waits(t)'
  <2>1. Waits(t)' \/ head'[t] = head[t]
    BY <1>2, <1>3, <1>6
  <2>. QED BY <1>3, <1>9, <2>1 DEF RowTold, Live, ParentIn, InToken
<1>10. RowsTold'
  BY <1>1, <1>3, <1>6, <1>9 DEF RowsTold
<1>. QED BY <1>1, <1>3, <1>7, <1>8, <1>10 DEF ParentInv

LEMMA BatchTold ==
  ASSUME ParentInv, BatchProcess
  PROVE  ParentInv'
<1>1. TypeOK /\ TypeOK' /\ QueueTold /\ RowsTold
  BY BatchType DEF ParentInv
<1>2. /\ head' = head /\ now' = queue[1].place /\ queue' = Tail(queue)
      /\ DOMAIN task = {} /\ task' = [e \in queue[1].events |-> Begun]
      /\ UNCHANGED <<tokens, rejected>>
  BY <1>1 DEF BatchProcess, Quiet, tables, ghosts, TypeOK
<1>3. queue \in Seq(Block) /\ queue # <<>>
  BY <1>1 DEF TypeOK, BatchProcess
<1>4. /\ Len(queue) \in Nat /\ Len(queue) >= 1
      /\ DOMAIN queue = 1..Len(queue)
      /\ DOMAIN queue' = 1..(Len(queue) - 1)
      /\ \A i \in DOMAIN queue' : queue'[i] = queue[i + 1]
  BY <1>2, <1>3
<1>5. ASSUME NEW j \in DOMAIN queue, j > 1
      PROVE  j - 1 \in DOMAIN queue' /\ queue'[j - 1] = queue[j]
  BY <1>4, <1>5
<1>6. ASSUME NEW t
      PROVE  Waits(t) => Waits(t)' \/ \E e \in queue[1].events : e.token = t
  <2>1. SUFFICES ASSUME NEW i \in DOMAIN queue, \E e \in queue[i].events : e.token = t
                 PROVE  Waits(t)' \/ \E e \in queue[1].events : e.token = t
    BY DEF Waits
  <2>2. CASE i = 1
    BY <2>1, <2>2
  <2>3. CASE i > 1
    BY <1>5, <2>1, <2>3 DEF Waits
  <2>. QED BY <1>4, <2>2, <2>3
<1>7. QueueTold'
  <2>1. ASSUME NEW t \in Tokens
        PROVE  Waits(t)' \/ now'[t] = head'[t]
    <3>1. 1 \in DOMAIN queue
      BY <1>4
    <3>2. \/ queue[1].place[t] = head[t]
          \/ \E j \in DOMAIN queue : j > 1 /\ \E e \in queue[j].events : e.token = t
      BY <1>1, <3>1 DEF QueueTold
    <3>. QED BY <1>2, <1>5, <3>2 DEF Waits
  <2>2. ASSUME NEW i \in DOMAIN queue', NEW t \in Tokens
        PROVE  \/ queue'[i].place[t] = head[t]
               \/ \E j \in DOMAIN queue' : j > i /\ \E e \in queue'[j].events : e.token = t
    <3>1. i + 1 \in DOMAIN queue /\ i + 1 > 1 /\ queue'[i] = queue[i + 1]
      BY <1>4
    <3>2. CASE queue[i + 1].place[t] = head[t]
      BY <3>1, <3>2
    <3>3. CASE \E j \in DOMAIN queue : j > i + 1 /\ \E e \in queue[j].events : e.token = t
      <4>1. PICK j \in DOMAIN queue : j > i + 1 /\ \E e \in queue[j].events : e.token = t
        BY <3>3
      <4>2. j > 1 /\ j - 1 > i
        BY <1>4, <4>1
      <4>. QED BY <1>5, <4>1, <4>2
    <3>. QED BY <1>1, <3>1, <3>2, <3>3 DEF QueueTold
  <2>. QED BY <1>2, <2>1, <2>2 DEF QueueTold
<1>8. ASSUME NEW e \in DOMAIN task'
      PROVE  TaskTold(e, task[e])'
  <2>1. task'[e].pc = "data"
    BY <1>2, <1>8 DEF Begun
  <2>. QED BY <2>1 DEF TaskTold, LivePlaces, DeadPlaces
<1>9. \A t \in Tokens : RowTold(t) => RowTold(t)'
  BY <1>2 DEF RowTold, Live, ParentIn, InToken
<1>10. RowsTold'
  <2>1. \A t \in Tokens \ rejected' : RowTold(t) \/ Waits(t)
    BY <1>1, <1>2 DEF RowsTold
  <2>2. DOMAIN task' = queue[1].events
    BY <1>2
  <2>. QED BY <1>6, <1>9, <2>1, <2>2 DEF RowsTold
<1>. QED BY <1>1, <1>7, <1>8, <1>10 DEF ParentInv

LEMMA ParentStep ==
  ASSUME ParentInv, [Next]_vars
  PROVE  ParentInv'
<1>1. CASE \E e \in DOMAIN task : Handle(e) \/ Fails(e)
  BY <1>1, HandleNestingTold, UpdateTold, FailsTold DEF Handle
<1>2. CASE UNCHANGED vars
  <2>1. TypeOK'
    BY <1>2, TypeStep DEF ParentInv
  <2>2. UNCHANGED <<onChain, head, tokens, rejected, task>>
    BY <1>2 DEF vars, onChain, tables, ghosts
  <2>. QED BY <2>1, <2>2, SameChain DEF ParentInv, RowsTold, TaskTold, RowTold, Live, ParentIn, InToken
<1>. QED BY <1>1, <1>2, ProduceTold, BatchTold DEF Next

LEMMA ParentStart ==
  ASSUME Init
  PROVE  ParentInv
<1>1. TypeOK
  BY InitType
<1>2. DOMAIN queue = {} /\ DOMAIN task = {} /\ now = head
  BY DEF Init
<1>3. QueueTold
  BY <1>2 DEF QueueTold
<1>4. ASSUME NEW t \in Tokens
      PROVE  RowTold(t)
  <2>1. tokens[t] = RowOf(head, t)
    BY DEF Init
  <2>2. Live(head, t) => RowOf(head, t).status = "live"
    BY DEF RowOf, Live
  <2>. QED BY <2>1, <2>2 DEF RowTold, RowOf
<1>. QED BY <1>1, <1>2, <1>3, <1>4 DEF ParentInv, RowsTold

\* When every block is handled parent_id is where the chain has the token, for
\* any trees, although an event may have been answered from the head of the
\* chain: a later block then has an event of the token.
THEOREM ParentsCorrect == Spec => []ParentsFollowChain
<1>1. Init => ParentInv
  BY ParentStart
<1>2. ParentInv /\ [Next]_vars => ParentInv'
  BY ParentStep
<1>3. ParentInv => ParentsFollowChain
  <2>1. SUFFICES ASSUME ParentInv, CaughtUp, NEW t \in Tokens \ rejected, Live(now, t)
                 PROVE  tokens[t].status = "live" /\ tokens[t].parent = ParentIn(now, t)
    BY DEF ParentsFollowChain
  <2>2. ~Waits(t) /\ ~\E e \in DOMAIN task : e.token = t
    BY <2>1 DEF CaughtUp, Quiet, Waits
  <2>3. now[t] = head[t] /\ RowTold(t)
    BY <2>1, <2>2 DEF ParentInv, QueueTold, RowsTold
  <2>. QED BY <2>1, <2>3 DEF RowTold, Live, ParentIn, InToken
<1>. QED BY <1>1, <1>2, <1>3, PTL DEF Spec

-----------------------------------------------------------------------------
(***************************************************************************)
(* children_count.  An insert counts nothing, so that the count of a token *)
(* without a row has to be 0.                                              *)
(***************************************************************************)
CountInv ==
  /\ TypeOK
  /\ StatsCountChildren
  /\ \A t \in Tokens : tokens[t].status = "absent" => counts[t] = 0

LEMMA StatsMove ==
  ASSUME NEW old, NEW new, NEW count \in {0, Cardinality(old)}
  PROVE  NestedStats(count, old, new) \in {0, Cardinality(new)}
BY DEF NestedStats

\* A statement that writes the row of one token and counts it by the trigger.
LEMMA RowCounted ==
  ASSUME CountInv, TypeOK', NEW t \in Tokens, NEW row, row.status # "absent",
         tokens' = [tokens EXCEPT ![t] = row],
         counts' = [counts EXCEPT ![t] = NestedStats(counts[t], tokens[t].children, row.children)]
  PROVE  CountInv'
<1>1. counts[t] \in {0, Cardinality(tokens[t].children)}
  BY DEF CountInv, StatsCountChildren
<1>2. tokens'[t] = row /\ counts'[t] \in {0, Cardinality(row.children)}
  BY <1>1, StatsMove DEF CountInv, TypeOK
<1>3. \A p \in Tokens \ {t} : tokens'[p] = tokens[p] /\ counts'[p] = counts[p]
  BY DEF CountInv, TypeOK
<1>. QED BY <1>2, <1>3 DEF CountInv, StatsCountChildren

LEMMA ChildrenCounted ==
  ASSUME CountInv, TypeOK', NEW t \in Tokens, NEW seen, NEW children \in SUBSET Tokens,
         UpdateChildren(t, seen, children)
  PROVE  CountInv'
<1>1. CASE tokens[t].status = "absent"
  BY <1>1 DEF UpdateChildren, CountInv, StatsCountChildren
<1>2. CASE tokens[t].status # "absent"
  <2>. DEFINE row == [tokens[t] EXCEPT !.children = children]
  <2>1. row.status # "absent" /\ row.children = children
    BY <1>2 DEF CountInv, TypeOK, Row
  <2>2. /\ tokens' = [tokens EXCEPT ![t] = row]
        /\ counts' = [counts EXCEPT ![t] = NestedStats(counts[t], tokens[t].children, children)]
    BY <1>2 DEF UpdateChildren
  <2>. HIDE DEF row
  <2>. QED BY <2>1, <2>2, RowCounted
<1>. QED BY <1>1, <1>2

LEMMA CountFrame ==
  ASSUME CountInv, TypeOK', UNCHANGED <<tokens, counts>>
  PROVE  CountInv'
BY DEF CountInv, StatsCountChildren

LEMMA HandleNestingCounted ==
  ASSUME CountInv, TypeOK', NEW e \in DOMAIN task, HandleNesting(e)
  PROVE  CountInv'
<1>. DEFINE t == task[e]
<1>1. /\ t.cur \in Tokens /\ t.up \in Links /\ t.tree \in [Tokens -> SUBSET Tokens]
      /\ t.todo \subseteq [token : Tokens, children : SUBSET Tokens]
  <2>1. t \in Task
    BY DEF CountInv, TypeOK
  <2>. QED BY <2>1 DEF Task
<1>. HIDE DEF t
<1>2. CASE UpdateParent(e)
  <2>1. t.tree[t.cur] \in SUBSET Tokens
    BY <1>1
  <2>. QED BY <1>1, <1>2, <2>1, ChildrenCounted DEF UpdateParent, t
<1>3. CASE FilterParent(e)
  <2>1. t.up.children \ t.gone \in SUBSET Tokens
    BY <1>1 DEF Links
  <2>. QED BY <1>1, <1>3, <2>1, ChildrenCounted DEF FilterParent, t
<1>4. CASE RemoveChildFromToken(e)
  <2>1. PICK x \in t.todo : UpdateChildren(x.token, x.children, x.children \ {e.token})
    BY <1>4 DEF RemoveChildFromToken, t
  <2>2. x.token \in Tokens /\ x.children \ {e.token} \in SUBSET Tokens
    BY <1>1
  <2>. QED BY <2>1, <2>2, ChildrenCounted
<1>5. CASE UpdateParentOwner(e) \/ FilterParentOwner(e)
  BY <1>5, CountFrame DEF UpdateParentOwner, FilterParentOwner
<1>6. CASE \/ ReadRow(e) \/ ReadOwnerRow(e) \/ GetTokenBundle(e) \/ UpdateTokenParents(e)
           \/ FindParent(e) \/ FindParentOwner(e) \/ GetParentsByChildren(e)
  BY <1>6, CountFrame DEF ReadRow, ReadOwnerRow, GetTokenBundle, UpdateTokenParents, FindParent,
     FindParentOwner, GetParentsByChildren, Silent, tables
<1>. QED BY <1>2, <1>3, <1>4, <1>5, <1>6 DEF HandleNesting

LEMMA UpdateCounted ==
  ASSUME CountInv, TypeOK', NEW e \in DOMAIN task, Update(e)
  PROVE  CountInv'
<1>1. e.token \in Tokens
  BY DEF CountInv, TypeOK, Event
<1>2. CASE InsertToken(e)
  <2>1. counts[e.token] = 0
    BY <1>1, <1>2 DEF CountInv, InsertToken
  <2>2. tokens'[e.token] = Prepared(e) /\ UNCHANGED counts
    BY <1>1, <1>2 DEF CountInv, TypeOK, InsertToken
  <2>3. \A p \in Tokens \ {e.token} : tokens'[p] = tokens[p]
    BY <1>2 DEF CountInv, TypeOK, InsertToken
  <2>. QED BY <2>1, <2>2, <2>3 DEF CountInv, StatsCountChildren
<1>3. CASE UpdateToken(e)
  <2>1. Prepared(e).status # "absent" /\ Prepared(e).children = task[e].children
    BY DEF Prepared
  <2>2. /\ tokens' = [tokens EXCEPT ![e.token] = Prepared(e)]
        /\ counts' = [counts EXCEPT ![e.token] =
             NestedStats(counts[e.token], tokens[e.token].children, task[e].children)]
    BY <1>3 DEF UpdateToken
  <2>. QED BY <1>1, <2>1, <2>2, RowCounted
<1>4. CASE BurnToken(e)
  <2>1. \A p \in Tokens : /\ tokens'[p].children = tokens[p].children
                          /\ tokens'[p].status = "absent" => tokens[p].status = "absent"
    BY <1>1, <1>4 DEF CountInv, TypeOK, Row, BurnToken
  <2>2. UNCHANGED counts
    BY <1>4 DEF BurnToken
  <2>. QED BY <2>1, <2>2 DEF CountInv, StatsCountChildren
<1>5. CASE \/ GetTokenData(e) \/ DeleteOwner(e) \/ SaveOwner(e) \/ FindToken(e)
           \/ InsertRefused(e) \/ DropOwner(e)
  BY <1>5, CountFrame DEF GetTokenData, DeleteOwner, SaveOwner, FindToken, InsertRefused,
     DropOwner, Silent, tables
<1>. QED BY <1>2, <1>3, <1>4, <1>5 DEF Update

LEMMA CountStep ==
  ASSUME CountInv, [Next]_vars
  PROVE  CountInv'
<1>1. TypeOK'
  BY TypeStep DEF CountInv
<1>2. CASE Produce
  <2>1. UNCHANGED tables
    BY <1>2, ProduceIsGrow DEF Grow, CountInv
  <2>. QED BY <1>1, <2>1, CountFrame DEF tables
<1>3. CASE BatchProcess
  BY <1>1, <1>3, CountFrame DEF BatchProcess, tables
<1>4. ASSUME NEW e \in DOMAIN task, Handle(e) \/ Fails(e)
      PROVE  CountInv'
  <2>1. CASE Fails(e)
    BY <1>1, <2>1, CountFrame DEF Fails, NestingFails, ParentFails, EventFails, tables
  <2>. QED BY <1>1, <1>4, <2>1, HandleNestingCounted, UpdateCounted DEF Handle
<1>5. CASE UNCHANGED vars
  BY <1>1, <1>5, CountFrame DEF vars, tables
<1>. QED BY <1>2, <1>3, <1>4, <1>5 DEF Next

\* The trigger keeps children_count at the length of children, or at the 0 of
\* the insert, whichever events write the column, where the crawler starts with
\* nothing in a token that is not minted.
THEOREM StatsCorrect ==
  ASSUME \A s \in Starts : \A t \in Tokens : s.place[t] = "absent" => Below(s.place, t) = {}
  PROVE  Spec => []StatsCountChildren
<1>1. Init => CountInv
  <2>1. SUFFICES ASSUME Init PROVE CountInv
    OBVIOUS
  <2>2. ASSUME NEW t \in Tokens
        PROVE  /\ counts[t] = Cardinality(tokens[t].children)
               /\ tokens[t].status = "absent" => counts[t] = 0
    <3>1. counts[t] = Cardinality(Below(head, t)) /\ tokens[t] = RowOf(head, t)
      BY <2>1 DEF Init
    <3>2. RowOf(head, t).status = "absent" => head[t] = "absent"
      BY DEF RowOf
    <3>3. head[t] = "absent" => Cardinality(Below(head, t)) = 0
      BY <2>1, FS_EmptySet DEF Init
    <3>. QED BY <3>1, <3>2, <3>3 DEF RowOf
  <2>. QED BY <2>1, <2>2, InitType DEF CountInv, StatsCountChildren
<1>2. CountInv /\ [Next]_vars => CountInv'
  BY CountStep
<1>3. CountInv => StatsCountChildren
  BY DEF CountInv
<1>. QED BY <1>1, <1>2, <1>3, PTL DEF Spec

-----------------------------------------------------------------------------
(***************************************************************************)
(* A burned token leaves the children of every row.                        *)
(***************************************************************************)
(***************************************************************************)
(* The chain: a burn is final, and the block that burns a token has an     *)
(* event of it.                                                            *)
(***************************************************************************)
\* Where the tokens were before the block i of the queue.
Before(i) == IF i = 1 THEN now ELSE queue[i - 1].place

ToldOf(t, events) == \E e \in events : e.token = t

BurnsTold ==
  /\ head = Before(Len(queue) + 1)
  /\ \A t \in Tokens : now[t] = "burned" => head[t] = "burned"
  /\ \A i \in DOMAIN queue : \A t \in Tokens :
       queue[i].place[t] = "burned" =>
         head[t] = "burned" /\ (Before(i)[t] = "burned" \/ ToldOf(t, queue[i].events))

(***************************************************************************)
(* A task of a burned token is on the way to burn it.  What a task read of *)
(* the chain names no burned token; what it read of the tables may.        *)
(***************************************************************************)
TaskDead(e, n) ==
  now[e.token] = "burned" =>
    /\ n.pc \in {"data", "part", "select", "remove", "burn"}
    /\ n.pc = "data" \/ n.place = "burned"

TaskClean(e, n) ==
  /\ n.pc \in {"ownerRow", "bundle"} => e.kind = "transfer"
  /\ e.kind # "transfer" /\ n.children # {} => tokens[e.token].status # "absent"
  /\ \A t \in Tokens : now[t] = "burned" =>
       /\ \A p \in Tokens : t \notin n.tree[p]
       /\ e.kind = "transfer" => t \notin n.children

\* The task will take t out of the children of p.
Clears(e, n, t, p) ==
  /\ e.token = t
  /\ \/ n.pc \in {"data", "part", "select"}
     \/ n.pc = "remove" /\ \E x \in n.todo : x.token = p

RowClean(t, p) ==
  now[t] = "burned" /\ t \notin rejected /\ p \notin lost /\ t \in tokens[p].children =>
    \E e \in DOMAIN task : Clears(e, task[e], t, p)

AbsentEmpty == \A t \in Tokens : tokens[t].status = "absent" => tokens[t].children = {}

BurnInv ==
  /\ TypeOK
  /\ BurnsTold
  /\ AbsentEmpty
  /\ \A e \in DOMAIN task : TaskDead(e, task[e]) /\ TaskClean(e, task[e])
  /\ \A t, p \in Tokens : RowClean(t, p)

\* What a statement on the rows may not do: put a burned token into children
\* that are not marked as lost, and take a row out of the table.
RowsKept ==
  /\ rejected \subseteq rejected' /\ lost \subseteq lost'
  /\ AbsentEmpty'
  /\ \A p \in Tokens : tokens'[p].status = "absent" => tokens[p].status = "absent"
  /\ \A t \in Tokens, p \in Tokens \ lost' :
       now[t] = "burned" /\ t \in tokens'[p].children => t \in tokens[p].children

\* Where the task goes it clears what it did, of the rows that have the token.
StillClears(e, n) ==
  \A t, p \in Tokens :
    now[t] = "burned" /\ t \in tokens'[p].children /\ Clears(e, task[e], t, p) =>
      Clears(e, n, t, p)

LEMMA BurnFrame ==
  ASSUME BurnInv, TypeOK', NEW e \in DOMAIN task, UNCHANGED onChain, RowsKept,
         \/ \E n : /\ Become(e, n)
                   /\ TaskDead(e, n) /\ TaskClean(e, n) /\ StillClears(e, n)
         \/ Finish(e) /\ (e.token \in rejected' \/ \A t, p \in Tokens : ~Clears(e, task[e], t, p))
  PROVE  BurnInv'
<1>1. /\ TypeOK /\ BurnsTold /\ RowsKept
      /\ \A t, p \in Tokens : RowClean(t, p)
      /\ \A x \in DOMAIN task : TaskDead(x, task[x]) /\ TaskClean(x, task[x])
      /\ DOMAIN task \subseteq Event
  BY DEF BurnInv, TypeOK
<1>2. now' = now /\ head' = head /\ queue' = queue
  BY DEF onChain
<1>3. BurnsTold'
  BY <1>1, <1>2 DEF BurnsTold, Before, ToldOf
<1>4. ASSUME NEW x \in DOMAIN task'
      PROVE  TaskDead(x, task[x])' /\ TaskClean(x, task[x])'
  <2>1. TaskDead(x, task'[x]) /\ TaskClean(x, task'[x])
    BY <1>1, <1>4 DEF Become, Finish
  <2>2. x.token \in Tokens
    BY <1>4 DEF TypeOK, Event
  <2>. QED BY <1>1, <1>2, <2>1, <2>2 DEF TaskDead, TaskClean, RowsKept
<1>5. ASSUME NEW t \in Tokens, NEW p \in Tokens,
             now[t] = "burned", t \notin rejected', p \notin lost', t \in tokens'[p].children
      PROVE  \E x \in DOMAIN task' : Clears(x, task'[x], t, p)
  <2>1. PICK x \in DOMAIN task : Clears(x, task[x], t, p)
    BY <1>1, <1>5 DEF RowClean, RowsKept
  <2>2. CASE \E n : Become(e, n) /\ StillClears(e, n)
    <3>1. PICK n : Become(e, n) /\ StillClears(e, n)
      BY <2>2
    <3>2. /\ x \in DOMAIN task' /\ task'[e] = n
          /\ x # e => task'[x] = task[x]
      BY <1>1, <3>1 DEF Become
    <3>3. x = e => Clears(e, n, t, p)
      BY <1>5, <2>1, <3>1 DEF StillClears
    <3>. QED BY <2>1, <3>2, <3>3
  <2>3. CASE Finish(e) /\ (e.token \in rejected' \/ \A s, q \in Tokens : ~Clears(e, task[e], s, q))
    <3>1. x # e
      BY <1>5, <2>1, <2>3 DEF Clears
    <3>. QED BY <2>1, <2>3, <3>1 DEF Finish
  <2>. QED BY <2>2, <2>3
<1>6. \A t, p \in Tokens : RowClean(t, p)'
  BY <1>2, <1>5 DEF RowClean, Clears
<1>. QED BY <1>1, <1>3, <1>4, <1>6 DEF BurnInv, RowsKept

\* No row is touched.
LEMMA RowsSame ==
  ASSUME BurnInv, UNCHANGED <<tokens, lost>>, rejected \subseteq rejected'
  PROVE  RowsKept
BY DEF BurnInv, RowsKept, AbsentEmpty

\* An update of children keeps them within what they were, or leaves out what
\* is burned, or marks them as lost.
LEMMA ChildrenKept ==
  ASSUME BurnInv, NEW q \in Tokens, NEW seen, NEW children, UpdateChildren(q, seen, children),
         UNCHANGED rejected,
         \/ children \subseteq seen
         \/ \A t \in Tokens : now[t] = "burned" => t \notin children
  PROVE  RowsKept
<1>1. tokens \in [Tokens -> Row] /\ AbsentEmpty
  BY DEF BurnInv, TypeOK
<1>2. CASE tokens[q].status = "absent"
  BY <1>2, RowsSame DEF UpdateChildren
<1>3. CASE tokens[q].status # "absent"
  <2>1. /\ tokens' = [tokens EXCEPT ![q].children = children]
        /\ lost' = IF seen = tokens[q].children THEN lost ELSE lost \cup {q}
    BY <1>3 DEF UpdateChildren
  <2>2. /\ tokens'[q].status = tokens[q].status /\ tokens'[q].children = children
        /\ \A p \in Tokens \ {q} : tokens'[p] = tokens[p]
    BY <1>1, <2>1 DEF Row
  <2>3. AbsentEmpty'
    BY <1>1, <1>3, <2>2 DEF AbsentEmpty
  <2>4. lost \subseteq lost' /\ (q \notin lost' => seen = tokens[q].children)
    BY <2>1
  <2>5. \A p \in Tokens : tokens'[p].status = "absent" => tokens[p].status = "absent"
    BY <2>2
  <2>6. ASSUME NEW t \in Tokens, NEW p \in Tokens \ lost',
               now[t] = "burned", t \in tokens'[p].children
        PROVE  t \in tokens[p].children
    BY <2>2, <2>4, <2>6
  <2>. QED BY <2>3, <2>4, <2>5, <2>6 DEF RowsKept
<1>. QED BY <1>2, <1>3

\* A task that is not on the way to burn its token has one that is not burned.
LEMMA Alive ==
  ASSUME BurnInv, NEW e \in DOMAIN task,
         task[e].pc \notin {"data", "part", "select", "remove", "burn"}
  PROVE  \A n : TaskDead(e, n) /\ StillClears(e, n)
<1>1. now[e.token] # "burned"
  BY DEF BurnInv, TaskDead
<1>. QED BY <1>1 DEF TaskDead, StillClears, Clears

\* The columns that a task holds stay what they are.
LEMMA CleanMove ==
  ASSUME NEW e, NEW m, TaskClean(e, m), NEW n, n.pc \notin {"ownerRow", "bundle"},
         n.children = m.children, n.tree = m.tree
  PROVE  TaskClean(e, n)
BY DEF TaskClean

LEMMA MoveClean ==
  ASSUME BurnInv, NEW e \in DOMAIN task, NEW pc, pc \notin {"ownerRow", "bundle"}
  PROVE  TaskClean(e, [task[e] EXCEPT !.pc = pc])
<1>1. task[e] \in Task /\ TaskClean(e, task[e])
  BY DEF BurnInv, TypeOK
<1>2. LET n == [task[e] EXCEPT !.pc = pc]
      IN  n.pc = pc /\ n.children = task[e].children /\ n.tree = task[e].tree
  BY <1>1 DEF Task
<1>. QED BY <1>1, <1>2, CleanMove

LEMMA AfterClean ==
  ASSUME BurnInv, NEW e \in DOMAIN task
  PROVE  TaskClean(e, ThenUnnest(e)) /\ TaskClean(e, ThenOwners(e))
<1>. DEFINE t == task[e]
<1>1. t \in Task /\ TaskClean(e, t)
  BY DEF BurnInv, TypeOK
<1>. HIDE DEF t
<1>2. ASSUME NEW c, NEW g, NEW pc \in {"unnest", "unnestOwner"}
      PROVE  TaskClean(e, [t EXCEPT !.pc = pc, !.cur = c, !.gone = g])
  <2>1. LET n == [t EXCEPT !.pc = pc, !.cur = c, !.gone = g]
        IN  n.pc = pc /\ n.children = t.children /\ n.tree = t.tree
    BY <1>1 DEF Task
  <2>2. pc # "bundle"
    OBVIOUS
  <2>. QED BY <1>1, <2>1, <2>2, CleanMove
<1>3. TaskClean(e, [t EXCEPT !.pc = "owners"])
  BY MoveClean DEF t
<1>4. TaskClean(e, ThenOwners(e))
  BY <1>2, <1>3 DEF ThenOwners, t
<1>. QED BY <1>2, <1>4 DEF ThenUnnest, t

\* Only a token that is in another is below one.
LEMMA BelowIsIn ==
  ASSUME NEW f, NEW p, NEW t \in Below(f, p)
  PROVE  InToken(f, t)
<1>1. t \in Tokens /\ p \in Above(f, t)
  BY DEF Below
<1>2. ASSUME ~InToken(f, t)
      PROVE  p \in {}
  BY <1>1, <1>2 DEF Above
<1>. QED BY <1>2

\* What the chain tells of a bundle names no burned token.
LEMMA TreeClean ==
  ASSUME BurnInv, NEW e, NEW t \in Tokens, now[t] = "burned"
  PROVE  \A p \in Tokens : t \notin GetTokenChildren(head, e)[p]
<1>1. head[t] = "burned"
  BY DEF BurnInv, BurnsTold
<1>2. ~InToken(head, t)
  BY <1>1, PlacesApart DEF InToken
<1>3. \A p : t \notin Below(head, p)
  BY <1>2, BelowIsIn
<1>. QED BY <1>3 DEF GetTokenChildren

LEMMA HandleNestingBurns ==
  ASSUME BurnInv, NEW e \in DOMAIN task, HandleNesting(e)
  PROVE  BurnInv'
<1>. DEFINE t == task[e]
<1>1. /\ TypeOK /\ TypeOK' /\ e.token \in Tokens
      /\ t \in Task /\ TaskClean(e, t) /\ TaskDead(e, t)
      /\ AbsentEmpty
  BY HandleNestingType DEF BurnInv, TypeOK, Event
<1>2. t.cur \in Tokens
  BY <1>1 DEF Task
<1>3. UNCHANGED onChain /\ UNCHANGED rejected
  BY DEF HandleNesting, ReadRow, ReadOwnerRow, GetTokenBundle, UpdateTokenParents, UpdateParent,
         UpdateParentOwner, FindParent, FilterParent, FindParentOwner, FilterParentOwner,
         GetParentsByChildren, RemoveChildFromToken, Silent, ghosts
<1>4. RowsKept
  <2>1. CASE UNCHANGED <<tokens, lost>>
    BY <1>3, <2>1, RowsSame
  <2>2. CASE UpdateParent(e)
    <3>1. \A x \in Tokens : now[x] = "burned" => x \notin t.tree[t.cur]
      BY <1>1, <1>2 DEF TaskClean
    <3>2. UpdateChildren(t.cur, tokens[t.cur].children, t.tree[t.cur])
      BY <2>2 DEF UpdateParent
    <3>. QED BY <1>2, <1>3, <3>1, <3>2, ChildrenKept
  <2>3. CASE FilterParent(e)
    <3>1. UpdateChildren(t.cur, t.up.children, t.up.children \ t.gone)
      BY <2>3 DEF FilterParent
    <3>2. t.up.children \ t.gone \subseteq t.up.children
      OBVIOUS
    <3>. QED BY <1>2, <1>3, <3>1, <3>2, ChildrenKept
  <2>4. CASE RemoveChildFromToken(e)
    <3>1. PICK x \in t.todo : UpdateChildren(x.token, x.children, x.children \ {e.token})
      BY <2>4 DEF RemoveChildFromToken
    <3>2. x.token \in Tokens /\ x.children \ {e.token} \subseteq x.children
      BY <1>1, <3>1 DEF Task
    <3>. QED BY <1>3, <3>1, <3>2, ChildrenKept
  <2>5. CASE UpdateParentOwner(e) \/ FilterParentOwner(e)
    BY <2>1, <2>5 DEF UpdateParentOwner, FilterParentOwner
  <2>6. CASE \/ ReadRow(e) \/ ReadOwnerRow(e) \/ GetTokenBundle(e) \/ UpdateTokenParents(e)
             \/ FindParent(e) \/ FindParentOwner(e) \/ GetParentsByChildren(e)
    BY <2>1, <2>6 DEF ReadRow, ReadOwnerRow, GetTokenBundle, UpdateTokenParents, FindParent,
       FindParentOwner, GetParentsByChildren, Silent, tables
  <2>. QED BY <2>2, <2>3, <2>4, <2>5, <2>6 DEF HandleNesting
<1>5. \E n : Become(e, n) /\ TaskDead(e, n) /\ TaskClean(e, n) /\ StillClears(e, n)
  <2>. HIDE DEF t
  <2>1. ASSUME t.pc \notin {"data", "part", "select", "remove", "burn"},
               NEW n, Become(e, n), TaskClean(e, n)
        PROVE  <1>5
    BY <2>1, Alive DEF t
  <2>2. CASE ReadRow(e)
    <3>1. t.pc = "row"
      BY <2>2 DEF ReadRow, t
    <3>2. ASSUME NEW held, e.kind = "transfer"
          PROVE  TaskClean(e, [t EXCEPT !.pc = "ownerRow", !.held = held])
      BY <1>1, <3>2 DEF TaskClean, Task
    <3>3. ASSUME e.kind # "transfer"
          PROVE  TaskClean(e, [t EXCEPT !.pc = "owners", !.children = tokens[e.token].children])
      BY <1>1, <3>3 DEF TaskClean, Task, AbsentEmpty
    <3>4. \E n : Become(e, n) /\ TaskClean(e, n)
      BY <2>2, <3>2, <3>3 DEF ReadRow, t
    <3>. QED BY <2>1, <3>1, <3>4
  <2>10. CASE ReadOwnerRow(e)
    <3>1. t.pc = "ownerRow" /\ e.kind = "transfer"
      BY <1>1, <2>10 DEF ReadOwnerRow, TaskClean, t
    <3>2. ASSUME NEW owned, NEW pc \in {"bundle", "select", "owners"}
          PROVE  TaskClean(e, [t EXCEPT !.owned = owned, !.pc = pc])
      BY <1>1, <3>1 DEF TaskClean, Task
    <3>3. \E n : Become(e, n) /\ TaskClean(e, n)
      BY <2>10, <3>2 DEF ReadOwnerRow, t
    <3>. QED BY <2>1, <3>1, <3>3
  <2>3. CASE GetTokenBundle(e)
    <3>1. t.pc = "bundle" /\ e.kind = "transfer"
      BY <1>1, <2>3 DEF GetTokenBundle, TaskClean, t
    <3>2. ASSUME NEW tree, tree = GetTokenChildren(head, e.token)
          PROVE  TaskClean(e, [t EXCEPT !.pc = "walk", !.cur = e.token, !.tree = tree,
                                        !.children = tree[e.token]])
      <4>1. \A x \in Tokens : now[x] = "burned" => \A p \in Tokens : x \notin tree[p]
        BY <3>2, TreeClean
      <4>2. LET n == [t EXCEPT !.pc = "walk", !.cur = e.token, !.tree = tree,
                               !.children = tree[e.token]]
            IN  n.pc = "walk" /\ n.tree = tree /\ n.children = tree[e.token]
        BY <1>1 DEF Task
      <4>. QED BY <1>1, <3>1, <4>1, <4>2 DEF TaskClean
    <3>3. TaskClean(e, [t EXCEPT !.pc = "owners"])
      BY MoveClean DEF t
    <3>4. \E n : Become(e, n) /\ TaskClean(e, n)
      BY <2>3, <3>2, <3>3 DEF GetTokenBundle, Move, t
    <3>. QED BY <2>1, <3>1, <3>4
  <2>4. CASE UpdateTokenParents(e)
    <3>1. t.pc = "walk"
      BY <2>4 DEF UpdateTokenParents, t
    <3>2. ASSUME NEW c, NEW pc \in {"walk", "parent"}
          PROVE  TaskClean(e, [t EXCEPT !.cur = c, !.pc = pc])
      BY <1>1 DEF TaskClean, Task
    <3>3. \E n : Become(e, n) /\ TaskClean(e, n)
      BY <2>4, <3>2, AfterClean DEF UpdateTokenParents, t
    <3>. QED BY <2>1, <3>1, <3>3
  <2>5. CASE UpdateParent(e) \/ UpdateParentOwner(e)
    <3>1. t.pc \in {"parent", "parentOwner"}
      BY <2>5 DEF UpdateParent, UpdateParentOwner, t
    <3>2. \E n : Become(e, n) /\ TaskClean(e, n)
      BY <2>5, MoveClean DEF UpdateParent, UpdateParentOwner, Move
    <3>. QED BY <2>1, <3>1, <3>2
  <2>6. CASE FindParent(e) \/ FindParentOwner(e)
    <3>1. t.pc \in {"unnest", "unnestOwner"}
      BY <2>6 DEF FindParent, FindParentOwner, t
    <3>2. ASSUME NEW up, NEW pc \in {"filter", "filterOwner"}
          PROVE  TaskClean(e, [t EXCEPT !.pc = pc, !.up = up])
      BY <1>1 DEF TaskClean, Task
    <3>3. TaskClean(e, [t EXCEPT !.pc = "owners"])
      BY MoveClean DEF t
    <3>4. \E n : Become(e, n) /\ TaskClean(e, n)
      BY <2>6, <3>2, <3>3, AfterClean DEF FindParent, FindParentOwner, t
    <3>. QED BY <2>1, <3>1, <3>4
  <2>7. CASE FilterParent(e) \/ FilterParentOwner(e)
    <3>1. t.pc \in {"filter", "filterOwner"}
      BY <2>7 DEF FilterParent, FilterParentOwner, t
    <3>2. ASSUME NEW c, NEW pc \in {"unnest", "unnestOwner"}
          PROVE  TaskClean(e, [t EXCEPT !.pc = pc, !.cur = c])
      BY <1>1 DEF TaskClean, Task
    <3>3. TaskClean(e, [t EXCEPT !.pc = "owners"])
      BY MoveClean DEF t
    <3>4. \E n : Become(e, n) /\ TaskClean(e, n)
      BY <2>7, <3>2, <3>3, AfterClean DEF FilterParent, FilterParentOwner, t
    <3>. QED BY <2>1, <3>1, <3>4
  <2>8. CASE GetParentsByChildren(e)
    <3>. DEFINE parents == {p \in Tokens : e.token \in tokens[p].children}
                todo == {[token |-> p, children |-> tokens[p].children] : p \in parents}
                pc == IF parents = {} THEN AfterRemoval(t) ELSE "remove"
                n == [t EXCEPT !.todo = todo, !.pc = pc]
    <3>1. t.pc = "select" /\ Become(e, n) /\ UNCHANGED tokens
      BY <2>8 DEF GetParentsByChildren, Silent, tables, t
    <3>2. pc \in {"burn", "owners", "remove"} /\ (t.place = "burned" => pc \in {"burn", "remove"})
      BY DEF AfterRemoval
    <3>3. \A p \in Tokens : e.token \in tokens[p].children =>
            pc = "remove" /\ \E x \in todo : x.token = p
      <4>1. SUFFICES ASSUME NEW p \in Tokens, e.token \in tokens[p].children
                     PROVE  pc = "remove" /\ \E x \in todo : x.token = p
        OBVIOUS
      <4>2. p \in parents
        BY <4>1
      <4>. HIDE DEF parents
      <4>3. [token |-> p, children |-> tokens[p].children] \in todo
        BY <4>2
      <4>4. [token |-> p, children |-> tokens[p].children].token = p
        OBVIOUS
      <4>. QED BY <4>2, <4>3, <4>4
    <3>. HIDE DEF todo, pc
    <3>4. n.pc = pc /\ n.todo = todo /\ n.place = t.place /\ n.children = t.children /\ n.tree = t.tree
      BY <1>1 DEF Task
    <3>. HIDE DEF n
    <3>5. TaskDead(e, n)
      BY <1>1, <3>1, <3>2, <3>4 DEF TaskDead
    <3>6. TaskClean(e, n)
      BY <1>1, <3>2, <3>4, CleanMove
    <3>7. StillClears(e, n)
      BY <3>1, <3>3, <3>4 DEF StillClears, Clears
    <3>. QED BY <3>1, <3>5, <3>6, <3>7
  <2>9. CASE RemoveChildFromToken(e)
    <3>1. PICK x \in t.todo :
            /\ UpdateChildren(x.token, x.children, x.children \ {e.token})
            /\ Become(e, [t EXCEPT !.todo = @ \ {x},
                 !.pc = IF t.todo = {x} THEN AfterRemoval(t) ELSE "remove"])
      BY <2>9 DEF RemoveChildFromToken, t
    <3>. DEFINE pc == IF t.todo = {x} THEN AfterRemoval(t) ELSE "remove"
                n == [t EXCEPT !.todo = @ \ {x}, !.pc = pc]
    <3>2. t.pc = "remove" /\ Become(e, n)
      BY <2>9, <3>1 DEF RemoveChildFromToken, t
    <3>3. pc \in {"burn", "owners", "remove"} /\ (t.place = "burned" => pc \in {"burn", "remove"})
      BY DEF AfterRemoval
    <3>4. t.todo # {x} => pc = "remove"
      OBVIOUS
    <3>. HIDE DEF pc
    <3>5. /\ n.pc = pc /\ n.todo = t.todo \ {x} /\ n.place = t.place
          /\ n.children = t.children /\ n.tree = t.tree
      BY <1>1 DEF Task
    <3>. HIDE DEF n
    <3>6. TaskDead(e, n)
      BY <1>1, <3>2, <3>3, <3>5 DEF TaskDead
    <3>7. TaskClean(e, n)
      BY <1>1, <3>3, <3>5, CleanMove
    <3>8. x.token \in Tokens
      BY <1>1, <3>1 DEF Task
    <3>9. e.token \notin tokens'[x.token].children
      <4>1. CASE tokens[x.token].status = "absent"
        BY <1>1, <3>1, <3>8, <4>1 DEF UpdateChildren, AbsentEmpty
      <4>2. CASE tokens[x.token].status # "absent"
        <5>1. tokens' = [tokens EXCEPT ![x.token].children = x.children \ {e.token}]
          BY <3>1, <4>2 DEF UpdateChildren
        <5>2. tokens[x.token] \in Row /\ tokens \in [Tokens -> Row]
          BY <1>1, <3>8 DEF TypeOK
        <5>3. tokens'[x.token].children = x.children \ {e.token}
          BY <3>8, <5>1, <5>2 DEF Row
        <5>. QED BY <5>3
      <4>. QED BY <4>1, <4>2
    <3>10. ASSUME NEW q \in Tokens, e.token \in tokens'[q].children,
                  \E y \in t.todo : y.token = q
           PROVE  n.pc = "remove" /\ \E y \in n.todo : y.token = q
      <4>1. PICK y \in t.todo : y.token = q
        BY <3>10
      <4>2. y # x
        BY <3>9, <3>10, <4>1
      <4>. QED BY <3>4, <3>5, <4>1, <4>2
    <3>11. StillClears(e, n)
      BY <3>2, <3>10 DEF StillClears, Clears, t
    <3>. QED BY <3>2, <3>6, <3>7, <3>11
  <2>. QED BY <2>2, <2>3, <2>4, <2>5, <2>6, <2>7, <2>8, <2>9, <2>10 DEF HandleNesting
<1>. QED BY <1>1, <1>3, <1>4, <1>5, BurnFrame

\* A row that is written is one of a live token.  A row that is not there has
\* no children to be read; where there are some, they are those of the row, or
\* the row is marked.
LEMMA PreparedKept ==
  ASSUME BurnInv, NEW e \in DOMAIN task, UNCHANGED rejected,
         tokens' = [tokens EXCEPT ![e.token] = Prepared(e)], lost \subseteq lost',
         \/ e.kind = "transfer"
         \/ tokens[e.token].status = "absent"
         \/ task[e].children = tokens[e.token].children
         \/ e.token \in lost'
  PROVE  RowsKept
<1>1. /\ tokens \in [Tokens -> Row] /\ AbsentEmpty
      /\ TaskClean(e, task[e]) /\ e.token \in Tokens
  BY DEF BurnInv, TypeOK, Event
<1>2. /\ tokens'[e.token].children = task[e].children
      /\ tokens'[e.token].status = "live"
      /\ \A p \in Tokens \ {e.token} : tokens'[p] = tokens[p]
  BY <1>1 DEF Prepared
<1>3. "live" # "absent"
  OBVIOUS
<1>4. AbsentEmpty'
  BY <1>1, <1>2, <1>3 DEF AbsentEmpty
<1>5. ASSUME NEW t \in Tokens, now[t] = "burned", t \in task[e].children, e.token \notin lost'
      PROVE  t \in tokens[e.token].children
  <2>1. e.kind # "transfer"
    BY <1>1, <1>5 DEF TaskClean
  <2>2. tokens[e.token].status # "absent"
    BY <1>1, <1>5, <2>1 DEF TaskClean
  <2>. QED BY <1>5, <2>1, <2>2
<1>. QED BY <1>2, <1>3, <1>4, <1>5 DEF RowsKept

LEMMA UpdateBurns ==
  ASSUME BurnInv, NEW e \in DOMAIN task, Update(e)
  PROVE  BurnInv'
<1>. DEFINE t == task[e]
            dead == {"data", "part", "select", "remove", "burn"}
<1>1. /\ TypeOK /\ TypeOK' /\ e.token \in Tokens
      /\ t \in Task /\ TaskClean(e, t) /\ TaskDead(e, t)
      /\ BurnsTold /\ AbsentEmpty
  BY UpdateType DEF BurnInv, TypeOK, Event
<1>2. UNCHANGED onChain
  BY DEF Update, GetTokenData, DeleteOwner, SaveOwner, FindToken, InsertToken, InsertRefused,
         UpdateToken, DropOwner, BurnToken, Silent
<1>3. t.pc \notin dead => \A x, p \in Tokens : ~Clears(e, t, x, p)
  BY DEF Clears
<1>. HIDE DEF t, dead
<1>4. CASE GetTokenData(e)
  <2>1. PICK f \in {now, head} :
          Become(e, [t EXCEPT !.pc = IF Live(f, e.token) THEN "row" ELSE "part",
                              !.place = f[e.token], !.bundle = IsBundle(f, e.token)])
    BY <1>4 DEF GetTokenData, t
  <2>. DEFINE pc == IF Live(f, e.token) THEN "row" ELSE "part"
              b == IsBundle(f, e.token)
              n == [t EXCEPT !.pc = pc, !.place = f[e.token], !.bundle = b]
  <2>2. Become(e, n)
    BY <2>1
  <2>3. now[e.token] = "burned" => f[e.token] = "burned"
    BY <1>1 DEF BurnsTold
  <2>4. pc \in {"row", "part"} /\ (f[e.token] = "burned" => pc = "part")
    BY DEF Live
  <2>. HIDE DEF pc, b
  <2>5. n.pc = pc /\ n.place = f[e.token] /\ n.children = t.children /\ n.tree = t.tree
    BY <1>1 DEF Task
  <2>. HIDE DEF n
  <2>6. TaskDead(e, n)
    BY <2>3, <2>4, <2>5 DEF TaskDead
  <2>7. TaskClean(e, n)
    BY <1>1, <2>4, <2>5, CleanMove
  <2>8. StillClears(e, n)
    BY <2>3, <2>4, <2>5 DEF StillClears, Clears
  <2>9. RowsKept
    BY <1>4, RowsSame DEF GetTokenData, tables
  <2>. QED BY <1>1, <1>2, <2>2, <2>6, <2>7, <2>8, <2>9, BurnFrame
<1>5. CASE DeleteOwner(e) \/ SaveOwner(e) \/ FindToken(e)
  <2>1. t.pc \notin dead
    BY <1>5 DEF DeleteOwner, SaveOwner, FindToken, t, dead
  <2>2. \E n : Become(e, n) /\ TaskClean(e, n)
    BY <1>5, MoveClean DEF DeleteOwner, SaveOwner, FindToken, Move
  <2>3. RowsKept
    BY <1>5, RowsSame DEF DeleteOwner, SaveOwner, FindToken, Silent, tables, ghosts
  <2>4. \A n : TaskDead(e, n) /\ StillClears(e, n)
    BY <2>1, Alive DEF t, dead
  <2>. QED BY <1>1, <1>2, <2>2, <2>3, <2>4, BurnFrame
<1>6. CASE InsertToken(e)
  <2>1. /\ tokens' = [tokens EXCEPT ![e.token] = Prepared(e)]
        /\ tokens[e.token].status = "absent"
        /\ UNCHANGED <<lost, rejected>> /\ Finish(e)
    BY <1>6 DEF InsertToken, ghosts
  <2>2. RowsKept
    BY <2>1, PreparedKept
  <2>3. t.pc \notin dead
    BY <1>6 DEF InsertToken, t, dead
  <2>. QED BY <1>1, <1>2, <1>3, <2>1, <2>2, <2>3, BurnFrame DEF t
<1>7. CASE UpdateToken(e)
  <2>1. /\ tokens' = [tokens EXCEPT ![e.token] = Prepared(e)]
        /\ lost' = IF e.kind = "transfer" \/ task[e].children = tokens[e.token].children
                   THEN lost ELSE lost \cup {e.token}
        /\ UNCHANGED rejected /\ Finish(e)
    BY <1>7 DEF UpdateToken, ghosts
  <2>2. RowsKept
    BY <2>1, PreparedKept
  <2>3. t.pc \notin dead
    BY <1>7 DEF UpdateToken, t, dead
  <2>. QED BY <1>1, <1>2, <1>3, <2>1, <2>2, <2>3, BurnFrame DEF t
<1>8. CASE InsertRefused(e)
  <2>1. UNCHANGED <<tokens, lost>> /\ rejected' = rejected \cup {e.token} /\ Finish(e)
    BY <1>8 DEF InsertRefused, tables
  <2>2. RowsKept
    BY <2>1, RowsSame
  <2>. QED BY <1>1, <1>2, <2>1, <2>2, BurnFrame
<1>9. CASE DropOwner(e)
  <2>1. UNCHANGED <<tokens, lost>> /\ t.pc = "part"
    BY <1>9 DEF DropOwner, t
  <2>2. CASE Move(e, "select") /\ UNCHANGED rejected
    <3>. DEFINE n == [t EXCEPT !.pc = "select"]
    <3>1. Become(e, n) /\ RowsKept
      BY <2>1, <2>2, RowsSame DEF Move, t
    <3>2. n.pc = "select" /\ n.place = t.place
      BY <1>1 DEF Task
    <3>3. TaskClean(e, n)
      BY MoveClean DEF t
    <3>. HIDE DEF n
    <3>4. TaskDead(e, n)
      BY <1>1, <2>1, <3>2 DEF TaskDead
    <3>5. StillClears(e, n)
      BY <3>2 DEF StillClears, Clears
    <3>. QED BY <1>1, <1>2, <3>1, <3>3, <3>4, <3>5, BurnFrame
  <2>3. CASE Finish(e) /\ rejected' = rejected \cup {e.token}
    <3>1. RowsKept
      BY <2>1, <2>3, RowsSame
    <3>. QED BY <1>1, <1>2, <2>3, <3>1, BurnFrame
  <2>. QED BY <1>9, <2>2, <2>3 DEF DropOwner
<1>10. CASE BurnToken(e)
  <2>1. /\ tokens' = IF tokens[e.token].status = "absent" THEN tokens
                     ELSE [tokens EXCEPT ![e.token].status = "burned"]
        /\ UNCHANGED <<lost, rejected>> /\ Finish(e) /\ t.pc = "burn"
    BY <1>10 DEF BurnToken, ghosts, t
  <2>2. "burned" # "absent" /\ tokens \in [Tokens -> Row]
    BY <1>1 DEF TypeOK
  <2>3. \A p \in Tokens : /\ tokens'[p].children = tokens[p].children
                          /\ tokens'[p].status = "absent" => tokens[p].status = "absent"
    BY <1>1, <2>1, <2>2 DEF Row
  <2>4. RowsKept
    BY <1>1, <2>1, <2>3 DEF RowsKept, AbsentEmpty
  <2>5. \A x, p \in Tokens : ~Clears(e, t, x, p)
    BY <2>1 DEF Clears
  <2>. QED BY <1>1, <1>2, <2>1, <2>4, <2>5, BurnFrame DEF t
<1>. QED BY <1>4, <1>5, <1>6, <1>7, <1>8, <1>9, <1>10 DEF Update

LEMMA FailsBurns ==
  ASSUME BurnInv, NEW e \in DOMAIN task, Fails(e)
  PROVE  BurnInv'
<1>1. /\ TypeOK /\ TypeOK' /\ TaskDead(e, task[e])
      /\ UNCHANGED onChain /\ UNCHANGED <<tokens, lost>>
  BY FailsType DEF BurnInv, Fails, NestingFails, ParentFails, EventFails, tables
<1>2. CASE NestingFails(e)
  <2>1. now[e.token] # "burned"
    BY <1>1, <1>2 DEF NestingFails, TaskDead, AfterRemoval
  <2>2. \A n : TaskDead(e, n) /\ StillClears(e, n)
    BY <2>1 DEF TaskDead, StillClears, Clears
  <2>3. \E n : Become(e, n) /\ TaskClean(e, n)
    BY <1>2, MoveClean DEF NestingFails, Move
  <2>4. RowsKept
    BY <1>1, <1>2, RowsSame DEF NestingFails
  <2>. QED BY <1>1, <2>2, <2>3, <2>4, BurnFrame
<1>3. CASE ParentFails(e)
  <2>1. \A n : TaskDead(e, n) /\ StillClears(e, n)
    BY <1>3, Alive DEF ParentFails
  <2>2. \E n : Become(e, n) /\ TaskClean(e, n)
    BY <1>3, AfterClean DEF ParentFails
  <2>3. RowsKept
    BY <1>1, <1>3, RowsSame DEF ParentFails
  <2>. QED BY <1>1, <2>1, <2>2, <2>3, BurnFrame
<1>4. CASE EventFails(e)
  <2>1. Finish(e) /\ rejected' = rejected \cup {e.token}
    BY <1>4 DEF EventFails
  <2>2. RowsKept
    BY <1>1, <2>1, RowsSame
  <2>. QED BY <1>1, <2>1, <2>2, BurnFrame
<1>. QED BY <1>2, <1>3, <1>4 DEF Fails

\* No operation is made on a burned token.
LEMMA BurnsStay ==
  ASSUME TypeOK, Produce, NEW t \in Tokens, head[t] = "burned"
  PROVE  head'[t] = "burned"
<1>1. ASSUME NEW f \in [Tokens -> Places], f[t] = "burned", NEW o \in Operations(f)
      PROVE  After(f, o)[t] = "burned" /\ After(f, o) \in [Tokens -> Places]
  <2>1. PICK x \in Tokens : o \in OperationsOn(f, x)
    BY DEF Operations
  <2>2. x # t /\ o.token = x
    BY <1>1, <2>1 DEF OperationsOn, Op
  <2>. QED BY <1>1, <2>2, OperationType DEF After
<1>2. head \in [Tokens -> Places]
  BY DEF TypeOK
<1>3. PICK o \in Operations(head) :
         \/ Grow(After(head, o), {EventOf(o)}, 1)
         \/ \E p \in Operations(After(head, o)) :
              Grow(After(After(head, o), p), {EventOf(o), EventOf(p)}, 2)
  BY DEF Produce
<1>4. CASE head' = After(head, o)
  BY <1>1, <1>2, <1>4
<1>5. CASE \E p \in Operations(After(head, o)) : head' = After(After(head, o), p)
  BY <1>1, <1>2, <1>5
<1>. QED BY <1>3, <1>4, <1>5 DEF Grow

LEMMA ProduceBurns ==
  ASSUME BurnInv, Produce
  PROVE  BurnInv'
<1>1. TypeOK /\ TypeOK' /\ BurnsTold
  BY TypeStep DEF BurnInv, Next
<1>2. PICK f \in [Tokens -> Places], events \in SUBSET Event, n \in {1, 2} :
        /\ Grow(f, events, n)
        /\ \A t \in Tokens : f[t] # head[t] => \E e \in events : e.token = t
  BY <1>1, ProduceIsGrow
<1>. DEFINE block == [place |-> f, events |-> events]
<1>0. PICK last : last = Len(queue) + 1
  OBVIOUS
<1>3. /\ head' = f /\ now' = now /\ queue' = Append(queue, block)
      /\ UNCHANGED <<task, tokens, lost, rejected>>
  BY <1>2 DEF Grow, tables, ghosts
<1>4. /\ queue \in Seq(Block) /\ block \in Block
      /\ block.place = f /\ block.events = events
  BY <1>1 DEF TypeOK, Block
<1>. HIDE DEF block
<1>5. /\ Len(queue) \in Nat
      /\ DOMAIN queue = 1..Len(queue)
      /\ Len(queue') = last
      /\ DOMAIN queue' = DOMAIN queue \cup {last}
      /\ queue'[last] = block
      /\ \A i \in DOMAIN queue : queue'[i] = queue[i]
  BY <1>0, <1>3, <1>4
<1>6. Before(last + 1)' = f
  <2>1. last \in Nat /\ last >= 1
    BY <1>0, <1>5
  <2>2. last + 1 # 1 /\ (last + 1) - 1 = last
    BY <2>1
  <2>. QED BY <1>4, <1>5, <2>2 DEF Before
<1>7. ASSUME NEW i \in DOMAIN queue'
      PROVE  Before(i)' = Before(i)
  <2>1. i = 1 \/ i - 1 \in DOMAIN queue
    BY <1>0, <1>5
  <2>. QED BY <1>3, <1>5, <2>1 DEF Before
<1>8. \A t \in Tokens : head[t] = "burned" => head'[t] = "burned"
  BY <1>1, BurnsStay
<1>9. head = Before(last)
  BY <1>0, <1>1 DEF BurnsTold
<1>10. ASSUME NEW i \in DOMAIN queue', NEW t \in Tokens, queue'[i].place[t] = "burned"
       PROVE  head'[t] = "burned" /\ (Before(i)'[t] = "burned" \/ ToldOf(t, queue'[i].events))
  <2>1. CASE i = last
    <3>1. f[t] = "burned" /\ Before(i)' = head /\ queue'[i].events = events
      BY <1>4, <1>5, <1>7, <1>9, <1>10, <2>1
    <3>2. head[t] = "burned" \/ ToldOf(t, events)
      BY <1>2, <3>1 DEF ToldOf
    <3>. QED BY <1>3, <3>1, <3>2
  <2>2. CASE i \in DOMAIN queue
    <3>1. queue[i].place[t] = "burned" /\ Before(i)' = Before(i) /\ queue'[i] = queue[i]
      BY <1>5, <1>7, <1>10, <2>2
    <3>. QED BY <1>1, <1>8, <2>2, <3>1 DEF BurnsTold
  <2>. QED BY <1>5, <2>1, <2>2
<1>11. head' = Before(Len(queue) + 1)'
  BY <1>3, <1>5, <1>6
<1>12. \A t \in Tokens : now'[t] = "burned" => head'[t] = "burned"
  BY <1>1, <1>3, <1>8 DEF BurnsTold
<1>13. BurnsTold'
  BY <1>10, <1>11, <1>12 DEF BurnsTold, ToldOf
<1>14. /\ AbsentEmpty'
       /\ \A e \in DOMAIN task' : TaskDead(e, task[e])' /\ TaskClean(e, task[e])'
       /\ \A t, p \in Tokens : RowClean(t, p)'
  BY <1>3 DEF BurnInv, AbsentEmpty, TaskDead, TaskClean, RowClean, Clears
<1>. QED BY <1>1, <1>13, <1>14 DEF BurnInv

\* The block that is begun has an event of every token that it burns.
LEMMA BatchBurns ==
  ASSUME BurnInv, BatchProcess
  PROVE  BurnInv'
<1>1. /\ TypeOK /\ TypeOK' /\ BurnsTold /\ AbsentEmpty
      /\ \A t, p \in Tokens : RowClean(t, p)
  BY BatchType DEF BurnInv
<1>2. /\ head' = head /\ now' = queue[1].place /\ queue' = Tail(queue)
      /\ DOMAIN task = {} /\ task' = [e \in queue[1].events |-> Begun]
      /\ UNCHANGED <<tokens, lost, rejected>>
  BY <1>1 DEF BatchProcess, Quiet, tables, ghosts, TypeOK
<1>3. queue \in Seq(Block) /\ queue # <<>>
  BY <1>1 DEF TypeOK, BatchProcess
<1>4. /\ Len(queue) \in Nat /\ Len(queue) >= 1
      /\ DOMAIN queue = 1..Len(queue)
      /\ Len(queue') = Len(queue) - 1
      /\ DOMAIN queue' = 1..(Len(queue) - 1)
      /\ \A i \in DOMAIN queue' : queue'[i] = queue[i + 1]
  BY <1>2, <1>3
<1>5. ASSUME NEW i \in 1..Len(queue)
      PROVE  Before(i)' = Before(i + 1)
  <2>1. CASE i = 1
    <3>1. Before(i)' = now'
      BY <2>1 DEF Before
    <3>2. i + 1 # 1 /\ (i + 1) - 1 = 1
      BY <2>1
    <3>. QED BY <1>2, <3>1, <3>2 DEF Before
  <2>2. CASE i # 1
    <3>1. /\ i - 1 \in DOMAIN queue' /\ (i - 1) + 1 = i
          /\ i + 1 # 1 /\ (i + 1) - 1 = i
      BY <1>4, <1>5, <2>2
    <3>2. queue'[i - 1] = queue[i]
      BY <1>4, <3>1
    <3>. QED BY <2>2, <3>1, <3>2 DEF Before
  <2>. QED BY <2>1, <2>2
<1>6. BurnsTold'
  <2>1. head' = Before(Len(queue) + 1)'
    <3>1. Len(queue') + 1 = Len(queue) /\ Len(queue) \in 1..Len(queue)
      BY <1>4
    <3>2. (IF Len(queue) = 1 THEN now' ELSE queue'[Len(queue) - 1].place) = Before(Len(queue) + 1)
      BY <1>5, <3>1 DEF Before
    <3>. QED BY <1>1, <1>2, <3>1, <3>2 DEF BurnsTold, Before
  <2>2. \A t \in Tokens : now'[t] = "burned" => head'[t] = "burned"
    BY <1>1, <1>2, <1>4 DEF BurnsTold
  <2>3. ASSUME NEW i \in DOMAIN queue', NEW t \in Tokens, queue'[i].place[t] = "burned"
        PROVE  head'[t] = "burned" /\ (Before(i)'[t] = "burned" \/ ToldOf(t, queue'[i].events))
    <3>1. i \in 1..Len(queue) /\ i + 1 \in DOMAIN queue /\ queue'[i] = queue[i + 1]
      BY <1>4
    <3>2. Before(i)' = Before(i + 1)
      BY <1>5, <3>1
    <3>. QED BY <1>1, <1>2, <2>3, <3>1, <3>2 DEF BurnsTold
  <2>. QED BY <2>1, <2>2, <2>3 DEF BurnsTold, ToldOf
<1>7. ASSUME NEW e \in DOMAIN task'
      PROVE  TaskDead(e, task[e])' /\ TaskClean(e, task[e])'
  <2>1. task'[e].pc = "data" /\ task'[e].children = {} /\ task'[e].tree = NoTree
    BY <1>2, <1>7 DEF Begun
  <2>2. "data" # "bundle"
    OBVIOUS
  <2>. QED BY <2>1, <2>2 DEF TaskDead, TaskClean, NoTree
<1>8. ASSUME NEW t \in Tokens, NEW p \in Tokens,
             now'[t] = "burned", t \notin rejected, p \notin lost, t \in tokens[p].children
      PROVE  \E e \in DOMAIN task' : Clears(e, task'[e], t, p)
  <2>1. now[t] # "burned"
    BY <1>1, <1>2, <1>8 DEF RowClean
  <2>2. Before(1) = now /\ 1 \in DOMAIN queue
    BY <1>4 DEF Before
  <2>3. ToldOf(t, queue[1].events)
    BY <1>1, <1>2, <1>8, <2>1, <2>2 DEF BurnsTold
  <2>4. PICK e \in queue[1].events : e.token = t
    BY <2>3 DEF ToldOf
  <2>5. e \in DOMAIN task' /\ task'[e].pc = "data"
    BY <1>2 DEF Begun
  <2>. QED BY <2>4, <2>5 DEF Clears
<1>9. \A t, p \in Tokens : RowClean(t, p)'
  BY <1>2, <1>8 DEF RowClean, Clears
<1>10. AbsentEmpty'
  BY <1>1, <1>2 DEF AbsentEmpty
<1>. QED BY <1>1, <1>6, <1>7, <1>9, <1>10 DEF BurnInv

LEMMA BurnStep ==
  ASSUME BurnInv, [Next]_vars
  PROVE  BurnInv'
<1>1. CASE \E e \in DOMAIN task : Handle(e) \/ Fails(e)
  BY <1>1, HandleNestingBurns, UpdateBurns, FailsBurns DEF Handle
<1>2. CASE UNCHANGED vars
  <2>1. TypeOK'
    BY <1>2, TypeStep DEF BurnInv
  <2>2. UNCHANGED <<head, queue, now, task, tokens, lost, rejected>>
    BY <1>2 DEF vars, onChain, tables, ghosts
  <2>3. BurnsTold' /\ AbsentEmpty'
    BY <2>2 DEF BurnInv, BurnsTold, Before, ToldOf, AbsentEmpty
  <2>4. /\ \A e \in DOMAIN task' : TaskDead(e, task[e])' /\ TaskClean(e, task[e])'
        /\ \A t, p \in Tokens : RowClean(t, p)'
    BY <2>2 DEF BurnInv, TaskDead, TaskClean, RowClean, Clears
  <2>. QED BY <2>1, <2>3, <2>4 DEF BurnInv
<1>. QED BY <1>1, <1>2, ProduceBurns, BatchBurns DEF Next

LEMMA BurnStart ==
  ASSUME Init, \A t \in Tokens : head[t] = "absent" => Below(head, t) = {}
  PROVE  BurnInv
<1>1. TypeOK
  BY InitType
<1>2. queue = <<>> /\ DOMAIN task = {} /\ now = head
  BY DEF Init
<1>3. BurnsTold
  BY <1>2 DEF BurnsTold, Before
<1>4. \A t \in Tokens : tokens[t] = RowOf(head, t)
  BY DEF Init
<1>5. AbsentEmpty
  <2>1. \A t \in Tokens : RowOf(head, t).status = "absent" => head[t] = "absent"
    BY DEF RowOf
  <2>2. \A t \in Tokens : RowOf(head, t).children = Below(head, t)
    BY DEF RowOf
  <2>. QED BY <1>4, <2>1, <2>2 DEF AbsentEmpty
<1>6. ASSUME NEW t \in Tokens, NEW p \in Tokens, now[t] = "burned"
      PROVE  t \notin tokens[p].children
  <2>1. ~InToken(head, t)
    BY <1>2, <1>6, PlacesApart DEF InToken
  <2>2. t \notin Below(head, p)
    BY <2>1, BelowIsIn
  <2>3. RowOf(head, p).children = Below(head, p)
    BY DEF RowOf
  <2>. QED BY <1>4, <2>2, <2>3
<1>7. \A t, p \in Tokens : RowClean(t, p)
  BY <1>6 DEF RowClean
<1>. QED BY <1>1, <1>2, <1>3, <1>5, <1>7 DEF BurnInv

\* When every block is handled a burned token is in the children of no row that
\* no two events wrote at the same time, at whatever level it was: the task
\* that burns it selects every row that lists it, and nothing puts it back but
\* a write of an old read.  The crawler starts with nothing in a token that is
\* not minted.
THEOREM BurnsCorrect ==
  ASSUME \A s \in Starts : \A t \in Tokens : s.place[t] = "absent" => Below(s.place, t) = {}
  PROVE  Spec => []BurnedLeavesParents
<1>1. Init => BurnInv
  BY BurnStart DEF Init
<1>2. BurnInv /\ [Next]_vars => BurnInv'
  BY BurnStep
<1>3. BurnInv => BurnedLeavesParents
  BY DEF BurnInv, RowClean, BurnedLeavesParents, CaughtUp, Quiet
<1>. QED BY <1>1, <1>2, <1>3, PTL DEF Spec
=============================================================================
