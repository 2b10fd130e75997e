------------------------------ MODULE Nesting ------------------------------
(***************************************************************************)
(* TokenNestingService and the part of TokenService that keeps parent_id   *)
(* and children of a token.  The events of a block are handled at the same *)
(* time, every query and every call to the chain an await.  What a token   *)
(* is, is read at the block that is handled; the bundle it belongs to is   *)
(* read at the head of the chain, which may be blocks ahead.               *)
(* Tokens are NFTs; nested, type and bundle_created, which the crawler     *)
(* writes and never reads, are left out.                                   *)
(***************************************************************************)
EXTENDS Integers, Sequences, FiniteSets

CONSTANTS
  Tokens,
  NoToken,      \* parent_id null
  Starts,       \* where tokens may be when the crawler starts, and a bound:
                \* the operations on the chain from there
  MaxFaults     \* bound: queries and calls that fail

\* On the chain a token is not minted yet, of an account, in a token or burned.
Places == {"absent", "account", "burned"} \cup Tokens

ASSUME NestingAssumption ==
  /\ IsFiniteSet(Tokens)
  /\ Tokens # {}
  /\ NoToken \notin Tokens
  /\ \A p \in {"absent", "account", "burned"} : p \notin Tokens
  /\ Starts \subseteq [place : [Tokens -> Places], operations : Nat]
  /\ MaxFaults \in Nat

VARIABLES
  head,         \* where each token is at the head of the chain
  queue,        \* blocks made and not handled yet
  now,          \* where each token was at the block that is handled
  left,         \* operations still to be made
  task,         \* where each event of the block is suspended
  tokens,       \* table tokens
  owners,       \* table tokens_owners, of a token that has a row
  counts,       \* children_count in tokens_stats
  faults,
  under,        \* ghost: pairs of a token and one it was in, at some block
  lost,         \* ghost: tokens whose children were written from an old read
  rejected      \* ghost: tokens one of whose events was rejected

onChain == <<head, queue, now, left, under>>
tables  == <<tokens, owners, counts, lost>>
ghosts  == <<faults, rejected>>
vars    == <<onChain, task, tables, ghosts>>

Kinds == {"created", "transfer", "property", "destroyed"}

\* batchProcess keeps one event of each name for a token.
Event == [token : Tokens, kind : Kinds]

Block == [place : [Tokens -> Places], events : SUBSET Event]

\* The columns of a row that nesting reads: parent_id and children.
Links == [parent : Tokens \cup {NoToken}, children : SUBSET Tokens]

NoLinks == [parent |-> NoToken, children |-> {}]

Row == [status : {"absent", "live", "burned"}, parent : Tokens \cup {NoToken},
        children : SUBSET Tokens]

OwnerRow == [exists : BOOLEAN, parent : Tokens \cup {NoToken}, children : SUBSET Tokens]

LinksOf(row) == [parent |-> row.parent, children |-> row.children]

\* pc names the await; held and owned are tokenFromDb and tokenOwnersFromDb,
\* tree the bundle, cur the token that is looked at on the way up, up its row,
\* todo the rows that removeTokenFromParents selected, gone childrenToBeDeleted.
Task == [pc : {"data", "row", "ownerRow", "bundle", "walk", "parent", "parentOwner",
               "unnest", "filter", "unnestOwner", "filterOwner", "select",
               "remove", "owners", "owner", "find", "insert", "update", "part",
               "burn"},
         place : Places, bundle : BOOLEAN, held : Links, owned : Links,
         tree : [Tokens -> SUBSET Tokens], cur : Tokens, up : Links,
         todo : SUBSET [token : Tokens, children : SUBSET Tokens],
         gone : SUBSET Tokens, children : SUBSET Tokens]

NoTree == [p \in Tokens |-> {}]

Begun == [pc |-> "data", place |-> "absent", bundle |-> FALSE, held |-> NoLinks,
          owned |-> NoLinks, tree |-> NoTree, cur |-> CHOOSE t \in Tokens : TRUE,
          up |-> NoLinks, todo |-> {}, gone |-> {}, children |-> {}]

Quiet == DOMAIN task = {}

-----------------------------------------------------------------------------
(***************************************************************************)
(* The chain: trees of tokens, and the bundles the SDK tells of them.      *)
(***************************************************************************)
InToken(f, t) == f[t] \in Tokens

ParentIn(f, t) == IF InToken(f, t) THEN f[t] ELSE NoToken

\* Every token on the way from t to the root of its bundle.
Parents(f) == {p \in Tokens : \E t \in Tokens : f[t] = p}

Above(f, t) ==
  {a \in Parents(f) :
     \A S \in SUBSET Parents(f) :
       /\ InToken(f, t) => f[t] \in S
       /\ \A s \in S : InToken(f, s) => f[s] \in S
       => a \in S}

Below(f, p) == {t \in Tokens : p \in Above(f, t)}

IsBundle(f, t) == InToken(f, t) \/ Below(f, t) # {}

Root(f, t) == IF InToken(f, t) THEN CHOOSE r \in Above(f, t) : ~InToken(f, r) ELSE t

\* Variant: the bundle below every token is that of its root.
ChildrenFromRoot(f, t) ==
  [p \in Tokens |-> IF Root(f, p) = Root(f, t) THEN Below(f, Root(f, t)) ELSE {}]

\* getTokenChildren of any token, in the bundle of t: every level below it, and
\* nothing for a token that is not in the bundle.
GetTokenChildren(f, t) ==
  [p \in Tokens |-> IF Root(f, p) = Root(f, t) THEN Below(f, p) ELSE {}]

Live(f, t) == f[t] \notin {"absent", "burned"}

\* What the chain lets happen to a token: it is not put into itself and is not
\* burned while another is in it.
Holders(f, t) ==
  {"account"} \cup {p \in Tokens \ {t, f[t]} : Live(f, p) /\ p \notin Below(f, t)}

Op(t, kind, to) == [token |-> t, kind |-> kind, to |-> to]

OperationsOn(f, t) ==
  IF f[t] = "burned" THEN {}
  ELSE IF f[t] = "absent" THEN {Op(t, "created", p) : p \in Holders(f, t)}
  ELSE {Op(t, "transfer", p) : p \in Holders(f, t)}
       \cup {Op(t, "property", f[t])}
       \cup (IF Below(f, t) = {} THEN {Op(t, "destroyed", "burned")} ELSE {})

Operations(f) == UNION {OperationsOn(f, t) : t \in Tokens}

After(f, o) == [f EXCEPT ![o.token] = o.to]

EventOf(o) == [token |-> o.token, kind |-> o.kind]

Grow(f, events, n) ==
  /\ head' = f
  /\ queue' = Append(queue, [place |-> f, events |-> events])
  /\ left' = left - n
  /\ under' = under \cup {x \in Tokens \X Tokens : x[2] \in Above(f, x[1])}
  /\ UNCHANGED <<now, task, tables, ghosts>>

\* A block of one operation or of two.
Produce ==
  /\ left > 0
  /\ \E o \in Operations(head) :
       \/ Grow(After(head, o), {EventOf(o)}, 1)
       \/ /\ left > 1
          /\ \E p \in Operations(After(head, o)) :
               Grow(After(After(head, o), p), {EventOf(o), EventOf(p)}, 2)

\* batchProcess of the next block, when the one before has been handled.
BatchProcess ==
  /\ queue # <<>>
  /\ Quiet
  /\ now' = Head(queue).place
  /\ queue' = Tail(queue)
  /\ task' = [e \in Head(queue).events |-> Begun]
  /\ UNCHANGED <<head, left, under, tables, ghosts>>

-----------------------------------------------------------------------------
(***************************************************************************)
(* Statements on the table tokens and the trigger nested_token_stats.      *)
(***************************************************************************)
\* Variant: only a token that gets more children is counted.
NestedStatsGrow(count, old, new) ==
  IF Cardinality(new) > Cardinality(old) THEN Cardinality(new) ELSE count

\* update_nested_tokens_stats
NestedStats(count, old, new) ==
  IF Cardinality(new) # Cardinality(old) THEN Cardinality(new) ELSE count

\* An update of children alone; seen is what they were when it was worked out.
UpdateChildren(t, seen, children) ==
  IF tokens[t].status = "absent" THEN UNCHANGED <<tokens, counts, lost>>
  ELSE /\ tokens' = [tokens EXCEPT ![t].children = children]
       /\ counts' = [counts EXCEPT ![t] = NestedStats(@, tokens[t].children, children)]
       /\ lost' = IF seen = tokens[t].children THEN lost ELSE lost \cup {t}

UpdateOwnerChildren(t, children) ==
  owners' = IF owners[t].exists THEN [owners EXCEPT ![t].children = children] ELSE owners

Become(e, t) == task' = [task EXCEPT ![e] = t]

Move(e, pc) == Become(e, [task[e] EXCEPT !.pc = pc])

\* Only the task moves.
Silent == UNCHANGED <<onChain, tables, ghosts>>

-----------------------------------------------------------------------------
(***************************************************************************)
(* handleNesting.                                                          *)
(***************************************************************************)
\* getTokenData: at the block, or, when that fails, at the head.
GetTokenData(e) ==
  /\ task[e].pc = "data"
  /\ \E f \in {now, head} :
       /\ f # now => faults < MaxFaults
       /\ faults' = IF f = now THEN faults ELSE faults + 1
       /\ Become(e, [task[e] EXCEPT !.pc = IF Live(f, e.token) THEN "row" ELSE "part",
                                    !.place = f[e.token], !.bundle = IsBundle(f, e.token)])
  /\ UNCHANGED <<onChain, tables, rejected>>

\* Only a transfer works its children out; other events write what they read.
ReadRow(e) ==
  /\ task[e].pc = "row"
  /\ Become(e, IF e.kind = "transfer"
               THEN [task[e] EXCEPT !.pc = "ownerRow", !.held = LinksOf(tokens[e.token])]
               ELSE [task[e] EXCEPT !.pc = "owners", !.children = tokens[e.token].children])
  /\ Silent

\* A token of which no bundle was found has no children.
ReadOwnerRow(e) ==
  /\ task[e].pc = "ownerRow"
  /\ Become(e, [task[e] EXCEPT !.owned = LinksOf(owners[e.token]),
       !.pc = IF task[e].bundle THEN "bundle"
              ELSE IF task[e].held.parent # NoToken THEN "select" ELSE "owners"])
  /\ Silent

\* getTokenBundle; of a token that is in no bundle any more the SDK may throw.
GetTokenBundle(e) ==
  /\ task[e].pc = "bundle"
  /\ \/ LET tree == GetTokenChildren(head, e.token)
        IN  Become(e, [task[e] EXCEPT !.pc = "walk", !.cur = e.token, !.tree = tree,
                                      !.children = tree[e.token]])
     \/ /\ ~IsBundle(head, e.token)
        /\ Move(e, "owners")
  /\ Silent

\* A bundle that has been in a token and is not any more.
Leaves(links, place) ==
  /\ links.parent # NoToken
  /\ links.children # {}
  /\ place \notin Tokens

\* What follows updateTokenParents, and what follows unnestBundle.
ThenOwners(e) ==
  IF Leaves(task[e].owned, task[e].place)
  THEN [task[e] EXCEPT !.pc = "unnestOwner", !.cur = task[e].owned.parent,
                       !.gone = task[e].owned.children \cup {e.token}]
  ELSE [task[e] EXCEPT !.pc = "owners"]

ThenUnnest(e) ==
  IF Leaves(task[e].held, task[e].place)
  THEN [task[e] EXCEPT !.pc = "unnest", !.cur = task[e].held.parent,
                       !.gone = task[e].held.children \cup {e.token}]
  ELSE ThenOwners(e)

\* updateTokenParents asks for the parent of a token once for every level; an
\* error ends the walk and is told to Sentry only.
UpdateTokenParents(e) ==
  /\ task[e].pc = "walk"
  /\ LET cur == task[e].cur
     IN  \/ /\ InToken(head, cur)
            /\ Become(e, [task[e] EXCEPT !.cur = head[cur],
                 !.pc = IF task[e].tree[head[cur]] = {} THEN "walk" ELSE "parent"])
            /\ UNCHANGED faults
         \/ /\ ~InToken(head, cur)
            /\ Become(e, ThenUnnest(e))
            /\ UNCHANGED faults
         \/ /\ faults < MaxFaults
            /\ faults' = faults + 1
            /\ Become(e, ThenUnnest(e))
  /\ UNCHANGED <<onChain, tables, rejected>>

\* updateParent: its two updates.
UpdateParent(e) ==
  /\ task[e].pc = "parent"
  /\ LET p == task[e].cur
     IN  UpdateChildren(p, tokens[p].children, task[e].tree[p])
  /\ Move(e, "parentOwner")
  /\ UNCHANGED <<onChain, owners, ghosts>>

UpdateParentOwner(e) ==
  /\ task[e].pc = "parentOwner"
  /\ LET p == task[e].cur
     IN  UpdateOwnerChildren(p, task[e].tree[p])
  /\ Move(e, "walk")
  /\ UNCHANGED <<onChain, tokens, counts, lost, ghosts>>

\* unnestBundle goes up by the parent_id of the rows: it reads one ..
FindParent(e) ==
  /\ task[e].pc = "unnest"
  /\ LET row == tokens[task[e].cur]
     IN  Become(e, IF row.status = "absent" THEN ThenOwners(e)
                   ELSE [task[e] EXCEPT !.pc = "filter", !.up = LinksOf(row)])
  /\ Silent

\* .. and goes on while there is a parent and were children.
GoesUp(links) == links.parent # NoToken /\ links.children # {}

\* Variant: the parent does not become the token of the next round.
FilterStays(e) ==
  /\ task[e].pc = "filter"
  /\ LET up == task[e].up
     IN  /\ UpdateChildren(task[e].cur, up.children, up.children \ task[e].gone)
         /\ Become(e, IF GoesUp(up) THEN [task[e] EXCEPT !.pc = "unnest"] ELSE ThenOwners(e))
  /\ UNCHANGED <<onChain, owners, ghosts>>

FilterParent(e) ==
  /\ task[e].pc = "filter"
  /\ LET up == task[e].up
     IN  /\ UpdateChildren(task[e].cur, up.children, up.children \ task[e].gone)
         /\ Become(e, IF GoesUp(up) THEN [task[e] EXCEPT !.pc = "unnest", !.cur = up.parent]
                      ELSE ThenOwners(e))
  /\ UNCHANGED <<onChain, owners, ghosts>>

\* unnestBundleOwners, the same in tokens_owners.
FindParentOwner(e) ==
  /\ task[e].pc = "unnestOwner"
  /\ LET row == owners[task[e].cur]
     IN  Become(e, IF ~row.exists THEN [task[e] EXCEPT !.pc = "owners"]
                   ELSE [task[e] EXCEPT !.pc = "filterOwner", !.up = LinksOf(row)])
  /\ Silent

FilterParentOwner(e) ==
  /\ task[e].pc = "filterOwner"
  /\ LET up == task[e].up
     IN  /\ UpdateOwnerChildren(task[e].cur, up.children \ task[e].gone)
         /\ Become(e, IF GoesUp(up) THEN [task[e] EXCEPT !.pc = "unnestOwner", !.cur = up.parent]
                      ELSE [task[e] EXCEPT !.pc = "owners"])
  /\ UNCHANGED <<onChain, tokens, counts, lost, ghosts>>

\* removeTokenFromParents, of a transfer and of a burn: it selects the rows ..
AfterRemoval(t) == IF t.place \in {"absent", "burned"} THEN "burn" ELSE "owners"

GetParentsByChildren(e) ==
  /\ task[e].pc = "select"
  /\ LET parents == {p \in Tokens : e.token \in tokens[p].children}
     IN  Become(e, [task[e] EXCEPT
           !.todo = {[token |-> p, children |-> tokens[p].children] : p \in parents},
           !.pc = IF parents = {} THEN AfterRemoval(task[e]) ELSE "remove"])
  /\ Silent

\* .. and writes back, one after the other, what it read without the token.
RemoveChildFromToken(e) ==
  /\ task[e].pc = "remove"
  /\ \E x \in task[e].todo :
       /\ UpdateChildren(x.token, x.children, x.children \ {e.token})
       /\ Become(e, [task[e] EXCEPT !.todo = @ \ {x},
            !.pc = IF task[e].todo = {x} THEN AfterRemoval(task[e]) ELSE "remove"])
  /\ UNCHANGED <<onChain, owners, ghosts>>

\* handleNesting catches every error and returns the children so far.
NestingFails(e) ==
  /\ faults < MaxFaults
  /\ faults' = faults + 1
  /\ \/ task[e].pc \in {"bundle", "unnest", "filter", "unnestOwner", "filterOwner"}
     \/ task[e].pc \in {"select", "remove"} /\ AfterRemoval(task[e]) = "owners"
  /\ Move(e, "owners")
  /\ UNCHANGED <<onChain, tables, rejected>>

\* An error of updateParent ends the walk.
ParentFails(e) ==
  /\ faults < MaxFaults
  /\ faults' = faults + 1
  /\ task[e].pc \in {"parent", "parentOwner"}
  /\ Become(e, ThenUnnest(e))
  /\ UNCHANGED <<onChain, tables, rejected>>

-----------------------------------------------------------------------------
(***************************************************************************)
(* TokenService.update.                                                    *)
(***************************************************************************)
NoOwnerRow == [exists |-> FALSE, parent |-> NoToken, children |-> {}]

\* saveNFTOwnerToken, in two statements; an event without data skips it.
DeleteOwner(e) ==
  /\ task[e].pc = "owners"
  /\ \/ /\ owners' = [owners EXCEPT ![e.token] = NoOwnerRow]
        /\ Move(e, "owner")
     \/ /\ e.kind = "property"
        /\ Move(e, "find")
        /\ UNCHANGED owners
  /\ UNCHANGED <<onChain, tokens, counts, lost, ghosts>>

\* Variant: the parent is that of the row that was read.
ParentFromRow(t) == IF t.place \in Tokens THEN t.place ELSE t.held.parent

ParentId(t) == IF t.place \in Tokens THEN t.place ELSE NoToken

SaveOwner(e) ==
  /\ task[e].pc = "owner"
  /\ owners' = [owners EXCEPT ![e.token] =
       [exists |-> TRUE, parent |-> ParentId(task[e]), children |-> task[e].children]]
  /\ Move(e, "find")
  /\ UNCHANGED <<onChain, tokens, counts, lost, ghosts>>

FindToken(e) ==
  /\ task[e].pc = "find"
  /\ Move(e, IF tokens[e.token].status = "absent" THEN "insert" ELSE "update")
  /\ Silent

Finish(e) == task' = [x \in DOMAIN task \ {e} |-> task[x]]

Prepared(e) == [status |-> "live", parent |-> ParentId(task[e]), children |-> task[e].children]

\* The trigger counts nothing on an insert.
InsertToken(e) ==
  /\ task[e].pc = "insert"
  /\ tokens[e.token].status = "absent"
  /\ tokens' = [tokens EXCEPT ![e.token] = Prepared(e)]
  /\ Finish(e)
  /\ UNCHANGED <<onChain, owners, counts, lost, ghosts>>

InsertRefused(e) ==
  /\ task[e].pc = "insert"
  /\ tokens[e.token].status # "absent"
  /\ Finish(e)
  /\ rejected' = rejected \cup {e.token}
  /\ UNCHANGED <<onChain, tables, faults>>

\* Only a transfer works its children out anew, others write what they read.
UpdateToken(e) ==
  /\ task[e].pc = "update"
  /\ LET t == e.token
         new == task[e].children
     IN  /\ tokens' = [tokens EXCEPT ![t] = Prepared(e)]
         /\ counts' = [counts EXCEPT ![t] = NestedStats(@, tokens[t].children, new)]
         /\ lost' = IF e.kind = "transfer" \/ new = tokens[t].children THEN lost
                    ELSE lost \cup {t}
  /\ Finish(e)
  /\ UNCHANGED <<onChain, owners, ghosts>>

\* Variant: parents are not looked for.
DropOwnerOnly(e) ==
  /\ task[e].pc = "part"
  /\ owners' = [owners EXCEPT ![e.token] = NoOwnerRow]
  /\ Move(e, "burn")
  /\ UNCHANGED <<onChain, tokens, counts, lost, ghosts>>

\* burnTokenOwnerPart finds the row by the address in the event, or throws when
\* the data has none.
DropOwner(e) ==
  /\ task[e].pc = "part"
  /\ \/ /\ owners' = [owners EXCEPT ![e.token] = NoOwnerRow]
        /\ Move(e, "select")
        /\ UNCHANGED rejected
     \/ /\ Move(e, "select")
        /\ UNCHANGED <<owners, rejected>>
     \/ /\ e.kind = "property"
        /\ Finish(e)
        /\ rejected' = rejected \cup {e.token}
        /\ UNCHANGED owners
  /\ UNCHANGED <<onChain, tokens, counts, lost, faults>>

\* burn, when removeTokenFromParents is done.
BurnToken(e) ==
  /\ task[e].pc = "burn"
  /\ tokens' = IF tokens[e.token].status = "absent" THEN tokens
               ELSE [tokens EXCEPT ![e.token].status = "burned"]
  /\ Finish(e)
  /\ UNCHANGED <<onChain, owners, counts, lost, ghosts>>

\* Anything else that fails rejects the event.
EventFails(e) ==
  /\ faults < MaxFaults
  /\ faults' = faults + 1
  /\ \/ task[e].pc \in {"data", "row", "ownerRow", "owners", "owner", "find", "insert", "update", "part", "burn"}
     \/ task[e].pc \in {"select", "remove"} /\ AfterRemoval(task[e]) = "burn"
  /\ Finish(e)
  /\ rejected' = rejected \cup {e.token}
  /\ UNCHANGED <<onChain, tables>>

-----------------------------------------------------------------------------
\* Rows as they are when the tokens were put where they are one by one.
RowOf(f, t) ==
  [status |-> CASE f[t] = "absent" -> "absent" [] f[t] = "burned" -> "burned" [] OTHER -> "live",
   parent |-> ParentIn(f, t), children |-> Below(f, t)]

OwnerRowOf(f, t) ==
  [exists |-> Live(f, t), parent |-> ParentIn(f, t), children |-> Below(f, t)]

Init ==
  /\ \E s \in Starts : head = s.place /\ left = s.operations
  /\ queue = <<>>
  /\ now = head
  /\ task = [e \in {} |-> Begun]
  /\ tokens = [t \in Tokens |-> RowOf(head, t)]
  /\ owners = [t \in Tokens |-> OwnerRowOf(head, t)]
  /\ counts = [t \in Tokens |-> Cardinality(Below(head, t))]
  /\ faults = 0
  /\ under = {x \in Tokens \X Tokens : x[2] \in Above(head, x[1])}
  /\ lost = {}
  /\ rejected = {}

HandleNesting(e) ==
  \/ ReadRow(e) \/ ReadOwnerRow(e) \/ GetTokenBundle(e)
  \/ UpdateTokenParents(e) \/ UpdateParent(e) \/ UpdateParentOwner(e)
  \/ FindParent(e) \/ FilterParent(e) \/ FindParentOwner(e) \/ FilterParentOwner(e)
  \/ GetParentsByChildren(e) \/ RemoveChildFromToken(e)

Update(e) ==
  \/ GetTokenData(e) \/ DeleteOwner(e) \/ SaveOwner(e) \/ FindToken(e)
  \/ InsertToken(e) \/ InsertRefused(e) \/ UpdateToken(e)
  \/ DropOwner(e) \/ BurnToken(e)

Handle(e) == HandleNesting(e) \/ Update(e)

Fails(e) == NestingFails(e) \/ ParentFails(e) \/ EventFails(e)

Next ==
  \/ Produce
  \/ BatchProcess
  \/ \E e \in DOMAIN task : Handle(e) \/ Fails(e)

Spec == Init /\ [][Next]_vars

\* Queries and calls are answered; the chain may stop.
FairSpec ==
  /\ Spec
  /\ WF_vars(BatchProcess \/ \E e \in DOMAIN task : Handle(e))

-----------------------------------------------------------------------------
\* The variables hold values of the kinds the code stores in them.
TypeOK ==
  /\ head \in [Tokens -> Places]
  /\ queue \in Seq(Block)
  /\ now \in [Tokens -> Places]
  /\ left \in Nat
  /\ DOMAIN task \subseteq Event
  /\ task \in [DOMAIN task -> Task]
  /\ tokens \in [Tokens -> Row]
  /\ owners \in [Tokens -> OwnerRow]
  /\ counts \in [Tokens -> Nat]
  /\ faults \in Nat
  /\ under \subseteq Tokens \X Tokens
  /\ lost \subseteq Tokens
  /\ rejected \subseteq Tokens

\* A row lists tokens only that have been in it, at some level, at some block:
\* whatever is lost or comes late, no other token gets into children.
ChildrenWereNested ==
  \A p \in Tokens : \A t \in tokens[p].children \cup owners[p].children : <<t, p>> \in under

CaughtUp == Quiet /\ queue = <<>>

\* When the crawler has caught up, parent_id is where the token is, although
\* rows are also written from the head by events of older blocks.
ParentsFollowChain ==
  CaughtUp => \A t \in Tokens \ rejected :
    Live(now, t) => tokens[t].status = "live" /\ tokens[t].parent = ParentIn(now, t)

\* children_count is the length of children or 0, which is what it stays at for a
\* row inserted with children: no other length is ever left behind.
StatsCountChildren ==
  \A t \in Tokens : counts[t] \in {0, Cardinality(tokens[t].children)}

\* A token that is burned is in no children, but where an update was lost: two
\* events of the block read children and each wrote its own back.
BurnedLeavesParents ==
  CaughtUp => \A t \in Tokens \ rejected : \A p \in Tokens \ lost :
    now[t] = "burned" => t \notin tokens[p].children

\* unnestBundle is at a token that is above itself by the parent_id of the rows.
Circling(e) ==
  \/ /\ task[e].pc \in {"unnest", "filter"}
     /\ task[e].cur \in Above([t \in Tokens |-> tokens[t].parent], task[e].cur)
  \/ /\ task[e].pc \in {"unnestOwner", "filterOwner"}
     /\ task[e].cur \in Above([t \in Tokens |-> owners[t].parent], task[e].cur)

\* A batch comes to an end, or an event of it goes up rows that belong to
\* different blocks and lead in a circle: nothing else holds a batch up.
BatchEnds == ~Quiet ~> (Quiet \/ \E e \in DOMAIN task : Circling(e))
=============================================================================
