---------------------------- MODULE AccountsProofs ----------------------------
(***************************************************************************)
(* What holds of Accounts for any accounts, events, balances, blocks and   *)
(* modes.                                                                  *)
(***************************************************************************)
EXTENDS Accounts, FiniteSetTheorems, TLAPS

(***************************************************************************)
(* The table of descriptors fits the chain.                                *)
(***************************************************************************)
LEMMA EventShape ==
  ASSUME NEW e \in Events
  PROVE  e.name \in EventNames /\ e.accounts \in [PositionsOf(e.name) -> Holders]
<1>1. PICK b \in 1..MaxBlocks : e \in EventsOf(b)
  BY DEF Events
<1>2. PICK n \in Names[b] : e \in [name : {n}, accounts : [PositionsOf(n) -> Holders]]
  BY <1>1 DEF EventsOf
<1>3. Names[b] \subseteq EventNames
  BY <1>1, AccountsAssumption
<1>. QED BY <1>2, <1>3

LEMMA OwnerIsAccount ==
  ASSUME NEW e \in Events
  PROVE  AccountOf(e) \subseteq Holders
<1>. DEFINE n == e.name
<1>0. e.accounts \in [PositionsOf(n) -> Holders]
  BY EventShape
<1>. HIDE DEF n
<1>1. SUFFICES ASSUME Described(e), DescriptorOf(e).parser \in {"common", "balances", "transfer"}
               PROVE  DescriptorOf(e).owner \in PositionsOf(n)
  BY <1>0 DEF AccountOf
<1>2. CASE n \in CommonEvents
  <2>1. DescriptorOf(e) = CommonArgs(n)
    BY <1>1, <1>2 DEF n, DescriptorOf, EVENT_ARGS_PARSER, Described
  <2>. QED BY <2>1, <1>1, <1>2, SMTT(30) DEF CommonArgs, CommonEvents, PositionsOf, Arguments, Descriptor
<1>3. CASE n \in BalancesEvents
  <2>1. DescriptorOf(e) = BalancesArgs(n)
    BY <1>1, <1>3, SMTT(30) DEF n, DescriptorOf, EVENT_ARGS_PARSER, Described, BalancesEvents, CommonEvents
  <2>. QED BY <2>1, <1>1, <1>3, SMTT(30) DEF BalancesArgs, BalancesEvents, PositionsOf, Arguments, Descriptor
<1>4. CASE n \in CollectionEvents
  <2>1. DescriptorOf(e) = CollectionArgs(n)
    BY <1>1, <1>4, SMTT(30)
    DEF n, DescriptorOf, EVENT_ARGS_PARSER, Described, BalancesEvents, CommonEvents, CollectionEvents
  <2>. QED BY <2>1, <1>1, <1>4, SMTT(30) DEF CollectionArgs, CollectionEvents, Descriptor
<1>. QED BY <1>1, <1>2, <1>3, <1>4 DEF n, Described, EVENT_ARGS_PARSER

LEMMA RecipientIsAccount ==
  ASSUME NEW e \in Events
  PROVE  ToOwner(e) \subseteq Holders
<1>1. CASE e.name = "Common.Transfer"
  <2>1. Described(e) /\ DescriptorOf(e).keys = <<"collectionId", "tokenId", "from", "to", "amount">>
    BY <1>1, SMTT(30) DEF Described, DescriptorOf, EVENT_ARGS_PARSER, CommonEvents, CommonArgs, Descriptor
  <2>. DEFINE keys == DescriptorOf(e).keys
  <2>2. (CHOOSE i \in DOMAIN keys : keys[i] = "to") = 4
    BY <2>1
  <2>3. Values(e).to = Argument(e, 3)
    BY <2>1, <2>2 DEF Values
  <2>4. 3 \in PositionsOf(e.name)
    BY <1>1, SMTT(30) DEF PositionsOf, Arguments
  <2>. QED BY <1>1, <2>3, <2>4, EventShape DEF ToOwner, Argument
<1>2. CASE e.name = "Balances.Transfer"
  <2>1. Described(e) /\ DescriptorOf(e).keys = <<"from", "to", "amount">>
    BY <1>2, SMTT(30)
    DEF Described, DescriptorOf, EVENT_ARGS_PARSER, CommonEvents, BalancesEvents, BalancesArgs, Descriptor
  <2>. DEFINE keys == DescriptorOf(e).keys
  <2>2. (CHOOSE i \in DOMAIN keys : keys[i] = "to") = 2
    BY <2>1
  <2>3. Values(e).to = Argument(e, 1)
    BY <2>1, <2>2 DEF Values
  <2>4. 1 \in PositionsOf(e.name)
    BY <1>2, SMTT(30) DEF PositionsOf, Arguments
  <2>. QED BY <1>2, <2>3, <2>4, EventShape DEF ToOwner, Argument
<1>. QED BY <1>1, <1>2 DEF ToOwner

(***************************************************************************)
(* Types.                                                                  *)
(***************************************************************************)
LEMMA NotReadType == NotRead \in Reading
BY AccountsAssumption DEF NotRead, Reading

LEMMA AddedType ==
  ASSUME NEW count \in Int, NEW old \in Nat, NEW new \in Nat
  PROVE  Added(count, old, new) \in Int
BY DEF Added, Rounded

LEMMA JobType ==
  ASSUME NEW a \in Holders, NEW b \in Nat, NEW p \in Passes, NEW pc \in {"call", "keep", "upsert"},
         NEW r \in Reading
  PROVE  [account |-> a, block |-> b, pass |-> p, pc |-> pc, got |-> r] \in Job
BY DEF Job

LEMMA MovedType ==
  ASSUME NEW j \in Job, NEW pc \in {"call", "keep", "upsert"}, NEW r \in Reading
  PROVE  [j EXCEPT !.pc = pc, !.got = r] \in Job /\ [j EXCEPT !.pc = pc] \in Job
BY DEF Job

LEMMA StartType ==
  ASSUME TypeOK, NEW e \in Events, NEW p \in Passes, Start(e, crawled + 1, p)
  PROVE  /\ jobs' \subseteq Job
         /\ named' \in [Holders -> Nat]
         /\ excused' \subseteq Holders
<1>1. AccountOf(e) \subseteq Holders
  BY OwnerIsAccount
<1>2. crawled + 1 \in Nat
  BY DEF TypeOK
<1>3. [account : AccountOf(e), block : {crawled + 1}, pass : {p}, pc : {"call"}, got : {NotRead}] \subseteq Job
  BY <1>1, <1>2, NotReadType DEF Job
<1>. QED BY <1>1, <1>2, <1>3 DEF Start, TypeOK

LEMMA FinishType ==
  ASSUME TypeOK, queue # <<>>, Finish
  PROVE  queue' \in Seq(Events) /\ crawled' \in Nat /\ stage' = "events" /\ Height' = Height
BY DEF TypeOK, Finish, Height

LEMMA TypeInductive ==
  ASSUME TypeOK, [Next]_vars
  PROVE  TypeOK'
<1>. USE DEF TypeOK
<1>1. ASSUME NEW e \in Events, Produce(e)
      PROVE  TypeOK'
  <2>1. PICK changed \in [Moving(e) -> Balances] :
          balance' = [a \in Holders |-> IF a \in Moving(e) THEN changed[a] ELSE balance[a]]
    BY <1>1 DEF Produce
  <2>2. balance' \in [Holders -> Balances]
    BY <2>1
  <2>3. queue' \in Seq(Events) /\ queue' # <<>>
    BY <1>1 DEF Produce
  <2>. QED BY <1>1, <2>2, <2>3 DEF Produce, crawler, table
<1>2. CASE ConvertEvents
  <2>1. queue # <<>> /\ queue[1] \in Events
    BY <1>2 DEF ConvertEvents
  <2>2. jobs' \subseteq Job /\ named' \in [Holders -> Nat] /\ excused' \subseteq Holders
    BY <1>2, <2>1, StartType DEF ConvertEvents, Passes
  <2>3. queue' \in Seq(Events) /\ crawled' \in Nat /\ stage' \in {"events", "extrinsics"}
        /\ (stage' = "extrinsics" => queue' # <<>>)
    BY <1>2, <2>1, FinishType DEF ConvertEvents
  <2>. QED BY <1>2, <2>2, <2>3 DEF ConvertEvents, table
<1>3. CASE ConvertExtrinsics
  <2>1. queue # <<>> /\ queue[1] \in Events
    BY <1>3 DEF ConvertExtrinsics
  <2>2. jobs' \subseteq Job /\ named' \in [Holders -> Nat] /\ excused' \subseteq Holders
    BY <1>3, <2>1, StartType DEF ConvertExtrinsics, Passes
  <2>3. queue' \in Seq(Events) /\ crawled' \in Nat /\ stage' = "events"
    BY <1>3, <2>1, FinishType DEF ConvertExtrinsics
  <2>4. recipients' \subseteq Holders
    BY <1>3, <2>1, RecipientIsAccount DEF ConvertExtrinsics
  <2>. QED BY <1>3, <2>2, <2>3, <2>4 DEF ConvertExtrinsics, table
<1>4. ASSUME NEW j \in jobs, GetBalances(j)
      PROVE  TypeOK'
  <2>1. j \in Job /\ j.account \in Holders
    BY DEF Job
  <2>2. [balance |-> balance[j.account], at |-> Height] \in Reading /\ cache[j.account] \in Reading
    BY <2>1 DEF Reading, Height
  <2>3. jobs' \subseteq Job
    <3>1. CASE CacheServes(j.account)
      <4>1. [j EXCEPT !.pc = "upsert", !.got = cache[j.account]] \in Job
        BY <2>1, <2>2, MovedType
      <4>. QED BY <1>4, <3>1, <4>1 DEF GetBalances, Moved
    <3>2. CASE ~CacheServes(j.account)
      <4>. DEFINE got == [balance |-> balance[j.account], at |-> Height]
      <4>1. [j EXCEPT !.pc = "keep", !.got = got] \in Job
        BY <2>1, <2>2, MovedType
      <4>. QED BY <1>4, <3>2, <4>1 DEF GetBalances, Moved
    <3>. QED BY <3>1, <3>2
  <2>4. excused' \subseteq Holders
    BY <1>4, <2>1 DEF GetBalances
  <2>. QED BY <1>4, <2>3, <2>4 DEF GetBalances, chain, crawler, table
<1>5. ASSUME NEW j \in jobs, KeepInCache(j)
      PROVE  TypeOK'
  <2>1. j \in Job /\ j.got \in Reading
    BY DEF Job
  <2>2. jobs' \subseteq Job
    <3>1. [j EXCEPT !.pc = "upsert"] \in Job
      BY <2>1, MovedType
    <3>. QED BY <1>5, <3>1 DEF KeepInCache, Moved
  <2>. QED BY <1>5, <2>1, <2>2 DEF KeepInCache, chain, crawler, table
<1>6. ASSUME NEW j \in jobs, Upsert(j)
      PROVE  TypeOK'
  <2>1. j \in Job /\ j.account \in Holders /\ j.got \in Reading
    BY DEF Job
  <2>2. row' \in [Holders -> Reading] /\ row'[j.account] = j.got
    BY <1>6, <2>1 DEF Upsert, OnConflictUpdate
  <2>. DEFINE old == row[j.account].balance
              new == j.got.balance
  <2>3. /\ old.available \in Nat /\ old.locked \in Nat
        /\ new.available \in Nat /\ new.locked \in Nat
    <3>1. old \in Balances /\ new \in Balances
      BY <2>1 DEF Reading
    <3>. HIDE DEF old, new
    <3>. QED BY <3>1, AccountsAssumption
  <2>4. UpdateAccountSupply(old, new)
    BY <1>6, <2>2 DEF Upsert
  <2>. HIDE DEF old, new
  <2>5. total' \in [circulating : Int, locked : Int, holders : Int]
    <3>0. total.holders \in Int /\ total.circulating \in Int /\ total.locked \in Int
      OBVIOUS
    <3>1. HoldersAfter(total.holders, old, new) \in Int
      BY <3>0, Z3 DEF HoldersAfter
    <3>2. Added(total.circulating, old.available, new.available) \in Int
      BY <2>3, <3>0, AddedType
    <3>3. Added(total.locked, old.locked, new.locked) \in Int
      BY <2>3, <3>0, AddedType
    <3>. QED BY <2>4, <3>1, <3>2, <3>3 DEF UpdateAccountSupply
  <2>6. fractions' \in Nat
    BY <2>4 DEF UpdateAccountSupply
  <2>. QED BY <1>6, <2>2, <2>5, <2>6 DEF Upsert, chain, crawler
<1>7. ASSUME NEW j \in jobs, Fail(j)
      PROVE  TypeOK'
  BY <1>7 DEF Fail, Job, chain, crawler, table
<1>8. CASE Restart
  <2>1. {j.account : j \in jobs} \subseteq Holders
    BY DEF Job
  <2>. QED BY <1>8, <2>1 DEF Restart, chain, table, Job
<1>9. ASSUME NEW a \in Holders, Expire(a)
      PROVE  TypeOK'
  BY <1>9, NotReadType DEF Expire, chain, crawler, table
<1>10. CASE UNCHANGED vars
  BY <1>10 DEF vars, chain, crawler, table
<1>. QED BY <1>1, <1>2, <1>3, <1>4, <1>5, <1>6, <1>7, <1>8, <1>9, <1>10 DEF Next

LEMMA TypeInitial == Init => TypeOK
BY NotReadType, AccountsAssumption DEF Init, TypeOK

(* Every variable keeps its type, whatever the chain sends: the table of   *)
(* descriptors takes accounts for accounts.                                *)
THEOREM TypeCorrect == Spec => []TypeOK
BY TypeInitial, TypeInductive, PTL DEF Spec

(***************************************************************************)
(* The holders.  The trigger sees the balances of one row before and after *)
(* a write; it counts one more whenever the row comes to have a balance,   *)
(* and one less only if it comes to have none.                             *)
(***************************************************************************)
HoldersIn(r) == {a \in Holders : r[a].balance # Zero}

LEMMA HoldersAfterBound ==
  ASSUME NEW count \in Int, NEW old \in Balances, NEW new \in Balances
  PROVE  /\ HoldersAfter(count, old, new) \in Int
         /\ HoldersAfter(count, old, new) >= count - (IF old # Zero /\ new = Zero THEN 1 ELSE 0)
         /\ old = Zero /\ new # Zero => HoldersAfter(count, old, new) = count + 1
<1>1. /\ old.available \in Nat /\ old.locked \in Nat /\ new.available \in Nat /\ new.locked \in Nat
      /\ old = Zero <=> old.available = 0 /\ old.locked = 0
      /\ new = Zero <=> new.available = 0 /\ new.locked = 0
  BY AccountsAssumption DEF Zero
<1>. QED BY <1>1, Z3 DEF HoldersAfter

LEMMA UpsertCount ==
  ASSUME TypeOK, NEW j \in jobs, Upsert(j),
         total.holders >= Cardinality(HoldersIn(row))
  PROVE  total'.holders >= Cardinality(HoldersIn(row'))
<1>. DEFINE a == j.account
            old == row[a].balance
            new == row'[a].balance
            S == HoldersIn(row)
            T == HoldersIn(row')
<1>1. j \in Job /\ a \in Holders
  BY DEF TypeOK, Job
<1>2. /\ row \in [Holders -> Reading] /\ j.got \in Reading
      /\ row' = [row EXCEPT ![a] = j.got]
  BY <1>1 DEF TypeOK, Job, Upsert, OnConflictUpdate
<1>3. old \in Balances /\ new \in Balances
  BY <1>1, <1>2 DEF Reading
<1>4. total.holders \in Int /\ total'.holders = HoldersAfter(total.holders, old, new)
  BY DEF TypeOK, Upsert, UpdateAccountSupply
<1>5. IsFiniteSet(S) /\ Cardinality(S) \in Nat
  BY AccountsAssumption, FS_Subset, FS_CardinalityType DEF HoldersIn
<1>6. \A b \in Holders \ {a} : b \in S <=> b \in T
  BY <1>1, <1>2 DEF HoldersIn
<1>7. (a \in S <=> old # Zero) /\ (a \in T <=> new # Zero) /\ S \subseteq Holders /\ T \subseteq Holders
  BY <1>1 DEF HoldersIn
<1>. HIDE DEF S, T, old, new, a
<1>8. CASE new # Zero
  <2>1. T = S \cup {a}
    BY <1>1, <1>6, <1>7, <1>8
  <2>2. Cardinality(T) = IF a \in S THEN Cardinality(S) ELSE Cardinality(S) + 1
    BY <2>1, <1>5, FS_AddElement
  <2>. QED BY <2>2, <1>3, <1>4, <1>5, <1>7, <1>8, HoldersAfterBound DEF S, T
<1>9. CASE new = Zero
  <2>1. T = S \ {a}
    BY <1>1, <1>6, <1>7, <1>9
  <2>2. Cardinality(T) = IF a \in S THEN Cardinality(S) - 1 ELSE Cardinality(S)
    BY <2>1, <1>5, FS_RemoveElement
  <2>. QED BY <2>2, <1>3, <1>4, <1>5, <1>7, <1>9, HoldersAfterBound DEF S, T
<1>. QED BY <1>8, <1>9

LEMMA HoldersInductive ==
  ASSUME TypeOK, HoldersNeverLow, [Next]_vars
  PROVE  HoldersNeverLow'
<1>1. HoldersNeverLow <=> total.holders >= Cardinality(HoldersIn(row))
  BY DEF HoldersNeverLow, HoldersIn
<1>2. HoldersNeverLow' <=> total'.holders >= Cardinality(HoldersIn(row'))
  BY DEF HoldersNeverLow, HoldersIn
<1>3. ASSUME NEW j \in jobs, Upsert(j)
      PROVE  HoldersNeverLow'
  BY <1>1, <1>2, <1>3, UpsertCount
<1>4. CASE UNCHANGED <<row, total>>
  BY <1>4 DEF HoldersNeverLow
<1>. QED BY <1>3, <1>4 DEF Next, Produce, ConvertEvents, ConvertExtrinsics, GetBalances, KeepInCache, Fail,
                           Restart, Expire, vars, table

LEMMA HoldersInitial == Init => HoldersNeverLow
<1>. SUFFICES ASSUME Init PROVE HoldersNeverLow
  OBVIOUS
<1>1. {a \in Holders : row[a].balance # Zero} = {}
  BY DEF Init, NotRead
<1>2. Cardinality({a \in Holders : row[a].balance # Zero}) = 0
  BY <1>1, FS_EmptySet
<1>3. total.holders = 0
  BY DEF Init
<1>. QED BY <1>2, <1>3 DEF HoldersNeverLow

(* The total called holders is never below the number of accounts that     *)
(* have a balance, however the calls interleave, fail and are repeated.    *)
THEOREM HoldersLowerBound == Spec => []HoldersNeverLow
BY TypeInitial, TypeInductive, HoldersInitial, HoldersInductive, PTL DEF Spec

(***************************************************************************)
(* The age of a row.  The calls that run for an account nobody excuses are *)
(* all of the last block that named it, and what they have read is no      *)
(* older.                                                                  *)
(***************************************************************************)
JobsKnown == \A j \in jobs : /\ j.block <= crawled + 1
                             /\ j.block <= Height
                             /\ j.pc # "call" /\ ~rescan => j.got.at >= j.block

(* What holds of an account that is not excused.                           *)
Sound(a) == /\ \A j \in JobsOf(a) : j.block = named[a] /\ (j.pc # "call" => j.got.at >= named[a])
            /\ JobsOf(a) = {} => row[a].at >= named[a]

FreshInv == JobsKnown /\ \A a \in Holders \ excused : Sound(a)

LEMMA JobTyped ==
  ASSUME TypeOK, NEW j \in jobs
  PROVE  /\ j \in Job /\ j.account \in Holders /\ j.block \in Nat /\ j.got \in Reading
         /\ j.got.at \in Nat /\ j.pc \in {"call", "keep", "upsert"}
BY DEF TypeOK, Job, Reading

LEMMA HeightType == ASSUME TypeOK PROVE Height \in Nat
BY DEF TypeOK, Height

(* The conversion of a block: its calls start.                             *)
LEMMA StartFresh ==
  ASSUME TypeOK, FreshInv, NEW e \in Events, NEW p \in Passes, Start(e, crawled + 1, p),
         queue # <<>>, UNCHANGED <<rescan, row>>, crawled' >= crawled, crawled' \in Nat, Height' = Height
  PROVE  FreshInv'
<1>. DEFINE b == crawled + 1
            New == [account : AccountOf(e), block : {b}, pass : {p}, pc : {"call"}, got : {NotRead}]
<1>1. b \in Nat /\ b <= Height /\ Height \in Nat
  BY DEF TypeOK, Height
<1>2. jobs' = jobs \cup New
  BY DEF Start
<1>3. \A j \in New : j.account \in AccountOf(e) /\ j.block = b /\ j.pc = "call"
  OBVIOUS
<1>4. /\ named' = [a \in Holders |-> IF a \in AccountOf(e) THEN b ELSE named[a]]
      /\ excused' = (excused \ AccountOf(e)) \cup {a \in AccountOf(e) : Hindered(a, b)}
  BY DEF Start
<1>. HIDE DEF New, b
<1>5. JobsKnown'
  <2>1. ASSUME NEW j \in jobs'
        PROVE  j.block <= crawled' + 1 /\ j.block <= Height' /\ (j.pc # "call" /\ ~rescan' => j.got.at >= j.block)
    <3>1. CASE j \in jobs
      BY <3>1, JobTyped DEF FreshInv, JobsKnown, TypeOK
    <3>2. CASE j \in New
      BY <3>2, <1>1, <1>3 DEF b, TypeOK
    <3>. QED BY <2>1, <1>2, <3>1, <3>2
  <2>. QED BY <2>1 DEF JobsKnown
<1>6. ASSUME NEW a \in Holders \ excused'
      PROVE  Sound(a)'
  <2>1. CASE a \in AccountOf(e)
    <3>1. ~Hindered(a, b)
      BY <1>4, <1>6, <2>1
    <3>2. \A j \in JobsOf(a) : j.block >= b /\ ~rescan
      BY <3>1, <1>1, JobTyped DEF Hindered, JobsOf
    <3>3. named'[a] = b
      BY <1>4, <2>1
    <3>4. ASSUME NEW j \in jobs', j.account = a
          PROVE  j.block = b /\ (j.pc # "call" => j.got.at >= b)
      <4>1. CASE j \in jobs
        BY <4>1, <3>2, <3>4, <1>1, JobTyped DEF FreshInv, JobsKnown, JobsOf, b
      <4>2. CASE j \in New
        BY <4>2, <1>3
      <4>. QED BY <3>4, <1>2, <4>1, <4>2
    <3>5. [account |-> a, block |-> b, pass |-> p, pc |-> "call", got |-> NotRead] \in New
      BY <2>1 DEF New
    <3>6. JobsOf(a)' # {}
      BY <3>5, <1>2 DEF JobsOf
    <3>. QED BY <3>3, <3>4, <3>6 DEF Sound, JobsOf
  <2>2. CASE a \notin AccountOf(e)
    <3>1. a \notin excused
      BY <1>4, <1>6, <2>2
    <3>2. named'[a] = named[a]
      BY <1>4, <2>2
    <3>3. JobsOf(a)' = JobsOf(a)
      BY <1>2, <1>3, <2>2 DEF JobsOf
    <3>. QED BY <3>1, <3>2, <3>3, <1>6 DEF FreshInv, Sound
  <2>. QED BY <2>1, <2>2
<1>. QED BY <1>5, <1>6 DEF FreshInv

(* A call goes on.                                                         *)
LEMMA MovedFresh ==
  ASSUME TypeOK, FreshInv, NEW j \in jobs, NEW t, Moved(j, t),
         t.account = j.account, t.block = j.block,
         t.pc # "call" /\ ~rescan => t.got.at >= j.block,
         j.account \notin excused' => t.got.at >= j.block,
         excused \subseteq excused',
         UNCHANGED <<rescan, row, named, crawled, Height>>
  PROVE  FreshInv'
<1>1. jobs' = (jobs \ {j}) \cup {t}
  BY DEF Moved
<1>2. JobsKnown'
  BY <1>1 DEF JobsKnown, FreshInv
<1>3. ASSUME NEW a \in Holders \ excused'
      PROVE  Sound(a)'
  <2>1. Sound(a)
    BY <1>3 DEF FreshInv
  <2>2. CASE j.account = a
    <3>1. j.block = named[a]
      BY <2>1, <2>2 DEF Sound, JobsOf
    <3>2. \A i \in JobsOf(a)' : i \in JobsOf(a) \/ i = t
      BY <1>1 DEF JobsOf
    <3>3. t \in JobsOf(a)'
      BY <1>1, <2>2 DEF JobsOf
    <3>. QED BY <2>1, <2>2, <3>1, <3>2, <3>3, <1>3 DEF Sound
  <2>3. CASE j.account # a
    <3>1. JobsOf(a)' = JobsOf(a)
      BY <1>1, <2>3 DEF JobsOf
    <3>. QED BY <2>1, <3>1 DEF Sound
  <2>. QED BY <2>2, <2>3
<1>. QED BY <1>2, <1>3 DEF FreshInv

(* A call ends: it failed, or the row is written.                          *)
LEMMA EndedFresh ==
  ASSUME TypeOK, FreshInv, NEW j \in jobs, jobs' = jobs \ {j},
         excused \subseteq excused',
         UNCHANGED <<rescan, named, crawled, Height>>,
         \A a \in Holders : a # j.account => row'[a] = row[a],
         j.account \notin excused' => j.pc # "call" /\ row'[j.account] = j.got
  PROVE  FreshInv'
<1>1. JobsKnown'
  BY DEF JobsKnown, FreshInv
<1>2. ASSUME NEW a \in Holders \ excused'
      PROVE  Sound(a)'
  <2>1. Sound(a)
    BY <1>2 DEF FreshInv
  <2>2. CASE j.account = a
    <3>1. row'[a].at >= named[a]
      BY <2>1, <2>2, <1>2 DEF Sound, JobsOf
    <3>. QED BY <2>1, <3>1 DEF Sound, JobsOf
  <2>3. CASE j.account # a
    <3>1. JobsOf(a)' = JobsOf(a)
      BY <2>3 DEF JobsOf
    <3>. QED BY <2>1, <2>3, <3>1, <1>2 DEF Sound
  <2>. QED BY <2>2, <2>3
<1>. QED BY <1>1, <1>2 DEF FreshInv

LEMMA FreshInductive ==
  ASSUME TypeOK, FreshInv, [Next]_vars
  PROVE  FreshInv'
<1>1. ASSUME NEW e \in Events, Produce(e)
      PROVE  FreshInv'
  <2>1. Height' = Height + 1 /\ Height \in Nat
    <3>1. queue \in Seq(Events) /\ crawled \in Nat /\ crawled' = crawled /\ queue' = Append(queue, e)
      BY <1>1 DEF Produce, TypeOK, crawler
    <3>2. Len(queue') = Len(queue) + 1
      BY <3>1
    <3>. QED BY <3>1, <3>2 DEF Height
  <2>. QED BY <1>1, <2>1, JobTyped DEF Produce, crawler, table, FreshInv, JobsKnown, Sound, JobsOf
<1>2. CASE ConvertEvents
  <2>1. queue # <<>> /\ queue[1] \in Events /\ crawled \in Nat
    BY <1>2 DEF ConvertEvents, TypeOK
  <2>2. crawled' >= crawled /\ crawled' \in Nat /\ Height' = Height
    BY <1>2, <2>1, FinishType DEF ConvertEvents, Finish, Height
  <2>3. "events" \in Passes /\ Start(queue[1], crawled + 1, "events") /\ UNCHANGED <<rescan, row>>
    BY <1>2 DEF ConvertEvents, table, Passes
  <2>. QED BY <2>1, <2>2, <2>3, StartFresh
<1>3. CASE ConvertExtrinsics
  <2>1. queue # <<>> /\ queue[1] \in Events /\ crawled \in Nat
    BY <1>3 DEF ConvertExtrinsics, TypeOK
  <2>2. crawled' >= crawled /\ crawled' \in Nat /\ Height' = Height
    BY <1>3, <2>1, FinishType DEF ConvertExtrinsics, Finish
  <2>3. "extrinsics" \in Passes /\ Start(queue[1], crawled + 1, "extrinsics") /\ UNCHANGED <<rescan, row>>
    BY <1>3 DEF ConvertExtrinsics, table, Passes
  <2>. QED BY <2>1, <2>2, <2>3, StartFresh
<1>4. ASSUME NEW j \in jobs, GetBalances(j)
      PROVE  FreshInv'
  <2>1. UNCHANGED <<rescan, row, named, crawled, Height>>
    BY <1>4 DEF GetBalances, chain, crawler, table, Height
  <2>2. CASE CacheServes(j.account)
    <3>. DEFINE t == [j EXCEPT !.pc = "upsert", !.got = cache[j.account]]
    <3>1. rescan /\ Moved(j, t)
          /\ excused' = IF rescan /\ cache[j.account].at < j.block THEN excused \cup {j.account} ELSE excused
      BY <1>4, <2>2 DEF GetBalances, CacheServes
    <3>2. t.account = j.account /\ t.block = j.block /\ t.got = cache[j.account]
      BY JobTyped DEF Job
    <3>3. cache[j.account].at \in Nat
      BY JobTyped DEF TypeOK, Reading
    <3>. HIDE DEF t
    <3>. QED BY <2>1, <3>1, <3>2, <3>3, JobTyped, MovedFresh
  <2>3. CASE ~CacheServes(j.account)
    <3>. DEFINE t == [j EXCEPT !.pc = "keep", !.got = [balance |-> balance[j.account], at |-> Height]]
    <3>1. Moved(j, t) /\ excused' = excused
      BY <1>4, <2>3 DEF GetBalances
    <3>2. t.account = j.account /\ t.block = j.block /\ t.got.at = Height
      BY JobTyped DEF Job
    <3>3. Height >= j.block
      BY HeightType, JobTyped DEF FreshInv, JobsKnown
    <3>. HIDE DEF t
    <3>. QED BY <2>1, <3>1, <3>2, <3>3, MovedFresh
  <2>. QED BY <2>2, <2>3
<1>5. ASSUME NEW j \in jobs, KeepInCache(j)
      PROVE  FreshInv'
  <2>1. UNCHANGED <<rescan, row, named, crawled, Height, excused>>
    BY <1>5 DEF KeepInCache, chain, crawler, table, Height
  <2>. DEFINE t == [j EXCEPT !.pc = "upsert"]
  <2>2. Moved(j, t) /\ j.pc = "keep"
    BY <1>5 DEF KeepInCache
  <2>3. t.account = j.account /\ t.block = j.block /\ t.got = j.got
    BY JobTyped DEF Job
  <2>4. ~rescan => j.got.at >= j.block
    BY <2>2 DEF FreshInv, JobsKnown
  <2>5. j.account \notin excused => j.got.at >= j.block
    BY <2>2, JobTyped DEF FreshInv, Sound, JobsOf
  <2>. HIDE DEF t
  <2>. QED BY <2>1, <2>2, <2>3, <2>4, <2>5, MovedFresh
<1>6. ASSUME NEW j \in jobs, Upsert(j)
      PROVE  FreshInv'
  <2>1. /\ UNCHANGED <<rescan, named, crawled, Height, excused>>
        /\ jobs' = jobs \ {j} /\ j.pc = "upsert"
        /\ row' = [row EXCEPT ![j.account] = j.got]
    BY <1>6 DEF Upsert, OnConflictUpdate, chain, crawler, Height
  <2>2. \A a \in Holders : a # j.account => row'[a] = row[a]
    BY <2>1 DEF TypeOK
  <2>3. row'[j.account] = j.got
    BY <2>1, JobTyped DEF TypeOK
  <2>. QED BY <2>1, <2>2, <2>3, EndedFresh
<1>7. ASSUME NEW j \in jobs, Fail(j)
      PROVE  FreshInv'
  <2>1. /\ UNCHANGED <<rescan, named, crawled, Height, row>>
        /\ jobs' = jobs \ {j} /\ excused' = excused \cup {j.account}
    BY <1>7 DEF Fail, chain, crawler, table, Height
  <2>. QED BY <2>1, EndedFresh
<1>8. CASE Restart
  <2>1. /\ UNCHANGED <<named, crawled, row>>
        /\ jobs' = {} /\ excused' = excused \cup {j.account : j \in jobs}
    BY <1>8 DEF Restart, table
  <2>2. JobsKnown'
    BY <2>1 DEF JobsKnown
  <2>3. ASSUME NEW a \in Holders \ excused'
        PROVE  Sound(a)'
    BY <2>1, <2>3 DEF FreshInv, Sound, JobsOf
  <2>. QED BY <2>2, <2>3 DEF FreshInv
<1>9. ASSUME NEW a \in Holders, Expire(a)
      PROVE  FreshInv'
  BY <1>9 DEF Expire, chain, crawler, table, FreshInv, JobsKnown, Sound, JobsOf, Height
<1>10. CASE UNCHANGED vars
  BY <1>10 DEF vars, chain, crawler, table, FreshInv, JobsKnown, Sound, JobsOf, Height
<1>. QED BY <1>1, <1>2, <1>3, <1>4, <1>5, <1>6, <1>7, <1>8, <1>9, <1>10 DEF Next

LEMMA FreshInitial == Init => FreshInv
BY DEF Init, FreshInv, JobsKnown, Sound, JobsOf, NotRead

LEMMA FreshFollows == FreshInv => FreshUnlessExcused
BY DEF FreshInv, Sound, FreshUnlessExcused

(* Once the calls of an account have returned, its row is at least as new  *)
(* as the last block that named it, unless that block met a call of an     *)
(* earlier one, a call failed, or a rescan read the cache.                 *)
THEOREM RowsFresh == Spec => []FreshUnlessExcused
BY TypeInitial, TypeInductive, FreshInitial, FreshInductive, FreshFollows, PTL DEF Spec

(***************************************************************************)
(* The supply.  A write changes the halves of one account; the trigger     *)
(* adds the difference and rounds, which is half a token off if the        *)
(* difference is a fraction and exact otherwise.                           *)
(***************************************************************************)
HalvesAt(r, a, f) == {a} \X (1..r[a].balance[f])

LEMMA HalvesAtCount ==
  ASSUME NEW r, NEW a, NEW f, r[a].balance[f] \in Nat
  PROVE  IsFiniteSet(HalvesAt(r, a, f)) /\ Cardinality(HalvesAt(r, a, f)) = r[a].balance[f]
<1>. DEFINE n == r[a].balance[f]
<1>1. IsFiniteSet({a}) /\ Cardinality({a}) = 1
  BY FS_Singleton
<1>2. IsFiniteSet(1..n) /\ Cardinality(1..n) = n
  <2>1. IsFiniteSet(1..n) /\ Cardinality(1..n) = IF 1 > n THEN 0 ELSE n - 1 + 1
    BY FS_Interval
  <2>. QED BY <2>1
<1>. HIDE DEF n
<1>3. /\ IsFiniteSet({a} \X (1..n))
      /\ Cardinality({a} \X (1..n)) = Cardinality({a}) * Cardinality(1..n)
  BY <1>1, <1>2, FS_Product
<1>4. Cardinality({a} \X (1..n)) = 1 * n
  BY <1>1, <1>2, <1>3
<1>5. Cardinality({a} \X (1..n)) = n
  BY <1>4 DEF n
<1>. QED BY <1>3, <1>5 DEF HalvesAt, n

LEMMA HalvesFinite ==
  ASSUME NEW r, NEW f, \A a \in Holders : r[a].balance[f] \in Nat
  PROVE  IsFiniteSet(Halves(r, f)) /\ Cardinality(Halves(r, f)) \in Nat
<1>. DEFINE parts == {HalvesAt(r, a, f) : a \in Holders}
            part == [a \in Holders |-> HalvesAt(r, a, f)]
<1>1. part \in Surjection(Holders, parts)
  BY DEF Surjection
<1>2. IsFiniteSet(parts)
  BY <1>1, FS_Surjection, AccountsAssumption
<1>3. \A p \in parts : IsFiniteSet(p)
  BY HalvesAtCount
<1>4. IsFiniteSet(UNION parts)
  <2>. HIDE DEF parts
  <2>. QED BY <1>2, <1>3, FS_UNION
<1>5. Halves(r, f) = UNION parts
  BY DEF Halves, HalvesAt
<1>. QED BY <1>4, <1>5, FS_CardinalityType

(* One row is written: the sum loses its old balance and gets the new one. *)
LEMMA HalvesWritten ==
  ASSUME NEW r, NEW s, NEW f, NEW a \in Holders,
         \A b \in Holders : r[b].balance[f] \in Nat /\ s[b].balance[f] \in Nat,
         \A b \in Holders \ {a} : s[b] = r[b]
  PROVE  Cardinality(Halves(s, f))
           = Cardinality(Halves(r, f)) - r[a].balance[f] + s[a].balance[f]
<1>. DEFINE H == Halves(r, f)
            G == Halves(s, f)
            old == HalvesAt(r, a, f)
            new == HalvesAt(s, a, f)
            rest == H \ old
<1>1. IsFiniteSet(H) /\ Cardinality(H) \in Nat
  BY HalvesFinite
<1>2. /\ IsFiniteSet(old) /\ Cardinality(old) = r[a].balance[f]
      /\ IsFiniteSet(new) /\ Cardinality(new) = s[a].balance[f]
  BY HalvesAtCount
<1>3. H = UNION {HalvesAt(r, b, f) : b \in Holders} /\ G = UNION {HalvesAt(s, b, f) : b \in Holders}
  BY DEF Halves, HalvesAt
<1>4. \A b \in Holders \ {a} : HalvesAt(s, b, f) = HalvesAt(r, b, f)
  BY DEF HalvesAt
<1>5. \A b \in Holders \ {a} : /\ HalvesAt(r, b, f) \cap old = {}
                               /\ HalvesAt(r, b, f) \cap new = {}
  BY DEF HalvesAt
<1>. HIDE DEF H, G, old, new
<1>6. H \cap old = old /\ rest \cap new = {} /\ G = rest \cup new
  <2>1. old \subseteq H
    BY <1>3 DEF old
  <2>2. \A x : x \in rest <=> \E b \in Holders \ {a} : x \in HalvesAt(r, b, f)
    <3>1. \A x : x \in H <=> \E b \in Holders : x \in HalvesAt(r, b, f)
      BY <1>3
    <3>. QED BY <3>1, <1>5 DEF old
  <2>3. \A x : x \in G <=> \E b \in Holders : x \in HalvesAt(s, b, f)
    BY <1>3
  <2>4. \A x : x \in G <=> x \in rest \/ x \in new
    BY <2>2, <2>3, <1>4 DEF new
  <2>5. rest \cap new = {}
    BY <2>2, <1>5
  <2>. HIDE DEF rest
  <2>. QED BY <2>1, <2>4, <2>5
<1>7. IsFiniteSet(rest) /\ Cardinality(rest) = Cardinality(H) - Cardinality(old)
  <2>1. IsFiniteSet(H \ old) /\ Cardinality(H \ old) = Cardinality(H) - Cardinality(H \cap old)
    BY <1>1, FS_Difference
  <2>. QED BY <2>1, <1>6
<1>. HIDE DEF rest
<1>8. Cardinality(rest \cup new) = Cardinality(rest) + Cardinality(new) - Cardinality({})
  BY <1>2, <1>6, <1>7, FS_Union
<1>9. Cardinality({}) = 0
  BY FS_EmptySet
<1>. QED BY <1>1, <1>2, <1>6, <1>7, <1>8, <1>9 DEF H, G

LEMMA AddedDrift ==
  ASSUME NEW count \in Int, NEW old \in Nat, NEW new \in Nat
  PROVE  LET d == 2 * Added(count, old, new) - (2 * count + new - old)
         IN  IF (new - old) % 2 # 0 THEN d = 1 \/ d = -1 ELSE d = 0
<1>. DEFINE h == 2 * count + new - old
<1>1. h \in Int /\ h % 2 = (new - old) % 2
  OBVIOUS
<1>2. h = 2 * (h \div 2) + (h % 2) /\ h % 2 \in {0, 1} /\ h \div 2 \in Int
  BY <1>1
<1>. HIDE DEF h
<1>3. CASE h % 2 = 0
  <2>1. Rounded(h) = h \div 2
    BY <1>3 DEF Rounded
  <2>2. 2 * Rounded(h) - h = 0
    BY <2>1, <1>1, <1>2, <1>3
  <2>. QED BY <2>2, <1>1, <1>3 DEF Added, h
<1>4. CASE h % 2 = 1
  <2>1. Rounded(h) = h \div 2 \/ Rounded(h) = h \div 2 + 1
    BY <1>4 DEF Rounded
  <2>2. 2 * Rounded(h) - h = 1 \/ 2 * Rounded(h) - h = -1
    BY <2>1, <1>1, <1>2, <1>4
  <2>. QED BY <2>2, <1>1, <1>4 DEF Added, h
<1>. QED BY <1>2, <1>3, <1>4

LEMMA BalancesAreNat ==
  ASSUME NEW b \in Balances
  PROVE  b.available \in Nat /\ b.locked \in Nat /\ b["available"] \in Nat /\ b["locked"] \in Nat
BY AccountsAssumption

(* One total and one column of the table, at the write of a row.           *)
LEMMA ColumnDrift ==
  ASSUME TypeOK, NEW j \in jobs, Upsert(j), NEW f \in {"available", "locked"}, NEW count \in Int
  PROVE  LET old == row[j.account].balance[f]
             new == row'[j.account].balance[f]
         IN  Distance(Added(count, old, new), Halves(row', f))
               <= Distance(count, Halves(row, f)) + (IF (new - old) % 2 # 0 THEN 1 ELSE 0)
<1>1. PICK a \in Holders : a = j.account
  BY JobTyped
<1>2. /\ row \in [Holders -> Reading] /\ j.got \in Reading
      /\ row' = [row EXCEPT ![a] = j.got]
  BY <1>1, JobTyped DEF TypeOK, Upsert, OnConflictUpdate
<1>3. row' \in [Holders -> Reading] /\ \A b \in Holders \ {a} : row'[b] = row[b]
  BY <1>1, <1>2
<1>4. \A b \in Holders : row[b].balance[f] \in Nat /\ row'[b].balance[f] \in Nat
  <2>1. ASSUME NEW b \in Holders
        PROVE  row[b].balance \in Balances /\ row'[b].balance \in Balances
    BY <1>2, <1>3 DEF Reading
  <2>. QED BY <2>1, BalancesAreNat
<1>. DEFINE old == row[a].balance[f]
            new == row'[a].balance[f]
            H == Cardinality(Halves(row, f))
            G == Cardinality(Halves(row', f))
<1>5. H \in Nat /\ G \in Nat /\ G = H - old + new
  <2>1. H \in Nat
    BY <1>4, HalvesFinite
  <2>2. G \in Nat
    BY <1>4, HalvesFinite
  <2>3. G = H - old + new
    <3>1. PICK r, s : r = row /\ s = row'
      OBVIOUS
    <3>2. \A b \in Holders : r[b].balance[f] \in Nat /\ s[b].balance[f] \in Nat
      BY <1>4, <3>1
    <3>3. \A b \in Holders \ {a} : s[b] = r[b]
      BY <1>3, <3>1
    <3>4. Cardinality(Halves(s, f))
            = Cardinality(Halves(r, f)) - r[a].balance[f] + s[a].balance[f]
      BY <3>2, <3>3, HalvesWritten
    <3>. QED BY <3>1, <3>4
  <2>. QED BY <2>1, <2>2, <2>3
<1>6. old \in Nat /\ new \in Nat
  BY <1>4
<1>. DEFINE d == 2 * Added(count, old, new) - (2 * count + new - old)
<1>. HIDE DEF old, new, H, G
<1>7. IF (new - old) % 2 # 0 THEN d = 1 \/ d = -1 ELSE d = 0
  BY <1>6, AddedDrift
<1>8. Added(count, old, new) \in Int
  BY <1>6, AddedType
<1>9. 2 * Added(count, old, new) - G = (2 * count - H) + d
  BY <1>5, <1>6, <1>8
<1>10. d \in Int
  BY <1>6, <1>8
<1>. HIDE DEF d
<1>11. LET x == 2 * Added(count, old, new) - G
           y == 2 * count - H
       IN  (IF x < 0 THEN -x ELSE x) <= (IF y < 0 THEN -y ELSE y) + (IF (new - old) % 2 # 0 THEN 1 ELSE 0)
  BY <1>5, <1>7, <1>9, <1>10
<1>. QED BY <1>1, <1>11 DEF Distance, old, new, G, H

LEMMA UpsertDrift ==
  ASSUME TypeOK, SupplyDrift, NEW j \in jobs, Upsert(j)
  PROVE  SupplyDrift'
<1>. DEFINE old == row[j.account].balance
            new == row'[j.account].balance
            odd(f) == IF (new[f] - old[f]) % 2 # 0 THEN 1 ELSE 0
            far(f, count, r) == Distance(count, Halves(r, f))
<1>1. /\ total'.circulating = Added(total.circulating, old["available"], new["available"])
      /\ total'.locked = Added(total.locked, old["locked"], new["locked"])
      /\ fractions' = fractions + odd("available") + odd("locked")
  BY DEF Upsert, UpdateAccountSupply
<1>2. total.circulating \in Int /\ total.locked \in Int /\ fractions \in Nat
  BY DEF TypeOK
<1>3. /\ far("available", total'.circulating, row')
           <= far("available", total.circulating, row) + odd("available")
      /\ far("locked", total'.locked, row') <= far("locked", total.locked, row) + odd("locked")
  BY <1>1, <1>2, ColumnDrift
<1>4. TypeOK'
  BY TypeInductive DEF Next
<1>5. \A b \in Holders : /\ row[b].balance \in Balances
                         /\ row'[b].balance \in Balances
  BY <1>4 DEF TypeOK, Reading
<1>6. /\ far("available", total.circulating, row) \in Int
      /\ far("available", total'.circulating, row') \in Int
      /\ far("locked", total.locked, row) \in Int
      /\ far("locked", total'.locked, row') \in Int
  <2>1. /\ \A f \in {"available", "locked"} :
             Cardinality(Halves(row, f)) \in Nat /\ Cardinality(Halves(row', f)) \in Nat
    BY <1>5, BalancesAreNat, HalvesFinite
  <2>2. total'.circulating \in Int /\ total'.locked \in Int
    BY <1>4 DEF TypeOK
  <2>. QED BY <1>2, <2>1, <2>2 DEF Distance
<1>7. far("available", total.circulating, row) + far("locked", total.locked, row) <= fractions
  BY DEF SupplyDrift
<1>8. odd("available") \in {0, 1} /\ odd("locked") \in {0, 1}
  OBVIOUS
<1>. HIDE DEF odd, far
<1>9. far("available", total'.circulating, row') + far("locked", total'.locked, row') <= fractions'
  BY <1>1, <1>2, <1>3, <1>6, <1>7, <1>8
<1>. QED BY <1>9 DEF far, SupplyDrift

LEMMA DriftInductive ==
  ASSUME TypeOK, SupplyDrift, [Next]_vars
  PROVE  SupplyDrift'
<1>1. ASSUME NEW j \in jobs, Upsert(j)
      PROVE  SupplyDrift'
  BY <1>1, UpsertDrift
<1>2. CASE UNCHANGED table
  BY <1>2 DEF table, SupplyDrift, Halves, Distance
<1>. QED BY <1>1, <1>2 DEF Next, Produce, ConvertEvents, ConvertExtrinsics, GetBalances, KeepInCache, Fail,
                           Restart, Expire, vars

LEMMA DriftInitial == Init => SupplyDrift
<1>. SUFFICES ASSUME Init PROVE SupplyDrift
  OBVIOUS
<1>1. total.circulating = 0 /\ total.locked = 0 /\ fractions = 0
  BY DEF Init
<1>2. \A a \in Holders : row[a].balance = Zero
  BY DEF Init, NotRead
<1>3. ASSUME NEW f \in {"available", "locked"}
      PROVE  Halves(row, f) = {}
  <2>1. Zero[f] = 0
    BY DEF Zero
  <2>2. \A a \in Holders : {a} \X (1..row[a].balance[f]) = {}
    BY <1>2, <2>1
  <2>. QED BY <2>2 DEF Halves
<1>4. Cardinality({}) = 0
  BY FS_EmptySet
<1>. QED BY <1>1, <1>3, <1>4 DEF SupplyDrift, Distance

(* The two totals of the supply are off by no more than half a token for   *)
(* each write that changed a row by a fraction of one, however the calls   *)
(* interleave, fail and are repeated: as long as all amounts are whole     *)
(* they are the sums over the table.                                       *)
THEOREM SupplyIsBounded == Spec => []SupplyDrift
BY TypeInitial, TypeInductive, DriftInitial, DriftInductive, PTL DEF Spec
=============================================================================
