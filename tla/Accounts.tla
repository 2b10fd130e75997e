------------------------------- MODULE Accounts -------------------------------
(***************************************************************************)
(* The rows of the table account and the totals its trigger keeps.  A row  *)
(* is written on the side: converting the arguments of an event starts a   *)
(* call of AccountService.processRawAccountRecord that nobody waits for,   *)
(* once when the events of a block are extracted and once more when its    *)
(* extrinsics are.  The call reads the balances at the head of the chain,  *)
(* through the cache of SdkService, and upserts the row; the trigger       *)
(* update_account_supply adds the change to three rows of total.           *)
(*                                                                         *)
(* Amounts are counted in halves of a token, so that an amount may be a    *)
(* fraction of one.                                                        *)
(***************************************************************************)
EXTENDS EventArgs

CONSTANTS
  Holders,      \* the accounts of the chain
  Names,        \* for every block, the names of the events it may have
  Balances,     \* the balances an account may have, in halves
  Modes,        \* values of SCAN_FORCE_RESCAN the crawler is started with
  MaxBlocks,    \* bound: blocks of the chain
  MaxFaults     \* bound: failed calls and restarts

Zero == [available |-> 0, locked |-> 0]

ASSUME AccountsAssumption ==
  /\ IsFiniteSet(Holders)
  /\ Names \in [1..MaxBlocks -> SUBSET EventNames]
  /\ Balances \subseteq [available : Nat, locked : Nat]
  /\ Zero \in Balances
  /\ Modes \subseteq BOOLEAN /\ Modes # {}
  /\ MaxBlocks \in Nat
  /\ MaxFaults \in Nat

VARIABLES
  balance,    \* balances at the head of the chain
  queue,      \* the events of the blocks the crawler has not finished
  crawled,    \* the last block it has finished
  stage,      \* what it does with the next one
  rescan,     \* the mode it was started in
  jobs,       \* calls of processRawAccountRecord that have not returned
  cache,      \* results of getBalances in the cache
  row,        \* the table account; a row read at 0 is not there
  total,      \* the three totals of the trigger
  recipients, \* the accounts in extrinsic.to_owner
  \* what the properties speak of
  named,      \* the last block with an event that starts a call for an account
  excused,    \* accounts whose last call was hindered, see Hindered
  fractions,  \* writes that changed a total by a fraction
  faults

chain   == <<balance, queue>>
crawler == <<crawled, stage, rescan, recipients>>
table   == <<row, total, fractions>>
vars    == <<chain, crawler, jobs, cache, table, named, excused, faults>>

Height == crawled + Len(queue)

Reading == [balance : Balances, at : Nat]
NotRead == [balance |-> Zero, at |-> 0]

Passes == {"events", "extrinsics"}
Job == [account : Holders, block : Nat, pass : Passes,
        pc : {"call", "keep", "upsert"}, got : Reading]

JobsOf(a) == {j \in jobs : j.account = a}

-----------------------------------------------------------------------------
(* The chain: a block has an event, and one about balances may change      *)
(* those of the accounts it names.                                         *)

PositionsOf(n) == {i \in 0..4 : i < Len(Arguments(n)) /\ Arguments(n)[i + 1] = "account"}

EventsOf(b) == UNION {[name : {n}, accounts : [PositionsOf(n) -> Holders]] : n \in Names[b]}
Events == UNION {EventsOf(b) : b \in 1..MaxBlocks}

Moving(e) == IF e.name \in BalancesEvents THEN {e.accounts[i] : i \in DOMAIN e.accounts} ELSE {}

Produce(e) ==
  /\ Height < MaxBlocks /\ e \in EventsOf(Height + 1)
  /\ queue' = Append(queue, e)
  /\ \E changed \in [Moving(e) -> Balances] :
       /\ e.name = "Balances.Transfer" =>
            /\ changed[e.accounts[0]].available <= balance[e.accounts[0]].available
            /\ changed[e.accounts[1]].available >= balance[e.accounts[1]].available
       /\ balance' = [a \in Holders |-> IF a \in Moving(e) THEN changed[a] ELSE balance[a]]
  /\ UNCHANGED <<crawler, jobs, cache, table, named, excused, faults>>

-----------------------------------------------------------------------------
(* The crawler takes the blocks one after the other.                       *)

Hindered(a, b) == \E j \in JobsOf(a) : j.block < b \/ rescan

(* The floating calls of eventDataConverter.  An account is excused when a *)
(* call of an earlier block, or one that may have read the cache, still    *)
(* runs.                                                                   *)
Start(e, b, pass) ==
  LET started == AccountOf(e)
  IN  /\ jobs' = jobs \cup [account : started, block : {b}, pass : {pass},
                            pc : {"call"}, got : {NotRead}]
      /\ named' = [a \in Holders |-> IF a \in started THEN b ELSE named[a]]
      /\ excused' = (excused \ started) \cup {a \in started : Hindered(a, b)}

Finish == /\ crawled' = crawled + 1
          /\ queue' = Tail(queue)
          /\ stage' = "events"

(* EventService.process; an event that throws loses the block.             *)
ConvertEvents ==
  /\ stage = "events" /\ queue # <<>>
  /\ Start(queue[1], crawled + 1, "events")
  /\ IF Throws(queue[1])
     THEN Finish
     ELSE stage' = "extrinsics" /\ UNCHANGED <<crawled, queue>>
  /\ UNCHANGED <<balance, rescan, recipients, cache, table, faults>>

ToOwner(e) == IF e.name \in {"Balances.Transfer", "Common.Transfer"} THEN {Values(e).to} ELSE {}

(* ExtrinsicService.upsert converts the events of the block again.         *)
ConvertExtrinsics ==
  /\ stage = "extrinsics"
  /\ Start(queue[1], crawled + 1, "extrinsics")
  /\ recipients' = recipients \cup ToOwner(queue[1])
  /\ Finish
  /\ UNCHANGED <<balance, rescan, cache, table, faults>>

-----------------------------------------------------------------------------
(* A call of AccountService.processRawAccountRecord.                       *)

Moved(j, t) == jobs' = (jobs \ {j}) \cup {t}

\* Variant: the cache serves the live crawler too.
CacheServesAll(a) == cache[a].at > 0

CacheServes(a) == rescan /\ cache[a].at > 0

(* getBalances: the cached result, in a rescan only, or a call that reads  *)
(* the head.                                                               *)
GetBalances(j) ==
  /\ j.pc = "call"
  /\ IF CacheServes(j.account)
     THEN /\ Moved(j, [j EXCEPT !.pc = "upsert", !.got = cache[j.account]])
          /\ excused' = IF rescan /\ cache[j.account].at < j.block
                        THEN excused \cup {j.account} ELSE excused
     ELSE /\ Moved(j, [j EXCEPT !.pc = "keep",
                                !.got = [balance |-> balance[j.account], at |-> Height]])
          /\ UNCHANGED excused
  /\ UNCHANGED <<chain, crawler, cache, table, named, faults>>

(* The result is put into the cache whatever the mode.                     *)
KeepInCache(j) ==
  /\ j.pc = "keep"
  /\ cache' = [cache EXCEPT ![j.account] = j.got]
  /\ Moved(j, [j EXCEPT !.pc = "upsert"])
  /\ UNCHANGED <<chain, crawler, table, named, excused, faults>>

(* A double rounded to a bigint: halves to the even neighbour.             *)
Rounded(h) == IF h % 2 = 0 THEN h \div 2
              ELSE IF (h \div 2) % 2 = 0 THEN h \div 2 ELSE h \div 2 + 1

\* Variant: the trigger adds the new balance of a row it updates.
AddedNew(count, old, new) == Rounded(2 * count + new)

Added(count, old, new) == Rounded(2 * count + new - old)

\* Variant: an account that loses either balance is no holder any more.
HoldersByEither(count, old, new) ==
  LET gone(f) == old[f] # 0 /\ new[f] = 0
      came(f) == old[f] = 0 /\ new[f] # 0
  IN  count + (IF came("available") \/ came("locked") THEN 1 ELSE 0)
            - (IF gone("available") \/ gone("locked") THEN 1 ELSE 0)

(* One less only when both balances were there and both went; one more     *)
(* when either of them came.                                               *)
HoldersAfter(count, old, new) ==
  LET gone(f) == old[f] # 0 /\ new[f] = 0
      came(f) == old[f] = 0 /\ new[f] # 0
  IN  count + (IF came("available") \/ came("locked") THEN 1 ELSE 0)
            - (IF gone("available") /\ gone("locked") THEN 1 ELSE 0)

(* update_account_supply: a row that was not there counts as an empty one. *)
UpdateAccountSupply(old, new) ==
  /\ total' = [circulating |-> Added(total.circulating, old.available, new.available),
               locked      |-> Added(total.locked, old.locked, new.locked),
               holders     |-> HoldersAfter(total.holders, old, new)]
  /\ fractions' = fractions + (IF (new.available - old.available) % 2 # 0 THEN 1 ELSE 0)
                            + (IF (new.locked - old.locked) % 2 # 0 THEN 1 ELSE 0)

\* Variant: a row that is there is not updated.
OnConflictDoNothing(old, new) == IF old.at > 0 THEN old ELSE new

OnConflictUpdate(old, new) == new

Upsert(j) ==
  /\ j.pc = "upsert"
  /\ row' = [row EXCEPT ![j.account] = OnConflictUpdate(@, j.got)]
  /\ UpdateAccountSupply(row[j.account].balance, row'[j.account].balance)
  /\ jobs' = jobs \ {j}
  /\ UNCHANGED <<chain, crawler, cache, named, excused, faults>>

-----------------------------------------------------------------------------
(* Faults.  A call that fails rejects a promise nobody handles: with       *)
(* Sentry only that call is lost, without it the process ends.  A restart  *)
(* loses every call and takes the block again.  The cache may forget.      *)

Fail(j) ==
  /\ faults < MaxFaults /\ faults' = faults + 1
  /\ jobs' = jobs \ {j}
  /\ excused' = excused \cup {j.account}
  /\ UNCHANGED <<chain, crawler, cache, table, named>>

Restart ==
  /\ faults < MaxFaults /\ faults' = faults + 1
  /\ jobs' = {}
  /\ excused' = excused \cup {j.account : j \in jobs}
  /\ stage' = "events"
  /\ rescan' \in Modes
  /\ UNCHANGED <<chain, crawled, recipients, cache, table, named>>

Expire(a) ==
  /\ cache[a].at > 0
  /\ cache' = [cache EXCEPT ![a] = NotRead]
  /\ UNCHANGED <<chain, crawler, jobs, table, named, excused, faults>>

-----------------------------------------------------------------------------

Init ==
  /\ balance = [a \in Holders |-> Zero]
  /\ queue = <<>>
  /\ crawled = 0 /\ stage = "events" /\ rescan \in Modes /\ recipients = {}
  /\ jobs = {}
  /\ cache = [a \in Holders |-> NotRead]
  /\ row = [a \in Holders |-> NotRead]
  /\ total = [circulating |-> 0, locked |-> 0, holders |-> 0]
  /\ fractions = 0
  /\ named = [a \in Holders |-> 0] /\ excused = {}
  /\ faults = 0

Call(j) == GetBalances(j) \/ KeepInCache(j) \/ Upsert(j)

Next ==
  \/ \E e \in Events : Produce(e)
  \/ ConvertEvents
  \/ ConvertExtrinsics
  \/ \E j \in jobs : GetBalances(j)
  \/ \E j \in jobs : KeepInCache(j)
  \/ \E j \in jobs : Upsert(j)
  \/ \E j \in jobs : Fail(j)
  \/ Restart
  \/ \E a \in Holders : Expire(a)

Spec == Init /\ [][Next]_vars

(* A call is answered or it fails, and Postgres answers.                   *)
Fairness == \A a \in Holders : WF_vars(\E j \in JobsOf(a) : Call(j))

FairSpec == Spec /\ Fairness

-----------------------------------------------------------------------------
(* Properties                                                              *)

(* The types of the variables; the crawler is between the two conversions  *)
(* of a block only while it has one.                                       *)
TypeOK ==
  /\ balance \in [Holders -> Balances]
  /\ queue \in Seq(Events) /\ crawled \in Nat
  /\ stage \in {"events", "extrinsics"} /\ (stage = "extrinsics" => queue # <<>>)
  /\ rescan \in Modes /\ recipients \subseteq Holders
  /\ jobs \subseteq Job
  /\ cache \in [Holders -> Reading] /\ row \in [Holders -> Reading]
  /\ total \in [circulating : Int, locked : Int, holders : Int] /\ fractions \in Nat
  /\ named \in [Holders -> Nat]
  /\ excused \subseteq Holders
  /\ faults \in Nat

(* The trigger never loses a holder: the total is at least the number of   *)
(* accounts with a balance (it is higher once an account with one balance  *)
(* lost it, or with one got the other).                                    *)
HoldersNeverLow == total.holders >= Cardinality({a \in Holders : row[a].balance # Zero})

(* All halves of a token that a table has in one column.                   *)
Halves(rows, f) == UNION {{a} \X (1..rows[a].balance[f]) : a \in Holders}

Distance(count, halves) == LET d == 2 * count - Cardinality(halves) IN IF d < 0 THEN -d ELSE d

(* The supply is a sum kept by differences and rounded at each: it is off  *)
(* by at most half a token for every write of a fraction, so that it is    *)
(* exact while all amounts are whole.                                      *)
SupplyDrift ==
  Distance(total.circulating, Halves(row, "available")) + Distance(total.locked, Halves(row, "locked"))
    <= fractions

(* Nobody waits for the calls, and a later one may overtake an earlier     *)
(* one.  When all have returned a row is at least as new as the last block *)
(* that named the account, unless that block met a call of an earlier one, *)
(* the call failed, or a rescan read the cache.                            *)
FreshUnlessExcused ==
  \A a \in Holders : JobsOf(a) = {} /\ a \notin excused => row[a].at >= named[a]

(* Every call that was started returns or fails, so that the rows come to  *)
(* rest, at least as new as FreshUnlessExcused says, and stay there.       *)
RowsSettle ==
  <>[](jobs = {} /\ \A a \in Holders : a \in excused \/ row[a].at >= named[a])

(* extrinsic.service.ts: the account of to_owner need not be processed,    *)
(* "because all addresses are already processed in EventService".          *)
RecipientsHanded == \A a \in recipients : named[a] > 0
=============================================================================
