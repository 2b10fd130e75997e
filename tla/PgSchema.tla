------------------------------- MODULE PgSchema -------------------------------
(***************************************************************************)
(* What PostgreSQL does with the statements the migrations of              *)
(* src/migrations/ are made of.  Postgres is not part of the repository:   *)
(* its rules are stated here as the migrations rely on them.               *)
(*                                                                         *)
(* A database is a record: the catalogue (tables, columns, indexes, keys,  *)
(* types, functions, triggers), the rows of interest, and the counters     *)
(* that triggers keep in the tables total, collections_stats and           *)
(* tokens_stats.  A statement is a record with an "op"; Exec runs one, and *)
(* a statement that fails clears "ok", which makes the transaction fail.   *)
(***************************************************************************)
EXTENDS Integers, Sequences, FiniteSets, SequencesExt

CONSTANTS
    TableOf,       \* row of interest -> the table it is stored in
    StatsCounters  \* counters that share the row of collections_stats

Rows == DOMAIN TableOf

(***************************************************************************)
(* Columns: "required" is NOT NULL without a default, "default" NOT NULL   *)
(* with one, "optional" accepts NULL.                                      *)
(***************************************************************************)
Columns(need, type, names) == {[column |-> c, type |-> type, need |-> need] : c \in names}
Required(type, names) == Columns("required", type, names)
Default(type, names)  == Columns("default", type, names)
Optional(type, names) == Columns("optional", type, names)

EmptyDatabase ==
    [ok |-> TRUE, tables |-> {}, columns |-> {}, indexes |-> {}, keys |-> {}, types |-> {},
     functions |-> {}, triggers |-> {}, rows |-> {}, burned |-> {}, count |-> <<>>]

(* The part of a database that migrations define.                          *)
Schema(d) == [d EXCEPT !.rows = {}, !.burned = {}, !.count = <<>>]

(***************************************************************************)
(* The statements.                                                         *)
(***************************************************************************)
CreateTable(t, pk, cols)  == [op |-> "create table", table |-> t, primary |-> pk, columns |-> cols]
DropTable(t)              == [op |-> "drop table", table |-> t]
AddColumns(t, cols)       == [op |-> "add columns", table |-> t, columns |-> cols]
AddMissingColumns(t, cols) == [op |-> "add columns if missing", table |-> t, columns |-> cols]
DropColumns(t, cols)      == [op |-> "drop columns", table |-> t, columns |-> cols]
AlterColumn(t, from, to)  == [op |-> "alter column", table |-> t, from |-> from, to |-> to]
RenameColumn(t, from, to) == [op |-> "rename column", table |-> t, from |-> from, to |-> to]
CreateIndex(i, t, cols)   == [op |-> "create index", index |-> i, table |-> t, on |-> cols, unique |-> FALSE]
CreateUnique(i, t, cols)  == [op |-> "create index", index |-> i, table |-> t, on |-> cols, unique |-> TRUE]
DropIndex(index)          == [op |-> "drop index", was |-> index]
AddKey(k, t, refers, on)  == [op |-> "add key", key |-> k, table |-> t, refers |-> refers, on |-> on]
DropKey(k, t, refers, on) == [op |-> "drop key", key |-> k, table |-> t, refers |-> refers, on |-> on]
CreateType(n, labels)     == [op |-> "create type", type |-> n, labels |-> labels]
DropType(n)               == [op |-> "drop type", type |-> n]
RenameType(from, to)      == [op |-> "rename type", from |-> from, to |-> to]
ReplaceFunction(f, body)  == [op |-> "replace function", function |-> f, body |-> body]
DropFunction(f)           == [op |-> "drop function", function |-> f]
DropFunctionIfExists(f)   == [op |-> "drop function if exists", function |-> f]
CreateTrigger(n, t, events, f) ==
    [op |-> "create trigger", trigger |-> n, table |-> t, events |-> events, function |-> f]
DropTrigger(n, t)         == [op |-> "drop trigger", trigger |-> n, table |-> t]
DropTriggerIfExists(n, t) == [op |-> "drop trigger if exists", trigger |-> n, table |-> t]
Rejected                  == [op |-> "rejected"]   \* a statement Postgres never accepts
Truncate(t)               == [op |-> "truncate", table |-> t]
Recount(how, c, rows)     == [op |-> how, counter |-> c, rows |-> rows]
UpdateCount(c, rows)      == Recount("update count", c, rows)
UpsertCount(c, rows)      == Recount("upsert count", c, rows)
InsertCount(c, rows)      == [op |-> "insert count", counter |-> c, rows |-> rows]
DeleteStats               == [op |-> "delete collections_stats"]
InsertStats(counts)       == [op |-> "insert collections_stats", counts |-> counts]

(***************************************************************************)
(* A trigger function is described by what it counts: each of its entries  *)
(* adds one to a counter when one of "rows" is inserted and takes one off  *)
(* when one of "less" is set burned; "clears" are the rows whose burning   *)
(* deletes the statistics of the collection.                               *)
(***************************************************************************)
Counts(counter, rows) == [counter |-> counter, rows |-> rows, less |-> {}]
CountsLive(counter, rows, less) == [counter |-> counter, rows |-> rows, less |-> less]
Body(counts) == [counts |-> counts, clears |-> {}]
NoBody == Body({})

(***************************************************************************)
(* The catalogue.                                                          *)
(***************************************************************************)
ColumnsOf(d, t) == {x.def : x \in {y \in d.columns : y.table = t}}
Names(cols) == {c.column : c \in cols}
NamesOf(d, t) == Names(ColumnsOf(d, t))
Placed(t, cols) == {[table |-> t, def |-> c] : c \in cols}
Column(t, need, type, c) == [table |-> t, def |-> [column |-> c, type |-> type, need |-> need]]
Index(i, t, cols, unique) == [index |-> i, table |-> t, on |-> cols, unique |-> unique]
At(d, t, names) == {x \in d.columns : x.table = t /\ x.def.column \in names}
FunctionOf(d, f) == CHOOSE x \in d.functions : x.function = f
RowsIn(d, t) == {r \in d.rows : TableOf[r] = t}
Using(d, f) == {tr \in d.triggers : tr.function = f}
Named(d, n, t) == {tr \in d.triggers : tr.trigger = n /\ tr.table = t}

WithoutColumns(d, t, names) ==
    [d EXCEPT !.columns = @ \ At(d, t, names),
              !.indexes = {i \in @ : ~(i.table = t /\ i.on \cap names # {})}]

WithCount(d, c, n) == [d EXCEPT !.count = [x \in DOMAIN @ \cup {c} |-> IF x = c THEN n ELSE @[x]]]
Counted(d, rows) == Cardinality(d.rows \cap rows)

HasUnique(d, t, cols) == \E i \in d.indexes : i.table = t /\ i.unique /\ i.on = cols

(* When a statement succeeds.                                              *)
Valid(d, s) ==
    CASE s.op = "create table"   -> s.table \notin d.tables
      [] s.op = "drop table"     -> /\ s.table \in d.tables
                                    /\ \A k \in d.keys : k.refers = s.table => k.table = s.table
      [] s.op = "add columns"    -> /\ s.table \in d.tables
                                    /\ Names(s.columns) \cap NamesOf(d, s.table) = {}
                                    /\ RowsIn(d, s.table) # {} => \A c \in s.columns : c.need # "required"
      [] s.op = "add columns if missing" -> s.table \in d.tables
      [] s.op = "drop columns"   -> Names(s.columns) \subseteq NamesOf(d, s.table)
      [] s.op = "alter column"   -> s.from.column \in NamesOf(d, s.table)
      [] s.op = "rename column"  -> s.from \in NamesOf(d, s.table) /\ s.to \notin NamesOf(d, s.table)
      [] s.op = "create index"   -> /\ s.on \subseteq NamesOf(d, s.table)
                                    /\ s.index \notin {i.index : i \in d.indexes}
      [] s.op = "drop index"     -> s.was.index \in {i.index : i \in d.indexes}
      [] s.op = "add key"        -> /\ s.table \in d.tables /\ s.key \notin {k.key : k \in d.keys}
                                    /\ HasUnique(d, s.refers, s.on)
      [] s.op = "drop key"       -> s.key \in {k.key : k \in d.keys}
      [] s.op = "create type"    -> s.type \notin {x.type : x \in d.types}
      [] s.op = "drop type"      -> /\ s.type \in {x.type : x \in d.types}
                                    /\ s.type \notin {x.def.type : x \in d.columns}
      [] s.op = "rename type"    -> s.from \in {x.type : x \in d.types}
      [] s.op = "drop function"  -> s.function \in {x.function : x \in d.functions} /\ Using(d, s.function) = {}
      [] s.op = "drop function if exists" -> Using(d, s.function) = {}
      [] s.op = "create trigger" -> /\ s.table \in d.tables
                                    /\ s.function \in {x.function : x \in d.functions}
                                    /\ Named(d, s.trigger, s.table) = {}
      [] s.op = "drop trigger"   -> Named(d, s.trigger, s.table) # {}
      [] s.op = "rejected"       -> FALSE
      [] OTHER -> TRUE

(* What it does.                                                           *)
Effect(d, s) ==
    CASE s.op = "create table"   ->
            [d EXCEPT !.tables = @ \cup {s.table}, !.columns = @ \cup Placed(s.table, s.columns),
                      !.indexes = @ \cup {Index("PK_" \o s.table, s.table, s.primary, TRUE)}]
      [] s.op = "drop table"     ->
            [d EXCEPT !.tables = @ \ {s.table},
                      !.columns = {x \in @ : x.table # s.table}, !.indexes = {x \in @ : x.table # s.table},
                      !.keys = {x \in @ : x.table # s.table}, !.triggers = {x \in @ : x.table # s.table},
                      !.rows = {r \in @ : TableOf[r] # s.table}]
      [] s.op = "add columns"    -> [d EXCEPT !.columns = @ \cup Placed(s.table, s.columns)]
      [] s.op = "add columns if missing" ->
            [d EXCEPT !.columns = @ \cup Placed(s.table, {c \in s.columns : c.column \notin NamesOf(d, s.table)})]
      [] s.op = "drop columns"   -> WithoutColumns(d, s.table, Names(s.columns))
      [] s.op = "alter column"   ->
            [d EXCEPT !.columns = (@ \ At(d, s.table, {s.from.column})) \cup Placed(s.table, {s.to})]
      [] s.op = "rename column"  ->
            [d EXCEPT !.columns = (@ \ At(d, s.table, {s.from}))
                          \cup {Column(s.table, x.def.need, x.def.type, s.to) : x \in At(d, s.table, {s.from})},
                      !.indexes = {IF x.table = s.table /\ s.from \in x.on
                                   THEN Index(x.index, x.table, (x.on \ {s.from}) \cup {s.to}, x.unique) ELSE x : x \in @}]
      [] s.op = "create index"   ->
            [d EXCEPT !.indexes = @ \cup {Index(s.index, s.table, s.on, s.unique)}]
      [] s.op = "drop index"     -> [d EXCEPT !.indexes = {i \in @ : i.index # s.was.index}]
      [] s.op = "add key"        ->
            [d EXCEPT !.keys = @ \cup {[key |-> s.key, table |-> s.table, refers |-> s.refers]}]
      [] s.op = "drop key"       -> [d EXCEPT !.keys = {k \in @ : k.key # s.key}]
      [] s.op = "create type"    -> [d EXCEPT !.types = @ \cup {[type |-> s.type, labels |-> s.labels]}]
      [] s.op = "drop type"      -> [d EXCEPT !.types = {x \in @ : x.type # s.type}]
      [] s.op = "rename type"    ->
            [d EXCEPT !.types = {IF x.type = s.from THEN [x EXCEPT !.type = s.to] ELSE x : x \in @},
                      !.columns = {IF x.def.type = s.from THEN Column(x.table, x.def.need, s.to, x.def.column)
                                   ELSE x : x \in @}]
      [] s.op = "replace function" ->
            [d EXCEPT !.functions = {x \in @ : x.function # s.function} \cup {[function |-> s.function, body |-> s.body]}]
      [] s.op \in {"drop function", "drop function if exists"} ->
            [d EXCEPT !.functions = {x \in @ : x.function # s.function}]
      [] s.op = "create trigger" ->
            [d EXCEPT !.triggers = @ \cup {[trigger |-> s.trigger, table |-> s.table,
                                            events |-> s.events, function |-> s.function]}]
      [] s.op \in {"drop trigger", "drop trigger if exists"} ->
            [d EXCEPT !.triggers = @ \ Named(d, s.trigger, s.table)]
      [] s.op = "truncate"       -> [d EXCEPT !.rows = @ \ RowsIn(d, s.table)]
      [] s.op = "update count"   -> IF s.counter \in DOMAIN d.count THEN WithCount(d, s.counter, Counted(d, s.rows)) ELSE d
      [] s.op \in {"upsert count", "insert count"} -> WithCount(d, s.counter, Counted(d, s.rows))
      [] s.op = "upsert positive count" ->
            IF Counted(d, s.rows) > 0 THEN WithCount(d, s.counter, Counted(d, s.rows)) ELSE d
      [] s.op = "delete collections_stats" ->
            [d EXCEPT !.count = [c \in DOMAIN @ \ StatsCounters |-> @[c]]]
      [] s.op = "insert collections_stats" ->
            IF "collection" \in d.rows
            THEN [d EXCEPT !.count = [c \in DOMAIN @ \cup StatsCounters |->
                     IF c \in StatsCounters THEN Counted(d, s.counts[c]) ELSE @[c]]]
            ELSE d

Exec(d, s) == IF d.ok /\ Valid(d, s) THEN Effect(d, s) ELSE [d EXCEPT !.ok = FALSE]
ExecAll(d, statements) ==
    LET after[n \in 0..Len(statements)] == IF n = 0 THEN d ELSE Exec(after[n - 1], statements[n])
    IN after[Len(statements)]

(* The statement a generated "down" holds for one of its "up".             *)
Converse(s) ==
    CASE s.op = "create table"  -> DropTable(s.table)
      [] s.op \in {"add columns", "add columns if missing"} -> DropColumns(s.table, s.columns)
      [] s.op = "drop columns"  -> AddColumns(s.table, s.columns)
      [] s.op = "alter column"  -> AlterColumn(s.table, s.to, s.from)
      [] s.op = "rename column" -> RenameColumn(s.table, s.to, s.from)
      [] s.op = "create index"  ->
            DropIndex(Index(s.index, s.table, s.on, s.unique))
      [] s.op = "drop index"    ->
            [op |-> "create index", index |-> s.was.index, table |-> s.was.table, on |-> s.was.on, unique |-> s.was.unique]
      [] s.op = "add key"       -> DropKey(s.key, s.table, s.refers, s.on)
      [] s.op = "drop key"      -> AddKey(s.key, s.table, s.refers, s.on)
      [] s.op = "create type"   -> DropType(s.type)
Undo(ups) == [i \in DOMAIN ups |-> Converse(ups[Len(ups) + 1 - i])]

(***************************************************************************)
(* Triggers firing: the counters of an entry move by n.  The counters of   *)
(* total are updated in place, so they move only when their row exists;    *)
(* those of the statistics tables are inserted when missing.               *)
(***************************************************************************)
Bump(d, c, n) ==
    CASE c \in DOMAIN d.count -> WithCount(d, c, d.count[c] + n)
      [] c \in StatsCounters ->
            [d EXCEPT !.count = [x \in DOMAIN @ \cup StatsCounters |->
                IF x = c THEN IF n > 0 THEN n ELSE 0 ELSE IF x \in StatsCounters THEN 0 ELSE @[x]]]
      [] c = "token_transfers" -> WithCount(d, c, IF n > 0 THEN n ELSE 0)
      [] OTHER -> d

BumpAll(d, moves, n) ==
    LET order == SetToSeq(moves)
        after[k \in 0..Len(order)] == IF k = 0 THEN d ELSE Bump(after[k - 1], order[k].counter, n)
    IN after[Len(order)]

(* The entries of the triggers that fire, one for each trigger.            *)
Firing(d, t, event) == {tr \in d.triggers : tr.table = t /\ event \in tr.events}
BodyOf(d, tr) == FunctionOf(d, tr.function).body
Moves(d, t, event, Hits(_)) ==
    UNION {{[trigger |-> tr.trigger, counter |-> e.counter] : e \in {x \in BodyOf(d, tr).counts : Hits(x)}} :
              tr \in Firing(d, t, event)}

Insert(d, r) ==
    BumpAll([d EXCEPT !.rows = @ \cup {r}], Moves(d, TableOf[r], "insert", LAMBDA e : r \in e.rows), 1)

SetBurned(d, r) ==
    LET t == TableOf[r]
        bumped == BumpAll([d EXCEPT !.burned = @ \cup {r}], Moves(d, t, "update", LAMBDA e : r \in e.less), -1)
    IN IF \E tr \in Firing(d, t, "update") : r \in BodyOf(d, tr).clears
       THEN Effect(bumped, DeleteStats) ELSE bumped
=============================================================================
