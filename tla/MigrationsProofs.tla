--------------------------- MODULE MigrationsProofs ---------------------------
(***************************************************************************)
(* Proofs about Migrations, for any rows, counters, jumps and any amount   *)
(* of work.  What every statement of the migrations is like is read off    *)
(* the statements, file by file; what a transaction of them does to a      *)
(* database follows along the transaction.                                 *)
(***************************************************************************)
EXTENDS Migrations, FiniteSetTheorems, SequenceTheorems, WellFoundedInduction, TLAPS

(***************************************************************************)
(* Numbers and sequences.                                                  *)
(***************************************************************************)
\* What holds of 0 and passes on from each number holds up to n.
LEMMA UpTo ==
  ASSUME NEW n \in Nat, NEW S, 0 \in S, \A k \in 0..(n - 1) : k \in S => k + 1 \in S
  PROVE  \A k \in 0..n : k \in S
<1> DEFINE R == OpToRel(<, Nat)
           Bad == {k \in 0..n : k \notin S}
<1>1. SUFFICES ASSUME Bad # {} PROVE FALSE
  OBVIOUS
<1>2. IsWellFoundedOn(R, Nat)
  BY NatLessThanWellFounded
<1>3. \A m, k \in Nat : m < k => <<m, k>> \in R
  BY DEF OpToRel
<1>4. Bad \subseteq Nat
  OBVIOUS
<1> HIDE DEF R
<1>5. PICK k \in Bad : \A m \in Bad : <<m, k>> \notin R
  <2> HIDE DEF Bad
  <2>1. QED
    BY <1>1, <1>2, <1>4, WFMin
<1>6. k # 0 /\ k \in 0..n /\ k \in Nat /\ k \notin S
  BY <1>5
<1>7. k - 1 \in 0..(n - 1) /\ k - 1 \in Nat /\ k - 1 < k /\ (k - 1) + 1 = k
  BY <1>6
<1>8. k - 1 \notin Bad
  BY <1>3, <1>5, <1>6, <1>7
<1>9. k - 1 \in S
  BY <1>7, <1>8
<1>10. QED
  BY <1>6, <1>7, <1>9

IsSeq(s) == s \in Seq(ToSet(s))

LEMMA SeqFacts ==
  ASSUME NEW s, IsSeq(s)
  PROVE  Len(s) \in Nat /\ DOMAIN s = 1..Len(s) /\ ToSet(s) = {s[i] : i \in 1..Len(s)}
BY DEF IsSeq, ToSet

LEMMA SeqOfSet ==
  ASSUME NEW S, NEW s \in Seq(S)
  PROVE  IsSeq(s) /\ ToSet(s) \subseteq S
<1>1. DOMAIN s = 1..Len(s) /\ Len(s) \in Nat /\ \A i \in DOMAIN s : s[i] \in S
  OBVIOUS
<1>2. \A i \in 1..Len(s) : s[i] \in ToSet(s)
  BY <1>1 DEF ToSet
<1>3. s = [i \in 1..Len(s) |-> s[i]]
  OBVIOUS
<1>4. s \in Seq(ToSet(s))
  <2> DEFINE T == ToSet(s)
             n == Len(s)
  <2>1. \A i \in 1..n : s[i] \in T
    BY <1>2
  <2>2. n \in Nat /\ s = [i \in 1..n |-> s[i]]
    BY <1>1, <1>3
  <2> HIDE DEF T, n
  <2>3. s \in [1..n -> T]
    BY <2>1, <2>2
  <2>4. s \in Seq(T)
    BY <2>2, <2>3
  <2>5. QED
    BY <2>4 DEF T
<1>5. QED
  BY <1>1, <1>4 DEF IsSeq, ToSet

LEMMA ConcatFacts ==
  ASSUME NEW s, NEW t, IsSeq(s), IsSeq(t)
  PROVE  IsSeq(s \o t) /\ ToSet(s \o t) \subseteq ToSet(s) \cup ToSet(t)
<1> DEFINE U == ToSet(s) \cup ToSet(t)
<1>1. s \in Seq(U) /\ t \in Seq(U)
  BY DEF IsSeq
<1> HIDE DEF U
<1>2. s \o t \in Seq(U)
  BY <1>1
<1>3. QED
  BY <1>2, SeqOfSet DEF U

LEMMA EmptyFacts == IsSeq(<<>>) /\ ToSet(<<>>) = {}
BY DEF IsSeq, ToSet

-----------------------------------------------------------------------------
(***************************************************************************)
(* The statements of the migrations.                                       *)
(***************************************************************************)
Operations ==
  {"create table", "drop table", "add columns", "add columns if missing", "drop columns", "alter column",
   "rename column", "create index", "drop index", "add key", "drop key", "create type", "drop type",
   "rename type", "replace function", "drop function", "drop function if exists", "create trigger",
   "drop trigger", "drop trigger if exists", "rejected", "truncate", "update count", "upsert count",
   "upsert positive count", "insert count", "delete collections_stats", "insert collections_stats"}

\* Tables have a key among their columns, indexes and keys have columns, a column
\* keeps its name when it is altered, and a function counts finitely many things.
Proper(s) ==
  /\ s.op \in Operations
  /\ s.op = "create table" => s.primary # {} /\ s.primary \subseteq Names(s.columns)
  /\ s.op \in {"create index", "add key", "drop key"} => s.on # {}
  /\ s.op = "drop index" => s.was.on # {}
  /\ s.op = "alter column" => s.from.column = s.to.column
  /\ s.op = "replace function" => IsFiniteSet(s.body.counts)

\* Deletes no rows.
Gentle(s) == s.op \notin {"drop table", "truncate"}

\* Its converse takes back exactly what it did.
Adds(s) == s.op \in {"create table", "add columns", "create index", "add key", "create type"}

HasConverse(s) ==
  \/ Adds(s)
  \/ s.op \in {"add columns if missing", "drop columns", "alter column", "rename column", "drop index", "drop key"}

LEMMA ConverseProper ==
  ASSUME NEW s, Proper(s), HasConverse(s)
  PROVE  Proper(Converse(s))
<1> USE DEF Proper, Operations
<1>1. CASE s.op = "create table"
  BY <1>1 DEF Converse, DropTable
<1>2. CASE s.op \in {"add columns", "add columns if missing"}
  BY <1>2 DEF Converse, DropColumns
<1>3. CASE s.op = "drop columns"
  BY <1>3 DEF Converse, AddColumns
<1>4. CASE s.op = "alter column"
  BY <1>4 DEF Converse, AlterColumn
<1>5. CASE s.op = "rename column"
  BY <1>5 DEF Converse, RenameColumn
<1>6. CASE s.op = "create index"
  BY <1>6 DEF Converse, DropIndex, Index
<1>7. CASE s.op = "drop index"
  BY <1>7 DEF Converse
<1>8. CASE s.op = "add key"
  BY <1>8 DEF Converse, DropKey
<1>9. CASE s.op = "drop key"
  BY <1>9 DEF Converse, AddKey
<1>10. CASE s.op = "create type"
  BY <1>10 DEF Converse, DropType
<1>11. QED
  BY <1>1, <1>2, <1>3, <1>4, <1>5, <1>6, <1>7, <1>8, <1>9, <1>10 DEF HasConverse, Adds

LEMMA UndoFacts ==
  ASSUME NEW up, IsSeq(up)
  PROVE  /\ IsSeq(Undo(up)) /\ Len(Undo(up)) = Len(up)
         /\ \A i \in 1..Len(up) : Undo(up)[i] = Converse(up[Len(up) + 1 - i])
         /\ \A c \in ToSet(Undo(up)) : \E s \in ToSet(up) : c = Converse(s)
<1> DEFINE S == {Converse(s) : s \in ToSet(up)}
           n == Len(up)
<1>1. n \in Nat /\ DOMAIN up = 1..n /\ \A i \in 1..n : up[i] \in ToSet(up)
  BY SeqFacts
<1>2. \A i \in 1..n : n + 1 - i \in 1..n
  BY <1>1
<1>3. Undo(up) = [i \in 1..n |-> Converse(up[n + 1 - i])]
  BY <1>1 DEF Undo
<1>4. \A i \in 1..n : Converse(up[n + 1 - i]) \in S
  BY <1>1, <1>2
<1>5. Undo(up) \in Seq(S) /\ Len(Undo(up)) = n
  <2> HIDE DEF S, n
  <2>1. Undo(up) \in [1..n -> S]
    BY <1>3, <1>4
  <2>2. QED
    BY <1>1, <1>3, <2>1
<1>6. IsSeq(Undo(up)) /\ ToSet(Undo(up)) \subseteq S
  BY <1>5, SeqOfSet
<1>7. QED
  BY <1>3, <1>5, <1>6

\* What is known of every migration: its statements are proper.
Good(m) ==
  /\ IsSeq(m.up) /\ IsSeq(m.down)
  /\ \A s \in ToSet(m.up) : Proper(s)
  /\ \A s \in ToSet(m.down) : Proper(s)

LEMMA MigrationGood ==
  ASSUME NEW up, NEW down, IsSeq(up), IsSeq(down),
         \A s \in ToSet(up) : Proper(s), \A s \in ToSet(down) : Proper(s)
  PROVE  Good(Migration(up, down))
BY DEF Good, Migration

LEMMA ReversibleGood ==
  ASSUME NEW up, IsSeq(up), \A s \in ToSet(up) : Proper(s) /\ HasConverse(s)
  PROVE  Good(Reversible(up))
<1>1. \A c \in ToSet(Undo(up)) : Proper(c)
  BY UndoFacts, ConverseProper
<1>2. QED
  BY <1>1, UndoFacts, MigrationGood DEF Reversible

LEMMA NamesOfColumns ==
  ASSUME NEW need, NEW type, NEW names
  PROVE  Names(Columns(need, type, names)) = names
<1>1. \A c \in names : [column |-> c, type |-> type, need |-> need] \in Columns(need, type, names)
  BY DEF Columns
<1>2. \A x \in Columns(need, type, names) : x.column \in names
  BY DEF Columns
<1>3. \A n : n \in Names(Columns(need, type, names)) <=> n \in names
  <2> TAKE n
  <2>1. n \in Names(Columns(need, type, names)) => n \in names
    BY <1>2 DEF Names
  <2>2. ASSUME n \in names PROVE n \in Names(Columns(need, type, names))
    <3>1. [column |-> n, type |-> type, need |-> need].column = n
      OBVIOUS
    <3>2. QED
      BY <1>1, <2>2, <3>1 DEF Names
  <2>3. QED
    BY <2>1, <2>2
<1>4. QED
  BY <1>3

LEMMA NamesOfUnion ==
  ASSUME NEW a, NEW b
  PROVE  Names(a \cup b) = Names(a) \cup Names(b)
BY DEF Names

LEMMA NamesFacts ==
  /\ \A need, type, names : Names(Columns(need, type, names)) = names
  /\ \A a, b : Names(a \cup b) = Names(a) \cup Names(b)
BY NamesOfColumns, NamesOfUnion

LEMMA AddingFacts ==
  /\ \A t, pk, cols : pk # {} /\ pk \subseteq Names(cols) =>
        Proper(CreateTable(t, pk, cols)) /\ Adds(CreateTable(t, pk, cols))
  /\ \A t, cols : Proper(AddColumns(t, cols)) /\ Adds(AddColumns(t, cols))
  /\ \A i, t, cols : cols # {} =>
        /\ Proper(CreateIndex(i, t, cols)) /\ Adds(CreateIndex(i, t, cols))
        /\ Proper(CreateUnique(i, t, cols)) /\ Adds(CreateUnique(i, t, cols))
  /\ \A k, t, refers, on : on # {} => Proper(AddKey(k, t, refers, on)) /\ Adds(AddKey(k, t, refers, on))
  /\ \A n, labels : Proper(CreateType(n, labels)) /\ Adds(CreateType(n, labels))
<1> USE DEF Proper, Operations, Adds
<1>1. ASSUME NEW t, NEW pk, NEW cols, pk # {}, pk \subseteq Names(cols)
      PROVE  Proper(CreateTable(t, pk, cols)) /\ Adds(CreateTable(t, pk, cols))
  BY <1>1 DEF CreateTable
<1>2. ASSUME NEW t, NEW cols
      PROVE  Proper(AddColumns(t, cols)) /\ Adds(AddColumns(t, cols))
  BY DEF AddColumns
<1>3. ASSUME NEW i, NEW t, NEW cols, cols # {}
      PROVE  Proper(CreateIndex(i, t, cols)) /\ Adds(CreateIndex(i, t, cols))
  BY <1>3 DEF CreateIndex
<1>4. ASSUME NEW i, NEW t, NEW cols, cols # {}
      PROVE  Proper(CreateUnique(i, t, cols)) /\ Adds(CreateUnique(i, t, cols))
  BY <1>4 DEF CreateUnique
<1>5. ASSUME NEW k, NEW t, NEW refers, NEW on, on # {}
      PROVE  Proper(AddKey(k, t, refers, on)) /\ Adds(AddKey(k, t, refers, on))
  BY <1>5 DEF AddKey
<1>6. ASSUME NEW n, NEW labels
      PROVE  Proper(CreateType(n, labels)) /\ Adds(CreateType(n, labels))
  BY DEF CreateType
<1>7. QED
  <2> HIDE DEF Proper, Adds
  <2>1. QED
    BY <1>1, <1>2, <1>3, <1>4, <1>5, <1>6

\* Statements that a generated "down" takes back, besides those that add.
Turns(s) == Proper(s) /\ Gentle(s) /\ HasConverse(s)

LEMMA TurningFacts ==
  /\ \A s : Proper(s) /\ Adds(s) => Turns(s)
  /\ \A t, cols : Turns(AddMissingColumns(t, cols)) /\ Turns(DropColumns(t, cols))
  /\ \A t, from, to : from.column = to.column => Turns(AlterColumn(t, from, to))
  /\ \A t, from, to : Turns(RenameColumn(t, from, to))
  /\ \A index : index.on # {} => Turns(DropIndex(index))
  /\ \A k, t, refers, on : on # {} => Turns(DropKey(k, t, refers, on))
<1> USE DEF Turns, Proper, Operations, Gentle, HasConverse, Adds
<1>1. ASSUME NEW s, Proper(s), Adds(s) PROVE Turns(s)
  BY <1>1
<1>2. ASSUME NEW t, NEW cols PROVE Turns(AddMissingColumns(t, cols)) /\ Turns(DropColumns(t, cols))
  BY DEF AddMissingColumns, DropColumns
<1>3. ASSUME NEW t, NEW from, NEW to, from.column = to.column PROVE Turns(AlterColumn(t, from, to))
  BY <1>3 DEF AlterColumn
<1>4. ASSUME NEW index, index.on # {} PROVE Turns(DropIndex(index))
  BY <1>4 DEF DropIndex
<1>5. ASSUME NEW k, NEW t, NEW refers, NEW on, on # {} PROVE Turns(DropKey(k, t, refers, on))
  BY <1>5 DEF DropKey
<1>6. ASSUME NEW t, NEW from, NEW to PROVE Turns(RenameColumn(t, from, to))
  BY DEF RenameColumn
<1>7. QED
  <2> HIDE DEF Turns, Proper, Adds
  <2>1. QED
    BY <1>1, <1>2, <1>3, <1>4, <1>5, <1>6

\* Statements that a migration may make.
Fine(s) == Proper(s) /\ Gentle(s)

LEMMA FineFacts ==
  /\ \A s : Turns(s) => Fine(s)
  /\ \A n : Fine(DropType(n))
  /\ \A from, to : Fine(RenameType(from, to))
  /\ \A f, body : IsFiniteSet(body.counts) => Fine(ReplaceFunction(f, body))
  /\ \A f : Fine(DropFunction(f)) /\ Fine(DropFunctionIfExists(f))
  /\ \A n, t, events, f : Fine(CreateTrigger(n, t, events, f))
  /\ \A n, t : Fine(DropTrigger(n, t)) /\ Fine(DropTriggerIfExists(n, t))
  /\ Fine(Rejected) /\ Fine(DeleteStats)
  /\ \A c, rows : Fine(UpdateCount(c, rows)) /\ Fine(UpsertCount(c, rows)) /\ Fine(InsertCount(c, rows))
  /\ \A c, rows : Fine(Recount("upsert positive count", c, rows))
  /\ \A counts : Fine(InsertStats(counts))
<1> USE DEF Fine, Proper, Operations, Gentle
<1>1. ASSUME NEW s, Turns(s) PROVE Fine(s)
  BY <1>1 DEF Turns
<1>2. ASSUME NEW n PROVE Fine(DropType(n))
  BY DEF DropType
<1>3. ASSUME NEW from, NEW to PROVE Fine(RenameType(from, to))
  BY DEF RenameType
<1>4. ASSUME NEW f, NEW body, IsFiniteSet(body.counts) PROVE Fine(ReplaceFunction(f, body))
  BY <1>4 DEF ReplaceFunction
<1>5. ASSUME NEW f PROVE Fine(DropFunction(f)) /\ Fine(DropFunctionIfExists(f))
  BY DEF DropFunction, DropFunctionIfExists
<1>6. ASSUME NEW n, NEW t, NEW events, NEW f PROVE Fine(CreateTrigger(n, t, events, f))
  BY DEF CreateTrigger
<1>7. ASSUME NEW n, NEW t PROVE Fine(DropTrigger(n, t)) /\ Fine(DropTriggerIfExists(n, t))
  BY DEF DropTrigger, DropTriggerIfExists
<1>8. Fine(Rejected) /\ Fine(DeleteStats)
  BY DEF Rejected, DeleteStats
<1>9. ASSUME NEW c, NEW rows
      PROVE  Fine(UpdateCount(c, rows)) /\ Fine(UpsertCount(c, rows)) /\ Fine(InsertCount(c, rows))
  BY DEF UpdateCount, UpsertCount, InsertCount, Recount
<1>10. ASSUME NEW c, NEW rows PROVE Fine(Recount("upsert positive count", c, rows))
  BY DEF Recount
<1>11. ASSUME NEW counts PROVE Fine(InsertStats(counts))
  BY DEF InsertStats
<1>12. QED
  <2> HIDE DEF Fine
  <2>1. QED
    BY <1>1, <1>2, <1>3, <1>4, <1>5, <1>6, <1>7, <1>8, <1>9, <1>10, <1>11

\* What a statement of a migration may be: one that only adds, one that its generated
\* "down" takes back, or any proper one that deletes no rows.
Kinds == {"adds", "turns", "fine"}
Of(kind, s) ==
  /\ Proper(s)
  /\ kind = "adds" => Adds(s)
  /\ kind = "turns" => Turns(s)
  /\ kind = "fine" => Fine(s)
All(kind, seq) == IsSeq(seq) /\ \A s \in ToSet(seq) : Of(kind, s)

LEMMA KindsNest ==
  /\ \A s : Of("adds", s) => Of("turns", s)
  /\ \A s : Of("turns", s) => Of("fine", s)
BY TurningFacts, FineFacts DEF Of

LEMMA Join ==
  ASSUME NEW kind, NEW s, NEW t, All(kind, s), All(kind, t)
  PROVE  All(kind, s \o t)
<1>1. IsSeq(s \o t) /\ ToSet(s \o t) \subseteq ToSet(s) \cup ToSet(t)
  BY ConcatFacts DEF All
<1>2. QED
  BY <1>1 DEF All

LEMMA AllTail ==
  ASSUME NEW kind, NEW s, All(kind, s), s # <<>>
  PROVE  All(kind, Tail(s))
<1>1. s \in Seq(ToSet(s))
  BY DEF All, IsSeq
<1> DEFINE S == ToSet(s)
<1>2. Tail(s) \in Seq(S)
  <2> HIDE DEF S
  <2>1. QED
    BY <1>1 DEF S
<1>3. QED
  BY <1>2, SeqOfSet DEF All

\* The recursion of FlattenSeq has a solution.
LEMMA FlattenExists ==
  ASSUME NEW seqs, NEW n \in Nat
  PROVE  \E f : f = [i \in 1..n |-> IF i = 1 THEN seqs[i] ELSE f[i - 1] \o seqs[i]]
<1> DEFINE Solves(f, m) == f = [i \in 1..m |-> IF i = 1 THEN seqs[i] ELSE f[i - 1] \o seqs[i]]
           S == {m \in 0..n : \E f : Solves(f, m)}
<1>1. Solves([i \in 1..0 |-> 0], 0)
  OBVIOUS
<1>2. ASSUME NEW m \in 0..(n - 1), m \in S PROVE m + 1 \in S
  <2>1. PICK f : Solves(f, m)
    BY <1>2
  <2> DEFINE g == [i \in 1..(m + 1) |->
                     IF i \in 1..m THEN f[i] ELSE IF i = 1 THEN seqs[i] ELSE f[i - 1] \o seqs[i]]
  <2>2. ASSUME NEW i \in 1..(m + 1)
        PROVE  g[i] = IF i = 1 THEN seqs[i] ELSE g[i - 1] \o seqs[i]
    <3>1. CASE i = 1
      BY <2>1, <3>1
    <3>2. CASE i # 1
      <4>1. i - 1 \in 1..m /\ i - 1 \in 1..(m + 1)
        BY <3>2
      <4>2. g[i - 1] = f[i - 1]
        BY <4>1
      <4>3. g[i] = f[i - 1] \o seqs[i]
        BY <2>1, <3>2
      <4>4. QED
        BY <3>2, <4>2, <4>3
    <3>3. QED
      BY <3>1, <3>2
  <2>3. Solves(g, m + 1)
    BY <2>2
  <2>4. QED
    <3> HIDE DEF g, Solves
    <3>1. QED
      BY <2>3
<1>3. 0 \in S
  <2> HIDE DEF Solves
  <2>1. QED
    BY <1>1
<1>4. \A m \in 0..n : m \in S
  <2> HIDE DEF S
  <2>1. QED
    BY <1>2, <1>3, UpTo
<1>5. \E f : Solves(f, n)
  <2> HIDE DEF Solves
  <2>1. QED
    BY <1>4
<1>6. QED
  BY <1>5

LEMMA AllFlatten ==
  ASSUME NEW kind, NEW seqs, NEW n \in Nat, n > 0, Len(seqs) = n, \A i \in 1..n : All(kind, seqs[i])
  PROVE  All(kind, FlattenSeq(seqs))
<1> DEFINE Step(f) == [i \in 1..n |-> IF i = 1 THEN seqs[i] ELSE f[i - 1] \o seqs[i]]
           flatten == CHOOSE f : f = Step(f)
           S == {m \in 0..n : m = 0 \/ All(kind, flatten[m])}
<1>1. flatten = Step(flatten)
  BY FlattenExists
<1>2. FlattenSeq(seqs) = flatten[n]
  BY DEF FlattenSeq
<1> HIDE DEF flatten
<1>3. ASSUME NEW m \in 0..(n - 1), m \in S PROVE m + 1 \in S
  <2>1. m + 1 \in 1..n /\ m + 1 \in 0..n
    OBVIOUS
  <2>2. CASE m = 0
    BY <1>1, <2>1, <2>2
  <2>3. CASE m # 0
    <3>1. flatten[m + 1] = flatten[m] \o seqs[m + 1]
      <4>1. m + 1 \in 1..n /\ m + 1 # 1 /\ (m + 1) - 1 = m
        BY <2>1, <2>3
      <4>2. flatten[m + 1] = flatten[(m + 1) - 1] \o seqs[m + 1]
        BY <1>1, <4>1
      <4>3. QED
        BY <4>1, <4>2
    <3>2. All(kind, flatten[m]) /\ All(kind, seqs[m + 1])
      BY <1>3, <2>1, <2>3
    <3>3. QED
      BY <2>1, <3>1, <3>2, Join
  <2>4. QED
    BY <2>2, <2>3
<1>4. 0 \in S
  OBVIOUS
<1>5. n \in S
  <2>1. \A m \in 0..n : m \in S
    <3> HIDE DEF S
    <3>1. QED
      BY <1>3, <1>4, UpTo
  <2>2. QED
    BY <2>1
<1>6. QED
  BY <1>2, <1>5

\* Sequences of statements of one kind.
LEMMA AllNone ==
  ASSUME NEW kind
  PROVE  All(kind, <<>>)
BY EmptyFacts DEF All

LEMMA All1 ==
  ASSUME NEW kind, NEW e1,
         Of(kind, e1)
  PROVE  All(kind, <<e1>>)
<1>1. <<e1>> \in Seq({e1})
  OBVIOUS
<1>2. IsSeq(<<e1>>) /\ ToSet(<<e1>>) \subseteq {e1}
  BY <1>1, SeqOfSet
<1>3. \A s \in {e1} : Of(kind, s)
  OBVIOUS
<1>4. QED
  BY <1>2, <1>3 DEF All

LEMMA All2 ==
  ASSUME NEW kind, NEW e1, NEW e2,
         Of(kind, e1), Of(kind, e2)
  PROVE  All(kind, <<e1, e2>>)
<1>1. <<e1, e2>> \in Seq({e1, e2})
  OBVIOUS
<1>2. IsSeq(<<e1, e2>>) /\ ToSet(<<e1, e2>>) \subseteq {e1, e2}
  BY <1>1, SeqOfSet
<1>3. \A s \in {e1, e2} : Of(kind, s)
  OBVIOUS
<1>4. QED
  BY <1>2, <1>3 DEF All

LEMMA All3 ==
  ASSUME NEW kind, NEW e1, NEW e2, NEW e3,
         Of(kind, e1), Of(kind, e2), Of(kind, e3)
  PROVE  All(kind, <<e1, e2, e3>>)
<1>1. <<e1, e2, e3>> \in Seq({e1, e2, e3})
  OBVIOUS
<1>2. IsSeq(<<e1, e2, e3>>) /\ ToSet(<<e1, e2, e3>>) \subseteq {e1, e2, e3}
  BY <1>1, SeqOfSet
<1>3. \A s \in {e1, e2, e3} : Of(kind, s)
  OBVIOUS
<1>4. QED
  BY <1>2, <1>3 DEF All

LEMMA All4 ==
  ASSUME NEW kind, NEW e1, NEW e2, NEW e3, NEW e4,
         Of(kind, e1), Of(kind, e2), Of(kind, e3), Of(kind, e4)
  PROVE  All(kind, <<e1, e2, e3, e4>>)
<1>1. <<e1, e2, e3, e4>> \in Seq({e1, e2, e3, e4})
  OBVIOUS
<1>2. IsSeq(<<e1, e2, e3, e4>>) /\ ToSet(<<e1, e2, e3, e4>>) \subseteq {e1, e2, e3, e4}
  BY <1>1, SeqOfSet
<1>3. \A s \in {e1, e2, e3, e4} : Of(kind, s)
  OBVIOUS
<1>4. QED
  BY <1>2, <1>3 DEF All

LEMMA All5 ==
  ASSUME NEW kind, NEW e1, NEW e2, NEW e3, NEW e4, NEW e5,
         Of(kind, e1), Of(kind, e2), Of(kind, e3), Of(kind, e4), Of(kind, e5)
  PROVE  All(kind, <<e1, e2, e3, e4, e5>>)
<1>1. <<e1, e2, e3, e4, e5>> \in Seq({e1, e2, e3, e4, e5})
  OBVIOUS
<1>2. IsSeq(<<e1, e2, e3, e4, e5>>) /\ ToSet(<<e1, e2, e3, e4, e5>>) \subseteq {e1, e2, e3, e4, e5}
  BY <1>1, SeqOfSet
<1>3. \A s \in {e1, e2, e3, e4, e5} : Of(kind, s)
  OBVIOUS
<1>4. QED
  BY <1>2, <1>3 DEF All

LEMMA All6 ==
  ASSUME NEW kind, NEW e1, NEW e2, NEW e3, NEW e4, NEW e5, NEW e6,
         Of(kind, e1), Of(kind, e2), Of(kind, e3), Of(kind, e4), Of(kind, e5), Of(kind,
         e6)
  PROVE  All(kind, <<e1, e2, e3, e4, e5, e6>>)
<1>1. <<e1, e2, e3, e4, e5, e6>> \in Seq({e1, e2, e3, e4, e5, e6})
  OBVIOUS
<1>2. IsSeq(<<e1, e2, e3, e4, e5, e6>>) /\ ToSet(<<e1, e2, e3, e4, e5, e6>>) \subseteq {e1, e2, e3, e4, e5, e6}
  BY <1>1, SeqOfSet
<1>3. \A s \in {e1, e2, e3, e4, e5, e6} : Of(kind, s)
  OBVIOUS
<1>4. QED
  BY <1>2, <1>3 DEF All

LEMMA All7 ==
  ASSUME NEW kind, NEW e1, NEW e2, NEW e3, NEW e4, NEW e5, NEW e6, NEW e7,
         Of(kind, e1), Of(kind, e2), Of(kind, e3), Of(kind, e4), Of(kind, e5), Of(kind,
         e6), Of(kind, e7)
  PROVE  All(kind, <<e1, e2, e3, e4, e5, e6, e7>>)
<1>1. <<e1, e2, e3, e4, e5, e6, e7>> \in Seq({e1, e2, e3, e4, e5, e6, e7})
  OBVIOUS
<1>2. IsSeq(<<e1, e2, e3, e4, e5, e6, e7>>) /\ ToSet(<<e1, e2, e3, e4, e5, e6, e7>>) \subseteq {e1, e2, e3, e4, e5, e6, e7}
  BY <1>1, SeqOfSet
<1>3. \A s \in {e1, e2, e3, e4, e5, e6, e7} : Of(kind, s)
  OBVIOUS
<1>4. QED
  BY <1>2, <1>3 DEF All

LEMMA All8 ==
  ASSUME NEW kind, NEW e1, NEW e2, NEW e3, NEW e4, NEW e5, NEW e6, NEW e7, NEW e8,
         Of(kind, e1), Of(kind, e2), Of(kind, e3), Of(kind, e4), Of(kind, e5), Of(kind,
         e6), Of(kind, e7), Of(kind, e8)
  PROVE  All(kind, <<e1, e2, e3, e4, e5, e6, e7, e8>>)
<1>1. <<e1, e2, e3, e4, e5, e6, e7, e8>> \in Seq({e1, e2, e3, e4, e5, e6, e7, e8})
  OBVIOUS
<1>2. IsSeq(<<e1, e2, e3, e4, e5, e6, e7, e8>>) /\ ToSet(<<e1, e2, e3, e4, e5, e6, e7, e8>>) \subseteq {e1, e2, e3, e4, e5, e6, e7, e8}
  BY <1>1, SeqOfSet
<1>3. \A s \in {e1, e2, e3, e4, e5, e6, e7, e8} : Of(kind, s)
  OBVIOUS
<1>4. QED
  BY <1>2, <1>3 DEF All

LEMMA All9 ==
  ASSUME NEW kind, NEW e1, NEW e2, NEW e3, NEW e4, NEW e5, NEW e6, NEW e7, NEW e8, NEW e9,
         Of(kind, e1), Of(kind, e2), Of(kind, e3), Of(kind, e4), Of(kind, e5), Of(kind,
         e6), Of(kind, e7), Of(kind, e8), Of(kind, e9)
  PROVE  All(kind, <<e1, e2, e3, e4, e5, e6, e7, e8, e9>>)
<1>1. <<e1, e2, e3, e4, e5, e6, e7, e8, e9>> \in Seq({e1, e2, e3, e4, e5, e6, e7, e8, e9})
  OBVIOUS
<1>2. IsSeq(<<e1, e2, e3, e4, e5, e6, e7, e8, e9>>) /\ ToSet(<<e1, e2, e3, e4, e5, e6, e7, e8, e9>>) \subseteq {e1, e2, e3, e4, e5, e6, e7, e8, e9}
  BY <1>1, SeqOfSet
<1>3. \A s \in {e1, e2, e3, e4, e5, e6, e7, e8, e9} : Of(kind, s)
  OBVIOUS
<1>4. QED
  BY <1>2, <1>3 DEF All

LEMMA All13 ==
  ASSUME NEW kind, NEW e1, NEW e2, NEW e3, NEW e4, NEW e5, NEW e6, NEW e7, NEW e8, NEW e9,
         NEW e10, NEW e11, NEW e12, NEW e13,
         Of(kind, e1), Of(kind, e2), Of(kind, e3), Of(kind, e4), Of(kind, e5), Of(kind,
         e6), Of(kind, e7), Of(kind, e8), Of(kind, e9), Of(kind, e10), Of(kind, e11),
         Of(kind, e12), Of(kind, e13)
  PROVE  All(kind, <<e1, e2, e3, e4, e5, e6, e7, e8, e9, e10, e11, e12, e13>>)
<1>1. <<e1, e2, e3, e4, e5, e6, e7, e8, e9, e10, e11, e12, e13>> \in Seq({e1, e2, e3, e4, e5, e6, e7, e8, e9, e10, e11, e12, e13})
  OBVIOUS
<1>2. IsSeq(<<e1, e2, e3, e4, e5, e6, e7, e8, e9, e10, e11, e12, e13>>) /\ ToSet(<<e1, e2, e3, e4, e5, e6, e7, e8, e9, e10, e11, e12, e13>>) \subseteq {e1, e2, e3, e4, e5, e6, e7, e8, e9, e10, e11, e12, e13}
  BY <1>1, SeqOfSet
<1>3. \A s \in {e1, e2, e3, e4, e5, e6, e7, e8, e9, e10, e11, e12, e13} : Of(kind, s)
  OBVIOUS
<1>4. QED
  BY <1>2, <1>3 DEF All

-----------------------------------------------------------------------------
(***************************************************************************)
(* The files.                                                              *)
(***************************************************************************)
LEMMA ColumnNames ==
  /\ \A c, type, names : c \in names => c \in Names(Required(type, names))
  /\ \A c, type, names : c \in names => c \in Names(Default(type, names))
  /\ \A c, a, b : c \in Names(a) \/ c \in Names(b) => c \in Names(a \cup b)
BY NamesFacts DEF Required, Default

LEMMA Additions ==
  /\ \A t, c, cols : c \in Names(cols) => Of("adds", CreateTable(t, {c}, cols))
  /\ \A t, c, e, cols : c \in Names(cols) /\ e \in Names(cols) => Of("adds", CreateTable(t, {c, e}, cols))
  /\ \A t, cols : Of("adds", AddColumns(t, cols))
  /\ \A i, t, c, S : Of("adds", CreateIndex(i, t, S \cup {c})) /\ Of("adds", CreateUnique(i, t, S \cup {c}))
  /\ \A i, t, c : Of("adds", CreateIndex(i, t, {c})) /\ Of("adds", CreateUnique(i, t, {c}))
  /\ \A i, t, c, e :
        Of("adds", CreateIndex(i, t, {c, e})) /\ Of("adds", CreateUnique(i, t, {c, e}))
  /\ \A i, t, c, e, g :
        Of("adds", CreateIndex(i, t, {c, e, g})) /\ Of("adds", CreateUnique(i, t, {c, e, g}))
  /\ \A k, t, refers, c : Of("adds", AddKey(k, t, refers, {c}))
  /\ \A k, t, refers, c, e : Of("adds", AddKey(k, t, refers, {c, e}))
  /\ \A n, labels : Of("adds", CreateType(n, labels))
BY AddingFacts DEF Of

LEMMA Turnings ==
  /\ \A s : Of("adds", s) => Of("turns", s)
  /\ \A t, cols : Of("turns", AddMissingColumns(t, cols)) /\ Of("turns", DropColumns(t, cols))
  /\ \A t, need, need2, type, type2, c :
        Of("turns", AlterColumn(t, Col(need, type, c), Col(need2, type2, c)))
  /\ \A t, from, to : Of("turns", RenameColumn(t, from, to))
  /\ \A index : index.on # {} => Of("turns", DropIndex(index))
  /\ \A k, t, refers, c : Of("turns", DropKey(k, t, refers, {c}))
  /\ \A k, t, refers, c, e : Of("turns", DropKey(k, t, refers, {c, e}))
BY KindsNest, TurningFacts DEF Of, Turns, Col

LEMMA FineKind == \A s : Fine(s) => Of("fine", s)
BY DEF Of, Fine

LEMMA SeqKinds ==
  /\ \A seq : All("adds", seq) => All("turns", seq)
  /\ \A seq : All("turns", seq) => All("fine", seq)
BY KindsNest DEF All

LEMMA InitAddsFirst == All("adds", InitialAccountAndBlock)
BY ColumnNames, Additions, All8, ZenonT(60) DEF InitialAccountAndBlock

LEMMA InitAddsSecond == All("adds", InitialCollectionsAndTokens)
BY ColumnNames, Additions, All9, ZenonT(60) DEF InitialCollectionsAndTokens

LEMMA InitAddsThird == All("adds", InitialEventsAndExtrinsics)
BY ColumnNames, Additions, All13, ZenonT(60) DEF InitialEventsAndExtrinsics

LEMMA InitAddsFourth == All("adds", InitialService)
BY ColumnNames, Additions, All6, ZenonT(60) DEF InitialService

LEMMA InitAddsKeys == All("adds", ForeignKeys)
BY Additions, All2 DEF ForeignKeys

(***************************************************************************)
(* The kinds of migrations.                                                *)
(***************************************************************************)
Plain(m) == Good(m) /\ \A s \in ToSet(m.up) : Gentle(s)
Adding(m) == Good(m) /\ m.down = Undo(m.up) /\ \A s \in ToSet(m.up) : Adds(s)

LEMMA GeneratedAdding ==
  ASSUME NEW up, All("adds", up)
  PROVE  Plain(Reversible(up)) /\ Adding(Reversible(up))
<1>1. IsSeq(up) /\ \A s \in ToSet(up) : Proper(s) /\ Adds(s)
  BY DEF All, Of
<1>2. \A s \in ToSet(up) : HasConverse(s) /\ Gentle(s)
  BY <1>1 DEF HasConverse, Gentle, Adds
<1>3. Good(Reversible(up))
  BY <1>1, <1>2, ReversibleGood
<1>4. Reversible(up).up = up /\ Reversible(up).down = Undo(up)
  BY DEF Reversible, Migration
<1>5. QED
  BY <1>1, <1>2, <1>3, <1>4 DEF Plain, Adding

LEMMA GeneratedPlain ==
  ASSUME NEW up, All("turns", up)
  PROVE  Plain(Reversible(up))
<1>1. IsSeq(up) /\ \A s \in ToSet(up) : Proper(s) /\ HasConverse(s) /\ Gentle(s)
  BY DEF All, Of, Turns
<1>2. Good(Reversible(up))
  BY <1>1, ReversibleGood
<1>3. Reversible(up).up = up
  BY DEF Reversible, Migration
<1>4. QED
  BY <1>1, <1>2, <1>3 DEF Plain

LEMMA WrittenPlain ==
  ASSUME NEW up, NEW down, All("fine", up), All("fine", down)
  PROVE  Plain(Migration(up, down))
<1>1. IsSeq(up) /\ \A s \in ToSet(up) : Proper(s) /\ Gentle(s)
  BY DEF All, Of, Fine
<1>2. IsSeq(down) /\ \A s \in ToSet(down) : Proper(s)
  BY DEF All, Of
<1>3. Good(Migration(up, down))
  BY <1>1, <1>2, MigrationGood
<1>4. Migration(up, down).up = up
  BY DEF Migration
<1>5. QED
  BY <1>1, <1>3, <1>4 DEF Plain

LEMMA EmptyAdding == Plain(Migration(<<>>, <<>>)) /\ Adding(Migration(<<>>, <<>>))
<1>1. Undo(<<>>) = <<>>
  BY DEF Undo
<1>2. Plain(Migration(<<>>, <<>>))
  BY AllNone, WrittenPlain
<1>3. QED
  BY <1>1, <1>2, EmptyFacts DEF Adding, Plain, Migration

LEMMA Scripts ==
  /\ \A n : Of("fine", DropType(n))
  /\ \A from, to : Of("fine", RenameType(from, to))
  /\ \A f, e : Of("fine", ReplaceFunction(f, Body({e})))
  /\ \A f : Of("fine", ReplaceFunction(f, NoBody))
  /\ \A f, e, g, h : Of("fine", ReplaceFunction(f, Body({e, g, h})))
  /\ \A f, clears : Of("fine", ReplaceFunction(f, [counts |-> {}, clears |-> clears]))
  /\ \A f : Of("fine", DropFunction(f)) /\ Of("fine", DropFunctionIfExists(f))
  /\ \A n, t, events, f : Of("fine", CreateTrigger(n, t, events, f))
  /\ \A n, t : Of("fine", DropTrigger(n, t)) /\ Of("fine", DropTriggerIfExists(n, t))
  /\ Of("fine", Rejected) /\ Of("fine", DeleteStats)
  /\ \A c, rows : Of("fine", UpdateCount(c, rows)) /\ Of("fine", UpsertCount(c, rows)) /\ Of("fine", InsertCount(c, rows))
  /\ \A c, rows : Of("fine", Recount("upsert positive count", c, rows))
  /\ \A counts : Of("fine", InsertStats(counts))
<1>1. \A e : IsFiniteSet({e})
  BY FS_Singleton
<1>2. \A e, g, h : IsFiniteSet({e, g, h})
  <2> TAKE e, g, h
  <2>1. IsFiniteSet({e} \cup {g})
    BY <1>1, FS_Union
  <2>2. IsFiniteSet(({e} \cup {g}) \cup {h})
    BY <1>1, <2>1, FS_Union
  <2>3. {e, g, h} = ({e} \cup {g}) \cup {h}
    OBVIOUS
  <2>4. QED
    BY <2>2, <2>3
<1>3. IsFiniteSet({})
  BY FS_EmptySet
<1>4. \A f, e : Fine(ReplaceFunction(f, Body({e})))
  BY <1>1, FineFacts DEF Body
<1>5. \A f, e, g, h : Fine(ReplaceFunction(f, Body({e, g, h})))
  BY <1>2, FineFacts DEF Body
<1>6. \A f : Fine(ReplaceFunction(f, NoBody))
  BY <1>3, FineFacts DEF Body, NoBody
<1>7. \A f, clears : Fine(ReplaceFunction(f, [counts |-> {}, clears |-> clears]))
  BY <1>3, FineFacts
<1>8. QED
  BY <1>4, <1>5, <1>6, <1>7, FineFacts, FineKind

-----------------------------------------------------------------------------
\* The statements that keep the table total.
LEMMA Totals ==
  /\ All("fine", DropTotals)
  /\ All("fine", StartTotals("update count")) /\ All("fine", StartTotals("upsert count"))
  /\ All("fine", StopTotals)
<1>1. Len(BasicTotals) = 5 /\ DOMAIN BasicTotals = 1..5
  BY DEF BasicTotals
<1> DEFINE drops == [i \in DOMAIN BasicTotals |->
                       << DropTriggerIfExists(BasicTotals[i].trigger, BasicTotals[i].table) >>]
           starts(how) == [i \in DOMAIN BasicTotals |->
                       << Recount(how, BasicTotals[i].counter, InTable(BasicTotals[i].table)),
                          ReplaceFunction(BasicTotals[i].function,
                            Body({Counts(BasicTotals[i].counter, InTable(BasicTotals[i].table))})),
                          CreateTrigger(BasicTotals[i].trigger, BasicTotals[i].table, Inserts, BasicTotals[i].function) >>]
           stops == [i \in DOMAIN BasicTotals |->
                       << DropTrigger(BasicTotals[i].trigger, BasicTotals[i].table),
                          DropFunction(BasicTotals[i].function) >>]
<1>2. Len(drops) = 5 /\ Len(stops) = 5 /\ \A how : Len(starts(how)) = 5
  BY <1>1
<1>3. \A i \in 1..5 : All("fine", drops[i])
  <2> TAKE i \in 1..5
  <2>1. drops[i] = << DropTriggerIfExists(BasicTotals[i].trigger, BasicTotals[i].table) >>
    BY <1>1
  <2> HIDE DEF drops
  <2>2. QED
    BY <2>1, Scripts, All1
<1>4. \A i \in 1..5 : All("fine", stops[i])
  <2> TAKE i \in 1..5
  <2>1. stops[i] = << DropTrigger(BasicTotals[i].trigger, BasicTotals[i].table),
                      DropFunction(BasicTotals[i].function) >>
    BY <1>1
  <2> HIDE DEF stops
  <2>2. QED
    BY <2>1, Scripts, All2
<1>5. ASSUME NEW how \in {"update count", "upsert count"}
      PROVE  \A i \in 1..5 : All("fine", starts(how)[i])
  <2> TAKE i \in 1..5
  <2> DEFINE b == BasicTotals[i]
  <2>1. starts(how)[i] = << Recount(how, b.counter, InTable(b.table)),
                            ReplaceFunction(b.function, Body({Counts(b.counter, InTable(b.table))})),
                            CreateTrigger(b.trigger, b.table, Inserts, b.function) >>
    BY <1>1
  <2> HIDE DEF starts, b
  <2>2. Of("fine", Recount(how, b.counter, InTable(b.table)))
    BY <1>5, Scripts DEF UpdateCount, UpsertCount
  <2>3. QED
    BY <2>1, <2>2, Scripts, All3
<1> HIDE DEF drops, stops, starts
<1> DEFINE five == 5
<1>6. five \in Nat /\ five > 0 /\ five = 5
  OBVIOUS
<1> HIDE DEF five
<1>7. \A seqs : Len(seqs) = five /\ (\A i \in 1..five : All("fine", seqs[i])) => All("fine", FlattenSeq(seqs))
  BY <1>6, AllFlatten
<1>8. All("fine", FlattenSeq(drops)) /\ All("fine", FlattenSeq(stops))
  BY <1>2, <1>3, <1>4, <1>6, <1>7
<1>9. \A how \in {"update count", "upsert count"} : All("fine", FlattenSeq(starts(how)))
  BY <1>2, <1>5, <1>6, <1>7
<1>10. All("fine", << DropTriggerIfExists("transfers_total", "extrinsic"), DropTriggerIfExists("update_supply", "account") >>)
  BY Scripts, All2
<1>11. All("fine", DropTotals)
  BY <1>8, <1>10, Join DEF DropTotals, drops
<1>12. QED
  BY <1>8, <1>9, <1>11 DEF StartTotals, StopTotals, stops, starts

LEMMA Transfers ==
  /\ \A t, rows : All("fine", TransfersOf(t, rows)) /\ All("fine", Tail(TransfersOf(t, rows)))
  /\ All("fine", StopTransfers)
<1>1. \A t, rows : All("fine", TransfersOf(t, rows))
  BY Scripts, All3 DEF TransfersOf
<1>2. \A t, rows : TransfersOf(t, rows) # <<>>
  BY DEF TransfersOf
<1>3. \A t, rows : All("fine", Tail(TransfersOf(t, rows)))
  BY <1>1, <1>2, AllTail
<1>4. All("fine", StopTransfers)
  BY Scripts, All2 DEF StopTransfers
<1>5. QED
  BY <1>1, <1>3, <1>4

LEMMA Supplies ==
  \A how \in {"upsert count", "upsert positive count"} : \A free, locked : All("fine", StartSupply(how, free, locked))
<1> TAKE how \in {"upsert count", "upsert positive count"}
<1> TAKE free, locked
<1>1. \A c, rows : Of("fine", Recount(how, c, rows))
  BY Scripts DEF UpsertCount
<1>2. Of("fine", ReplaceFunction("update_account_supply", Supply(free, locked)))
  BY Scripts DEF Supply
<1>3. QED
  BY <1>1, <1>2, Scripts, All5 DEF StartSupply

\* The migrations that keep the table total.
LEMMA TotalsFiles ==
  /\ Plain(totalStatsTriggers) /\ Plain(totalStatsTriggersFix) /\ Plain(collectionsStatsTriggersNewSchema)
  /\ Plain(fixTotalTransfersTrigger) /\ Plain(transfersCountTrigger) /\ Plain(accountsTriggersFix)
<1>1. \A n, t : All("fine", << DropTriggerIfExists(n, t) >>)
  BY Scripts, All1
<1>2. Plain(totalStatsTriggers)
  <2>1. All("fine", << UpdateCount("transfers", {}) >>)
    BY Scripts, All1
  <2>2. All("fine", << DropTrigger("update_supply", "account"), DropFunction("update_account_supply0"),
                       DropTrigger("update_total", "extrinsic"), DropFunction("update_total_supply") >>)
    BY Scripts, All4
  <2>3. QED
    BY <1>1, <2>1, <2>2, Totals, Transfers, Supplies, Join, WrittenPlain DEF totalStatsTriggers
<1>3. All("fine", << DropTrigger("update_supply", "account"), DropFunction("update_account_supply") >>)
  BY Scripts, All2
<1>4. Plain(totalStatsTriggersFix)
  BY <1>3, Totals, Transfers, Supplies, Join, WrittenPlain DEF totalStatsTriggersFix
<1>5. Plain(collectionsStatsTriggersNewSchema)
  BY <1>1, Transfers, Join, WrittenPlain DEF collectionsStatsTriggersNewSchema
<1>6. Plain(fixTotalTransfersTrigger)
  BY <1>1, Transfers, Join, WrittenPlain DEF fixTotalTransfersTrigger
<1>7. Plain(transfersCountTrigger)
  BY <1>1, Transfers, Join, WrittenPlain DEF transfersCountTrigger
<1>8. Plain(accountsTriggersFix)
  BY <1>1, <1>3, Supplies, Join, WrittenPlain DEF accountsTriggersFix
<1>9. QED
  BY <1>2, <1>4, <1>5, <1>6, <1>7, <1>8

\* The statements that keep the statistics of collections and tokens.
LEMMA Statistics ==
  /\ \A n, t, events, f : All("fine", Trigger(n, t, events, f))
  /\ \A events, less : All("fine", HoldersTrigger(events, less)) /\ All("fine", TokensTrigger(events, less))
  /\ \A actions : All("fine", ActionsFunction(actions)) /\ All("fine", ActionsTrigger(actions))
  /\ All("fine", TransfersTrigger) /\ All("fine", TokenTransfersTrigger)
  /\ All("fine", UpdateHolders) /\ All("fine", DropHolders)
  /\ All("fine", NestedStats) /\ All("fine", BundleCreated)
<1>1. \A n, t, events, f : All("fine", Trigger(n, t, events, f))
  BY Scripts, All2 DEF Trigger
<1>2. \A f, e : All("fine", << ReplaceFunction(f, Body({e})) >>)
  BY Scripts, All1
<1>3. \A events, less : All("fine", HoldersTrigger(events, less)) /\ All("fine", TokensTrigger(events, less))
  BY <1>1, <1>2, Join DEF HoldersTrigger, TokensTrigger
<1>4. \A actions : All("fine", ActionsFunction(actions)) /\ All("fine", ActionsTrigger(actions))
  BY <1>1, <1>2, Join DEF ActionsFunction, ActionsTrigger
<1>5. All("fine", TransfersTrigger) /\ All("fine", TokenTransfersTrigger)
  BY <1>1, <1>2, Join DEF TransfersTrigger, TokenTransfersTrigger
<1>6. All("fine", UpdateHolders) /\ All("fine", DropHolders)
  BY Scripts, All1, All3 DEF UpdateHolders, DropHolders
<1>7. QED
  BY <1>1, <1>3, <1>4, <1>5, <1>6 DEF NestedStats, BundleCreated

\* The migrations that keep the statistics of collections and tokens.
LEMMA StatisticsFiles ==
  /\ Plain(collectionStatsTriggers) /\ Plain(tokensStatsTriggers)
  /\ Plain(updateHoldersCountTrigger) /\ Plain(fixHoldersCountTrigger) /\ Plain(triggersNewStructure)
  /\ Plain(burnedCollectionsTriggers) /\ Plain(burnedTokensTriggers) /\ Plain(triggerChildrenCount)
  /\ Plain(triggersNewStructureFix) /\ Plain(collectionStatsTriggersFix)
<1>1. \A f, body : Of("fine", ReplaceFunction(f, body)) => All("fine", << ReplaceFunction(f, body) >>)
  BY All1
<1>2. \A counts : All("fine", << DeleteStats, InsertStats(counts) >>)
  BY Scripts, All2
<1>3. \A f, e : All("fine", << ReplaceFunction(f, Body({e})) >>)
  BY <1>1, Scripts
<1>4. \A f : All("fine", << ReplaceFunction(f, NoBody) >>)
  BY <1>1, Scripts
<1>5. \A f, clears : All("fine", << ReplaceFunction(f, [counts |-> {}, clears |-> clears]) >>)
  BY <1>1, Scripts
<1>6. Plain(collectionStatsTriggers)
  <2>1. All("fine", << DeleteStats,
           DropFunction("update_collections_stats_holders"), DropTrigger("collection_holders_stats", "tokens"),
           DropFunction("update_collections_stats_tokens"), DropTrigger("collection_tokens_stats", "tokens"),
           DropFunction("update_collections_stats_actions"), DropTrigger("collection_actions_stats", "tokens"),
           DropFunction("update_collections_stats_transfers"), DropTrigger("collection_transfers_stats", "tokens") >>)
    BY Scripts, All9
  <2>2. QED
    BY <1>2, <1>4, <2>1, Statistics, Join, WrittenPlain DEF collectionStatsTriggers
<1>7. Plain(tokensStatsTriggers)
  <2>1. All("fine", << DeleteStats, InsertCount("token_transfers", {"Common.Transfer"}) >>)
    BY Scripts, All2
  <2>2. All("fine", << DropFunction("update_tokens_stats_transfers"), DropTrigger("token_transfers_stats", "event") >>)
    BY Scripts, All2
  <2>3. QED
    BY <2>1, <2>2, Statistics, Join, WrittenPlain DEF tokensStatsTriggers
<1>8. Plain(updateHoldersCountTrigger) /\ Plain(fixHoldersCountTrigger)
  BY Statistics, Join, WrittenPlain DEF updateHoldersCountTrigger, fixHoldersCountTrigger
<1>9. Plain(triggersNewStructure)
  <2>1. All("fine", << DropFunction("update_collections_stats_actions"), DropFunction("update_collections_stats_transfers"),
                 DropFunction("update_tokens_stats_transfers"), DropTrigger("token_transfers_stats", "event") >>)
    BY Scripts, All4
  <2>2. QED
    BY <2>1, Statistics, Join, WrittenPlain DEF triggersNewStructure
<1>10. Plain(burnedCollectionsTriggers)
  <2>1. All("fine", << DropFunction("delete_collections_stats"), DropTrigger("collection_delete_stats", "collections"),
           DropFunction("update_collections_total"), DropTrigger("collections_total", "collections") >>)
    BY Scripts, All4
  <2>2. QED
    BY <1>3, <1>5, <2>1, Statistics, Join, WrittenPlain DEF burnedCollectionsTriggers
<1>11. Plain(burnedTokensTriggers)
  <2>1. All("fine", << ReplaceFunction("update_tokens_total", Body({CountsLive("tokens", {"token"}, {"token"})})),
           DropTrigger("tokens_total", "tokens"),
           CreateTrigger("tokens_total", "tokens", InsertOrUpdate, "update_tokens_total") >>)
    BY Scripts, All3
  <2>2. All("fine", << DropTrigger("tokens_total", "tokens"), DropFunction("update_tokens_total"),
           DropTriggerIfExists("collection_tokens_stats", "tokens"),
           DropFunctionIfExists("update_collections_stats_tokens"),
           DropTriggerIfExists("collection_holders_stats", "tokens"),
           DropFunctionIfExists("update_collections_stats_holders") >>)
    BY Scripts, All6
  <2>3. QED
    BY <2>1, <2>2, Statistics, Join, WrittenPlain DEF burnedTokensTriggers
<1>12. Plain(triggerChildrenCount)
  <2>1. All("fine", << DropTriggerIfExists("nested_token_stats", "tokens"), DropFunctionIfExists("update_nested_tokens_stats"),
                 DropTriggerIfExists("update_bundle_created_date_trigger", "tokens"),
                 DropFunctionIfExists("update_bundle_created_date_fn") >>)
    BY Scripts, All4
  <2>2. QED
    BY <1>4, <2>1, Statistics, Join, WrittenPlain DEF triggerChildrenCount
<1>13. Plain(triggersNewStructureFix)
  <2>1. All("fine", << DropFunction("update_collections_stats_actions") >>)
    BY Scripts, All1
  <2>2. QED
    BY <2>1, Statistics, WrittenPlain DEF triggersNewStructureFix
<1>14. Plain(collectionStatsTriggersFix)
  <2>1. All("fine", << DeleteStats, DropFunction("update_collections_stats_actions") >>)
    BY Scripts, All2
  <2>2. QED
    BY <1>2, <2>1, Statistics, Join, WrittenPlain DEF collectionStatsTriggersFix
<1>15. QED
  BY <1>6, <1>7, <1>8, <1>9, <1>10, <1>11, <1>12, <1>13, <1>14

\* The migrations whose generated "down" takes back exactly what the "up" added.
LEMMA AddingFiles ==
  /\ Adding(initDbSchema) /\ Adding(collectionsPropertiesAttributesSchema)
  /\ Adding(tokensPropertiesAttributesSchema) /\ Adding(isSoldTokenField) /\ Adding(tokensAddTokenNameField)
  /\ Adding(extrinsicsAddressesEncode) /\ Adding(extrinsicsFeeRecalculation)
  /\ Adding(collectionsPropertiesPermissions) /\ Adding(wasBurnForCollectionsAndTokens)
  /\ Adding(addedEventValuesField) /\ Adding(collectionsPermissions) /\ Adding(createContractModel)
  /\ Adding(tokenTypeField) /\ Adding(tokenStatsNestingChildrenCount) /\ Adding(tokenParentIdIndex)
  /\ Adding(createTableEvmTransactions) /\ Adding(tokenOwners) /\ Adding(updateNestedData)
  /\ Adding(addIndexTokensOwners) /\ Adding(indexEvents)
<1>1. Adding(initDbSchema)
  BY InitAddsFirst, InitAddsSecond, InitAddsThird, InitAddsFourth, InitAddsKeys, Join, GeneratedAdding
  DEF initDbSchema
<1>2. \A t, cols : All("adds", << AddColumns(t, cols) >>)
  BY Additions, All1
<1>3. Adding(collectionsPropertiesAttributesSchema) /\ Adding(tokensPropertiesAttributesSchema)
  BY <1>2, GeneratedAdding DEF collectionsPropertiesAttributesSchema, tokensPropertiesAttributesSchema
<1>4. Adding(isSoldTokenField) /\ Adding(tokensAddTokenNameField) /\ Adding(addedEventValuesField)
  BY <1>2, GeneratedAdding DEF isSoldTokenField, tokensAddTokenNameField, addedEventValuesField
<1>5. Adding(extrinsicsAddressesEncode) /\ Adding(extrinsicsFeeRecalculation) /\ Adding(updateNestedData)
  BY EmptyAdding DEF extrinsicsAddressesEncode, extrinsicsFeeRecalculation, updateNestedData
<1>6. Adding(collectionsPropertiesPermissions)
  BY <1>2, GeneratedAdding DEF collectionsPropertiesPermissions
<1>7. \A t, cols, t2, cols2 : All("adds", << AddColumns(t, cols), AddColumns(t2, cols2) >>)
  BY Additions, All2
<1>8. Adding(wasBurnForCollectionsAndTokens) /\ Adding(collectionsPermissions)
      /\ Adding(tokenStatsNestingChildrenCount)
  BY <1>7, GeneratedAdding DEF wasBurnForCollectionsAndTokens, collectionsPermissions, tokenStatsNestingChildrenCount
<1>9. Adding(createContractModel)
  BY ColumnNames, Additions, All2, GeneratedAdding, ZenonT(30) DEF createContractModel
<1>10. Adding(tokenTypeField)
  BY Additions, All3, GeneratedAdding DEF tokenTypeField
<1>11. Adding(tokenParentIdIndex) /\ Adding(addIndexTokensOwners)
  BY Additions, All1, GeneratedAdding DEF tokenParentIdIndex, addIndexTokensOwners
<1>12. Adding(createTableEvmTransactions)
  BY ColumnNames, Additions, All2, GeneratedAdding, ZenonT(30) DEF createTableEvmTransactions
<1>13. Adding(tokenOwners)
  BY ColumnNames, Additions, All1, GeneratedAdding, ZenonT(30) DEF tokenOwners
<1>14. Adding(indexEvents)
  BY Additions, All4, GeneratedAdding DEF indexEvents
<1>15. QED
  BY <1>1, <1>3, <1>4, <1>5, <1>6, <1>8, <1>9, <1>10, <1>11, <1>12, <1>13, <1>14

LEMMA AddingIsPlain == \A m : Adding(m) => Plain(m)
BY DEF Adding, Plain, Adds, Gentle

\* The other migrations of tables and columns.
LEMMA OtherFiles ==
  /\ Plain(collectionFkeyAllowNull) /\ Plain(tokensAddConstraint) /\ Plain(removeAccountBalanceField)
  /\ Plain(createTokensStatsCollection) /\ Plain(tokenDataAndImageFieldsRework)
  /\ Plain(removeFkBetweenTokensAndCollections) /\ Plain(removeExtrinsicArgsField) /\ Plain(removeAccountNonce)
  /\ Plain(removeBlockDeprecatedFields) /\ Plain(eventDataChangeType) /\ Plain(tokenTypeFieldAdd)
  /\ Plain(updateNested) /\ Plain(changeTypeTokens) /\ Plain(typeTokensOwners) /\ Plain(nestedRftOwners)
  /\ Plain(schemasV2) /\ Plain(addMoreV2Fields)
<1>1. Plain(collectionFkeyAllowNull)
  BY Additions, Turnings, All5, GeneratedPlain DEF collectionFkeyAllowNull
<1>2. Plain(tokensAddConstraint)
  <2>1. TokensPkey({"id"}).on # {}
    BY DEF TokensPkey
  <2>2. QED
    BY <2>1, Additions, Turnings, All2, GeneratedPlain DEF tokensAddConstraint
<1>3. \A t, cols : All("turns", << DropColumns(t, cols) >>)
  BY Turnings, All1
<1>4. Plain(removeAccountBalanceField) /\ Plain(removeExtrinsicArgsField) /\ Plain(removeAccountNonce)
  BY <1>3, GeneratedPlain DEF removeAccountBalanceField, removeExtrinsicArgsField, removeAccountNonce
<1>5. Plain(createTokensStatsCollection)
  <2>1. CollectionsStatsUnique.on # {}
    BY DEF CollectionsStatsUnique
  <2>2. QED
    BY <2>1, ColumnNames, Additions, Turnings, All5, GeneratedPlain, ZenonT(30) DEF createTokensStatsCollection
<1>6. Plain(tokenDataAndImageFieldsRework)
  BY Additions, Turnings, All3, GeneratedPlain DEF tokenDataAndImageFieldsRework
<1>7. Plain(removeFkBetweenTokensAndCollections)
  BY Turnings, All1, GeneratedPlain DEF removeFkBetweenTokensAndCollections
<1>8. Plain(removeBlockDeprecatedFields)
  <2>1. NeedRescan.on # {}
    BY DEF NeedRescan
  <2>2. QED
    BY <2>1, Turnings, All4, GeneratedPlain DEF removeBlockDeprecatedFields
<1>9. \A t, need, need2, type, type2, c :
         All("fine", << AlterColumn(t, Col(need, type, c), Col(need2, type2, c)) >>)
  BY Turnings, KindsNest, All1
<1>10. All("fine", << Rejected >>)
  BY Scripts, All1
<1>11. Plain(eventDataChangeType) /\ Plain(changeTypeTokens)
  BY <1>9, <1>10, AllNone, WrittenPlain DEF eventDataChangeType, changeTypeTokens
<1>12. Plain(tokenTypeFieldAdd)
  <2>1. All("fine", << AddColumns("tokens", Default("integer", {"total_pieces"})),
                 RenameType("tokens_type_enum", "_tokens_type_enum"), RenameColumn("tokens", "type", "m_type"),
                 CreateType("tokens_type_enum", {"NFT", "RFT", "FRACTIONAL", "NESTED"}),
                 AddColumns("tokens", Default("tokens_type_enum", {"type"})),
                 DropColumns("tokens", Default("_tokens_type_enum", {"m_type"})) >>)
    BY Additions, Turnings, Scripts, KindsNest, All6
  <2>2. All("fine", << DropType("tokens_type_enum"), Rejected >>)
    BY Scripts, All2
  <2>3. QED
    BY <2>1, <2>2, WrittenPlain DEF tokenTypeFieldAdd
<1>13. Plain(updateNested)
  BY Turnings, All1, GeneratedPlain DEF updateNested
<1>14. Plain(typeTokensOwners) /\ Plain(nestedRftOwners)
  BY <1>10, Turnings, KindsNest, All2, All3, WrittenPlain DEF typeTokensOwners, nestedRftOwners
<1>15. Plain(addMoreV2Fields)
  BY Additions, Turnings, All4, GeneratedPlain DEF addMoreV2Fields
<1>16. Plain(schemasV2)
  BY ColumnNames, Additions, Turnings, All9, GeneratedPlain, ZenonT(30) DEF schemasV2
<1>17. QED
  BY <1>1, <1>2, <1>4, <1>5, <1>6, <1>7, <1>8, <1>11, <1>12, <1>13, <1>14, <1>15, <1>16

\* The one that empties a table: only that of the parts of tokens.
GentleBut(s, t) == Gentle(s) \/ s = Truncate(t)
LEMMA OwnersFile ==
  /\ Good(unqindexTokensOwners)
  /\ \A s \in ToSet(unqindexTokensOwners.up) : GentleBut(s, "tokens_owners")
<1>1. All("adds", UniqueOwner)
  BY Additions, All1 DEF UniqueOwner
<1>2. IsSeq(UniqueOwner) /\ \A s \in ToSet(UniqueOwner) : Proper(s) /\ Adds(s) /\ HasConverse(s) /\ Gentle(s)
  BY <1>1 DEF All, Of, Adds, HasConverse, Gentle
<1>3. Proper(Truncate("tokens_owners"))
  BY DEF Proper, Operations, Truncate
<1> DEFINE first == << Truncate("tokens_owners") >>
<1>4. IsSeq(first) /\ ToSet(first) \subseteq {Truncate("tokens_owners")}
  <2>1. first \in Seq({Truncate("tokens_owners")})
    OBVIOUS
  <2>2. QED
    BY <2>1, SeqOfSet
<1> HIDE DEF first
<1>5. /\ IsSeq(first \o UniqueOwner)
      /\ \A s \in ToSet(first \o UniqueOwner) : Proper(s) /\ GentleBut(s, "tokens_owners")
  BY <1>2, <1>3, <1>4, ConcatFacts DEF GentleBut
<1>6. \A c \in ToSet(Undo(UniqueOwner)) : Proper(c)
  BY <1>2, UndoFacts, ConverseProper
<1>7. Good(unqindexTokensOwners)
  BY <1>2, <1>5, <1>6, UndoFacts, MigrationGood DEF unqindexTokensOwners, first
<1>8. unqindexTokensOwners.up = first \o UniqueOwner
  BY DEF unqindexTokensOwners, Migration, first
<1>9. QED
  BY <1>5, <1>7, <1>8

(* The files that only add, and whose "down" takes that back.              *)
Additive == {1, 5, 7, 11, 18, 23, 24, 25, 26, 28, 31, 32, 33, 36, 38, 40, 44, 46, 48, 52}

LEMMA Fifty4 == LastFile = 54 /\ UniqueOwners = 50
BY DEF LastFile, Files, UniqueOwners

LEMMA FilesFacts ==
  /\ \A i \in 1..LastFile : Good(Files[i])
  /\ \A i \in 1..LastFile : i # UniqueOwners => \A s \in ToSet(Files[i].up) : Gentle(s)
  /\ \A s \in ToSet(Files[UniqueOwners].up) : GentleBut(s, "tokens_owners")
  /\ \A i \in Additive : Adding(Files[i])
<1> USE AddingFiles, AddingIsPlain, TotalsFiles, StatisticsFiles, OtherFiles
<1>1. \A i \in 1..9 : Plain(Files[i])
  <2>1. Plain(Files[1]) /\ Plain(Files[2]) /\ Plain(Files[3]) /\ Plain(Files[4]) /\ Plain(Files[5])
    BY DEF Files
  <2>2. Plain(Files[6]) /\ Plain(Files[7]) /\ Plain(Files[8]) /\ Plain(Files[9])
    BY DEF Files
  <2>3. QED
    BY <2>1, <2>2
<1>2. \A i \in 10..18 : Plain(Files[i])
  <2>1. Plain(Files[10]) /\ Plain(Files[11]) /\ Plain(Files[12]) /\ Plain(Files[13]) /\ Plain(Files[14])
    BY DEF Files
  <2>2. Plain(Files[15]) /\ Plain(Files[16]) /\ Plain(Files[17]) /\ Plain(Files[18])
    BY DEF Files
  <2>3. QED
    BY <2>1, <2>2
<1>3. \A i \in 19..27 : Plain(Files[i])
  <2>1. Plain(Files[19]) /\ Plain(Files[20]) /\ Plain(Files[21]) /\ Plain(Files[22]) /\ Plain(Files[23])
    BY DEF Files
  <2>2. Plain(Files[24]) /\ Plain(Files[25]) /\ Plain(Files[26]) /\ Plain(Files[27])
    BY DEF Files
  <2>3. QED
    BY <2>1, <2>2
<1>4. \A i \in 28..36 : Plain(Files[i])
  <2>1. Plain(Files[28]) /\ Plain(Files[29]) /\ Plain(Files[30]) /\ Plain(Files[31]) /\ Plain(Files[32])
    BY DEF Files
  <2>2. Plain(Files[33]) /\ Plain(Files[34]) /\ Plain(Files[35]) /\ Plain(Files[36])
    BY DEF Files
  <2>3. QED
    BY <2>1, <2>2
<1>5. \A i \in 37..45 : Plain(Files[i])
  <2>1. Plain(Files[37]) /\ Plain(Files[38]) /\ Plain(Files[39]) /\ Plain(Files[40]) /\ Plain(Files[41])
    BY DEF Files
  <2>2. Plain(Files[42]) /\ Plain(Files[43]) /\ Plain(Files[44]) /\ Plain(Files[45])
    BY DEF Files
  <2>3. QED
    BY <2>1, <2>2
<1>6. \A i \in 46..54 : i # 50 => Plain(Files[i])
  <2>1. Plain(Files[46]) /\ Plain(Files[47]) /\ Plain(Files[48]) /\ Plain(Files[49])
    BY DEF Files
  <2>2. Plain(Files[51]) /\ Plain(Files[52]) /\ Plain(Files[53]) /\ Plain(Files[54])
    BY DEF Files
  <2>3. QED
    BY <2>1, <2>2
<1>7. Files[50] = unqindexTokensOwners
  BY DEF Files
<1>8. \A i \in 1..54 : i # 50 => Plain(Files[i])
  <2>1. TAKE i \in 1..54
  <2>2. i \in 1..9 \/ i \in 10..18 \/ i \in 19..27 \/ i \in 28..36 \/ i \in 37..45 \/ i \in 46..54
    OBVIOUS
  <2>3. QED
    BY <2>2, <1>1, <1>2, <1>3, <1>4, <1>5, <1>6
<1>9. \A i \in Additive : Adding(Files[i])
  <2>1. Adding(Files[1]) /\ Adding(Files[5]) /\ Adding(Files[7]) /\ Adding(Files[11]) /\ Adding(Files[18])
    BY DEF Files
  <2>2. Adding(Files[23]) /\ Adding(Files[24]) /\ Adding(Files[25]) /\ Adding(Files[26]) /\ Adding(Files[28])
    BY DEF Files
  <2>3. Adding(Files[31]) /\ Adding(Files[32]) /\ Adding(Files[33]) /\ Adding(Files[36]) /\ Adding(Files[38])
    BY DEF Files
  <2>4. Adding(Files[40]) /\ Adding(Files[44]) /\ Adding(Files[46]) /\ Adding(Files[48]) /\ Adding(Files[52])
    BY DEF Files
  <2>5. QED
    BY <2>1, <2>2, <2>3, <2>4 DEF Additive
<1>10. \A i \in 1..54 : Good(Files[i])
  BY <1>7, <1>8, OwnersFile DEF Plain
<1>11. \A i \in 1..54 : i # 50 => \A s \in ToSet(Files[i].up) : Gentle(s)
  BY <1>8 DEF Plain
<1>12. QED
  BY <1>7, <1>9, <1>10, <1>11, OwnersFile, Fifty4

-----------------------------------------------------------------------------
(***************************************************************************)
(* The recursions: running statements, running migrations, moving counters *)
(* and choosing what to run.                                               *)
(***************************************************************************)
ExecSteps(d, s, n, f) == [k \in 0..n |-> IF k = 0 THEN d ELSE Exec(f[k - 1], s[k])]

\* The recursion of ExecAll has a solution.
LEMMA ExecAllExists ==
  ASSUME NEW d, NEW s, NEW n \in Nat
  PROVE  \E f : f = ExecSteps(d, s, n, f)
<1> DEFINE Solves(f, m) == f = [k \in 0..m |-> IF k = 0 THEN d ELSE Exec(f[k - 1], s[k])]
           S == {m \in 0..n : \E f : Solves(f, m)}
<1>1. \E f : Solves(f, 0)
  <2>1. Solves([k \in 0..0 |-> d], 0)
    OBVIOUS
  <2> HIDE DEF Solves
  <2>2. QED
    BY <2>1
<1>2. ASSUME NEW m \in 0..(n - 1), m \in S PROVE m + 1 \in S
  <2>1. PICK f : Solves(f, m)
    <3> HIDE DEF Solves
    <3>1. QED
      BY <1>2
  <2> DEFINE g == [k \in 0..(m + 1) |-> IF k \in 0..m THEN f[k] ELSE Exec(f[k - 1], s[k])]
  <2>2. ASSUME NEW k \in 0..(m + 1)
        PROVE  g[k] = IF k = 0 THEN d ELSE Exec(g[k - 1], s[k])
    <3>1. CASE k = 0
      BY <2>1, <3>1
    <3>2. CASE k # 0
      <4>1. k - 1 \in 0..m /\ k - 1 \in 0..(m + 1)
        BY <3>2
      <4>2. g[k - 1] = f[k - 1]
        BY <4>1
      <4>3. g[k] = Exec(f[k - 1], s[k])
        BY <2>1, <3>2
      <4>4. QED
        BY <3>2, <4>2, <4>3
    <3>3. QED
      BY <3>1, <3>2
  <2>3. Solves(g, m + 1)
    BY <2>2
  <2>4. QED
    <3> HIDE DEF g, Solves
    <3>1. QED
      BY <2>3
<1>3. \A m \in 0..n : m \in S
  <2>1. 0 \in S
    <3> HIDE DEF Solves
    <3>1. QED
      BY <1>1
  <2> HIDE DEF S
  <2>2. QED
    BY <1>2, <2>1, UpTo
<1>4. \E f : Solves(f, n)
  <2> HIDE DEF Solves
  <2>1. QED
    BY <1>3
<1>5. QED
  BY <1>4 DEF ExecSteps

\* f holds the databases between the statements of s.
Passes(d, s, n, f) ==
  /\ ExecAll(d, s) = f[n] /\ f[0] = d
  /\ \A k \in 1..n : f[k] = Exec(f[k - 1], s[k])

LEMMA ExecAllRuns ==
  ASSUME NEW d, NEW s, NEW n \in Nat, Len(s) = n
  PROVE  \E f : Passes(d, s, n, f)
<1> DEFINE Step(f) == ExecSteps(d, s, n, f)
           after == CHOOSE f : f = Step(f)
<1>1. ExecAll(d, s) = after[n]
  BY DEF ExecAll, ExecSteps
<1>2. after = Step(after)
  <2>1. \E f : f = Step(f)
    BY ExecAllExists
  <2>2. QED
    BY <2>1
<1> HIDE DEF after
<1>3. after[0] = d
  BY <1>2 DEF ExecSteps
<1>4. \A k \in 1..n : after[k] = Exec(after[k - 1], s[k])
  BY <1>2 DEF ExecSteps
<1>5. Passes(d, s, n, after)
  BY <1>1, <1>3, <1>4 DEF Passes
<1>6. QED
  BY <1>5

LEMMA ExecAllUnfolds ==
  ASSUME NEW d, NEW s, NEW n \in Nat, Len(s) = n
  PROVE  \E f : /\ ExecAll(d, s) = f[n] /\ f[0] = d
                /\ \A k \in 1..n : f[k] = Exec(f[k - 1], s[k])
<1>1. PICK f : Passes(d, s, n, f)
  BY ExecAllRuns
<1>2. /\ ExecAll(d, s) = f[n] /\ f[0] = d
      /\ \A k \in 1..n : f[k] = Exec(f[k - 1], s[k])
  BY <1>1 DEF Passes
<1>3. QED
  BY <1>2

UpSteps(d, order, n, f) ==
  [k \in 0..n |-> IF k = 0 THEN d ELSE CHOOSE r \in {ExecAll(x, Files[order[k]].up) : x \in {f[k - 1]}} : TRUE]

\* The recursion of Up has a solution.
LEMMA UpExists ==
  ASSUME NEW d, NEW order, NEW n \in Nat
  PROVE  \E f : f = UpSteps(d, order, n, f)
<1> DEFINE Solves(f, m) == f = [k \in 0..m |-> IF k = 0 THEN d ELSE CHOOSE r \in {ExecAll(x, Files[order[k]].up) : x \in {f[k - 1]}} : TRUE]
           S == {m \in 0..n : \E f : Solves(f, m)}
<1>1. \E f : Solves(f, 0)
  <2>1. Solves([k \in 0..0 |-> d], 0)
    OBVIOUS
  <2> HIDE DEF Solves
  <2>2. QED
    BY <2>1
<1>2. ASSUME NEW m \in 0..(n - 1), m \in S PROVE m + 1 \in S
  <2>1. PICK f : Solves(f, m)
    <3> HIDE DEF Solves
    <3>1. QED
      BY <1>2
  <2> DEFINE g == [k \in 0..(m + 1) |-> IF k \in 0..m THEN f[k] ELSE CHOOSE r \in {ExecAll(x, Files[order[k]].up) : x \in {f[k - 1]}} : TRUE]
  <2>2. ASSUME NEW k \in 0..(m + 1)
        PROVE  g[k] = IF k = 0 THEN d ELSE CHOOSE r \in {ExecAll(x, Files[order[k]].up) : x \in {g[k - 1]}} : TRUE
    <3>1. CASE k = 0
      BY <2>1, <3>1
    <3>2. CASE k # 0
      <4>1. k - 1 \in 0..m /\ k - 1 \in 0..(m + 1)
        BY <3>2
      <4>2. g[k - 1] = f[k - 1]
        BY <4>1
      <4>3. g[k] = CHOOSE r \in {ExecAll(x, Files[order[k]].up) : x \in {f[k - 1]}} : TRUE
        BY <2>1, <3>2
      <4>4. QED
        BY <3>2, <4>2, <4>3
    <3>3. QED
      BY <3>1, <3>2
  <2>3. Solves(g, m + 1)
    BY <2>2
  <2>4. QED
    <3> HIDE DEF g, Solves
    <3>1. QED
      BY <2>3
<1>3. \A m \in 0..n : m \in S
  <2>1. 0 \in S
    <3> HIDE DEF Solves
    <3>1. QED
      BY <1>1
  <2> HIDE DEF S
  <2>2. QED
    BY <1>2, <2>1, UpTo
<1>4. \E f : Solves(f, n)
  <2> HIDE DEF Solves
  <2>1. QED
    BY <1>3
<1>5. QED
  BY <1>4 DEF UpSteps

LEMMA UpUnfolds ==
  ASSUME NEW d, NEW order, NEW n \in Nat, Len(order) = n
  PROVE  \E f : /\ Up(d, order) = f[n] /\ f[0] = d
                /\ \A k \in 1..n : f[k] = ExecAll(f[k - 1], Files[order[k]].up)
<1> DEFINE Step(f) == UpSteps(d, order, n, f)
           after == CHOOSE f : f = Step(f)
<1>1. Up(d, order) = after[n]
  BY DEF Up, UpSteps
<1>2. after = Step(after)
  <2>1. \E f : f = Step(f)
    BY UpExists
  <2>2. QED
    BY <2>1
<1> HIDE DEF after
<1>3. after[0] = d
  BY <1>2 DEF UpSteps
<1>4. ASSUME NEW k \in 1..n PROVE after[k] = ExecAll(after[k - 1], Files[order[k]].up)
  <2> DEFINE results == {ExecAll(x, Files[order[k]].up) : x \in {after[k - 1]}}
  <2>1. after[k] = CHOOSE r \in results : TRUE
    BY <1>2 DEF UpSteps
  <2>2. results = {ExecAll(after[k - 1], Files[order[k]].up)}
    OBVIOUS
  <2> HIDE DEF results
  <2>3. QED
    BY <2>1, <2>2
<1>5. QED
  BY <1>1, <1>3, <1>4

BumpSteps(d, order, i, n, f) == [k \in 0..n |-> IF k = 0 THEN d ELSE Bump(f[k - 1], order[k].counter, i)]

\* The recursion of BumpAll has a solution.
LEMMA BumpExists ==
  ASSUME NEW d, NEW order, NEW i, NEW n \in Nat
  PROVE  \E f : f = BumpSteps(d, order, i, n, f)
<1> DEFINE Solves(f, m) == f = [k \in 0..m |-> IF k = 0 THEN d ELSE Bump(f[k - 1], order[k].counter, i)]
           S == {m \in 0..n : \E f : Solves(f, m)}
<1>1. \E f : Solves(f, 0)
  <2>1. Solves([k \in 0..0 |-> d], 0)
    OBVIOUS
  <2> HIDE DEF Solves
  <2>2. QED
    BY <2>1
<1>2. ASSUME NEW m \in 0..(n - 1), m \in S PROVE m + 1 \in S
  <2>1. PICK f : Solves(f, m)
    <3> HIDE DEF Solves
    <3>1. QED
      BY <1>2
  <2> DEFINE g == [k \in 0..(m + 1) |-> IF k \in 0..m THEN f[k] ELSE Bump(f[k - 1], order[k].counter, i)]
  <2>2. ASSUME NEW k \in 0..(m + 1)
        PROVE  g[k] = IF k = 0 THEN d ELSE Bump(g[k - 1], order[k].counter, i)
    <3>1. CASE k = 0
      BY <2>1, <3>1
    <3>2. CASE k # 0
      <4>1. k - 1 \in 0..m /\ k - 1 \in 0..(m + 1)
        BY <3>2
      <4>2. g[k - 1] = f[k - 1]
        BY <4>1
      <4>3. g[k] = Bump(f[k - 1], order[k].counter, i)
        BY <2>1, <3>2
      <4>4. QED
        BY <3>2, <4>2, <4>3
    <3>3. QED
      BY <3>1, <3>2
  <2>3. Solves(g, m + 1)
    BY <2>2
  <2>4. QED
    <3> HIDE DEF g, Solves
    <3>1. QED
      BY <2>3
<1>3. \A m \in 0..n : m \in S
  <2>1. 0 \in S
    <3> HIDE DEF Solves
    <3>1. QED
      BY <1>1
  <2> HIDE DEF S
  <2>2. QED
    BY <1>2, <2>1, UpTo
<1>4. \E f : Solves(f, n)
  <2> HIDE DEF Solves
  <2>1. QED
    BY <1>3
<1>5. QED
  BY <1>4 DEF BumpSteps

OrderSteps(pending, n, f) ==
  [k \in 0..n |-> IF k = 0 THEN <<>>
                  ELSE IF TypeormOrder[k] \in pending THEN Append(f[k - 1], TypeormOrder[k]) ELSE f[k - 1]]

\* The recursion of RunOrder has a solution.
LEMMA RunOrderExists ==
  ASSUME NEW pending, NEW n \in Nat
  PROVE  \E f : f = OrderSteps(pending, n, f)
<1> DEFINE Solves(f, m) == f = [k \in 0..m |-> IF k = 0 THEN <<>> ELSE IF TypeormOrder[k] \in pending THEN Append(f[k - 1], TypeormOrder[k]) ELSE f[k - 1]]
           S == {m \in 0..n : \E f : Solves(f, m)}
<1>1. \E f : Solves(f, 0)
  <2>1. Solves([k \in 0..0 |-> <<>>], 0)
    OBVIOUS
  <2> HIDE DEF Solves
  <2>2. QED
    BY <2>1
<1>2. ASSUME NEW m \in 0..(n - 1), m \in S PROVE m + 1 \in S
  <2>1. PICK f : Solves(f, m)
    <3> HIDE DEF Solves
    <3>1. QED
      BY <1>2
  <2> DEFINE g == [k \in 0..(m + 1) |-> IF k \in 0..m THEN f[k] ELSE IF TypeormOrder[k] \in pending THEN Append(f[k - 1], TypeormOrder[k]) ELSE f[k - 1]]
  <2>2. ASSUME NEW k \in 0..(m + 1)
        PROVE  g[k] = IF k = 0 THEN <<>> ELSE IF TypeormOrder[k] \in pending THEN Append(g[k - 1], TypeormOrder[k]) ELSE g[k - 1]
    <3>1. CASE k = 0
      BY <2>1, <3>1
    <3>2. CASE k # 0
      <4>1. k - 1 \in 0..m /\ k - 1 \in 0..(m + 1)
        BY <3>2
      <4>2. g[k - 1] = f[k - 1]
        BY <4>1
      <4>3. g[k] = IF TypeormOrder[k] \in pending THEN Append(f[k - 1], TypeormOrder[k]) ELSE f[k - 1]
        BY <2>1, <3>2
      <4>4. QED
        BY <3>2, <4>2, <4>3
    <3>3. QED
      BY <3>1, <3>2
  <2>3. Solves(g, m + 1)
    BY <2>2
  <2>4. QED
    <3> HIDE DEF g, Solves
    <3>1. QED
      BY <2>3
<1>3. \A m \in 0..n : m \in S
  <2>1. 0 \in S
    <3> HIDE DEF Solves
    <3>1. QED
      BY <1>1
  <2> HIDE DEF S
  <2>2. QED
    BY <1>2, <2>1, UpTo
<1>4. \E f : Solves(f, n)
  <2> HIDE DEF Solves
  <2>1. QED
    BY <1>3
<1>5. QED
  BY <1>4 DEF OrderSteps

LEMMA SetToSeqLength ==
  ASSUME NEW S, IsFiniteSet(S)
  PROVE  Len(SetToSeq(S)) \in Nat
<1> DEFINE n == Cardinality(S)
           Lists(f) == f \in [1..n -> S] /\ IsInjective(f)
<1>1. n \in Nat /\ ExistsBijection(1..n, S)
  BY FS_CardinalityType
<1>2. \E f : Lists(f)
  BY <1>1 DEF ExistsBijection, Bijection, Injection
<1>3. SetToSeq(S) = CHOOSE f \in [1..n -> S] : IsInjective(f)
  BY DEF SetToSeq
<1>4. SetToSeq(S) \in [1..n -> S]
  BY <1>2, <1>3
<1>5. QED
  <2> HIDE DEF n
  <2>1. QED
    BY <1>1, <1>4

LEMMA BumpAllUnfolds ==
  ASSUME NEW d, NEW moves, NEW i, IsFiniteSet(moves)
  PROVE  /\ Len(SetToSeq(moves)) \in Nat
         /\ \E f : /\ BumpAll(d, moves, i) = f[Len(SetToSeq(moves))] /\ f[0] = d
                  /\ \A k \in 1..Len(SetToSeq(moves)) :
                        f[k] = Bump(f[k - 1], SetToSeq(moves)[k].counter, i)
<1> DEFINE order == SetToSeq(moves)
           n == Len(order)
           Step(f) == BumpSteps(d, order, i, n, f)
           after == CHOOSE f : f = Step(f)
<1>1. n \in Nat
  BY SetToSeqLength
<1>2. BumpAll(d, moves, i) = after[n]
  BY DEF BumpAll, BumpSteps
<1> HIDE DEF order, n
<1>3. \E f : f = Step(f)
  BY <1>1, BumpExists
<1>4. after = Step(after)
  BY <1>3
<1> HIDE DEF after
<1>5. after[0] = d /\ \A k \in 1..n : after[k] = Bump(after[k - 1], order[k].counter, i)
  BY <1>1, <1>4 DEF BumpSteps
<1>6. QED
  BY <1>1, <1>2, <1>5 DEF order, n

LEMMA RunOrderFacts ==
  ASSUME NEW pending
  PROVE  RunOrder(pending) \in Seq(pending \cap (1..LastFile))
<1> DEFINE n == LastFile
           T == pending \cap (1..LastFile)
           Step(f) == OrderSteps(pending, n, f)
           after == CHOOSE f : f = Step(f)
           S == {k \in 0..n : after[k] \in Seq(T)}
<1>1. n \in Nat /\ n = 54
  BY Fifty4
<1>2. RunOrder(pending) = after[n]
  BY DEF RunOrder, OrderSteps
<1>3. \A k \in 1..n : TypeormOrder[k] \in 1..n
  BY Fifty4 DEF TypeormOrder, NestedRft
<1>4. 1..LastFile = 1..n /\ T = pending \cap (1..n)
  OBVIOUS
<1> HIDE DEF n
<1>5. \E f : f = Step(f)
  BY <1>1, RunOrderExists
<1>6. after = Step(after)
  BY <1>5
<1> HIDE DEF after
<1>7. 0 \in S
  BY <1>1, <1>6 DEF OrderSteps
<1>8. ASSUME NEW k \in 0..(n - 1), k \in S PROVE k + 1 \in S
  <2>1. k + 1 \in 1..n /\ k + 1 \in 0..n /\ k + 1 # 0 /\ (k + 1) - 1 = k
    BY <1>1
  <2>2. after[k + 1] = IF TypeormOrder[k + 1] \in pending THEN Append(after[k], TypeormOrder[k + 1]) ELSE after[k]
    <3>1. after[k + 1] = IF TypeormOrder[k + 1] \in pending THEN Append(after[(k + 1) - 1], TypeormOrder[k + 1])
                         ELSE after[(k + 1) - 1]
      BY <1>6, <2>1 DEF OrderSteps
    <3>2. QED
      BY <2>1, <3>1
  <2>3. after[k] \in Seq(T)
    BY <1>8
  <2>4. TypeormOrder[k + 1] \in pending => TypeormOrder[k + 1] \in T
    BY <1>3, <1>4, <2>1
  <2> HIDE DEF T
  <2>5. after[k + 1] \in Seq(T)
    BY <2>2, <2>3, <2>4
  <2>6. QED
    BY <2>1, <2>5
<1>9. \A k \in 0..n : k \in S
  <2> HIDE DEF S
  <2>1. QED
    BY <1>1, <1>7, <1>8, UpTo
<1>10. QED
  BY <1>1, <1>2, <1>9

-----------------------------------------------------------------------------
(***************************************************************************)
(* What a statement does to a database.                                    *)
(***************************************************************************)
IsDatabase(d) ==
  /\ d.ok \in BOOLEAN
  /\ d = [ok |-> d.ok, tables |-> d.tables, columns |-> d.columns, indexes |-> d.indexes, keys |-> d.keys,
          types |-> d.types, functions |-> d.functions, triggers |-> d.triggers, rows |-> d.rows,
          burned |-> d.burned, count |-> d.count]


LEMMA EffectShape ==
  ASSUME NEW d, NEW s, IsDatabase(d), Proper(s), s.op # "rejected"
  PROVE  IsDatabase(Effect(d, s)) /\ Effect(d, s).ok = d.ok
<1> USE DEF IsDatabase
<1>1. CASE s.op \in {"create table", "drop table", "add columns", "add columns if missing"}
  BY <1>1 DEF Effect
<1>2. CASE s.op \in {"drop columns", "alter column", "rename column", "create index", "drop index"}
  BY <1>2 DEF Effect, WithoutColumns
<1>3. CASE s.op \in {"add key", "drop key", "create type", "drop type", "rename type"}
  BY <1>3 DEF Effect
<1>4. CASE s.op \in {"replace function", "drop function", "drop function if exists", "create trigger",
                     "drop trigger", "drop trigger if exists"}
  BY <1>4 DEF Effect
<1>5. CASE s.op \in {"truncate", "update count", "upsert count", "insert count", "upsert positive count"}
  BY <1>5 DEF Effect, WithCount
<1>6. CASE s.op \in {"delete collections_stats", "insert collections_stats"}
  BY <1>6 DEF Effect
<1>7. QED
  BY <1>1, <1>2, <1>3, <1>4, <1>5, <1>6 DEF Proper, Operations

\* The columns, indexes, keys and triggers of d are those of its tables, and its triggers
\* have functions that count finitely many things.
ColumnsIn(d) == \A x \in d.columns : x.table \in d.tables
HasColumn(d, t, n) == \E x \in d.columns : x.table = t /\ x.def.column = n
IndexesIn(d) == \A i \in d.indexes : i.on # {} /\ \A n \in i.on : HasColumn(d, i.table, n)
KeysIn(d) == \A k \in d.keys : k.table \in d.tables /\ k.refers \in d.tables
TriggersIn(d) ==
  /\ \A tr \in d.triggers : tr.table \in d.tables /\ \E f \in d.functions : f.function = tr.function
  /\ IsFiniteSet(d.triggers)
Countable(d) == \A f \in d.functions : IsFiniteSet(f.body.counts)
Linked(d) == IsDatabase(d) /\ ColumnsIn(d) /\ IndexesIn(d) /\ KeysIn(d) /\ TriggersIn(d) /\ Countable(d)

LEMMA NamesOfFacts ==
  ASSUME NEW d, NEW t, NEW n
  PROVE  n \in NamesOf(d, t) <=> HasColumn(d, t, n)
BY DEF NamesOf, ColumnsOf, Names, HasColumn

LEMMA PlacedFacts ==
  /\ \A t, cols, x : x \in Placed(t, cols) => x.table = t /\ x.def \in cols
  /\ \A t, cols, c : c \in cols => [table |-> t, def |-> c] \in Placed(t, cols)
BY DEF Placed

LEMMA ValidFacts ==
  ASSUME NEW d, NEW s, Valid(d, s)
  PROVE  /\ s.op = "create table" => s.table \notin d.tables
         /\ s.op = "drop table" => \A k \in d.keys : k.refers = s.table => k.table = s.table
         /\ s.op = "add columns" => s.table \in d.tables /\ Names(s.columns) \cap NamesOf(d, s.table) = {}
         /\ s.op = "add columns if missing" => s.table \in d.tables
         /\ s.op = "alter column" => s.from.column \in NamesOf(d, s.table)
         /\ s.op = "rename column" => s.from \in NamesOf(d, s.table)
         /\ s.op = "create index" => /\ s.on \subseteq NamesOf(d, s.table)
                                     /\ s.index \notin {i.index : i \in d.indexes}
         /\ s.op = "add key" => /\ s.table \in d.tables /\ s.key \notin {k.key : k \in d.keys}
                                /\ HasUnique(d, s.refers, s.on)
         /\ s.op = "create type" => s.type \notin {x.type : x \in d.types}
         /\ s.op \in {"drop function", "drop function if exists"} => Using(d, s.function) = {}
         /\ s.op = "create trigger" => s.table \in d.tables /\ s.function \in {x.function : x \in d.functions}
         /\ s.op # "rejected"
<1>1. s.op = "create table" => s.table \notin d.tables
  BY DEF Valid
<1>2. s.op = "drop table" => \A k \in d.keys : k.refers = s.table => k.table = s.table
  BY DEF Valid
<1>3. s.op = "add columns" => s.table \in d.tables /\ Names(s.columns) \cap NamesOf(d, s.table) = {}
  BY DEF Valid
<1>4. s.op = "add columns if missing" => s.table \in d.tables
  BY DEF Valid
<1>5. s.op = "alter column" => s.from.column \in NamesOf(d, s.table)
  BY DEF Valid
<1>6. s.op = "rename column" => s.from \in NamesOf(d, s.table)
  BY DEF Valid
<1>7. s.op = "create index" => s.on \subseteq NamesOf(d, s.table) /\ s.index \notin {i.index : i \in d.indexes}
  BY DEF Valid
<1>8. s.op = "add key" => s.table \in d.tables /\ s.key \notin {k.key : k \in d.keys}
  BY DEF Valid
<1>9. s.op = "add key" => HasUnique(d, s.refers, s.on)
  BY DEF Valid
<1>10. s.op = "create type" => s.type \notin {x.type : x \in d.types}
  BY DEF Valid
<1>11. s.op \in {"drop function", "drop function if exists"} => Using(d, s.function) = {}
  BY DEF Valid
<1>12. s.op = "create trigger" => s.table \in d.tables /\ s.function \in {x.function : x \in d.functions}
  BY DEF Valid
<1>13. s.op # "rejected"
  BY DEF Valid
<1>14. QED
  BY <1>1, <1>2, <1>3, <1>4, <1>5, <1>6, <1>7, <1>8, <1>9, <1>10, <1>11, <1>12, <1>13

\* Keys and triggers stay linked where only columns and indexes change.
LEMMA LinksKept ==
  ASSUME NEW d, NEW e, d.tables \subseteq e.tables, KeysIn(d), TriggersIn(d), Countable(d)
  PROVE  /\ e.keys = d.keys => KeysIn(e)
         /\ e.functions = d.functions /\ e.triggers = d.triggers => TriggersIn(e) /\ Countable(e)
BY DEF KeysIn, TriggersIn, Countable

\* So do indexes where columns are added, and all of them where neither changes.
LEMMA IndexesKept ==
  ASSUME NEW d, NEW e, d.columns \subseteq e.columns, e.indexes \subseteq d.indexes, IndexesIn(d)
  PROVE  IndexesIn(e)
BY DEF IndexesIn, HasColumn
LEMMA ColumnsKept ==
  ASSUME NEW d, NEW e, e.columns \subseteq d.columns, d.tables \subseteq e.tables, ColumnsIn(d)
  PROVE  ColumnsIn(e)
BY DEF ColumnsIn

LEMMA LinkedCreateTable ==
  ASSUME NEW d, NEW s, Linked(d), Proper(s), Valid(d, s), s.op = "create table"
  PROVE  Linked(Effect(d, s))
<1> DEFINE e == Effect(d, s)
           pk == Index("PK_" \o s.table, s.table, s.primary, TRUE)
<1>1. IsDatabase(d) /\ IsDatabase(e)
  BY EffectShape, ValidFacts DEF Linked
<1>2. /\ e.tables = d.tables \cup {s.table} /\ e.columns = d.columns \cup Placed(s.table, s.columns)
      /\ e.indexes = d.indexes \cup {pk}
      /\ e.keys = d.keys /\ e.functions = d.functions /\ e.triggers = d.triggers
  BY <1>1 DEF Effect, IsDatabase
<1>3. pk.table = s.table /\ pk.on = s.primary
  BY DEF Index
<1> HIDE DEF e, pk
<1>4. \A n \in pk.on : HasColumn(e, pk.table, n)
  <2> TAKE n \in pk.on
  <2>1. PICK c \in s.columns : c.column = n
    BY <1>3 DEF Proper, Names
  <2> DEFINE x == [table |-> s.table, def |-> c]
  <2>2. x \in e.columns
    BY <1>2, PlacedFacts
  <2>3. x.table = s.table /\ x.def = c
    OBVIOUS
  <2>4. QED
    BY <1>3, <2>1, <2>2, <2>3 DEF HasColumn
<1>5. pk.on # {}
  BY <1>3 DEF Proper
<1>6. ColumnsIn(e)
  <2>1. \A x \in Placed(s.table, s.columns) : x.table = s.table
    BY PlacedFacts
  <2>2. QED
    BY <1>2, <2>1 DEF Linked, ColumnsIn
<1>7. \A i \in d.indexes : i.on # {} /\ \A n \in i.on : HasColumn(e, i.table, n)
  <2>1. \A t, n : HasColumn(d, t, n) => HasColumn(e, t, n)
    BY <1>2 DEF HasColumn
  <2>2. QED
    BY <2>1 DEF Linked, IndexesIn
<1>8. IndexesIn(e)
  BY <1>2, <1>4, <1>5, <1>7 DEF IndexesIn
<1>9. KeysIn(e) /\ TriggersIn(e) /\ Countable(e)
  BY <1>2, LinksKept DEF Linked
<1>10. QED
  BY <1>1, <1>6, <1>8, <1>9 DEF Linked, e

LEMMA LinkedDropTable ==
  ASSUME NEW d, NEW s, Linked(d), Proper(s), Valid(d, s), s.op = "drop table"
  PROVE  Linked(Effect(d, s))
<1> DEFINE e == Effect(d, s)
<1>1. IsDatabase(d) /\ IsDatabase(e)
  BY EffectShape, ValidFacts DEF Linked
<1>2. /\ e.tables = d.tables \ {s.table} /\ e.columns = {x \in d.columns : x.table # s.table}
      /\ e.indexes = {x \in d.indexes : x.table # s.table} /\ e.keys = {x \in d.keys : x.table # s.table}
      /\ e.functions = d.functions /\ e.triggers = {x \in d.triggers : x.table # s.table}
  BY <1>1 DEF Effect, IsDatabase
<1>3. \A k \in d.keys : k.refers = s.table => k.table = s.table
  BY ValidFacts
<1> HIDE DEF e
<1>4. ColumnsIn(e)
  BY <1>2 DEF Linked, ColumnsIn
<1>5. IndexesIn(e)
  <2>1. ASSUME NEW i \in e.indexes, NEW n \in i.on PROVE HasColumn(e, i.table, n)
    <3>1. PICK x \in d.columns : x.table = i.table /\ x.def.column = n
      BY <1>2, <2>1 DEF Linked, IndexesIn, HasColumn
    <3>2. x \in e.columns
      BY <1>2, <2>1, <3>1
    <3>3. QED
      BY <3>1, <3>2 DEF HasColumn
  <2>2. QED
    BY <1>2, <2>1 DEF Linked, IndexesIn
<1>6. KeysIn(e)
  BY <1>2, <1>3 DEF Linked, KeysIn
<1>7. TriggersIn(e)
  <2>1. IsFiniteSet(e.triggers)
    BY <1>2, FS_Subset DEF Linked, TriggersIn
  <2>2. QED
    BY <1>2, <2>1 DEF Linked, TriggersIn
<1>8. Countable(e)
  BY <1>2 DEF Linked, Countable
<1>9. QED
  BY <1>1, <1>4, <1>5, <1>6, <1>7, <1>8 DEF Linked, e

LEMMA LinkedAddColumns ==
  ASSUME NEW d, NEW s, Linked(d), Proper(s), Valid(d, s), s.op \in {"add columns", "add columns if missing"}
  PROVE  Linked(Effect(d, s))
<1> DEFINE e == Effect(d, s)
           cols == IF s.op = "add columns" THEN s.columns
                   ELSE {c \in s.columns : c.column \notin NamesOf(d, s.table)}
<1>1. IsDatabase(d) /\ IsDatabase(e)
  BY EffectShape, ValidFacts DEF Linked
<1>2. /\ e.tables = d.tables /\ e.columns = d.columns \cup Placed(s.table, cols)
      /\ e.indexes = d.indexes /\ e.keys = d.keys /\ e.functions = d.functions /\ e.triggers = d.triggers
  <2>1. CASE s.op = "add columns"
    BY <1>1, <2>1 DEF Effect, IsDatabase
  <2>2. CASE s.op = "add columns if missing"
    BY <1>1, <2>2 DEF Effect, IsDatabase
  <2>3. QED
    BY <2>1, <2>2
<1>3. s.table \in d.tables
  BY ValidFacts
<1> HIDE DEF e, cols
<1>4. ColumnsIn(e)
  <2>1. \A x \in Placed(s.table, cols) : x.table = s.table
    BY PlacedFacts
  <2>2. QED
    BY <1>2, <1>3, <2>1 DEF Linked, ColumnsIn
<1>5. IndexesIn(e)
  BY <1>2, IndexesKept DEF Linked
<1>6. KeysIn(e) /\ TriggersIn(e) /\ Countable(e)
  BY <1>2, LinksKept DEF Linked
<1>7. QED
  BY <1>1, <1>4, <1>5, <1>6 DEF Linked, e

LEMMA LinkedDropColumns ==
  ASSUME NEW d, NEW s, Linked(d), Proper(s), Valid(d, s), s.op = "drop columns"
  PROVE  Linked(Effect(d, s))
<1> DEFINE e == Effect(d, s)
           names == Names(s.columns)
<1>1. IsDatabase(d) /\ IsDatabase(e)
  BY EffectShape, ValidFacts DEF Linked
<1>2. /\ e.tables = d.tables /\ e.columns = d.columns \ At(d, s.table, names)
      /\ e.indexes = {i \in d.indexes : ~(i.table = s.table /\ i.on \cap names # {})}
      /\ e.keys = d.keys /\ e.functions = d.functions /\ e.triggers = d.triggers
  BY <1>1 DEF Effect, IsDatabase, WithoutColumns
<1> HIDE DEF e, names
<1>3. ASSUME NEW i \in e.indexes, NEW n \in i.on PROVE HasColumn(e, i.table, n)
  <2>1. PICK x \in d.columns : x.table = i.table /\ x.def.column = n
    BY <1>2 DEF Linked, IndexesIn, HasColumn
  <2>2. ~(x.table = s.table /\ x.def.column \in names)
    BY <1>2, <2>1
  <2>3. x \in e.columns
    BY <1>2, <2>2 DEF At
  <2>4. QED
    BY <2>1, <2>3 DEF HasColumn
<1>4. IndexesIn(e)
  BY <1>2, <1>3 DEF Linked, IndexesIn
<1>5. ColumnsIn(e)
  BY <1>2, ColumnsKept DEF Linked
<1>6. KeysIn(e) /\ TriggersIn(e) /\ Countable(e)
  BY <1>2, LinksKept DEF Linked
<1>7. QED
  BY <1>1, <1>4, <1>5, <1>6 DEF Linked, e

LEMMA LinkedAlterColumn ==
  ASSUME NEW d, NEW s, Linked(d), Proper(s), Valid(d, s), s.op = "alter column"
  PROVE  Linked(Effect(d, s))
<1> DEFINE e == Effect(d, s)
           gone == At(d, s.table, {s.from.column})
           new == [table |-> s.table, def |-> s.to]
<1>1. IsDatabase(d) /\ IsDatabase(e)
  BY EffectShape, ValidFacts DEF Linked
<1>2. /\ e.tables = d.tables /\ e.columns = (d.columns \ gone) \cup {new}
      /\ e.indexes = d.indexes /\ e.keys = d.keys /\ e.functions = d.functions /\ e.triggers = d.triggers
  <2>1. Placed(s.table, {s.to}) = {new}
    BY DEF Placed
  <2>2. QED
    BY <1>1, <2>1 DEF Effect, IsDatabase
<1>3. new.table = s.table /\ new.def.column = s.from.column
  BY DEF Proper
<1>4. HasColumn(d, s.table, s.from.column)
  BY ValidFacts, NamesOfFacts
<1>5. \A x \in gone : x.table = s.table /\ x.def.column = s.from.column
  BY DEF At
<1> HIDE DEF e, gone, new
<1>6. \A t, n : HasColumn(d, t, n) => HasColumn(e, t, n)
  <2> TAKE t, n
  <2>1. SUFFICES ASSUME NEW x \in d.columns, x.table = t, x.def.column = n PROVE HasColumn(e, t, n)
    BY DEF HasColumn
  <2>2. CASE x \in gone
    BY <1>2, <1>3, <1>5, <2>1, <2>2 DEF HasColumn
  <2>3. CASE x \notin gone
    BY <1>2, <2>1, <2>3 DEF HasColumn
  <2>4. QED
    BY <2>2, <2>3
<1>7. IndexesIn(e)
  BY <1>2, <1>6 DEF Linked, IndexesIn
<1>8. ColumnsIn(e)
  BY <1>2, <1>3, <1>4 DEF Linked, ColumnsIn, HasColumn
<1>9. KeysIn(e) /\ TriggersIn(e) /\ Countable(e)
  BY <1>2, LinksKept DEF Linked
<1>10. QED
  BY <1>1, <1>7, <1>8, <1>9 DEF Linked, e

LEMMA LinkedRenameColumn ==
  ASSUME NEW d, NEW s, Linked(d), Proper(s), Valid(d, s), s.op = "rename column"
  PROVE  Linked(Effect(d, s))
<1> DEFINE e == Effect(d, s)
           gone == At(d, s.table, {s.from})
           new(x) == Column(s.table, x.def.need, x.def.type, s.to)
           named(i) == i.table = s.table /\ s.from \in i.on
           moved(i) == IF named(i) THEN Index(i.index, i.table, (i.on \ {s.from}) \cup {s.to}, i.unique) ELSE i
<1>1. IsDatabase(d) /\ IsDatabase(e)
  BY EffectShape, ValidFacts DEF Linked
<1>2. /\ e.tables = d.tables /\ e.columns = (d.columns \ gone) \cup {new(x) : x \in gone}
      /\ e.indexes = {moved(i) : i \in d.indexes}
      /\ e.keys = d.keys /\ e.functions = d.functions /\ e.triggers = d.triggers
  BY <1>1 DEF Effect, IsDatabase
<1>3. \A x : new(x).table = s.table /\ new(x).def.column = s.to
  BY DEF Column
<1>4. \A i : /\ moved(i).table = i.table
             /\ named(i) => moved(i).on = (i.on \ {s.from}) \cup {s.to}
             /\ ~named(i) => moved(i).on = i.on
  BY DEF Index
<1>5. \A x : x \in gone <=> x \in d.columns /\ x.table = s.table /\ x.def.column = s.from
  BY DEF At
<1>6. PICK g \in gone : TRUE
  <2>1. HasColumn(d, s.table, s.from)
    BY ValidFacts, NamesOfFacts
  <2> HIDE DEF gone
  <2>2. QED
    BY <1>5, <2>1 DEF HasColumn
<1> HIDE DEF e, gone, new, moved
<1>7. HasColumn(e, s.table, s.to)
  <2>1. new(g) \in e.columns
    BY <1>2, <1>6
  <2>2. QED
    BY <1>3, <2>1 DEF HasColumn
<1>8. ASSUME NEW i \in d.indexes, NEW n \in moved(i).on
      PROVE  HasColumn(e, moved(i).table, n)
  <2>1. CASE named(i) /\ n = s.to
    BY <1>4, <1>7, <2>1
  <2>2. CASE ~(named(i) /\ n = s.to)
    <3>1. n \in i.on /\ ~(i.table = s.table /\ n = s.from)
      BY <1>4, <1>8, <2>2
    <3>2. PICK x \in d.columns : x.table = i.table /\ x.def.column = n
      BY <3>1 DEF Linked, IndexesIn, HasColumn
    <3>3. x \notin gone
      BY <1>5, <3>1, <3>2
    <3>4. x \in e.columns
      BY <1>2, <3>3
    <3>5. QED
      BY <1>4, <3>2, <3>4 DEF HasColumn
  <2>3. QED
    BY <2>1, <2>2
<1>9. \A i \in d.indexes : moved(i).on # {}
  BY <1>4 DEF Linked, IndexesIn
<1>10. IndexesIn(e)
  BY <1>2, <1>8, <1>9 DEF IndexesIn
<1>11. ColumnsIn(e)
  <2>1. s.table \in d.tables
    BY <1>5, <1>6 DEF Linked, ColumnsIn
  <2>2. \A x \in e.columns : x \in d.columns \/ x.table = s.table
    BY <1>2, <1>3
  <2>3. QED
    BY <1>2, <2>1, <2>2 DEF Linked, ColumnsIn
<1>12. KeysIn(e) /\ TriggersIn(e) /\ Countable(e)
  BY <1>2, LinksKept DEF Linked
<1>13. QED
  BY <1>1, <1>10, <1>11, <1>12 DEF Linked, e

LEMMA LinkedIndexes ==
  ASSUME NEW d, NEW s, Linked(d), Proper(s), Valid(d, s), s.op \in {"create index", "drop index"}
  PROVE  Linked(Effect(d, s))
<1> DEFINE e == Effect(d, s)
           new == Index(s.index, s.table, s.on, s.unique)
<1>1. IsDatabase(d) /\ IsDatabase(e)
  BY EffectShape, ValidFacts DEF Linked
<1>2. /\ e.tables = d.tables /\ e.columns = d.columns
      /\ e.keys = d.keys /\ e.functions = d.functions /\ e.triggers = d.triggers
  BY <1>1 DEF Effect, IsDatabase
<1>3. s.op = "create index" => e.indexes = d.indexes \cup {new}
  BY <1>1 DEF Effect, IsDatabase
<1>4. s.op = "drop index" => e.indexes \subseteq d.indexes
  BY <1>1 DEF Effect, IsDatabase
<1>5. new.table = s.table /\ new.on = s.on
  BY DEF Index
<1> HIDE DEF e, new
<1>6. IndexesIn(e)
  <2>1. CASE s.op = "create index"
    <3>1. s.on # {} /\ \A n \in s.on : HasColumn(d, s.table, n)
      <4>1. s.on # {}
        BY <2>1 DEF Proper
      <4>2. s.on \subseteq NamesOf(d, s.table)
        BY <2>1, ValidFacts
      <4>3. QED
        BY <4>1, <4>2, NamesOfFacts
    <3>2. \A t, n : HasColumn(d, t, n) => HasColumn(e, t, n)
      BY <1>2 DEF HasColumn
    <3>3. new.on # {} /\ \A n \in new.on : HasColumn(e, new.table, n)
      BY <1>5, <3>1, <3>2
    <3>4. \A i \in d.indexes : i.on # {} /\ \A n \in i.on : HasColumn(e, i.table, n)
      BY <3>2 DEF Linked, IndexesIn
    <3>5. QED
      BY <1>3, <2>1, <3>3, <3>4 DEF IndexesIn
  <2>2. CASE s.op = "drop index"
    BY <1>2, <1>4, <2>2, IndexesKept DEF Linked
  <2>3. QED
    BY <2>1, <2>2
<1>7. ColumnsIn(e) /\ KeysIn(e) /\ TriggersIn(e) /\ Countable(e)
  BY <1>2, LinksKept, ColumnsKept DEF Linked
<1>8. QED
  BY <1>1, <1>6, <1>7 DEF Linked, e

LEMMA LinkedKeys ==
  ASSUME NEW d, NEW s, Linked(d), Proper(s), Valid(d, s), s.op \in {"add key", "drop key"}
  PROVE  Linked(Effect(d, s))
<1> DEFINE e == Effect(d, s)
           new == [key |-> s.key, table |-> s.table, refers |-> s.refers]
<1>1. IsDatabase(d) /\ IsDatabase(e)
  BY EffectShape, ValidFacts DEF Linked
<1>2. /\ e.tables = d.tables /\ e.columns = d.columns /\ e.indexes = d.indexes
      /\ e.functions = d.functions /\ e.triggers = d.triggers
  BY <1>1 DEF Effect, IsDatabase
<1>3. s.op = "add key" => e.keys = d.keys \cup {new}
  BY <1>1 DEF Effect, IsDatabase
<1>4. s.op = "drop key" => e.keys \subseteq d.keys
  BY <1>1 DEF Effect, IsDatabase
<1>5. new.table = s.table /\ new.refers = s.refers
  OBVIOUS
<1> HIDE DEF e, new
<1>6. KeysIn(e)
  <2>1. CASE s.op = "add key"
    <3>1. s.table \in d.tables /\ s.on # {}
      BY <2>1, ValidFacts DEF Proper
    <3>2. PICK i \in d.indexes : i.table = s.refers /\ i.on = s.on
      BY <2>1, ValidFacts DEF HasUnique
    <3>3. PICK n \in i.on : HasColumn(d, s.refers, n)
      BY <3>1, <3>2 DEF Linked, IndexesIn
    <3>4. s.refers \in d.tables
      BY <3>3 DEF Linked, ColumnsIn, HasColumn
    <3>5. QED
      BY <1>2, <1>3, <1>5, <2>1, <3>1, <3>4 DEF Linked, KeysIn
  <2>2. CASE s.op = "drop key"
    BY <1>2, <1>4, <2>2 DEF Linked, KeysIn
  <2>3. QED
    BY <2>1, <2>2
<1>7. ColumnsIn(e) /\ IndexesIn(e) /\ TriggersIn(e) /\ Countable(e)
  BY <1>2, LinksKept, ColumnsKept, IndexesKept DEF Linked
<1>8. QED
  BY <1>1, <1>6, <1>7 DEF Linked, e

LEMMA LinkedTypes ==
  ASSUME NEW d, NEW s, Linked(d), Proper(s), Valid(d, s), s.op \in {"create type", "drop type", "rename type"}
  PROVE  Linked(Effect(d, s))
<1> DEFINE e == Effect(d, s)
           new(x) == IF s.op = "rename type" /\ x.def.type = s.from
                     THEN Column(x.table, x.def.need, s.to, x.def.column) ELSE x
<1>1. IsDatabase(d) /\ IsDatabase(e)
  BY EffectShape, ValidFacts DEF Linked
<1>2. /\ e.tables = d.tables /\ e.indexes = d.indexes /\ e.keys = d.keys
      /\ e.functions = d.functions /\ e.triggers = d.triggers
  BY <1>1 DEF Effect, IsDatabase
<1>3. e.columns = {new(x) : x \in d.columns}
  <2>1. CASE s.op = "rename type"
    <3>1. e.columns = {IF x.def.type = s.from THEN Column(x.table, x.def.need, s.to, x.def.column) ELSE x :
                         x \in d.columns}
      BY <1>1, <2>1 DEF Effect, IsDatabase
    <3>2. QED
      BY <2>1, <3>1
  <2>2. CASE s.op # "rename type"
    <3>1. e.columns = d.columns
      <4>1. CASE s.op = "create type"
        BY <1>1, <4>1 DEF Effect, IsDatabase
      <4>2. CASE s.op = "drop type"
        BY <1>1, <4>2 DEF Effect, IsDatabase
      <4>3. QED
        BY <2>2, <4>1, <4>2
    <3>2. QED
      BY <2>2, <3>1
  <2>3. QED
    BY <2>1, <2>2
<1>4. \A x : new(x).table = x.table /\ new(x).def.column = x.def.column
  BY DEF Column
<1> HIDE DEF e, new
<1>5. \A t, n : HasColumn(d, t, n) => HasColumn(e, t, n)
  <2> TAKE t, n
  <2>1. SUFFICES ASSUME NEW x \in d.columns, x.table = t, x.def.column = n PROVE HasColumn(e, t, n)
    BY DEF HasColumn
  <2>2. new(x) \in e.columns
    BY <1>3
  <2>3. QED
    BY <1>4, <2>1, <2>2 DEF HasColumn
<1>6. IndexesIn(e)
  BY <1>2, <1>5 DEF Linked, IndexesIn
<1>7. ColumnsIn(e)
  BY <1>2, <1>3, <1>4 DEF Linked, ColumnsIn
<1>8. KeysIn(e) /\ TriggersIn(e) /\ Countable(e)
  BY <1>2, LinksKept DEF Linked
<1>9. QED
  BY <1>1, <1>6, <1>7, <1>8 DEF Linked, e

LEMMA LinkedFunctions ==
  ASSUME NEW d, NEW s, Linked(d), Proper(s), Valid(d, s),
         s.op \in {"replace function", "drop function", "drop function if exists"}
  PROVE  Linked(Effect(d, s))
<1> DEFINE e == Effect(d, s)
           kept == {x \in d.functions : x.function # s.function}
           new == [function |-> s.function, body |-> s.body]
<1>1. IsDatabase(d) /\ IsDatabase(e)
  BY EffectShape, ValidFacts DEF Linked
<1>2. /\ e.tables = d.tables /\ e.columns = d.columns /\ e.indexes = d.indexes /\ e.keys = d.keys
      /\ e.triggers = d.triggers
  BY <1>1 DEF Effect, IsDatabase
<1>3. e.functions = IF s.op = "replace function" THEN kept \cup {new} ELSE kept
  <2>1. CASE s.op = "replace function"
    <3>1. e = [d EXCEPT !.functions = kept \cup {new}]
      BY <2>1 DEF Effect
    <3> HIDE DEF e, kept, new
    <3>2. QED
      BY <1>1, <2>1, <3>1 DEF IsDatabase
  <2>2. CASE s.op = "drop function"
    <3>1. e = [d EXCEPT !.functions = kept]
      BY <2>2 DEF Effect
    <3> HIDE DEF e, kept, new
    <3>2. QED
      BY <1>1, <2>2, <3>1 DEF IsDatabase
  <2>3. CASE s.op = "drop function if exists"
    <3>1. e = [d EXCEPT !.functions = kept]
      BY <2>3 DEF Effect
    <3> HIDE DEF e, kept, new
    <3>2. QED
      BY <1>1, <2>3, <3>1 DEF IsDatabase
  <2>4. QED
    BY <2>1, <2>2, <2>3
<1>4. new.function = s.function /\ new.body = s.body
  OBVIOUS
<1>5. \A x : x \in kept <=> x \in d.functions /\ x.function # s.function
  OBVIOUS
<1> HIDE DEF e, kept, new
<1>6. \A tr \in d.triggers : \E f \in e.functions : f.function = tr.function
  <2> TAKE tr \in d.triggers
  <2>1. PICK f \in d.functions : f.function = tr.function
    BY DEF Linked, TriggersIn
  <2>2. CASE f \in kept
    BY <1>3, <2>1, <2>2
  <2>3. CASE f \notin kept
    <3>1. tr.function = s.function
      BY <1>5, <2>1, <2>3
    <3>2. s.op = "replace function"
      BY <3>1, ValidFacts DEF Using
    <3>3. new \in e.functions
      BY <1>3, <3>2
    <3>4. QED
      BY <1>4, <3>1, <3>3
  <2>4. QED
    BY <2>2, <2>3
<1>7. TriggersIn(e)
  BY <1>2, <1>6 DEF Linked, TriggersIn
<1>8. Countable(e)
  <2>1. \A f \in kept : IsFiniteSet(f.body.counts)
    BY <1>5 DEF Linked, Countable
  <2>2. s.op = "replace function" => IsFiniteSet(new.body.counts)
    BY <1>4 DEF Proper
  <2>3. QED
    BY <1>3, <2>1, <2>2 DEF Countable
<1>9. ColumnsIn(e) /\ IndexesIn(e) /\ KeysIn(e)
  BY <1>2, LinksKept, ColumnsKept, IndexesKept DEF Linked
<1>10. QED
  BY <1>1, <1>7, <1>8, <1>9 DEF Linked, e

LEMMA LinkedTriggers ==
  ASSUME NEW d, NEW s, Linked(d), Proper(s), Valid(d, s),
         s.op \in {"create trigger", "drop trigger", "drop trigger if exists"}
  PROVE  Linked(Effect(d, s))
<1> DEFINE e == Effect(d, s)
           new == [trigger |-> s.trigger, table |-> s.table, events |-> s.events, function |-> s.function]
<1>1. IsDatabase(d) /\ IsDatabase(e)
  BY EffectShape, ValidFacts DEF Linked
<1>2. /\ e.tables = d.tables /\ e.columns = d.columns /\ e.indexes = d.indexes /\ e.keys = d.keys
      /\ e.functions = d.functions
  BY <1>1 DEF Effect, IsDatabase
<1>3. s.op = "create trigger" => e.triggers = d.triggers \cup {new}
  BY <1>1 DEF Effect, IsDatabase
<1>4. s.op # "create trigger" => e.triggers \subseteq d.triggers
  BY <1>1 DEF Effect, IsDatabase
<1>5. new.table = s.table /\ new.function = s.function
  OBVIOUS
<1> HIDE DEF e, new
<1>6. TriggersIn(e)
  <2>1. CASE s.op = "create trigger"
    <3>1. s.table \in d.tables /\ \E f \in d.functions : f.function = s.function
      <4>1. s.table \in d.tables /\ s.function \in {x.function : x \in d.functions}
        BY <2>1, ValidFacts
      <4>2. QED
        BY <4>1
    <3>2. IsFiniteSet(e.triggers)
      BY <1>3, <2>1, FS_AddElement DEF Linked, TriggersIn
    <3>3. QED
      BY <1>2, <1>3, <1>5, <2>1, <3>1, <3>2 DEF Linked, TriggersIn
  <2>2. CASE s.op # "create trigger"
    <3>1. IsFiniteSet(e.triggers)
      BY <1>4, <2>2, FS_Subset DEF Linked, TriggersIn
    <3>2. QED
      BY <1>2, <1>4, <2>2, <3>1 DEF Linked, TriggersIn
  <2>3. QED
    BY <2>1, <2>2
<1>7. ColumnsIn(e) /\ IndexesIn(e) /\ KeysIn(e)
  BY <1>2, LinksKept, ColumnsKept, IndexesKept DEF Linked
<1>8. Countable(e)
  BY <1>2 DEF Linked, Countable
<1>9. QED
  BY <1>1, <1>6, <1>7, <1>8 DEF Linked, e

\* The catalogue of e is that of d.
SameCatalogue(d, e) ==
  /\ e.tables = d.tables /\ e.columns = d.columns /\ e.indexes = d.indexes /\ e.keys = d.keys
  /\ e.types = d.types /\ e.functions = d.functions /\ e.triggers = d.triggers

LEMMA LinkedSame ==
  ASSUME NEW d, NEW e, Linked(d), IsDatabase(e), SameCatalogue(d, e)
  PROVE  Linked(e)
<1>1. ColumnsIn(e) /\ IndexesIn(e) /\ KeysIn(e) /\ TriggersIn(e) /\ Countable(e)
  BY LinksKept, ColumnsKept, IndexesKept DEF Linked, SameCatalogue
<1>2. QED
  BY <1>1 DEF Linked

Recounting == {"update count", "upsert count", "insert count", "upsert positive count",
               "delete collections_stats", "insert collections_stats"}

LEMMA RowStatements ==
  ASSUME NEW d, NEW s, IsDatabase(d), s.op \in Recounting \cup {"truncate"}
  PROVE  /\ SameCatalogue(d, Effect(d, s))
         /\ s.op \in Recounting => Effect(d, s).rows = d.rows
         /\ s.op = "truncate" => Effect(d, s).rows = d.rows \ RowsIn(d, s.table)
<1> USE DEF IsDatabase, SameCatalogue
<1>1. CASE s.op = "truncate"
  BY <1>1 DEF Effect, Recounting
<1>2. CASE s.op = "update count"
  BY <1>2 DEF Effect, WithCount, Recounting
<1>3. CASE s.op \in {"upsert count", "insert count"}
  BY <1>3 DEF Effect, WithCount, Recounting
<1>4. CASE s.op = "upsert positive count"
  BY <1>4 DEF Effect, WithCount, Recounting
<1>5. CASE s.op = "delete collections_stats"
  BY <1>5 DEF Effect, Recounting
<1>6. CASE s.op = "insert collections_stats"
  BY <1>6 DEF Effect, Recounting
<1>7. QED
  BY <1>1, <1>2, <1>3, <1>4, <1>5, <1>6 DEF Recounting

LEMMA EffectLinked ==
  ASSUME NEW d, NEW s, Linked(d), Proper(s), Valid(d, s)
  PROVE  Linked(Effect(d, s))
<1>1. IsDatabase(d) /\ IsDatabase(Effect(d, s)) /\ s.op # "rejected"
  BY EffectShape, ValidFacts DEF Linked
<1>2. CASE s.op \in Recounting \cup {"truncate"}
  BY <1>1, <1>2, RowStatements, LinkedSame
<1>3. CASE s.op \notin Recounting \cup {"truncate"}
  BY <1>1, <1>3, LinkedCreateTable, LinkedDropTable, LinkedAddColumns, LinkedDropColumns, LinkedAlterColumn,
     LinkedRenameColumn, LinkedIndexes, LinkedKeys, LinkedTypes, LinkedFunctions, LinkedTriggers
  DEF Proper, Operations, Recounting
<1>4. QED
  BY <1>2, <1>3

\* The rows a statement leaves.
LEMMA EffectRows ==
  ASSUME NEW d, NEW s, IsDatabase(d), Proper(s), s.op # "rejected"
  PROVE  /\ Effect(d, s).rows \subseteq d.rows
         /\ Gentle(s) => Effect(d, s).rows = d.rows
         /\ \A t : s = Truncate(t) => \A r \in d.rows : TableOf[r] # t => r \in Effect(d, s).rows
<1> DEFINE Catalogue == Operations \ (Recounting \cup {"truncate", "drop table", "rejected"})
<1>1. CASE s.op \in Recounting \cup {"truncate"}
  <2>1. CASE s.op = "truncate"
    <3>1. Effect(d, s).rows = d.rows \ RowsIn(d, s.table)
      BY <1>1, <2>1, RowStatements
    <3>2. ~Gentle(s)
      BY <2>1 DEF Gentle
    <3>3. \A t : s = Truncate(t) => s.table = t
      BY DEF Truncate
    <3>4. QED
      BY <3>1, <3>2, <3>3 DEF RowsIn
  <2>2. CASE s.op # "truncate"
    <3>1. Effect(d, s).rows = d.rows
      BY <1>1, <2>2, RowStatements
    <3>2. QED
      BY <3>1
  <2>3. QED
    BY <2>1, <2>2
<1>2. CASE s.op = "drop table"
  <2>1. Effect(d, s).rows \subseteq d.rows
    BY <1>2 DEF Effect, IsDatabase
  <2>2. ~Gentle(s)
    BY <1>2 DEF Gentle
  <2>3. \A t : Truncate(t).op = "truncate"
    BY DEF Truncate
  <2>4. \A t : s # Truncate(t)
    BY <1>2, <2>3
  <2>5. QED
    BY <2>1, <2>2, <2>4
<1>3. CASE s.op \in Catalogue
  <2> USE DEF IsDatabase
  <2>1. CASE s.op \in {"create table", "add columns", "add columns if missing", "drop columns", "alter column"}
    BY <2>1 DEF Effect, WithoutColumns
  <2>2. CASE s.op \in {"rename column", "create index", "drop index", "add key", "drop key"}
    BY <2>2 DEF Effect
  <2>3. CASE s.op \in {"create type", "drop type", "rename type", "replace function"}
    BY <2>3 DEF Effect
  <2>4. CASE s.op \in {"drop function", "drop function if exists", "create trigger",
                       "drop trigger", "drop trigger if exists"}
    BY <2>4 DEF Effect
  <2>5. QED
    BY <1>3, <2>1, <2>2, <2>3, <2>4 DEF Operations, Recounting
<1>4. QED
  BY <1>1, <1>2, <1>3 DEF Proper

-----------------------------------------------------------------------------
(***************************************************************************)
(* Transactions.                                                           *)
(***************************************************************************)
LEMMA ExecShape ==
  ASSUME NEW d, NEW s, IsDatabase(d), Proper(s)
  PROVE  /\ IsDatabase(Exec(d, s))
         /\ Exec(d, s).ok => d.ok /\ Valid(d, s) /\ Exec(d, s) = Effect(d, s)
         /\ d.ok /\ Valid(d, s) => Exec(d, s) = Effect(d, s) /\ Exec(d, s).ok
         /\ ~(d.ok /\ Valid(d, s)) => Exec(d, s).rows = d.rows
<1>1. CASE d.ok /\ Valid(d, s)
  <2>1. Exec(d, s) = Effect(d, s)
    BY <1>1 DEF Exec
  <2>2. s.op # "rejected"
    BY <1>1, ValidFacts
  <2>3. IsDatabase(Effect(d, s)) /\ Effect(d, s).ok = d.ok
    BY <2>2, EffectShape
  <2>4. QED
    BY <1>1, <2>1, <2>3
<1>2. CASE ~(d.ok /\ Valid(d, s))
  <2>1. Exec(d, s) = [d EXCEPT !.ok = FALSE]
    BY <1>2 DEF Exec
  <2>2. IsDatabase(Exec(d, s)) /\ Exec(d, s).ok = FALSE /\ Exec(d, s).rows = d.rows
    BY <2>1 DEF IsDatabase
  <2>3. QED
    BY <1>2, <2>2
<1>3. QED
  BY <1>1, <1>2

\* What holds of a database holds after proper statements.
Better(d, e) ==
  /\ IsDatabase(e)
  /\ e.ok => d.ok
  /\ e.ok /\ Linked(d) => Linked(e)
  /\ e.rows \subseteq d.rows

\* The rows outside table t are kept.
KeptBut(d, e, t) == \A r \in d.rows : TableOf[r] # t => r \in e.rows

LEMMA BetterTrans ==
  ASSUME NEW c, NEW d, NEW e, Better(c, d), Better(d, e)
  PROVE  Better(c, e)
BY DEF Better

LEMMA ExecBetter ==
  ASSUME NEW d, NEW s, IsDatabase(d), Proper(s)
  PROVE  /\ Better(d, Exec(d, s))
         /\ Gentle(s) => d.rows \subseteq Exec(d, s).rows
         /\ \A t : GentleBut(s, t) => KeptBut(d, Exec(d, s), t)
<1>1. CASE d.ok /\ Valid(d, s)
  <2>1. Exec(d, s) = Effect(d, s) /\ Exec(d, s).ok /\ IsDatabase(Exec(d, s)) /\ s.op # "rejected"
    BY <1>1, ExecShape, ValidFacts
  <2>2. Linked(d) => Linked(Exec(d, s))
    BY <1>1, <2>1, EffectLinked
  <2>3. /\ Exec(d, s).rows \subseteq d.rows
        /\ Gentle(s) => Exec(d, s).rows = d.rows
        /\ \A t : s = Truncate(t) => \A r \in d.rows : TableOf[r] # t => r \in Exec(d, s).rows
    BY <2>1, EffectRows
  <2>4. Better(d, Exec(d, s))
    BY <1>1, <2>1, <2>2, <2>3 DEF Better
  <2>5. QED
    BY <2>3, <2>4 DEF GentleBut, KeptBut
<1>2. CASE ~(d.ok /\ Valid(d, s))
  <2>1. IsDatabase(Exec(d, s)) /\ ~Exec(d, s).ok /\ Exec(d, s).rows = d.rows
    BY <1>2, ExecShape
  <2>2. QED
    BY <2>1 DEF Better, KeptBut
<1>3. QED
  BY <1>1, <1>2

LEMMA ExecAllBetter ==
  ASSUME NEW d, NEW s, IsDatabase(d), IsSeq(s), \A x \in ToSet(s) : Proper(x)
  PROVE  /\ Better(d, ExecAll(d, s))
         /\ (\A x \in ToSet(s) : Gentle(x)) => d.rows \subseteq ExecAll(d, s).rows
         /\ \A t : (\A x \in ToSet(s) : GentleBut(x, t)) => KeptBut(d, ExecAll(d, s), t)
<1> DEFINE n == Len(s)
<1>1. n \in Nat /\ \A k \in 1..n : s[k] \in ToSet(s)
  BY SeqFacts
<1> HIDE DEF n
<1>2. PICK f : /\ ExecAll(d, s) = f[n] /\ f[0] = d
               /\ \A k \in 1..n : f[k] = Exec(f[k - 1], s[k])
  BY <1>1, ExecAllUnfolds DEF n
<1> DEFINE Kept(e) == /\ Better(d, e)
                      /\ (\A x \in ToSet(s) : Gentle(x)) => d.rows \subseteq e.rows
                      /\ \A t : (\A x \in ToSet(s) : GentleBut(x, t)) => KeptBut(d, e, t)
           S == {k \in 0..n : Kept(f[k])}
<1>3. Kept(d)
  BY DEF Better, KeptBut
<1>4. ASSUME NEW e, NEW x \in ToSet(s), Kept(e) PROVE Kept(Exec(e, x))
  <2>1. /\ Better(e, Exec(e, x))
        /\ Gentle(x) => e.rows \subseteq Exec(e, x).rows
        /\ \A t : GentleBut(x, t) => KeptBut(e, Exec(e, x), t)
    BY <1>4, ExecBetter DEF Better
  <2>2. Better(d, Exec(e, x))
    BY <1>4, <2>1, BetterTrans
  <2>3. (\A y \in ToSet(s) : Gentle(y)) => d.rows \subseteq Exec(e, x).rows
    BY <1>4, <2>1
  <2>4. ASSUME NEW t, \A y \in ToSet(s) : GentleBut(y, t) PROVE KeptBut(d, Exec(e, x), t)
    BY <1>4, <2>1, <2>4 DEF KeptBut
  <2>5. QED
    BY <2>2, <2>3, <2>4
<1> HIDE DEF Kept
<1>5. ASSUME NEW k \in 0..(n - 1), k \in S PROVE k + 1 \in S
  <2>1. k + 1 \in 1..n /\ k + 1 \in 0..n /\ (k + 1) - 1 = k
    BY <1>1
  <2>2. f[k + 1] = Exec(f[k], s[k + 1])
    BY <1>2, <2>1
  <2>3. Kept(f[k]) /\ s[k + 1] \in ToSet(s)
    BY <1>1, <1>5, <2>1
  <2>4. Kept(f[k + 1])
    BY <1>4, <2>2, <2>3
  <2>5. QED
    BY <2>1, <2>4
<1>6. 0 \in S
  BY <1>1, <1>2, <1>3
<1>7. \A k \in 0..n : k \in S
  <2> HIDE DEF S
  <2>1. QED
    BY <1>1, <1>5, <1>6, UpTo
<1>8. Kept(f[n])
  BY <1>1, <1>7
<1>9. QED
  BY <1>2, <1>8 DEF Kept

\* A transaction of migrations of the repository.
IsOrder(order) == order \in Seq(1..LastFile)

LEMMA UpBetter ==
  ASSUME NEW d, NEW order, IsDatabase(d), IsOrder(order)
  PROVE  /\ Better(d, Up(d, order))
         /\ UniqueOwners \notin ToSet(order) => d.rows \subseteq Up(d, order).rows
         /\ KeptBut(d, Up(d, order), "tokens_owners")
<1> DEFINE n == Len(order)
           N == 1..LastFile
<1>1. n \in Nat /\ \A k \in 1..n : order[k] \in N /\ order[k] \in ToSet(order)
  <2>1. order \in Seq(N)
    BY DEF IsOrder
  <2> HIDE DEF N
  <2>2. DOMAIN order = 1..n /\ n \in Nat /\ \A k \in 1..n : order[k] \in N
    BY <2>1
  <2>3. QED
    BY <2>2 DEF ToSet
<1> HIDE DEF n
<1>2. PICK f : /\ Up(d, order) = f[n] /\ f[0] = d
               /\ \A k \in 1..n : f[k] = ExecAll(f[k - 1], Files[order[k]].up)
  BY <1>1, UpUnfolds DEF n
<1> DEFINE Kept(e) == /\ Better(d, e)
                      /\ UniqueOwners \notin ToSet(order) => d.rows \subseteq e.rows
                      /\ KeptBut(d, e, "tokens_owners")
           S == {k \in 0..n : Kept(f[k])}
<1>3. Kept(d)
  BY DEF Better, KeptBut
<1>4. ASSUME NEW e, NEW i \in N, i \in ToSet(order), Kept(e) PROVE Kept(ExecAll(e, Files[i].up))
  <2> DEFINE up == Files[i].up
  <2>1. IsSeq(up) /\ \A x \in ToSet(up) : Proper(x)
    BY FilesFacts DEF Good
  <2>2. i # UniqueOwners => \A x \in ToSet(up) : Gentle(x)
    BY FilesFacts
  <2>3. \A x \in ToSet(up) : GentleBut(x, "tokens_owners")
    BY <2>2, FilesFacts DEF GentleBut
  <2> HIDE DEF up
  <2>4. /\ Better(e, ExecAll(e, up))
        /\ i # UniqueOwners => e.rows \subseteq ExecAll(e, up).rows
        /\ KeptBut(e, ExecAll(e, up), "tokens_owners")
    BY <1>4, <2>1, <2>2, <2>3, ExecAllBetter DEF Better
  <2>5. Better(d, ExecAll(e, up))
    BY <1>4, <2>4, BetterTrans
  <2>6. UniqueOwners \notin ToSet(order) => d.rows \subseteq ExecAll(e, up).rows
    BY <1>4, <2>4
  <2>7. KeptBut(d, ExecAll(e, up), "tokens_owners")
    BY <1>4, <2>4 DEF KeptBut
  <2>8. QED
    BY <2>5, <2>6, <2>7 DEF up
<1> HIDE DEF Kept, N
<1>5. ASSUME NEW k \in 0..(n - 1), k \in S PROVE k + 1 \in S
  <2>1. k + 1 \in 1..n /\ k + 1 \in 0..n /\ (k + 1) - 1 = k
    BY <1>1
  <2>2. f[k + 1] = ExecAll(f[k], Files[order[k + 1]].up)
    BY <1>2, <2>1
  <2>3. Kept(f[k]) /\ order[k + 1] \in N /\ order[k + 1] \in ToSet(order)
    BY <1>1, <1>5, <2>1
  <2>4. Kept(f[k + 1])
    BY <1>4, <2>2, <2>3
  <2>5. QED
    BY <2>1, <2>4
<1>6. 0 \in S
  BY <1>1, <1>2, <1>3
<1>7. \A k \in 0..n : k \in S
  <2> HIDE DEF S
  <2>1. QED
    BY <1>1, <1>5, <1>6, UpTo
<1>8. Kept(f[n])
  BY <1>1, <1>7
<1>9. QED
  BY <1>2, <1>8 DEF Kept

\* A revert: the statements of one "down".
LEMMA DownBetter ==
  ASSUME NEW d, NEW i \in 1..LastFile, IsDatabase(d)
  PROVE  Better(d, ExecAll(d, Files[i].down))
<1>1. IsSeq(Files[i].down) /\ \A x \in ToSet(Files[i].down) : Proper(x)
  BY FilesFacts DEF Good
<1>2. QED
  BY <1>1, ExecAllBetter

-----------------------------------------------------------------------------
(***************************************************************************)
(* The triggers.                                                           *)
(***************************************************************************)
\* All but the counters.
SameButCount(d, e) ==
  /\ IsDatabase(e) /\ SameCatalogue(d, e) /\ e.ok = d.ok /\ e.rows = d.rows /\ e.burned = d.burned

LEMMA BumpFacts ==
  ASSUME NEW d, NEW c, NEW n, IsDatabase(d)
  PROVE  SameButCount(d, Bump(d, c, n))
<1> USE DEF IsDatabase, SameButCount, SameCatalogue
<1>1. CASE c \in DOMAIN d.count
  BY <1>1 DEF Bump, WithCount
<1>2. CASE c \notin DOMAIN d.count /\ c \in StatsCounters
  BY <1>2 DEF Bump, WithCount
<1>3. CASE c \notin DOMAIN d.count /\ c \notin StatsCounters /\ c = "token_transfers"
  BY <1>3 DEF Bump, WithCount
<1>4. CASE c \notin DOMAIN d.count /\ c \notin StatsCounters /\ c # "token_transfers"
  BY <1>4 DEF Bump
<1>5. QED
  BY <1>1, <1>2, <1>3, <1>4

LEMMA BumpAllFacts ==
  ASSUME NEW d, NEW moves, NEW i, IsDatabase(d), IsFiniteSet(moves)
  PROVE  SameButCount(d, BumpAll(d, moves, i))
<1> DEFINE order == SetToSeq(moves)
           n == Len(order)
<1>0. n \in Nat
  BY BumpAllUnfolds
<1>1. PICK f : /\ BumpAll(d, moves, i) = f[n] /\ f[0] = d
               /\ \A k \in 1..n : f[k] = Bump(f[k - 1], order[k].counter, i)
  BY BumpAllUnfolds
<1> HIDE DEF n, order
<1> DEFINE S == {k \in 0..n : SameButCount(d, f[k])}
<1>2. 0 \in S
  BY <1>0, <1>1 DEF SameButCount, SameCatalogue
<1>3. ASSUME NEW k \in 0..(n - 1), k \in S PROVE k + 1 \in S
  <2>1. k + 1 \in 1..n /\ k + 1 \in 0..n /\ (k + 1) - 1 = k
    BY <1>0
  <2>2. f[k + 1] = Bump(f[k], order[k + 1].counter, i)
    BY <1>1, <2>1
  <2>3. SameButCount(f[k], f[k + 1])
    BY <1>3, <2>2, BumpFacts DEF SameButCount
  <2>4. SameButCount(d, f[k + 1])
    BY <1>3, <2>3 DEF SameButCount, SameCatalogue
  <2>5. QED
    BY <2>1, <2>4
<1>4. \A k \in 0..n : k \in S
  <2> HIDE DEF S
  <2>1. QED
    BY <1>0, <1>2, <1>3, UpTo
<1>5. QED
  BY <1>0, <1>1, <1>4

\* The entries that fire are finitely many.
LEMMA FiredFinite ==
  ASSUME NEW d, NEW t, NEW event, Linked(d)
  PROVE  /\ IsFiniteSet(Firing(d, t, event))
         /\ \A tr \in Firing(d, t, event) : IsFiniteSet(BodyOf(d, tr).counts)
<1>1. IsFiniteSet(d.triggers) /\ Firing(d, t, event) \subseteq d.triggers
  BY DEF Linked, TriggersIn, Firing
<1>2. ASSUME NEW tr \in d.triggers PROVE IsFiniteSet(BodyOf(d, tr).counts)
  <2>1. \E x \in d.functions : x.function = tr.function
    BY DEF Linked, TriggersIn
  <2>2. FunctionOf(d, tr.function) \in d.functions
    BY <2>1 DEF FunctionOf
  <2>3. QED
    BY <2>2 DEF Linked, Countable, BodyOf
<1>3. QED
  BY <1>1, <1>2, FS_Subset

\* The image of a finite set under a function.
LEMMA FiniteImage ==
  ASSUME NEW S, IsFiniteSet(S), NEW f, DOMAIN f = S
  PROVE  IsFiniteSet({f[x] : x \in S})
<1> DEFINE T == {f[x] : x \in S}
           g == [x \in S |-> f[x]]
<1>1. g \in Surjection(S, T)
  BY DEF Surjection
<1> HIDE DEF T, g
<1>2. IsFiniteSet(T)
  BY <1>1, FS_Surjection
<1>3. QED
  BY <1>2 DEF T

\* What storing a row moves, and what setting it burned does.
Entering(d, t, event, r) == Moves(d, t, event, LAMBDA e : r \in e.rows)
Leaving(d, t, event, r) == Moves(d, t, event, LAMBDA e : r \in e.less)
MovesOf(d, tr) == {[trigger |-> tr.trigger, counter |-> e.counter] : e \in BodyOf(d, tr).counts}

LEMMA MovesFinite ==
  ASSUME NEW d, NEW t, NEW event, NEW r, Linked(d)
  PROVE  IsFiniteSet(Entering(d, t, event, r)) /\ IsFiniteSet(Leaving(d, t, event, r))
<1> DEFINE F == Firing(d, t, event)
           g == [tr \in F |-> MovesOf(d, tr)]
           all == {MovesOf(d, tr) : tr \in F}
<1>1. ASSUME NEW tr \in F PROVE IsFiniteSet(MovesOf(d, tr))
  <2> DEFINE S == BodyOf(d, tr).counts
             f == [e \in S |-> [trigger |-> tr.trigger, counter |-> e.counter]]
  <2>1. IsFiniteSet(S)
    BY FiredFinite
  <2>2. MovesOf(d, tr) = {f[e] : e \in S} /\ DOMAIN f = S
    BY DEF MovesOf
  <2> HIDE DEF f, S
  <2>3. QED
    BY <2>1, <2>2, FiniteImage
<1>2. all = {g[tr] : tr \in F} /\ DOMAIN g = F
  OBVIOUS
<1>3. IsFiniteSet(F)
  BY FiredFinite
<1>4. \A x \in all : IsFiniteSet(x)
  BY <1>1
<1>5. Entering(d, t, event, r) \subseteq UNION all /\ Leaving(d, t, event, r) \subseteq UNION all
  <2>1. ASSUME NEW m \in Entering(d, t, event, r) PROVE m \in UNION all
    BY <2>1 DEF Entering, Moves, MovesOf
  <2>2. ASSUME NEW m \in Leaving(d, t, event, r) PROVE m \in UNION all
    BY <2>2 DEF Leaving, Moves, MovesOf
  <2>3. QED
    BY <2>1, <2>2
<1> HIDE DEF F, g, all
<1>6. IsFiniteSet(all)
  BY <1>2, <1>3, FiniteImage
<1>7. IsFiniteSet(UNION all)
  BY <1>4, <1>6, FS_UNION
<1>8. QED
  BY <1>5, <1>7, FS_Subset

\* Storing a row changes the rows and the counters.
LEMMA InsertFacts ==
  ASSUME NEW d, NEW r, Linked(d)
  PROVE  /\ Linked(Insert(d, r)) /\ SameCatalogue(d, Insert(d, r)) /\ Insert(d, r).ok = d.ok
         /\ Insert(d, r).rows = d.rows \cup {r}
<1> DEFINE stored == [d EXCEPT !.rows = @ \cup {r}]
           moves == Entering(d, TableOf[r], "insert", r)
<1>1. /\ IsDatabase(stored) /\ SameCatalogue(d, stored) /\ stored.ok = d.ok
      /\ stored.rows = d.rows \cup {r}
  BY DEF Linked, IsDatabase, SameCatalogue
<1>2. Insert(d, r) = BumpAll(stored, moves, 1)
  BY DEF Insert, Entering
<1>3. IsFiniteSet(moves)
  BY MovesFinite
<1> HIDE DEF stored, moves
<1>4. SameButCount(stored, Insert(d, r))
  BY <1>1, <1>2, <1>3, BumpAllFacts
<1>5. SameCatalogue(d, Insert(d, r)) /\ IsDatabase(Insert(d, r))
  BY <1>1, <1>4 DEF SameButCount, SameCatalogue
<1>6. QED
  BY <1>1, <1>4, <1>5, LinkedSame DEF SameButCount

\* So does setting one burned, which keeps the rows.
LEMMA BurnFacts ==
  ASSUME NEW d, NEW r, Linked(d)
  PROVE  /\ Linked(SetBurned(d, r)) /\ SameCatalogue(d, SetBurned(d, r)) /\ SetBurned(d, r).ok = d.ok
         /\ SetBurned(d, r).rows = d.rows
<1> DEFINE burnt == [d EXCEPT !.burned = @ \cup {r}]
           moves == Leaving(d, TableOf[r], "update", r)
           bumped == BumpAll(burnt, moves, -1)
           e == SetBurned(d, r)
<1>1. /\ IsDatabase(burnt) /\ SameCatalogue(d, burnt) /\ burnt.ok = d.ok /\ burnt.rows = d.rows
  BY DEF Linked, IsDatabase, SameCatalogue
<1>2. e = bumped \/ e = Effect(bumped, DeleteStats)
  BY DEF SetBurned, Leaving
<1>3. IsFiniteSet(moves)
  BY MovesFinite
<1> HIDE DEF burnt, moves, e
<1>4. SameButCount(burnt, bumped)
  BY <1>1, <1>3, BumpAllFacts
<1> HIDE DEF bumped
<1>5. /\ IsDatabase(bumped) /\ SameCatalogue(d, bumped) /\ bumped.ok = d.ok /\ bumped.rows = d.rows
  BY <1>1, <1>4 DEF SameButCount, SameCatalogue
<1>6. CASE e = bumped
  BY <1>5, <1>6, LinkedSame DEF e
<1>7. CASE e = Effect(bumped, DeleteStats)
  <2>1. Proper(DeleteStats) /\ DeleteStats.op = "delete collections_stats"
    BY FineFacts DEF Fine, DeleteStats
  <2>2. IsDatabase(e) /\ e.ok = bumped.ok
    BY <1>5, <1>7, <2>1, EffectShape
  <2>3. SameCatalogue(bumped, e) /\ e.rows = bumped.rows
    BY <1>5, <1>7, <2>1, RowStatements DEF Recounting
  <2>4. SameCatalogue(d, e)
    BY <1>5, <2>3 DEF SameCatalogue
  <2>5. QED
    BY <1>5, <2>2, <2>3, <2>4, LinkedSame DEF e
<1>8. QED
  BY <1>2, <1>6, <1>7

-----------------------------------------------------------------------------
(***************************************************************************)
(* Orders of migrations.                                                   *)
(***************************************************************************)
LEMMA OrderFacts ==
  ASSUME NEW a, NEW b, IsOrder(a), IsOrder(b)
  PROVE  /\ IsOrder(a \o b) /\ Len(a) \in Nat /\ Len(b) \in Nat /\ Len(a \o b) = Len(a) + Len(b)
         /\ \A k \in 1..Len(a) : (a \o b)[k] = a[k]
         /\ \A k \in 1..Len(b) : (a \o b)[Len(a) + k] = b[k]
         /\ ToSet(b) \subseteq ToSet(a \o b)
<1> DEFINE N == 1..LastFile
<1>1. a \in Seq(N) /\ b \in Seq(N)
  BY DEF IsOrder
<1> HIDE DEF N
<1>2. a \o b \in Seq(N) /\ Len(a) \in Nat /\ Len(b) \in Nat /\ Len(a \o b) = Len(a) + Len(b)
  BY <1>1
<1>3. /\ \A k \in 1..Len(a) : (a \o b)[k] = a[k]
      /\ \A k \in 1..Len(b) : (a \o b)[Len(a) + k] = b[k]
  BY <1>1, <1>2
<1>4. ToSet(b) \subseteq ToSet(a \o b)
  <2>1. DOMAIN b = 1..Len(b) /\ DOMAIN (a \o b) = 1..(Len(a) + Len(b))
    BY <1>1, <1>2
  <2>2. \A k \in 1..Len(b) : Len(a) + k \in 1..(Len(a) + Len(b))
    BY <1>2
  <2>3. QED
    BY <1>3, <2>1, <2>2 DEF ToSet
<1>5. QED
  BY <1>1, <1>2, <1>3, <1>4 DEF IsOrder, N

\* The last one, and what was run before it.
LEMMA LastFacts ==
  ASSUME NEW a, IsOrder(a), a # <<>>
  PROVE  /\ a[Len(a)] \in 1..LastFile /\ IsOrder(Front(a)) /\ Len(Front(a)) = Len(a) - 1 /\ Len(a) \in Nat \ {0}
         /\ a = Front(a) \o <<a[Len(a)]>>
<1> DEFINE N == 1..LastFile
<1>1. a \in Seq(N)
  BY DEF IsOrder
<1> HIDE DEF N
<1>2. Len(a) \in Nat \ {0} /\ a[Len(a)] \in N /\ \A k \in 1..Len(a) : a[k] \in N
  BY <1>1
<1>3. Front(a) = [k \in 1..(Len(a) - 1) |-> a[k]]
  BY <1>1, <1>2 DEF Front
<1>4. Front(a) \in Seq(N) /\ Len(Front(a)) = Len(a) - 1
  <2>1. Len(a) - 1 \in Nat /\ \A k \in 1..(Len(a) - 1) : k \in 1..Len(a)
    BY <1>2
  <2>2. QED
    BY <1>2, <1>3, <2>1
<1>5. a = Front(a) \o <<a[Len(a)]>>
  <2> DEFINE b == Front(a) \o <<a[Len(a)]>>
  <2>1. b \in Seq(N) /\ Len(b) = Len(a)
    BY <1>2, <1>4
  <2>2. ASSUME NEW k \in 1..Len(a) PROVE b[k] = a[k]
    <3>1. CASE k = Len(a)
      BY <1>2, <1>4, <3>1
    <3>2. CASE k # Len(a)
      <4>1. k \in 1..(Len(a) - 1)
        BY <1>2, <3>2
      <4>2. b[k] = Front(a)[k]
        BY <1>2, <1>4, <4>1
      <4>3. QED
        BY <1>3, <4>1, <4>2
    <3>3. QED
      BY <3>1, <3>2
  <2> HIDE DEF b
  <2>3. a = b
    BY <1>1, <2>1, <2>2
  <2>4. QED
    BY <2>3 DEF b
<1>6. QED
  BY <1>2, <1>4, <1>5 DEF IsOrder, N

\* What is pending has not been run.
LEMMA PendingFacts ==
  ASSUME NEW n
  PROVE  IsOrder(Pending(n)) /\ ToSet(Pending(n)) \cap Applied = {}
<1> DEFINE T == ((1..n) \ Applied) \cap (1..LastFile)
<1>1. Pending(n) \in Seq(T)
  BY RunOrderFacts DEF Pending
<1>2. ToSet(Pending(n)) \subseteq T
  <2> HIDE DEF T
  <2>1. QED
    BY <1>1, SeqOfSet
<1>3. Pending(n) \in Seq(1..LastFile)
  <2> DEFINE N == 1..LastFile
  <2>1. T \subseteq N
    OBVIOUS
  <2> HIDE DEF T, N
  <2>2. Pending(n) \in Seq(N)
    BY <1>1, <2>1
  <2>3. QED
    BY <2>2 DEF N
<1>4. QED
  BY <1>2, <1>3 DEF IsOrder

-----------------------------------------------------------------------------
(***************************************************************************)
(* The catalogue is consistent after every deploy, revert and row.         *)
(***************************************************************************)
CatalogueInv ==
  /\ Linked(db) /\ db.ok
  /\ IsOrder(applied)
  /\ db.rows \subseteq Rows

LEMMA EmptyLinked == Linked(EmptyDatabase) /\ EmptyDatabase.ok = TRUE /\ EmptyDatabase.rows = {}
<1>1. IsDatabase(EmptyDatabase)
  BY DEF IsDatabase, EmptyDatabase
<1>2. /\ EmptyDatabase.ok = TRUE /\ EmptyDatabase.rows = {} /\ EmptyDatabase.columns = {} /\ EmptyDatabase.indexes = {}
      /\ EmptyDatabase.keys = {} /\ EmptyDatabase.triggers = {} /\ EmptyDatabase.functions = {}
  BY DEF EmptyDatabase
<1>3. ColumnsIn(EmptyDatabase) /\ IndexesIn(EmptyDatabase) /\ KeysIn(EmptyDatabase) /\ Countable(EmptyDatabase)
  BY <1>2 DEF ColumnsIn, IndexesIn, KeysIn, Countable
<1>4. TriggersIn(EmptyDatabase)
  BY <1>2, FS_EmptySet DEF TriggersIn
<1>5. QED
  BY <1>1, <1>2, <1>3, <1>4 DEF Linked

\* A deploy either leaves the database alone or runs what is pending.
LEMMA RunToFacts ==
  ASSUME CatalogueInv, NEW n, NEW chainUp, RunTo(n, chainUp)
  PROVE  \/ db' = db /\ applied' = applied
         \/ /\ db' = Up(db, Pending(n)) /\ db'.ok /\ applied' = applied \o Pending(n)
            /\ Better(db, db')
            /\ UniqueOwners \notin ToSet(Pending(n)) => db.rows \subseteq db'.rows
            /\ KeptBut(db, db', "tokens_owners")
<1>1. CASE UNCHANGED <<db, applied>>
  BY <1>1
<1>2. CASE db' = Up(db, Pending(n)) /\ applied' = applied \o Pending(n) /\ Up(db, Pending(n)).ok
  <2>1. IsDatabase(db) /\ IsOrder(Pending(n))
    BY PendingFacts DEF CatalogueInv, Linked
  <2>2. /\ Better(db, Up(db, Pending(n)))
        /\ UniqueOwners \notin ToSet(Pending(n)) => db.rows \subseteq Up(db, Pending(n)).rows
        /\ KeptBut(db, Up(db, Pending(n)), "tokens_owners")
    BY <2>1, UpBetter
  <2>3. QED
    BY <1>2, <2>2
<1>3. QED
  BY <1>1, <1>2 DEF RunTo

LEMMA CatalogueRun ==
  ASSUME CatalogueInv, NEW n, NEW chainUp, RunTo(n, chainUp)
  PROVE  CatalogueInv'
<1>1. CASE db' = db /\ applied' = applied
  BY <1>1 DEF CatalogueInv
<1>2. CASE db'.ok /\ applied' = applied \o Pending(n) /\ Better(db, db')
  <2>1. IsOrder(applied')
    BY <1>2, PendingFacts, OrderFacts DEF CatalogueInv
  <2>2. Linked(db') /\ db'.rows \subseteq Rows'
    BY <1>2 DEF CatalogueInv, Better, Rows
  <2>3. QED
    BY <1>2, <2>1, <2>2 DEF CatalogueInv
<1>3. QED
  BY <1>1, <1>2, RunToFacts

LEMMA CatalogueStep ==
  ASSUME CatalogueInv, [Next]_vars
  PROVE  CatalogueInv'
<1>1. ASSUME NEW jump \in Jumps, NEW up \in BOOLEAN, Deploy(jump, up) PROVE CatalogueInv'
  BY <1>1, CatalogueRun DEF Deploy
<1>2. ASSUME NEW up \in BOOLEAN, Run(up) PROVE CatalogueInv'
  BY <1>2, CatalogueRun DEF Run
<1>3. CASE Revert
  <2> DEFINE i == applied[Len(applied)]
             d == ExecAll(db, Files[i].down)
  <2>0. /\ applied # <<>>
        /\ IF d.ok THEN /\ db' = d
                        /\ applied' = Front(applied)
                        /\ reverted' = reverted \cup {i}
           ELSE UNCHANGED <<db, applied, reverted>>
    BY <1>3, Zenon DEF Revert
  <2>1. applied # <<>> /\ (UNCHANGED <<db, applied>> \/ (d.ok /\ db' = d /\ applied' = Front(applied)))
    <3> HIDE DEF d, i
    <3>1. CASE d.ok
      BY <2>0, <3>1, Zenon
    <3>2. CASE ~d.ok
      BY <2>0, <3>2, Zenon
    <3>3. QED
      BY <3>1, <3>2
  <2>2. i \in 1..LastFile /\ IsOrder(Front(applied))
    BY <2>1, LastFacts DEF CatalogueInv
  <2>3. Better(db, d)
    <3> HIDE DEF i
    <3>1. QED
      BY <2>2, DownBetter DEF CatalogueInv, Linked
  <2> HIDE DEF d, i
  <2>4. CASE UNCHANGED <<db, applied>>
    BY <2>4 DEF CatalogueInv
  <2>5. CASE d.ok /\ db' = d /\ applied' = Front(applied)
    BY <2>2, <2>3, <2>5 DEF CatalogueInv, Better, Rows
  <2>6. QED
    BY <2>1, <2>4, <2>5
<1>4. ASSUME NEW r \in Rows, Store(r) PROVE CatalogueInv'
  <2>1. db' = Insert(db, r) /\ applied' = applied
    BY <1>4 DEF Store
  <2>2. Linked(db') /\ db'.ok = db.ok /\ db'.rows = db.rows \cup {r}
    BY <2>1, InsertFacts DEF CatalogueInv
  <2>3. QED
    BY <2>1, <2>2 DEF CatalogueInv, Rows
<1>5. ASSUME NEW r, Burn(r) PROVE CatalogueInv'
  <2>1. db' = SetBurned(db, r) /\ applied' = applied
    BY <1>5 DEF Burn
  <2>2. Linked(db') /\ db'.ok = db.ok /\ db'.rows = db.rows
    BY <2>1, BurnFacts DEF CatalogueInv
  <2>3. QED
    BY <2>1, <2>2 DEF CatalogueInv, Rows
<1>6. CASE UNCHANGED vars
  BY <1>6 DEF CatalogueInv, vars
<1>7. QED
  BY <1>1, <1>2, <1>3, <1>4, <1>5, <1>6 DEF Next

LEMMA CatalogueInvariant == Spec => []CatalogueInv
<1>1. Init => CatalogueInv
  <2>1. Init => IsOrder(applied)
    BY DEF Init, IsOrder
  <2>2. QED
    BY <2>1, EmptyLinked DEF Init, CatalogueInv
<1>2. CatalogueInv /\ [Next]_vars => CatalogueInv'
  BY CatalogueStep
<1>3. QED
  BY <1>1, <1>2, PTL DEF Spec

(***************************************************************************)
(* Every migration leaves columns, indexes, keys and triggers of existing  *)
(* tables, triggers with functions, and no failed transaction, whatever    *)
(* was shipped at once, reverted, stored and burned before it, for any     *)
(* rows, jumps and bound on the work.                                      *)
(***************************************************************************)
THEOREM CatalogueIsSound == Spec => []CatalogueSound
<1>1. CatalogueInv => CatalogueSound
  <2> SUFFICES ASSUME CatalogueInv PROVE CatalogueSound
    OBVIOUS
  <2>1. ASSUME NEW i \in db.indexes PROVE i.on \subseteq NamesOf(db, i.table)
    BY NamesOfFacts DEF CatalogueInv, Linked, IndexesIn
  <2>2. \A x \in db.columns \cup db.triggers : x.table \in db.tables
    BY DEF CatalogueInv, Linked, ColumnsIn, TriggersIn
  <2>3. \A k \in db.keys : {k.table, k.refers} \subseteq db.tables
    BY DEF CatalogueInv, Linked, KeysIn
  <2>4. \A tr \in db.triggers : \E f \in db.functions : f.function = tr.function
    BY DEF CatalogueInv, Linked, TriggersIn
  <2>5. QED
    BY <2>1, <2>2, <2>3, <2>4 DEF CatalogueInv, CatalogueSound
<1>2. QED
  BY <1>1, CatalogueInvariant, PTL

\* What a deploy does to the rows.
RowsKept ==
  Len(applied') > Len(applied) =>
    \/ db.rows \subseteq db'.rows
    \/ UniqueOwners \in ToSet(applied') \ Applied /\ db.rows \ InTable("tokens_owners") \subseteq db'.rows

LEMMA RunKeepsRows ==
  ASSUME CatalogueInv, NEW n, NEW chainUp, RunTo(n, chainUp)
  PROVE  RowsKept
<1>1. CASE db' = db
  BY <1>1 DEF RowsKept
<1>2. CASE /\ applied' = applied \o Pending(n)
           /\ UniqueOwners \notin ToSet(Pending(n)) => db.rows \subseteq db'.rows
           /\ KeptBut(db, db', "tokens_owners")
  <2>1. ToSet(Pending(n)) \subseteq ToSet(applied') /\ ToSet(Pending(n)) \cap Applied = {}
    BY <1>2, PendingFacts, OrderFacts DEF CatalogueInv
  <2>2. db.rows \ InTable("tokens_owners") \subseteq db'.rows
    BY <1>2 DEF KeptBut, InTable, CatalogueInv
  <2>3. QED
    BY <1>2, <2>1, <2>2 DEF RowsKept
<1>3. QED
  BY <1>1, <1>2, RunToFacts

(***************************************************************************)
(* However many migrations a deploy runs, and in whatever state of the     *)
(* database, it deletes no row but for the parts of tokens.                *)
(***************************************************************************)
THEOREM DeploysKeepRows == Spec => DeployKeepsRows
<1>1. CatalogueInv /\ [Next]_vars => [RowsKept]_vars
  <2> SUFFICES ASSUME CatalogueInv, Next PROVE RowsKept
    OBVIOUS
  <2>1. ASSUME NEW jump \in Jumps, NEW up \in BOOLEAN, Deploy(jump, up) PROVE RowsKept
    BY <2>1, RunKeepsRows DEF Deploy
  <2>2. ASSUME NEW up \in BOOLEAN, Run(up) PROVE RowsKept
    BY <2>2, RunKeepsRows DEF Run
  <2>3. CASE Revert
    <3>1. applied # <<>> /\ (applied' = applied \/ applied' = Front(applied))
      BY <2>3 DEF Revert
    <3>2. Len(Front(applied)) = Len(applied) - 1 /\ Len(applied) \in Nat
      BY <3>1, LastFacts DEF CatalogueInv
    <3>3. ~(Len(applied') > Len(applied))
      BY <3>1, <3>2
    <3>4. QED
      BY <3>3 DEF RowsKept
  <2>4. ASSUME applied' = applied PROVE RowsKept
    <3>1. Len(applied) \in Nat
      BY OrderFacts DEF CatalogueInv
    <3>2. QED
      BY <2>4, <3>1 DEF RowsKept
  <2>5. ASSUME NEW r, Store(r) \/ Burn(r) PROVE RowsKept
    BY <2>4, <2>5 DEF Store, Burn
  <2>6. QED
    BY <2>1, <2>2, <2>3, <2>5 DEF Next
<1>2. QED
  BY <1>1, CatalogueInvariant, PTL DEF Spec, DeployKeepsRows, RowsKept

-----------------------------------------------------------------------------
(***************************************************************************)
(* What statements do to the catalogue does not depend on the rows: on a   *)
(* database without rows they succeed too, and give the same catalogue.    *)
(***************************************************************************)
Mirrors(d, e) ==
  IsDatabase(d) /\ IsDatabase(e) /\ SameCatalogue(d, e) /\ d.ok /\ e.ok /\ e.rows = {}

LEMMA ReadsMirrored ==
  ASSUME NEW d, NEW e, SameCatalogue(d, e)
  PROVE  /\ \A t : NamesOf(e, t) = NamesOf(d, t)
         /\ \A t, names : At(e, t, names) = At(d, t, names)
         /\ \A f : Using(e, f) = Using(d, f)
         /\ \A n, t : Named(e, n, t) = Named(d, n, t)
         /\ \A t, cols : HasUnique(e, t, cols) <=> HasUnique(d, t, cols)
<1> USE DEF SameCatalogue
<1>1. \A t : NamesOf(e, t) = NamesOf(d, t)
  BY DEF NamesOf, ColumnsOf
<1>2. \A t, names : At(e, t, names) = At(d, t, names)
  BY DEF At
<1>3. \A f : Using(e, f) = Using(d, f)
  BY DEF Using
<1>4. \A n, t : Named(e, n, t) = Named(d, n, t)
  BY DEF Named
<1>5. \A t, cols : HasUnique(e, t, cols) <=> HasUnique(d, t, cols)
  BY DEF HasUnique
<1>6. QED
  BY <1>1, <1>2, <1>3, <1>4, <1>5

LEMMA ValidMirrored ==
  ASSUME NEW d, NEW e, NEW s, SameCatalogue(d, e), e.rows = {}, Proper(s), Valid(d, s)
  PROVE  Valid(e, s)
<1>1. /\ NamesOf(e, s.table) = NamesOf(d, s.table)
      /\ Using(e, s.function) = Using(d, s.function)
      /\ Named(e, s.trigger, s.table) = Named(d, s.trigger, s.table)
      /\ HasUnique(e, s.refers, s.on) <=> HasUnique(d, s.refers, s.on)
      /\ RowsIn(e, s.table) = {}
  BY ReadsMirrored DEF RowsIn
<1>2. /\ e.tables = d.tables /\ e.columns = d.columns /\ e.indexes = d.indexes /\ e.keys = d.keys
      /\ e.types = d.types /\ e.functions = d.functions
  BY DEF SameCatalogue
<1>3. CASE s.op = "create table"
  BY <1>2, <1>3 DEF Valid
<1>4. CASE s.op = "drop table"
  BY <1>2, <1>4 DEF Valid
<1>5. CASE s.op = "add columns"
  BY <1>1, <1>2, <1>5 DEF Valid
<1>6. CASE s.op = "add columns if missing"
  BY <1>2, <1>6 DEF Valid
<1>7. CASE s.op = "drop columns"
  BY <1>1, <1>7 DEF Valid
<1>8. CASE s.op = "alter column"
  BY <1>1, <1>8 DEF Valid
<1>9. CASE s.op = "rename column"
  BY <1>1, <1>9 DEF Valid
<1>10. CASE s.op = "create index"
  BY <1>1, <1>2, <1>10 DEF Valid
<1>11. CASE s.op = "drop index"
  BY <1>2, <1>11 DEF Valid
<1>12. CASE s.op = "add key"
  BY <1>1, <1>2, <1>12 DEF Valid
<1>13. CASE s.op = "drop key"
  BY <1>2, <1>13 DEF Valid
<1>14. CASE s.op = "create type"
  BY <1>2, <1>14 DEF Valid
<1>15. CASE s.op = "drop type"
  BY <1>2, <1>15 DEF Valid
<1>16. CASE s.op = "rename type"
  BY <1>2, <1>16 DEF Valid
<1>17. CASE s.op = "drop function"
  BY <1>1, <1>2, <1>17 DEF Valid
<1>18. CASE s.op = "drop function if exists"
  BY <1>1, <1>18 DEF Valid
<1>19. CASE s.op = "create trigger"
  BY <1>1, <1>2, <1>19 DEF Valid
<1>20. CASE s.op = "drop trigger"
  BY <1>1, <1>20 DEF Valid
<1>21. CASE s.op = "rejected"
  BY <1>21 DEF Valid
<1>22. CASE s.op \in Recounting \cup {"truncate", "replace function", "drop trigger if exists"}
  BY <1>22 DEF Valid, Recounting
<1>23. CASE s.op \in {"create table", "drop table", "add columns", "add columns if missing", "drop columns",
                     "alter column", "rename column", "create index", "drop index", "add key"}
  BY <1>3, <1>4, <1>5, <1>6, <1>7, <1>8, <1>9, <1>10, <1>11, <1>12, <1>23
<1>24. CASE s.op \in {"drop key", "create type", "drop type", "rename type", "drop function",
                     "drop function if exists", "create trigger", "drop trigger", "rejected"}
  BY <1>13, <1>14, <1>15, <1>16, <1>17, <1>18, <1>19, <1>20, <1>21, <1>24
<1>25. QED
  BY <1>22, <1>23, <1>24 DEF Proper, Operations, Recounting

LEMMA EffectMirrored ==
  ASSUME NEW d, NEW e, NEW s, Mirrors(d, e), Proper(s), Valid(d, s)
  PROVE  Mirrors(Effect(d, s), Effect(e, s))
<1> DEFINE p == Effect(d, s)
           q == Effect(e, s)
<1>1. IsDatabase(d) /\ IsDatabase(e) /\ SameCatalogue(d, e) /\ s.op # "rejected" /\ e.rows = {} /\ d.ok /\ e.ok
  BY ValidFacts DEF Mirrors
<1>2. IsDatabase(p) /\ IsDatabase(q) /\ p.ok /\ q.ok
  BY <1>1, EffectShape
<1>3. q.rows = {}
  BY <1>1, EffectRows
<1>4. SameCatalogue(p, q)
  <2>1. CASE s.op \in Recounting \cup {"truncate"}
    BY <1>1, <2>1, RowStatements DEF SameCatalogue
  <2>2. /\ NamesOf(e, s.table) = NamesOf(d, s.table)
        /\ At(e, s.table, Names(s.columns)) = At(d, s.table, Names(s.columns))
        /\ At(e, s.table, {s.from.column}) = At(d, s.table, {s.from.column})
        /\ At(e, s.table, {s.from}) = At(d, s.table, {s.from})
        /\ Named(e, s.trigger, s.table) = Named(d, s.trigger, s.table)
    BY <1>1, ReadsMirrored
  <2> USE <1>1 DEF SameCatalogue, IsDatabase, Effect
  <2>3. CASE s.op \in {"create table", "drop table", "add columns", "add columns if missing", "drop columns",
                     "alter column", "rename column"}
    <3>1. CASE s.op = "create table"
      BY <3>1
    <3>2. CASE s.op = "drop table"
      BY <3>2
    <3>3. CASE s.op = "add columns"
      BY <3>3
    <3>4. CASE s.op = "add columns if missing"
      BY <2>2, <3>4
    <3>5. CASE s.op = "drop columns"
      BY <2>2, <3>5 DEF WithoutColumns
    <3>6. CASE s.op = "alter column"
      BY <2>2, <3>6
    <3>7. CASE s.op = "rename column"
      BY <2>2, <3>7
    <3> HIDE <1>1 DEF SameCatalogue, IsDatabase, Effect
    <3>8. QED
      BY <2>3, <3>1, <3>2, <3>3, <3>4, <3>5, <3>6, <3>7
  <2>4. CASE s.op \in {"create index", "drop index", "add key", "drop key", "create type", "drop type", "rename type"}
    <3>1. CASE s.op = "create index"
      BY <3>1
    <3>2. CASE s.op = "drop index"
      BY <3>2
    <3>3. CASE s.op = "add key"
      BY <3>3
    <3>4. CASE s.op = "drop key"
      BY <3>4
    <3>5. CASE s.op = "create type"
      BY <3>5
    <3>6. CASE s.op = "drop type"
      BY <3>6
    <3>7. CASE s.op = "rename type"
      BY <3>7
    <3> HIDE <1>1 DEF SameCatalogue, IsDatabase, Effect
    <3>8. QED
      BY <2>4, <3>1, <3>2, <3>3, <3>4, <3>5, <3>6, <3>7
  <2>5. CASE s.op \in {"replace function", "drop function", "drop function if exists", "create trigger",
                     "drop trigger", "drop trigger if exists"}
    <3>1. CASE s.op = "replace function"
      BY <3>1
    <3>2. CASE s.op \in {"drop function", "drop function if exists"}
      BY <3>2
    <3>3. CASE s.op = "create trigger"
      BY <3>3
    <3>4. CASE s.op \in {"drop trigger", "drop trigger if exists"}
      BY <2>2, <3>4
    <3> HIDE <1>1 DEF SameCatalogue, IsDatabase, Effect
    <3>5. QED
      BY <2>5, <3>1, <3>2, <3>3, <3>4
  <2> HIDE <1>1 DEF SameCatalogue, IsDatabase, Effect
  <2>6. QED
    BY <1>1, <2>1, <2>3, <2>4, <2>5 DEF Proper, Operations, Recounting
<1> HIDE DEF p, q
<1>5. Mirrors(p, q)
  BY <1>2, <1>3, <1>4 DEF Mirrors
<1>6. QED
  BY <1>5 DEF p, q

LEMMA ExecMirrored ==
  ASSUME NEW d, NEW e, NEW s, Mirrors(d, e), Proper(s), Exec(d, s).ok
  PROVE  Mirrors(Exec(d, s), Exec(e, s))
<1>1. Valid(d, s) /\ Exec(d, s) = Effect(d, s)
  BY ExecShape DEF Mirrors
<1>2. Valid(e, s)
  BY <1>1, ValidMirrored DEF Mirrors
<1>3. Exec(e, s) = Effect(e, s)
  BY <1>2, ExecShape DEF Mirrors
<1>4. QED
  BY <1>1, <1>3, EffectMirrored

LEMMA ExecAllMirrored ==
  ASSUME NEW d, NEW e, NEW s, Mirrors(d, e), IsSeq(s), \A x \in ToSet(s) : Proper(x), ExecAll(d, s).ok
  PROVE  Mirrors(ExecAll(d, s), ExecAll(e, s))
<1> DEFINE n == Len(s)
<1>1. n \in Nat /\ \A k \in 1..n : s[k] \in ToSet(s)
  BY SeqFacts
<1> HIDE DEF n
<1>2. PICK f : /\ ExecAll(d, s) = f[n] /\ f[0] = d
               /\ \A k \in 1..n : f[k] = Exec(f[k - 1], s[k])
  BY <1>1, ExecAllUnfolds DEF n
<1>3. PICK g : /\ ExecAll(e, s) = g[n] /\ g[0] = e
               /\ \A k \in 1..n : g[k] = Exec(g[k - 1], s[k])
  BY <1>1, ExecAllUnfolds DEF n
<1> DEFINE S == {k \in 0..n : IsDatabase(f[k]) /\ (f[k].ok => Mirrors(f[k], g[k]))}
<1>4. ASSUME NEW k \in 0..(n - 1), k \in S PROVE k + 1 \in S
  <2>1. k + 1 \in 1..n /\ k + 1 \in 0..n /\ (k + 1) - 1 = k
    BY <1>1
  <2>2. f[k + 1] = Exec(f[k], s[k + 1]) /\ g[k + 1] = Exec(g[k], s[k + 1])
    BY <1>2, <1>3, <2>1
  <2>3. IsDatabase(f[k]) /\ (f[k].ok => Mirrors(f[k], g[k])) /\ Proper(s[k + 1])
    BY <1>1, <1>4, <2>1
  <2>4. IsDatabase(f[k + 1]) /\ (f[k + 1].ok => f[k].ok)
    BY <2>2, <2>3, ExecShape
  <2>5. f[k + 1].ok => Mirrors(f[k + 1], g[k + 1])
    BY <2>2, <2>3, <2>4, ExecMirrored
  <2>6. QED
    BY <2>1, <2>4, <2>5
<1>5. 0 \in S
  BY <1>1, <1>2, <1>3 DEF Mirrors
<1>6. \A k \in 0..n : k \in S
  <2> HIDE DEF S
  <2>1. QED
    BY <1>1, <1>4, <1>5, UpTo
<1>7. QED
  BY <1>1, <1>2, <1>3, <1>6

LEMMA UpRuns ==
  ASSUME NEW order, IsOrder(order)
  PROVE  \A d : \E f : /\ Up(d, order) = f[Len(order)] /\ f[0] = d
                      /\ \A k \in 1..Len(order) : f[k] = ExecAll(f[k - 1], Files[order[k]].up)
<1>1. Len(order) \in Nat
  <2> DEFINE N == 1..LastFile
  <2>1. order \in Seq(N)
    BY DEF IsOrder
  <2> HIDE DEF N
  <2>2. QED
    BY <2>1
<1>2. \A n \in Nat : Len(order) = n =>
         \A d : \E f : /\ Up(d, order) = f[n] /\ f[0] = d
                      /\ \A k \in 1..n : f[k] = ExecAll(f[k - 1], Files[order[k]].up)
  BY UpUnfolds
<1>3. QED
  BY <1>1, <1>2, Zenon

LEMMA UpMirrored ==
  ASSUME NEW d, NEW e, NEW order, Mirrors(d, e), IsOrder(order), Up(d, order).ok
  PROVE  Mirrors(Up(d, order), Up(e, order))
<1> DEFINE n == Len(order)
           N == 1..LastFile
<1>1. n \in Nat /\ \A k \in 1..n : order[k] \in N
  <2>1. order \in Seq(N)
    BY DEF IsOrder
  <2> HIDE DEF N
  <2>2. QED
    BY <2>1
<1>2. PICK f : /\ Up(d, order) = f[n] /\ f[0] = d
               /\ \A k \in 1..n : f[k] = ExecAll(f[k - 1], Files[order[k]].up)
  BY UpRuns
<1>3. PICK g : /\ Up(e, order) = g[n] /\ g[0] = e
               /\ \A k \in 1..n : g[k] = ExecAll(g[k - 1], Files[order[k]].up)
  BY UpRuns
<1> HIDE DEF n
<1> DEFINE S == {k \in 0..n : IsDatabase(f[k]) /\ (f[k].ok => Mirrors(f[k], g[k]))}
<1>4. ASSUME NEW k \in 0..(n - 1), k \in S PROVE k + 1 \in S
  <2>1. k + 1 \in 1..n /\ k + 1 \in 0..n /\ (k + 1) - 1 = k
    BY <1>1
  <2>2. PICK i \in N : i = order[k + 1]
    BY <1>1, <2>1
  <2> DEFINE up == Files[i].up
  <2>3. f[k + 1] = ExecAll(f[k], up) /\ g[k + 1] = ExecAll(g[k], up)
    BY <1>2, <1>3, <2>1, <2>2
  <2>4. IsDatabase(f[k]) /\ (f[k].ok => Mirrors(f[k], g[k]))
    BY <1>4
  <2>5. IsSeq(up) /\ \A x \in ToSet(up) : Proper(x)
    BY FilesFacts DEF Good
  <2> HIDE DEF up
  <2>6. IsDatabase(f[k + 1]) /\ (f[k + 1].ok => f[k].ok)
    BY <2>3, <2>4, <2>5, ExecAllBetter DEF Better
  <2>7. f[k + 1].ok => Mirrors(f[k + 1], g[k + 1])
    BY <2>3, <2>4, <2>5, <2>6, ExecAllMirrored
  <2>8. QED
    BY <2>1, <2>6, <2>7
<1>5. 0 \in S
  BY <1>1, <1>2, <1>3 DEF Mirrors
<1>6. \A k \in 0..n : k \in S
  <2> HIDE DEF S
  <2>1. QED
    BY <1>1, <1>4, <1>5, UpTo
<1>7. QED
  BY <1>1, <1>2, <1>3, <1>6

\* Deploys add up.
LEMMA UpJoin ==
  ASSUME NEW d, NEW a, NEW b, IsOrder(a), IsOrder(b)
  PROVE  Up(d, a \o b) = Up(Up(d, a), b)
<1> DEFINE m == Len(a)
           n == Len(b)
           c == a \o b
<1>1. /\ m \in Nat /\ n \in Nat /\ Len(c) = m + n
      /\ \A k \in 1..m : c[k] = a[k]
      /\ \A k \in 1..n : c[m + k] = b[k]
  BY OrderFacts
<1>2. PICK f : /\ Up(d, c) = f[m + n] /\ f[0] = d
               /\ \A k \in 1..(m + n) : f[k] = ExecAll(f[k - 1], Files[c[k]].up)
  <2> DEFINE l == m + n
  <2>1. l \in Nat /\ Len(c) = l
    BY <1>1
  <2> HIDE DEF c, m, n, l
  <2>2. \E f : /\ Up(d, c) = f[l] /\ f[0] = d
              /\ \A k \in 1..l : f[k] = ExecAll(f[k - 1], Files[c[k]].up)
    BY <2>1, UpUnfolds
  <2>3. QED
    BY <2>2 DEF l
<1>3. PICK g : /\ Up(d, a) = g[m] /\ g[0] = d
               /\ \A k \in 1..m : g[k] = ExecAll(g[k - 1], Files[a[k]].up)
  BY <1>1, UpUnfolds
<1>4. PICK h : /\ Up(Up(d, a), b) = h[n] /\ h[0] = Up(d, a)
               /\ \A k \in 1..n : h[k] = ExecAll(h[k - 1], Files[b[k]].up)
  BY <1>1, UpUnfolds
<1> HIDE DEF c, m, n
<1> DEFINE S == {k \in 0..m : f[k] = g[k]}
           T == {k \in 0..n : f[m + k] = h[k]}
<1>5. f[m] = g[m]
  <2>1. 0 \in S
    BY <1>1, <1>2, <1>3
  <2>2. ASSUME NEW k \in 0..(m - 1), k \in S PROVE k + 1 \in S
    <3>1. k + 1 \in 1..m /\ k + 1 \in 1..(m + n) /\ k + 1 \in 0..m /\ (k + 1) - 1 = k
      BY <1>1
    <3>2. f[k] = g[k]
      BY <2>2
    <3>3. f[k + 1] = ExecAll(f[k], Files[c[k + 1]].up) /\ g[k + 1] = ExecAll(g[k], Files[a[k + 1]].up)
      BY <1>2, <1>3, <3>1
    <3>4. c[k + 1] = a[k + 1]
      BY <1>1, <3>1
    <3>5. QED
      BY <3>1, <3>2, <3>3, <3>4
  <2>3. \A k \in 0..m : k \in S
    <3> HIDE DEF S
    <3>1. QED
      BY <1>1, <2>1, <2>2, UpTo
  <2>4. QED
    BY <1>1, <2>3
<1>6. f[m + n] = h[n]
  <2>1. 0 \in T
    BY <1>1, <1>3, <1>4, <1>5
  <2>2. ASSUME NEW k \in 0..(n - 1), k \in T PROVE k + 1 \in T
    <3>1. k + 1 \in 1..n /\ m + (k + 1) \in 1..(m + n) /\ k + 1 \in 0..n /\ (k + 1) - 1 = k /\ (m + (k + 1)) - 1 = m + k
      BY <1>1
    <3>2. f[m + k] = h[k]
      BY <2>2
    <3>3. f[m + (k + 1)] = ExecAll(f[m + k], Files[c[m + (k + 1)]].up)
      BY <1>2, <3>1
    <3>4. h[k + 1] = ExecAll(h[k], Files[b[k + 1]].up)
      BY <1>4, <3>1
    <3>5. c[m + (k + 1)] = b[k + 1]
      BY <1>1, <3>1
    <3>6. f[m + (k + 1)] = h[k + 1]
      BY <3>2, <3>3, <3>4, <3>5
    <3>7. QED
      BY <3>1, <3>6
  <2>3. \A k \in 0..n : k \in T
    <3> HIDE DEF T
    <3>1. QED
      BY <1>1, <2>1, <2>2, UpTo
  <2>4. QED
    BY <1>1, <2>3
<1>7. QED
  BY <1>2, <1>4, <1>6 DEF c

LEMMA UpOne ==
  ASSUME NEW d, NEW i
  PROVE  Up(d, <<i>>) = ExecAll(d, Files[i].up)
<1> DEFINE o == <<i>>
           n == 1
<1>1. n \in Nat /\ Len(o) = n /\ o[1] = i
  OBVIOUS
<1> HIDE DEF o, n
<1>2. PICK f : /\ Up(d, o) = f[n] /\ f[0] = d
               /\ \A k \in 1..n : f[k] = ExecAll(f[k - 1], Files[o[k]].up)
  BY <1>1, UpUnfolds
<1>3. f[1] = ExecAll(f[1 - 1], Files[o[1]].up)
  BY <1>2 DEF n
<1>4. QED
  BY <1>1, <1>2, <1>3 DEF n, o

LEMMA UpNone ==
  ASSUME NEW d
  PROVE  Up(d, <<>>) = d
<1>1. Len(<<>>) = 0
  OBVIOUS
<1>2. QED
  BY <1>1, UpUnfolds

-----------------------------------------------------------------------------
(***************************************************************************)
(* Taking back.  The converse of a statement that adds gives the catalogue *)
(* back that it was run on.                                                *)
(***************************************************************************)
\* All but the rows and counters of the effect of a converse.
LEMMA ConverseRuns ==
  ASSUME NEW s, NEW z, Proper(s), Adds(s), IsDatabase(z), Exec(z, Converse(s)).ok
  PROVE  Exec(z, Converse(s)) = Effect(z, Converse(s)) /\ Valid(z, Converse(s))
<1>1. Proper(Converse(s))
  BY ConverseProper DEF HasConverse
<1>2. QED
  BY <1>1, ExecShape

LEMMA TableRestored ==
  ASSUME NEW x, NEW s, NEW z, Linked(x), Proper(s), s.op = "create table", Valid(x, s),
         IsDatabase(z), SameCatalogue(Effect(x, s), z)
  PROVE  SameCatalogue(x, Effect(z, Converse(s)))
<1> DEFINE t == s.table
           pk == Index("PK_" \o s.table, s.table, s.primary, TRUE)
           new == Placed(s.table, s.columns)
           c == DropTable(s.table)
           e == Effect(z, Converse(s))
<1>1. IsDatabase(x) /\ t \notin x.tables
  BY ValidFacts DEF Linked
<1>2. /\ z.tables = x.tables \cup {t} /\ z.columns = x.columns \cup new /\ z.indexes = x.indexes \cup {pk}
      /\ z.keys = x.keys /\ z.types = x.types /\ z.functions = x.functions /\ z.triggers = x.triggers
  BY <1>1 DEF Effect, IsDatabase, SameCatalogue
<1>3. Converse(s) = c
  BY DEF Converse
<1>4. c.op = "drop table" /\ c.table = t
  BY DEF DropTable
<1> HIDE DEF c
<1>5. /\ e.tables = z.tables \ {t} /\ e.columns = {y \in z.columns : y.table # t}
      /\ e.indexes = {y \in z.indexes : y.table # t} /\ e.keys = {y \in z.keys : y.table # t}
      /\ e.types = z.types /\ e.functions = z.functions /\ e.triggers = {y \in z.triggers : y.table # t}
  BY <1>3, <1>4 DEF Effect, IsDatabase
<1>6. pk.table = t /\ \A y \in new : y.table = t
  BY PlacedFacts DEF Index
<1> HIDE DEF e, new, pk
<1>7. \A y \in x.columns : y.table # t
  BY <1>1 DEF Linked, ColumnsIn
<1>8. ASSUME NEW y \in x.indexes PROVE y.table # t
  <2>1. PICK n \in y.on : HasColumn(x, y.table, n)
    BY DEF Linked, IndexesIn
  <2>2. QED
    BY <1>7, <2>1 DEF HasColumn
<1>9. (\A y \in x.keys : y.table # t) /\ (\A y \in x.triggers : y.table # t)
  <2>1. \A y \in x.keys : y.table # t
    BY <1>1 DEF Linked, KeysIn
  <2>2. \A y \in x.triggers : y.table # t
    BY <1>1 DEF Linked, TriggersIn
  <2>3. QED
    BY <2>1, <2>2
<1>10. e.tables = x.tables
  <2>1. e.tables = (x.tables \cup {t}) \ {t}
    BY <1>2, <1>5
  <2>2. t \notin x.tables
    BY <1>1
  <2>3. QED
    BY <2>1, <2>2
<1>11. e.columns = x.columns
  <2>1. \A y : y \in e.columns <=> (y \in x.columns \/ y \in new) /\ y.table # t
    BY <1>2, <1>5
  <2>2. \A y : y \in e.columns <=> y \in x.columns
    BY <1>6, <1>7, <2>1
  <2>3. QED
    BY <2>2
<1>12. e.indexes = x.indexes
  <2>1. \A y : y \in e.indexes <=> (y \in x.indexes \/ y = pk) /\ y.table # t
    BY <1>2, <1>5
  <2>2. \A y : y \in e.indexes <=> y \in x.indexes
    BY <1>6, <1>8, <2>1
  <2>3. QED
    BY <2>2
<1>13. e.keys = x.keys /\ e.triggers = x.triggers
  BY <1>2, <1>5, <1>9
<1>14. SameCatalogue(x, e)
  BY <1>2, <1>5, <1>10, <1>11, <1>12, <1>13 DEF SameCatalogue
<1>15. QED
  BY <1>14 DEF e

LEMMA ColumnsRestored ==
  ASSUME NEW x, NEW s, NEW z, Linked(x), Proper(s), s.op = "add columns", Valid(x, s),
         IsDatabase(z), SameCatalogue(Effect(x, s), z)
  PROVE  SameCatalogue(x, Effect(z, Converse(s)))
<1> DEFINE t == s.table
           new == Placed(s.table, s.columns)
           names == Names(s.columns)
           c == DropColumns(s.table, s.columns)
           e == Effect(z, Converse(s))
<1>1. IsDatabase(x) /\ names \cap NamesOf(x, t) = {}
  BY ValidFacts DEF Linked
<1>2. /\ z.tables = x.tables /\ z.columns = x.columns \cup new /\ z.indexes = x.indexes
      /\ z.keys = x.keys /\ z.types = x.types /\ z.functions = x.functions /\ z.triggers = x.triggers
  BY <1>1 DEF Effect, IsDatabase, SameCatalogue
<1>3. Converse(s) = c
  BY DEF Converse
<1>4. c.op = "drop columns" /\ c.table = t /\ c.columns = s.columns
  BY DEF DropColumns
<1> HIDE DEF c
<1>5. /\ e.tables = z.tables /\ e.columns = z.columns \ At(z, t, names)
      /\ e.indexes = {i \in z.indexes : ~(i.table = t /\ i.on \cap names # {})}
      /\ e.keys = z.keys /\ e.types = z.types /\ e.functions = z.functions /\ e.triggers = z.triggers
  BY <1>3, <1>4 DEF Effect, WithoutColumns, IsDatabase
<1>6. \A y \in new : y.table = t /\ y.def.column \in names
  BY PlacedFacts DEF Names
<1> HIDE DEF e, new, names
<1>7. \A n \in names : ~HasColumn(x, t, n)
  BY <1>1, NamesOfFacts
<1>8. \A y \in x.columns : ~(y.table = t /\ y.def.column \in names)
  BY <1>7 DEF HasColumn
<1>9. \A i \in x.indexes : ~(i.table = t /\ i.on \cap names # {})
  BY <1>7 DEF Linked, IndexesIn
<1>10. e.columns = x.columns
  BY <1>2, <1>5, <1>6, <1>8 DEF At
<1>11. e.indexes = x.indexes
  BY <1>2, <1>5, <1>9
<1>12. SameCatalogue(x, e)
  BY <1>2, <1>5, <1>10, <1>11 DEF SameCatalogue
<1>13. QED
  BY <1>12 DEF e

LEMMA IndexRestored ==
  ASSUME NEW x, NEW s, NEW z, Linked(x), Proper(s), s.op = "create index", Valid(x, s),
         IsDatabase(z), SameCatalogue(Effect(x, s), z)
  PROVE  SameCatalogue(x, Effect(z, Converse(s)))
<1> DEFINE new == Index(s.index, s.table, s.on, s.unique)
           e == Effect(z, Converse(s))
<1>1. IsDatabase(x) /\ \A i \in x.indexes : i.index # s.index
  <2>1. s.index \notin {i.index : i \in x.indexes}
    BY ValidFacts
  <2>2. QED
    BY <2>1 DEF Linked
<1>2. /\ z.tables = x.tables /\ z.columns = x.columns /\ z.indexes = x.indexes \cup {new}
      /\ z.keys = x.keys /\ z.types = x.types /\ z.functions = x.functions /\ z.triggers = x.triggers
  BY <1>1 DEF Effect, IsDatabase, SameCatalogue
<1>3. Converse(s) = DropIndex(new)
  BY DEF Converse
<1>4. DropIndex(new).op = "drop index" /\ DropIndex(new).was = new
  BY DEF DropIndex
<1>5. new.index = s.index
  BY DEF Index
<1>6. /\ e.tables = z.tables /\ e.columns = z.columns /\ e.indexes = {i \in z.indexes : i.index # s.index}
      /\ e.keys = z.keys /\ e.types = z.types /\ e.functions = z.functions /\ e.triggers = z.triggers
  <2> HIDE DEF new
  <2>1. QED
    BY <1>3, <1>4, <1>5 DEF Effect, IsDatabase
<1> HIDE DEF e, new
<1>7. e.indexes = x.indexes
  BY <1>1, <1>2, <1>5, <1>6
<1>8. SameCatalogue(x, e)
  BY <1>2, <1>6, <1>7 DEF SameCatalogue
<1>9. QED
  BY <1>8 DEF e

LEMMA KeyRestored ==
  ASSUME NEW x, NEW s, NEW z, Linked(x), Proper(s), s.op = "add key", Valid(x, s),
         IsDatabase(z), SameCatalogue(Effect(x, s), z)
  PROVE  SameCatalogue(x, Effect(z, Converse(s)))
<1> DEFINE new == [key |-> s.key, table |-> s.table, refers |-> s.refers]
           c == DropKey(s.key, s.table, s.refers, s.on)
           e == Effect(z, Converse(s))
<1>1. IsDatabase(x) /\ s.key \notin {k.key : k \in x.keys}
  BY ValidFacts DEF Linked
<1>2. /\ z.tables = x.tables /\ z.columns = x.columns /\ z.indexes = x.indexes
      /\ z.keys = x.keys \cup {new} /\ z.types = x.types /\ z.functions = x.functions /\ z.triggers = x.triggers
  BY <1>1 DEF Effect, IsDatabase, SameCatalogue
<1>3. Converse(s) = c
  BY DEF Converse
<1>4. c.op = "drop key" /\ c.key = s.key
  BY DEF DropKey
<1> HIDE DEF c
<1>5. /\ e.tables = z.tables /\ e.columns = z.columns /\ e.indexes = z.indexes
      /\ e.keys = {k \in z.keys : k.key # s.key}
      /\ e.types = z.types /\ e.functions = z.functions /\ e.triggers = z.triggers
  BY <1>3, <1>4 DEF Effect, IsDatabase
<1>6. new.key = s.key
  OBVIOUS
<1>7. \A k \in x.keys : k.key # s.key
  BY <1>1
<1> HIDE DEF e, new
<1>8. e.keys = x.keys
  BY <1>2, <1>5, <1>6, <1>7
<1>9. SameCatalogue(x, e)
  BY <1>2, <1>5, <1>8 DEF SameCatalogue
<1>10. QED
  BY <1>9 DEF e

LEMMA TypeRestored ==
  ASSUME NEW x, NEW s, NEW z, Linked(x), Proper(s), s.op = "create type", Valid(x, s),
         IsDatabase(z), SameCatalogue(Effect(x, s), z)
  PROVE  SameCatalogue(x, Effect(z, Converse(s)))
<1> DEFINE new == [type |-> s.type, labels |-> s.labels]
           c == DropType(s.type)
           e == Effect(z, Converse(s))
<1>1. IsDatabase(x) /\ s.type \notin {y.type : y \in x.types}
  BY ValidFacts DEF Linked
<1>2. /\ z.tables = x.tables /\ z.columns = x.columns /\ z.indexes = x.indexes /\ z.keys = x.keys
      /\ z.types = x.types \cup {new} /\ z.functions = x.functions /\ z.triggers = x.triggers
  BY <1>1 DEF Effect, IsDatabase, SameCatalogue
<1>3. Converse(s) = c
  BY DEF Converse
<1>4. c.op = "drop type" /\ c.type = s.type
  BY DEF DropType
<1> HIDE DEF c
<1>5. /\ e.tables = z.tables /\ e.columns = z.columns /\ e.indexes = z.indexes /\ e.keys = z.keys
      /\ e.types = {y \in z.types : y.type # s.type} /\ e.functions = z.functions /\ e.triggers = z.triggers
  BY <1>3, <1>4 DEF Effect, IsDatabase
<1>6. new.type = s.type
  OBVIOUS
<1>7. \A y \in x.types : y.type # s.type
  BY <1>1
<1> HIDE DEF e, new
<1>8. e.types = x.types
  BY <1>2, <1>5, <1>6, <1>7
<1>9. SameCatalogue(x, e)
  BY <1>2, <1>5, <1>8 DEF SameCatalogue
<1>10. QED
  BY <1>9 DEF e

LEMMA Restored ==
  ASSUME NEW x, NEW s, NEW z, Linked(x), Proper(s), Adds(s), Valid(x, s),
         IsDatabase(z), SameCatalogue(Effect(x, s), z), Exec(z, Converse(s)).ok
  PROVE  SameCatalogue(x, Exec(z, Converse(s)))
<1>1. SameCatalogue(x, Effect(z, Converse(s)))
  BY TableRestored, ColumnsRestored, IndexRestored, KeyRestored, TypeRestored DEF Adds
<1>2. Exec(z, Converse(s)) = Effect(z, Converse(s))
  BY ConverseRuns
<1>3. QED
  BY <1>1, <1>2

LEMMA UndoRestores ==
  ASSUME NEW x, NEW up, Linked(x), IsSeq(up), \A s \in ToSet(up) : Proper(s) /\ Adds(s),
         ExecAll(x, up).ok, ExecAll(ExecAll(x, up), Undo(up)).ok
  PROVE  SameCatalogue(x, ExecAll(ExecAll(x, up), Undo(up)))
<1> DEFINE n == Len(up)
           down == Undo(up)
<1>1. /\ n \in Nat /\ Len(down) = n /\ \A k \in 1..n : up[k] \in ToSet(up)
      /\ \A k \in 1..n : down[k] = Converse(up[n + 1 - k])
  BY SeqFacts, UndoFacts
<1>a. PICK a : Passes(x, up, n, a)
  BY <1>1, ExecAllRuns
<1>2. /\ ExecAll(x, up) = a[n] /\ a[0] = x
      /\ \A k \in 1..n : a[k] = Exec(a[k - 1], up[k])
  BY <1>a DEF Passes
<1> DEFINE y == ExecAll(x, up)
<1> HIDE DEF y, down
<1>b. PICK b : Passes(y, down, n, b)
  BY <1>1, ExecAllRuns
<1>3. /\ ExecAll(y, down) = b[n] /\ b[0] = y
      /\ \A k \in 1..n : b[k] = Exec(b[k - 1], down[k])
  BY <1>b DEF Passes
<1> HIDE DEF n
<1>4. \A k \in 1..n : Proper(up[k]) /\ Adds(up[k])
  BY <1>1
<1> DEFINE S == {k \in 0..n : IsDatabase(a[k]) /\ (a[k].ok => Linked(a[k]))}
           T == {m \in 0..n : /\ IsDatabase(b[m]) /\ a[n - m].ok
                              /\ b[m].ok => SameCatalogue(a[n - m], b[m])}
<1>5. \A k \in 0..n : k \in S
  <2>1. 0 \in S
    BY <1>1, <1>2 DEF Linked
  <2>2. ASSUME NEW k \in 0..(n - 1), k \in S PROVE k + 1 \in S
    <3>1. k + 1 \in 1..n /\ k + 1 \in 0..n /\ (k + 1) - 1 = k
      BY <1>1
    <3>2. a[k + 1] = Exec(a[k], up[k + 1]) /\ Proper(up[k + 1])
      BY <1>2, <1>4, <3>1
    <3>3. IsDatabase(a[k]) /\ (a[k].ok => Linked(a[k]))
      BY <2>2
    <3>4. Better(a[k], a[k + 1])
      BY <3>2, <3>3, ExecBetter
    <3>5. IsDatabase(a[k + 1]) /\ (a[k + 1].ok => Linked(a[k + 1]))
      BY <3>3, <3>4 DEF Better
    <3>6. QED
      BY <3>1, <3>5
  <2> HIDE DEF S
  <2>3. QED
    BY <1>1, <2>1, <2>2, UpTo
<1>6. 0 \in T
  <2>1. n \in S /\ 0 \in 0..n /\ n - 0 = n
    BY <1>1, <1>5
  <2>2. b[0] = a[n] /\ a[n].ok /\ IsDatabase(a[n])
    BY <1>2, <1>3, <2>1 DEF y
  <2>3. SameCatalogue(a[n], b[0])
    BY <2>2 DEF SameCatalogue
  <2>4. QED
    BY <2>1, <2>2, <2>3
<1>7. ASSUME NEW m \in 0..(n - 1), m \in T PROVE m + 1 \in T
  <2> DEFINE k == n - m
             s == up[k]
  <2>1. /\ k \in 1..n /\ k - 1 \in 0..n /\ n - (m + 1) = k - 1
        /\ m + 1 \in 1..n /\ m + 1 \in 0..n /\ (m + 1) - 1 = m /\ n + 1 - (m + 1) = k
    BY <1>1
  <2>2. /\ a[k] = Exec(a[k - 1], s) /\ b[m + 1] = Exec(b[m], Converse(s))
        /\ Proper(s) /\ Adds(s)
    <3>1. a[k] = Exec(a[k - 1], s) /\ Proper(s) /\ Adds(s)
      BY <1>2, <1>4, <2>1
    <3>2. b[m + 1] = Exec(b[m], down[m + 1]) /\ down[m + 1] = Converse(s)
      BY <1>1, <1>3, <2>1
    <3>3. QED
      BY <3>1, <3>2
  <2>3. k - 1 \in S
    BY <1>5, <2>1
  <2>4. /\ IsDatabase(b[m]) /\ a[k].ok /\ (b[m].ok => SameCatalogue(a[k], b[m]))
        /\ IsDatabase(a[k - 1]) /\ (a[k - 1].ok => Linked(a[k - 1]))
    BY <1>7, <2>3
  <2> HIDE DEF S, s, k
  <2>5. a[k - 1].ok /\ Valid(a[k - 1], s) /\ a[k] = Effect(a[k - 1], s)
    BY <2>2, <2>4, ExecShape
  <2>6. Proper(Converse(s))
    BY <2>2, ConverseProper DEF HasConverse
  <2>7. IsDatabase(b[m + 1]) /\ (b[m + 1].ok => b[m].ok)
    BY <2>2, <2>4, <2>6, ExecShape
  <2>8. b[m + 1].ok => SameCatalogue(a[k - 1], b[m + 1])
    BY <2>2, <2>4, <2>5, <2>7, Restored
  <2>9. QED
    BY <2>1, <2>5, <2>7, <2>8
<1>8. n \in T
  <2>1. \A m \in 0..n : m \in T
    <3> HIDE DEF T
    <3>1. QED
      BY <1>1, <1>6, <1>7, UpTo
  <2>2. QED
    BY <1>1, <2>1
<1>9. n - n = 0 /\ SameCatalogue(a[n - n], b[n])
  <2>1. b[n].ok
    BY <1>3 DEF y, down
  <2>2. n - n = 0
    BY <1>1
  <2>3. QED
    BY <1>8, <2>1, <2>2
<1>10. SameCatalogue(x, b[n])
  BY <1>2, <1>9
<1>11. QED
  BY <1>3, <1>10 DEF y, down

-----------------------------------------------------------------------------
(***************************************************************************)
(* The schema follows the migrations that were run.                        *)
(***************************************************************************)
HistoryInv ==
  reverted \subseteq Additive => Mirrors(db, Up(EmptyDatabase, applied))

LEMMA UpEmpty ==
  ASSUME NEW order, IsOrder(order)
  PROVE  /\ IsDatabase(Up(EmptyDatabase, order)) /\ Up(EmptyDatabase, order).rows = {}
         /\ Up(EmptyDatabase, order).ok => Linked(Up(EmptyDatabase, order))
<1>1. IsDatabase(EmptyDatabase) /\ Linked(EmptyDatabase) /\ EmptyDatabase.rows = {}
  BY EmptyLinked DEF Linked
<1>2. Better(EmptyDatabase, Up(EmptyDatabase, order))
  BY <1>1, UpBetter
<1>3. QED
  BY <1>1, <1>2 DEF Better

LEMMA HistoryRun ==
  ASSUME CatalogueInv, HistoryInv, NEW n, NEW chainUp, RunTo(n, chainUp), reverted' = reverted
  PROVE  HistoryInv'
<1> DEFINE order == Pending(n)
<1>1. CASE db' = db /\ applied' = applied
  BY <1>1 DEF HistoryInv
<1>2. CASE db' = Up(db, order) /\ db'.ok /\ applied' = applied \o order
  <2> SUFFICES ASSUME reverted \subseteq Additive PROVE Mirrors(db', Up(EmptyDatabase, applied'))
    BY DEF HistoryInv
  <2>1. IsOrder(order) /\ IsOrder(applied)
    BY PendingFacts DEF CatalogueInv
  <2> HIDE DEF order
  <2>2. Mirrors(db, Up(EmptyDatabase, applied)) /\ Up(db, order).ok
    BY <1>2 DEF HistoryInv
  <2>3. Mirrors(Up(db, order), Up(Up(EmptyDatabase, applied), order))
    BY <2>1, <2>2, UpMirrored
  <2>4. Up(EmptyDatabase, applied \o order) = Up(Up(EmptyDatabase, applied), order)
    BY <2>1, UpJoin
  <2>5. QED
    BY <1>2, <2>3, <2>4
<1>3. QED
  BY <1>1, <1>2, RunToFacts

\* Rows leave the catalogue alone.
LEMMA HistoryRow ==
  ASSUME HistoryInv, reverted' = reverted, applied' = applied,
         IsDatabase(db'), SameCatalogue(db, db'), db'.ok = db.ok
  PROVE  HistoryInv'
BY DEF HistoryInv, Mirrors, SameCatalogue

LEMMA HistoryRevert ==
  ASSUME CatalogueInv, HistoryInv, Revert
  PROVE  HistoryInv'
<1> DEFINE i == applied[Len(applied)]
           before == Front(applied)
           d == ExecAll(db, Files[i].down)
<1>1. /\ applied # <<>>
      /\ IF d.ok THEN /\ db' = d
                      /\ applied' = before
                      /\ reverted' = reverted \cup {i}
         ELSE UNCHANGED <<db, applied, reverted>>
  BY Zenon DEF Revert
<1>2. i \in 1..LastFile /\ IsOrder(before) /\ applied = before \o <<i>> /\ IsOrder(<<i>>)
  <2>1. i \in 1..LastFile /\ IsOrder(before) /\ applied = before \o <<i>>
    BY <1>1, LastFacts DEF CatalogueInv
  <2>2. IsOrder(<<i>>)
    <3> DEFINE N == 1..LastFile
    <3>1. i \in N
      BY <2>1
    <3> HIDE DEF N, i
    <3>2. <<i>> \in Seq(N)
      BY <3>1
    <3>3. QED
      BY <3>2 DEF IsOrder, N
  <2>3. QED
    BY <2>1, <2>2
<1> HIDE DEF i, before, d
<1>3. CASE ~d.ok
  <2>1. db' = db /\ applied' = applied /\ reverted' = reverted
    BY <1>1, <1>3, Zenon
  <2>2. QED
    BY <2>1 DEF HistoryInv
<1>4. CASE d.ok
  <2>1. db' = d /\ applied' = before /\ reverted' = reverted \cup {i}
    BY <1>1, <1>4, Zenon
  <2> SUFFICES ASSUME reverted' \subseteq Additive PROVE Mirrors(db', Up(EmptyDatabase, applied'))
    BY DEF HistoryInv
  <2> DEFINE m == Files[i]
             e0 == Up(EmptyDatabase, before)
             e == ExecAll(e0, m.up)
  <2>2. i \in Additive /\ Mirrors(db, Up(EmptyDatabase, applied))
    BY <2>1 DEF HistoryInv
  <2>3. Up(EmptyDatabase, applied) = e
    BY <1>2, UpJoin, UpOne
  <2>4. Good(m) /\ m.down = Undo(m.up) /\ \A s \in ToSet(m.up) : Adds(s)
    BY <1>2, <2>2, FilesFacts DEF Adding
  <2>5. IsDatabase(e0) /\ e0.rows = {} /\ (e0.ok => Linked(e0))
    BY <1>2, UpEmpty
  <2>6. d = ExecAll(db, m.down)
    BY DEF d
  <2> HIDE DEF m, e0
  <2>7. IsSeq(m.up) /\ IsSeq(m.down) /\ (\A s \in ToSet(m.up) : Proper(s)) /\ (\A s \in ToSet(m.down) : Proper(s))
    BY <2>4 DEF Good
  <2>8. e.ok /\ e0.ok /\ Linked(e0)
    BY <2>2, <2>3, <2>5, <2>7, ExecAllBetter DEF Mirrors, Better
  <2> HIDE DEF e
  <2>9. Mirrors(d, ExecAll(e, m.down))
    BY <1>4, <2>2, <2>3, <2>6, <2>7, ExecAllMirrored
  <2>10. SameCatalogue(e0, ExecAll(e, m.down))
    <3>1. ExecAll(e, Undo(m.up)).ok
      BY <2>4, <2>9 DEF Mirrors
    <3>2. \A s \in ToSet(m.up) : Proper(s) /\ Adds(s)
      BY <2>4, <2>7
    <3>3. SameCatalogue(e0, ExecAll(ExecAll(e0, m.up), Undo(m.up)))
      BY <2>7, <2>8, <3>1, <3>2, UndoRestores DEF e
    <3>4. QED
      BY <2>4, <3>3 DEF e
  <2>11. Mirrors(d, e0)
    BY <2>5, <2>8, <2>9, <2>10 DEF Mirrors, SameCatalogue
  <2>12. QED
    BY <2>1, <2>11 DEF e0
<1>5. QED
  BY <1>3, <1>4

LEMMA HistoryStep ==
  ASSUME CatalogueInv, HistoryInv, [Next]_vars
  PROVE  HistoryInv'
<1>1. ASSUME NEW jump \in Jumps, NEW up \in BOOLEAN, Deploy(jump, up) PROVE HistoryInv'
  BY <1>1, HistoryRun DEF Deploy
<1>2. ASSUME NEW up \in BOOLEAN, Run(up) PROVE HistoryInv'
  BY <1>2, HistoryRun DEF Run
<1>3. CASE Revert
  BY <1>3, HistoryRevert
<1>4. ASSUME NEW r \in Rows, Store(r) PROVE HistoryInv'
  <2>1. db' = Insert(db, r) /\ applied' = applied /\ reverted' = reverted
    BY <1>4 DEF Store
  <2>2. IsDatabase(db') /\ SameCatalogue(db, db') /\ db'.ok = db.ok
    BY <2>1, InsertFacts DEF CatalogueInv, Linked
  <2>3. QED
    BY <2>1, <2>2, HistoryRow
<1>5. ASSUME NEW r, Burn(r) PROVE HistoryInv'
  <2>1. db' = SetBurned(db, r) /\ applied' = applied /\ reverted' = reverted
    BY <1>5 DEF Burn
  <2>2. IsDatabase(db') /\ SameCatalogue(db, db') /\ db'.ok = db.ok
    BY <2>1, BurnFacts DEF CatalogueInv, Linked
  <2>3. QED
    BY <2>1, <2>2, HistoryRow
<1>6. CASE UNCHANGED vars
  BY <1>6 DEF HistoryInv, vars
<1>7. QED
  BY <1>1, <1>2, <1>3, <1>4, <1>5, <1>6 DEF Next

LEMMA HistoryInvariant == Spec => []HistoryInv
<1>1. Init => HistoryInv
  <2> SUFFICES ASSUME Init PROVE HistoryInv
    OBVIOUS
  <2>1. db = EmptyDatabase /\ Up(EmptyDatabase, applied) = EmptyDatabase
    BY UpNone DEF Init
  <2>2. QED
    BY <2>1, EmptyLinked DEF HistoryInv, Mirrors, SameCatalogue, Linked
<1>2. CatalogueInv /\ HistoryInv /\ [Next]_vars => HistoryInv'
  BY HistoryStep
<1>3. QED
  BY <1>1, <1>2, CatalogueInvariant, PTL DEF Spec

LEMMA SchemaOfFacts ==
  ASSUME NEW order, IsOrder(order)
  PROVE  SchemaOf(order) = Schema(Up(EmptyDatabase, order))
<1> DEFINE N == 1..LastFile
           n == Len(order)
<1>1. n \in Nat /\ DOMAIN order = 1..n /\ \A k \in 1..n : order[k] \in N
  <2>1. order \in Seq(N)
    BY DEF IsOrder
  <2> HIDE DEF N
  <2>2. QED
    BY <2>1
<1>2. CASE order = [i \in DOMAIN order |-> i]
  <2>1. n \in 0..LastFile
    <3>1. CASE n = 0
      BY <3>1, Fifty4
    <3>2. CASE n # 0
      <4>1. n \in 1..n
        BY <1>1, <3>2
      <4>2. order[n] = n
        BY <1>1, <1>2, <4>1
      <4>3. QED
        BY <1>1, <4>1, <4>2
    <3>3. QED
      BY <3>1, <3>2
  <2>2. order = [i \in 1..n |-> i]
    BY <1>1, <1>2
  <2> HIDE DEF n
  <2>3. SchemaAfter[n] = Schema(Up(EmptyDatabase, [i \in 1..n |-> i]))
    BY <2>1 DEF SchemaAfter
  <2>4. SchemaOf(order) = SchemaAfter[n]
    BY <1>2 DEF SchemaOf, n
  <2>5. QED
    BY <2>2, <2>3, <2>4
<1>3. CASE order # [i \in DOMAIN order |-> i]
  BY <1>3 DEF SchemaOf
<1>4. QED
  BY <1>2, <1>3

(***************************************************************************)
(* Whatever was deployed at once or release by release, stored and burned, *)
(* the schema is the one the migrations that were run make on an empty     *)
(* database, in the order they were run: also after reverts of generated   *)
(* migrations that only add, any number of them, in any order.             *)
(***************************************************************************)
THEOREM SchemaFollowsAdditiveHistory ==
  Spec => [](reverted \subseteq Additive => Schema(db) = SchemaOf(applied))
<1> DEFINE Follows == reverted \subseteq Additive => Schema(db) = SchemaOf(applied)
<1>1. CatalogueInv /\ HistoryInv => Follows
  <2> SUFFICES ASSUME CatalogueInv, HistoryInv, reverted \subseteq Additive PROVE Schema(db) = SchemaOf(applied)
    OBVIOUS
  <2> DEFINE e == Up(EmptyDatabase, applied)
  <2>1. Mirrors(db, e)
    BY DEF HistoryInv
  <2>2. SchemaOf(applied) = Schema(e)
    BY SchemaOfFacts DEF CatalogueInv
  <2> HIDE DEF e
  <2>3. Schema(db) = Schema(e)
    BY <2>1 DEF Mirrors, IsDatabase, SameCatalogue, Schema
  <2>4. QED
    BY <2>2, <2>3
<1>2. QED
  BY <1>1, CatalogueInvariant, HistoryInvariant, PTL
===============================================================================
