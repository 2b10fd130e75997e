------------------------------ MODULE WebLists ------------------------------
(***************************************************************************)
(* The lists of the web API: BaseService turns the arguments of a GraphQL  *)
(* query into one SQL query for a page and one for the count, the services *)
(* add conditions of their own, and a client reads page after page while   *)
(* the crawler writes.  The rows of a list are reduced to a key, a column  *)
(* that may be NULL, whether the condition of the service holds of them,   *)
(* and the rows of a related table they are joined with.                   *)
(***************************************************************************)
EXTENDS Naturals, Sequences, FiniteSets, SequencesExt

CONSTANTS
  Ids,         \* keys of the rows
  Values,      \* numbers, what the columns hold
  Null,
  Rows,        \* what the crawler writes
  Tables,      \* the tables a client may find
  Requests,    \* what clients may ask for
  Arguments,   \* the arguments where they are made of, with the members of their lists
  Depth,       \* of an argument: its members lie deeper
  DefaultPageSize,
  MaxWrites,   \* bound: writes of the crawler while a client reads a list
  MayFail      \* TRUE: queries may fail

Columns == {"id", "a", "rel"}
Lists   == {"_and", "_or", "tokens"}

\* rel are the values in the rows joined with the row, tokens those of the tokens
\* of a collection.
Row == [a : Values \cup {Null}, own : BOOLEAN, rel : SUBSET Values, tokens : SUBSET Values]

\* A row with one of those it is joined with.
Line == [id : Ids, a : Values \cup {Null}, own : BOOLEAN, rel : Values \cup {Null},
         tokens : SUBSET Values]

\* How a service builds its queries: where its own condition stands, how it
\* joins the related table, whether it takes distinct_on, whether it joins for
\* the arguments too, whether it pages, whether an error becomes an empty list.
Plain == [own |-> "none", join |-> "none", distinct |-> FALSE, paged |-> TRUE, wrapped |-> TRUE]

Accounts         == Plain
Blocks           == Plain
Extrinsics       == Plain
Attributes       == [Plain EXCEPT !.wrapped = FALSE]
Events           == [Plain EXCEPT !.wrapped = FALSE]
Transfers        == [Plain EXCEPT !.own = "before"]
EvmTransactions  == [Plain EXCEPT !.distinct = TRUE]
TokenOwners      == [Plain EXCEPT !.distinct = TRUE]
TokensFind       == [Plain EXCEPT !.join = "inner", !.distinct = TRUE]
Bundles          == [TokensFind EXCEPT !.own = "before"]
TokensOf         == [Plain EXCEPT !.own = "before", !.join = "inner", !.paged = FALSE, !.wrapped = FALSE]
CollectionsFind  == [Plain EXCEPT !.join = "left", !.distinct = TRUE]
Transactions     == [Plain EXCEPT !.own = "before", !.join = "inner"]
TokenEvents      == [Plain EXCEPT !.own = "after", !.join = "left", !.wrapped = FALSE]
CollectionEvents == [Plain EXCEPT !.own = "after", !.join = "inner", !.wrapped = FALSE]

Services ==
  [accounts |-> Accounts, blocks |-> Blocks, extrinsics |-> Extrinsics, attributes |-> Attributes,
   events |-> Events, transfers |-> Transfers, evm |-> EvmTransactions, tokenOwners |-> TokenOwners,
   tokens |-> TokensFind, bundles |-> Bundles, tokensOf |-> TokensOf, collections |-> CollectionsFind,
   transactions |-> Transactions, tokenEvents |-> TokenEvents, collectionEvents |-> CollectionEvents]

IsList(s) == Len(s) \in Nat /\ DOMAIN s = 1..Len(s)

ASSUME WebAssumption ==
  /\ IsFiniteSet(Ids) /\ Ids \subseteq Nat
  /\ IsFiniteSet(Values) /\ Values \subseteq Nat \ {0}
  /\ Null \notin Values
  /\ Rows \subseteq Row
  /\ \A t \in Tables : t \in [DOMAIN t -> Row] /\ DOMAIN t \subseteq Ids
  /\ DefaultPageSize \in Nat \ {0}
  /\ MaxWrites \in Nat
  /\ MayFail \in BOOLEAN
  /\ <<>> \in Arguments /\ Depth \in [Arguments -> Nat]
  /\ \A where \in Arguments :
       /\ IsList(where)
       /\ \A i \in DOMAIN where : where[i].key \in Lists =>
            /\ IsList(where[i].of)
            /\ \A k \in DOMAIN where[i].of :
                 where[i].of[k] \in Arguments /\ Depth[where[i].of[k]] < Depth[where]
            /\ where[i].key = "tokens" => DOMAIN where[i].of = {1}
  /\ \A r \in Requests :
       /\ r.service \in DOMAIN Services
       /\ r.where \in Arguments
       /\ r.limit \in Nat \cup {Null}
       /\ IsList(r.order)
       /\ \A i \in DOMAIN r.order : r.order[i].column \in Columns
       /\ r.distinct \in Columns \cup {Null}
       /\ r.distinct # Null => Services[r.service].distinct
       /\ ~Services[r.service].paged => r.order = <<>> /\ r.limit = Null

VARIABLES
  table,
  request,  \* where, order_by, distinct_on, limit and the fields selected
  clash,    \* columns whose conditions have drawn one parameter name
  phase,    \* "idle", "page" and "count" while a query runs, "answered", "done", "error"
  offset, page, count,
  got,      \* keys the client has received
  steady,   \* keys of rows that have belonged to the list all the time
  left,     \* a row has left the list or changed its place
  moved,    \* the table was written between page and count
  failed,   \* a query has failed, or parameters have clashed
  writes

query == <<request, clash, offset>>
ghost == <<got, steady, left, failed>>
vars  == <<table, query, phase, page, count, ghost, moved, writes>>

Service == Services[request.service]

-----------------------------------------------------------------------------
(***************************************************************************)
(* The argument where is a sequence of entries, in the order of its keys.  *)
(* A condition has a column, an operator and a value; _and and _or have    *)
(* arguments of the same form, and so has the filter of collections by     *)
(* their tokens.                                                           *)
(***************************************************************************)
Test(v, op, value) ==
  CASE op = "_eq"      -> v # Null /\ v = value
    [] op = "_neq"     -> v # Null /\ v # value
    [] op = "_in"      -> v \in ToSet(value)
    [] op = "_is_null" -> (v = Null) = value

\* The conditions of an argument on a column.
On[where \in Arguments] ==
  [column \in Columns |->
    FlattenSeq([i \in DOMAIN where |->
      LET e == where[i] IN
      IF e.key \in Lists THEN FlattenSeq([k \in DOMAIN e.of |-> On[e.of[k]][column]])
      ELSE IF e.key = column THEN <<e>> ELSE <<>>])]

\* An empty list restricts nothing.
Idle(e) == e.op = "_in" /\ e.value = <<>>

HasParameters(where) == \E c \in Columns : \E e \in ToSet(On[where][c]) : ~Idle(e)

\* What the argument says of a row: every entry restricts the list.
Means[where \in Arguments] ==
  [row \in Line |-> \A i \in DOMAIN where :
    LET e == where[i] IN
    CASE e.key = "_and"   -> \A k \in DOMAIN e.of : Means[e.of[k]][row]
      [] e.key = "_or"    -> DOMAIN e.of = {} \/ \E k \in DOMAIN e.of : Means[e.of[k]][row]
      [] e.key = "tokens" -> ~HasParameters(e.of[1])
                             \/ \E v \in row.tokens : Means[e.of[1]][[row EXCEPT !.a = v]]
      [] OTHER            -> Idle(e) \/ Test(row[e.key], e.op, e.value)]

(***************************************************************************)
(* SQL: conditions in a row, at the places given, each but the first       *)
(* preceded by OR or AND, of which AND binds tighter; without conditions   *)
(* it is 1=1.                                                              *)
(***************************************************************************)
Sql(given, ors, true) ==
  \/ given = {}
  \/ \E i \in given :
       /\ i \in ors \/ \A j \in given : i <= j
       /\ \A j \in given : i <= j => j \in true \/ \E k \in ors : i < k /\ k <= j

\* The entries of an argument that become conditions, and those added with orWhere.
Given(where) ==
  {i \in DOMAIN where :
     /\ where[i].key = "tokens" => HasParameters(where[i].of[1])
     /\ where[i].key \notin Lists => ~Idle(where[i])}

Ors(where) == {i \in DOMAIN where : where[i].key = "_or"}

\* Variant: the members of every list are added with orWhere.
AlwaysOr(e) == "OR"

\* How the members of a list are joined.
Method(e) == IF e.key = "_or" THEN "OR" ELSE "AND"

\* The value bound to the parameter of a condition: conditions on one column
\* built in the same millisecond may draw the same name, and the last one binds it.
Bound(e) ==
  IF e.key \in clash /\ e.op # "_is_null" THEN Last(On[request.where][e.key]).value ELSE e.value

\* The conditions of an argument that hold of a row. The members of a list are in
\* brackets, and so is the list; the filter by tokens is a subquery.
Conditions[where \in Arguments] ==
  [row \in Line |->
    {i \in DOMAIN where :
      LET e == where[i]
          Member(k, r) == Sql(Given(e.of[k]), Ors(e.of[k]), Conditions[e.of[k]][r])
      IN  CASE e.key \in {"_and", "_or"} ->
                 Sql(DOMAIN e.of, {k \in DOMAIN e.of : Method(e) = "OR"},
                     {k \in DOMAIN e.of : Member(k, row)})
            [] e.key = "tokens" -> \E v \in row.tokens : Member(1, [row EXCEPT !.a = v])
            [] OTHER            -> Test(row[e.key], e.op, Bound(e))}]

\* The condition of the service stands before the argument's or behind them.
Where(row) ==
  LET where == request.where
      own   == IF Service.own = "before" THEN {0}
               ELSE IF Service.own = "after" THEN {Len(where) + 1} ELSE {}
  IN  Sql(own \cup Given(where), Ors(where), {i \in own : row.own} \cup Conditions[where][row])

-----------------------------------------------------------------------------
(***************************************************************************)
(* The query for a page.                                                   *)
(***************************************************************************)
\* order_by, which must begin with the column of distinct_on.
OrderBy ==
  LET o == request.order
      d == request.distinct
  IN  IF d # Null /\ o # <<>> /\ \A i \in DOMAIN o : o[i].column # d
      THEN <<[column |-> d, by |-> "desc"]>> \o o ELSE o

Asked == {o.column : o \in ToSet(request.order)} \cup {c \in Columns : On[request.where][c] # <<>>}

\* The relation is joined when one of its columns is a key of the arguments, or
\* is selected; the name in distinct_on is a value, and getByCollectionId hands no
\* arguments to applySelect.
Joined ==
  /\ Service.join # "none"
  /\ "rel" \in request.select \/ (Service.paged /\ "rel" \in Asked)

Kind(e) == IF e.op \in {"_eq", "_neq"} THEN "one" ELSE e.op

\* Postgres has the columns, DISTINCT ON agrees with ORDER BY, and a parameter has a
\* value of the kind its conditions need (the text of _is_null has none).
Accepted ==
  /\ \A c \in clash : \A e \in ToSet(On[request.where][c]) :
       Kind(e) \in {"_is_null", Kind(Last(On[request.where][c]))}
  /\ "rel" \in Asked \cup {request.distinct} => Joined
  /\ request.distinct # Null => \A i \in DOMAIN OrderBy : i = 1 => OrderBy[i].column = request.distinct

RowOf(i, v) == [id |-> i, a |-> table[i].a, own |-> table[i].own, rel |-> v,
               tokens |-> table[i].tokens]

Joins(i) ==
  IF ~Joined THEN {RowOf(i, Null)}
  ELSE IF table[i].rel = {} THEN (IF Service.join = "left" THEN {RowOf(i, Null)} ELSE {})
  ELSE {RowOf(i, v) : v \in table[i].rel}

Lines    == UNION {Joins(i) : i \in DOMAIN table}
Selected == {row \in Lines : Where(row)}

NullsFirst(by) == by \in {"desc", "asc_nulls_first", "desc_nulls_first"}
Descends(by)   == by \in {"desc", "desc_nulls_first", "desc_nulls_last"}

Precedes(v, w, by) ==
  IF v = Null \/ w = Null THEN v # w /\ ((v = Null) <=> NullsFirst(by))
  ELSE IF Descends(by) THEN v > w ELSE v < w

\* Row r must stand before row s.
Sorted(order, r, s) ==
  \E i \in DOMAIN order :
    LET c == order[i].column IN
    /\ Precedes(r[c], s[c], order[i].by)
    /\ \A j \in 1..(i - 1) : r[order[j].column] = s[order[j].column]

\* DISTINCT ON keeps one row of each group, before which no other of it must stand.
FirstOfGroups(column) ==
  {firsts \in SUBSET Selected :
     /\ {r[column] : r \in firsts} = {r[column] : r \in Selected}
     /\ \A r, s \in firsts : r # s => r[column] # s[column]
     /\ \A r \in firsts, s \in Selected : s[column] = r[column] => ~Sorted(OrderBy, s, r)}

\* Rows that compare equal come in any order.
InOrder(rows) ==
  {q \in SetToSeqs(rows) : \A i, j \in DOMAIN q : i < j => ~Sorted(OrderBy, q[j], q[i])}

\* The results without OFFSET and LIMIT.
Results ==
  IF request.distinct = Null THEN InOrder(Selected)
  ELSE UNION {InOrder(rows) : rows \in FirstOfGroups(request.distinct)}

Limit == IF ~Service.paged \/ request.limit = Null THEN Cardinality(Ids) * (Cardinality(Values) + 1)
         ELSE IF request.limit = 0 THEN DefaultPageSize
         ELSE request.limit

\* At most Limit results behind the first so many.
Slice(results, from) ==
  SubSeq(results, from + 1, IF from + Limit < Len(results) THEN from + Limit ELSE Len(results))

\* Variant: the offset counts from one.
PageOfFromOne(results) == IF offset < Len(results) THEN Slice(results, offset + 1) ELSE <<>>

PageOf(results) == IF offset < Len(results) THEN Slice(results, offset) ELSE <<>>

\* Variant: the limit is kept in the query for the count.
CountLimited ==
  LET n == Cardinality({row.id : row \in Selected}) IN IF n > Limit THEN Limit ELSE n

\* getCount: the different keys, or the different values of distinct_on, which are
\* not counted when they are NULL.
Count ==
  IF request.distinct = Null THEN Cardinality({row.id : row \in Selected})
  ELSE Cardinality({row[request.distinct] : row \in Selected} \ {Null})

-----------------------------------------------------------------------------
(***************************************************************************)
(* A client reads a list, page by page.                                    *)
(***************************************************************************)
\* The rows that belong to the list, by the arguments and the service.
Belongs == {row \in Lines : Means[request.where][row] /\ (Service.own # "none" => row.own)}

NoRequest == [service |-> "accounts", where |-> <<>>, order |-> <<>>, distinct |-> Null,
              limit |-> Null, select |-> {}]

Init ==
  /\ table \in Tables
  /\ request = NoRequest
  /\ clash = {}
  /\ phase = "idle"
  /\ offset = 0 /\ page = <<>> /\ count = 0
  /\ got = {} /\ steady = {} /\ left = FALSE /\ moved = FALSE /\ failed = FALSE
  /\ writes = 0

Repeated(where) == {c \in Columns : Len(On[where][c]) > 1}

\* The service is called and builds its query.
Ask ==
  /\ phase = "idle"
  /\ request' \in Requests
  /\ clash' \in SUBSET Repeated(request'.where)
  /\ phase' = "page"
  /\ offset' = 0 /\ page' = <<>> /\ count' = 0
  /\ got' = {}
  /\ left' = FALSE /\ moved' = FALSE /\ failed' = (clash' # {})
  /\ writes' = 0
  /\ UNCHANGED table
  /\ steady' = {row.id : row \in Belongs'}

\* An empty page is not counted, and neither is a list without pages.
ReadPage ==
  /\ phase = "page"
  /\ Accepted
  /\ \E results \in Results : page' = PageOf(results)
  /\ got' = got \cup {row.id : row \in ToSet(page')}
  /\ phase' = IF page' = <<>> \/ ~Service.paged THEN "answered" ELSE "count"
  /\ count' = 0
  /\ moved' = FALSE
  /\ UNCHANGED <<table, query, steady, left, failed, writes>>

ReadCount ==
  /\ phase = "count"
  /\ count' = Count
  /\ phase' = "answered"
  /\ UNCHANGED <<table, query, page, ghost, moved, writes>>

\* SentryWrapper turns an error into an empty list; without it the client sees the
\* error.
QueryFails ==
  /\ phase \in {"page", "count"}
  /\ MayFail \/ ~Accepted
  /\ phase' = IF Service.wrapped THEN "answered" ELSE "error"
  /\ page' = <<>>
  /\ count' = 0
  /\ failed' = TRUE
  /\ UNCHANGED <<table, query, got, steady, left, moved, writes>>

\* The client asks for the next page as long as pages are full.
NextPage ==
  /\ phase = "answered"
  /\ IF Service.paged /\ Len(page) = Limit
     THEN /\ offset' = offset + Limit
          /\ clash' \in SUBSET Repeated(request.where)
          /\ failed' = (failed \/ clash' # {})
          /\ phase' = "page"
     ELSE /\ phase' = "done"
          /\ UNCHANGED <<offset, clash, failed>>
  /\ UNCHANGED <<table, request, page, count, got, steady, left, moved, writes>>

\* The crawler inserts, changes or deletes a row.
Write ==
  /\ phase \in {"page", "count", "answered"}
  /\ writes < MaxWrites
  /\ writes' = writes + 1
  /\ \E i \in Ids :
       /\ \/ \E row \in Rows : table' = [k \in DOMAIN table \cup {i} |-> IF k = i THEN row ELSE table[k]]
          \/ table' = [k \in DOMAIN table \ {i} |-> table[k]]
       /\ table' # table
       /\ left' = (left \/ \E row \in Belongs : row.id = i)
  /\ moved' = (moved \/ phase # "page")
  /\ UNCHANGED <<query, phase, page, count, got, failed>>
  /\ steady' = steady \cap {row.id : row \in Belongs'}

Next == Ask \/ ReadPage \/ ReadCount \/ QueryFails \/ NextPage \/ Write

Spec == Init /\ [][Next]_vars

-----------------------------------------------------------------------------
\* An _or behind another key takes back what stands before it (base.service.ts
\* L323: the brackets are added with orWhere).
OrFirst[where \in Arguments] ==
  \A i \in DOMAIN where :
    /\ where[i].key = "_or" => i = 1
    /\ where[i].key \in Lists => \A k \in DOMAIN where[i].of : OrFirst[where[i].of[k]]

Unambiguous ==
  /\ OrFirst[request.where]
  /\ Service.own = "before" => \A i \in DOMAIN request.where : request.where[i].key # "_or"

\* A page has rows only that every entry of the argument and the condition of the
\* service let through, unless an _or stands behind something or parameters clash.
PageMeansWhere ==
  [][phase = "page" /\ phase' # "page" /\ Unambiguous /\ clash = {} => ToSet(page') \subseteq Belongs]_vars

\* Whoever reads page after page, ordered by the key, receives every row that was in
\* the list all the time, although rows are inserted meanwhile; a row that leaves the
\* list shifts the pages.
PagesComplete ==
  /\ phase = "done" /\ ~failed /\ ~left /\ Unambiguous
  /\ request.distinct = Null /\ \E o \in ToSet(request.order) : o.column = "id"
  => steady \subseteq got

\* When nothing was written between the two queries a page that is not full is the
\* last one by the count, and the count is no less than what was read so far, except
\* that keys are counted, not their joined rows, and that a group of NULL is not.
CountFits ==
  phase = "answered" /\ ~moved /\ page # <<>> /\ Service.paged =>
    LET read == offset + Len(page) IN
    /\ Len(page) < Limit => count <= read
    /\ \/ read <= count
       \/ request.distinct = Null /\ \E i \in DOMAIN table : Cardinality(Joins(i)) > 1
       \/ request.distinct # Null /\ read = count + 1 /\ \E row \in Selected : row[request.distinct] = Null
=============================================================================
