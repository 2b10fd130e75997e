---------------------------- MODULE WebListsProofs ----------------------------
(***************************************************************************)
(* Proofs about WebLists.  The arguments of a query are trees: what is     *)
(* defined along them is unfolded, and what holds of all of them is shown, *)
(* by induction on their depth.                                            *)
(***************************************************************************)
EXTENDS WebLists, FiniteSetTheorems, SequenceTheorems, WellFoundedInduction, TLAPS

\* Numbers have a least among them.
LEMMA Least ==
  ASSUME NEW T, T \subseteq Nat, T # {}
  PROVE  \E n \in T : \A m \in T : n <= m
<1> DEFINE R == OpToRel(<, Nat)
<1>1. IsWellFoundedOn(R, Nat)
  BY NatLessThanWellFounded
<1> HIDE DEF R
<1>2. PICK n \in T : \A m \in T : <<m, n>> \notin R
  BY <1>1, WFMin
<1>3. \A m, k \in Nat : m < k => <<m, k>> \in R
  BY DEF R, OpToRel
<1>4. \A m \in T : n \in Nat /\ m \in Nat /\ ~(m < n)
  BY <1>2, <1>3
<1>5. \A m \in T : n <= m
  BY <1>4
<1>6. QED
  BY <1>5

LEMMA ArgumentFacts ==
  /\ Depth \in [Arguments -> Nat]
  /\ <<>> \in Arguments
  /\ \A where \in Arguments :
       /\ Len(where) \in Nat /\ DOMAIN where = 1..Len(where)
       /\ \A i \in DOMAIN where : where[i].key \in Lists =>
            /\ DOMAIN where[i].of \subseteq Nat
            /\ \A k \in DOMAIN where[i].of :
                 where[i].of[k] \in Arguments /\ Depth[where[i].of[k]] < Depth[where]
            /\ where[i].key = "tokens" => DOMAIN where[i].of = {1}
BY WebAssumption DEF WebAssumption, IsList

\* What holds of an argument when it holds of all that lie deeper holds of all.
LEMMA DepthInduction ==
  ASSUME NEW S,
         \A w \in Arguments :
           (\A v \in Arguments : Depth[v] < Depth[w] => v \in S) => w \in S
  PROVE  Arguments \subseteq S
<1> DEFINE Bad == {Depth[w] : w \in Arguments \ S}
<1>1. SUFFICES ASSUME Arguments \ S # {} PROVE FALSE
  OBVIOUS
<1>2. Bad \subseteq Nat /\ Bad # {}
  BY <1>1, ArgumentFacts
<1>3. PICK n \in Bad : \A m \in Bad : n <= m
  BY <1>2, Least
<1>4. PICK w \in Arguments \ S : Depth[w] = n
  BY <1>3
<1>5. ASSUME NEW v \in Arguments, Depth[v] < Depth[w] PROVE v \in S
  <2>1. ASSUME v \notin S PROVE FALSE
    <3>1. Depth[v] \in Bad
      BY <2>1
    <3>2. n <= Depth[v] /\ Depth[v] \in Nat /\ n \in Nat
      BY <1>2, <1>3, <3>1
    <3>3. QED
      BY <1>4, <1>5, <3>2
  <2>2. QED
    BY <2>1
<1>6. QED
  BY <1>4, <1>5

\* g gives the value at an argument by those at deeper ones.
ByDeeper(V, g) ==
  /\ V # {}
  /\ g \in [Arguments -> [[Arguments -> V] -> V]]
  /\ \A w \in Arguments : \A f1, f2 \in [Arguments -> V] :
       (\A v \in Arguments : Depth[v] < Depth[w] => f1[v] = f2[v]) => g[w][f1] = g[w][f2]

Solves(f, V, g) == f \in [Arguments -> V] /\ f = [w \in Arguments |-> g[w][f]]

\* Such an equation has a solution.
LEMMA Recursion ==
  ASSUME NEW V, NEW g, ByDeeper(V, g)
  PROVE  \E f : Solves(f, V, g)
<1> USE DEF ByDeeper
<1> DEFINE Good(n, f) == \A w \in Arguments : Depth[w] < n => f[w] = g[w][f]
           Bad == {n \in Nat : ~ \E f \in [Arguments -> V] : Good(n, f)}
<1>1. \A n \in Nat : \E f \in [Arguments -> V] : Good(n, f)
  <2>1. SUFFICES ASSUME Bad # {} PROVE FALSE
    OBVIOUS
  <2>2. PICK n \in Bad : \A m \in Bad : n <= m
    BY <2>1, Least
  <2>3. n # 0
    <3>1. PICK v \in V : TRUE
      OBVIOUS
    <3>2. [w \in Arguments |-> v] \in [Arguments -> V]
      OBVIOUS
    <3>3. \A w \in Arguments : ~(Depth[w] < 0)
      BY ArgumentFacts
    <3>4. QED
      BY <2>2, <3>2, <3>3
  <2>4. n \in Nat /\ n - 1 \in Nat /\ ~(n <= n - 1)
    BY <2>2, <2>3
  <2>5. n - 1 \notin Bad
    BY <2>2, <2>4
  <2>6. PICK f \in [Arguments -> V] : Good(n - 1, f)
    BY <2>4, <2>5
  <2> DEFINE h == [w \in Arguments |-> g[w][f]]
  <2>7. h \in [Arguments -> V]
    OBVIOUS
  <2>8. ASSUME NEW w \in Arguments, Depth[w] < n PROVE h[w] = g[w][h]
    <3>1. ASSUME NEW v \in Arguments, Depth[v] < Depth[w] PROVE f[v] = h[v]
      <4>1. Depth[v] < n - 1
        BY <2>4, <2>8, <3>1, ArgumentFacts
      <4>2. QED
        BY <2>6, <4>1
    <3>2. g[w][f] = g[w][h]
      BY <2>7, <3>1
    <3>3. QED
      BY <3>2
  <2>9. Good(n, h)
    BY <2>8
  <2> HIDE DEF h, Good
  <2>10. QED
    BY <2>2, <2>7, <2>9
<1>2. ASSUME NEW n \in Nat, NEW f1 \in [Arguments -> V], NEW f2 \in [Arguments -> V],
             Good(n, f1), Good(n, f2)
      PROVE  \A w \in Arguments : Depth[w] < n => f1[w] = f2[w]
  <2> DEFINE S == {w \in Arguments : Depth[w] < n => f1[w] = f2[w]}
  <2>1. ASSUME NEW w \in Arguments, \A v \in Arguments : Depth[v] < Depth[w] => v \in S
        PROVE  w \in S
    <3>1. SUFFICES ASSUME Depth[w] < n PROVE f1[w] = f2[w]
      OBVIOUS
    <3>2. \A v \in Arguments : Depth[v] < Depth[w] => f1[v] = f2[v]
      BY <2>1, <3>1, ArgumentFacts
    <3>3. g[w][f1] = g[w][f2]
      BY <3>2
    <3>4. QED
      BY <1>2, <3>1, <3>3
  <2> HIDE DEF S
  <2>2. Arguments \subseteq S
    BY <2>1, DepthInduction
  <2>3. QED
    BY <2>2 DEF S
<1> DEFINE at(w) == CHOOSE f \in [Arguments -> V] : Good(Depth[w] + 1, f)
           F == [w \in Arguments |-> at(w)[w]]
<1>3. \A w \in Arguments : at(w) \in [Arguments -> V] /\ Good(Depth[w] + 1, at(w))
  <2>1. \A w \in Arguments : Depth[w] + 1 \in Nat
    BY ArgumentFacts
  <2> HIDE DEF Good
  <2>2. QED
    BY <1>1, <2>1
<1> HIDE DEF at
<1>4. F \in [Arguments -> V]
  BY <1>3
<1>5. ASSUME NEW w \in Arguments PROVE F[w] = g[w][F]
  <2>1. Depth[w] \in Nat /\ Depth[w] < Depth[w] + 1
    BY ArgumentFacts
  <2>2. F[w] = g[w][at(w)]
    BY <1>3, <2>1
  <2>3. ASSUME NEW v \in Arguments, Depth[v] < Depth[w] PROVE at(w)[v] = F[v]
    <3>1. Depth[v] \in Nat /\ Depth[v] < Depth[v] + 1 /\ Depth[v] + 1 \in Nat
          /\ \A u \in Arguments : Depth[u] < Depth[v] + 1 => Depth[u] < Depth[w] + 1
      BY <2>1, <2>3, ArgumentFacts
    <3>2. Good(Depth[v] + 1, at(w)) /\ Good(Depth[v] + 1, at(v))
      BY <1>3, <3>1
    <3>3. at(w)[v] = at(v)[v]
      BY <1>2, <1>3, <3>1, <3>2
    <3>4. QED
      BY <3>3
  <2>4. g[w][at(w)] = g[w][F]
    BY <1>3, <1>4, <2>3
  <2>5. QED
    BY <2>2, <2>4
<1>6. F = [w \in Arguments |-> g[w][F]]
  BY <1>5
<1> HIDE DEF F
<1>7. QED
  BY <1>4, <1>6 DEF Solves

-----------------------------------------------------------------------------
(***************************************************************************)
(* The definitions along an argument.                                      *)
(***************************************************************************)
\* What one entry says of a row, m being what its members say.
Says(e, row, m) ==
  CASE e.key = "_and"   -> \A k \in DOMAIN e.of : m[e.of[k]][row]
    [] e.key = "_or"    -> DOMAIN e.of = {} \/ \E k \in DOMAIN e.of : m[e.of[k]][row]
    [] e.key = "tokens" -> ~HasParameters(e.of[1])
                           \/ \E v \in row.tokens : m[e.of[1]][[row EXCEPT !.a = v]]
    [] OTHER            -> Idle(e) \/ Test(row[e.key], e.op, e.value)

LEMMA MeansUnfold ==
  Means = [where \in Arguments |-> [row \in Line |->
             \A i \in DOMAIN where : Says(where[i], row, Means)]]
<1> DEFINE V == [Line -> BOOLEAN]
           body(where, f) == [row \in Line |-> \A i \in DOMAIN where : Says(where[i], row, f)]
           g == [where \in Arguments |-> [f \in [Arguments -> V] |-> body(where, f)]]
<1>1. V # {}
  <2>1. [row \in Line |-> TRUE] \in V
    OBVIOUS
  <2>2. QED
    BY <2>1
<1>2. g \in [Arguments -> [[Arguments -> V] -> V]]
  OBVIOUS
<1>3. ASSUME NEW w \in Arguments, NEW f1 \in [Arguments -> V], NEW f2 \in [Arguments -> V],
             \A v \in Arguments : Depth[v] < Depth[w] => f1[v] = f2[v]
      PROVE  g[w][f1] = g[w][f2]
  <2>1. ASSUME NEW i \in DOMAIN w, NEW row \in Line
        PROVE  Says(w[i], row, f1) = Says(w[i], row, f2)
    <3>1. CASE w[i].key \in Lists
      <4>1. \A k \in DOMAIN w[i].of : f1[w[i].of[k]] = f2[w[i].of[k]]
        BY <1>3, <3>1, ArgumentFacts
      <4>2. w[i].key = "tokens" => f1[w[i].of[1]] = f2[w[i].of[1]]
        BY <4>1, <3>1, ArgumentFacts
      <4>3. QED
        BY <4>1, <4>2 DEF Says
    <3>2. CASE w[i].key \notin Lists
      BY <3>2 DEF Says, Lists
    <3>3. QED
      BY <3>1, <3>2
  <2>2. QED
    BY <2>1
<1>4. Means = CHOOSE f : f = [where \in Arguments |-> body(where, f)]
  BY DEF Means, Says
<1> HIDE DEF V, body, g
<1>5. PICK f : Solves(f, V, g)
  <2>1. ByDeeper(V, g)
    BY <1>1, <1>2, <1>3 DEF ByDeeper
  <2>2. QED
    BY <2>1, Recursion
<1>6. f = [where \in Arguments |-> body(where, f)]
  BY <1>5 DEF Solves, g
<1>7. Means = [where \in Arguments |-> body(where, Means)]
  BY <1>4, <1>6
<1>8. QED
  BY <1>7 DEF body

\* Whether the condition made of one entry holds of a row, m being the conditions of
\* its members that do.
Holds(e, row, m) ==
  LET Member(k, r) == Sql(Given(e.of[k]), Ors(e.of[k]), m[e.of[k]][r])
  IN  CASE e.key \in {"_and", "_or"} ->
             Sql(DOMAIN e.of, {k \in DOMAIN e.of : Method(e) = "OR"},
                 {k \in DOMAIN e.of : Member(k, row)})
        [] e.key = "tokens" -> \E v \in row.tokens : Member(1, [row EXCEPT !.a = v])
        [] OTHER            -> Test(row[e.key], e.op, Bound(e))

LEMMA ConditionsUnfold ==
  Conditions = [where \in Arguments |-> [row \in Line |->
                  {i \in DOMAIN where : Holds(where[i], row, Conditions)}]]
<1> DEFINE V == [Line -> SUBSET Nat]
           body(where, f) == [row \in Line |-> {i \in DOMAIN where : Holds(where[i], row, f)}]
           g == [where \in Arguments |-> [f \in [Arguments -> V] |-> body(where, f)]]
<1>1. V # {}
  <2>1. [row \in Line |-> {}] \in V
    OBVIOUS
  <2>2. QED
    BY <2>1
<1>2. g \in [Arguments -> [[Arguments -> V] -> V]]
  <2>1. \A where \in Arguments : DOMAIN where \subseteq Nat
    BY ArgumentFacts
  <2>2. \A where \in Arguments : \A f \in [Arguments -> V] : body(where, f) \in V
    BY <2>1
  <2> HIDE DEF V, body
  <2>3. QED
    BY <2>2
<1>3. ASSUME NEW w \in Arguments, NEW f1 \in [Arguments -> V], NEW f2 \in [Arguments -> V],
             \A v \in Arguments : Depth[v] < Depth[w] => f1[v] = f2[v]
      PROVE  g[w][f1] = g[w][f2]
  <2>1. ASSUME NEW i \in DOMAIN w, NEW row \in Line
        PROVE  Holds(w[i], row, f1) = Holds(w[i], row, f2)
    <3>1. CASE w[i].key \in Lists
      <4>1. \A k \in DOMAIN w[i].of : f1[w[i].of[k]] = f2[w[i].of[k]]
        BY <1>3, <3>1, ArgumentFacts
      <4>2. w[i].key = "tokens" => f1[w[i].of[1]] = f2[w[i].of[1]]
        BY <4>1, <3>1, ArgumentFacts
      <4>3. CASE w[i].key \in {"_and", "_or"}
        <5>1. {k \in DOMAIN w[i].of : Sql(Given(w[i].of[k]), Ors(w[i].of[k]), f1[w[i].of[k]][row])}
              = {k \in DOMAIN w[i].of : Sql(Given(w[i].of[k]), Ors(w[i].of[k]), f2[w[i].of[k]][row])}
          BY <4>1
        <5>2. QED
          BY <4>3, <5>1 DEF Holds
      <4>4. CASE w[i].key = "tokens"
        BY <4>2, <4>4 DEF Holds
      <4>5. QED
        BY <3>1, <4>3, <4>4 DEF Lists
    <3>2. CASE w[i].key \notin Lists
      BY <3>2 DEF Holds, Lists
    <3>3. QED
      BY <3>1, <3>2
  <2>2. body(w, f1) = body(w, f2)
    BY <2>1
  <2>3. QED
    BY <2>2
<1>4. Conditions = CHOOSE f : f = [where \in Arguments |-> body(where, f)]
  BY DEF Conditions, Holds
<1> HIDE DEF V, body, g
<1>5. PICK f : Solves(f, V, g)
  <2>1. ByDeeper(V, g)
    BY <1>1, <1>2, <1>3 DEF ByDeeper
  <2>2. QED
    BY <2>1, Recursion
<1>6. f = [where \in Arguments |-> body(where, f)]
  BY <1>5 DEF Solves, g
<1>7. Conditions = [where \in Arguments |-> body(where, Conditions)]
  BY <1>4, <1>6
<1>8. QED
  BY <1>7 DEF body

LEMMA OrFirstUnfold ==
  \A where \in Arguments :
    OrFirst[where] <=>
      \A i \in DOMAIN where :
        /\ where[i].key = "_or" => i = 1
        /\ where[i].key \in Lists => \A k \in DOMAIN where[i].of : OrFirst[where[i].of[k]]
<1> DEFINE body(where, f) ==
             \A i \in DOMAIN where :
               /\ where[i].key = "_or" => i = 1
               /\ where[i].key \in Lists => \A k \in DOMAIN where[i].of : f[where[i].of[k]]
           g == [where \in Arguments |-> [f \in [Arguments -> BOOLEAN] |-> body(where, f)]]
<1>1. g \in [Arguments -> [[Arguments -> BOOLEAN] -> BOOLEAN]]
  OBVIOUS
<1>2. ASSUME NEW w \in Arguments, NEW f1 \in [Arguments -> BOOLEAN], NEW f2 \in [Arguments -> BOOLEAN],
             \A v \in Arguments : Depth[v] < Depth[w] => f1[v] = f2[v]
      PROVE  g[w][f1] = g[w][f2]
  <2>1. \A i \in DOMAIN w : w[i].key \in Lists =>
          \A k \in DOMAIN w[i].of : f1[w[i].of[k]] = f2[w[i].of[k]]
    BY <1>2, ArgumentFacts
  <2>2. body(w, f1) <=> body(w, f2)
    BY <2>1
  <2>3. QED
    BY <2>2
<1>3. OrFirst = CHOOSE f : f = [where \in Arguments |-> body(where, f)]
  BY DEF OrFirst
<1> HIDE DEF body, g
<1>4. PICK f : Solves(f, BOOLEAN, g)
  <2>1. ByDeeper(BOOLEAN, g)
    BY <1>1, <1>2 DEF ByDeeper
  <2>2. QED
    BY <2>1, Recursion
<1>5. f = [where \in Arguments |-> body(where, f)]
  BY <1>4 DEF Solves, g
<1>6. OrFirst = [where \in Arguments |-> body(where, OrFirst)]
  BY <1>3, <1>5
<1>7. \A where \in Arguments : OrFirst[where] = body(where, OrFirst)
  BY <1>6
<1>8. QED
  BY <1>7 DEF body

-----------------------------------------------------------------------------
(***************************************************************************)
(* A query means what its argument says, unless an _or stands behind       *)
(* something.                                                              *)
(***************************************************************************)
LEMMA SqlPlain ==
  ASSUME NEW given, given \subseteq Nat, NEW ors, NEW true,
         \A k \in ors : k \in Nat /\ \A j \in given : k <= j
  PROVE  Sql(given, ors, true) <=> given \subseteq true
<1>1. ASSUME NEW i \in given, \A j \in given : i <= j,
             \A j \in given : i <= j => j \in true \/ \E k \in ors : i < k /\ k <= j
      PROVE  given \subseteq true
  <2>1. \A k \in ors : ~(i < k)
    <3>1. \A k \in ors : k <= i /\ k \in Nat /\ i \in Nat
      OBVIOUS
    <3>2. QED
      BY <3>1
  <2>2. QED
    BY <1>1, <2>1
<1>2. \A i \in given : (i \in ors \/ \A j \in given : i <= j) => \A j \in given : i <= j
  OBVIOUS
<1>3. given # {} => \E i \in given : \A j \in given : i <= j
  BY Least
<1>4. Sql(given, ors, true) => given \subseteq true
  BY <1>1, <1>2 DEF Sql
<1>5. given \subseteq true => Sql(given, ors, true)
  BY <1>3 DEF Sql
<1>6. QED
  BY <1>4, <1>5

LEMMA SqlOr ==
  ASSUME NEW given, given \subseteq Nat, NEW true
  PROVE  Sql(given, given, true) <=> given = {} \/ \E k \in given : k \in true
<1>1. \A i \in given : i <= i /\ ~ \E k \in given : i < k /\ k <= i
  OBVIOUS
<1>2. \A i, j \in given : i <= j => i = j \/ (i < j /\ j <= j)
  OBVIOUS
<1>3. Sql(given, given, true) => given = {} \/ \E k \in given : k \in true
  BY <1>1 DEF Sql
<1>4. ASSUME NEW i \in given, i \in true PROVE Sql(given, given, true)
  BY <1>2, <1>4 DEF Sql
<1>5. given = {} => Sql(given, given, true)
  BY DEF Sql
<1>6. QED
  BY <1>3, <1>4, <1>5

\* An entry that becomes a condition holds of a row when it says so, if its members do.
LEMMA EntryMeans ==
  ASSUME clash = {}, NEW where \in Arguments, NEW i \in DOMAIN where, NEW row \in Line,
         where[i].key \in Lists => \A k \in DOMAIN where[i].of : \A r \in Line :
           LET w == where[i].of[k]
           IN  Sql(Given(w), Ors(w), Conditions[w][r]) <=> Means[w][r]
  PROVE  (i \in Given(where) => Holds(where[i], row, Conditions)) <=> Says(where[i], row, Means)
<1> DEFINE e == where[i]
           T == {k \in DOMAIN e.of : Sql(Given(e.of[k]), Ors(e.of[k]), Conditions[e.of[k]][row])}
<1>1. ASSUME e.key \in {"_and", "_or"}
      PROVE  /\ i \in Given(where)
             /\ DOMAIN e.of \subseteq Nat
             /\ \A k \in DOMAIN e.of : k \in T <=> Means[e.of[k]][row]
  <2>1. e.key \in Lists /\ e.key # "tokens"
    BY <1>1 DEF Lists
  <2>2. QED
    BY <2>1, ArgumentFacts DEF Given
<1>2. CASE e.key = "_and"
  <2>1. e.key # "_or" /\ e.key \in {"_and", "_or"}
    BY <1>2
  <2>2. {k \in DOMAIN e.of : Method(e) = "OR"} = {}
    BY <2>1 DEF Method
  <2>3. Holds(e, row, Conditions) <=> Sql(DOMAIN e.of, {}, T)
    <3>1. Holds(e, row, Conditions) <=> Sql(DOMAIN e.of, {k \in DOMAIN e.of : Method(e) = "OR"}, T)
      BY <2>1 DEF Holds
    <3>2. QED
      BY <2>2, <3>1
  <2>4. Sql(DOMAIN e.of, {}, T) <=> DOMAIN e.of \subseteq T
    <3>1. DOMAIN e.of \subseteq Nat
      BY <1>1, <2>1
    <3>2. \A k \in {} : k \in Nat /\ \A j \in DOMAIN e.of : k <= j
      OBVIOUS
    <3> HIDE DEF T, e
    <3>3. QED
      BY <3>1, <3>2, SqlPlain
  <2>5. Says(e, row, Means) <=> \A k \in DOMAIN e.of : Means[e.of[k]][row]
    BY <1>2 DEF Says
  <2>6. QED
    BY <1>1, <2>1, <2>3, <2>4, <2>5
<1>3. CASE e.key = "_or"
  <2>1. e.key # "_and" /\ e.key \in {"_and", "_or"}
    BY <1>3
  <2>2. {k \in DOMAIN e.of : Method(e) = "OR"} = DOMAIN e.of
    BY <1>3 DEF Method
  <2>3. Holds(e, row, Conditions) <=> Sql(DOMAIN e.of, DOMAIN e.of, T)
    BY <2>1, <2>2 DEF Holds
  <2>4. Sql(DOMAIN e.of, DOMAIN e.of, T) <=> DOMAIN e.of = {} \/ \E k \in DOMAIN e.of : k \in T
    BY <1>1, <2>1, SqlOr
  <2>5. Says(e, row, Means) <=> DOMAIN e.of = {} \/ \E k \in DOMAIN e.of : Means[e.of[k]][row]
    BY <1>3, <2>1 DEF Says
  <2>6. QED
    BY <1>1, <2>1, <2>3, <2>4, <2>5
<1>4. CASE e.key = "tokens"
  <2>1. e.key \in Lists /\ e.key # "_and" /\ e.key # "_or" /\ 1 \in DOMAIN e.of
    <3>1. e.key \in Lists /\ e.key # "_and" /\ e.key # "_or"
      BY <1>4 DEF Lists
    <3>2. DOMAIN e.of = {1}
      BY <1>4, <3>1, ArgumentFacts
    <3>3. QED
      BY <3>1, <3>2
  <2> DEFINE w == e.of[1]
  <2>2. \A v \in row.tokens : [row EXCEPT !.a = v] \in Line
    BY DEF Line
  <2>3. \A v \in row.tokens : LET r == [row EXCEPT !.a = v]
                              IN  Sql(Given(w), Ors(w), Conditions[w][r]) <=> Means[w][r]
    BY <2>1, <2>2
  <2>4. Holds(e, row, Conditions) <=> \E v \in row.tokens :
          Sql(Given(w), Ors(w), Conditions[w][[row EXCEPT !.a = v]])
    BY <1>4, <2>1 DEF Holds
  <2>5. Says(e, row, Means) <=>
          ~HasParameters(w) \/ \E v \in row.tokens : Means[w][[row EXCEPT !.a = v]]
    BY <1>4, <2>1 DEF Says
  <2>6. i \in Given(where) <=> HasParameters(w)
    BY <1>4, <2>1 DEF Given
  <2>7. QED
    BY <2>3, <2>4, <2>5, <2>6
<1>5. CASE e.key \notin Lists
  <2>1. e.key # "tokens" /\ e.key # "_and" /\ e.key # "_or"
    BY <1>5 DEF Lists
  <2>2. Bound(e) = e.value
    BY DEF Bound
  <2>3. Holds(e, row, Conditions) <=> Test(row[e.key], e.op, e.value)
    BY <2>1, <2>2 DEF Holds
  <2>4. Says(e, row, Means) <=> Idle(e) \/ Test(row[e.key], e.op, e.value)
    BY <2>1 DEF Says
  <2>5. i \in Given(where) <=> ~Idle(e)
    BY <1>5, <2>1 DEF Given
  <2>6. QED
    BY <2>3, <2>4, <2>5
<1>6. QED
  BY <1>2, <1>3, <1>4, <1>5 DEF Lists

\* The conditions of an argument select what the argument means.
Agree(w) == \A r \in Line : Sql(Given(w), Ors(w), Conditions[w][r]) <=> Means[w][r]

LEMMA PlacesOfConditions ==
  ASSUME NEW w \in Arguments, NEW row \in Line
  PROVE  /\ Given(w) \subseteq DOMAIN w /\ DOMAIN w = 1..Len(w) /\ Len(w) \in Nat
         /\ Conditions[w][row] = {i \in DOMAIN w : Holds(w[i], row, Conditions)}
<1>1. Given(w) \subseteq DOMAIN w
  BY DEF Given
<1>2. DOMAIN w = 1..Len(w) /\ Len(w) \in Nat
  BY ArgumentFacts
<1> DEFINE body(v, r) == {i \in DOMAIN v : Holds(v[i], r, Conditions)}
<1>3. Conditions = [v \in Arguments |-> [r \in Line |-> body(v, r)]]
  BY ConditionsUnfold
<1> HIDE DEF body
<1>4. Conditions[w][row] = body(w, row)
  BY <1>3
<1>5. QED
  BY <1>1, <1>2, <1>4 DEF body

LEMMA GivenMeans ==
  ASSUME clash = {}, NEW w \in Arguments, NEW row \in Line,
         \A i \in DOMAIN w : w[i].key \in Lists => \A k \in DOMAIN w[i].of : Agree(w[i].of[k])
  PROVE  Given(w) \subseteq Conditions[w][row] <=> Means[w][row]
<1>1. \A i \in DOMAIN w :
        (i \in Given(w) => Holds(w[i], row, Conditions)) <=> Says(w[i], row, Means)
  <2>1. SUFFICES ASSUME NEW i \in DOMAIN w
                 PROVE  (i \in Given(w) => Holds(w[i], row, Conditions)) <=> Says(w[i], row, Means)
    OBVIOUS
  <2>2. w[i].key \in Lists => \A k \in DOMAIN w[i].of : \A r \in Line :
          LET v == w[i].of[k] IN Sql(Given(v), Ors(v), Conditions[v][r]) <=> Means[v][r]
    BY DEF Agree
  <2>3. QED
    BY <2>2, EntryMeans
<1>2. Means[w][row] <=> \A i \in DOMAIN w : Says(w[i], row, Means)
  <2> DEFINE body(v, r) == \A i \in DOMAIN v : Says(v[i], r, Means)
  <2>1. Means = [v \in Arguments |-> [r \in Line |-> body(v, r)]]
    BY MeansUnfold
  <2> HIDE DEF body
  <2>2. Means[w][row] = body(w, row)
    BY <2>1
  <2>3. QED
    BY <2>2 DEF body
<1>3. Given(w) \subseteq Conditions[w][row] <=>
        \A i \in DOMAIN w : i \in Given(w) => Holds(w[i], row, Conditions)
  BY PlacesOfConditions
<1>4. QED
  BY <1>1, <1>2, <1>3

\* An _or stands before all else, so that it takes back nothing.
LEMMA OrsFirst ==
  ASSUME NEW w \in Arguments, OrFirst[w]
  PROVE  \A k \in Ors(w) : k = 1
BY OrFirstUnfold DEF Ors

LEMMA AllAgree ==
  ASSUME clash = {}
  PROVE  \A w \in Arguments : OrFirst[w] => Agree(w)
<1> DEFINE S == {w \in Arguments : OrFirst[w] => Agree(w)}
<1>1. ASSUME NEW w \in Arguments, \A v \in Arguments : Depth[v] < Depth[w] => v \in S
      PROVE  w \in S
  <2>1. SUFFICES ASSUME OrFirst[w], NEW row \in Line
                 PROVE  Sql(Given(w), Ors(w), Conditions[w][row]) <=> Means[w][row]
    BY DEF Agree
  <2>2. \A i \in DOMAIN w : w[i].key \in Lists => \A k \in DOMAIN w[i].of : Agree(w[i].of[k])
    <3>1. \A i \in DOMAIN w : w[i].key \in Lists => \A k \in DOMAIN w[i].of :
            OrFirst[w[i].of[k]] /\ w[i].of[k] \in S
      BY <1>1, <2>1, OrFirstUnfold, ArgumentFacts
    <3>2. QED
      BY <3>1
  <2>3. Given(w) \subseteq Nat /\ \A k \in Ors(w) : k \in Nat /\ \A j \in Given(w) : k <= j
    BY <2>1, OrsFirst, PlacesOfConditions
  <2>4. Sql(Given(w), Ors(w), Conditions[w][row]) <=> Given(w) \subseteq Conditions[w][row]
    BY <2>3, SqlPlain
  <2>5. QED
    BY <2>2, <2>4, GivenMeans
<1> HIDE DEF S
<1>2. Arguments \subseteq S
  BY <1>1, DepthInduction
<1>3. QED
  BY <1>2 DEF S

Building == [own : {"none", "before", "after"}, join : {"none", "inner", "left"},
             distinct : BOOLEAN, paged : BOOLEAN, wrapped : BOOLEAN]

LEMMA ServiceFacts == \A s \in DOMAIN Services : Services[s] \in Building
<1>1. Plain \in Building
  BY DEF Plain, Building
<1>2. Transfers \in Building /\ TokenOwners \in Building /\ EvmTransactions \in Building
  BY <1>1 DEF Transfers, TokenOwners, EvmTransactions, Building
<1>3. Attributes \in Building /\ Events \in Building
  BY <1>1 DEF Attributes, Events, Building
<1>4. TokensFind \in Building /\ TokensOf \in Building /\ CollectionsFind \in Building
  BY <1>1 DEF TokensFind, TokensOf, CollectionsFind, Building
<1>5. Bundles \in Building
  BY <1>4 DEF Bundles, Building
<1>6. Transactions \in Building /\ TokenEvents \in Building /\ CollectionEvents \in Building
  BY <1>1 DEF Transactions, TokenEvents, CollectionEvents, Building
<1>7. QED
  BY <1>1, <1>2, <1>3, <1>4, <1>5, <1>6 DEF Services, Accounts, Blocks, Extrinsics

\* The whole condition of a query.
LEMMA WhereMeans ==
  ASSUME clash = {}, Unambiguous, request.where \in Arguments, request.service \in DOMAIN Services,
         NEW row \in Line
  PROVE  Where(row) <=> Means[request.where][row] /\ (Service.own # "none" => row.own)
<1> DEFINE w == request.where
           C == Conditions[w][row]
           own == IF Service.own = "before" THEN {0}
                  ELSE IF Service.own = "after" THEN {Len(w) + 1} ELSE {}
           true == {i \in own : row.own} \cup C
<1>1. w \in Arguments /\ OrFirst[w]
  BY DEF Unambiguous
<1>2. Given(w) \subseteq 1..Len(w) /\ Len(w) \in Nat /\ C \subseteq 1..Len(w)
  BY <1>1, PlacesOfConditions
<1>3. Given(w) \subseteq C <=> Means[w][row]
  <2>1. \A i \in DOMAIN w : w[i].key \in Lists => \A k \in DOMAIN w[i].of : Agree(w[i].of[k])
    BY <1>1, AllAgree, OrFirstUnfold, ArgumentFacts
  <2>2. QED
    BY <1>1, <2>1, GivenMeans
<1>4. Where(row) <=> Sql(own \cup Given(w), Ors(w), true)
  BY DEF Where
<1>5. /\ own \cup Given(w) \subseteq Nat
      /\ \A k \in Ors(w) : k \in Nat /\ \A j \in own \cup Given(w) : k <= j
  <2>1. \A k \in Ors(w) : k = 1
    BY <1>1, OrsFirst
  <2>2. Service.own = "before" => Ors(w) = {}
    BY DEF Unambiguous, Ors
  <2>3. Service.own = "before" => Service.own # "after"
    OBVIOUS
  <2>4. QED
    BY <1>2, <2>1, <2>2, <2>3
<1>6. own \cap (1..Len(w)) = {}
  BY <1>2
<1> HIDE DEF true, w, C
<1>7. Where(row) <=> own \cup Given(w) \subseteq true
  <2> HIDE DEF own
  <2>1. QED
    BY <1>4, <1>5, SqlPlain
<1>8. own \cup Given(w) \subseteq true <=> Given(w) \subseteq C /\ (own # {} => row.own)
  <2> HIDE DEF own
  <2>1. QED
    BY <1>2, <1>6 DEF true
<1>9. own # {} <=> Service.own # "none"
  <2>1. Service.own \in {"none", "before", "after"}
    BY ServiceFacts DEF Service, Building
  <2>2. QED
    BY <2>1
<1>10. QED
  BY <1>3, <1>7, <1>8, <1>9 DEF w

-----------------------------------------------------------------------------
(***************************************************************************)
(* Types, and what queries give.                                           *)
(***************************************************************************)
QueryOK ==
  /\ table \in [DOMAIN table -> Row] /\ DOMAIN table \subseteq Ids
  /\ request \in Requests \cup {NoRequest}

TypeOK ==
  /\ QueryOK
  /\ clash \subseteq Columns
  /\ phase \in {"idle", "page", "count", "answered", "done", "error"}
  /\ offset \in Nat /\ count \in Nat
  /\ page \in Seq(Line)
  /\ got \subseteq Ids /\ steady \subseteq Ids
  /\ left \in BOOLEAN /\ moved \in BOOLEAN /\ failed \in BOOLEAN
  /\ writes \in 0..MaxWrites

LEMMA RequestFacts ==
  ASSUME NEW r \in Requests \cup {NoRequest}
  PROVE  /\ r.service \in DOMAIN Services /\ Services[r.service] \in Building
         /\ r.where \in Arguments
         /\ r.limit \in Nat \cup {Null}
         /\ IsList(r.order) /\ \A i \in DOMAIN r.order : r.order[i].column \in Columns
         /\ r.distinct \in Columns \cup {Null}
         /\ ~Services[r.service].paged => r.order = <<>>
<1>1. CASE r \in Requests
  BY <1>1, WebAssumption, ServiceFacts DEF WebAssumption
<1>2. CASE r = NoRequest
  <2>1. r.service = "accounts" /\ r.where = <<>> /\ r.limit = Null /\ r.order = <<>> /\ r.distinct = Null
    BY <1>2 DEF NoRequest
  <2>2. "accounts" \in DOMAIN Services
    BY DEF Services
  <2>3. IsList(<<>>) /\ DOMAIN <<>> = {}
    BY DEF IsList
  <2>4. QED
    BY <2>1, <2>2, <2>3, ArgumentFacts, ServiceFacts
<1>3. QED
  BY <1>1, <1>2

LEMMA LimitType ==
  ASSUME QueryOK
  PROVE  Limit \in Nat
<1>1. Cardinality(Ids) \in Nat /\ Cardinality(Values) \in Nat
  BY WebAssumption, FS_CardinalityType DEF WebAssumption
<1>2. Cardinality(Ids) * (Cardinality(Values) + 1) \in Nat
  BY <1>1
<1>3. request.limit \in Nat \cup {Null}
  BY RequestFacts DEF QueryOK
<1>4. DefaultPageSize \in Nat
  BY WebAssumption DEF WebAssumption
<1>5. QED
  BY <1>2, <1>3, <1>4 DEF Limit

\* Joined rows are rows, and finitely many.
LEMMA LinesFacts ==
  ASSUME QueryOK
  PROVE  Lines \subseteq Line /\ IsFiniteSet(Lines)
         /\ \A i \in DOMAIN table : \A row \in Joins(i) : row.id = i
<1>1. ASSUME NEW i \in DOMAIN table
      PROVE  Joins(i) \subseteq {RowOf(i, v) : v \in Values \cup {Null}}
  <2>1. table[i].rel \subseteq Values
    BY <1>1 DEF QueryOK, Row
  <2>2. QED
    BY <2>1 DEF Joins
<1>2. ASSUME NEW i \in DOMAIN table, NEW v \in Values \cup {Null}
      PROVE  RowOf(i, v) \in Line /\ RowOf(i, v).id = i
  <2>1. table[i] \in Row /\ i \in Ids
    BY DEF QueryOK
  <2>2. QED
    BY <2>1 DEF RowOf, Line, Row
<1>3. Lines \subseteq Line
  BY <1>1, <1>2 DEF Lines
<1>4. IsFiniteSet(DOMAIN table) /\ IsFiniteSet(Values \cup {Null})
  BY WebAssumption, FS_Subset, FS_AddElement DEF QueryOK, WebAssumption
<1>5. ASSUME NEW i \in DOMAIN table PROVE IsFiniteSet(Joins(i))
  <2> DEFINE V == Values \cup {Null}
             f == [v \in V |-> RowOf(i, v)]
             T == {RowOf(i, v) : v \in V}
  <2>1. f \in Surjection(V, T)
    BY DEF Surjection
  <2> HIDE DEF f
  <2>2. IsFiniteSet(T)
    BY <1>4, <2>1, FS_Surjection
  <2>3. QED
    BY <1>1, <2>2, FS_Subset
<1>6. IsFiniteSet(Lines)
  <2> DEFINE f == [i \in DOMAIN table |-> Joins(i)]
             T == {Joins(i) : i \in DOMAIN table}
  <2>1. f \in Surjection(DOMAIN table, T)
    BY DEF Surjection
  <2> HIDE DEF f
  <2>2. IsFiniteSet(T)
    BY <1>4, <2>1, FS_Surjection
  <2>3. IsFiniteSet(UNION T)
    BY <1>5, <2>2, FS_UNION
  <2>4. QED
    BY <2>3 DEF Lines
<1>7. QED
  BY <1>1, <1>2, <1>3, <1>6

LEMMA ListedFacts ==
  ASSUME QueryOK
  PROVE  /\ Selected \subseteq Line /\ IsFiniteSet(Selected)
         /\ Belongs \subseteq Line /\ IsFiniteSet(Belongs)
<1>1. Lines \subseteq Line /\ IsFiniteSet(Lines)
  BY LinesFacts
<1>2. Selected \subseteq Lines /\ Belongs \subseteq Lines
  BY DEF Selected, Belongs
<1>3. QED
  BY <1>1, <1>2, FS_Subset

\* Rows in order: each of them once.
LEMMA InOrderFacts ==
  ASSUME NEW rows, rows \subseteq Line, IsFiniteSet(rows), NEW q \in InOrder(rows)
  PROVE  /\ q \in Seq(Line) /\ Len(q) = Cardinality(rows) /\ DOMAIN q = 1..Len(q)
         /\ Len(q) \in Nat
         /\ \A i, j \in 1..Len(q) : i # j => q[i] # q[j]
         /\ {q[i] : i \in 1..Len(q)} = rows
         /\ \A i, j \in 1..Len(q) : i < j => ~Sorted(OrderBy, q[j], q[i])
<1> DEFINE n == Cardinality(rows)
<1>1. n \in Nat
  BY FS_CardinalityType
<1>2. q \in [1..n -> rows] /\ \A i, j \in 1..n : i # j => q[i] # q[j]
  BY DEF InOrder, SetToSeqs
<1>3. q \in Seq(Line) /\ Len(q) = n /\ DOMAIN q = 1..n
  <2> HIDE DEF n
  <2>1. q \in [1..n -> Line]
    BY <1>2
  <2>2. QED
    BY <1>1, <1>2, <2>1
<1>4. q \in Surjection(1..n, rows)
  <2>1. q \in Injection(1..n, rows)
    BY <1>2 DEF Injection, IsInjective
  <2>2. Cardinality(1..n) = n
    BY <1>1, FS_Interval
  <2>3. QED
    BY <2>1, <2>2, FS_Injection
<1>5. {q[i] : i \in 1..n} = rows
  BY <1>2, <1>4 DEF Surjection
<1>6. \A i, j \in DOMAIN q : i < j => ~Sorted(OrderBy, q[j], q[i])
  BY DEF InOrder
<1>7. QED
  BY <1>1, <1>2, <1>3, <1>5, <1>6

\* What the results are made of.
LEMMA ResultFacts ==
  ASSUME QueryOK, NEW q \in Results
  PROVE  \E rows : /\ rows \subseteq Selected /\ IsFiniteSet(rows) /\ q \in InOrder(rows)
                   /\ request.distinct = Null => rows = Selected
                   /\ request.distinct # Null => rows \in FirstOfGroups(request.distinct)
<1>1. CASE request.distinct = Null
  BY <1>1, ListedFacts DEF Results
<1>2. CASE request.distinct # Null
  <2>1. PICK rows \in FirstOfGroups(request.distinct) : q \in InOrder(rows)
    BY <1>2 DEF Results
  <2>2. rows \subseteq Selected
    BY DEF FirstOfGroups
  <2>3. QED
    BY <1>2, <2>1, <2>2, ListedFacts, FS_Subset
<1>3. QED
  BY <1>1, <1>2

LEMMA PageFacts ==
  ASSUME TypeOK, NEW q \in Seq(Line)
  PROVE  /\ PageOf(q) \in Seq(Line)
         /\ Len(PageOf(q)) = IF offset < Len(q)
                             THEN IF offset + Limit < Len(q) THEN Limit ELSE Len(q) - offset
                             ELSE 0
         /\ \A i \in 1..Len(PageOf(q)) : offset + i \in 1..Len(q) /\ PageOf(q)[i] = q[offset + i]
<1>1. offset \in Nat /\ Limit \in Nat /\ Len(q) \in Nat
  BY LimitType DEF TypeOK, QueryOK
<1> DEFINE last == IF offset + Limit < Len(q) THEN offset + Limit ELSE Len(q)
<1>2. CASE offset < Len(q)
  <2>1. /\ offset + 1 \in Int /\ last \in Int /\ last <= Len(q) /\ offset <= last
        /\ last - offset = IF offset + Limit < Len(q) THEN Limit ELSE Len(q) - offset
    BY <1>1, <1>2
  <2>2. PageOf(q) = SubSeq(q, offset + 1, last)
    BY <1>2 DEF PageOf, Slice
  <2> HIDE DEF last
  <2>3. \A i \in (offset + 1)..last : i \in 1..Len(q) /\ q[i] \in Line
    BY <1>1, <2>1
  <2>4. /\ PageOf(q) \in Seq(Line)
        /\ Len(PageOf(q)) = IF offset + 1 <= last THEN last - (offset + 1) + 1 ELSE 0
        /\ \A i \in 1..(last - (offset + 1) + 1) : PageOf(q)[i] = q[offset + 1 + i - 1]
    BY <2>1, <2>2, <2>3, SubSeqProperties
  <2>5. Len(PageOf(q)) = last - offset
    BY <1>1, <2>1, <2>4
  <2>6. \A i \in 1..(last - offset) :
          /\ offset + i \in 1..Len(q) /\ offset + 1 + i - 1 = offset + i
          /\ i \in 1..(last - (offset + 1) + 1)
    BY <1>1, <2>1
  <2>7. \A i \in 1..(last - offset) : PageOf(q)[i] = q[offset + i]
    BY <2>4, <2>6
  <2>8. QED
    BY <1>2, <2>1, <2>4, <2>5, <2>6, <2>7
<1>3. CASE ~(offset < Len(q))
  BY <1>3 DEF PageOf
<1>4. QED
  BY <1>2, <1>3

\* The keys of some rows, or their values in a column, are finitely many.
LEMMA ColumnFacts ==
  ASSUME NEW rows, IsFiniteSet(rows), NEW c
  PROVE  /\ IsFiniteSet({row[c] : row \in rows})
         /\ Cardinality({row[c] : row \in rows}) \in Nat
         /\ Cardinality({row[c] : row \in rows}) <= Cardinality(rows)
         /\ (\A r, s \in rows : r # s => r[c] # s[c])
              => Cardinality({row[c] : row \in rows}) = Cardinality(rows)
<1> DEFINE f == [row \in rows |-> row[c]]
           T == {row[c] : row \in rows}
<1>1. f \in Surjection(rows, T)
  BY DEF Surjection
<1>2. (\A r, s \in rows : r # s => r[c] # s[c]) => f \in Injection(rows, T)
  BY DEF Injection, IsInjective
<1> HIDE DEF f
<1>3. /\ IsFiniteSet(T) /\ Cardinality(T) <= Cardinality(rows)
      /\ Cardinality(T) = Cardinality(rows) <=> f \in Injection(rows, T)
  BY <1>1, FS_Surjection
<1>4. Cardinality(T) \in Nat
  BY <1>3, FS_CardinalityType
<1>5. QED
  BY <1>2, <1>3, <1>4

LEMMA CountType ==
  ASSUME QueryOK
  PROVE  Count \in Nat
<1>1. IsFiniteSet(Selected)
  BY ListedFacts
<1>2. Cardinality({row.id : row \in Selected}) \in Nat
  BY <1>1, ColumnFacts
<1>3. Cardinality({row[request.distinct] : row \in Selected} \ {Null}) \in Nat
  <2> DEFINE T == {row[request.distinct] : row \in Selected}
  <2>1. IsFiniteSet(T)
    BY <1>1, ColumnFacts
  <2> HIDE DEF T
  <2>2. IsFiniteSet(T \ {Null})
    BY <2>1, FS_RemoveElement
  <2>3. Cardinality(T \ {Null}) \in Nat
    BY <2>2, FS_CardinalityType
  <2>4. QED
    BY <2>3 DEF T
<1>4. QED
  BY <1>2, <1>3 DEF Count

\* The same query on the same table.
LEMMA SameQuery ==
  ASSUME UNCHANGED <<table, request>>
  PROVE  /\ Belongs' = Belongs /\ OrderBy' = OrderBy /\ Limit' = Limit /\ Service' = Service
         /\ Unambiguous' = Unambiguous
         /\ UNCHANGED clash =>
              Selected' = Selected /\ Results' = Results /\ Count' = Count
<1>1. request' = request /\ table' = table
  OBVIOUS
<1>2. Lines' = Lines
  BY <1>1 DEF Lines, Joins, Joined, Asked, RowOf, Service
<1>3. Service' = Service /\ Belongs' = Belongs
  BY <1>1, <1>2 DEF Belongs, Service
<1>4. OrderBy' = OrderBy
  BY <1>1 DEF OrderBy
<1>5. Limit' = Limit
  BY <1>1, <1>3 DEF Limit
<1>6. Unambiguous' = Unambiguous
  BY <1>1, <1>3 DEF Unambiguous
<1>7. ASSUME clash' = clash
      PROVE  Selected' = Selected /\ Results' = Results /\ Count' = Count
  <2>1. Conditions' = Conditions
    BY <1>1, <1>7 DEF Conditions, Bound
  <2>2. Selected' = Selected
    BY <1>1, <1>2, <1>3, <2>1 DEF Selected, Where
  <2>3. Results' = Results
    BY <1>1, <1>4, <2>2 DEF Results, FirstOfGroups, InOrder
  <2>4. Count' = Count
    BY <1>1, <2>2 DEF Count
  <2>5. QED
    BY <2>2, <2>3, <2>4
<1>8. QED
  BY <1>3, <1>4, <1>5, <1>6, <1>7

LEMMA SamePages ==
  ASSUME UNCHANGED <<request, offset>>
  PROVE  \A q : PageOf(q)' = PageOf(q)
BY DEF PageOf, Slice, Limit, Service

LEMMA ListedNext ==
  QueryOK' => /\ Selected' \subseteq Line /\ IsFiniteSet(Selected')
              /\ Belongs' \subseteq Line /\ IsFiniteSet(Belongs')
<1> DEFINE Listed == /\ Selected \subseteq Line /\ IsFiniteSet(Selected)
                     /\ Belongs \subseteq Line /\ IsFiniteSet(Belongs)
<1>1. QueryOK => Listed
  BY ListedFacts
<1>2. QueryOK' => Listed'
  <2> HIDE DEF Listed
  <2>1. QED
    BY <1>1, PTL
<1>3. QED
  BY <1>2

LEMMA TypeStep ==
  ASSUME TypeOK, [Next]_vars
  PROVE  TypeOK'
<1> USE DEF TypeOK
<1>1. ASSUME QueryOK', clash' \subseteq Columns,
             phase' \in {"idle", "page", "count", "answered", "done", "error"},
             offset' \in Nat, count' \in Nat, page' \in Seq(Line), got' \subseteq Ids,
             steady' \subseteq Ids, left' \in BOOLEAN, moved' \in BOOLEAN, failed' \in BOOLEAN,
             writes' \in 0..MaxWrites
      PROVE  TypeOK'
  BY <1>1
<1>2. MaxWrites \in Nat
  BY WebAssumption DEF WebAssumption
<1>3. QueryOK' => {row.id : row \in Belongs}' \subseteq Ids
  <2>1. QueryOK' => Belongs' \subseteq Line
    BY ListedNext
  <2>2. QED
    BY <2>1 DEF Line
<1>4. CASE Ask
  <2>1. QueryOK'
    BY <1>4 DEF Ask, QueryOK
  <2>2. clash' \subseteq Columns
    BY <1>4 DEF Ask, Repeated
  <2>3. steady' \subseteq Ids
    BY <1>3, <1>4, <2>1 DEF Ask
  <2>4. page' \in Seq(Line)
    BY <1>4 DEF Ask
  <2>5. /\ phase' = "page" /\ offset' = 0 /\ count' = 0 /\ got' = {} /\ writes' = 0
        /\ left' = FALSE /\ moved' = FALSE
    BY <1>4 DEF Ask
  <2>6. failed' \in BOOLEAN
    BY <1>4 DEF Ask
  <2>7. 0 \in 0..MaxWrites
    BY <1>2
  <2>8. QED
    BY <1>1, <2>1, <2>2, <2>3, <2>4, <2>5, <2>6, <2>7
<1>5. CASE ReadPage
  <2>1. PICK q \in Results : page' = PageOf(q)
    BY <1>5 DEF ReadPage
  <2>2. q \in Seq(Line)
    BY <2>1, ResultFacts, InOrderFacts, ListedFacts
  <2>3. page' \in Seq(Line)
    BY <2>1, <2>2, PageFacts
  <2>4. got' \subseteq Ids
    <3>1. \A row \in ToSet(page') : row \in Line
      BY <2>3 DEF ToSet
    <3>2. got' = got \cup {row.id : row \in ToSet(page')}
      BY <1>5 DEF ReadPage
    <3>3. QED
      BY <3>1, <3>2 DEF Line
  <2>5. QueryOK'
    BY <1>5 DEF ReadPage, QueryOK, query
  <2>6. QED
    BY <1>1, <1>5, <2>3, <2>4, <2>5 DEF ReadPage, query
<1>6. CASE ReadCount
  BY <1>1, <1>6, CountType DEF ReadCount, QueryOK, query, ghost
<1>7. CASE QueryFails
  BY <1>1, <1>7 DEF QueryFails, QueryOK, query
<1>8. CASE NextPage
  <2>1. clash' \subseteq Columns
    BY <1>8 DEF NextPage, Repeated
  <2>2. offset' \in Nat
    BY <1>8, LimitType DEF NextPage
  <2>3. QED
    BY <1>1, <1>8, <2>1, <2>2 DEF NextPage, QueryOK
<1>9. CASE Write
  <2>1. QueryOK'
    <3>1. Rows \subseteq Row
      BY WebAssumption DEF WebAssumption
    <3>2. QED
      BY <1>9, <3>1 DEF Write, QueryOK, query
  <2>2. writes' \in 0..MaxWrites
    BY <1>2, <1>9 DEF Write
  <2>3. left' \in BOOLEAN /\ moved' \in BOOLEAN
    BY <1>9 DEF Write
  <2>4. QED
    BY <1>1, <1>9, <2>1, <2>2, <2>3 DEF Write, query
<1>10. CASE UNCHANGED vars
  BY <1>1, <1>10 DEF vars, query, ghost, QueryOK
<1>11. QED
  BY <1>4, <1>5, <1>6, <1>7, <1>8, <1>9, <1>10 DEF Next

LEMMA InitTyped == Init => TypeOK
<1>1. SUFFICES ASSUME Init PROVE TypeOK
  OBVIOUS
<1>2. QueryOK
  <2>1. \A t \in Tables : t \in [DOMAIN t -> Row] /\ DOMAIN t \subseteq Ids
    BY WebAssumption DEF WebAssumption
  <2>2. table \in Tables /\ request = NoRequest
    BY <1>1 DEF Init
  <2>3. QED
    BY <2>1, <2>2 DEF QueryOK
<1>3. 0 \in 0..MaxWrites
  BY WebAssumption DEF WebAssumption
<1>4. /\ clash = {} /\ phase = "idle" /\ offset = 0 /\ page = <<>> /\ count = 0
      /\ got = {} /\ steady = {} /\ left = FALSE /\ moved = FALSE /\ failed = FALSE /\ writes = 0
  BY <1>1 DEF Init
<1>5. page \in Seq(Line)
  BY <1>4
<1>6. QED
  BY <1>2, <1>3, <1>4, <1>5 DEF TypeOK

(* Every variable has its type: the rows that queries join are rows, and a *)
(* page is cut from them.                                                  *)
THEOREM TypeCorrect == Spec => []TypeOK
<1>1. Init => TypeOK
  BY InitTyped
<1>2. TypeOK /\ [Next]_vars => TypeOK'
  BY TypeStep
<1>3. QED
  BY <1>1, <1>2, PTL DEF Spec

-----------------------------------------------------------------------------
(***************************************************************************)
(* What a client has read, and what is to come.                            *)
(***************************************************************************)
\* An answer is a page of the list as it is, with its count.
AnswerCurrent ==
  ~moved /\ page # <<>> =>
    /\ phase \in {"count", "answered"} => \E results \in Results : page = PageOf(results)
    /\ phase = "answered" /\ Service.paged => count = Count

\* The list has an order in which no two keys are equal.
Keyed ==
  /\ Unambiguous /\ request.distinct = Null
  /\ \E o \in ToSet(request.order) : o.column = "id"

Before(row) == {s \in Belongs : Sorted(OrderBy, s, row)}

\* So many rows the client has asked for.
Passed == IF phase = "page" THEN offset ELSE offset + Limit

\* A row that was always in the list and is not yet received has so many before it.
ToCome ==
  \A row \in Belongs : row.id \in steady \ got =>
    /\ phase # "done"
    /\ phase # "page" => Len(page) = Limit
    /\ Passed <= Cardinality(Before(row))

\* Nothing has gone wrong so far.
Watched == phase \in {"page", "count", "answered", "done"} /\ ~failed /\ ~left /\ Keyed

Kept == clash = {} /\ steady \subseteq {row.id : row \in Belongs} /\ ToCome

PagesInv == TypeOK /\ AnswerCurrent /\ (Watched => Kept)

LEMMA SelectedBelongs ==
  ASSUME QueryOK, Unambiguous, clash = {}
  PROVE  Selected = Belongs
<1>1. request.where \in Arguments /\ request.service \in DOMAIN Services
  BY RequestFacts DEF QueryOK
<1>2. \A row \in Line : Where(row) <=> Means[request.where][row] /\ (Service.own # "none" => row.own)
  BY <1>1, WhereMeans
<1>3. Lines \subseteq Line
  BY LinesFacts
<1>4. QED
  BY <1>2, <1>3 DEF Selected, Belongs

LEMMA ColumnTypes ==
  ASSUME NEW row \in Line, NEW c \in Columns
  PROVE  row[c] \in Nat \cup {Null}
<1>1. Ids \subseteq Nat /\ Values \subseteq Nat
  BY WebAssumption DEF WebAssumption
<1>2. row["id"] \in Ids /\ row["a"] \in Values \cup {Null} /\ row["rel"] \in Values \cup {Null}
  BY DEF Line
<1>3. QED
  BY <1>1, <1>2 DEF Columns

LEMMA PrecedesFacts ==
  ASSUME NEW v \in Nat \cup {Null}, NEW w \in Nat \cup {Null}, NEW by
  PROVE  ~Precedes(v, v, by) /\ (v # w => Precedes(v, w, by) \/ Precedes(w, v, by))
<1>1. CASE v = Null \/ w = Null
  <2>1. v # w => Precedes(v, w, by) \/ Precedes(w, v, by)
    BY <1>1 DEF Precedes
  <2>2. ~Precedes(v, v, by)
    BY DEF Precedes
  <2>3. QED
    BY <2>1, <2>2
<1>2. CASE v # Null /\ w # Null
  <2>1. v \in Nat /\ w \in Nat
    BY <1>2
  <2>2. v # w => v < w \/ v > w
    BY <2>1
  <2>3. ~(v < v) /\ ~(v > v) /\ (v > w <=> w < v) /\ (w > v <=> v < w)
    BY <2>1
  <2>4. QED
    BY <1>2, <2>2, <2>3 DEF Precedes
<1>3. QED
  BY <1>1, <1>2

\* An order by the key, among others, orders all rows with different keys.
LEMMA OrderFacts ==
  ASSUME NEW order, IsList(order), \A i \in DOMAIN order : order[i].column \in Columns,
         NEW r \in Line, NEW s \in Line
  PROVE  /\ ~Sorted(order, r, r)
         /\ (\E i \in DOMAIN order : order[i].column = "id") /\ r.id # s.id
              => Sorted(order, r, s) \/ Sorted(order, s, r)
<1>1. ~Sorted(order, r, r)
  <2>1. \A i \in DOMAIN order : ~Precedes(r[order[i].column], r[order[i].column], order[i].by)
    BY ColumnTypes, PrecedesFacts
  <2>2. QED
    BY <2>1 DEF Sorted
<1>2. ASSUME NEW k \in DOMAIN order, order[k].column = "id", r.id # s.id
      PROVE  Sorted(order, r, s) \/ Sorted(order, s, r)
  <2> DEFINE T == {i \in DOMAIN order : r[order[i].column] # s[order[i].column]}
  <2>1. k \in T
    <3>1. r["id"] # s["id"]
      BY <1>2
    <3>2. QED
      BY <1>2, <3>1
  <2>2. T \subseteq Nat /\ DOMAIN order = 1..Len(order) /\ Len(order) \in Nat
    BY DEF IsList
  <2>3. PICK i \in T : \A j \in T : i <= j
    BY <2>1, <2>2, Least
  <2>4. i \in DOMAIN order /\ \A j \in 1..(i - 1) : j \in DOMAIN order /\ ~(i <= j)
    BY <2>2, <2>3
  <2>5. \A j \in 1..(i - 1) : r[order[j].column] = s[order[j].column]
    BY <2>3, <2>4
  <2>6. \/ Precedes(r[order[i].column], s[order[i].column], order[i].by)
        \/ Precedes(s[order[i].column], r[order[i].column], order[i].by)
    <3>1. r[order[i].column] # s[order[i].column]
      BY <2>3
    <3>2. r[order[i].column] \in Nat \cup {Null} /\ s[order[i].column] \in Nat \cup {Null}
      BY <2>4, ColumnTypes
    <3>3. QED
      BY <3>1, <3>2, PrecedesFacts
  <2>7. QED
    BY <2>4, <2>5, <2>6 DEF Sorted
<1>3. QED
  BY <1>1, <1>2

LEMMA KeyedFacts ==
  ASSUME QueryOK, Keyed
  PROVE  /\ OrderBy = request.order /\ IsList(OrderBy) /\ Service.paged
         /\ \A i \in DOMAIN OrderBy : OrderBy[i].column \in Columns
         /\ \E i \in DOMAIN OrderBy : OrderBy[i].column = "id"
<1>1. OrderBy = request.order
  BY DEF Keyed, OrderBy
<1>2. /\ IsList(request.order)
      /\ \A i \in DOMAIN request.order : request.order[i].column \in Columns
      /\ ~Service.paged => request.order = <<>>
  BY RequestFacts DEF QueryOK, Service
<1>3. \E i \in DOMAIN request.order : request.order[i].column = "id"
  BY DEF Keyed, ToSet
<1>4. request.order # <<>>
  BY <1>3
<1>5. QED
  BY <1>1, <1>2, <1>3, <1>4

LEMMA BeforeFacts ==
  ASSUME QueryOK, NEW row
  PROVE  IsFiniteSet(Before(row)) /\ Cardinality(Before(row)) \in Nat
<1>1. Before(row) \subseteq Belongs /\ IsFiniteSet(Belongs)
  BY ListedFacts DEF Before
<1>2. QED
  BY <1>1, FS_Subset, FS_CardinalityType

Firsts(q, m) == {q[i] : i \in 1..m}

\* The first m of rows that are all different are m.
LEMMA FirstRows ==
  ASSUME NEW q, NEW n \in Nat, NEW m \in Nat, m <= n,
         \A i, j \in 1..n : i # j => q[i] # q[j]
  PROVE  IsFiniteSet(Firsts(q, m)) /\ Cardinality(Firsts(q, m)) = m
<1> DEFINE D == 1..m
           T == {q[i] : i \in D}
           f == [i \in D |-> q[i]]
<1>1. f \in Surjection(D, T)
  BY DEF Surjection
<1>2. f \in Injection(D, T)
  BY DEF Injection, IsInjective
<1>3. IsFiniteSet(D) /\ Cardinality(D) = m
  BY FS_Interval
<1> HIDE DEF f, T, D
<1>4. IsFiniteSet(T) /\ Cardinality(T) = m
  BY <1>1, <1>2, <1>3, FS_Surjection
<1>5. QED
  BY <1>4 DEF T, D, Firsts

\* A row that belongs to the list stands in the results, behind all that must stand
\* before it and before none of them.
LEMMA PlaceOfRow ==
  ASSUME TypeOK, Keyed, clash = {}, NEW q \in Results
  PROVE  /\ q \in Seq(Line) /\ Len(q) \in Nat
         /\ \A i, j \in 1..Len(q) : i # j => q[i] # q[j]
         /\ {q[i] : i \in 1..Len(q)} = Belongs
         /\ \A p \in 1..Len(q) : Cardinality(Before(q[p])) < p
         /\ \A i, p \in 1..Len(q) : i < p /\ q[i].id # q[p].id => q[i] \in Before(q[p])
<1>1. QueryOK /\ Unambiguous /\ request.distinct = Null
  BY DEF TypeOK, Keyed
<1>2. Selected = Belongs
  BY <1>1, SelectedBelongs
<1>3. q \in InOrder(Belongs) /\ IsFiniteSet(Belongs) /\ Belongs \subseteq Line
  BY <1>1, <1>2, ResultFacts, ListedFacts
<1>4. /\ q \in Seq(Line) /\ Len(q) \in Nat
      /\ \A i, j \in 1..Len(q) : i # j => q[i] # q[j]
      /\ {q[i] : i \in 1..Len(q)} = Belongs
      /\ \A i, j \in 1..Len(q) : i < j => ~Sorted(OrderBy, q[j], q[i])
  BY <1>3, InOrderFacts
<1>5. /\ IsList(OrderBy) /\ \A i \in DOMAIN OrderBy : OrderBy[i].column \in Columns
      /\ \E i \in DOMAIN OrderBy : OrderBy[i].column = "id"
  BY <1>1, KeyedFacts
<1>6. \A i \in 1..Len(q) : q[i] \in Line
  BY <1>3, <1>4
<1>7. ASSUME NEW p \in 1..Len(q) PROVE Cardinality(Before(q[p])) < p
  <2> DEFINE T == Firsts(q, p - 1)
  <2>1. ASSUME NEW s \in Before(q[p]) PROVE s \in T
    <3>1. s \in Belongs /\ Sorted(OrderBy, s, q[p])
      BY DEF Before
    <3>2. PICK j \in 1..Len(q) : q[j] = s
      BY <1>4, <3>1
    <3>3. ~(p < j)
      BY <1>4, <3>1, <3>2
    <3>4. j # p
      BY <1>5, <1>6, <3>1, <3>2, OrderFacts
    <3>5. j \in 1..(p - 1)
      BY <1>4, <3>3, <3>4
    <3>6. QED
      BY <3>2, <3>5 DEF Firsts
  <2>2. p - 1 \in Nat /\ p - 1 <= Len(q) /\ p - 1 < p
    BY <1>4
  <2>3. IsFiniteSet(T) /\ Cardinality(T) = p - 1
    BY <1>4, <2>2, FirstRows
  <2> HIDE DEF T
  <2>4. Cardinality(Before(q[p])) <= p - 1
    <3>1. Before(q[p]) \in SUBSET T
      BY <2>1
    <3>2. QED
      BY <2>3, <3>1, FS_Subset
  <2>5. Cardinality(Before(q[p])) \in Nat
    BY <1>1, BeforeFacts
  <2>6. QED
    BY <2>2, <2>4, <2>5
<1>8. ASSUME NEW i \in 1..Len(q), NEW p \in 1..Len(q), i < p, q[i].id # q[p].id
      PROVE  q[i] \in Before(q[p])
  <2>1. ~Sorted(OrderBy, q[p], q[i])
    BY <1>4, <1>8
  <2>2. Sorted(OrderBy, q[i], q[p])
    BY <1>5, <1>6, <1>8, <2>1, OrderFacts
  <2>3. q[i] \in Belongs
    BY <1>4
  <2>4. QED
    BY <2>2, <2>3 DEF Before
<1>9. QED
  BY <1>4, <1>7, <1>8

LEMMA CurrentStep ==
  ASSUME TypeOK, AnswerCurrent, [Next]_vars
  PROVE  AnswerCurrent'
<1>1. ASSUME phase' \notin {"count", "answered"} PROVE AnswerCurrent'
  BY <1>1 DEF AnswerCurrent
<1>2. ASSUME page' = <<>> PROVE AnswerCurrent'
  BY <1>2 DEF AnswerCurrent
<1>3. CASE Ask
  BY <1>2, <1>3 DEF Ask
<1>4. CASE ReadPage
  <2>1. PICK q \in Results : page' = PageOf(q)
    BY <1>4 DEF ReadPage
  <2>2. UNCHANGED <<table, request, clash, offset>>
    BY <1>4 DEF ReadPage, query
  <2>3. Results' = Results /\ Service' = Service
    BY <2>2, SameQuery
  <2>4. PageOf(q)' = PageOf(q)
    BY <2>2, SamePages
  <2>5. page' # <<>> => ~(phase' = "answered" /\ Service'.paged)
    <3>1. phase' = "answered" => page' = <<>> \/ ~Service.paged
      BY <1>4 DEF ReadPage
    <3>2. QED
      BY <2>3, <3>1
  <2>6. \E results \in Results' : page' = PageOf(results)'
    BY <2>1, <2>3, <2>4
  <2>7. QED
    BY <2>5, <2>6 DEF AnswerCurrent
<1>5. CASE ReadCount
  <2>1. UNCHANGED <<table, request, clash, offset, page, moved>> /\ phase = "count"
    BY <1>5 DEF ReadCount, query
  <2>2. Results' = Results /\ Count' = Count
    BY <2>1, SameQuery
  <2>3. \A q : PageOf(q)' = PageOf(q)
    BY <2>1, SamePages
  <2>4. count' = Count'
    BY <1>5, <2>2 DEF ReadCount
  <2>5. ~moved /\ page # <<>> => \E results \in Results : page = PageOf(results)
    BY <2>1 DEF AnswerCurrent
  <2>6. ~moved' /\ page' # <<>> => \E results \in Results' : page' = PageOf(results)'
    BY <2>1, <2>2, <2>3, <2>5
  <2>7. QED
    BY <2>4, <2>6 DEF AnswerCurrent
<1>6. CASE QueryFails
  BY <1>2, <1>6 DEF QueryFails
<1>7. CASE NextPage
  BY <1>1, <1>7 DEF NextPage
<1>8. CASE Write
  <2>1. phase' = phase /\ (phase # "page" => moved')
    BY <1>8 DEF Write
  <2>2. CASE phase = "page"
    BY <1>1, <2>1, <2>2
  <2>3. CASE phase # "page"
    BY <2>1, <2>3 DEF AnswerCurrent
  <2>4. QED
    BY <2>2, <2>3
<1>9. CASE UNCHANGED vars
  <2>1. UNCHANGED <<table, request, clash, offset, page, moved, phase, count>>
    BY <1>9 DEF vars, query
  <2>2. Results' = Results /\ Count' = Count /\ Service' = Service
    BY <2>1, SameQuery
  <2>3. \A q : PageOf(q)' = PageOf(q)
    BY <2>1, SamePages
  <2>4. QED
    BY <2>1, <2>2, <2>3 DEF AnswerCurrent
<1>10. QED
  BY <1>3, <1>4, <1>5, <1>6, <1>7, <1>8, <1>9 DEF Next

\* A page is full, and all that is passed by then stands before the row, if a row
\* of the list was in no page.
LEMMA NotReceived ==
  ASSUME TypeOK, Keyed, clash = {}, ToCome, phase = "page", NEW q \in Results,
         NEW row \in Belongs, row.id \in steady \ got,
         row.id \notin {r.id : r \in ToSet(PageOf(q))}
  PROVE  Len(PageOf(q)) = Limit /\ offset + Limit <= Cardinality(Before(row))
<1> DEFINE n == Len(q)
<1>1. offset \in Nat /\ Limit \in Nat /\ offset + Limit \in Nat /\ n \in Nat
  BY LimitType, PlaceOfRow DEF TypeOK
<1>2. q \in Seq(Line) /\ {q[i] : i \in 1..n} = Belongs
  BY PlaceOfRow
<1>3. \A i \in 1..n : i <= offset => q[i].id # row.id
  <2>1. ASSUME NEW i \in 1..n, i <= offset, q[i].id = row.id PROVE FALSE
    <3>1. q[i] \in Belongs /\ q[i].id \in steady \ got
      BY <1>2, <2>1
    <3>2. offset <= Cardinality(Before(q[i]))
      BY <3>1 DEF ToCome, Passed
    <3>3. Cardinality(Before(q[i])) < i /\ Cardinality(Before(q[i])) \in Nat
      BY PlaceOfRow, BeforeFacts DEF TypeOK
    <3>4. QED
      BY <1>1, <2>1, <3>2, <3>3
  <2>2. QED
    BY <2>1
<1>4. /\ Len(PageOf(q)) = IF offset < n THEN IF offset + Limit < n THEN Limit ELSE n - offset ELSE 0
      /\ PageOf(q) \in Seq(Line)
      /\ \A k \in 1..Len(PageOf(q)) : PageOf(q)[k] = q[offset + k]
  BY <1>2, PageFacts
<1>5. \A i \in 1..n : offset < i /\ i <= offset + Limit => q[i].id # row.id
  <2>1. ASSUME NEW i \in 1..n, offset < i, i <= offset + Limit PROVE q[i] \in ToSet(PageOf(q))
    <3>1. i - offset \in 1..Len(PageOf(q)) /\ offset + (i - offset) = i
      BY <1>1, <1>4, <2>1
    <3>2. PageOf(q)[i - offset] = q[i]
      BY <1>4, <3>1
    <3>3. i - offset \in DOMAIN PageOf(q)
      BY <1>4, <3>1
    <3>4. QED
      BY <3>2, <3>3 DEF ToSet
  <2>2. QED
    BY <2>1
<1>6. PICK p \in 1..n : q[p] = row
  BY <1>2
<1>7. offset + Limit < p
  BY <1>1, <1>3, <1>5, <1>6
<1>8. Len(PageOf(q)) = Limit
  BY <1>1, <1>4, <1>7
<1>9. Firsts(q, offset + Limit) \subseteq Before(row)
  <2>1. ASSUME NEW i \in 1..(offset + Limit) PROVE q[i] \in Before(row)
    <3>1. i \in 1..n /\ i < p /\ (i <= offset \/ (offset < i /\ i <= offset + Limit))
      BY <1>1, <1>7
    <3>2. q[i].id # q[p].id
      BY <1>3, <1>5, <1>6, <3>1
    <3>3. QED
      BY <1>6, <3>1, <3>2, PlaceOfRow
  <2>2. QED
    BY <2>1 DEF Firsts
<1>10. Cardinality(Firsts(q, offset + Limit)) = offset + Limit
  <2>1. offset + Limit <= n
    BY <1>1, <1>7
  <2>2. \A i, j \in 1..n : i # j => q[i] # q[j]
    BY PlaceOfRow
  <2> HIDE DEF n
  <2>3. QED
    BY <1>1, <2>1, <2>2, FirstRows
<1>11. Cardinality(Firsts(q, offset + Limit)) <= Cardinality(Before(row))
  <2>1. IsFiniteSet(Before(row))
    BY BeforeFacts DEF TypeOK
  <2>2. Firsts(q, offset + Limit) \in SUBSET Before(row)
    BY <1>9
  <2>3. QED
    BY <2>1, <2>2, FS_Subset
<1>12. QED
  BY <1>8, <1>10, <1>11

LEMMA BeforeNext == QueryOK' => \A row : Cardinality(Before(row)') \in Nat /\ IsFiniteSet(Before(row)')
<1> DEFINE Counted == \A row : Cardinality(Before(row)) \in Nat /\ IsFiniteSet(Before(row))
<1>1. QueryOK => Counted
  BY BeforeFacts
<1>2. QueryOK' => Counted'
  <2> HIDE DEF Counted
  <2>1. QED
    BY <1>1, PTL
<1>3. QED
  BY <1>2

LEMMA SameBefore ==
  ASSUME UNCHANGED <<table, request>>
  PROVE  /\ \A row : Before(row)' = Before(row)
         /\ Keyed' = Keyed
<1>1. Belongs' = Belongs /\ OrderBy' = OrderBy /\ Unambiguous' = Unambiguous
  BY SameQuery
<1>2. request' = request
  OBVIOUS
<1>3. QED
  BY <1>1, <1>2 DEF Before, Keyed

\* What the crawler writes under one key changes no row with another.
LEMMA WriteFacts ==
  ASSUME NEW i, UNCHANGED request,
         \A k : k # i => /\ k \in DOMAIN table' <=> k \in DOMAIN table
                         /\ k \in DOMAIN table => table'[k] = table[k]
  PROVE  \A row : row.id # i => (row \in Belongs' <=> row \in Belongs)
<1>1. request' = request /\ Service' = Service /\ Joined' = Joined
  <2>1. request' = request
    OBVIOUS
  <2>2. QED
    BY <2>1 DEF Service, Joined, Asked
<1>2. \A k : (\A row \in Joins(k) : row.id = k) /\ (\A row \in Joins(k)' : row.id = k)
  BY DEF Joins, RowOf
<1>3. ASSUME NEW k \in DOMAIN table, k # i PROVE Joins(k)' = Joins(k)
  <2>1. table'[k] = table[k]
    BY <1>3
  <2>2. QED
    BY <1>1, <2>1 DEF Joins, RowOf
<1>4. ASSUME NEW row, row.id # i PROVE row \in Lines' <=> row \in Lines
  <2>1. ASSUME row \in Lines PROVE row \in Lines'
    <3>1. PICK k \in DOMAIN table : row \in Joins(k)
      BY <2>1 DEF Lines
    <3>2. k # i
      BY <1>2, <1>4, <3>1
    <3>3. k \in DOMAIN table' /\ row \in Joins(k)'
      BY <1>3, <3>1, <3>2
    <3>4. QED
      BY <3>3 DEF Lines
  <2>2. ASSUME row \in Lines' PROVE row \in Lines
    <3>1. PICK k \in DOMAIN table' : row \in Joins(k)'
      BY <2>2 DEF Lines
    <3>2. k # i
      BY <1>2, <1>4, <3>1
    <3>3. k \in DOMAIN table /\ row \in Joins(k)
      BY <1>3, <3>1, <3>2
    <3>4. QED
      BY <3>3 DEF Lines
  <2>3. QED
    BY <2>1, <2>2
<1>5. QED
  BY <1>1, <1>4 DEF Belongs

LEMMA WriteKeeps ==
  ASSUME TypeOK, Kept, QueryOK', Write, ~left', phase # "done"
  PROVE  Kept'
<1>1. /\ UNCHANGED <<request, clash, offset, page, phase, got>>
      /\ steady' = steady \cap {row.id : row \in Belongs'}
  BY DEF Write, query
<1>2. PICK i \in Ids :
        /\ \/ \E row \in Rows :
                table' = [k \in DOMAIN table \cup {i} |-> IF k = i THEN row ELSE table[k]]
           \/ table' = [k \in DOMAIN table \ {i} |-> table[k]]
        /\ left' = (left \/ \E row \in Belongs : row.id = i)
  BY DEF Write
<1>3. \A k : k # i => /\ k \in DOMAIN table' <=> k \in DOMAIN table
                      /\ k \in DOMAIN table => table'[k] = table[k]
  <2>1. CASE \E row \in Rows :
               table' = [k \in DOMAIN table \cup {i} |-> IF k = i THEN row ELSE table[k]]
    BY <2>1
  <2>2. CASE table' = [k \in DOMAIN table \ {i} |-> table[k]]
    BY <2>2
  <2>3. QED
    BY <1>2, <2>1, <2>2
<1>4. \A row : row.id # i => (row \in Belongs' <=> row \in Belongs)
  BY <1>1, <1>3, WriteFacts
<1>5. \A row \in Belongs : row.id # i
  BY <1>2
<1>6. Belongs \subseteq Belongs'
  BY <1>4, <1>5
<1>7. ASSUME NEW row \in Belongs', row.id \in steady' PROVE row \in Belongs
  <2>1. \E s \in Belongs : s.id = row.id
    BY <1>1, <1>7 DEF Kept
  <2>2. row.id # i
    BY <1>5, <2>1
  <2>3. QED
    BY <1>4, <2>2
<1>8. Limit' = Limit /\ OrderBy' = OrderBy
  <2>1. request' = request
    BY <1>1
  <2>2. QED
    BY <2>1 DEF Limit, OrderBy, Service
<1>9. Passed' = Passed
  BY <1>1, <1>8 DEF Passed
<1>10. ASSUME NEW row \in Belongs PROVE Cardinality(Before(row)) <= Cardinality(Before(row)')
  <2>1. Before(row) \in SUBSET Before(row)'
    BY <1>6, <1>8 DEF Before
  <2>2. IsFiniteSet(Before(row)')
    BY BeforeNext
  <2>3. QED
    BY <2>1, <2>2, FS_Subset
<1>11. ASSUME NEW row \in Belongs', row.id \in steady' \ got'
       PROVE  /\ phase' # "done" /\ (phase' # "page" => Len(page') = Limit')
              /\ Passed' <= Cardinality(Before(row)')
  <2>1. row \in Belongs /\ row.id \in steady \ got
    BY <1>1, <1>7, <1>11
  <2>2. phase # "done" /\ (phase # "page" => Len(page) = Limit) /\ Passed <= Cardinality(Before(row))
    BY <2>1 DEF Kept, ToCome
  <2>3. /\ Cardinality(Before(row)) <= Cardinality(Before(row)') /\ Passed \in Nat
        /\ Cardinality(Before(row)) \in Nat /\ Cardinality(Before(row)') \in Nat
    BY <1>10, <2>1, BeforeFacts, BeforeNext, LimitType DEF TypeOK, Passed
  <2>4. QED
    BY <1>1, <1>8, <1>9, <2>2, <2>3
<1>12. ToCome'
  BY <1>11 DEF ToCome
<1>13. clash' = {} /\ steady' \subseteq {row.id : row \in Belongs'}
  BY <1>1 DEF Kept
<1>14. QED
  BY <1>12, <1>13 DEF Kept

LEMMA AskKeeps ==
  ASSUME TypeOK, QueryOK', Ask, ~failed'
  PROVE  Kept'
<1>1. /\ phase' = "page" /\ offset' = 0 /\ clash' = {}
      /\ steady' = {row.id : row \in Belongs'}
  BY DEF Ask
<1>2. Passed' = 0
  BY <1>1 DEF Passed
<1>3. \A row : Cardinality(Before(row)') \in Nat
  BY BeforeNext
<1>4. \A row \in Belongs' :
        phase' # "done" /\ ~(phase' # "page") /\ Passed' <= Cardinality(Before(row)')
  BY <1>1, <1>2, <1>3
<1>5. ToCome'
  BY <1>4 DEF ToCome
<1>6. QED
  BY <1>1, <1>5 DEF Kept

LEMMA ReadKeeps ==
  ASSUME TypeOK, Keyed, Kept, ReadPage
  PROVE  Kept'
<1>1. PICK q \in Results : page' = PageOf(q)
  BY DEF ReadPage
<1>2. /\ UNCHANGED <<table, request, clash, offset, steady>> /\ phase = "page"
      /\ got' = got \cup {row.id : row \in ToSet(page')}
      /\ phase' \in {"count", "answered"}
  BY DEF ReadPage, query
<1>3. Belongs' = Belongs /\ Limit' = Limit /\ \A row : Before(row)' = Before(row)
  BY <1>2, SameQuery, SameBefore
<1>4. Passed' = offset + Limit
  BY <1>2, <1>3 DEF Passed
<1>5. ASSUME NEW row \in Belongs, row.id \in steady \ got'
      PROVE  /\ phase' # "done" /\ Len(page') = Limit'
             /\ Passed' <= Cardinality(Before(row)')
  <2>1. row.id \in steady \ got /\ row.id \notin {r.id : r \in ToSet(PageOf(q))}
    BY <1>1, <1>2, <1>5
  <2>2. Len(PageOf(q)) = Limit /\ offset + Limit <= Cardinality(Before(row))
    BY <1>2, <2>1, NotReceived DEF Kept
  <2>3. QED
    BY <1>1, <1>2, <1>3, <1>4, <2>2
<1>6. ToCome'
  BY <1>2, <1>3, <1>5 DEF ToCome
<1>7. clash' = {} /\ steady' \subseteq {row.id : row \in Belongs'}
  BY <1>2, <1>3 DEF Kept
<1>8. QED
  BY <1>6, <1>7 DEF Kept

LEMMA NextPageKeeps ==
  ASSUME TypeOK, Keyed, Kept, NextPage, ~failed'
  PROVE  Kept'
<1>1. /\ UNCHANGED <<table, request, page, got, steady>> /\ phase = "answered"
  BY DEF NextPage
<1>2. Belongs' = Belongs /\ Limit' = Limit /\ \A row : Before(row)' = Before(row)
  BY <1>1, SameQuery, SameBefore
<1>3. Service.paged
  BY KeyedFacts DEF TypeOK
<1>4. Passed = offset + Limit
  BY <1>1 DEF Passed
<1>5. CASE Len(page) = Limit
  <2>1. phase' = "page" /\ offset' = offset + Limit /\ clash' = {}
    BY <1>3, <1>5 DEF NextPage
  <2>2. Passed' = Passed
    BY <1>4, <2>1 DEF Passed
  <2>3. ToCome'
    BY <1>1, <1>2, <2>1, <2>2 DEF Kept, ToCome
  <2>4. QED
    BY <1>1, <1>2, <2>1, <2>3 DEF Kept
<1>6. CASE Len(page) # Limit
  <2>1. clash' = clash
    BY <1>6 DEF NextPage
  <2>2. \A row \in Belongs : row.id \notin steady \ got
    BY <1>1, <1>6 DEF Kept, ToCome
  <2>3. ToCome'
    BY <1>1, <1>2, <2>2 DEF ToCome
  <2>4. QED
    BY <1>1, <1>2, <2>1, <2>3 DEF Kept
<1>7. QED
  BY <1>5, <1>6

LEMMA KeptStep ==
  ASSUME TypeOK, TypeOK', Watched => Kept, [Next]_vars, Watched'
  PROVE  Kept'
<1>1. ~failed' /\ ~left' /\ phase' \in {"page", "count", "answered", "done"} /\ Keyed'
  BY DEF Watched
<1>2. QueryOK'
  BY DEF TypeOK
<1>3. CASE Ask
  BY <1>1, <1>2, <1>3, AskKeeps
<1>4. ASSUME UNCHANGED <<table, request>>, ~failed, ~left, phase \in {"page", "count", "answered", "done"}
      PROVE  Keyed /\ Kept
  BY <1>1, <1>4, SameBefore DEF Watched
<1>5. CASE ReadPage
  <2>1. UNCHANGED <<table, request, failed, left>> /\ phase = "page"
    BY <1>5 DEF ReadPage, query
  <2>2. QED
    BY <1>1, <1>4, <1>5, <2>1, ReadKeeps
<1>6. ASSUME UNCHANGED <<table, request, clash, offset, page, got, steady, failed, left>>,
             phase \in {"page", "count", "answered", "done"},
             phase' = phase \/ (phase = "count" /\ phase' = "answered")
      PROVE  Kept'
  <2>1. Kept
    BY <1>1, <1>4, <1>6
  <2>2. Belongs' = Belongs /\ Limit' = Limit /\ \A row : Before(row)' = Before(row)
    BY <1>6, SameQuery, SameBefore
  <2>3. Passed' = Passed
    BY <1>6, <2>2 DEF Passed
  <2>4. ToCome'
    BY <1>6, <2>1, <2>2, <2>3 DEF Kept, ToCome
  <2>5. QED
    BY <1>6, <2>1, <2>2, <2>4 DEF Kept
<1>7. CASE ReadCount
  <2>1. /\ UNCHANGED <<table, request, clash, offset, page, got, steady, failed, left>>
        /\ phase = "count" /\ phase' = "answered"
    BY <1>7 DEF ReadCount, query, ghost
  <2>2. QED
    BY <1>6, <2>1
<1>8. CASE QueryFails
  BY <1>1, <1>8 DEF QueryFails
<1>9. CASE NextPage
  <2>1. UNCHANGED <<table, request, left>> /\ phase = "answered" /\ ~failed
    BY <1>1, <1>9 DEF NextPage
  <2>2. QED
    BY <1>1, <1>4, <1>9, <2>1, NextPageKeeps
<1>10. CASE Write
  <2>1. UNCHANGED request /\ phase \in {"page", "count", "answered"} /\ UNCHANGED failed /\ ~left
    BY <1>1, <1>10 DEF Write, query
  <2>2. Keyed
    <3>1. request' = request
      BY <2>1
    <3>2. QED
      BY <1>1, <3>1 DEF Keyed, Unambiguous, Service
  <2>3. Kept /\ phase # "done"
    BY <1>1, <2>1, <2>2 DEF Watched
  <2>4. QED
    BY <1>1, <1>2, <1>10, <2>3, WriteKeeps
<1>11. CASE UNCHANGED vars
  <2>1. UNCHANGED <<table, request, clash, offset, page, got, steady, failed, left>>
    BY <1>11 DEF vars, query, ghost
  <2>2. phase' = phase
    BY <1>11 DEF vars
  <2>3. phase \in {"page", "count", "answered", "done"}
    BY <1>1, <2>2
  <2>4. QED
    BY <1>6, <2>1, <2>2, <2>3
<1>12. QED
  BY <1>3, <1>5, <1>7, <1>8, <1>9, <1>10, <1>11 DEF Next

LEMMA PagesInvariant == Spec => []PagesInv
<1>1. Init => PagesInv
  <2>1. SUFFICES ASSUME Init PROVE AnswerCurrent /\ ~Watched /\ TypeOK
    BY DEF PagesInv
  <2>2. phase = "idle" /\ page = <<>>
    BY <2>1 DEF Init
  <2>3. TypeOK
    BY <2>1, InitTyped
  <2>4. QED
    BY <2>2, <2>3 DEF AnswerCurrent, Watched
<1>2. PagesInv /\ [Next]_vars => PagesInv'
  <2>1. SUFFICES ASSUME PagesInv, [Next]_vars PROVE PagesInv'
    OBVIOUS
  <2>2. TypeOK /\ AnswerCurrent /\ (Watched => Kept)
    BY <2>1 DEF PagesInv
  <2>3. TypeOK'
    BY <2>1, <2>2, TypeStep
  <2>4. AnswerCurrent'
    BY <2>1, <2>2, CurrentStep
  <2>5. Watched' => Kept'
    BY <2>1, <2>2, <2>3, KeptStep
  <2>6. QED
    BY <2>3, <2>4, <2>5 DEF PagesInv
<1>3. QED
  BY <1>1, <1>2, PTL DEF Spec

(* Whoever reads page after page, in an order that begins with anything    *)
(* and has the key in it, receives every row that was in the list all the  *)
(* time: whatever is inserted, and whatever the size of the table and of   *)
(* the pages, an inserted row only moves others to later pages.            *)
THEOREM PagesAreComplete == Spec => []PagesComplete
<1>1. PagesInv => PagesComplete
  <2>1. SUFFICES ASSUME PagesInv, phase = "done", ~failed, ~left, Unambiguous,
                        request.distinct = Null, \E o \in ToSet(request.order) : o.column = "id"
                 PROVE  steady \subseteq got
    BY DEF PagesComplete
  <2>2. Watched
    BY <2>1 DEF Watched, Keyed
  <2>3. Kept
    BY <2>1, <2>2 DEF PagesInv
  <2>4. \A row \in Belongs : row.id \notin steady \ got
    BY <2>1, <2>3 DEF Kept, ToCome
  <2>5. QED
    BY <2>3, <2>4 DEF Kept
<1>2. QED
  BY <1>1, PagesInvariant, PTL

(***************************************************************************)
(* A page and its count.                                                   *)
(***************************************************************************)
LEMMA PageRows ==
  ASSUME TypeOK, NEW q \in Results
  PROVE  ToSet(PageOf(q)) \subseteq Selected
<1>1. PICK rows : rows \subseteq Selected /\ IsFiniteSet(rows) /\ q \in InOrder(rows)
  BY ResultFacts DEF TypeOK
<1>2. rows \subseteq Line
  BY <1>1, ListedFacts DEF TypeOK
<1>3. q \in Seq(Line) /\ {q[i] : i \in 1..Len(q)} = rows
  BY <1>1, <1>2, InOrderFacts
<1>4. /\ PageOf(q) \in Seq(Line)
      /\ \A i \in 1..Len(PageOf(q)) : offset + i \in 1..Len(q) /\ PageOf(q)[i] = q[offset + i]
  BY <1>3, PageFacts
<1>5. DOMAIN PageOf(q) = 1..Len(PageOf(q))
  BY <1>4
<1>6. \A i \in DOMAIN PageOf(q) : PageOf(q)[i] \in Selected
  BY <1>1, <1>3, <1>4, <1>5
<1>7. QED
  BY <1>6 DEF ToSet

(* No page has a row that an entry of the argument or the condition of the *)
(* service keeps out, whatever the lists the argument nests, as long as no *)
(* _or stands behind something and no parameters clash.                    *)
THEOREM PagesMeanWhere == Spec => PageMeansWhere
<1> DEFINE Clear == phase = "page" /\ phase' # "page" /\ Unambiguous /\ clash = {}
           Meant == ToSet(page') \subseteq Belongs
<1>1. TypeOK /\ [Next]_vars /\ Clear => Meant
  <2>1. SUFFICES ASSUME TypeOK, [Next]_vars, Clear PROVE Meant
    OBVIOUS
  <2>2. CASE ReadPage
    <3>1. PICK q \in Results : page' = PageOf(q)
      BY <2>2 DEF ReadPage
    <3>2. ToSet(PageOf(q)) \subseteq Selected
      BY <2>1, PageRows
    <3>3. Selected = Belongs
      BY <2>1, SelectedBelongs DEF TypeOK
    <3>4. QED
      BY <3>1, <3>2, <3>3
  <2>3. CASE QueryFails
    <3>1. page' = <<>>
      BY <2>3 DEF QueryFails
    <3>2. ToSet(<<>>) = {}
      BY DEF ToSet
    <3>3. QED
      BY <3>1, <3>2
  <2>4. ~Ask /\ ~ReadCount /\ ~NextPage
    BY <2>1 DEF Ask, ReadCount, NextPage
  <2>5. ~Write /\ vars' # vars
    BY <2>1 DEF Write, vars
  <2>6. QED
    BY <2>1, <2>2, <2>3, <2>4, <2>5 DEF Next
<1>2. TypeOK /\ [Next]_vars => [Clear => Meant]_vars
  BY <1>1
<1>3. QED
  BY <1>2, TypeCorrect, PTL DEF Spec, PageMeansWhere

\* Two lines of one row are joined with it twice.
LEMMA OneLineEach ==
  ASSUME QueryOK, \A i \in DOMAIN table : ~(Cardinality(Joins(i)) > 1)
  PROVE  \A r, s \in Selected : r # s => r.id # s.id
<1>1. SUFFICES ASSUME NEW r \in Selected, NEW s \in Selected, r # s, r.id = s.id PROVE FALSE
  OBVIOUS
<1>2. PICK i \in DOMAIN table : r \in Joins(i)
  BY DEF Selected, Lines
<1>3. PICK j \in DOMAIN table : s \in Joins(j)
  BY DEF Selected, Lines
<1>4. i = j
  BY <1>1, <1>2, <1>3, LinesFacts
<1>5. {r, s} \subseteq Joins(i) /\ Joins(i) \subseteq Lines
  BY <1>2, <1>3, <1>4 DEF Lines
<1>6. IsFiniteSet(Joins(i))
  BY <1>5, LinesFacts, FS_Subset
<1>7. Cardinality({r, s}) <= Cardinality(Joins(i)) /\ IsFiniteSet({r, s})
  <2>1. {r, s} \in SUBSET Joins(i)
    BY <1>5
  <2>2. QED
    BY <1>6, <2>1, FS_Subset
<1>8. Cardinality({r, s}) = 2
  <2>1. IsFiniteSet({s}) /\ Cardinality({s}) = 1 /\ {r, s} = {s} \cup {r}
    BY FS_Singleton
  <2>2. r \notin {s}
    BY <1>1
  <2>3. Cardinality({s} \cup {r}) = 1 + 1
    BY <2>1, <2>2, FS_AddElement
  <2>4. QED
    BY <2>1, <2>3
<1>9. Cardinality(Joins(i)) \in Nat
  BY <1>6, FS_CardinalityType
<1>10. QED
  BY <1>7, <1>8, <1>9

\* The count is that of the results, but for rows joined twice and a group of NULL.
LEMMA CountOfResults ==
  ASSUME QueryOK, NEW q \in Results
  PROVE  /\ Count <= Len(q)
         /\ \/ Len(q) = Count
            \/ request.distinct = Null /\ \E i \in DOMAIN table : Cardinality(Joins(i)) > 1
            \/ /\ request.distinct # Null /\ Len(q) = Count + 1
               /\ \E row \in Selected : row[request.distinct] = Null
<1>1. IsFiniteSet(Selected) /\ Selected \subseteq Line
  BY ListedFacts
<1>2. CASE request.distinct = Null
  <2>1. q \in InOrder(Selected)
    BY <1>2 DEF Results
  <2>2. Len(q) = Cardinality(Selected)
    BY <1>1, <2>1, InOrderFacts
  <2>3. Count = Cardinality({row["id"] : row \in Selected})
    BY <1>2 DEF Count
  <2>4. Count <= Len(q)
    BY <1>1, <2>2, <2>3, ColumnFacts
  <2>5. CASE \A i \in DOMAIN table : ~(Cardinality(Joins(i)) > 1)
    <3>1. \A r, s \in Selected : r # s => r["id"] # s["id"]
      BY <2>5, OneLineEach
    <3>2. Count = Cardinality(Selected)
      BY <1>1, <2>3, <3>1, ColumnFacts
    <3>3. QED
      BY <2>2, <2>4, <3>2
  <2>6. QED
    BY <1>2, <2>4, <2>5
<1>3. CASE request.distinct # Null
  <2> DEFINE c == request.distinct
             D == {r[c] : r \in Selected}
  <2>1. PICK rows : /\ rows \subseteq Selected /\ IsFiniteSet(rows) /\ q \in InOrder(rows)
                    /\ rows \in FirstOfGroups(c)
    BY <1>3, ResultFacts
  <2>2. {r[c] : r \in rows} = D /\ \A r, s \in rows : r # s => r[c] # s[c]
    BY <2>1 DEF FirstOfGroups
  <2>3. Cardinality(D) = Cardinality(rows)
    <3> HIDE DEF c, D
    <3>1. Cardinality({r[c] : r \in rows}) = Cardinality(rows)
      BY <2>1, <2>2, ColumnFacts
    <3>2. QED
      BY <2>2, <3>1
  <2>4. Len(q) = Cardinality(rows)
    BY <1>1, <2>1, InOrderFacts
  <2>5. IsFiniteSet(D) /\ Cardinality(D) \in Nat
    <3> HIDE DEF c
    <3>1. QED
      BY <1>1, ColumnFacts
  <2>6. Count = Cardinality(D \ {Null})
    BY <1>3 DEF Count
  <2>7. Null \in D => \E row \in Selected : row[c] = Null
    OBVIOUS
  <2> HIDE DEF D
  <2>8. Cardinality(D \ {Null}) = IF Null \in D THEN Cardinality(D) - 1 ELSE Cardinality(D)
    BY <2>5, FS_RemoveElement
  <2>9. Count <= Len(q) /\ (Len(q) = Count \/ (Null \in D /\ Len(q) = Count + 1))
    BY <2>3, <2>4, <2>5, <2>6, <2>8
  <2>10. QED
    BY <1>3, <2>7, <2>9
<1>4. QED
  BY <1>2, <1>3

(* The count beside a page is neither smaller than what was read by then,  *)
(* but for rows joined twice and a group of NULL, nor larger when the page *)
(* is the last one, whenever nothing was written between the two queries.  *)
THEOREM CountIsOfTheList == Spec => []CountFits
<1>1. TypeOK /\ AnswerCurrent => CountFits
  <2>1. SUFFICES ASSUME TypeOK, AnswerCurrent, phase = "answered", ~moved, page # <<>>, Service.paged
                 PROVE  LET read == offset + Len(page) IN
                        /\ Len(page) < Limit => count <= read
                        /\ \/ read <= count
                           \/ request.distinct = Null /\ \E i \in DOMAIN table : Cardinality(Joins(i)) > 1
                           \/ request.distinct # Null /\ read = count + 1
                              /\ \E row \in Selected : row[request.distinct] = Null
    BY DEF CountFits
  <2>2. PICK q \in Results : page = PageOf(q)
    BY <2>1 DEF AnswerCurrent
  <2>3. count = Count /\ QueryOK
    BY <2>1 DEF AnswerCurrent, TypeOK
  <2>4. q \in Seq(Line) /\ Len(q) \in Nat
    BY <2>3, ResultFacts, ListedFacts, InOrderFacts
  <2>5. Len(page) = IF offset < Len(q) THEN IF offset + Limit < Len(q) THEN Limit ELSE Len(q) - offset
                    ELSE 0
    BY <2>1, <2>2, <2>4, PageFacts
  <2>6. Len(page) # 0
    <3>1. page \in Seq(Line)
      BY <2>1 DEF TypeOK
    <3>2. QED
      BY <2>1, <3>1
  <2>7. offset \in Nat /\ Limit \in Nat /\ count \in Nat
    BY <2>1, LimitType DEF TypeOK
  <2>8. offset + Len(page) <= Len(q) /\ (Len(page) < Limit => offset + Len(page) = Len(q))
    BY <2>4, <2>5, <2>6, <2>7
  <2>9. /\ count <= Len(q)
        /\ \/ Len(q) = count
           \/ request.distinct = Null /\ \E i \in DOMAIN table : Cardinality(Joins(i)) > 1
           \/ /\ request.distinct # Null /\ Len(q) = count + 1
              /\ \E row \in Selected : row[request.distinct] = Null
    BY <2>3, CountOfResults
  <2>10. Len(page) \in Nat
    BY <2>4, <2>5, <2>7
  <2>11. /\ Len(page) < Limit => count <= offset + Len(page)
         /\ Len(q) = count => offset + Len(page) <= count
         /\ Len(q) = count + 1 => offset + Len(page) <= count \/ offset + Len(page) = count + 1
    BY <2>4, <2>7, <2>8, <2>9, <2>10
  <2>12. QED
    BY <2>9, <2>11
<1>2. PagesInv => TypeOK /\ AnswerCurrent
  BY DEF PagesInv
<1>3. QED
  BY <1>1, <1>2, PagesInvariant, PTL
===============================================================================
