------------------------------ MODULE MCWebLists ------------------------------
(***************************************************************************)
(* Constants for the runs of WebLists.                                     *)
(***************************************************************************)
EXTENDS WebLists, FiniteSetsExt

R(a, own, rel) == [a |-> a, own |-> own, rel |-> rel, tokens |-> rel]

ThreeRows == {R(1, TRUE, {1, 2}), R(2, TRUE, {}), R(Null, FALSE, {2})}

\* Tables of two rows; a third row may be inserted.
SomeTables == {t \in [{1, 3} -> ThreeRows] : t[1] # t[3] /\ t[1].a # 2}

C(column, op, value) == [key |-> column, op |-> op, value |-> value]
L(list, of)          == [key |-> list, of |-> of]

A1 == C("a", "_eq", 1)
A2 == C("a", "_neq", 1)
I3 == C("id", "_in", <<1, 3>>)
N  == C("a", "_is_null", FALSE)

Wheres ==
  {<<>>, <<A1>>, <<C("rel", "_eq", 2)>>, <<L("_or", <<<<A1>>, <<C("a", "_eq", 2)>>>>)>>,
   <<L("_or", <<<<A1>>, <<N, I3>>>>), C("id", "_neq", 2)>>,
   <<L("_and", <<<<L("_or", <<<<A2>>, <<I3>>>>)>>, <<N>>>>)>>,
   <<I3, L("_or", <<<<A1>>>>)>>, <<C("a", "_in", <<>>)>>}

ById   == <<[column |-> "id", by |-> "asc"]>>
ByA    == <<[column |-> "a", by |-> "desc_nulls_last"], [column |-> "id", by |-> "desc"]>>
Orders == {<<>>, ById, ByA}

Request(s, w, o, d, l, f) ==
  [service |-> s, where |-> w, order |-> o, distinct |-> d, limit |-> l, select |-> f]

Paged    == {s \in DOMAIN Services : Services[s].paged}
Distinct == {s \in DOMAIN Services : Services[s].distinct}

AllRequests ==
  {Request(s, w, ById, Null, 1, {}) : s \in Paged, w \in {<<>>, <<N>>, <<I3, L("_or", <<<<A1>>>>)>>}}
  \cup {Request("tokens", w, o, Null, l, {}) : w \in Wheres, o \in {ById, ByA}, l \in {0, 1}}
  \cup {Request("bundles", w, ById, Null, 1, {"rel"}) : w \in Wheres}
  \cup {Request(s, <<>>, o, "a", 1, {}) : s \in Distinct, o \in Orders}
  \cup {Request(s, <<>>, o, "rel", 1, f) : s \in {"tokens", "bundles", "collections"}, o \in Orders, f \in {{}, {"rel"}}}
  \cup {Request("tokensOf", w, <<>>, Null, Null, f) : w \in Wheres, f \in {{}, {"rel"}}}
  \cup {Request("collections", <<L("tokens", <<w>>)>>, ById, Null, 1, {}) : w \in {<<A1>>, <<N, A2>>, <<>>}}

\* The arguments in the requests, and how deep their members lie.
RECURSIVE Members(_)
Members(where) ==
  {where} \cup UNION {UNION {Members(where[i].of[k]) : k \in DOMAIN where[i].of} :
                        i \in {j \in DOMAIN where : where[j].key \in Lists}}

MCArguments == UNION {Members(r.where) : r \in AllRequests}

RECURSIVE DepthOf(_)
DepthOf(where) == 1 + Max({0} \cup {DepthOf(w) : w \in Members(where) \ {where}})

MCDepth == [where \in MCArguments |-> DepthOf(where)]
===============================================================================
