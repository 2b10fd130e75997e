----------------------------- MODULE MCNesting -----------------------------
(***************************************************************************)
(* Instances of Nesting for TLC.                                           *)
(***************************************************************************)
EXTENDS Nesting, TLC

CONSTANTS t1, t2, t3, t4, t5

\* The places of some tokens; the others are burned and nothing happens to them.
With(places) == [t \in Tokens |-> IF t \in DOMAIN places THEN places[t] ELSE "burned"]

\* Three tokens, one below the other.
Chain == With((t1 :> "account") @@ (t2 :> t1) @@ (t3 :> t2))

\* Tokens of accounts, and one that is not minted.
Apart == With((t1 :> "account") @@ (t2 :> "account") @@ (t3 :> "absent"))

Pair == With((t1 :> "account") @@ (t2 :> "absent"))

\* A bundle in a bundle, with a token beside it.
Tree == With((t1 :> "account") @@ (t2 :> t1) @@ (t3 :> t2) @@ (t4 :> t3) @@ (t5 :> t2))

Start(f, n) == [place |-> f, operations |-> n]

Forests == {Start(Chain, 3), Start(Pair, 3), Start(Apart, 2), Start(Tree, 1)}
=============================================================================
