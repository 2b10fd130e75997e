---------------------------- MODULE StatTriggers ----------------------------
(***************************************************************************)
(* The triggers that keep collections_stats while the crawler writes the   *)
(* table tokens, as the migrations leave them.  A trigger sees a table     *)
(* [Tokens -> Row]; Of[t] is the collection of token t.                    *)
(***************************************************************************)
EXTENDS Integers, FiniteSets

CONSTANTS Tokens, Owners, Collections,
          Of                \* the collection of each token

Row == [status : {"absent", "live", "burned"}, owner : Owners]

Statuses(table, s) == {t \in Tokens : table[t].status = s}

\* where burned = false, of one collection
LiveIn(table, c) == {t \in Statuses(table, "live") : Of[t] = c}

\* A row of collections_stats, and no row.
Stats == [exists : BOOLEAN, tokens : Int, holders : Int]

NoStats == [exists |-> FALSE, tokens |-> 0, holders |-> 0]

FreshStats == [exists |-> TRUE, tokens |-> 0, holders |-> 0]

\* insert .. ON CONFLICT (collection_id) DO UPDATE SET tokens_count = .. + d;
\* the values of the insert are 1 to add one and 0 to take one away.
AddTokens(s, d) ==
  IF s.exists THEN [s EXCEPT !.tokens = @ + d]
  ELSE [FreshStats EXCEPT !.tokens = IF d > 0 THEN d ELSE 0]

AddHolders(s, d) ==
  IF d = 0 THEN s
  ELSE IF s.exists THEN [s EXCEPT !.holders = @ + d]
  ELSE [FreshStats EXCEPT !.holders = IF d > 0 THEN d ELSE 0]

-----------------------------------------------------------------------------
\* Has the owner another token of the collection of t, not burned?
HasAnother(table, t, owner) ==
  \E u \in LiveIn(table, Of[t]) \ {t} : table[u].owner = owner

\* update_collections_stats_holders on an insert.
HoldersOnInsert(table, t, owner) == IF HasAnother(table, t, owner) THEN 0 ELSE 1

\* .. on an update that changes the owner.
HoldersOnUpdate(table, t, old, new) ==
  IF old = new \/ HasAnother(table, t, old) = HasAnother(table, t, new) THEN 0
  ELSE IF HasAnother(table, t, old) THEN 1 ELSE -1

\* .. on an update that sets burned.
HoldersOnBurn(table, t, owner) == IF HasAnother(table, t, owner) THEN 0 ELSE -1

\* update collections_stats for n rows that one statement burns: the triggers
\* run row by row after the statement, when no row of the owner is live any more.
BurnStats(s, n) ==
  IF n = 0 THEN s
  ELSE IF s.exists THEN [s EXCEPT !.tokens = @ - n, !.holders = @ - n]
  ELSE [FreshStats EXCEPT !.tokens = 0 - n, !.holders = 1 - n]

\* What holders_count should count: the owners of tokens that are not burned.
HoldersOf(table, c) == {table[t].owner : t \in LiveIn(table, c)}
=============================================================================
