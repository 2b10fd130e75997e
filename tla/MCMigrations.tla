----------------------------- MODULE MCMigrations -----------------------------
(* An instance of Migrations for TLC.                                      *)
EXTENDS Migrations

MCTableOf ==
    [r \in {"block"} |-> "block"] @@ [r \in {"Unique.transfer"} |-> "extrinsic"]
    @@ [r \in {"Common.Transfer", "CollectionOwnerChanged"} |-> "event"]
    @@ [r \in {"free account"} |-> "account"]
    @@ [r \in {"collection"} |-> "collections"] @@ [r \in {"token"} |-> "tokens"]
    @@ [r \in {"token owner"} |-> "tokens_owners"]
MCStatsCounters == {"tokens_count", "holders_count", "actions_count", "transfers_count"}
MCJumps == {1, LastFile}
=============================================================================
