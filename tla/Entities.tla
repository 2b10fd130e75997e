------------------------------- MODULE Entities -------------------------------
(***************************************************************************)
(* The tables as the crawler and the web API declare them to typeorm       *)
(* (common/entities/), and the keys the crawler's upserts name.  Columns   *)
(* are those of PgSchema: a column without "nullable" that typeorm has no  *)
(* default for must be given on every insert.                              *)
(***************************************************************************)
EXTENDS PgSchema

(* A table, the unique keys its entity announces, and its columns.         *)
Entity(t, unique, cols) == [table |-> t, unique |-> unique, columns |-> cols]

Account ==
  Entity("account", {{"account_id"}},
    Required("text", {"account_id", "free_balance", "locked_balance", "account_id_normalized"})
      \cup Optional("text", {"available_balance"})
      \cup Required("bigint", {"timestamp", "block_height"}))

Attribute ==
  Entity("attributes", {},
    Default("bigint", {"id"}) \cup Required("integer", {"token_id"})
      \cup Required("bigint", {"collection_id"}) \cup Required("text", {"trait_type"})
      \cup Optional("text", {"display_type", "value_string"}) \cup Optional("integer", {"value_number"}))

Block ==
  Entity("block", {{"block_number"}},
    Required("bigint", {"block_number", "timestamp"})
      \cup Required("text", {"block_hash", "parent_hash", "extrinsics_root", "spec_name"})
      \cup Optional("text", {"state_root"})
      \cup Required("integer", {"spec_version", "total_events", "num_transfers", "new_accounts",
          "total_extrinsics"}))

Chain ==
  Entity("chain", {{"block_height"}},
    Required("bigint", {"block_height", "active_accounts", "timestamp"})
      \cup Required("integer", {"session_index"}) \cup Required("text", {"total_issuance"}))

Collections ==
  Entity("collections", {{"collection_id"}},
    Required("bigint", {"collection_id", "token_limit"})
      \cup Required("text", {"owner", "owner_normalized"})
      \cup Optional("text", {"name", "description", "offchain_schema", "created_at_block_hash",
          "updated_at_block_hash", "original_schema_version"})
      \cup Default("jsonb", {"schema_v2", "properties", "token_property_permissions", "attributes_schema"})
      \cup Optional("jsonb", {"permissions", "const_chain_schema", "variable_on_chain_schema",
          "default_token_image", "potential_attributes", "customizing"})
      \cup Optional("bigint", {"limits_account_ownership", "date_of_creation", "created_at_block_number",
          "updated_at_block_number"})
      \cup Optional("integer", {"limits_sponsore_data_size", "limits_sponsore_data_rate"})
      \cup Optional("boolean", {"owner_can_transfer", "owner_can_destroy", "mint_mode"})
      \cup Optional("varchar", {"sponsorship", "schema_version", "token_prefix", "mode",
          "collection_cover"})
      \cup Default("boolean", {"nesting_enabled", "burned"}))

CollectionsStats ==
  Entity("collections_stats", {{"collection_id"}},
    Required("bigint", {"collection_id", "tokens_count", "holders_count", "actions_count"})
      \cup Default("bigint", {"transfers_count"}))

Contract ==
  Entity("contract", {{"contract_id"}},
    Required("text", {"contract_id", "abi"}))

Event ==
  Entity("event", {{"block_number", "event_index"}},
    Required("bigint", {"block_number"}) \cup Required("integer", {"event_index"})
      \cup Required("text", {"section", "method", "phase", "data"}) \cup Optional("jsonb", {"values"})
      \cup Optional("bigint", {"timestamp"}) \cup Optional("text", {"amount", "block_index"}))

EvmTransaction ==
  Entity("evm_transaction", {{"transaction_hash"}},
    Required("text", {"to", "from", "logs_bloom", "block_hash", "transaction_hash"})
      \cup Optional("text", {"contract_address"})
      \cup Required("integer", {"transaction_index", "block_number", "confirmations", "status", "type"})
      \cup Required("bigint", {"gas_used", "cumulative_gas_used", "effective_gas_price"})
      \cup Required("boolean", {"byzantium"}) \cup Optional("bigint", {"timestamp"}))

Extrinsic ==
  Entity("extrinsic", {{"block_number", "extrinsic_index"}, {"block_index"}},
    Required("bigint", {"block_number"}) \cup Required("integer", {"extrinsic_index"})
      \cup Required("boolean", {"is_signed", "success"})
      \cup Optional("text", {"signer", "amount", "fee", "signer_normalized", "to_owner_normalized"})
      \cup Required("text", {"section", "method", "hash"}) \cup Optional("bigint", {"timestamp"})
      \cup Optional("varchar", {"block_index", "to_owner"}))

HarvesterError ==
  Entity("harvester_error", {{"block_number"}},
    Required("bigint", {"block_number", "timestamp"}) \cup Required("text", {"error"}))

System ==
  Entity("system", {{"block_height"}},
    Required("bigint", {"block_height", "timestamp"})
      \cup Required("text", {"chain", "node_name", "node_version"}))

Tokens ==
  Entity("tokens", {{"token_id", "collection_id"}},
    Default("bigint", {"id"}) \cup Required("integer", {"token_id"}) \cup Required("varchar", {"owner"})
      \cup Default("jsonb", {"properties", "children", "schema_v2"})
      \cup Optional("jsonb", {"attributes_v1", "image_v1", "image_details", "attributes", "media",
          "royalties", "customizing", "customizing_overrides", "animation_details"})
      \cup Optional("text", {"image", "created_at_block_hash", "updated_at_block_hash", "parent_id",
          "token_name", "name", "description", "animation_url", "youtube_url", "created_by",
          "background_color", "external_url", "locale"})
      \cup Required("bigint", {"collection_id", "total_pieces"})
      \cup Optional("bigint", {"date_of_creation", "created_at_block_number", "updated_at_block_number",
          "bundle_created"})
      \cup Required("text", {"owner_normalized"})
      \cup Default("boolean", {"is_sold", "burned", "nested"})
      \cup Default("tokens_type_enum", {"type"}))

TokensOwners ==
  Entity("tokens_owners", {},
    Default("uuid", {"id"})
      \cup Required("bigint", {"collection_id", "token_id", "amount", "block_number"})
      \cup Required("varchar", {"owner"}) \cup Required("text", {"owner_normalized"})
      \cup Optional("bigint", {"date_created"}) \cup Default("tokens_type_enum", {"type"})
      \cup Optional("text", {"parent_id"}) \cup Default("jsonb", {"children"})
      \cup Default("boolean", {"nested"}))

TokensStats ==
  Entity("tokens_stats", {{"collection_id", "token_id"}},
    Default("bigint", {"id"}) \cup Required("bigint", {"token_id", "collection_id", "transfers_count"})
      \cup Optional("bigint", {"children_count"}))

Total ==
  Entity("total", {{"name"}},
    Required("text", {"name"}) \cup Required("bigint", {"count"}))

AllEntities ==
    {Account, Attribute, Block, Chain, Collections, CollectionsStats, Contract, Event,
     EvmTransaction, Extrinsic, HarvesterError, System, Tokens, TokensOwners, TokensStats,
     Total}

(* The labels the code knows of the column "type".                         *)
TokenType == {"NFT", "RFT", "FRACTIONAL"}

(* The tables upserted and the conflict key each upsert names.             *)
Upsert(t, key) == [table |-> t, key |-> key]
Upserts ==
    {Upsert("block", {"block_number"}), Upsert("event", {"block_number", "event_index"}),
     Upsert("extrinsic", {"block_number", "extrinsic_index"}), Upsert("account", {"account_id"}),
     Upsert("collections", {"collection_id"}), Upsert("tokens_owners", {"collection_id", "token_id", "owner"}),
     Upsert("evm_transaction", {"block_hash", "transaction_hash"})}

(* A row typeorm builds for an entity is accepted by the table: every      *)
(* column exists, what may be NULL may be NULL there, and every column     *)
(* that must be given is one the entity gives.                             *)
Fits(d, e) ==
    /\ e.table \in d.tables
    /\ Names(e.columns) \subseteq NamesOf(d, e.table)
    /\ \A c \in e.columns, x \in ColumnsOf(d, e.table) :
          c.column = x.column /\ c.need = "optional" => x.need = "optional"
    /\ \A x \in ColumnsOf(d, e.table) :
          x.need = "required" => \E c \in e.columns : c.column = x.column /\ c.need = "required"
    /\ \A key \in e.unique : HasUnique(d, e.table, key)
=============================================================================
