------------------------------ MODULE Migrations ------------------------------
(***************************************************************************)
(* The database migrations of src/migrations/ and the way they are run     *)
(* (npm run db:migration:run and db:migration:revert, package.json).       *)
(*                                                                         *)
(* A migration is a pair of statement lists, "up" and "down".  A deploy    *)
(* ships some more of them and runs all that are pending in one            *)
(* transaction; a revert undoes the last one that was run.  Between two    *)
(* deploys the crawler of that release stores rows, on which the triggers  *)
(* count.                                                                  *)
(***************************************************************************)
EXTENDS Entities, ExtrinsicRewrites

CONSTANTS
    Jumps,        \* how many migrations a deploy may ship (Len(Files) for a fresh installation)
    MaxWork       \* bound on the work between deploys, see Work

Migration(up, down) == [up |-> up, down |-> down]
Reversible(up) == Migration(up, Undo(up))

(***************************************************************************)
(* 1659413651326-init-db-schema                                            *)
(***************************************************************************)
ForeignKeys ==
    << AddKey("FK_0c30", "tokens", "collections", {"collection_id"}), AddKey("FK_99da", "collections", "collections_stats", {"collection_id"}) >>

InitialAccountAndBlock ==
    << CreateTable("account", {"account_id"},
          Required("text", {"account_id", "balances", "free_balance", "locked_balance", "account_id_normalized"})
          \cup Optional("text", {"available_balance", "nonce"}) \cup Required("bigint", {"timestamp", "block_height"})),
       CreateIndex("account_account_id_normalized_idx", "account", {"account_id_normalized"}),
       CreateUnique("account_pkey", "account", {"account_id"}),
       CreateTable("block", {"block_number"},
          Required("bigint", {"block_number", "timestamp"})
          \cup Required("text", {"block_hash", "parent_hash", "extrinsics_root", "spec_name", "total_issuance"})
          \cup Required("integer", {"spec_version", "total_events", "num_transfers", "new_accounts", "total_extrinsics"})
          \cup Optional("text", {"state_root"}) \cup Optional("bigint", {"session_length"})
          \cup Default("boolean", {"need_rescan"})),
       CreateIndex("block_need_rescan_idx", "block", {"need_rescan"}),
       CreateUnique("block_pkey", "block", {"block_number"}),
       CreateTable("chain", {"block_height"},
          Required("bigint", {"block_height", "active_accounts", "timestamp"})
          \cup Required("integer", {"session_index"}) \cup Required("text", {"total_issuance"})),
       CreateUnique("chain_pkey", "chain", {"block_height"}) >>

InitialCollectionsAndTokens ==
    << CreateTable("collections_stats", {"collection_id"},
          Required("bigint", {"collection_id", "tokens_count", "holders_count", "actions_count"})),
       CreateUnique("collections_stats_pkey", "collections_stats", {"collection_id"}),
       CreateTable("tokens", {"id"},
          Default("bigserial", {"id"}) \cup Required("integer", {"token_id"}) \cup Required("varchar", {"owner"})
          \cup Default("jsonb", {"data"}) \cup Required("bigint", {"collection_id"})
          \cup Optional("bigint", {"date_of_creation"}) \cup Required("text", {"owner_normalized"})
          \cup Optional("text", {"parent_id"})),
       CreateIndex("tokens_owner_normalized_idx", "tokens", {"owner_normalized"}),
       CreateIndex("tokens_collection_id_token_id_owner_idx", "tokens", {"collection_id", "token_id", "owner"}),
       CreateUnique("tokens_pkey", "tokens", {"id"}),
       CreateTable("collections", {"collection_id"},
          Required("bigint", {"collection_id", "token_limit"}) \cup Required("text", {"owner", "owner_normalized"})
          \cup Optional("text", {"name", "description", "offchain_schema"})
          \cup Optional("jsonb", {"const_chain_schema", "variable_on_chain_schema"})
          \cup Optional("bigint", {"limits_account_ownership", "date_of_creation"})
          \cup Optional("integer", {"limits_sponsore_data_size", "limits_sponsore_data_rate"})
          \cup Optional("boolean", {"owner_can_transfer", "owner_can_destroy", "mint_mode"})
          \cup Optional("varchar", {"sponsorship", "schema_version", "token_prefix", "mode", "collection_cover"})),
       CreateIndex("collections_owner_normalized_idx", "collections", {"owner_normalized"}),
       CreateUnique("collections_pkey", "collections", {"collection_id"}) >>

InitialEventsAndExtrinsics ==
    << CreateTable("event", {"block_number", "event_index"},
          Required("bigint", {"block_number"}) \cup Required("integer", {"event_index"})
          \cup Required("text", {"section", "method", "phase", "data"})
          \cup Optional("bigint", {"timestamp"}) \cup Optional("text", {"amount", "block_index"})),
       CreateIndex("event_section_method_phase_idx", "event", {"section", "method", "phase"}),
       CreateIndex("event_method_idx", "event", {"method"}),
       CreateIndex("event_block_index_idx", "event", {"block_index"}),
       CreateUnique("event_pkey", "event", {"block_number", "event_index"}),
       CreateTable("extrinsic", {"block_number", "extrinsic_index"},
          Required("bigint", {"block_number"}) \cup Required("integer", {"extrinsic_index"})
          \cup Required("boolean", {"is_signed", "success"}) \cup Required("text", {"section", "method", "args", "hash"})
          \cup Optional("text", {"signer", "amount", "fee", "signer_normalized", "to_owner_normalized"})
          \cup Optional("bigint", {"timestamp"}) \cup Optional("varchar", {"block_index", "to_owner"})),
       CreateIndex("extrinsic_to_owner_idx", "extrinsic", {"to_owner"}),
       CreateIndex("extrinsic_timestamp_idx", "extrinsic", {"timestamp"}),
       CreateIndex("extrinsic_signer_idx", "extrinsic", {"signer"}),
       CreateIndex("extrinsic_section_idx", "extrinsic", {"section"}),
       CreateIndex("extrinsic_method_idx", "extrinsic", {"method"}),
       CreateUnique("extrinsic_block_index_idx", "extrinsic", {"block_index"}),
       CreateUnique("extrinsic_pkey", "extrinsic", {"block_number", "extrinsic_index"}) >>

InitialService ==
    << CreateTable("harvester_error", {"block_number"},
          Required("bigint", {"block_number", "timestamp"}) \cup Required("text", {"error"})),
       CreateUnique("harvester_error_pkey", "harvester_error", {"block_number"}),
       CreateTable("system", {"block_height"},
          Required("bigint", {"block_height", "timestamp"}) \cup Required("text", {"chain", "node_name", "node_version"})),
       CreateUnique("system_pkey", "system", {"block_height"}),
       CreateTable("total", {"name"}, Required("text", {"name"}) \cup Required("bigint", {"count"})),
       CreateUnique("total_pkey", "total", {"name"}) >>

initDbSchema ==
    Reversible(InitialAccountAndBlock \o InitialCollectionsAndTokens \o InitialEventsAndExtrinsics
               \o InitialService \o ForeignKeys)

(***************************************************************************)
(* The statistics kept in the table total: 1659414459225 creates them,     *)
(* 1659610454950 creates them again with the rows of total the first one   *)
(* never inserted.                                                         *)
(***************************************************************************)
InTable(t) == {r \in Rows : TableOf[r] = t}
Inserts == {"insert", "delete"}
Changes == {"insert", "update", "delete"}

Basic(counter, t, trigger, f) == [counter |-> counter, table |-> t, trigger |-> trigger, function |-> f]
BasicTotals ==
    << Basic("blocks", "block", "blocks_total", "update_blocks_total"),
       Basic("extrinsics", "extrinsic", "extrinsic_total", "update_extrinsics_total"),
       Basic("events", "event", "events_total", "update_events_total"),
       Basic("collections", "collections", "collections_total", "update_collections_total"),
       Basic("tokens", "tokens", "tokens_total", "update_tokens_total") >>

DropTotals ==
    FlattenSeq([i \in DOMAIN BasicTotals |-> << DropTriggerIfExists(BasicTotals[i].trigger, BasicTotals[i].table) >>])
    \o << DropTriggerIfExists("transfers_total", "extrinsic"), DropTriggerIfExists("update_supply", "account") >>

StartTotals(how) ==
    FlattenSeq([i \in DOMAIN BasicTotals |->
        LET b == BasicTotals[i]
        IN << Recount(how, b.counter, InTable(b.table)),
              ReplaceFunction(b.function, Body({Counts(b.counter, InTable(b.table))})),
              CreateTrigger(b.trigger, b.table, Inserts, b.function) >>])

StopTotals ==
    FlattenSeq([i \in DOMAIN BasicTotals |->
        << DropTrigger(BasicTotals[i].trigger, BasicTotals[i].table), DropFunction(BasicTotals[i].function) >>])

(* What each version of the migrations takes for a transfer: extrinsics of *)
(* section balances (no section is stored in lower case), then of section  *)
(* Balances, then of any section, and in the end the events Transfer.      *)
TransfersOf(t, rows) ==
    << UpsertCount("transfers", rows), ReplaceFunction("update_transfers_total", Body({Counts("transfers", rows)})),
       CreateTrigger("transfers_total", t, Inserts, "update_transfers_total") >>
StopTransfers == << DropTrigger("transfers_total", "extrinsic"), DropFunction("update_transfers_total") >>

(* The supplies were the wrong way round until 1661761544305.              *)
Supply(free, locked) ==
    Body({Counts(free, {"free account"}), Counts(locked, {"locked account"}), Counts("holders", InTable("account"))})
StartSupply(how, free, locked) ==
    << Recount(how, free, {"free account"}), Recount(how, locked, {"locked account"}),
       Recount(how, "holders", InTable("account")),
       ReplaceFunction("update_account_supply", Supply(free, locked)),
       CreateTrigger("update_supply", "account", Changes, "update_account_supply") >>

totalStatsTriggers ==
    Migration(
        << DropTriggerIfExists("update_total", "total") >> \o DropTotals
            \o StartTotals("update count")
            \o << UpdateCount("transfers", {}) >> \o Tail(TransfersOf("extrinsic", {}))
            \o StartSupply("upsert positive count", "locked_supply", "circulating_supply"),
        StopTotals \o StopTransfers
            \o << DropTrigger("update_supply", "account"), DropFunction("update_account_supply0"),
                  DropTrigger("update_total", "extrinsic"), DropFunction("update_total_supply") >>)

\* Variant: the rows of total are updated, as before, and not inserted.
totalStatsNotInserted ==
    Migration(
        DropTotals \o StartTotals("update count") \o TransfersOf("extrinsic", {})
            \o StartSupply("upsert count", "locked_supply", "circulating_supply"),
        StopTotals \o StopTransfers
            \o << DropTrigger("update_supply", "account"), DropFunction("update_account_supply") >>)

totalStatsTriggersFix ==
    Migration(
        DropTotals \o StartTotals("upsert count") \o TransfersOf("extrinsic", {})
            \o StartSupply("upsert count", "locked_supply", "circulating_supply"),
        StopTotals \o StopTransfers
            \o << DropTrigger("update_supply", "account"), DropFunction("update_account_supply") >>)

collectionsStatsTriggersNewSchema ==
    Migration(<< DropTriggerIfExists("transfers_total", "extrinsic") >>
                  \o TransfersOf("extrinsic", {"Balances.transfer"}),
              StopTransfers)

fixTotalTransfersTrigger ==
    Migration(<< DropTriggerIfExists("transfers_total", "extrinsic") >>
                  \o TransfersOf("extrinsic", {"Balances.transfer", "Unique.transfer"}),
              StopTransfers)

transfersCountTrigger ==
    Migration(<< DropTriggerIfExists("transfers_total", "extrinsic") >>
                  \o TransfersOf("event", {"Balances.Transfer", "Common.Transfer"}),
              StopTransfers)

accountsTriggersFix ==
    Migration(<< DropTriggerIfExists("update_supply", "account") >>
                  \o StartSupply("upsert count", "circulating_supply", "locked_supply"),
              << DropTrigger("update_supply", "account"), DropFunction("update_account_supply") >>)

(***************************************************************************)
(* The statistics of a collection and of a token.                          *)
(***************************************************************************)
(* The events that count as actions: CollectionOwnerChanged was misspelt   *)
(* until 1670928745000.                                                    *)
MisspeltActions == {"ItemCreated"}
Actions == {"ItemCreated", "CollectionOwnerChanged"}

CollectionStats(actions) ==
    [c \in StatsCounters |->
        CASE c \in {"tokens_count", "holders_count"} -> {"token"}
          [] c = "actions_count" -> actions
          [] c = "transfers_count" -> {"Common.Transfer"}]

Trigger(n, t, events, f) == << DropTriggerIfExists(n, t), CreateTrigger(n, t, events, f) >>
HoldersTrigger(events, less) ==
    << ReplaceFunction("update_collections_stats_holders", Body({CountsLive("holders_count", {"token"}, less)})) >>
    \o Trigger("collection_holders_stats", "tokens", events, "update_collections_stats_holders")
TokensTrigger(events, less) ==
    << ReplaceFunction("update_collections_stats_tokens", Body({CountsLive("tokens_count", {"token"}, less)})) >>
    \o Trigger("collection_tokens_stats", "tokens", events, "update_collections_stats_tokens")
ActionsFunction(actions) ==
    << ReplaceFunction("update_collections_stats_actions", Body({Counts("actions_count", actions)})) >>
ActionsTrigger(actions) ==
    ActionsFunction(actions)
    \o Trigger("collection_actions_stats", "event", Inserts, "update_collections_stats_actions")
TransfersTrigger ==
    << ReplaceFunction("update_collections_stats_transfers", Body({Counts("transfers_count", {"Common.Transfer"})})) >>
    \o Trigger("collection_transfers_stats", "event", Inserts, "update_collections_stats_transfers")
TokenTransfersTrigger ==
    << ReplaceFunction("update_tokens_stats_transfers", Body({Counts("token_transfers", {"Common.Transfer"})})) >>
    \o Trigger("token_transfers_stats", "event", Inserts, "update_tokens_stats_transfers")

collectionStatsTriggers ==
    Migration(
        << DeleteStats, InsertStats(CollectionStats(MisspeltActions)) >>
            \o HoldersTrigger(Changes, {}) \o TokensTrigger(Changes, {}) \o ActionsTrigger(MisspeltActions)
            \o << ReplaceFunction("delete_collections_stats", NoBody) >>
            \o Trigger("collection_delete_stats", "collections", {"delete"}, "delete_collections_stats")
            \o TransfersTrigger,
        << DeleteStats,
           DropFunction("update_collections_stats_holders"), DropTrigger("collection_holders_stats", "tokens"),
           DropFunction("update_collections_stats_tokens"), DropTrigger("collection_tokens_stats", "tokens"),
           DropFunction("update_collections_stats_actions"), DropTrigger("collection_actions_stats", "tokens"),
           DropFunction("update_collections_stats_transfers"), DropTrigger("collection_transfers_stats", "tokens") >>)

(* Deletes the statistics of the collections and recounts those of tokens. *)
tokensStatsTriggers ==
    Migration(<< DeleteStats, InsertCount("token_transfers", {"Common.Transfer"}) >> \o TokenTransfersTrigger,
              << DropFunction("update_tokens_stats_transfers"), DropTrigger("token_transfers_stats", "event") >>)

UpdateHolders == << UpdateCount("holders_count", {"token"}) >>
DropHolders ==
    << DeleteStats, DropFunction("update_collections_stats_holders"), DropTrigger("collection_holders_stats", "tokens") >>

updateHoldersCountTrigger == Migration(UpdateHolders \o HoldersTrigger(Changes, {}), DropHolders)
fixHoldersCountTrigger    == Migration(UpdateHolders \o HoldersTrigger(Changes, {}), DropHolders)

triggersNewStructure ==
    Migration(ActionsTrigger(MisspeltActions) \o TransfersTrigger \o TokenTransfersTrigger,
              << DropFunction("update_collections_stats_actions"), DropFunction("update_collections_stats_transfers"),
                 DropFunction("update_tokens_stats_transfers"), DropTrigger("token_transfers_stats", "event") >>)

burnedCollectionsTriggers ==
    Migration(
        << ReplaceFunction("delete_collections_stats", [counts |-> {}, clears |-> {"collection"}]) >>
            \o Trigger("collection_delete_stats", "collections", {"update", "delete"}, "delete_collections_stats")
            \o << ReplaceFunction("update_collections_total",
                      Body({CountsLive("collections", {"collection"}, {"collection"})})) >>
            \o Trigger("collections_total", "collections", Changes, "update_collections_total"),
        << DropFunction("delete_collections_stats"), DropTrigger("collection_delete_stats", "collections"),
           DropFunction("update_collections_total"), DropTrigger("collections_total", "collections") >>)

InsertOrUpdate == {"insert", "update"}
burnedTokensTriggers ==
    Migration(
        << ReplaceFunction("update_tokens_total", Body({CountsLive("tokens", {"token"}, {"token"})})),
           DropTrigger("tokens_total", "tokens"),
           CreateTrigger("tokens_total", "tokens", InsertOrUpdate, "update_tokens_total") >>
            \o TokensTrigger(InsertOrUpdate, {"token"}) \o HoldersTrigger(InsertOrUpdate, {"token"}),
        << DropTrigger("tokens_total", "tokens"), DropFunction("update_tokens_total"),
           DropTriggerIfExists("collection_tokens_stats", "tokens"),
           DropFunctionIfExists("update_collections_stats_tokens"),
           DropTriggerIfExists("collection_holders_stats", "tokens"),
           DropFunctionIfExists("update_collections_stats_holders") >>)

NestedStats == Trigger("nested_token_stats", "tokens", {"update"}, "update_nested_tokens_stats")
BundleCreated ==
    Trigger("update_bundle_created_date_trigger", "tokens", {"update"}, "update_bundle_created_date_fn")
triggerChildrenCount ==
    Migration(<< ReplaceFunction("update_nested_tokens_stats", NoBody) >> \o NestedStats
                  \o << ReplaceFunction("update_bundle_created_date_fn", NoBody) >> \o BundleCreated,
              << DropTriggerIfExists("nested_token_stats", "tokens"), DropFunctionIfExists("update_nested_tokens_stats"),
                 DropTriggerIfExists("update_bundle_created_date_trigger", "tokens"),
                 DropFunctionIfExists("update_bundle_created_date_fn") >>)

triggersNewStructureFix ==
    Migration(ActionsFunction(Actions), << DropFunction("update_collections_stats_actions") >>)

\* Variant: the function is replaced and nothing is recounted.
collectionStatsNotRecounted ==
    Migration(ActionsFunction(Actions), << DeleteStats, DropFunction("update_collections_stats_actions") >>)

(* The recount takes burned tokens and burned collections in.              *)
collectionStatsTriggersFix ==
    Migration(<< DeleteStats, InsertStats(CollectionStats(Actions)) >> \o ActionsFunction(Actions),
              << DeleteStats, DropFunction("update_collections_stats_actions") >>)

(***************************************************************************)
(* Tables and columns.                                                     *)
(***************************************************************************)
Col(need, type, name) == [column |-> name, type |-> type, need |-> need]

collectionFkeyAllowNull ==
    Reversible(<< DropKey("FK_99da", "collections", "collections_stats", {"collection_id"}),
                  CreateUnique("UQ_33a1", "collections_stats", {"collection_id"}),
                  DropKey("FK_0c30", "tokens", "collections", {"collection_id"}),
                  AddKey("FK_33a1", "collections_stats", "collections", {"collection_id"}),
                  AddKey("FK_0c30", "tokens", "collections", {"collection_id"}) >>)

TokensPkey(cols) == [index |-> "tokens_pkey", table |-> "tokens", on |-> cols, unique |-> TRUE]
tokensAddConstraint ==
    Reversible(<< DropIndex(TokensPkey({"id"})), CreateUnique("tokens_pkey", "tokens", {"token_id", "collection_id"}) >>)

\* Variant: the new columns have no default.
propertiesWithoutDefault ==
    Reversible(<< AddColumns("collections", Required("jsonb", {"properties", "attributes_schema"})) >>)

collectionsPropertiesAttributesSchema ==
    Reversible(<< AddColumns("collections", Default("jsonb", {"properties", "attributes_schema"})) >>)

tokensPropertiesAttributesSchema ==
    Reversible(<< AddColumns("tokens", Default("jsonb", {"properties", "attributes"})) >>)

removeAccountBalanceField == Reversible(<< DropColumns("account", Required("text", {"balances"})) >>)

CollectionsStatsUnique ==
    [index |-> "UQ_33a1", table |-> "collections_stats", on |-> {"collection_id"}, unique |-> TRUE]
createTokensStatsCollection ==
    Reversible(<< DropKey("FK_33a1", "collections_stats", "collections", {"collection_id"}),
                  CreateTable("tokens_stats", {"id"},
                      Default("bigserial", {"id"}) \cup Required("bigint", {"token_id", "collection_id", "transfers_count"})),
                  CreateUnique("tokens_stats_pkey", "tokens_stats", {"collection_id", "token_id"}),
                  AddColumns("collections_stats", Default("bigint", {"transfers_count"})),
                  DropIndex(CollectionsStatsUnique) >>)

isSoldTokenField == Reversible(<< AddColumns("tokens", Default("boolean", {"is_sold"})) >>)

tokenDataAndImageFieldsRework ==
    Reversible(<< DropColumns("tokens", Default("jsonb", {"data"})),
                  AddColumns("tokens", Optional("jsonb", {"image"})),
                  AlterColumn("tokens", Col("default", "jsonb", "attributes"), Col("optional", "jsonb", "attributes")) >>)

removeFkBetweenTokensAndCollections == Reversible(<< DropKey("FK_0c30", "tokens", "collections", {"collection_id"}) >>)

removeExtrinsicArgsField == Reversible(<< DropColumns("extrinsic", Required("text", {"args"})) >>)

removeAccountNonce == Reversible(<< DropColumns("account", Optional("text", {"nonce"})) >>)

tokensAddTokenNameField == Reversible(<< AddColumns("tokens", Optional("text", {"token_name"})) >>)

(* Rewrite rows in chunks of fifty (ExtrinsicRewrites) and change no object *)
(* of the database; the first needs the chain.                             *)
extrinsicsAddressesEncode == Migration(<< >>, << >>)
extrinsicsFeeRecalculation == Migration(<< >>, << >>)

collectionsPropertiesPermissions ==
    Reversible(<< AddColumns("collections", Default("jsonb", {"token_property_permissions"})) >>)

wasBurnForCollectionsAndTokens ==
    Reversible(<< AddColumns("tokens", Default("boolean", {"burned"})),
                  AddColumns("collections", Default("boolean", {"burned"})) >>)

addedEventValuesField == Reversible(<< AddColumns("event", Optional("jsonb", {"values"})) >>)

NeedRescan == [index |-> "block_need_rescan_idx", table |-> "block", on |-> {"need_rescan"}, unique |-> FALSE]
removeBlockDeprecatedFields ==
    Reversible(<< DropIndex(NeedRescan), DropColumns("block", Optional("bigint", {"session_length"})),
                  DropColumns("block", Required("text", {"total_issuance"})),
                  DropColumns("block", Default("boolean", {"need_rescan"})) >>)

collectionsPermissions ==
    Reversible(<< AddColumns("collections", Optional("jsonb", {"permissions"})),
                  AddColumns("collections", Default("boolean", {"nesting_enabled"})) >>)

createContractModel ==
    Reversible(<< CreateTable("contract", {"contract_id"}, Required("text", {"contract_id", "abi"})),
                  CreateUnique("contract_pkey", "contract", {"contract_id"}) >>)

tokenTypeField ==
    Reversible(<< AddColumns("tokens", Default("jsonb", {"children"})),
                  CreateType("tokens_type_enum", {"NFT", "FRACTIONAL", "NESTED"}),
                  AddColumns("tokens", Default("tokens_type_enum", {"type"})) >>)

tokenStatsNestingChildrenCount ==
    Reversible(<< AddColumns("tokens", Optional("bigint", {"bundle_created"})),
                  AddColumns("tokens_stats", Optional("bigint", {"children_count"})) >>)

tokenParentIdIndex == Reversible(<< CreateIndex("tokens_parent_id_idx", "tokens", {"parent_id"}) >>)

eventDataChangeType ==
    Migration(<< AlterColumn("event", Col("required", "text", "data"), Col("required", "jsonb", "data")) >>,
              << Rejected >>)

createTableEvmTransactions ==
    Reversible(<< CreateTable("evm_transaction", {"block_hash", "transaction_hash"},
                      Required("text", {"to", "from", "logs_bloom", "block_hash", "transaction_hash"})
                      \cup Optional("text", {"contract_address"})
                      \cup Required("integer", {"transaction_index", "block_number", "confirmations", "status", "type"})
                      \cup Required("bigint", {"gas_used", "cumulative_gas_used", "effective_gas_price"})
                      \cup Required("boolean", {"byzantium"}) \cup Optional("bigint", {"timestamp"})),
                  CreateUnique("evm_transaction_pkey", "evm_transaction", {"transaction_hash"}) >>)

(* The column gets a new type under the old name: what the rows held is lost *)
tokenTypeFieldAdd ==
    Migration(<< AddColumns("tokens", Default("integer", {"total_pieces"})),
                 RenameType("tokens_type_enum", "_tokens_type_enum"), RenameColumn("tokens", "type", "m_type"),
                 CreateType("tokens_type_enum", {"NFT", "RFT", "FRACTIONAL", "NESTED"}),
                 AddColumns("tokens", Default("tokens_type_enum", {"type"})),
                 DropColumns("tokens", Default("_tokens_type_enum", {"m_type"})) >>,
              << DropType("tokens_type_enum"), Rejected >>)

tokenOwners ==
    Reversible(<< CreateTable("tokens_owners", {"id"},
                      Default("uuid", {"id"}) \cup Required("bigint", {"collection_id", "token_id", "amount"})
                      \cup Required("text", {"owner", "owner_normalized"}) \cup Optional("bigint", {"date_created"})) >>)

updateNested == Reversible(<< AddMissingColumns("tokens", Default("boolean", {"nested"})) >>)
updateNestedData == Migration(<< >>, << >>)
changeTypeTokens ==
    Migration(<< AlterColumn("tokens", Col("default", "integer", "total_pieces"), Col("default", "bigint", "total_pieces")) >>,
              << >>)

\* Variant: the down is left empty.
indexWithoutDown ==
    Migration(<< CreateIndex("tokens_owners_general_idx", "tokens_owners", {"collection_id", "token_id", "owner"}) >>, << >>)

addIndexTokensOwners ==
    Reversible(<< CreateIndex("tokens_owners_general_idx", "tokens_owners", {"collection_id", "token_id", "owner"}) >>)

typeTokensOwners ==
    Migration(<< AddMissingColumns("tokens_owners", Default("tokens_type_enum", {"type"})),
                 AddMissingColumns("tokens_owners", Optional("bigint", {"block_number"})) >>, << Rejected >>)

\* Variant: the index is an ordinary one.
OrdinaryOwner == << CreateIndex("tokens_owners_idx", "tokens_owners", {"token_id", "collection_id", "owner"}) >>

UniqueOwner == << CreateUnique("tokens_owners_idx", "tokens_owners", {"token_id", "collection_id", "owner"}) >>

\* Variant: the tokens are emptied with their parts.
unqindexTokens == Migration(<< Truncate("tokens"), Truncate("tokens_owners") >> \o UniqueOwner, Undo(UniqueOwner))

unqindexTokensOwners == Migration(<< Truncate("tokens_owners") >> \o UniqueOwner, Undo(UniqueOwner))

nestedRftOwners ==
    Migration(<< AddMissingColumns("tokens_owners", Optional("text", {"parent_id"})),
                 AddMissingColumns("tokens_owners", Default("boolean", {"nested"})),
                 AddMissingColumns("tokens_owners", Default("jsonb", {"children"})) >>, << Rejected >>)

indexEvents ==
    Reversible(<< CreateIndex("event_values_token_id", "event", {"values"}),
                  CreateIndex("event_values_collection_id", "event", {"values"}),
                  CreateIndex("event_values_nested_token_id", "event", {"values"}),
                  CreateIndex("event_values_nested_collection_id", "event", {"values"}) >>)

WrittenAt ==
    Optional("text", {"created_at_block_hash", "updated_at_block_hash"})
    \cup Optional("bigint", {"created_at_block_number", "updated_at_block_number"})

schemasV2 ==
    Reversible(<< CreateTable("attributes", {"id"},
                      Default("bigserial", {"id"}) \cup Required("integer", {"token_id"})
                      \cup Required("bigint", {"collection_id"}) \cup Required("text", {"trait_type"})
                      \cup Optional("text", {"display_type", "value_string"}) \cup Optional("integer", {"value_number"})),
                  AddColumns("collections", Optional("jsonb", {"schema_v2"}) \cup WrittenAt),
                  AddColumns("tokens", Optional("jsonb", {"schema_v2"})),
                  RenameColumn("tokens", "attributes", "attributes_v1"), RenameColumn("tokens", "image", "image_v1"),
                  AddColumns("tokens", Optional("text", {"image"}) \cup WrittenAt),
                  AddKey("FK_aabb", "attributes", "tokens", {"token_id", "collection_id"}), AddKey("FK_9a25", "attributes", "collections", {"collection_id"}),
                  CreateIndex("attributes_token_collection", "attributes", {"token_id", "collection_id"}) >>)

addMoreV2Fields ==
    Reversible(<< DropKey("FK_aabb", "attributes", "tokens", {"token_id", "collection_id"}), DropKey("FK_9a25", "attributes", "collections", {"collection_id"}),
                  AddColumns("collections", Optional("text", {"original_schema_version"})
                      \cup Optional("jsonb", {"default_token_image", "potential_attributes", "customizing"})),
                  AddColumns("tokens",
                      Optional("text", {"name", "description", "animation_url", "youtube_url", "created_by",
                                        "background_color", "external_url", "locale"})
                      \cup Optional("jsonb", {"image_details", "attributes", "media", "royalties", "customizing",
                                              "customizing_overrides", "animation_details"})) >>)

(***************************************************************************)
(* The migrations in the order of their files.                             *)
(***************************************************************************)
Files ==
    << initDbSchema, totalStatsTriggers, collectionFkeyAllowNull, tokensAddConstraint,
       collectionsPropertiesAttributesSchema, totalStatsTriggersFix, tokensPropertiesAttributesSchema,
       removeAccountBalanceField, createTokensStatsCollection, collectionStatsTriggers,
       isSoldTokenField, tokensStatsTriggers, tokenDataAndImageFieldsRework, removeFkBetweenTokensAndCollections,
       collectionsStatsTriggersNewSchema, removeExtrinsicArgsField, removeAccountNonce, tokensAddTokenNameField,
       fixTotalTransfersTrigger, updateHoldersCountTrigger,
       transfersCountTrigger, accountsTriggersFix, extrinsicsAddressesEncode, extrinsicsFeeRecalculation,
       collectionsPropertiesPermissions, wasBurnForCollectionsAndTokens, fixHoldersCountTrigger,
       addedEventValuesField, removeBlockDeprecatedFields, triggersNewStructure,
       collectionsPermissions, createContractModel, tokenTypeField, burnedCollectionsTriggers, burnedTokensTriggers,
       tokenStatsNestingChildrenCount, triggerChildrenCount, tokenParentIdIndex, eventDataChangeType,
       createTableEvmTransactions,
       triggersNewStructureFix, collectionStatsTriggersFix, tokenTypeFieldAdd, tokenOwners, updateNested,
       updateNestedData, changeTypeTokens, addIndexTokensOwners, typeTokensOwners, unqindexTokensOwners,
       nestedRftOwners, indexEvents, schemasV2, addMoreV2Fields >>

LastFile == Len(Files)
TotalsFix == 6
AddressesEncode == 23
FeeRecalculation == 24
BurnedCollections == 34
BurnedTokens == 35
StatsFix == 42
UniqueOwners == 50
NestedRft == 51

(* typeorm runs what is pending in the order of the last thirteen          *)
(* characters of the names: nestedrftowners16766184701113 has a digit too  *)
(* many, and comes after all others.                                       *)
TypeormOrder ==
    [i \in 1..LastFile |-> IF i < NestedRft THEN i ELSE IF i = LastFile THEN NestedRft ELSE i + 1]

RunOrder(pending) ==
    LET upTo[k \in 0..LastFile] ==
        IF k = 0 THEN <<>>
        ELSE IF TypeormOrder[k] \in pending THEN Append(upTo[k - 1], TypeormOrder[k]) ELSE upTo[k - 1]
    IN upTo[LastFile]

(***************************************************************************)
(* The state: the migrations shipped, those run (in the order in which     *)
(* they were), those ever reverted, the database, and for every row set    *)
(* burned the number of migrations run by then.                            *)
(***************************************************************************)
VARIABLES shipped, applied, reverted, db, burnedAt
vars == <<shipped, applied, reverted, db, burnedAt>>

Applied == ToSet(applied)
Pending(n) == RunOrder((1..n) \ Applied)
Up(d, order) ==
    LET after[n \in 0..Len(order)] ==
        IF n = 0 THEN d
        ELSE CHOOSE r \in {ExecAll(x, Files[order[n]].up) : x \in {after[n - 1]}} : TRUE
    IN after[Len(order)]

Init ==
    /\ shipped = 0
    /\ applied = <<>>
    /\ reverted = {}
    /\ db = EmptyDatabase
    /\ burnedAt = <<>>

(* What happens besides deploys: a revert counts for two rows.             *)
Work == Cardinality(db.rows) + 2 * Cardinality(reverted)

\* Variant: what a migration did before it failed stays.
RunToAnyway(n, chainUp) ==
    /\ db' = Up(db, Pending(n))
    /\ applied' = applied \o Pending(n)

(* Re-encoding the addresses asks the chain for its prefix first, and both *)
(* migrations that rewrite rows have to come to an end.                    *)
Ends(order, chainUp) ==
    /\ AddressesEncode \in ToSet(order) => chainUp /\ EncodingEnds
    /\ FeeRecalculation \in ToSet(order) => RecalculationEnds

(* All that is pending runs in one transaction.                            *)
RunTo(n, chainUp) ==
    LET order == Pending(n)
        d == Up(db, order)
    IN IF d.ok /\ Ends(order, chainUp)
       THEN db' = d /\ applied' = applied \o order
       ELSE UNCHANGED <<db, applied>>

Deploy(jump, chainUp) ==
    /\ shipped + jump <= LastFile
    /\ shipped' = shipped + jump
    /\ RunTo(shipped + jump, chainUp)
    /\ UNCHANGED <<reverted, burnedAt>>

Run(chainUp) ==
    /\ Pending(shipped) # <<>>
    /\ RunTo(shipped, chainUp)
    /\ UNCHANGED <<shipped, reverted, burnedAt>>

(* Undoes the last migration that was run, in one transaction.             *)
Revert ==
    /\ applied # <<>>
    /\ Work + 2 <= MaxWork
    /\ LET d == ExecAll(db, Files[applied[Len(applied)]].down)
       IN IF d.ok
          THEN /\ db' = d
               /\ applied' = Front(applied)
               /\ reverted' = reverted \cup {applied[Len(applied)]}
          ELSE UNCHANGED <<db, applied, reverted>>
    /\ UNCHANGED <<shipped, burnedAt>>

(* The crawler starts after the migrations.  A collection is stored before *)
(* what belongs to it, and nothing of it follows its end.                  *)
OfCollection == {"token", "ItemCreated", "CollectionOwnerChanged", "Common.Transfer"}
Running == Pending(shipped) = <<>> /\ shipped > 0

Store(r) ==
    /\ Running
    /\ r \notin db.rows
    /\ Work < MaxWork
    /\ TableOf[r] \in db.tables
    /\ r \in OfCollection => "collection" \in db.rows \ db.burned
    /\ db' = Insert(db, r)
    /\ UNCHANGED <<shipped, applied, reverted, burnedAt>>

Burn(r) ==
    /\ Running
    /\ r \in db.rows \ db.burned
    /\ "burned" \in NamesOf(db, TableOf[r])
    /\ r = "collection" => db.rows \cap {"token"} \subseteq db.burned
    /\ db' = SetBurned(db, r)
    /\ burnedAt' = [x \in DOMAIN burnedAt \cup {r} |-> IF x = r THEN Len(applied) ELSE burnedAt[x]]
    /\ UNCHANGED <<shipped, applied, reverted>>

Next ==
    \/ \E jump \in Jumps, up \in BOOLEAN : Deploy(jump, up)
    \/ \E up \in BOOLEAN : Run(up)
    \/ Revert
    \/ \E r \in Rows : Store(r)
    \/ \E r \in {"collection", "token"} : Burn(r)

Spec == Init /\ [][Next]_vars

(***************************************************************************)
(* Properties.                                                             *)
(***************************************************************************)
(* The catalogue is consistent: columns, indexes, keys and triggers are    *)
(* those of existing tables, and every trigger has its function.           *)
CatalogueSound ==
    /\ db.ok
    /\ \A x \in db.columns \cup db.triggers : x.table \in db.tables
    /\ \A i \in db.indexes : i.on \subseteq NamesOf(db, i.table)
    /\ \A k \in db.keys : {k.table, k.refers} \subseteq db.tables
    /\ \A tr \in db.triggers : \E f \in db.functions : f.function = tr.function

(* With the chain at hand the pending migrations can always be run, and    *)
(* come to an end, whatever was deployed, reverted and stored before:      *)
(* except that 1664975508835 cannot be run again once it was reverted.     *)
Deployable ==
    BurnedTokens \in reverted \ Applied \/ \A n \in {shipped} \cup {shipped + j : j \in Jumps} :
        n <= LastFile => Up(db, Pending(n)).ok /\ Ends(Pending(n), TRUE)

(* The downs that succeed without restoring what their up replaced.        *)
Lossy == {6, 15, 19, 22, BurnedTokens, 47}

(* The schema is the one the migrations that were run make, in the order   *)
(* they were run: a revert that succeeds takes its migration back, except  *)
(* for those listed above.                                                 *)
SchemaAfter == [n \in 0..LastFile |-> Schema(Up(EmptyDatabase, [i \in 1..n |-> i]))]
SchemaOf(order) ==
    IF order = [i \in DOMAIN order |-> i] THEN SchemaAfter[Len(order)] ELSE Schema(Up(EmptyDatabase, order))
SchemaFollowsHistory == reverted \cap Lossy = {} => Schema(db) = SchemaOf(applied)

(* Whatever way led there - all migrations at once on an empty database,   *)
(* release by release, with reverts in between - the last release has one  *)
(* schema.                                                                 *)
FinalSchema == Schema(Up(EmptyDatabase, RunOrder(1..LastFile)))
Complete == Applied = 1..LastFile
OneSchema == Complete => Schema(db) = FinalSchema

(* After every deploy and revert the catalogue is consistent and is that   *)
(* of the migrations that were run, whatever way led there.                *)
SchemaDetermined == CatalogueSound /\ SchemaFollowsHistory /\ OneSchema

(* The release this repository is at can store its entities, and every     *)
(* upsert finds the unique index its conflict key needs.                   *)
SchemaServesCode ==
    Complete =>
        /\ \A e \in AllEntities : Fits(db, e)
        /\ \A u \in Upserts : HasUnique(db, u.table, u.key)
        /\ \E x \in db.types : x.type = "tokens_type_enum" /\ TokenType \subseteq x.labels

(* The rows of total follow the rows of the tables from the sixth          *)
(* migration on, through every recount, change of definition and revert,   *)
(* except for what was burned before the triggers knew of burning.         *)
TotalCounters ==
    {"blocks", "extrinsics", "events", "collections", "tokens", "transfers", "circulating_supply", "locked_supply", "holders"}
BurnedUnseen(rows) ==
    {r \in rows \cap db.burned : burnedAt[r] < (IF r = "token" THEN BurnedTokens ELSE BurnedCollections)}
TotalsExact ==
    TotalsFix \in Applied /\ reverted \cap Lossy = {} =>
        \A tr \in db.triggers : \A e \in BodyOf(db, tr).counts :
            e.counter \in TotalCounters =>
                /\ e.counter \in DOMAIN db.count
                /\ db.count[e.counter] = Counted(db, e.rows \ ((e.less \cap db.burned) \ BurnedUnseen(e.less)))

(* Once the statistics of the collections are recounted (1670929199000)    *)
(* they follow the rows; but the recount took in what was burned before,   *)
(* and brought the statistics of burned collections back.                  *)
StatsExact ==
    StatsFix \in Applied =>
        LET kept == IF StatsCounters \subseteq DOMAIN db.count THEN db.count ELSE [c \in StatsCounters |-> 0]
            tokens == {"token"} \ {r \in db.burned : burnedAt[r] >= StatsFix}
        IN IF "collection" \in db.rows \ db.burned
           THEN /\ kept["tokens_count"] = Counted(db, tokens) /\ kept["holders_count"] = Counted(db, tokens)
                /\ kept["actions_count"] = Counted(db, Actions)
                /\ kept["transfers_count"] = Counted(db, {"Common.Transfer"})
           ELSE StatsCounters \subseteq DOMAIN db.count <=> "collection" \in db.rows /\ burnedAt["collection"] < StatsFix

(* The counters the web API serves, those of the network and those of the  *)
(* collections, are what a count of the rows gives, up to what was burned  *)
(* before the triggers and the recount knew of burning.                    *)
CountersExact == TotalsExact /\ StatsExact

(* A deploy deletes no row, but for the parts of tokens: the migration     *)
(* that makes them unique empties their table.                             *)
DeployKeepsRows ==
    [][Len(applied') > Len(applied) =>
         \/ db.rows \subseteq db'.rows
         \/ UniqueOwners \in ToSet(applied') \ Applied /\ db.rows \ InTable("tokens_owners") \subseteq db'.rows]_vars
=============================================================================
