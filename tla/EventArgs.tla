------------------------------- MODULE EventArgs -------------------------------
(***************************************************************************)
(* EventArgumentsService: what the crawler reads out of the arguments of   *)
(* an event (crawler/src/services/event/event.arguments.service.ts).       *)
(*                                                                         *)
(* An event is its name and the accounts among its arguments, by position  *)
(* (from zero, as in the source).  The table EVENT_ARGS_PARSER gives the   *)
(* keys of the values; the number of a key is its position everywhere, so  *)
(* that a descriptor holds the keys in a sequence.                         *)
(***************************************************************************)
EXTENDS Integers, Sequences, FiniteSets

NoOwner == -1

(* What the chain sends with an event: not part of the repository.         *)
Arguments(n) ==
    CASE n \in {"Common.Transfer", "Common.Approved"} ->
           <<"collection", "token", "account", "account", "amount">>
      [] n \in {"Common.ItemCreated", "Common.ItemDestroyed"} -> <<"collection", "token", "account", "amount">>
      [] n \in {"Common.CollectionCreated"} -> <<"collection", "mode", "account">>
      [] n \in {"Common.TokenPropertySet", "Common.TokenPropertyDeleted"} ->
           <<"collection", "token", "property">>
      [] n \in {"Common.CollectionPropertySet", "Common.CollectionPropertyDeleted",
                "Common.PropertyPermissionSet"} -> <<"collection", "property">>
      [] n \in {"Common.CollectionDestroyed", "Common.CollectionLimitSet",
                "Common.CollectionPermissionSet", "Common.CollectionSponsorRemoved",
                "Unique.CollectionLimitSet", "Unique.CollectionPermissionSet",
                "Unique.CollectionSponsorRemoved", "Unique.SchemaVersionSet"} -> <<"collection">>
      [] n \in {"Common.AllowListAddressAdded", "Common.AllowListAddressRemoved",
                "Common.CollectionAdminAdded", "Common.CollectionAdminRemoved",
                "Common.CollectionOwnerChanged", "Common.CollectionSponsorSet",
                "Common.SponsorshipConfirmed", "Unique.AllowListAddressAdded",
                "Unique.AllowListAddressRemoved", "Unique.CollectionAdminAdded",
                "Unique.CollectionAdminRemoved", "Unique.CollectionOwnedChanged",
                "Unique.CollectionSponsorSet", "Unique.SponsorshipConfirmed"} -> <<"collection", "account">>
      [] n \in {"Balances.BalanceSet"} -> <<"account", "amount", "amount">>
      [] n \in {"Balances.Deposit", "Balances.DustLost", "Balances.Endowed", "Balances.Reserved",
                "Balances.Slashed", "Balances.Unreserved", "Balances.Withdraw"} -> <<"account", "amount">>
      [] n \in {"Balances.Transfer"} -> <<"account", "account", "amount">>
      [] n \in {"Balances.ReserveRepatriated"} -> <<"account", "account", "amount", "status">>
      [] n \in {"System.NewAccount"} -> <<"account">>
      [] n \in {"Treasury.Deposit"} -> <<"amount">>
      [] OTHER -> <<>>

Descriptor(keys, parser, owner) == [keys |-> keys, parser |-> parser, owner |-> owner]
NoDescriptor == Descriptor(<<>>, "none", NoOwner)

CommonEvents ==
    {"Common.Approved", "Common.Transfer", "Common.ItemCreated", "Common.ItemDestroyed",
     "Common.CollectionCreated", "Common.TokenPropertySet", "Common.TokenPropertyDeleted",
     "Common.CollectionDestroyed", "Common.CollectionPropertySet", "Common.CollectionPropertyDeleted",
     "Common.PropertyPermissionSet"}

CommonArgs(n) ==
    CASE n \in {"Common.Approved"} ->
           Descriptor(<<"collectionId", "tokenId", "sender", "spender", "success">>, "common", 2)
      [] n \in {"Common.Transfer"} ->
           Descriptor(<<"collectionId", "tokenId", "from", "to", "amount">>, "common", 2)
      [] n \in {"Common.ItemCreated"} ->
           Descriptor(<<"collectionId", "tokenId", "account", "amount">>, "common", 2)
      [] n \in {"Common.ItemDestroyed"} -> Descriptor(<<"collectionId", "tokenId", "account">>, "common", 2)
      [] n \in {"Common.CollectionCreated"} ->
           Descriptor(<<"collectionId", "tokenId", "account">>, "collection", 2)
      [] n \in {"Common.TokenPropertySet", "Common.TokenPropertyDeleted"} ->
           Descriptor(<<"collectionId", "tokenId">>, "collection", NoOwner)
      [] n \in {"Common.CollectionDestroyed", "Common.CollectionPropertySet",
                "Common.CollectionPropertyDeleted", "Common.PropertyPermissionSet"} ->
           Descriptor(<<"collectionId">>, "collection", NoOwner)
      [] OTHER -> NoDescriptor

BalancesEvents ==
    {"Balances.BalanceSet", "Balances.Deposit", "Balances.Reserved", "Balances.Unreserved",
     "Balances.Withdraw", "System.NewAccount", "Balances.DustLost", "Balances.Slashed",
     "Balances.Endowed", "Balances.ReserveRepatriated", "Balances.Transfer", "Treasury.Deposit"}

BalancesArgs(n) ==
    CASE n \in {"Balances.BalanceSet", "Balances.Deposit", "Balances.Reserved", "Balances.Unreserved",
                "Balances.Withdraw"} -> Descriptor(<<"who", "amount">>, "balances", 0)
      [] n \in {"System.NewAccount", "Balances.DustLost", "Balances.Slashed"} ->
           Descriptor(<<"account">>, "balances", 0)
      [] n \in {"Balances.Endowed"} -> Descriptor(<<"account", "freeBalance">>, "balances", 0)
      [] n \in {"Balances.ReserveRepatriated"} -> Descriptor(<<"from", "to">>, "balances", 0)
      [] n \in {"Balances.Transfer"} -> Descriptor(<<"from", "to", "amount">>, "transfer", 0)
      [] n \in {"Treasury.Deposit"} -> Descriptor(<<"amount">>, "treasure", NoOwner)
      [] OTHER -> NoDescriptor

(* All of these go through parserCollection, which ignores the owner.      *)
CollectionEvents ==
    {"Common.AllowListAddressAdded", "Common.AllowListAddressRemoved", "Common.CollectionAdminAdded",
     "Common.CollectionAdminRemoved", "Common.CollectionOwnerChanged", "Common.CollectionSponsorSet",
     "Common.SponsorshipConfirmed", "Unique.AllowListAddressAdded", "Unique.CollectionAdminAdded",
     "Unique.CollectionAdminRemoved", "Unique.CollectionOwnedChanged", "Unique.CollectionSponsorSet",
     "Unique.SponsorshipConfirmed", "Unique.AllowListAddressRemoved", "Common.CollectionLimitSet",
     "Common.CollectionPermissionSet", "Common.CollectionSponsorRemoved", "Unique.CollectionLimitSet",
     "Unique.CollectionPermissionSet", "Unique.CollectionSponsorRemoved"}

CollectionArgs(n) ==
    CASE n \in {"Common.AllowListAddressAdded", "Common.AllowListAddressRemoved",
                "Common.CollectionAdminAdded", "Common.CollectionAdminRemoved",
                "Common.CollectionOwnerChanged", "Common.CollectionSponsorSet",
                "Common.SponsorshipConfirmed", "Unique.AllowListAddressAdded",
                "Unique.CollectionAdminAdded", "Unique.CollectionAdminRemoved",
                "Unique.CollectionOwnedChanged", "Unique.CollectionSponsorSet",
                "Unique.SponsorshipConfirmed"} -> Descriptor(<<"collectionId", "account">>, "collection", 1)
      [] n \in {"Unique.AllowListAddressRemoved"} ->
           Descriptor(<<"collectionId", "account">>, "collection", NoOwner)
      [] n \in {"Common.CollectionLimitSet", "Common.CollectionPermissionSet",
                "Common.CollectionSponsorRemoved", "Unique.CollectionLimitSet",
                "Unique.CollectionPermissionSet", "Unique.CollectionSponsorRemoved"} ->
           Descriptor(<<"collectionId">>, "collection", NoOwner)
      [] OTHER -> NoDescriptor

(* The events the chain sends; the last of them has no descriptor.         *)
EventNames == CommonEvents \cup BalancesEvents \cup CollectionEvents \cup {"Unique.SchemaVersionSet"}

EVENT_ARGS_PARSER ==
    [n \in CommonEvents \cup BalancesEvents \cup CollectionEvents |->
        IF n \in CommonEvents THEN CommonArgs(n)
        ELSE IF n \in BalancesEvents THEN BalancesArgs(n) ELSE CollectionArgs(n)]

Described(e) == e.name \in DOMAIN EVENT_ARGS_PARSER
DescriptorOf(e) == EVENT_ARGS_PARSER[e.name]

(* The argument at a position: an account, or else what it is.             *)
Argument(e, i) == IF i \in DOMAIN e.accounts THEN e.accounts[i] ELSE Arguments(e.name)[i + 1]

(* The position whose argument the parser takes for an amount.             *)
AmountAt == [balances |-> 1, transfer |-> 2]

(* BigInt of what is no number throws.                                     *)
Throws(e) ==
    /\ Described(e)
    /\ DescriptorOf(e).parser \in DOMAIN AmountAt
    /\ LET i == AmountAt[DescriptorOf(e).parser]
       IN i < Len(DescriptorOf(e).keys) /\ Arguments(e.name)[i + 1] # "amount"

Values(e) ==
    IF Described(e)
    THEN LET keys == DescriptorOf(e).keys
         IN [k \in {keys[i] : i \in DOMAIN keys} |-> Argument(e, (CHOOSE i \in DOMAIN keys : keys[i] = k) - 1)]
    ELSE <<>>

(* The account whose balances are updated on the side: the parsers call    *)
(* accountNormalizer for the key "owner", the last one, and nobody waits.  *)
AccountOf(e) ==
    IF /\ Described(e) /\ ~Throws(e)
       /\ DescriptorOf(e).parser \in {"common", "balances", "transfer"}
    THEN {e.accounts[DescriptorOf(e).owner]}
    ELSE {}
=============================================================================
