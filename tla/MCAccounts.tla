------------------------------ MODULE MCAccounts ------------------------------
(* Instances of Accounts: two accounts, any described event, balances that *)
(* are whole, a fraction, or none.                                         *)
EXTENDS Accounts

AnyThenTransfer == <<EventNames, {"Balances.Transfer"}>>
Transfers == <<{"Balances.Transfer", "Common.Transfer"}, {"System.NewAccount"}>>
SomeBalances == {Zero, [available |-> 1, locked |-> 0], [available |-> 2, locked |-> 2]}
=============================================================================
