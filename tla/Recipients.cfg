SPECIFICATION Spec
CONSTANTS
  Holders = {a, b}
  Names <- Transfers
  Balances <- SomeBalances
  Modes = {FALSE}
  MaxBlocks = 2
  MaxFaults = 0
CHECK_DEADLOCK FALSE
INVARIANTS RecipientsHanded
