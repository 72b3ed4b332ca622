SPECIFICATION Spec
CONSTANTS
  Call = {c1, c2}
  Amounts = {2, 3, 5}
  Incomes = {4}
  Expiries = {0, 2}
  DustAmount = 2
  MaxTx = 4
  MaxFaults = 1
SYMMETRY Symmetry
CHECK_DEADLOCK FALSE
INVARIANTS
  TypeOK
  SoonestAreSpent
  HistoryBalances
PROPERTIES
  TransferSpec
