CONSTANTS
  Rows = 12
  MaxItems = 1
  Wallets = 1
SPECIFICATION Spec
CHECK_DEADLOCK FALSE
INVARIANT RowsExist
