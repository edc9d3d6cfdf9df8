SPECIFICATION Spec
CONSTANTS
  Keys = {1, 2, 3}
  Gaps = {1, 2}
  Transactions <- MCTransactions
  MaxRegistered = 2
  MaxPresses = 4
  NULL = NULL
INVARIANTS TypeOK CalledAsPressed PressedIsCalled
CHECK_DEADLOCK FALSE
