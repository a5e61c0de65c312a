SPECIFICATION Spec
CONSTANTS
  NumSwaps = 1
  NumTxs = 4
  Lightning = 10
  Margins = {0, 1}
  PrepaySat = 2
  Overpayments = {0, 1}
  Fees = {3}
  ClaimVbytes = 93
  FundingVbytes = 43
INVARIANTS RowNamesDirection
CHECK_DEADLOCK FALSE
