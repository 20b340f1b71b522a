SPECIFICATION TextsSpec
CONSTANTS
  Text <- MCPathText
  Values <- MCValues
  Cuts <- MCCuts
  MaxPieces = 2
INVARIANT ModifiesNoString
CHECK_DEADLOCK FALSE
