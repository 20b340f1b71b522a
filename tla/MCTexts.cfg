SPECIFICATION TextsSpec
CONSTANTS
  Text <- MCText
  Values <- MCValues
  Cuts <- MCCuts
  MaxPieces = 3
INVARIANTS
  InPlace
  OutputFits
  StringsDecode
  PrintedComesBack
  MinifyKeeps
PROPERTY Returns
CHECK_DEADLOCK FALSE
