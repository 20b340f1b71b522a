SPECIFICATION Spec
CONSTANTS
  Item <- MCItem
  kind <- MCKind
  kids <- MCKids
  size <- MCSize
  keysize <- MCKeysize
  height <- MCHeight
  Length <- MCLength
  IntMax = 44
  DefaultSize = 8
INVARIANT OldBufferIsCopied
