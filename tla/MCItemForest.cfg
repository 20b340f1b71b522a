SPECIFICATION CopySpec
CONSTANTS
  Item = {i1, i2, i3, i4}
  k1 = k1
  k2 = k2
  Key = {k1}
  lower <- MCLower
  NULL = NULL
  Text = {FALSE}
  ConstantKey = {FALSE}
  ReferenceKeyMemory = {TRUE}
  CircularLimit = 1
  MaxCount = 3
  MaxReferences = 2
SYMMETRY MCSymmetry
INVARIANTS ListShape NothingLeaks IndexIsPlace
PROPERTY ForestSpec
CHECK_DEADLOCK FALSE
