SPECIFICATION Spec
CONSTANTS
  Item = {i1, i2, i3}
  k1 = k1
  k2 = k2
  Key = {k1, k2}
  lower <- MCLower
  NULL = NULL
  Text = {FALSE, TRUE}
  ConstantKey = {FALSE, TRUE}
  ReferenceKeyMemory = {TRUE}
  CircularLimit = 2
  MaxCount = 2
  MaxReferences = 3
SYMMETRY MCSymmetry
INVARIANTS TypeOK ListShape Ownership NoDangling NothingLeaks
CHECK_DEADLOCK FALSE
