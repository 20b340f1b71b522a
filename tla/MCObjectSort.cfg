SPECIFICATION Spec
CONSTANTS
  o = o
  m1 = m1
  m2 = m2
  m3 = m3
  m4 = m4
  low_a = low_a
  high_a = high_a
  low_b = low_b
  high_c = high_c
  low_c = low_c
  Item = {o, m1, m2, m3, m4}
  Key = {low_a, high_a, low_b, high_c, low_c}
  lower <- MCLower
  rank <- MCRank
  object = o
  members <- MCMembers
  NULL = NULL
INVARIANTS Ordered LinkedFromSecond
PROPERTIES KeepsMembers
