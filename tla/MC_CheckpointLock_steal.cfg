SPECIFICATION Spec
CONSTANTS
  a = a
  b = b
  c = c
  Nobody = Nobody
  Proc <- Three
  Mortal <- OnlyA
  Slow <- Three
  HoldAtMost = 1
  Updates = 1
  MaxTries = 6
  StaleAfter = 2
INVARIANT MutualExclusion
CHECK_DEADLOCK FALSE
