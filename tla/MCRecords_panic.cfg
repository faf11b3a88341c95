CONSTANTS
  Workers = {w1, w2}
  Calls <- MCCalls
  Boots <- MCBoots
  Legacy <- MCLegacy
  All = All
  Nil = Nil
  KeepDays = 2
  Capacity = 2
  MaxDay = 3
  MaxCalls = 3
  MaxFaults = 1
  a1 = a1
  a2 = a2
  k1 = k1
  m1 = m1
  m2 = m2
SYMMETRY MCSymmetry
CHECK_DEADLOCK FALSE
SPECIFICATION RecSpec
INVARIANT OfferedScopesAnswered
