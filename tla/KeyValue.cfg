CONSTANTS
  n1 = n1
  n2 = n2
  n3 = n3
  v1 = v1
  v2 = v2
  Keys <- ThreeKeys
  Values <- TwoValues
  Nodes <- ThreeNodes
  Anchor = anchor
  NoLine = noline
SPECIFICATION FairSpec
CHECK_DEADLOCK FALSE
INVARIANTS
  TypeOK
  SortedRing
  NotPassed
PROPERTIES
  ImplementsSortedMap
