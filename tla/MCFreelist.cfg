SPECIFICATION FairSpec
CONSTANTS
  Node = {n1, n2}
  Proc = {p1, p2}
  Master = p1
  Null = Null
  TagCount = 3
INVARIANTS
  TypeOK
  ListIsIntact
PROPERTIES
  ImplementsPool
  OnlyProgressDelays
