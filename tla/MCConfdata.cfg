CONSTANTS
  plain = plain
  a_b_c = a_b_c
  wild = wild
  a_b = a_b
  a = a
  Worker = {w1}
  Pid = {1, 2}
  ResourceAmount = 3
  None = None
  Simple = {plain}
  Dotted = {a_b_c}
  TwoDots = {a_b_c}
  Section = {wild, a_b, a}
  SectionsOf <- MCSectionsOf
  Snapshots = {{plain, a_b_c}}
  Expiring = {plain}
  Cell = {1, 2, 3, 4, 5, 6, 7, 8, 9, 10, 11, 12, 13, 14}
  Absent = Absent
  Null = Null
  Empty = Empty
  Free = Free
  Value = Value
  MaxEvents = 3
  MaxKills = 1
SPECIFICATION FairSpec
INVARIANTS TypeOK ResourceInUseIsKept MapsInUseAreWhole GarbageIsComplete CopiesAreConsistent
CHECK_DEADLOCK FALSE
PROPERTIES ScriptsReadOneMap UpdatesArePublished
