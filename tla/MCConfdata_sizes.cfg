CONSTANTS
  plain = plain
  a_b_c = a_b_c
  wild = wild
  a_b = a_b
  a = a
  Worker = {w1}
  Pid = {1, 2}
  ResourceAmount = 3
  None = None
  Simple = {plain}
  Dotted = {a_b_c}
  TwoDots = {a_b_c}
  Section = {wild, a_b, a}
  SectionsOf <- MCSectionsOf
  Snapshots = {{}, {plain}, {a_b_c}, {plain, a_b_c}}
  Expiring = {plain}
  Cell = {1, 2, 3, 4, 5, 6, 7, 8, 9, 10}
  Absent = Absent
  Null = Null
  Empty = Empty
  Free = Free
  Value = Value
  MaxEvents = 2
  MaxKills = 1
SPECIFICATION Spec
INVARIANT UpdatingIsIdentical
CHECK_DEADLOCK FALSE
