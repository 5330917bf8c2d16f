SPECIFICATION Spec
CONSTANTS
  d1 = d1
  d2 = d2
  k1 = k1
  k2 = k2
  i1 = i1
  i2 = i2
  i3 = i3
  Drawables = {d1, d2}
  Nested = Nested
  Instanceables = {i1, i2, i3}
  comparator <- MCComparator
  maxInstances = 2
  Nothing = Nothing
  MaxAdded = 4
  MaxGroups = 3
INVARIANTS
  GroupShown
  DrawnAsBound
  InstancesShown
PROPERTIES
  DrawEnds
CHECK_DEADLOCK FALSE
