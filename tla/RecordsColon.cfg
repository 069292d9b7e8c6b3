\* The guide on deleting a schema with records: violated for a version with a colon.
SPECIFICATION Spec
CONSTANTS
  i1 = i1
  i2 = i2
  i3 = i3
  m1 = m1
  m2 = m2
  s1 = s1
  s2 = s2
  pk = pk
  pf = pf
  pv = pv
  pw = pw
  c1 = c1
  c2 = c2
  Ids = {i1, i2, i3}
  Servers = {m1, m2}
  Sources = {s1, s2}
  Parts = {pk, pf, pv, pw, Empty}
  Empty = Empty
  Keys <- MCKeys
  Pins <- MCPins
  Contents = {c1, c2}
  Absent = Absent
  Caller = Caller
  System = System
  Schemas <- MCSchemas
  Slots <- MCSlots
SYMMETRY Symmetry
PROPERTY DependentsKeepSchema
CHECK_DEADLOCK FALSE
