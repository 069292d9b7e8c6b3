SPECIFICATION Spec
CONSTANTS
  s1 = s1
  s2 = s2
  a1 = a1
  a2 = a2
  t1 = t1
  t2 = t2
  t3 = t3
  Servers = {s1, s2}
  Keys = {"k1", "k2"}
  Alerts = {a1, a2}
  Statuses = {t1, t2, t3}
  None = None
SYMMETRY Symmetry
INVARIANT SourceStaysListed
INVARIANT OneEntryPerAlert
INVARIANT ResolvedStaysResolved
