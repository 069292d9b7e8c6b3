SPECIFICATION Spec
CONSTANTS
  Ids = {i1, i2}
  Servers = {p1, p2}
  Deliver = {0, 2}
  Urgencies = {1, 2}
  States = {"pending", "fired", "cancelled"}
  MaxListed = 1
  MaxTime = 2
  MaxFailures = 1
  None = None
PROPERTY BriefingSurfacesDue
PROPERTY FiresPending
PROPERTY DueIsFired
