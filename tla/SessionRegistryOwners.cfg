SPECIFICATION Spec
CONSTANTS
  n1 = n1
  n2 = n2
  o1 = o1
  o2 = o2
  r1 = r1
  r2 = r2
  Nodes = {n1, n2}
  Owners = {o1, o2}
  Requests = {r1, r2}
  MaxSid = 2
  TTL = 1
  Grace = 1
  MaxPerOwner = 2
  TouchDebounce = 0
  CleanupInterval = 0
  Methods = {"initialize", "call", "badcall", "delete"}
  DbMayFail = TRUE
  None = None
SYMMETRY Symmetry
INVARIANT TypeOK
INVARIANT RedirectOwner
INVARIANT ValidatedOwner
PROPERTY ImplementsLifecycle
