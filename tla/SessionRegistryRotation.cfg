SPECIFICATION Spec
CONSTANTS
  n1 = n1
  n2 = n2
  o1 = o1
  r1 = r1
  r2 = r2
  Nodes = {n1, n2}
  Owners = {o1}
  Requests = {r1, r2}
  MaxSid = 3
  TTL = 2
  Grace = 1
  MaxPerOwner = 2
  TouchDebounce = 1
  CleanupInterval = 0
  Methods = {"initialize", "call"}
  DbMayFail = FALSE
  None = None
SYMMETRY Symmetry
INVARIANTS ChainIntact DebounceCoversTTL
