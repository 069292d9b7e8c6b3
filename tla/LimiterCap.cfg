SPECIFICATION Spec
CONSTANTS
  Owners = {o1, o2, o3}
  o1 = o1
  o2 = o2
  o3 = o3
  MaxConcurrent = 2
  MaxOwners = 2
  MaxServing = 5
INVARIANT TypeOK
INVARIANT Bounded
INVARIANT NeverOvercounts
INVARIANT ExactUnlessEvicted
PROPERTY AdmittedIsCounted
