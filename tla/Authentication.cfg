SPECIFICATION ASpec
CONSTANTS
  Owners = {o1, o2}
  o1 = o1
  o2 = o2
  MaxConcurrent = 2
  MaxOwners = 1
  MaxServing = 3
  Slots = {s1, s2}
  s1 = s1
  s2 = s2
  Keys = {k1, k2}
  k1 = k1
  k2 = k2
  TTL = 1
  JwtSecret = TRUE
SYMMETRY Symmetry
INVARIANT ATypeOK
INVARIANT NeverOvercounts
INVARIANT ExactUnlessEvicted
INVARIANT WithdrawnKeysExpire
INVARIANT GoodTokensPass
