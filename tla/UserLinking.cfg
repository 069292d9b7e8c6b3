SPECIFICATION ULSpec
CONSTANTS
  x1 = x1
  x2 = x2
  c1 = c1
  c2 = c2
  Identities <- MCIdentities
  alice = alice
  ClaimsOf <- MCClaimsOf
  Accounts = {alice}
  Emails = {e1, e2}
  None = None
  Logins = {l1, l2}
  AutoProvision = TRUE
SYMMETRY Symmetry
INVARIANT LinkedLoginsResolve
INVARIANT OwnersDistinct
PROPERTY LinksAreFinal
