--------------------------- MODULE MCUserLinking ---------------------------
(* UserLinking with two identities: the tokens of one may name the owner by  *)
(* its own claim, by the claim of the other or by the id of an account.      *)
EXTENDS UserLinking, TLC

CONSTANTS x1, x2, c1, c2, alice

MCIdentities == {x1, x2}
MCClaimsOf == (x1 :> {c1}) @@ (x2 :> {c1, c2, alice})
MCAccountClaims == (x1 :> {c1}) @@ (x2 :> {alice})

Symmetry == Permutations(Emails) \cup Permutations(Logins)
===========================================================================
