-------------------------- MODULE MCAuthentication --------------------------
(* Authentication with interchangeable threads, keys and owners.             *)
EXTENDS Authentication, TLC

Symmetry == Permutations(Slots) \cup Permutations(Keys) \cup Permutations(Owners)
=============================================================================
