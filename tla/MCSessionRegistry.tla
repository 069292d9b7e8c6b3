------------------------- MODULE MCSessionRegistry -------------------------
(* Model checking SessionRegistry: the symmetric constants. *)
EXTENDS SessionRegistry, TLC

Symmetry == Permutations(Nodes) \cup Permutations(Owners)
              \cup Permutations(Requests)
===========================================================================
