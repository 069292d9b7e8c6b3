----------------------------- MODULE MCQueries -----------------------------
(* Queries on small sets; entry ids are interchangeable. *)
EXTENDS Queries, TLC

Symmetry == Permutations(Entries)
=============================================================================
