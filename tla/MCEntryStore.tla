---------------------------- MODULE MCEntryStore ----------------------------
(* EntryStore with symmetric ids, servers, sources and contents.      *)
EXTENDS EntryStore, TLC

Symmetry ==
    Permutations(Ids) \cup Permutations(Servers)
        \cup Permutations(Values) \cup Permutations(Sources)
=============================================================================
