----------------------------- MODULE MCReports -----------------------------
EXTENDS Reports, TLC

CONSTANTS s1, s2, a1, a2, t1, t2, t3

Symmetry ==
  Permutations({s1, s2}) \cup Permutations({a1, a2}) \cup Permutations({t1, t2, t3})
=============================================================================
