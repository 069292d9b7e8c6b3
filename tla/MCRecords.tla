----------------------------- MODULE MCRecords -----------------------------
(* Model checking Records: the schemas and slots, and the symmetric sets.    *)
EXTENDS Records, TLC

CONSTANTS i1, i2, i3, m1, m2, s1, s2, pk, pf, pv, pw, c1, c2

\* Two families and versions that compose to one logical key, which splits into
\* the first of them, and another version.
MCPins == {<<<<pf, pv>>, <<pw>>>>, <<<<pf>>, <<pv, pw>>>>, <<<<pf>>, <<pv>>>>}

MCKeys == {<<pk>>, <<pf, pv, pw>>, <<pf, pv>>}

\* One key in the caller's namespace and, with another body, under _system, and
\* the other version under _system.
MCSchemas ==
  {[owner |-> Caller, source |-> s1, pin |-> <<<<pf>>, <<pv, pw>>>>, body |-> {c1}],
   [owner |-> System, source |-> s1, pin |-> <<<<pf, pv>>, <<pw>>>>, body |-> {c2}],
   [owner |-> System, source |-> s1, pin |-> <<<<pf>>, <<pv>>>>, body |-> {c2}]}

MCSlots == {<<s1, <<pk>>>>}

Symmetry == Permutations(Ids) \cup Permutations(Servers)
=============================================================================
