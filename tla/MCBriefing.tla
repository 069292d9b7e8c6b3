----------------------------- MODULE MCBriefing -----------------------------
EXTENDS Briefing

CONSTANTS a1, p1

\* Of all sources up to critical alerts; of the source warnings, critical ones
\* breaking through.
MCSuppressionRules ==
  {[alerts |-> {a1}, own |-> FALSE, level |-> 2, override |-> TRUE],
   [alerts |-> {a1}, own |-> TRUE, level |-> 1, override |-> TRUE]}

\* A pattern over midnight, of this source or moved to another one, and one for
\* the end of the day.
MCPatternRules ==
  {[alerts |-> {a1}, window |-> <<2, 1>>], [alerts |-> {}, window |-> <<2, 1>>],
   [alerts |-> {a1}, window |-> <<1, 3>>]}
=============================================================================
