------------------------------ MODULE Briefing ------------------------------
(***************************************************************************)
(* How a briefing filters the alerts of a source through suppressions and  *)
(* patterns (collator.generate_briefing, first part), while other servers  *)
(* write.                                                                  *)
(*                                                                         *)
(* The briefing makes five reads, each in a transaction of its own, and    *)
(* evaluates what it read.  What the tools write appears at once, between  *)
(* two reads; briefings write nothing here, so one of them is enough.      *)
(* Of an alert there is one entry (Reports).  The status of the source may *)
(* be replaced, deleted or run out between any two reads, so what is read  *)
(* of it is left open.                                                     *)
(***************************************************************************)
EXTENDS Integers

CONSTANTS AlertIds,          \* alert_ids of the source
          Levels,            \* severity_rank of the levels used: info, warning, critical
          Patterns,          \* ids of patterns
          MaxSuppressions,   \* bound: how many suppressions are written
          SuppressionRules,  \* the suppressions that are used
          PatternRules,      \* the patterns that are used
          Hours,             \* hours of a day
          NoEntry            \* no row

Suppressions == 1..MaxSuppressions   \* ids, in the order of creation

\* alerts: those whose metric and tags match; own: written for the source, not
\* for all ("").
SuppressionRule == [alerts : SUBSET AlertIds, own : BOOLEAN, level : Levels, override : BOOLEAN]

\* alerts: those whose words match the effect; window: the hour_range, or <<>>
\* if there are no conditions.
PatternRule == [alerts : SUBSET AlertIds, window : {<<>>} \cup (0..Hours) \X (0..Hours)]

ASSUME ParametersAssumption ==
  /\ Levels \subseteq 0..2
  /\ MaxSuppressions \in Nat /\ Hours \in Nat \ {0}
  /\ SuppressionRules \subseteq SuppressionRule /\ PatternRules \subseteq PatternRule
  /\ AlertIds \cap Suppressions = {} /\ AlertIds \cap Patterns = {}
  /\ Suppressions \cap Patterns = {}

EntryIds == AlertIds \cup Suppressions \cup Patterns

AlertEntry == [level : Levels, resolved : BOOLEAN, trashed : BOOLEAN]
SuppressionEntry == [rule : SuppressionRules, expired : BOOLEAN, trashed : BOOLEAN]
PatternEntry == [rule : PatternRules, trashed : BOOLEAN]

ASSUME NoEntryAssumption == NoEntry \notin AlertEntry \cup SuppressionEntry \cup PatternEntry

VARIABLES entries,   \* the entries of alerts, suppressions and patterns
          hour,      \* the hour of the day
          briefing   \* the briefing under way

bvars == <<entries, hour, briefing>>

\* alerts, noise, rules: what was read so far of alerts, suppressions and
\* patterns; written, history: what was written since the briefing began.
NoBriefing == [at |-> "none"]
BriefingState == {NoBriefing}
        \cup [at : {"alerts", "suppressions", "patterns", "answer"},
              alerts : SUBSET [id : AlertIds, level : Levels],
              noise : SUBSET Suppressions, rules : SUBSET PatternRules,
              written : SUBSET EntryIds]

\* Every variable stays in its type.
BTypeOK ==
  /\ entries \in [EntryIds -> AlertEntry \cup SuppressionEntry \cup PatternEntry \cup {NoEntry}]
  /\ \A i \in AlertIds : entries[i] \in AlertEntry \cup {NoEntry}
  /\ \A i \in Suppressions : entries[i] \in SuppressionEntry \cup {NoEntry}
  /\ \A i \in Patterns : entries[i] \in PatternEntry \cup {NoEntry}
  /\ hour \in 0..Hours - 1
  /\ briefing \in BriefingState

BInit ==
  /\ entries = [i \in EntryIds |-> NoEntry]
  /\ hour = 0
  /\ briefing = NoBriefing

Live(i) == entries[i] # NoEntry /\ ~entries[i].trashed

---------------------------------------------------------------------------
(* What the tools of other servers write meanwhile. *)

\* Row i is now row.
Write(i, row) ==
  /\ entries' = [entries EXCEPT ![i] = row]
  /\ briefing' = IF briefing = NoBriefing THEN briefing
                 ELSE [briefing EXCEPT !.written = @ \cup {i}]
  /\ UNCHANGED hour

\* report_alert; an entry in the trash is left there, and forgotten here.
AlertReported(a) ==
  \E l \in Levels, r \in BOOLEAN :
     Write(a, [level |-> l, resolved |-> r, trashed |-> FALSE])

\* suppress_alert
Suppress(i) ==
  /\ entries[i] = NoEntry
  /\ \A j \in 1..i - 1 : entries[j] # NoEntry
  /\ \E r \in SuppressionRules :
       Write(i, [rule |-> r, expired |-> FALSE, trashed |-> FALSE])

\* learn_pattern
LearnPattern(i) ==
  /\ entries[i] = NoEntry
  /\ \E r \in PatternRules : Write(i, [rule |-> r, trashed |-> FALSE])

\* update_entry may give a pattern another source; its conditions stay.
MovePattern(i) ==
  /\ Live(i)
  /\ \E r \in PatternRules :
       /\ r.window = entries[i].rule.window
       /\ Write(i, [entries[i] EXCEPT !.rule = r])

\* delete_entry
DeleteEntry(i) == Live(i) /\ Write(i, [entries[i] EXCEPT !.trashed = TRUE])

\* restore_entry; a suppression has the expiry it had.
RestoreEntry(i) ==
  /\ entries[i] # NoEntry /\ entries[i].trashed
  /\ Write(i, [entries[i] EXCEPT !.trashed = FALSE])

\* A suppression's expires has come.
Expire(i) ==
  /\ entries[i] # NoEntry /\ ~entries[i].expired
  /\ entries' = [entries EXCEPT ![i].expired = TRUE]
  /\ UNCHANGED <<hour, briefing>>

NextHour ==
  /\ hour' = (hour + 1) % Hours
  /\ UNCHANGED <<entries, briefing>>

---------------------------------------------------------------------------
(* generate_briefing. *)

\* get_all_statuses
ReadStatuses ==
  /\ briefing = NoBriefing
  /\ briefing' = [at |-> "alerts", alerts |-> {}, noise |-> {}, rules |-> {},
                  written |-> {}]
  /\ UNCHANGED <<entries, hour>>

\* get_all_active_alerts
ReadAlerts ==
  /\ briefing.at = "alerts"
  /\ LET open == {i \in AlertIds : Live(i) /\ ~entries[i].resolved}
     IN  briefing' = [briefing EXCEPT !.at = "suppressions",
                        !.alerts = {[id |-> i, level |-> entries[i].level] : i \in open}]
  /\ UNCHANGED <<entries, hour>>

\* get_all_active_suppressions
ReadSuppressions ==
  /\ briefing.at = "suppressions"
  /\ briefing' = [briefing EXCEPT !.at = "patterns",
                    !.noise = {i \in Suppressions : Live(i) /\ ~entries[i].expired}]
  /\ UNCHANGED <<entries, hour>>

\* get_all_patterns
ReadPatterns ==
  /\ briefing.at = "patterns"
  /\ briefing' = [briefing EXCEPT !.at = "answer",
                    !.rules = {entries[i].rule : i \in {j \in Patterns : Live(j)}}]
  /\ UNCHANGED <<entries, hour>>

\* Suppression i matches the alert a and has not expired.
Matches(i, a) == ~entries[i].expired /\ a.id \in entries[i].rule.alerts

\* The alert a is too severe for the suppression i.
Escalated(i, a) == entries[i].rule.override /\ a.level > entries[i].rule.level

\* is_suppressed tries the source's own suppressions before the global ones,
\* and the latest first.
Before(i, j) ==
  LET own(k) == entries[k].rule.own
  IN  (own(i) /\ ~own(j)) \/ (own(i) = own(j) /\ i > j)

\* Mistake: escalation is forgotten.
SuppressedAlways(a, S) == \E i \in S : Matches(i, a)

\* is_suppressed: the first suppression of S that matches decides.
Suppressed(a, S) ==
  \E i \in S : /\ Matches(i, a) /\ ~Escalated(i, a)
               /\ \A j \in S \ {i} : Matches(j, a) => Before(i, j)

\* Mistake: a window over midnight is never open.
OpenNoWrap(w) == w = <<>> \/ (w[1] <= hour /\ hour < w[2])

\* _conditions_match, hour_range; it may pass midnight.
Open(w) ==
  \/ w = <<>>
  \/ IF w[1] > w[2] THEN hour >= w[1] \/ hour < w[2] ELSE w[1] <= hour /\ hour < w[2]

\* matches_pattern
Expected(a, rules) == \E r \in rules : a.id \in r.alerts /\ Open(r.window)

\* The alerts a briefing has read and surfaces.
Surfaced ==
  {a \in briefing.alerts : ~Suppressed(a, briefing.noise) /\ ~Expected(a, briefing.rules)}

\* get_sources lists the source and its status is not stale: the briefing
\* answers with the alerts Surfaced.
Answer ==
  /\ briefing.at = "answer"
  /\ briefing' = NoBriefing
  /\ UNCHANGED <<entries, hour>>

\* The source has no status or a stale one, or one of the reads fails.
PassOver ==
  /\ briefing # NoBriefing
  /\ briefing' = NoBriefing
  /\ UNCHANGED <<entries, hour>>

BNext ==
  \/ NextHour
  \/ \E a \in AlertIds : AlertReported(a)
  \/ \E i \in Suppressions : Suppress(i) \/ Expire(i)
  \/ \E i \in Patterns : LearnPattern(i) \/ MovePattern(i)
  \/ \E i \in EntryIds : DeleteEntry(i) \/ RestoreEntry(i)
  \/ ReadStatuses \/ ReadAlerts \/ ReadSuppressions \/ ReadPatterns
  \/ Answer \/ PassOver

BSpec == BInit /\ [][BNext]_bvars

---------------------------------------------------------------------------
(* Properties. *)

\* The hours of a window by counting on from its first hour.
Within(w) ==
  \/ w = <<>>
  \/ (hour - w[1]) % Hours < (IF w[2] < w[1] THEN w[2] + Hours ELSE w[2]) - w[1]

\* Row i was active during all of the briefing, or during some of it.
Throughout(i) == Live(i) /\ i \notin briefing.written
Sometime(i) == entries[i] # NoEntry /\ (Live(i) \/ i \in briefing.written)

\* An alert that was open during all of a briefing that evaluates the source is
\* surfaced, unless there was a reason to hide it: a suppression of at least
\* its level or without override, a pattern for the hour, or a pattern written
\* meanwhile ("Critical alerts break through warning-level suppressions").
HiddenForAReason ==
  [][Answer =>
       \A i \in AlertIds :
         (/\ Throughout(i) /\ ~entries[i].resolved
          /\ \A a \in Surfaced : a.id # i)
         => \/ \E j \in Suppressions :
                 /\ Sometime(j) /\ ~entries[j].expired /\ i \in entries[j].rule.alerts
                 /\ entries[i].level <= entries[j].rule.level \/ ~entries[j].rule.override
            \/ \E j \in Patterns :
                 \/ j \in briefing.written
                 \/ /\ Live(j) /\ i \in entries[j].rule.alerts
                    /\ Within(entries[j].rule.window)]_bvars

\* What a briefing surfaces is not expected by any pattern, and if a
\* suppression matches it, it breaks through one of them; what was written
\* during the briefing may or may not count.
NoiseIsFiltered ==
  [][Answer =>
       \A a \in Surfaced :
         /\ \A j \in Patterns :
              (Throughout(j) /\ a.id \in entries[j].rule.alerts) => ~Within(entries[j].rule.window)
         /\ \A j \in Suppressions :
              (Throughout(j) /\ Matches(j, a))
              => \E i \in Suppressions : Sometime(i) /\ Matches(i, a) /\ Escalated(i, a)]_bvars
===========================================================================
