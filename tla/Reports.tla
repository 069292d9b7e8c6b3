------------------------------ MODULE Reports ------------------------------
(***************************************************************************)
(* What edge processes report about a source: its status (report_status)   *)
(* and its alerts (report_alert), on several servers sharing the entries   *)
(* table.                                                                  *)
(*                                                                         *)
(* A server runs one tool call at a time.  report_status deletes and       *)
(* inserts in one transaction; report_alert selects FOR UPDATE and writes  *)
(* in one transaction under an advisory lock.  A statement sees what was   *)
(* committed when it began (READ COMMITTED), and waits for the rows that   *)
(* others have locked; writes appear at the commit.                        *)
(***************************************************************************)
EXTENDS FiniteSets

CONSTANTS Servers,   \* server processes
          Keys,      \* alert_ids of the source
          Alerts,    \* ids of the entries of alerts
          Statuses,  \* ids of the entries of the status
          None       \* no entry

Ids == Statuses \cup Alerts

StatusRow == [trashed : BOOLEAN]
AlertRow == [key : Keys, resolved : BOOLEAN, trashed : BOOLEAN]

ASSUME IdsAssumption == Statuses \cap Alerts = {} /\ None \notin Ids
ASSUME NoneAssumption == None \notin StatusRow \cup AlertRow

VARIABLES rows,      \* the entries table
          call,      \* per server, the tool call it is in
          reported,  \* history: a status was reported and none trashed since
          quiet,     \* history: alerts last reported as resolved, never restored
          restored   \* history: alerts of which an entry was restored

history == <<reported, quiet, restored>>
vars == <<rows, call, history>>

Idle == [at |-> "idle"]

\* report: the DELETE knows the rows it wants; replace: it has locked and
\* deleted them; alert: an upsert has its row, or will insert one.
Call == {Idle}
        \cup [at : {"report"}, seen : SUBSET Statuses]
        \cup [at : {"replace"}, locked : SUBSET Statuses]
        \cup [at : {"alert"}, key : Keys, row : Alerts \cup {None}, resolved : BOOLEAN,
              locked : SUBSET Alerts]

\* Every variable stays in its type.
TypeOK ==
  /\ rows \in [Ids -> StatusRow \cup AlertRow \cup {None}]
  /\ \A i \in Statuses : rows[i] \in StatusRow \cup {None}
  /\ \A i \in Alerts : rows[i] \in AlertRow \cup {None}
  /\ call \in [Servers -> Call]
  /\ reported \in BOOLEAN
  /\ quiet \subseteq Keys /\ restored \subseteq Keys

Init ==
  /\ rows = [i \in Ids |-> None]
  /\ call = [s \in Servers |-> Idle]
  /\ reported = FALSE /\ quiet = {} /\ restored = {}

Active(i) == rows[i] # None /\ ~rows[i].trashed

\* The rows locked by a transaction under way.
Locked(c) == IF c.at \in {"replace", "alert"} THEN c.locked ELSE {}

Unlocked(S) == \A s \in Servers : Locked(call[s]) \cap S = {}

Ready(s) == call[s] = Idle

\* Rows that are deleted are no longer there for a DELETE that waits.
Miss(c, gone) == IF c.at = "report" THEN [c EXCEPT !.seen = @ \ gone] ELSE c

\* Server s goes on as c, having deleted the rows gone.
GoOn(s, c, gone) ==
  call' = [t \in Servers |-> IF t = s THEN c ELSE Miss(call[t], gone)]

---------------------------------------------------------------------------
(* report_status: upsert_status. *)

ReportStatus(s) ==
  /\ Ready(s)
  /\ GoOn(s, [at |-> "report", seen |-> {i \in Statuses : Active(i)}], {})
  /\ UNCHANGED <<rows, history>>

\* Mistake: the rows are deleted in a transaction of their own.
ReportDeleteCommits(s) ==
  /\ call[s].at = "report"
  /\ Unlocked(call[s].seen)
  /\ rows' = [i \in Ids |-> IF i \in call[s].seen /\ Active(i) THEN None ELSE rows[i]]
  /\ GoOn(s, [at |-> "replace", locked |-> {}], call[s].seen)
  /\ UNCHANGED history

\* DELETE: rows locked by others are waited for, and left alone if they are
\* gone or trashed by then.
ReportDelete(s) ==
  /\ call[s].at = "report"
  /\ Unlocked(call[s].seen)
  /\ GoOn(s, [at |-> "replace", locked |-> {i \in call[s].seen : Active(i)}], {})
  /\ UNCHANGED <<rows, history>>

\* INSERT and commit.
ReportInsert(s) ==
  /\ call[s].at = "replace"
  /\ \E new \in Statuses :
       /\ rows[new] = None \/ new \in call[s].locked
       /\ rows' = [i \in Ids |-> IF i = new THEN [trashed |-> FALSE]
                                 ELSE IF i \in call[s].locked THEN None ELSE rows[i]]
  /\ reported' = TRUE
  /\ GoOn(s, Idle, call[s].locked)
  /\ UNCHANGED <<quiet, restored>>

---------------------------------------------------------------------------
(* report_alert: upsert_alert. *)

\* The active entries of an alert.
Entries(k) == {i \in Alerts : Active(i) /\ rows[i].key = k}

\* SELECT ... FOR UPDATE locks all active entries and answers with the most
\* recent one (which of several it is, is left open here), or none.
SelectAlert(s, k, resolved) ==
  /\ Ready(s)
  /\ \E i \in Entries(k) \cup {None} :
       /\ i = None => Entries(k) = {}
       /\ GoOn(s, [at |-> "alert", key |-> k, row |-> i, resolved |-> resolved,
                   locked |-> Entries(k)], {})
  /\ UNCHANGED <<rows, history>>

\* Mistake: there is no advisory lock.
ReportAlertUnlocked(s, k, resolved) == SelectAlert(s, k, resolved)

\* pg_advisory_xact_lock keeps other upserts of the alert out until the commit.
ReportAlert(s, k, resolved) ==
  /\ \A t \in Servers : ~(call[t].at = "alert" /\ call[t].key = k)
  /\ SelectAlert(s, k, resolved)

\* Mistake: an entry that is there keeps what it says about being resolved.
ReportedKeeping(c, i) ==
  IF i = c.row THEN rows[i]
  ELSE [key |-> c.key, resolved |-> c.resolved, trashed |-> FALSE]

\* The entry i as the upsert c leaves it.
Reported(c, i) ==
  IF i = c.row THEN [rows[i] EXCEPT !.resolved = c.resolved]
  ELSE [key |-> c.key, resolved |-> c.resolved, trashed |-> FALSE]

\* UPDATE, or INSERT, and commit.
WriteAlert(s) ==
  /\ call[s].at = "alert"
  /\ \E i \in Alerts :
       /\ IF call[s].row = None THEN rows[i] = None ELSE i = call[s].row
       /\ rows' = [rows EXCEPT ![i] = Reported(call[s], i)]
  /\ GoOn(s, Idle, {})
  /\ quiet' = IF call[s].resolved /\ call[s].key \notin restored
              THEN quiet \cup {call[s].key} ELSE quiet \ {call[s].key}
  /\ UNCHANGED <<reported, restored>>

---------------------------------------------------------------------------
(* delete_entry and restore_entry, by id, by tags or by source. *)

\* One statement; it waits for locked rows.
Trash(s, S) ==
  /\ Ready(s)
  /\ \A i \in S : Active(i)
  /\ Unlocked(S)
  /\ rows' = [i \in Ids |-> IF i \in S THEN [rows[i] EXCEPT !.trashed = TRUE] ELSE rows[i]]
  /\ reported' = (reported /\ S \cap Statuses = {})
  /\ UNCHANGED <<call, quiet, restored>>

Restore(s, S) ==
  /\ Ready(s)
  /\ \A i \in S : rows[i] # None /\ rows[i].trashed
  /\ rows' = [i \in Ids |-> IF i \in S THEN [rows[i] EXCEPT !.trashed = FALSE] ELSE rows[i]]
  /\ LET keys == {rows[i].key : i \in S \cap Alerts}
     IN  quiet' = quiet \ keys /\ restored' = restored \cup keys
  /\ UNCHANGED <<call, reported>>

\* The cleanup of another call removes a trashed entry for good, 30 days later.
Purge(i) ==
  /\ rows[i] # None /\ rows[i].trashed
  /\ rows' = [rows EXCEPT ![i] = None]
  /\ UNCHANGED <<call, history>>

---------------------------------------------------------------------------
\* A transaction fails or the server stops: nothing is committed.
Abort(s) ==
  /\ ~Ready(s)
  /\ GoOn(s, Idle, {})
  /\ UNCHANGED <<rows, history>>

Next ==
  \/ \E s \in Servers :
       \/ ReportStatus(s) \/ ReportDelete(s) \/ ReportInsert(s)
       \/ \E k \in Keys, resolved \in BOOLEAN : ReportAlert(s, k, resolved)
       \/ WriteAlert(s)
       \/ \E S \in SUBSET Ids \ {{}} : Trash(s, S) \/ Restore(s, S)
       \/ Abort(s)
  \/ \E i \in Ids : Purge(i)

Spec == Init /\ [][Next]_vars

---------------------------------------------------------------------------
(* Properties. *)

\* Unless a status is deleted, a source that has reported is never without an
\* active status, however many servers replace it at once: every briefing
\* lists it, and with it its alerts ("new reports replace the previous one").
SourceStaysListed == reported => \E i \in Statuses : Active(i)

\* Reports of one alert from several servers find or create one entry ("Upsert
\* an alert by source + alert_id"); only a restored entry may add another.
OneEntryPerAlert == \A k \in Keys \ restored : \A i, j \in Entries(k) : i = j

\* After an alert was reported as resolved no entry keeps it open until it is
\* reported again ("Use resolved=True to mark an existing alert as resolved").
ResolvedStaysResolved == \A k \in quiet : \A i \in Entries(k) : rows[i].resolved
===========================================================================
