--------------------------- MODULE ReportsProofs ---------------------------
(***************************************************************************)
(* Proofs about what sources report and what a briefing makes of it.       *)
(*                                                                         *)
(* Reports, for any number of servers, alerts and entries: the safety      *)
(* properties rest on what a report_alert knows between its SELECT and its *)
(* write: it is the only one for its alert (the advisory lock), the row it *)
(* selected is still the alert's (the row lock), and if it selected none   *)
(* there still is none, unless one was restored.                           *)
(*                                                                         *)
(* Briefing, for any alerts, suppressions, patterns and hours of a day.    *)
(***************************************************************************)
EXTENDS Reports, Briefing, FiniteSetTheorems, WellFoundedInduction, TLAPS

\* At most one upsert of an alert is under way.
OneUpsert ==
  \A s, t \in Servers :
    (call[s].at = "alert" /\ call[t].at = "alert" /\ call[s].key = call[t].key) => s = t

\* What an upsert selected still holds.
Selection(c) ==
  IF c.row = None THEN c.key \in restored \/ Entries(c.key) = {}
  ELSE c.row \in Entries(c.key) /\ c.row \in c.locked

Selections == \A s \in Servers : call[s].at = "alert" => Selection(call[s])

IInv ==
  /\ TypeOK
  /\ OneUpsert
  /\ Selections
  /\ SourceStaysListed
  /\ OneEntryPerAlert
  /\ ResolvedStaysResolved

---------------------------------------------------------------------------
(* Calls. *)

\* Deleting rows leaves a call what it is, and an upsert untouched.
LEMMA MissIsCall ==
  ASSUME NEW c \in Call, NEW gone
  PROVE  /\ Miss(c, gone) \in Call /\ Miss(c, gone).at = c.at
         /\ c.at = "alert" => Miss(c, gone) = c
<1>1. CASE c.at = "report"
  <2>1. c \in [at : {"report"}, seen : SUBSET Statuses]
    BY <1>1 DEF Call, Idle
  <2>2. QED
    BY <1>1, <2>1 DEF Miss, Call
<1>2. CASE c.at # "report"
  BY <1>2 DEF Miss
<1>3. QED
  BY <1>1, <1>2

\* After a step of server s its call is c; the others keep theirs.
LEMMA GoOnCalls ==
  ASSUME TypeOK, NEW s \in Servers, NEW c \in Call, NEW gone, GoOn(s, c, gone)
  PROVE  /\ call' \in [Servers -> Call]
         /\ call'[s] = c
         /\ \A t \in Servers \ {s} :
              /\ call'[t].at = call[t].at
              /\ call[t].at = "alert" => call'[t] = call[t]
<1>1. \A t \in Servers : call[t] \in Call
  BY DEF TypeOK
<1>2. \A t \in Servers : /\ Miss(call[t], gone) \in Call
                         /\ Miss(call[t], gone).at = call[t].at
                         /\ call[t].at = "alert" => Miss(call[t], gone) = call[t]
  BY <1>1, MissIsCall
<1>3. QED
  BY <1>2 DEF GoOn

\* The fields of an upsert.
LEMMA UpsertFields ==
  ASSUME TypeOK, NEW s \in Servers, call[s].at = "alert"
  PROVE  /\ call[s].key \in Keys /\ call[s].row \in Alerts \cup {None}
         /\ call[s].resolved \in BOOLEAN /\ call[s].locked \in SUBSET Alerts
<1>1. call[s] \in Call
  BY DEF TypeOK
<1>2. call[s] \in [at : {"alert"}, key : Keys, row : Alerts \cup {None}, resolved : BOOLEAN,
                   locked : SUBSET Alerts]
  BY <1>1 DEF Call, Idle
<1>3. QED
  BY <1>2

\* A step to a call c that is no upsert keeps OneUpsert.
LEMMA NotUpsert ==
  ASSUME TypeOK, OneUpsert, NEW s \in Servers, NEW c \in Call, NEW gone, GoOn(s, c, gone),
         c.at # "alert"
  PROVE  OneUpsert'
BY GoOnCalls DEF OneUpsert

\* If no active entry of an alert goes, comes or changes, and upserts keep
\* their calls, then what is said of alerts stays true.
LEMMA AlertsKept ==
  ASSUME IInv, NEW s \in Servers, NEW c \in Call, NEW gone, GoOn(s, c, gone),
         c.at # "alert",
         \A i \in Alerts : rows'[i] = rows[i],
         UNCHANGED <<quiet, restored>>
  PROVE  OneUpsert' /\ Selections' /\ OneEntryPerAlert' /\ ResolvedStaysResolved'
<1>1. OneUpsert'
  BY NotUpsert DEF IInv
<1>2. \A k : Entries(k)' = Entries(k)
  BY DEF Entries, Active
<1>3. Selections'
  <2>1. SUFFICES ASSUME NEW t \in Servers, call'[t].at = "alert"
                 PROVE  Selection(call[t])'
    BY DEF Selections
  <2>2. t # s /\ call'[t] = call[t] /\ call[t].at = "alert"
    BY <2>1, GoOnCalls DEF IInv
  <2>3. Selection(call[t])
    BY <2>2 DEF IInv, Selections
  <2>4. QED
    BY <1>2, <2>2, <2>3 DEF Selection
<1>4. OneEntryPerAlert' /\ ResolvedStaysResolved'
  BY <1>2 DEF IInv, OneEntryPerAlert, ResolvedStaysResolved, Entries
<1>5. QED
  BY <1>1, <1>3, <1>4

---------------------------------------------------------------------------
(* The steps of report_status. *)

LEMMA ReportStatusKeeps ==
  ASSUME IInv, NEW s \in Servers, ReportStatus(s)
  PROVE  IInv'
<1> DEFINE c == [at |-> "report", seen |-> {i \in Statuses : Active(i)}]
<1>1. c \in Call /\ c.at # "alert"
  BY DEF Call
<1>2. GoOn(s, c, {}) /\ UNCHANGED <<rows, history>>
  BY DEF ReportStatus
<1> HIDE DEF c
<1>3. TypeOK' /\ SourceStaysListed'
  BY <1>1, <1>2, GoOnCalls DEF IInv, TypeOK, SourceStaysListed, Active, history
<1>4. QED
  BY <1>1, <1>2, <1>3, AlertsKept DEF IInv, history

LEMMA ReportDeleteKeeps ==
  ASSUME IInv, NEW s \in Servers, ReportDelete(s)
  PROVE  IInv'
<1> DEFINE c == [at |-> "replace", locked |-> {i \in call[s].seen : Active(i)}]
<1>1. call[s] \in [at : {"report"}, seen : SUBSET Statuses]
  BY DEF IInv, TypeOK, Call, Idle, ReportDelete
<1>2. c \in Call /\ c.at # "alert"
  BY <1>1 DEF Call
<1>3. GoOn(s, c, {}) /\ UNCHANGED <<rows, history>>
  BY DEF ReportDelete
<1> HIDE DEF c
<1>4. TypeOK' /\ SourceStaysListed'
  BY <1>2, <1>3, GoOnCalls DEF IInv, TypeOK, SourceStaysListed, Active, history
<1>5. QED
  BY <1>2, <1>3, <1>4, AlertsKept DEF IInv, history

\* The new status is there when the old ones go.
LEMMA ReportInsertKeeps ==
  ASSUME IInv, NEW s \in Servers, ReportInsert(s)
  PROVE  IInv'
<1>1. call[s] \in [at : {"replace"}, locked : SUBSET Statuses]
  BY DEF IInv, TypeOK, Call, Idle, ReportInsert
<1>2. PICK new \in Statuses :
        rows' = [i \in Ids |-> IF i = new THEN [trashed |-> FALSE]
                               ELSE IF i \in call[s].locked THEN None ELSE rows[i]]
  BY DEF ReportInsert
<1>3. /\ Idle \in Call /\ Idle.at # "alert"
      /\ GoOn(s, Idle, call[s].locked) /\ reported' = TRUE
      /\ UNCHANGED <<quiet, restored>>
  BY DEF Call, Idle, ReportInsert
<1>4. \A i \in Alerts : rows'[i] = rows[i]
  BY <1>1, <1>2, IdsAssumption DEF Ids
<1>5. /\ \A i \in Statuses : rows'[i] \in StatusRow \cup {None}
      /\ rows'[new] = [trashed |-> FALSE]
  BY <1>2 DEF IInv, TypeOK, Ids, StatusRow
<1>6. rows' \in [Ids -> StatusRow \cup AlertRow \cup {None}]
  BY <1>2, <1>4, <1>5 DEF IInv, TypeOK, Ids
<1>7. TypeOK'
  BY <1>3, <1>4, <1>5, <1>6, GoOnCalls DEF IInv, TypeOK
<1>8. SourceStaysListed'
  <2>1. [trashed |-> FALSE] \in StatusRow
    BY DEF StatusRow
  <2>2. [trashed |-> FALSE] # None
    BY <2>1, NoneAssumption
  <2>3. ~[trashed |-> FALSE].trashed
    OBVIOUS
  <2>4. QED
    BY <1>5, <2>2, <2>3 DEF SourceStaysListed, Active
<1>9. QED
  BY <1>3, <1>4, <1>7, <1>8, AlertsKept DEF IInv

---------------------------------------------------------------------------
(* The steps of report_alert. *)

\* Under the advisory lock this upsert is the only one, and it selected what
\* there is.
LEMMA ReportAlertKeeps ==
  ASSUME IInv, NEW s \in Servers, NEW k \in Keys, NEW resolved \in BOOLEAN,
         ReportAlert(s, k, resolved)
  PROVE  IInv'
<1>1. PICK i \in Entries(k) \cup {None} :
        /\ i = None => Entries(k) = {}
        /\ GoOn(s, [at |-> "alert", key |-> k, row |-> i, resolved |-> resolved,
                    locked |-> Entries(k)], {})
  BY DEF ReportAlert, SelectAlert
<1> DEFINE c == [at |-> "alert", key |-> k, row |-> i, resolved |-> resolved,
                 locked |-> Entries(k)]
<1>2. c \in Call
  BY DEF Call, Entries
<1>3. c.at = "alert" /\ c.key = k /\ c.row = i /\ c.locked = Entries(k)
  OBVIOUS
<1>4. GoOn(s, c, {}) /\ UNCHANGED <<rows, history>>
  BY <1>1 DEF ReportAlert, SelectAlert
<1> HIDE DEF c
<1>5. /\ call' \in [Servers -> Call] /\ call'[s] = c
      /\ \A t \in Servers \ {s} : /\ call'[t].at = call[t].at
                                  /\ call[t].at = "alert" => call'[t] = call[t]
  BY <1>2, <1>4, GoOnCalls DEF IInv
<1>6. \A t \in Servers : ~(call[t].at = "alert" /\ call[t].key = k)
  BY DEF ReportAlert
<1>7. OneUpsert'
  BY <1>3, <1>5, <1>6 DEF IInv, OneUpsert
<1>8. \A e : Entries(e)' = Entries(e)
  BY <1>4 DEF Entries, Active
<1>9. Selections'
  BY <1>1, <1>3, <1>4, <1>5, <1>8 DEF IInv, Selections, Selection, history
<1>10. TypeOK' /\ SourceStaysListed'
  BY <1>4, <1>5 DEF IInv, TypeOK, SourceStaysListed, Active, history
<1>11. OneEntryPerAlert' /\ ResolvedStaysResolved'
  BY <1>4, <1>8 DEF IInv, OneEntryPerAlert, ResolvedStaysResolved, history
<1>12. QED
  BY <1>7, <1>9, <1>10, <1>11 DEF IInv

\* The entry of the alert is the one that was selected, or the first one.
LEMMA WriteAlertKeeps ==
  ASSUME IInv, NEW s \in Servers, WriteAlert(s)
  PROVE  IInv'
<1> DEFINE c == call[s]
<1>1. PICK i \in Alerts : /\ IF c.row = None THEN rows[i] = None ELSE i = c.row
                          /\ rows' = [rows EXCEPT ![i] = Reported(c, i)]
  BY DEF WriteAlert
<1>2. /\ c.at = "alert" /\ c.key \in Keys /\ c.row \in Alerts \cup {None}
      /\ c.resolved \in BOOLEAN /\ Selection(c)
  BY UpsertFields DEF IInv, Selections, WriteAlert
<1>3. GoOn(s, Idle, {}) /\ Idle \in Call /\ Idle.at # "alert" /\ UNCHANGED <<reported, restored>>
  BY DEF WriteAlert, Call, Idle
<1>4. quiet' = IF c.resolved /\ c.key \notin restored THEN quiet \cup {c.key} ELSE quiet \ {c.key}
  BY DEF WriteAlert
<1>5. i # None /\ i \in Ids /\ i \notin Statuses
  BY IdsAssumption DEF Ids
<1>6. /\ Reported(c, i) \in AlertRow /\ Reported(c, i).key = c.key
      /\ ~Reported(c, i).trashed /\ Reported(c, i).resolved = c.resolved
  <2>1. CASE c.row = None
    BY <1>2, <1>5, <2>1 DEF Reported, AlertRow
  <2>2. CASE c.row # None
    <3>1. i \in Entries(c.key) /\ i = c.row
      BY <1>1, <1>2, <2>2 DEF Selection
    <3>2. rows[i] \in AlertRow /\ rows[i].key = c.key /\ ~rows[i].trashed
      BY <3>1 DEF Entries, Active, IInv, TypeOK
    <3>3. QED
      BY <1>2, <3>1, <3>2 DEF Reported, AlertRow
  <2>3. QED
    BY <2>1, <2>2
<1>7. /\ rows'[i] = Reported(c, i) /\ rows'[i] # None
      /\ \A j \in Ids \ {i} : rows'[j] = rows[j]
  BY <1>1, <1>5, <1>6, NoneAssumption DEF IInv, TypeOK
<1>8. i \in Entries(c.key) \/ rows[i] = None
  BY <1>1, <1>2 DEF Selection
<1>9. \A k \in Keys : k # c.key =>
        /\ Entries(k)' = Entries(k)
        /\ \A j \in Entries(k) : rows'[j] = rows[j]
  BY <1>6, <1>7, <1>8 DEF Entries, Active, Ids
<1>10. \A k : (k = c.key /\ k \notin restored) => Entries(k)' = {i}
  <2>1. c.key \notin restored => Entries(c.key) \subseteq {i}
    BY <1>1, <1>2, <1>8 DEF Selection, IInv, OneEntryPerAlert
  <2>2. \A k : k = c.key => Entries(k)' \subseteq Entries(k) \cup {i} /\ i \in Entries(k)'
    BY <1>6, <1>7 DEF Entries, Active, Ids
  <2>3. QED
    BY <2>1, <2>2
<1>11. TypeOK'
  BY <1>1, <1>2, <1>3, <1>4, <1>5, <1>6, <1>7, GoOnCalls DEF IInv, TypeOK, Ids
<1>12. SourceStaysListed'
  BY <1>3, <1>5, <1>7 DEF IInv, SourceStaysListed, Active, Ids
<1>13. OneUpsert'
  BY <1>3, NotUpsert DEF IInv
<1>14. Selections'
  <2>1. SUFFICES ASSUME NEW t \in Servers, call'[t].at = "alert"
                 PROVE  Selection(call[t])' /\ call'[t] = call[t]
    BY DEF Selections, Selection
  <2>2. t # s /\ call'[t] = call[t] /\ call[t].at = "alert"
    BY <1>3, <2>1, GoOnCalls DEF IInv
  <2>3. call[t].key \in Keys /\ call[t].key # c.key /\ Selection(call[t])
    BY <1>2, <2>2, UpsertFields DEF IInv, OneUpsert, Selections
  <2>4. QED
    BY <1>3, <1>9, <2>2, <2>3 DEF Selection
<1>15. OneEntryPerAlert'
  BY <1>3, <1>9, <1>10 DEF IInv, OneEntryPerAlert
<1>16. ResolvedStaysResolved'
  <2>1. SUFFICES ASSUME NEW k \in quiet', NEW j \in Entries(k)'
                 PROVE  rows'[j].resolved
    BY DEF ResolvedStaysResolved
  <2>2. CASE k = c.key
    BY <1>4, <1>6, <1>7, <1>10, <2>1, <2>2
  <2>3. CASE k # c.key
    BY <1>4, <1>9, <2>1, <2>3 DEF IInv, ResolvedStaysResolved, TypeOK
  <2>4. QED
    BY <2>2, <2>3
<1>17. QED
  BY <1>11, <1>12, <1>13, <1>14, <1>15, <1>16 DEF IInv

---------------------------------------------------------------------------
(* The trash. *)

\* The row of an upsert is locked, so it is not trashed.
LEMMA TrashKeeps ==
  ASSUME IInv, NEW s \in Servers, NEW S \in SUBSET Ids, Trash(s, S)
  PROVE  IInv'
<1>1. /\ \A i \in S : rows[i] # None
      /\ rows' = [i \in Ids |-> IF i \in S THEN [rows[i] EXCEPT !.trashed = TRUE] ELSE rows[i]]
      /\ reported' = (reported /\ S \cap Statuses = {})
      /\ UNCHANGED <<call, quiet, restored>>
  BY DEF Trash, Active
<1>2. \A i \in S : rows'[i].trashed /\ ~Active(i)'
  <2>1. \A i \in S : rows[i] \in StatusRow \cup AlertRow
    BY <1>1 DEF IInv, TypeOK
  <2>2. QED
    BY <1>1, <2>1 DEF StatusRow, AlertRow, Active
<1>3. \A i \in Ids \ S : rows'[i] = rows[i]
  BY <1>1
<1>4. TypeOK'
  <2>1. \A i \in Statuses : rows'[i] \in StatusRow \cup {None}
    BY <1>1 DEF IInv, TypeOK, Ids, StatusRow
  <2>2. \A i \in Alerts : rows'[i] \in AlertRow \cup {None}
    BY <1>1 DEF IInv, TypeOK, Ids, AlertRow
  <2>3. QED
    BY <1>1, <2>1, <2>2 DEF IInv, TypeOK, Ids
<1>5. \A k : /\ Entries(k)' = Entries(k) \ S
             /\ \A i \in Entries(k)' : rows'[i] = rows[i]
  BY <1>2, <1>3 DEF Entries, Active, Ids
<1>6. SourceStaysListed'
  BY <1>1, <1>3 DEF IInv, SourceStaysListed, Active, Ids
<1>7. OneUpsert' /\ OneEntryPerAlert' /\ ResolvedStaysResolved'
  BY <1>1, <1>5 DEF IInv, OneUpsert, OneEntryPerAlert, ResolvedStaysResolved
<1>8. Selections'
  <2>1. \A t \in Servers : call[t].at = "alert" => call[t].locked \cap S = {}
    BY DEF Trash, Unlocked, Locked
  <2>2. QED
    BY <1>1, <1>5, <2>1 DEF IInv, Selections, Selection
<1>9. QED
  BY <1>4, <1>6, <1>7, <1>8 DEF IInv

\* What comes back is an entry of a key that counts as restored.
LEMMA RestoreKeeps ==
  ASSUME IInv, NEW s \in Servers, NEW S \in SUBSET Ids, Restore(s, S)
  PROVE  IInv'
<1> DEFINE keys == {rows[i].key : i \in S \cap Alerts}
<1>1. /\ \A i \in S : rows[i] # None /\ rows[i].trashed
      /\ rows' = [i \in Ids |-> IF i \in S THEN [rows[i] EXCEPT !.trashed = FALSE] ELSE rows[i]]
      /\ quiet' = quiet \ keys /\ restored' = restored \cup keys
      /\ UNCHANGED <<call, reported>>
  BY DEF Restore
<1>2. \A i \in Statuses : rows'[i] \in StatusRow \cup {None} /\ (Active(i) => rows'[i] = rows[i])
  BY <1>1 DEF IInv, TypeOK, Ids, StatusRow, Active
<1>3. \A i \in Alerts : /\ rows'[i] \in AlertRow \cup {None}
                        /\ i \in S => rows'[i].key \in keys
  BY <1>1 DEF IInv, TypeOK, Ids, AlertRow
<1>4. \A i \in S \cap Alerts : rows[i] \in AlertRow
  BY <1>1 DEF IInv, TypeOK
<1>5. keys \subseteq Keys
  BY <1>4 DEF AlertRow
<1>6. TypeOK'
  BY <1>1, <1>2, <1>3, <1>5 DEF IInv, TypeOK, Ids
<1>7. SourceStaysListed'
  BY <1>1, <1>2 DEF IInv, SourceStaysListed, Active
<1>8. \A k : k \notin keys => /\ Entries(k)' = Entries(k)
                              /\ \A i \in Entries(k) : rows'[i] = rows[i]
  BY <1>1, <1>3 DEF Entries, Active, Ids
<1>9. \A k, i : i \in Entries(k) => i \in Entries(k)'
  <2>1. SUFFICES ASSUME NEW k, NEW i \in Entries(k) PROVE i \in Entries(k)'
    OBVIOUS
  <2>2. i \in Alerts /\ Active(i) /\ i \notin S
    BY <1>1 DEF Entries, Active
  <2>3. rows'[i] = rows[i]
    BY <1>1, <2>2 DEF Ids
  <2>4. QED
    BY <2>1, <2>3 DEF Entries, Active
<1> HIDE DEF keys
<1>10. OneUpsert' /\ OneEntryPerAlert' /\ ResolvedStaysResolved'
  <2>1. OneUpsert'
    BY <1>1 DEF IInv, OneUpsert
  <2>2. \A k \in Keys \ restored' : k \notin keys /\ k \in Keys \ restored
    BY <1>1
  <2>3. OneEntryPerAlert'
    BY <1>8, <2>2 DEF IInv, OneEntryPerAlert
  <2>4. \A k \in quiet' : k \notin keys /\ k \in quiet
    BY <1>1
  <2>5. ResolvedStaysResolved'
    BY <1>8, <2>4 DEF IInv, ResolvedStaysResolved
  <2>6. QED
    BY <2>1, <2>3, <2>5
<1>11. Selections'
  BY <1>1, <1>8, <1>9 DEF IInv, Selections, Selection
<1>12. QED
  BY <1>6, <1>7, <1>10, <1>11 DEF IInv

\* What goes for good was trashed.
LEMMA PurgeKeeps ==
  ASSUME IInv, NEW i \in Ids, Purge(i)
  PROVE  IInv'
<1>1. /\ rows[i] # None /\ rows[i].trashed /\ rows' = [rows EXCEPT ![i] = None]
      /\ UNCHANGED <<call, history>>
  BY DEF Purge
<1>2. rows'[i] = None /\ \A j \in Ids \ {i} : rows'[j] = rows[j]
  BY <1>1 DEF IInv, TypeOK
<1>3. TypeOK'
  BY <1>1 DEF IInv, TypeOK, history
<1>4. \A k : /\ Entries(k)' = Entries(k)
             /\ \A j \in Entries(k) : rows'[j] = rows[j]
  BY <1>1, <1>2 DEF Entries, Active, Ids
<1>5. SourceStaysListed'
  BY <1>1, <1>2 DEF IInv, SourceStaysListed, Active, Ids, history
<1>6. OneUpsert' /\ OneEntryPerAlert' /\ ResolvedStaysResolved' /\ Selections'
  BY <1>1, <1>4
  DEF IInv, OneUpsert, OneEntryPerAlert, ResolvedStaysResolved, Selections, Selection, history
<1>7. QED
  BY <1>3, <1>5, <1>6 DEF IInv

LEMMA AbortKeeps ==
  ASSUME IInv, NEW s \in Servers, Abort(s)
  PROVE  IInv'
<1>1. Idle \in Call /\ Idle.at # "alert" /\ GoOn(s, Idle, {}) /\ UNCHANGED <<rows, history>>
  BY DEF Abort, Call, Idle
<1>2. TypeOK' /\ SourceStaysListed'
  BY <1>1, GoOnCalls DEF IInv, TypeOK, SourceStaysListed, Active, history
<1>3. QED
  BY <1>1, <1>2, AlertsKept DEF IInv, history

---------------------------------------------------------------------------
(* Theorems. *)

LEMMA Initially == Init => IInv
<1>1. SUFFICES ASSUME Init PROVE IInv
  OBVIOUS
<1>2. TypeOK
  BY <1>1 DEF Init, TypeOK, Call, Ids
<1>3. \A s \in Servers : call[s].at # "alert"
  BY <1>1 DEF Init, Idle
<1>4. \A k : Entries(k) = {}
  BY <1>1 DEF Init, Entries, Active, Ids
<1>5. SourceStaysListed /\ OneEntryPerAlert /\ ResolvedStaysResolved
  BY <1>1, <1>4 DEF Init, SourceStaysListed, OneEntryPerAlert, ResolvedStaysResolved
<1>6. QED
  BY <1>2, <1>3, <1>5 DEF IInv, OneUpsert, Selections

LEMMA Inductive == IInv /\ [Next]_vars => IInv'
<1>1. SUFFICES ASSUME IInv, [Next]_vars PROVE IInv'
  OBVIOUS
<1>2. CASE UNCHANGED vars
  BY <1>1, <1>2
  DEF vars, history, IInv, TypeOK, OneUpsert, Selections, Selection, SourceStaysListed,
      OneEntryPerAlert, ResolvedStaysResolved, Entries, Active
<1>3. ASSUME NEW s \in Servers, ReportStatus(s) \/ ReportDelete(s) \/ ReportInsert(s)
                                \/ WriteAlert(s) \/ Abort(s)
      PROVE  IInv'
  BY <1>1, <1>3, ReportStatusKeeps, ReportDeleteKeeps, ReportInsertKeeps, WriteAlertKeeps,
     AbortKeeps
<1>4. ASSUME NEW s \in Servers, NEW k \in Keys, NEW resolved \in BOOLEAN,
             ReportAlert(s, k, resolved)
      PROVE  IInv'
  BY <1>1, <1>4, ReportAlertKeeps
<1>5. ASSUME NEW s \in Servers, NEW S \in SUBSET Ids, Trash(s, S) \/ Restore(s, S)
      PROVE  IInv'
  BY <1>1, <1>5, TrashKeeps, RestoreKeeps
<1>6. ASSUME NEW i \in Ids, Purge(i)
      PROVE  IInv'
  BY <1>1, <1>6, PurgeKeeps
<1>7. QED
  BY <1>1, <1>2, <1>3, <1>4, <1>5, <1>6 DEF Next

LEMMA Invariance == Spec => []IInv
BY Initially, Inductive, PTL DEF Spec

\* Rows, calls and histories stay what TypeOK says.
THEOREM TypeCorrect == Spec => []TypeOK
<1>1. IInv => TypeOK
  BY DEF IInv
<1>2. QED
  BY <1>1, Invariance, PTL

\* A source that has reported keeps an active status until one is trashed,
\* however many servers replace it at once (upsert_status).
THEOREM SourcesStayListed == Spec => []SourceStaysListed
<1>1. IInv => SourceStaysListed
  BY DEF IInv
<1>2. QED
  BY <1>1, Invariance, PTL

\* Upserts of one alert never leave two entries of it (upsert_alert), but a
\* restored entry may be a second one.
THEOREM AlertsAreUpserted == Spec => []OneEntryPerAlert
<1>1. IInv => OneEntryPerAlert
  BY DEF IInv
<1>2. QED
  BY <1>1, Invariance, PTL

\* An alert reported as resolved has no open entry until it is reported again
\* or restored (report_alert).
THEOREM ResolvedAlertsStay == Spec => []ResolvedStaysResolved
<1>1. IInv => ResolvedStaysResolved
  BY DEF IInv
<1>2. QED
  BY <1>1, Invariance, PTL

---------------------------------------------------------------------------
(* Briefing: what it has read so far of the rows that were not written     *)
(* meanwhile is what they still are.                                       *)

AlertsRead ==
  \A i \in AlertIds \ briefing.written, l \in Levels :
    [id |-> i, level |-> l] \in briefing.alerts
    <=> Live(i) /\ ~entries[i].resolved /\ entries[i].level = l

NoiseRead ==
  /\ \A j \in briefing.noise : entries[j] # NoEntry
  /\ \A j \in Suppressions \ briefing.written :
       /\ Live(j) /\ ~entries[j].expired => j \in briefing.noise
       /\ j \in briefing.noise => Live(j)

RulesRead ==
  /\ \A j \in Patterns \ briefing.written : Live(j) => entries[j].rule \in briefing.rules
  /\ \A r \in briefing.rules :
       \E j \in Patterns : j \in briefing.written \/ (Live(j) /\ entries[j].rule = r)

BInv ==
  /\ BTypeOK
  /\ briefing.at \in {"suppressions", "patterns", "answer"} => AlertsRead
  /\ briefing.at \in {"patterns", "answer"} => NoiseRead
  /\ briefing.at = "answer" => RulesRead

\* What may be written to a row.
RowFor(i, row) ==
  /\ i \in AlertIds => row \in AlertEntry
  /\ i \in Suppressions => row \in SuppressionEntry
  /\ i \in Patterns => row \in PatternEntry

LEMMA RowsApart ==
  /\ AlertIds \cap Suppressions = {} /\ AlertIds \cap Patterns = {}
  /\ Suppressions \cap Patterns = {}
  /\ \A i \in EntryIds : \A row : RowFor(i, row) => row # NoEntry
BY ParametersAssumption, NoEntryAssumption DEF RowFor, EntryIds

LEMMA BriefingFields ==
  ASSUME BTypeOK, briefing # NoBriefing
  PROVE  /\ briefing.at \in {"alerts", "suppressions", "patterns", "answer"}
         /\ briefing.alerts \subseteq [id : AlertIds, level : Levels]
         /\ briefing.noise \subseteq Suppressions
         /\ briefing.rules \subseteq PatternRules
         /\ briefing.written \subseteq EntryIds
         /\ briefing = [at |-> briefing.at, alerts |-> briefing.alerts,
                        noise |-> briefing.noise, rules |-> briefing.rules,
                        written |-> briefing.written]
BY DEF BTypeOK, BriefingState, NoBriefing

LEMMA RowTypes ==
  ASSUME BTypeOK
  PROVE  /\ \A i \in AlertIds : entries[i] # NoEntry => entries[i] \in AlertEntry
         /\ \A i \in Suppressions : entries[i] # NoEntry => entries[i] \in SuppressionEntry
         /\ \A i \in Patterns : entries[i] # NoEntry => entries[i] \in PatternEntry
BY DEF BTypeOK

\* A write of another server.
LEMMA WriteKeepsReads ==
  ASSUME BInv, NEW i \in EntryIds, NEW row, RowFor(i, row), Write(i, row)
  PROVE  BInv'
<1>1. /\ entries \in [EntryIds -> AlertEntry \cup SuppressionEntry \cup PatternEntry \cup {NoEntry}]
      /\ entries' = [entries EXCEPT ![i] = row] /\ row # NoEntry /\ hour' = hour
  BY RowsApart DEF BInv, BTypeOK, Write
<1>2. /\ entries'[i] = row /\ \A k \in EntryIds \ {i} : entries'[k] = entries[k]
      /\ AlertIds \subseteq EntryIds /\ Suppressions \subseteq EntryIds
      /\ Patterns \subseteq EntryIds
  BY <1>1 DEF EntryIds
<1>3. /\ entries' \in [EntryIds -> AlertEntry \cup SuppressionEntry \cup PatternEntry \cup {NoEntry}]
      /\ \A k \in AlertIds : entries'[k] \in AlertEntry \cup {NoEntry}
      /\ \A k \in Suppressions : entries'[k] \in SuppressionEntry \cup {NoEntry}
      /\ \A k \in Patterns : entries'[k] \in PatternEntry \cup {NoEntry}
  <2>1. row \in AlertEntry \cup SuppressionEntry \cup PatternEntry
    BY DEF RowFor, EntryIds
  <2>. QED
    BY <1>1, <1>2, <2>1 DEF BInv, BTypeOK, RowFor
<1>4. CASE briefing = NoBriefing
  <2>1. briefing' = NoBriefing /\ NoBriefing.at = "none"
    BY <1>4 DEF Write, NoBriefing
  <2>2. BTypeOK'
    BY <1>1, <1>3, <2>1 DEF BInv, BTypeOK, BriefingState
  <2>. QED
    BY <2>1, <2>2 DEF BInv
<1>5. CASE briefing # NoBriefing
  <2>1. /\ briefing.written \subseteq EntryIds /\ briefing.alerts \subseteq [id : AlertIds, level : Levels]
        /\ briefing.noise \subseteq Suppressions /\ briefing.rules \subseteq PatternRules
        /\ briefing.at \in {"alerts", "suppressions", "patterns", "answer"}
    BY <1>5, BriefingFields DEF BInv
  <2>2. /\ briefing'.at = briefing.at /\ briefing'.alerts = briefing.alerts
        /\ briefing'.noise = briefing.noise /\ briefing'.rules = briefing.rules
        /\ briefing'.written = briefing.written \cup {i}
        /\ briefing' \in BriefingState
    <3>1. briefing' = [briefing EXCEPT !.written = @ \cup {i}]
      BY <1>5 DEF Write
    <3>2. briefing.written \cup {i} \in SUBSET EntryIds
      BY <2>1
    <3>3. briefing = [at |-> briefing.at, alerts |-> briefing.alerts, noise |-> briefing.noise,
                      rules |-> briefing.rules, written |-> briefing.written]
      BY <1>5, BriefingFields DEF BInv
    <3>4. briefing' = [at |-> briefing.at, alerts |-> briefing.alerts, noise |-> briefing.noise,
                       rules |-> briefing.rules, written |-> briefing.written \cup {i}]
      BY <3>1, <3>3
    <3>. QED
      BY <2>1, <3>2, <3>4 DEF BriefingState
  <2>3. BTypeOK'
    BY <1>1, <1>3, <2>2 DEF BInv, BTypeOK
  <2>4. \A k \in EntryIds \ briefing'.written :
          /\ k \notin briefing.written /\ entries'[k] = entries[k] /\ Live(k)' = Live(k)
    BY <1>2, <2>2 DEF Live
  <2>5. AlertsRead => AlertsRead'
    BY <1>2, <2>2, <2>4 DEF AlertsRead
  <2>6. NoiseRead => NoiseRead'
    BY <1>1, <1>2, <2>1, <2>2, <2>4 DEF NoiseRead
  <2>7. RulesRead => RulesRead'
    <3>. SUFFICES ASSUME RulesRead PROVE RulesRead'
      OBVIOUS
    <3>1. \A j \in Patterns \ briefing'.written : Live(j)' => entries'[j].rule \in briefing'.rules
      BY <1>2, <2>2, <2>4 DEF RulesRead
    <3>2. ASSUME NEW r \in briefing'.rules
          PROVE  \E j \in Patterns :
                   j \in briefing'.written \/ (Live(j)' /\ entries'[j].rule = r)
      <4>1. PICK j \in Patterns : j \in briefing.written \/ (Live(j) /\ entries[j].rule = r)
        BY <2>2 DEF RulesRead
      <4>. QED
        BY <1>2, <2>2, <2>4, <4>1
    <3>. QED
      BY <3>1, <3>2 DEF RulesRead
  <2>. QED
    BY <2>2, <2>3, <2>5, <2>6, <2>7 DEF BInv
<1>. QED
  BY <1>4, <1>5

\* The tools of other servers, and time.
LEMMA ToolSteps ==
  ASSUME BInv,
         \/ \E a \in AlertIds : AlertReported(a)
         \/ \E i \in Suppressions : Suppress(i)
         \/ \E i \in Patterns : LearnPattern(i) \/ MovePattern(i)
         \/ \E i \in EntryIds : DeleteEntry(i) \/ RestoreEntry(i)
  PROVE  BInv'
<1>1. AlertIds \subseteq EntryIds /\ Suppressions \subseteq EntryIds /\ Patterns \subseteq EntryIds
  BY DEF EntryIds
<1>2. ASSUME NEW a \in AlertIds, AlertReported(a)
      PROVE  BInv'
  <2>1. PICK l \in Levels, r \in BOOLEAN : Write(a, [level |-> l, resolved |-> r, trashed |-> FALSE])
    BY <1>2 DEF AlertReported
  <2>. DEFINE row == [level |-> l, resolved |-> r, trashed |-> FALSE]
  <2>2. row \in AlertEntry
    BY DEF AlertEntry
  <2>3. RowFor(a, row)
    BY <2>2, RowsApart DEF RowFor
  <2>. HIDE DEF row
  <2>. QED
    BY <1>1, <2>1, <2>3, WriteKeepsReads DEF row
<1>3. ASSUME NEW i \in Suppressions, Suppress(i)
      PROVE  BInv'
  <2>1. PICK r \in SuppressionRules : Write(i, [rule |-> r, expired |-> FALSE, trashed |-> FALSE])
    BY <1>3 DEF Suppress
  <2>. DEFINE row == [rule |-> r, expired |-> FALSE, trashed |-> FALSE]
  <2>2. row \in SuppressionEntry
    BY DEF SuppressionEntry
  <2>3. RowFor(i, row)
    BY <2>2, RowsApart DEF RowFor
  <2>. HIDE DEF row
  <2>. QED
    BY <1>1, <2>1, <2>3, WriteKeepsReads DEF row
<1>4. ASSUME NEW i \in Patterns, LearnPattern(i)
      PROVE  BInv'
  <2>1. PICK r \in PatternRules : Write(i, [rule |-> r, trashed |-> FALSE])
    BY <1>4 DEF LearnPattern
  <2>. DEFINE row == [rule |-> r, trashed |-> FALSE]
  <2>2. row \in PatternEntry
    BY DEF PatternEntry
  <2>3. RowFor(i, row)
    BY <2>2, RowsApart DEF RowFor
  <2>. HIDE DEF row
  <2>. QED
    BY <1>1, <2>1, <2>3, WriteKeepsReads DEF row
<1>5. ASSUME NEW i \in Patterns, MovePattern(i)
      PROVE  BInv'
  <2>1. PICK r \in PatternRules : Write(i, [entries[i] EXCEPT !.rule = r])
    BY <1>5 DEF MovePattern
  <2>2. entries[i] \in PatternEntry
    BY <1>5, RowTypes DEF BInv, MovePattern, Live
  <2>3. [entries[i] EXCEPT !.rule = r] \in PatternEntry
    BY <2>2 DEF PatternEntry
  <2>4. RowFor(i, [entries[i] EXCEPT !.rule = r])
    BY <2>3, RowsApart DEF RowFor
  <2>. QED
    BY <1>1, <2>1, <2>4, WriteKeepsReads
<1>6. ASSUME NEW i \in EntryIds, DeleteEntry(i) \/ RestoreEntry(i)
      PROVE  BInv'
  <2>1. PICK t \in BOOLEAN : Write(i, [entries[i] EXCEPT !.trashed = t]) /\ entries[i] # NoEntry
    BY <1>6 DEF DeleteEntry, RestoreEntry, Live
  <2>. DEFINE row == [entries[i] EXCEPT !.trashed = t]
  <2>2. i \in AlertIds => row \in AlertEntry
    BY <2>1, RowTypes DEF BInv, AlertEntry
  <2>3. i \in Suppressions => row \in SuppressionEntry
    BY <2>1, RowTypes DEF BInv, SuppressionEntry
  <2>4. i \in Patterns => row \in PatternEntry
    BY <2>1, RowTypes DEF BInv, PatternEntry
  <2>5. RowFor(i, row)
    BY <2>2, <2>3, <2>4 DEF RowFor
  <2>. HIDE DEF row
  <2>. QED
    BY <2>1, <2>5, WriteKeepsReads DEF row
<1>. QED
  BY <1>2, <1>3, <1>4, <1>5, <1>6

LEMMA ExpireStep ==
  ASSUME BInv, NEW i \in Suppressions, Expire(i)
  PROVE  BInv'
<1>1. /\ entries[i] \in SuppressionEntry /\ hour' = hour /\ briefing' = briefing
      /\ entries' = [entries EXCEPT ![i].expired = TRUE]
  BY RowTypes DEF BInv, Expire
<1>. DEFINE row == [entries[i] EXCEPT !.expired = TRUE]
<1>2. /\ row \in SuppressionEntry /\ row.trashed = entries[i].trashed /\ row.expired
  BY <1>1 DEF SuppressionEntry
<1>3. entries' = [entries EXCEPT ![i] = row]
  BY <1>1
<1>. HIDE DEF row
<1>4. /\ entries \in [EntryIds -> AlertEntry \cup SuppressionEntry \cup PatternEntry \cup {NoEntry}]
      /\ AlertIds \subseteq EntryIds /\ Suppressions \subseteq EntryIds /\ Patterns \subseteq EntryIds
      /\ i \notin AlertIds /\ i \notin Patterns
  BY RowsApart DEF BInv, BTypeOK, EntryIds
<1>5. entries'[i] = row /\ \A k \in EntryIds \ {i} : entries'[k] = entries[k]
  BY <1>3, <1>4
<1>6. row # NoEntry /\ entries[i] # NoEntry
  BY <1>1, <1>2, NoEntryAssumption
<1>7. \A k \in EntryIds : Live(k)' = Live(k)
  BY <1>2, <1>5, <1>6 DEF Live
<1>8. BTypeOK'
  <2>1. /\ entries' \in [EntryIds -> AlertEntry \cup SuppressionEntry \cup PatternEntry \cup {NoEntry}]
    BY <1>2, <1>3, <1>4
  <2>. QED
    BY <1>1, <1>2, <1>4, <1>5, <2>1 DEF BInv, BTypeOK
<1>9. AlertsRead => AlertsRead'
  BY <1>1, <1>4, <1>5, <1>7 DEF AlertsRead
<1>10. briefing # NoBriefing /\ NoiseRead => NoiseRead'
  <2>1. briefing # NoBriefing => briefing.noise \subseteq Suppressions
    BY BriefingFields DEF BInv
  <2>. QED
    BY <1>1, <1>2, <1>4, <1>5, <1>6, <1>7, <2>1 DEF NoiseRead
<1>11. RulesRead => RulesRead'
  <2>. SUFFICES ASSUME RulesRead PROVE RulesRead'
    OBVIOUS
  <2>1. \A j \in Patterns : entries'[j] = entries[j] /\ Live(j)' = Live(j)
    BY <1>4, <1>5, <1>7
  <2>2. ASSUME NEW r \in briefing.rules
        PROVE  \E j \in Patterns : j \in briefing.written \/ (Live(j)' /\ entries'[j].rule = r)
    <3>1. PICK j \in Patterns : j \in briefing.written \/ (Live(j) /\ entries[j].rule = r)
      BY DEF RulesRead
    <3>. QED
      BY <2>1, <3>1
  <2>. QED
    BY <1>1, <2>1, <2>2 DEF RulesRead
<1>12. briefing.at \in {"patterns", "answer"} => briefing # NoBriefing
  BY DEF NoBriefing
<1>. QED
  BY <1>1, <1>8, <1>9, <1>10, <1>11, <1>12 DEF BInv

\* A briefing reads on.
LEMMA ReadSteps ==
  ASSUME BInv, ReadStatuses \/ ReadAlerts \/ ReadSuppressions \/ ReadPatterns
  PROVE  BInv'
<1>1. entries' = entries /\ hour' = hour /\ \A k : Live(k)' = Live(k)
  BY DEF ReadStatuses, ReadAlerts, ReadSuppressions, ReadPatterns, Live
<1>2. CASE ReadStatuses
  <2>1. briefing' \in BriefingState /\ briefing'.at = "alerts"
    BY <1>2 DEF ReadStatuses, BriefingState
  <2>. QED
    BY <1>1, <2>1 DEF BInv, BTypeOK
<1>3. CASE ReadAlerts
  <2>. DEFINE open == {i \in AlertIds : Live(i) /\ ~entries[i].resolved}
              read == {[id |-> i, level |-> entries[i].level] : i \in open}
  <2>1. briefing # NoBriefing /\ briefing.at = "alerts"
    BY <1>3 DEF ReadAlerts, NoBriefing
  <2>2. \A i \in open : entries[i].level \in Levels
    BY RowTypes DEF BInv, Live, AlertEntry
  <2>3. read \in SUBSET [id : AlertIds, level : Levels]
    BY <2>2
  <2>4. briefing' = [at |-> "suppressions", alerts |-> read, noise |-> briefing.noise,
                     rules |-> briefing.rules, written |-> briefing.written]
    <3>1. briefing' = [briefing EXCEPT !.at = "suppressions", !.alerts = read]
      BY <1>3 DEF ReadAlerts
    <3>. HIDE DEF read
    <3>. QED
      BY <2>1, <3>1, BriefingFields DEF BInv
  <2>5. \A i \in AlertIds, l \in Levels :
          [id |-> i, level |-> l] \in read
          <=> Live(i) /\ ~entries[i].resolved /\ entries[i].level = l
    OBVIOUS
  <2>. HIDE DEF read
  <2>6. briefing' \in BriefingState
    BY <2>1, <2>3, <2>4, BriefingFields DEF BInv, BriefingState
  <2>7. AlertsRead'
    BY <1>1, <2>4, <2>5 DEF AlertsRead
  <2>. QED
    BY <1>1, <2>4, <2>6, <2>7 DEF BInv, BTypeOK
<1>4. CASE ReadSuppressions
  <2>. DEFINE read == {i \in Suppressions : Live(i) /\ ~entries[i].expired}
  <2>1. briefing # NoBriefing /\ briefing.at = "suppressions"
    BY <1>4 DEF ReadSuppressions, NoBriefing
  <2>2. briefing' = [at |-> "patterns", alerts |-> briefing.alerts, noise |-> read,
                     rules |-> briefing.rules, written |-> briefing.written]
    <3>1. briefing' = [briefing EXCEPT !.at = "patterns", !.noise = read]
      BY <1>4 DEF ReadSuppressions
    <3>. HIDE DEF read
    <3>. QED
      BY <2>1, <3>1, BriefingFields DEF BInv
  <2>3. briefing' \in BriefingState
    BY <2>1, <2>2, BriefingFields DEF BInv, BriefingState
  <2>4. AlertsRead'
    BY <1>1, <2>1, <2>2 DEF BInv, AlertsRead
  <2>5. NoiseRead'
    BY <1>1, <2>2 DEF NoiseRead, Live
  <2>. QED
    BY <1>1, <2>2, <2>3, <2>4, <2>5 DEF BInv, BTypeOK
<1>5. CASE ReadPatterns
  <2>. DEFINE read == {entries[i].rule : i \in {j \in Patterns : Live(j)}}
  <2>1. briefing # NoBriefing /\ briefing.at = "patterns"
    BY <1>5 DEF ReadPatterns, NoBriefing
  <2>2. briefing' = [at |-> "answer", alerts |-> briefing.alerts, noise |-> briefing.noise,
                     rules |-> read, written |-> briefing.written]
    <3>1. briefing' = [briefing EXCEPT !.at = "answer", !.rules = read]
      BY <1>5 DEF ReadPatterns
    <3>. HIDE DEF read
    <3>. QED
      BY <2>1, <3>1, BriefingFields DEF BInv
  <2>3. read \in SUBSET PatternRules
    BY RowTypes DEF BInv, Live, PatternEntry
  <2>4. briefing' \in BriefingState
    BY <2>1, <2>2, <2>3, BriefingFields DEF BInv, BriefingState
  <2>5. AlertsRead'
    BY <1>1, <2>1, <2>2 DEF BInv, AlertsRead
  <2>6. NoiseRead'
    BY <1>1, <2>1, <2>2 DEF BInv, NoiseRead
  <2>7. RulesRead'
    BY <1>1, <2>2 DEF RulesRead
  <2>. QED
    BY <1>1, <2>2, <2>4, <2>5, <2>6, <2>7 DEF BInv, BTypeOK
<1>. QED
  BY <1>2, <1>3, <1>4, <1>5

\* The clock, and the end of a briefing.
LEMMA OtherBriefingSteps ==
  ASSUME BInv, NextHour \/ Answer \/ PassOver \/ UNCHANGED bvars
  PROVE  BInv'
<1>1. entries' = entries /\ \A k : Live(k)' = Live(k)
  BY DEF NextHour, Answer, PassOver, bvars, Live
<1>2. CASE Answer \/ PassOver
  <2>1. hour' = hour /\ briefing' = NoBriefing /\ NoBriefing.at = "none"
        /\ NoBriefing \in BriefingState
    BY <1>2 DEF Answer, PassOver, NoBriefing, BriefingState
  <2>. QED
    BY <1>1, <2>1 DEF BInv, BTypeOK
<1>3. CASE NextHour \/ UNCHANGED bvars
  <2>1. hour' \in 0..Hours - 1 /\ briefing' = briefing
    <3>1. hour \in 0..Hours - 1 /\ Hours \in Nat \ {0}
      BY ParametersAssumption DEF BInv, BTypeOK
    <3>2. (hour + 1) % Hours \in 0..Hours - 1
      BY <3>1
    <3>. QED
      BY <1>3, <3>1, <3>2 DEF NextHour, bvars
  <2>2. BTypeOK'
    BY <1>1, <2>1 DEF BInv, BTypeOK
  <2>3. (AlertsRead => AlertsRead') /\ (NoiseRead => NoiseRead')
    BY <1>1, <2>1 DEF AlertsRead, NoiseRead
  <2>4. RulesRead => RulesRead'
    BY <1>1, <2>1 DEF RulesRead
  <2>. QED
    BY <2>1, <2>2, <2>3, <2>4 DEF BInv
<1>. QED
  BY <1>2, <1>3

LEMMA BriefingStep == BInv /\ [BNext]_bvars => BInv'
<1>. SUFFICES ASSUME BInv, [BNext]_bvars PROVE BInv'
  OBVIOUS
<1>1. ASSUME NEW i \in Suppressions, Expire(i) PROVE BInv'
  BY <1>1, ExpireStep
<1>. QED
  BY <1>1, ToolSteps, ReadSteps, OtherBriefingSteps DEF BNext

LEMMA BriefingInit == BInit => BInv
<1>. SUFFICES ASSUME BInit PROVE BInv
  OBVIOUS
<1>1. /\ NoBriefing.at = "none" /\ NoBriefing \in BriefingState
      /\ Hours \in Nat \ {0}
  BY ParametersAssumption DEF NoBriefing, BriefingState
<1>2. /\ entries = [i \in EntryIds |-> NoEntry] /\ hour = 0 /\ briefing = NoBriefing
  BY DEF BInit
<1>3. BTypeOK
  BY <1>1, <1>2 DEF BTypeOK, EntryIds
<1>. QED
  BY <1>1, <1>2, <1>3 DEF BInv

LEMMA BriefingInvariant == BSpec => []BInv
BY BriefingInit, BriefingStep, PTL DEF BSpec

\* _conditions_match opens a window for the hours from its first to its last,
\* also past midnight.
LEMMA OpenIsWithin ==
  ASSUME BTypeOK, NEW w \in {<<>>} \cup (0..Hours) \X (0..Hours)
  PROVE  Open(w) <=> Within(w)
<1>1. CASE w = <<>>
  BY <1>1 DEF Open, Within
<1>2. CASE w \in (0..Hours) \X (0..Hours)
  <2>1. PICK b \in 0..Hours, e \in 0..Hours : w = <<b, e>>
    BY <1>2
  <2>2. w # <<>> /\ w[1] = b /\ w[2] = e
    BY <2>1
  <2>3. Hours \in Nat /\ Hours > 0 /\ hour \in Nat /\ hour < Hours
        /\ b \in Nat /\ e \in Nat /\ b <= Hours /\ e <= Hours
    BY ParametersAssumption DEF BTypeOK
  <2>4. (hour - b) % Hours = IF hour >= b THEN hour - b ELSE hour - b + Hours
    <3>1. CASE hour >= b
      <4>1. hour - b \in 0..Hours - 1
        BY <2>3, <3>1
      <4>2. \A x \in 0..Hours - 1 : x % Hours = x
        BY <2>3
      <4>. QED
        BY <3>1, <4>1, <4>2
    <3>2. CASE hour < b
      <4>1. hour - b + Hours \in 0..Hours - 1
        BY <2>3, <3>2
      <4>2. \A x \in 0..Hours - 1 : (x - Hours) % Hours = x
        BY <2>3
      <4>3. hour - b = (hour - b + Hours) - Hours
        BY <2>3
      <4>4. ~(hour >= b)
        BY <2>3, <3>2
      <4>. QED
        BY <4>1, <4>2, <4>3, <4>4
    <3>. QED
      BY <2>3, <3>1, <3>2
  <2>5. Within(w) <=> (hour - b) % Hours < (IF e < b THEN e + Hours ELSE e) - b
    BY <2>2 DEF Within
  <2>6. Open(w) <=> (IF b > e THEN hour >= b \/ hour < e ELSE b <= hour /\ hour < e)
    BY <2>2 DEF Open
  <2>. QED
    BY <2>3, <2>4, <2>5, <2>6
<1>. QED
  BY <1>1, <1>2

\* Among some suppressions one is tried before the others.
LEMMA OneIsFirst ==
  ASSUME BTypeOK, NEW S \in SUBSET Suppressions, S # {}, \A i \in S : entries[i] # NoEntry
  PROVE  \E i \in S : \A j \in S \ {i} : Before(i, j)
<1>1. /\ \A i \in S : i \in Int /\ entries[i].rule.own \in BOOLEAN
      /\ IsFiniteSet(S)
  <2>1. MaxSuppressions \in Nat
    BY ParametersAssumption
  <2>2. IsFiniteSet(Suppressions)
    BY <2>1, FS_Interval DEF Suppressions
  <2>3. \A i \in S : entries[i] \in SuppressionEntry
    BY RowTypes
  <2>4. \A i \in S : entries[i].rule.own \in BOOLEAN
    BY <2>3, ParametersAssumption DEF SuppressionEntry, SuppressionRule
  <2>. QED
    BY <2>1, <2>2, <2>4, FS_Subset DEF Suppressions
<1>2. \A i, j \in S : i # j => Before(i, j) \/ Before(j, i)
  BY <1>1 DEF Before
<1>3. \A i, j, k \in S : Before(i, j) /\ Before(j, k) => Before(i, k)
  <2>. SUFFICES ASSUME NEW i \in S, NEW j \in S, NEW k \in S, Before(i, j), Before(j, k)
                PROVE  Before(i, k)
    OBVIOUS
  <2>. QED
    BY <1>1 DEF Before
<1>4. \A i \in S : ~Before(i, i)
  BY <1>1 DEF Before
<1>. DEFINE earlier(i) == {j \in S : Before(j, i)}
            sets == {earlier(i) : i \in S}
<1>5. sets \subseteq FiniteSubsetsOf(S) /\ sets # {}
  <2>1. \A i \in S : earlier(i) \in FiniteSubsetsOf(S)
    BY <1>1, FS_Subset DEF FiniteSubsetsOf
  <2>. QED
    BY <2>1
<1>. HIDE DEF sets
<1>6. PICK least \in sets : \A B \in sets : <<B, least>> \notin StrictSubsetOrdering(S)
  BY <1>1, <1>5, FS_StrictSubsetOrderingWellFounded, WFMin
<1>7. PICK i \in S : least = earlier(i)
  BY DEF sets
<1>8. ASSUME NEW j \in S \ {i}, Before(j, i)
      PROVE  FALSE
  <2>1. earlier(j) \in sets
    BY DEF sets
  <2>2. earlier(j) \subseteq earlier(i) /\ j \in earlier(i) /\ j \notin earlier(j)
    BY <1>3, <1>4, <1>8
  <2>3. <<earlier(j), earlier(i)>> \in StrictSubsetOrdering(S)
    BY <1>5, <1>7, <2>1, <2>2 DEF StrictSubsetOrdering
  <2>. QED
    BY <1>6, <1>7, <2>1, <2>3
<1>. QED
  BY <1>2, <1>8

\* What an answer hides or surfaces.
LEMMA AnswerHides ==
  ASSUME BInv, Answer, NEW i \in AlertIds, Throughout(i), ~entries[i].resolved,
         \A a \in Surfaced : a.id # i
  PROVE  \/ \E j \in Suppressions :
              /\ Sometime(j) /\ ~entries[j].expired /\ i \in entries[j].rule.alerts
              /\ entries[i].level <= entries[j].rule.level \/ ~entries[j].rule.override
         \/ \E j \in Patterns :
              \/ j \in briefing.written
              \/ /\ Live(j) /\ i \in entries[j].rule.alerts
                 /\ Within(entries[j].rule.window)
<1>. DEFINE a == [id |-> i, level |-> entries[i].level]
<1>1. /\ briefing.at = "answer" /\ briefing # NoBriefing
      /\ AlertsRead /\ NoiseRead /\ RulesRead /\ BTypeOK
  BY DEF Answer, BInv, NoBriefing
<1>2. entries[i] \in AlertEntry /\ entries[i].level \in Levels
  BY <1>1, RowTypes DEF Throughout, Live, AlertEntry
<1>3. a \in briefing.alerts /\ a.id = i /\ a.level = entries[i].level
  BY <1>1, <1>2 DEF AlertsRead, Throughout
<1>. HIDE DEF a
<1>4. Suppressed(a, briefing.noise) \/ Expected(a, briefing.rules)
  BY <1>3 DEF Surfaced
<1>5. CASE Suppressed(a, briefing.noise)
  <2>1. PICK j \in briefing.noise : Matches(j, a) /\ ~Escalated(j, a)
    BY <1>5 DEF Suppressed
  <2>2. j \in Suppressions /\ entries[j] # NoEntry /\ entries[j] \in SuppressionEntry
    BY <1>1, BriefingFields, RowTypes DEF NoiseRead
  <2>3. Sometime(j)
    BY <1>1, <2>2 DEF NoiseRead, Sometime
  <2>4. entries[j].rule.level \in Levels /\ entries[j].rule.override \in BOOLEAN
    BY <2>2, ParametersAssumption DEF SuppressionEntry, SuppressionRule
  <2>5. entries[i].level <= entries[j].rule.level \/ ~entries[j].rule.override
    <3>1. \A l \in Levels : l \in Int
      BY ParametersAssumption
    <3>2. entries[i].level \in Int /\ entries[j].rule.level \in Int
      BY <1>2, <2>4, <3>1
    <3>. QED
      BY <1>3, <2>1, <2>4, <3>2 DEF Escalated
  <2>6. ~entries[j].expired /\ i \in entries[j].rule.alerts
    BY <1>3, <2>1 DEF Matches
  <2>. QED
    BY <2>2, <2>3, <2>5, <2>6
<1>6. CASE Expected(a, briefing.rules)
  <2>1. PICK r \in briefing.rules : a.id \in r.alerts /\ Open(r.window)
    BY <1>6 DEF Expected
  <2>2. r \in PatternRule
    BY <1>1, BriefingFields, ParametersAssumption
  <2>3. Within(r.window)
    BY <1>1, <2>1, <2>2, OpenIsWithin DEF PatternRule
  <2>4. PICK j \in Patterns : j \in briefing.written \/ (Live(j) /\ entries[j].rule = r)
    BY <1>1 DEF RulesRead
  <2>. QED
    BY <1>3, <2>1, <2>3, <2>4
<1>. QED
  BY <1>4, <1>5, <1>6

LEMMA AnswerSurfaces ==
  ASSUME BInv, Answer, NEW a \in Surfaced
  PROVE  /\ \A j \in Patterns :
              (Throughout(j) /\ a.id \in entries[j].rule.alerts)
              => ~Within(entries[j].rule.window)
         /\ \A j \in Suppressions :
              (Throughout(j) /\ Matches(j, a))
              => \E i \in Suppressions : Sometime(i) /\ Matches(i, a) /\ Escalated(i, a)
<1>1. /\ briefing.at = "answer" /\ briefing # NoBriefing
      /\ NoiseRead /\ RulesRead /\ BTypeOK
  BY DEF Answer, BInv, NoBriefing
<1>2. ~Suppressed(a, briefing.noise) /\ ~Expected(a, briefing.rules)
  BY DEF Surfaced
<1>3. ASSUME NEW j \in Patterns, Throughout(j), a.id \in entries[j].rule.alerts
      PROVE  ~Within(entries[j].rule.window)
  <2>1. entries[j].rule \in briefing.rules
    BY <1>1, <1>3 DEF RulesRead, Throughout
  <2>2. ~Open(entries[j].rule.window)
    BY <1>2, <1>3, <2>1 DEF Expected
  <2>3. entries[j].rule \in PatternRule
    BY <1>1, <2>1, BriefingFields, ParametersAssumption
  <2>. QED
    BY <1>1, <2>2, <2>3, OpenIsWithin DEF PatternRule
<1>4. ASSUME NEW j \in Suppressions, Throughout(j), Matches(j, a)
      PROVE  \E i \in Suppressions : Sometime(i) /\ Matches(i, a) /\ Escalated(i, a)
  <2>. DEFINE S == {i \in briefing.noise : Matches(i, a)}
  <2>1. j \in S
    BY <1>1, <1>4 DEF NoiseRead, Throughout, Matches
  <2>2. S \in SUBSET Suppressions /\ \A i \in S : entries[i] # NoEntry
    BY <1>1, BriefingFields DEF NoiseRead
  <2>3. PICK i \in S : \A k \in S \ {i} : Before(i, k)
    BY <1>1, <2>1, <2>2, OneIsFirst
  <2>4. Escalated(i, a)
    BY <1>2, <2>3 DEF Suppressed
  <2>5. Sometime(i)
    BY <1>1, <2>2 DEF NoiseRead, Sometime
  <2>. QED
    BY <2>2, <2>4, <2>5
<1>. QED
  BY <1>3, <1>4

\* A briefing hides an alert that was open all along only for a suppression or
\* a pattern it read, whatever other servers write between its five reads.
THEOREM AlertsHiddenForAReason == BSpec => HiddenForAReason
<1>1. BInv /\ [BNext]_bvars =>
        [Answer =>
           \A i \in AlertIds :
             (/\ Throughout(i) /\ ~entries[i].resolved
              /\ \A a \in Surfaced : a.id # i)
             => \/ \E j \in Suppressions :
                     /\ Sometime(j) /\ ~entries[j].expired /\ i \in entries[j].rule.alerts
                     /\ entries[i].level <= entries[j].rule.level \/ ~entries[j].rule.override
                \/ \E j \in Patterns :
                     \/ j \in briefing.written
                     \/ /\ Live(j) /\ i \in entries[j].rule.alerts
                        /\ Within(entries[j].rule.window)]_bvars
  BY AnswerHides
<1>. QED
  BY <1>1, BriefingInvariant, PTL DEF BSpec, HiddenForAReason

\* ... and surfaces none that a pattern expects, nor one that a suppression
\* matches unless it breaks through one.
THEOREM SurfacedIsNoNoise == BSpec => NoiseIsFiltered
<1>1. BInv /\ [BNext]_bvars =>
        [Answer =>
           \A a \in Surfaced :
             /\ \A j \in Patterns :
                  (Throughout(j) /\ a.id \in entries[j].rule.alerts)
                  => ~Within(entries[j].rule.window)
             /\ \A j \in Suppressions :
                  (Throughout(j) /\ Matches(j, a))
                  => \E i \in Suppressions :
                       Sometime(i) /\ Matches(i, a) /\ Escalated(i, a)]_bvars
  BY AnswerSurfaces
<1>. QED
  BY <1>1, BriefingInvariant, PTL DEF BSpec, NoiseIsFiltered
=============================================================================
