----------------------------- MODULE EntryStore -----------------------------
(* The life of knowledge entries (notes, patterns, contexts, preferences) in  *)
(* the entries table, as PostgresStore and the MCP tools drive it:            *)
(*   - add, and upsert_by_logical_key (remember with a logical_key);          *)
(*   - update_entry, which reads the entry in one transaction and writes it   *)
(*     back whole in another;                                                 *)
(*   - soft_delete_by_id / _by_source / _by_tags and restore_by_id / _by_tags;*)
(*   - the background cleanup thread that hard-deletes expired rows.          *)
(*                                                                            *)
(* Several servers share the table.  A server runs one tool call at a time    *)
(* (its event loop never yields inside a store call); its cleanup thread runs *)
(* beside it.  Every statement carries owner_id = %s, so the rows of one      *)
(* owner are followed.  A row keeps what the properties tell apart: source,   *)
(* logical key, one content field (possibly absent), expiry, the saved        *)
(* _original_expires, the deletion time and the changelog.                    *)
EXTENDS Naturals, Sequences, FiniteSets

CONSTANTS
    Ids,        \* entry ids (make_id: never reused)
    Servers,    \* server processes
    Sources,    \* values of entries.source
    Keys,       \* logical keys
    NoKey,      \* logical_key IS NULL
    Values,     \* values of data.content
    Absent,     \* data has no content key; also "content not given" in a request
    Ttls,       \* lifetimes a context may be created with (expires_days)
    Retention,  \* TRASH_RETENTION_DAYS
    MaxTime,    \* bound on the clock
    MaxEdits    \* bound on the changelog of a row

ASSUME ParametersAssumption ==
    /\ NoKey \notin Keys
    /\ Absent \notin Values
    /\ Ttls \subseteq Nat \ {0}
    /\ Retention \in Nat \ {0}
    /\ MaxTime \in Nat
    /\ MaxEdits \in Nat

VARIABLES
    rows,        \* [Ids -> Row], the entries table
    flight,      \* [Servers -> Flight], the tool call each server is in
    cleaner,     \* [Servers -> Cleaner], each server's cleanup thread
    autoCleanup, \* the owner's auto_cleanup preference reads "true"
    time,        \* now, in days; 0 stands for NULL in a column
    due,         \* history: the expiry each entry was created with
    past,        \* history: the <<field, value>> pairs each entry has lost
    overlapped   \* history: entries an update wrote back over changes made since it read them

vars == <<rows, flight, cleaner, autoCleanup, time, due, past, overlapped>>

None == 0
Fields == {"source", "content"}
Contents == Values \cup {Absent}
FieldValues == Sources \cup Contents

\* One changelog element: the fields an edit changed, with the values they had.
Change == UNION {[D -> FieldValues] : D \in SUBSET Fields}

Row == [state    : {"active", "trash"},
        source   : Sources,
        key      : Keys \cup {NoKey},
        content  : Contents,
        expires  : Nat,
        original : Nat,
        deleted  : Nat,
        log      : Seq(Change)]

\* An id not used yet, and an id whose row was hard-deleted.
Unused == [state |-> "none"]
Purged == [state |-> "purged"]

\* A tool call between two transactions (update_entry, holding the entry it
\* read) or two statements (upsert_by_logical_key, holding the row's lock).
Call == [at : {"update"}, id : Ids, source : Sources, content : Contents, row : Row]
        \cup [at : {"merge"}, id : Ids, source : Sources, key : Keys, content : Contents]
Idle == [at |-> "idle"]
Flight == {Idle} \cup Call

Cleaner == [at : {"idle", "start", "delete"}, now : Nat]
NoThread == [at |-> "idle", now |-> None]

-----------------------------------------------------------------------------
Active(i) == rows[i].state = "active"
Exists(i) == rows[i].state \in {"active", "trash"}

\* The partial unique index idx_entries_source_logical_key over a table `table`:
\* two active rows never share a source and a logical key.
IndexHolds(table) ==
    \A i, j \in Ids :
        /\ i # j
        /\ table[i].state = "active" /\ table[j].state = "active"
        /\ table[i].key # NoKey
        => <<table[i].source, table[i].key>> # <<table[j].source, table[j].key>>

\* The active row an INSERT for this source and key conflicts with, if any.
InSlot(i, src, k) == Active(i) /\ rows[i].key = k /\ rows[i].source = src

\* A mistaken ON CONFLICT DO NOTHING, which locks no row.
LockedNever(i) == FALSE

\* ON CONFLICT DO UPDATE SET id = entries.id leaves the row locked until the
\* transaction ends; every other writer of the row waits.
Locked(i) == \E s \in Servers : flight[s].at = "merge" /\ flight[s].id = i

Ready(s) == flight[s] = Idle
Answer(s) == flight' = [flight EXCEPT ![s] = Idle]

\* _cleanup_expired: a write may start the cleanup thread, unless the debounce
\* interval has not passed or the previous thread is still alive.
ScheduleCleanup(s) ==
    \/ UNCHANGED cleaner
    \/ /\ cleaner[s].at = "idle"
       /\ cleaner' = [cleaner EXCEPT ![s] = [at |-> "start", now |-> None]]

Init ==
    /\ rows = [i \in Ids |-> Unused]
    /\ flight = [s \in Servers |-> Idle]
    /\ cleaner = [s \in Servers |-> NoThread]
    /\ autoCleanup = FALSE
    /\ time = 1
    /\ due = [i \in Ids |-> None]
    /\ past = [i \in Ids |-> {}]
    /\ overlapped = {}

-----------------------------------------------------------------------------
\* add, and the insert half of upsert_by_logical_key.
Insert(i, src, k, c, exp) ==
    /\ rows[i] = Unused
    /\ rows' = [rows EXCEPT ![i] =
                   [state |-> "active", source |-> src, key |-> k, content |-> c,
                    expires |-> exp, original |-> None, deleted |-> None,
                    log |-> <<>>]]
    /\ due' = [due EXCEPT ![i] = exp]

\* add: remember without a logical_key (ttl None: never expires), add_context.
Add(s, i, src, c, ttl) ==
    /\ Ready(s)
    /\ Insert(i, src, NoKey, c, IF ttl = None THEN None ELSE time + ttl)
    /\ ScheduleCleanup(s)
    /\ Answer(s)
    /\ UNCHANGED <<autoCleanup, time, past, overlapped>>

\* add_context: what is recorded expires after expires_days, at least one.
AddContext(s, i, src, c, ttl) == ttl # None /\ Add(s, i, src, c, ttl)

\* upsert_by_logical_key when no active row has the source and key.
UpsertInsert(s, i, src, k, c) ==
    /\ Ready(s)
    /\ \A j \in Ids : ~InSlot(j, src, k)
    /\ Insert(i, src, k, c, None)
    /\ ScheduleCleanup(s)
    /\ Answer(s)
    /\ UNCHANGED <<autoCleanup, time, past, overlapped>>

\* ... and when one has: ON CONFLICT DO UPDATE locks it.
UpsertConflict(s, j, src, k, c) ==
    /\ Ready(s)
    /\ InSlot(j, src, k)
    /\ ~Locked(j)
    /\ Len(rows[j].log) < MaxEdits
    /\ flight' = [flight EXCEPT ![s] = [at |-> "merge", id |-> j, source |-> src,
                                       key |-> k, content |-> c]]
    /\ UNCHANGED <<rows, cleaner, autoCleanup, time, due, past, overlapped>>

\* The fields of row r that a request for source src and content c changes.  A
\* field the entry does not have yet is not among them.
Changed(r, src, c) ==
    {f \in Fields : \/ f = "source" /\ src # r.source
                    \/ f = "content" /\ c \notin {Absent, r.content} /\ r.content # Absent}

\* A mistaken edit that replaces what it changes without recording it.
EditedNoChangelog(r, src, c) ==
    [r EXCEPT !.source = src, !.content = IF c = Absent THEN @ ELSE c]

\* A mistaken edit that records a null for every value it replaces.
EditedLoggingNull(r, src, c) ==
    [r EXCEPT !.source = src,
              !.content = IF c = Absent THEN @ ELSE c,
              !.log = Append(@, [f \in Changed(r, src, c) |-> None])]

\* The row update_entry and upsert_by_logical_key write back for r.
Edited(r, src, c) ==
    [r EXCEPT !.source = src,
              !.content = IF c = Absent THEN @ ELSE c,
              !.log = Append(@, [f \in Changed(r, src, c) |-> r[f]])]

\* What is lost when `old` is overwritten by `new`.
Overwritten(old, new) ==
    {<<f, old[f]>> : f \in {g \in Fields : old[g] # new[g] /\ old[g] # Absent}}

\* Replace row i, whose history gains what the write destroys.
WriteRow(i, new) ==
    /\ rows' = [rows EXCEPT ![i] = new]
    /\ past' = [past EXCEPT ![i] = @ \cup Overwritten(rows[i], new)]

\* The rest of upsert_by_logical_key's transaction: fetch the row by source and
\* key, diff it against the request, write it back if a field changed, commit.
UpsertMerge(s) ==
    /\ flight[s].at = "merge"
    /\ LET f == flight[s] IN
          IF Changed(rows[f.id], f.source, f.content) = {}
          THEN UNCHANGED <<rows, past>>
          ELSE WriteRow(f.id, Edited(rows[f.id], f.source, f.content))
    /\ Answer(s)
    /\ UNCHANGED <<cleaner, autoCleanup, time, due, overlapped>>

\* update_entry, first transaction: read the active entry.
UpdateRead(s, i, src, c) ==
    /\ Ready(s)
    /\ Active(i)
    /\ Len(rows[i].log) < MaxEdits
    /\ flight' = [flight EXCEPT ![s] = [at |-> "update", id |-> i, source |-> src,
                                       content |-> c, row |-> rows[i]]]
    /\ ScheduleCleanup(s)
    /\ UNCHANGED <<rows, autoCleanup, time, due, past, overlapped>>

\* update_entry when the diff is empty: the entry is returned, nothing is written.
UpdateUnchanged(s) ==
    /\ flight[s].at = "update"
    /\ Changed(flight[s].row, flight[s].source, flight[s].content) = {}
    /\ Answer(s)
    /\ UNCHANGED <<rows, cleaner, autoCleanup, time, due, past, overlapped>>

\* What update_entry writes back was changed since it read the row as `old`.
Stale(old, row) ==
    \E column \in {"source", "content", "log", "original"} : old[column] # row[column]

\* update_entry, second transaction: UPDATE ... WHERE id, which writes source and
\* data (content, changelog, _original_expires) as they were read, edited, and
\* leaves expires and deleted alone.  It hits a trashed row too; a purged row is
\* missed without notice; the unique index may refuse it.
UpdateWrite(s) ==
    /\ flight[s].at = "update"
    /\ LET f   == flight[s]
           new == Edited(f.row, f.source, f.content)
           to  == [rows[f.id] EXCEPT !.source = new.source, !.content = new.content,
                                     !.log = new.log, !.original = new.original]
       IN  /\ Changed(f.row, f.source, f.content) # {}
           /\ ~Locked(f.id)
           /\ \/ /\ ~Exists(f.id)
                 /\ Answer(s)
                 /\ UNCHANGED <<rows, past, overlapped>>
              \/ /\ Exists(f.id)
                 /\ IndexHolds([rows EXCEPT ![f.id] = to])
                 /\ WriteRow(f.id, to)
                 /\ overlapped' = IF Stale(f.row, rows[f.id]) THEN overlapped \cup {f.id}
                                  ELSE overlapped
                 /\ Answer(s)
              \/ /\ Exists(f.id)
                 /\ ~IndexHolds([rows EXCEPT ![f.id] = to])
                 /\ Answer(s)
                 /\ UNCHANGED <<rows, past, overlapped>>
    /\ UNCHANGED <<cleaner, autoCleanup, time, due>>

-----------------------------------------------------------------------------
\* A mistaken delete that leaves the expiry of the entry in place.
TrashedKeepingExpiry(r) ==
    [r EXCEPT !.state = "trash", !.original = r.expires, !.deleted = time]

\* A row moved to the trash: its expiry is saved in data._original_expires (the
\* key is removed when there is none) and replaced by the end of the retention.
Trashed(r) ==
    [r EXCEPT !.state = "trash", !.original = r.expires,
              !.deleted = time, !.expires = time + Retention]

\* A mistaken restore that leaves the end of the retention as the entry's expiry.
RestoredKeepingExpiry(r) ==
    [r EXCEPT !.state = "active", !.original = None, !.deleted = None]

Restored(r) ==
    [r EXCEPT !.state = "active", !.expires = r.original,
              !.original = None, !.deleted = None]

\* One UPDATE statement trashes every active row of S.
SoftDelete(s, S) ==
    /\ Ready(s)
    /\ \A i \in S : Active(i) /\ ~Locked(i)
    /\ rows' = [i \in Ids |-> IF i \in S THEN Trashed(rows[i]) ELSE rows[i]]
    /\ Answer(s)
    /\ UNCHANGED <<cleaner, autoCleanup, time, due, past, overlapped>>

SoftDeleteById(s, i) == SoftDelete(s, {i})

SoftDeleteBySource(s, src) ==
    SoftDelete(s, {i \in Ids : Active(i) /\ rows[i].source = src})

\* Tags are not kept in a row, so a set of tags may match any set of rows.
SoftDeleteByTags(s) == \E S \in SUBSET Ids \ {{}} : SoftDelete(s, S)

\* One UPDATE statement restores every trashed row of S; if that would put two
\* active rows under one logical key the index fails the whole statement.
Restore(s, S) ==
    LET table == [i \in Ids |-> IF i \in S THEN Restored(rows[i]) ELSE rows[i]] IN
    /\ Ready(s)
    /\ \A i \in S : rows[i].state = "trash" /\ ~Locked(i)
    /\ rows' = IF IndexHolds(table) THEN table ELSE rows
    /\ Answer(s)
    /\ UNCHANGED <<cleaner, autoCleanup, time, due, past, overlapped>>

RestoreById(s, i) == Restore(s, {i})
RestoreByTags(s) == \E S \in SUBSET Ids \ {{}} : Restore(s, S)

\* set_preference(auto_cleanup), which upsert_preference serializes, or deleting
\* that preference.
SetAutoCleanup(s, on) ==
    /\ Ready(s)
    /\ autoCleanup' = on
    /\ ScheduleCleanup(s)
    /\ Answer(s)
    /\ UNCHANGED <<rows, time, due, past, overlapped>>

-----------------------------------------------------------------------------
\* _do_cleanup, first transaction: take the time, list the owners who opted in.
CleanupList(s) ==
    /\ cleaner[s].at = "start"
    /\ cleaner' = [cleaner EXCEPT ![s] =
                      IF autoCleanup THEN [at |-> "delete", now |-> time] ELSE NoThread]
    /\ UNCHANGED <<rows, flight, autoCleanup, time, due, past, overlapped>>

Expired(i, now) == Exists(i) /\ rows[i].expires # None /\ rows[i].expires <= now

\* ... then DELETE the owner's expired rows, trashed or not.
CleanupDelete(s) ==
    /\ cleaner[s].at = "delete"
    /\ LET gone == {i \in Ids : Expired(i, cleaner[s].now)} IN
          /\ \A i \in gone : ~Locked(i)
          /\ rows' = [i \in Ids |-> IF i \in gone THEN Purged ELSE rows[i]]
    /\ cleaner' = [cleaner EXCEPT ![s] = NoThread]
    /\ UNCHANGED <<flight, autoCleanup, time, due, past, overlapped>>

\* A statement fails, or the server stops: the transaction rolls back, the call
\* and the cleanup thread are gone.
Abort(s) ==
    /\ Answer(s)
    /\ cleaner' = [cleaner EXCEPT ![s] = NoThread]
    /\ UNCHANGED <<rows, autoCleanup, time, due, past, overlapped>>

Tick ==
    /\ time < MaxTime
    /\ time' = time + 1
    /\ UNCHANGED <<rows, flight, cleaner, autoCleanup, due, past, overlapped>>

Next ==
    \/ \E s \in Servers :
          \/ \E i \in Ids, src \in Sources, c \in Contents :
                \/ Add(s, i, src, c, None)
                \/ \E ttl \in Ttls : AddContext(s, i, src, c, ttl)
                \/ \E k \in Keys : \/ UpsertInsert(s, i, src, k, c)
                                  \/ UpsertConflict(s, i, src, k, c)
                \/ UpdateRead(s, i, src, c)
          \/ UpsertMerge(s)
          \/ UpdateUnchanged(s)
          \/ UpdateWrite(s)
          \/ \E i \in Ids : SoftDeleteById(s, i) \/ RestoreById(s, i)
          \/ \E src \in Sources : SoftDeleteBySource(s, src)
          \/ SoftDeleteByTags(s)
          \/ RestoreByTags(s)
          \/ \E on \in BOOLEAN : SetAutoCleanup(s, on)
          \/ CleanupList(s)
          \/ CleanupDelete(s)
          \/ Abort(s)
    \/ Tick

Spec == Init /\ [][Next]_vars

-----------------------------------------------------------------------------
\* Every variable stays in its type.
TypeOK ==
    /\ rows \in [Ids -> {Unused, Purged} \cup Row]
    /\ flight \in [Servers -> Flight]
    /\ cleaner \in [Servers -> Cleaner]
    /\ autoCleanup \in BOOLEAN
    /\ time \in Nat \ {0}
    /\ due \in [Ids -> Nat]
    /\ past \in [Ids -> SUBSET (Fields \X FieldValues)]
    /\ overlapped \subseteq Ids

\* upsert_by_logical_key takes rows[0] of its second query unchecked: between
\* the conflicting INSERT and that query the row under the logical key must
\* still be there, and be the only one, whatever other servers delete, restore,
\* rename or purge meanwhile.
UpsertFindsRow ==
    \A s \in Servers : flight[s].at = "merge" =>
        {i \in Ids : InSlot(i, flight[s].source, flight[s].key)} = {flight[s].id}

\* The cleanup thread, working from a clock and an owner list that may be stale,
\* never hard-deletes a trashed row before its retention is over, nor an active
\* one before the expiry it was created with.
NeverPurgedEarly ==
    [][\A i \in Ids : Exists(i) /\ rows'[i] = Purged =>
          \/ rows[i].state = "trash" /\ rows[i].deleted + Retention <= time
          \/ Active(i) /\ due[i] # None /\ due[i] <= time]_vars

\* An active entry has the expiry it was created with, however often it was
\* trashed, edited and restored ("Recovers the original expires value that was
\* saved during soft-delete", restore_by_id), unless an update_entry wrote back
\* what another server had changed since it was read.
LifetimeKept == \A i \in Ids \ overlapped : Active(i) => rows[i].expires = due[i]

\* ... and this is what the docstring says.
LifetimeAlwaysKept == \A i \in Ids : Active(i) => rows[i].expires = due[i]

\* Every value an edit replaced is in the entry's changelog ("In-place updates
\* track all changes in a changelog", README), unless an update_entry wrote back
\* what another server had changed since it was read.
ChangelogComplete ==
    \A i \in Ids \ overlapped : Exists(i) =>
        \A p \in past[i] : \E n \in DOMAIN rows[i].log :
            p[1] \in DOMAIN rows[i].log[n] /\ rows[i].log[n][p[1]] = p[2]

\* When update_entry or an upsert answers with success, the entry, if it still
\* exists, has the content that was asked for ("it will be updated in place",
\* remember).
UpdateTakesEffect ==
    [][\A s \in Servers :
          /\ UpdateUnchanged(s) \/ UpsertMerge(s) \/ (UpdateWrite(s) /\ rows' # rows)
          /\ flight[s].content # Absent
          /\ rows'[flight[s].id].state \in {"active", "trash"}
          => rows'[flight[s].id].content = flight[s].content]_vars
=============================================================================
