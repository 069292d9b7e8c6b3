------------------------------ MODULE Records ------------------------------
(***************************************************************************)
(* Schemas and the records validated against them.  A record pins a family *)
(* and a version of it ("pin"); a schema is found by the logical key       *)
(* composed of them, the caller's own before those the operator registered *)
(* for _system, and records are counted by splitting that key again.       *)
(*                                                                         *)
(* The tools resolve, validate, count and write in separate transactions,  *)
(* and several servers share the table, so a call is followed from one     *)
(* transaction to the next.  The entries of one caller and of _system are  *)
(* followed; tags, sources that change, expiry and changelogs are in       *)
(* EntryStore.  Validation is abstract: a schema body is the set of the    *)
(* contents it accepts.  A name is the sequence of its parts between       *)
(* colons: "a:1" is <<"a", "1">>, and joining two names with a colon is    *)
(* concatenation.                                                          *)
(***************************************************************************)
EXTENDS SequencesExt

CONSTANTS Ids,       \* entry ids (make_id: never reused)
          Servers,   \* server processes
          Sources,   \* values of entries.source
          Parts,     \* what stands between the colons of a name
          Empty,     \* the part that is the empty string
          Keys,      \* logical keys, those of schemas among them
          Pins,      \* <<family, version>>, as a record may pin them
          Contents,  \* values of data.content
          Absent,    \* no content; not given
          Caller, System,  \* the two owners
          Schemas,   \* the registrations that may be asked for
          Slots      \* the source and logical key a record or note may be given

\* compose_schema_logical_key: the two joined by a colon.
Compose(pin) == pin[1] \o pin[2]

ASSUME RecordsAssumption ==
  /\ \A pin \in Pins : /\ pin = <<pin[1], pin[2]>>
                       /\ pin[1] \in Seq(Parts) \ {<<>>, <<Empty>>}
                       /\ pin[2] \in Seq(Parts) \ {<<>>, <<Empty>>}
                       /\ Compose(pin) \in Keys
  /\ Absent \notin Contents
  /\ Caller # System
  /\ Schemas \subseteq [owner : {Caller, System}, source : Sources, pin : Pins,
                        body : SUBSET Contents]
  /\ Slots \subseteq Sources \X Keys

VARIABLES rows,        \* [Ids -> Row], the entries table
          flight,      \* [Servers -> Flight], the tool call each server is in
          registered,  \* history: the <<key, body>> of every schema there was
          vetted,      \* history: the records whose content passed validation
          arrived      \* history: [Servers -> SUBSET Ids], the entries that became
                       \* active during the deletion the server is in

vars == <<rows, flight, registered, vetted, arrived>>

\* body: of a schema, else {}.  pin: of a record (data.schema_ref and
\* schema_version), else Absent.
Row == [state : {"unused", "active", "trash", "purged"},
        type : {"schema", "record", "note"}, owner : {Caller, System},
        source : Sources \cup {Absent}, key : Keys \cup {Absent},
        pin : Pins \cup {Absent}, body : SUBSET Contents,
        content : Contents \cup {Absent}]

Unused == [state |-> "unused", type |-> "note", owner |-> Caller, source |-> Absent,
           key |-> Absent, pin |-> Absent, body |-> {}, content |-> Absent]
Purged == [Unused EXCEPT !.state = "purged"]

Idle == [at |-> "idle"]

\* create_record after validation; update_entry before resolving, before and
\* after the store reads the entry; delete_entry before counting and deleting.
Flight ==
  {Idle}
  \cup [at : {"upsert"}, source : Sources, key : Keys, pin : Pins, content : Contents]
  \cup [at : {"resolve"}, id : Ids, pin : Pins, content : Contents]
  \cup [at : {"reread"}, id : Ids, content : Contents \cup {Absent}, vetted : BOOLEAN]
  \cup [at : {"write"}, id : Ids, content : Contents \cup {Absent}, vetted : BOOLEAN]
  \cup [at : {"count"}, id : Ids, key : Keys]
  \cup [at : {"trash"}, id : Ids]

Init ==
  /\ rows = [i \in Ids |-> Unused]
  /\ flight = [s \in Servers |-> Idle]
  /\ registered = {}
  /\ vetted = {}
  /\ arrived = [s \in Servers |-> {}]

-----------------------------------------------------------------------------
Active(i) == rows[i].state = "active"
Own(i) == Active(i) /\ rows[i].owner = Caller

\* The partial unique index on (owner_id, source, logical_key) over `table`.
IndexHolds(table) ==
  \A i, j \in Ids :
    (i # j /\ table[i].state = "active" /\ table[j].state = "active")
    => <<table[i].owner, table[i].source, table[i].key>>
         # <<table[j].owner, table[j].source, table[j].key>>

SchemasAt(key, owner) ==
  {i \in Ids : Active(i) /\ rows[i].type = "schema" /\ rows[i].key = key
               /\ rows[i].owner = owner}

\* resolve_schema: what LIMIT 1 of find_schema may return.  Schemas with one
\* logical key and different sources tie.
Resolved(pin) ==
  LET own == SchemasAt(Compose(pin), Caller)
  IN  IF own # {} THEN own ELSE SchemasAt(Compose(pin), System)

\* Mistake: without a schema there is nothing to validate.
PassesUnresolved(pin, content) ==
  Resolved(pin) = {} \/ \E i \in Resolved(pin) : content \in rows[i].body

\* resolve_schema and validate_record_content: content may pass.
Passes(pin, content) == \E i \in Resolved(pin) : content \in rows[i].body

\* rpartition(":"): a family of any length and a version of one part.
Split(key) == <<Front(key), <<Last(key)>>>>

\* count_records_referencing: the records that pin what the key splits into.
Referencing(key) ==
  {i \in Ids : Own(i) /\ rows[i].type = "record" /\ rows[i].pin = Split(key)}

Ready(s) == flight[s] = Idle
Goto(s, f) == flight' = [flight EXCEPT ![s] = f]

\* Every action: which entries became active during the deletions in progress.
Arrivals ==
  arrived' = [s \in Servers |->
    IF flight'[s].at \notin {"count", "trash"} THEN {}
    ELSE arrived[s] \cup {i \in Ids : rows'[i].state = "active" /\ ~Active(i)}]

\* INSERT: refused by the index, or a new row.
Insert(i, row) ==
  /\ rows[i].state = "unused"
  /\ IndexHolds([rows EXCEPT ![i] = row])
  /\ rows' = [rows EXCEPT ![i] = row]

\* Whether the content of row i is now validated.
Vet(i, ok) == vetted' = IF ok THEN vetted \cup {i} ELSE vetted \ {i}

-----------------------------------------------------------------------------
\* register_schema and, for _system, the operator's command: one INSERT.  A body
\* that is not a JSON Schema is refused first.
RegisterSchema(i, reg) ==
  /\ Insert(i, [state |-> "active", type |-> "schema", owner |-> reg.owner,
                source |-> reg.source, key |-> Compose(reg.pin), pin |-> Absent,
                body |-> reg.body, content |-> Absent])
  /\ registered' = registered \cup {<<Compose(reg.pin), reg.body>>}
  /\ UNCHANGED <<flight, vetted>>
  /\ Arrivals

Register(s, i, reg) == Ready(s) /\ reg.owner = Caller /\ RegisterSchema(i, reg)
CliRegister(i, reg) == reg.owner = System /\ RegisterSchema(i, reg)

\* Mistake: the row takes the type of the new entry.
MergedRetyped(i, row, other) == [rows[i] EXCEPT !.type = row.type, !.content = row.content]

\* upsert_by_logical_key onto the active row i: content the entry had none of is
\* written only if the description or the tags (`other`) change with it.
Merged(i, row, other) ==
  [rows[i] EXCEPT !.content = IF @ = Absent /\ ~other THEN @ ELSE row.content]

\* upsert_by_logical_key: `row` is inserted, or its content merged into the row
\* of its slot, which keeps its type and pin.  ok: content was validated for pin.
Upsert(row, ok) ==
  LET slot == {i \in Ids : Own(i) /\ rows[i].source = row.source /\ rows[i].key = row.key}
  IN  IF slot = {}
      THEN \E i \in Ids : Insert(i, row) /\ Vet(i, ok)
      ELSE \E i \in slot, other \in BOOLEAN :
             /\ rows' = [rows EXCEPT ![i] = Merged(i, row, other)]
             /\ Vet(i, ok /\ rows[i].pin = row.pin /\ rows[i].type = row.type)

NewRow(type, source, key, pin, content) ==
  [state |-> "active", type |-> type, owner |-> Caller, source |-> source,
   key |-> key, pin |-> pin, body |-> {}, content |-> content]

\* create_record: the schema is found and the content accepted ...
CreateRecord(s, slot, pin, content) ==
  /\ Ready(s) /\ Passes(pin, content)
  /\ Goto(s, [at |-> "upsert", source |-> slot[1], key |-> slot[2], pin |-> pin,
              content |-> content])
  /\ UNCHANGED <<rows, registered, vetted>>
  /\ Arrivals

\* ... and in another transaction the record is stored.
StoreRecord(s) ==
  LET f == flight[s] IN
  /\ f.at = "upsert"
  /\ Upsert(NewRow("record", f.source, f.key, f.pin, f.content), TRUE)
  /\ Goto(s, Idle)
  /\ UNCHANGED registered
  /\ Arrivals

\* remember with a logical key: the same upsert without validation.
Remember(s, slot, content) ==
  /\ Ready(s)
  /\ Upsert(NewRow("note", slot[1], slot[2], Absent, content), FALSE)
  /\ UNCHANGED <<flight, registered>>
  /\ Arrivals

-----------------------------------------------------------------------------
\* update_entry, its first read: a schema is refused, the content of a record is
\* validated first; anything else, an entry not found included, goes to the store.
UpdateRead(s, i, content) ==
  /\ Ready(s)
  /\ rows[i].state # "unused"
  /\ ~(Own(i) /\ rows[i].type = "schema")
  /\ Goto(s, IF Own(i) /\ rows[i].type = "record" /\ content # Absent
             THEN [at |-> "resolve", id |-> i, pin |-> rows[i].pin, content |-> content]
             ELSE [at |-> "reread", id |-> i, content |-> content, vetted |-> FALSE])
  /\ UNCHANGED <<rows, registered, vetted>>
  /\ Arrivals

\* Not found or not valid: an error answer.
UpdateResolve(s) ==
  LET f == flight[s] IN
  /\ f.at = "resolve"
  /\ \/ /\ Passes(f.pin, f.content)
        /\ Goto(s, [at |-> "reread", id |-> f.id, content |-> f.content, vetted |-> TRUE])
     \/ /\ \E i \in Resolved(f.pin) : f.content \notin rows[i].body
        /\ Goto(s, Idle)
     \/ /\ Resolved(f.pin) = {}
        /\ Goto(s, Idle)
  /\ UNCHANGED <<rows, registered, vetted>>
  /\ Arrivals

\* PostgresStore.update_entry reads the entry again; with nothing to change
\* (content it had none of does not count) it stops.
UpdateReread(s) ==
  LET f == flight[s]
      new == IF f.content = Absent THEN rows[f.id].content ELSE f.content
      edits == f.content # Absent /\ rows[f.id].content \notin {Absent, f.content}
  IN
  /\ f.at = "reread"
  /\ \/ /\ Own(f.id)
        /\ \E other \in BOOLEAN :
             /\ edits \/ other
             /\ Goto(s, [at |-> "write", id |-> f.id,
                         content |-> new,
                         vetted |-> IF f.content = Absent THEN f.id \in vetted ELSE f.vetted])
     \/ /\ ~(Own(f.id) /\ edits)
        /\ Goto(s, Idle)
  /\ UNCHANGED <<rows, registered, vetted>>
  /\ Arrivals

\* ... and writes back the whole data it read, of which only the content can have
\* changed since, in a row that may be in the trash by now; a purged row is missed.
UpdateWrite(s) ==
  LET f == flight[s] IN
  /\ f.at = "write"
  /\ IF rows[f.id].state \in {"active", "trash"}
     THEN /\ rows' = [rows EXCEPT ![f.id].content = f.content]
          /\ Vet(f.id, f.vetted)
     ELSE UNCHANGED <<rows, vetted>>
  /\ Goto(s, Idle)
  /\ UNCHANGED registered
  /\ Arrivals

-----------------------------------------------------------------------------
\* delete_entry by id: only a schema found active has its references counted.
DeleteRead(s, i) ==
  /\ Ready(s)
  /\ rows[i].state # "unused"
  /\ Goto(s, IF Own(i) /\ rows[i].type = "schema"
             THEN [at |-> "count", id |-> i, key |-> rows[i].key]
             ELSE [at |-> "trash", id |-> i])
  /\ UNCHANGED <<rows, registered, vetted>>
  /\ Arrivals

\* Mistake: the count is not consulted.
DeleteUncounted(s) ==
  /\ flight[s].at = "count"
  /\ Goto(s, [at |-> "trash", id |-> flight[s].id])
  /\ UNCHANGED <<rows, registered, vetted>>
  /\ Arrivals

\* assert_schema_deletable: records that are found end the call, and so does an
\* assertion when the key ends in a colon.
DeleteCount(s) ==
  LET f == flight[s] IN
  /\ f.at = "count"
  /\ Goto(s, IF Last(f.key) # Empty /\ Referencing(f.key) = {}
             THEN [at |-> "trash", id |-> f.id] ELSE Idle)
  /\ UNCHANGED <<rows, registered, vetted>>
  /\ Arrivals

\* soft_delete_by_id.
DeleteTrash(s) ==
  LET i == flight[s].id IN
  /\ flight[s].at = "trash"
  /\ rows' = IF Own(i) THEN [rows EXCEPT ![i].state = "trash"] ELSE rows
  /\ Goto(s, Idle)
  /\ UNCHANGED <<registered, vetted>>
  /\ Arrivals

\* One statement changes the entries S of the caller to those of `table`.
Change(S, from, table) ==
  /\ \A i \in S : rows[i].state = from /\ rows[i].owner = Caller
  /\ rows' = [i \in Ids |-> IF i \in S THEN table[i] ELSE rows[i]]
  /\ UNCHANGED <<flight, registered>>
  /\ Arrivals

Moved(state) == [i \in Ids |-> [rows[i] EXCEPT !.state = state]]

\* delete_entry by source, type or tags, which may match any entries.
BulkDelete(s, S) ==
  /\ Ready(s)
  /\ Change(S, "active", Moved("trash"))
  /\ UNCHANGED vetted

\* restore_entry; the index may refuse the statement.
Restore(s, S) ==
  /\ Ready(s)
  /\ Change(S, "trash", Moved("active")) /\ IndexHolds(rows')
  /\ UNCHANGED vetted

\* The cleanup thread of any server, once the retention is over.
Purge(S) ==
  /\ Change(S, "trash", [i \in Ids |-> Purged])
  /\ vetted' = vetted \ S

\* A statement fails, or the server stops.
Abort(s) ==
  /\ Goto(s, Idle)
  /\ UNCHANGED <<rows, registered, vetted>>
  /\ Arrivals

Step(s) ==
  \/ \E i \in Ids, reg \in Schemas : Register(s, i, reg)
  \/ \E slot \in Slots, content \in Contents :
       \/ \E pin \in Pins : CreateRecord(s, slot, pin, content)
       \/ Remember(s, slot, content)
  \/ StoreRecord(s)
  \/ \E i \in Ids : DeleteRead(s, i)
                    \/ \E content \in Contents \cup {Absent} : UpdateRead(s, i, content)
  \/ UpdateResolve(s) \/ UpdateReread(s) \/ UpdateWrite(s)
  \/ DeleteCount(s) \/ DeleteTrash(s)
  \/ \E S \in SUBSET Ids \ {{}} : BulkDelete(s, S) \/ Restore(s, S)
  \/ Abort(s)

Next ==
  \/ \E s \in Servers : Step(s)
  \/ \E i \in Ids, reg \in Schemas : CliRegister(i, reg)
  \/ \E S \in SUBSET Ids \ {{}} : Purge(S)

Spec == Init /\ [][Next]_vars

-----------------------------------------------------------------------------
\* Every variable stays in its type, the unique index holds, and whatever an
\* upsert merges into, a record pins a version and a schema has its key.
TypeOK ==
  /\ rows \in [Ids -> Row]
  /\ flight \in [Servers -> Flight]
  /\ registered \subseteq Keys \X SUBSET Contents
  /\ vetted \subseteq Ids
  /\ arrived \in [Servers -> SUBSET Ids]
  /\ IndexHolds(rows)
  /\ \A i \in Ids : /\ rows[i].type = "record" => rows[i].pin \in Pins
                    /\ rows[i].type = "schema" => rows[i].key \in Keys

\* The content of a record was accepted by a schema registered under the version
\* it pins, whatever other servers deleted, restored, registered or updated
\* between resolving, validating, reading again and writing.  Three ways around
\* validation leave `vetted`: a remember onto the record's key, a create_record
\* that names another version, and an update_entry whose first read missed the
\* record because it was in the trash.
ContentConforms ==
  \A i \in Ids : (i \in vetted /\ rows[i].type = "record") =>
    \E reg \in registered :
      reg[1] = Compose(rows[i].pin) /\ rows[i].content \in reg[2]

\* A deletion by id takes effect, and on a schema.
DeletesSchema(s, i) ==
  /\ flight[s] = [at |-> "trash", id |-> i] /\ flight'[s] # flight[s]
  /\ rows[i].type = "schema" /\ rows'[i] # rows[i]

\* The records whose schema is found by `key`.
Dependents(key) ==
  {i \in Ids : Own(i) /\ rows[i].type = "record" /\ Compose(rows[i].pin) = key}

\* The dependents of a schema that its deletion by server s in fact looked for:
\* those that were there before the call, and whose version has no colon.
Guarded(s, key) == {i \in Dependents(key) \ arrived[s] : Len(rows[i].pin[2]) = 1}

\* Deleting a schema by id leaves a record without its schema only when that
\* record, or the schema itself, became active while the call was in progress, by
\* a create_record validated before or a restore, or when the record names its
\* version with a colon, where splitting the key finds another family.
OrphansOnlyNewcomers ==
  [][\A s \in Servers : \A i \in Ids :
       DeletesSchema(s, i)
       => i \in arrived[s] \/ Guarded(s, rows[i].key) = {}]_vars

\* Without colons in versions, what the guard promises of a schema that was there
\* when the call began: the records that were there too keep it.
DependentsKeepSchema ==
  [][\A s \in Servers : \A i \in Ids :
       DeletesSchema(s, i)
       => i \in arrived[s] \/ Dependents(rows[i].key) \subseteq arrived[s]]_vars
=============================================================================
