--------------------------- MODULE RecordsProofs ---------------------------
(***************************************************************************)
(* Proofs about Records, for any number of entries, servers, schemas and   *)
(* keys: the content of a vetted record was accepted by a schema of the    *)
(* version it pins, and a deletion by id orphans only newcomers.           *)
(***************************************************************************)
EXTENDS Records, SequenceTheorems, TLAPS

\* A record pins a version, a schema has a key.
WellFormed(row) ==
  (row.type = "record" => row.pin \in Pins) /\ (row.type = "schema" => row.key \in Keys)

\* What TypeOK says of the table.
TableOK ==
  /\ rows \in [Ids -> Row]
  /\ IndexHolds(rows)
  /\ \A i \in Ids : WellFormed(rows[i])

\* A schema registered under the key of `pin` accepts `content`.
Accepted(pin, content) ==
  \E reg \in registered : reg[1] = Compose(pin) /\ content \in reg[2]

\* What makes a row the row it is, apart from content and state.
Same(old, new) ==
  /\ new.type = old.type /\ new.owner = old.owner /\ new.source = old.source
  /\ new.key = old.key /\ new.pin = old.pin /\ new.body = old.body

-----------------------------------------------------------------------------
(* Types.                                                                  *)

\* A step of a call leaves it at a stage there is.
LEMMA GotoTyped ==
  ASSUME TypeOK, NEW s \in Servers, NEW f \in Flight, Goto(s, f)
  PROVE  flight' \in [Servers -> Flight]
BY DEF TypeOK, Goto

\* The entries that arrived during a deletion are entries.
LEMMA ArrivalsTyped ==
  ASSUME TypeOK, Arrivals
  PROVE  arrived' \in [Servers -> SUBSET Ids]
BY DEF TypeOK, Arrivals

\* An INSERT that the index admits keeps the table in order.
LEMMA InsertTyped ==
  ASSUME TypeOK, RecordsAssumption, NEW i \in Ids, NEW row \in Row,
         WellFormed(row), Insert(i, row)
  PROVE  TableOK'
<1>1. rows' \in [Ids -> Row]
  BY DEF TypeOK, Insert
<1>2. IndexHolds(rows')
  BY DEF Insert
<1>3. \A j \in Ids : WellFormed(rows'[j])
  BY DEF TypeOK, Insert, WellFormed
<1> QED BY <1>1, <1>2, <1>3 DEF TableOK, IndexHolds

\* So does a table whose rows keep what the index is about, unless they leave it.
LEMMA SameTyped ==
  ASSUME TypeOK, rows' \in [Ids -> Row],
         \A i \in Ids : \/ rows'[i] = Purged
                        \/ /\ Same(rows[i], rows'[i])
                           /\ rows'[i].state = "active" => rows[i].state = "active"
  PROVE  TableOK'
<1>1. IndexHolds(rows')
  BY DEF TypeOK, IndexHolds, Same, Purged, Unused
<1>2. \A j \in Ids : WellFormed(rows'[j])
  BY DEF TypeOK, Same, Purged, Unused, WellFormed
<1> QED BY <1>1, <1>2 DEF TableOK, IndexHolds

\* What create_record and remember hand to the store is a row.
LEMMA NewRowTyped ==
  ASSUME NEW type \in {"record", "note"}, NEW source \in Sources, NEW key \in Keys,
         NEW pin \in Pins \cup {Absent}, NEW content \in Contents
  PROVE  /\ NewRow(type, source, key, pin, content) \in Row
         /\ NewRow(type, source, key, pin, content).type = type
         /\ NewRow(type, source, key, pin, content).pin = pin
         /\ NewRow(type, source, key, pin, content).owner = Caller
         /\ NewRow(type, source, key, pin, content).content = content
BY DEF NewRow, Row

\* What create_record hands to the store: a record of the version it resolved.
LEMMA StoredRow ==
  ASSUME TypeOK, RecordsAssumption, NEW s \in Servers, StoreRecord(s)
  PROVE  /\ flight[s].at = "upsert"
         /\ \E row \in Row :
              /\ Upsert(row, TRUE)
              /\ row.type = "record" /\ row.pin \in Pins /\ row.pin = flight[s].pin
              /\ row.content \in Contents /\ row.content = flight[s].content
<1> DEFINE f == flight[s]
           row == NewRow("record", f.source, f.key, f.pin, f.content)
<1>1. f.at = "upsert" /\ f \in Flight /\ Upsert(row, TRUE)
  BY DEF StoreRecord, TypeOK
<1>2. f.source \in Sources /\ f.key \in Keys /\ f.pin \in Pins /\ f.content \in Contents
  BY <1>1 DEF Flight, Idle
<1>3. /\ row \in Row /\ row.type = "record"
      /\ row.pin = f.pin /\ row.content = f.content
  BY <1>2, NewRowTyped
<1> HIDE DEF row
<1> QED BY <1>1, <1>2, <1>3

\* What remember hands to the store: a note.
LEMMA RememberedRow ==
  ASSUME RecordsAssumption, NEW s \in Servers, NEW slot \in Slots, NEW content \in Contents,
         Remember(s, slot, content)
  PROVE  \E row \in Row : row.type = "note" /\ row.content = content /\ Upsert(row, FALSE)
<1> DEFINE row == NewRow("note", slot[1], slot[2], Absent, content)
<1>1. slot[1] \in Sources /\ slot[2] \in Keys
  BY DEF RecordsAssumption
<1>2. row \in Row /\ row.type = "note" /\ row.content = content
  BY <1>1, NewRowTyped
<1>3. Upsert(row, FALSE)
  BY DEF Remember
<1> HIDE DEF row
<1> QED BY <1>2, <1>3

\* An upsert, inserting or merging, keeps the table in order.
LEMMA UpsertTyped ==
  ASSUME TypeOK, RecordsAssumption, NEW row \in Row, NEW ok \in BOOLEAN,
         WellFormed(row), Upsert(row, ok)
  PROVE  TableOK' /\ vetted' \subseteq Ids
<1> DEFINE slot == {i \in Ids : Own(i) /\ rows[i].source = row.source /\ rows[i].key = row.key}
<1>1. CASE slot = {}
  <2>1. PICK i \in Ids : Insert(i, row) /\ Vet(i, ok)
    BY <1>1 DEF Upsert
  <2> QED BY <2>1, InsertTyped DEF Vet, TypeOK
<1>2. CASE slot # {}
  <2>1. PICK i \in slot, other \in BOOLEAN :
          /\ rows' = [rows EXCEPT ![i] = Merged(i, row, other)]
          /\ Vet(i, ok /\ rows[i].pin = row.pin /\ rows[i].type = row.type)
    BY <1>2 DEF Upsert
  <2>2. rows[i] \in Row /\ i \in Ids
    BY DEF TypeOK
  <2>3. Merged(i, row, other) \in Row /\ Same(rows[i], Merged(i, row, other))
        /\ Merged(i, row, other).state = rows[i].state
    BY <2>2 DEF Merged, Row, Same
  <2>4. TableOK'
    <3>1. rows' \in [Ids -> Row]
      BY <2>1, <2>2, <2>3 DEF TypeOK
    <3>2. \A j \in Ids : Same(rows[j], rows'[j]) /\ rows'[j].state = rows[j].state
      BY <2>1, <2>2, <2>3 DEF TypeOK, Same
    <3> QED BY <3>1, <3>2, SameTyped
  <2> QED BY <2>1, <2>2, <2>4 DEF Vet, TypeOK
<1> QED BY <1>1, <1>2

\* One statement over several entries, which may not become active.
LEMMA ChangeTyped ==
  ASSUME TypeOK, NEW S \in SUBSET Ids, NEW from, NEW table, Change(S, from, table),
         \A i \in S : table[i] \in Row /\ table[i].state # "active"
                      /\ (table[i] = Purged \/ Same(rows[i], table[i]))
  PROVE  TableOK'
<1>1. rows' \in [Ids -> Row]
  BY DEF Change, TypeOK
<1>2. \A i \in Ids : \/ rows'[i] = Purged
                     \/ /\ Same(rows[i], rows'[i])
                        /\ rows'[i].state = "active" => rows[i].state = "active"
  BY DEF Change, TypeOK, Same
<1> QED BY <1>1, <1>2, SameTyped

\* Moving entries between the active ones and the trash changes nothing else.
LEMMA MovedRows ==
  ASSUME TypeOK, NEW state \in {"active", "trash"}, NEW i \in Ids
  PROVE  Moved(state)[i] \in Row /\ Moved(state)[i].state = state
         /\ Same(rows[i], Moved(state)[i]) /\ Moved(state)[i].content = rows[i].content
<1>1. rows[i] \in Row
  BY DEF TypeOK
<1> QED BY <1>1 DEF Moved, Row, Same

\* A purged row is a row.
LEMMA PurgedRow == Purged \in Row /\ Purged.state = "purged" /\ Purged.type = "note"
BY DEF Purged, Unused, Row

\* The type invariant is preserved by every step.
LEMMA TypeStep ==
  ASSUME TypeOK, RecordsAssumption, [Next]_vars
  PROVE  TypeOK'
<1> DEFINE Histories == registered' \subseteq Keys \X SUBSET Contents /\ vetted' \subseteq Ids
<1>1. ASSUME TableOK', flight' \in [Servers -> Flight], Histories, Arrivals
      PROVE  TypeOK'
  <2>1. arrived' \in [Servers -> SUBSET Ids]
    BY <1>1, ArrivalsTyped
  <2> QED BY <1>1, <2>1 DEF TypeOK, TableOK, IndexHolds, WellFormed
<1>2. TableOK /\ flight \in [Servers -> Flight]
      /\ registered \subseteq Keys \X SUBSET Contents /\ vetted \subseteq Ids
  BY DEF TypeOK, TableOK, WellFormed
<1>3. Idle \in Flight
  BY DEF Flight
<1>4. ASSUME UNCHANGED <<rows, registered, vetted>>, Arrivals,
             NEW s \in Servers, NEW f \in Flight, Goto(s, f)
      PROVE  TypeOK'
  <2>1. TableOK'
    BY <1>2, <1>4 DEF TableOK, IndexHolds
  <2> QED BY <1>1, <1>2, <1>4, <2>1, GotoTyped
<1>5. ASSUME NEW i \in Ids, NEW reg \in Schemas, RegisterSchema(i, reg)
      PROVE  TypeOK'
  <2> DEFINE row == [state |-> "active", type |-> "schema", owner |-> reg.owner,
                     source |-> reg.source, key |-> Compose(reg.pin), pin |-> Absent,
                     body |-> reg.body, content |-> Absent]
  <2>1. reg.pin \in Pins /\ reg.body \in SUBSET Contents /\ reg.owner \in {Caller, System}
        /\ reg.source \in Sources /\ Compose(reg.pin) \in Keys
    BY <1>5 DEF RecordsAssumption
  <2>2. row \in Row /\ WellFormed(row)
    BY <2>1 DEF Row, WellFormed
  <2>3. TableOK'
    BY <1>5, <2>2, InsertTyped DEF RegisterSchema
  <2>4. Histories
    BY <1>2, <1>5, <2>1 DEF RegisterSchema
  <2> QED BY <1>1, <1>2, <1>5, <2>3, <2>4 DEF RegisterSchema
<1>6. ASSUME NEW s \in Servers, NEW slot \in Slots, NEW pin \in Pins, NEW content \in Contents,
             CreateRecord(s, slot, pin, content)
      PROVE  TypeOK'
  <2>1. [at |-> "upsert", source |-> slot[1], key |-> slot[2], pin |-> pin,
         content |-> content] \in Flight
    BY <1>6 DEF Flight, RecordsAssumption
  <2> QED BY <1>4, <1>6, <2>1 DEF CreateRecord
<1>7. ASSUME NEW s \in Servers, StoreRecord(s)
      PROVE  TypeOK'
  <2>1. PICK row \in Row : Upsert(row, TRUE) /\ WellFormed(row)
    BY <1>7, StoredRow DEF WellFormed
  <2>5. TableOK' /\ vetted' \subseteq Ids
    BY <2>1, UpsertTyped
  <2>6. flight' \in [Servers -> Flight] /\ Histories
    BY <1>2, <1>3, <1>7, <2>5, GotoTyped DEF StoreRecord
  <2> QED BY <1>1, <1>7, <2>5, <2>6 DEF StoreRecord
<1>8. ASSUME NEW s \in Servers, NEW slot \in Slots, NEW content \in Contents,
             Remember(s, slot, content)
      PROVE  TypeOK'
  <2>1. PICK row \in Row : WellFormed(row) /\ Upsert(row, FALSE)
    BY <1>8, RememberedRow DEF WellFormed
  <2>3. TableOK' /\ vetted' \subseteq Ids
    BY <2>1, UpsertTyped
  <2> QED BY <1>1, <1>2, <1>8, <2>3 DEF Remember
<1>9. ASSUME NEW s \in Servers, NEW i \in Ids, NEW content \in Contents \cup {Absent},
             UpdateRead(s, i, content)
      PROVE  TypeOK'
  <2>1. CASE Own(i) /\ rows[i].type = "record" /\ content # Absent
    <3>1. [at |-> "resolve", id |-> i, pin |-> rows[i].pin, content |-> content] \in Flight
      BY <1>2, <1>9, <2>1 DEF Flight, TableOK, WellFormed
    <3>2. Goto(s, [at |-> "resolve", id |-> i, pin |-> rows[i].pin, content |-> content])
      BY <1>9, <2>1 DEF UpdateRead
    <3> QED BY <1>4, <1>9, <3>1, <3>2 DEF UpdateRead
  <2>2. CASE ~(Own(i) /\ rows[i].type = "record" /\ content # Absent)
    <3>1. [at |-> "reread", id |-> i, content |-> content, vetted |-> FALSE] \in Flight
      BY <1>9 DEF Flight
    <3>2. Goto(s, [at |-> "reread", id |-> i, content |-> content, vetted |-> FALSE])
      BY <1>9, <2>2 DEF UpdateRead
    <3> QED BY <1>4, <1>9, <3>1, <3>2 DEF UpdateRead
  <2> QED BY <2>1, <2>2
<1>10. ASSUME NEW s \in Servers, UpdateResolve(s)
       PROVE  TypeOK'
  <2> DEFINE f == flight[s]
  <2>1. f.at = "resolve" /\ f \in Flight
    BY <1>2, <1>10 DEF UpdateResolve
  <2>2. f.id \in Ids /\ f.content \in Contents
    BY <2>1 DEF Flight, Idle
  <2>3. [at |-> "reread", id |-> f.id, content |-> f.content, vetted |-> TRUE] \in Flight
    BY <2>2 DEF Flight
  <2>4. \E g \in Flight : Goto(s, g)
    BY <1>3, <1>10, <2>3 DEF UpdateResolve
  <2> QED BY <1>4, <1>10, <2>4 DEF UpdateResolve
<1>11. ASSUME NEW s \in Servers, UpdateReread(s)
       PROVE  TypeOK'
  <2> DEFINE f == flight[s]
             new == IF f.content = Absent THEN rows[f.id].content ELSE f.content
             ok == IF f.content = Absent THEN f.id \in vetted ELSE f.vetted
  <2>1. f.at = "reread" /\ f \in Flight
    BY <1>2, <1>11 DEF UpdateReread
  <2>2. f.id \in Ids /\ f.content \in Contents \cup {Absent} /\ f.vetted \in BOOLEAN
    BY <2>1 DEF Flight, Idle
  <2>3. rows[f.id].content \in Contents \cup {Absent}
    BY <1>2, <2>2 DEF TableOK, Row
  <2>4. new \in Contents \cup {Absent} /\ ok \in BOOLEAN
    <3>1. new \in Contents \cup {Absent}
      BY <2>2, <2>3
    <3>2. CASE f.content = Absent
      <4>1. (f.id \in vetted) \in BOOLEAN
        OBVIOUS
      <4>2. ok = (f.id \in vetted)
        BY <3>2, Zenon
      <4> QED BY <3>1, <4>1, <4>2, Zenon
    <3>3. CASE f.content # Absent
      <4>1. ok = f.vetted
        BY <3>3
      <4> QED BY <2>2, <3>1, <4>1
    <3> QED BY <3>2, <3>3
  <2>5. [at |-> "write", id |-> f.id, content |-> new, vetted |-> ok] \in Flight
    BY <2>2, <2>4 DEF Flight
  <2>6. \E g \in Flight : Goto(s, g)
    BY <1>3, <1>11, <2>5 DEF UpdateReread
  <2> QED BY <1>4, <1>11, <2>6 DEF UpdateReread
<1>12. ASSUME NEW s \in Servers, UpdateWrite(s)
       PROVE  TypeOK'
  <2> DEFINE f == flight[s]
  <2>1. f.at = "write" /\ f \in Flight
    BY <1>2, <1>12 DEF UpdateWrite
  <2>2. f.id \in Ids /\ f.content \in Contents \cup {Absent} /\ f.vetted \in BOOLEAN
    BY <2>1 DEF Flight, Idle
  <2>3. rows' \in [Ids -> Row]
        /\ \A i \in Ids : Same(rows[i], rows'[i]) /\ rows'[i].state = rows[i].state
    <3>1. rows \in [Ids -> Row] /\ rows[f.id] \in Row
      BY <1>2, <2>2 DEF TableOK
    <3>2. [rows[f.id] EXCEPT !.content = f.content] \in Row
          /\ Same(rows[f.id], [rows[f.id] EXCEPT !.content = f.content])
          /\ [rows[f.id] EXCEPT !.content = f.content].state = rows[f.id].state
      BY <2>2, <3>1 DEF Row, Same
    <3>3. \/ UNCHANGED rows
          \/ rows' = [rows EXCEPT ![f.id] = [rows[f.id] EXCEPT !.content = f.content]]
      BY <1>12, <3>1 DEF UpdateWrite
    <3> QED BY <3>1, <3>2, <3>3 DEF Same
  <2>4. TableOK'
    BY <2>3, SameTyped
  <2>5. vetted' \subseteq Ids
    BY <1>2, <1>12, <2>2 DEF UpdateWrite, Vet
  <2> QED BY <1>1, <1>2, <1>3, <1>12, <2>4, <2>5, GotoTyped DEF UpdateWrite
<1>13. ASSUME NEW s \in Servers, NEW i \in Ids, DeleteRead(s, i)
       PROVE  TypeOK'
  <2>1. [at |-> "trash", id |-> i] \in Flight
    BY DEF Flight
  <2>2. rows[i].type = "schema" => [at |-> "count", id |-> i, key |-> rows[i].key] \in Flight
    BY <1>2 DEF Flight, TableOK, WellFormed
  <2>3. \E g \in Flight : Goto(s, g)
    BY <1>13, <2>1, <2>2 DEF DeleteRead
  <2> QED BY <1>4, <1>13, <2>3 DEF DeleteRead
<1>14. ASSUME NEW s \in Servers, DeleteCount(s)
       PROVE  TypeOK'
  <2>1. flight[s].at = "count" /\ flight[s] \in Flight
    BY <1>2, <1>14 DEF DeleteCount
  <2>2. flight[s].id \in Ids
    BY <2>1 DEF Flight, Idle
  <2>3. [at |-> "trash", id |-> flight[s].id] \in Flight
    BY <2>2 DEF Flight
  <2>4. \E g \in Flight : Goto(s, g)
    BY <1>3, <1>14, <2>3 DEF DeleteCount
  <2> QED BY <1>4, <1>14, <2>4 DEF DeleteCount
<1>15. ASSUME NEW s \in Servers, DeleteTrash(s)
       PROVE  TypeOK'
  <2>1. flight[s].at = "trash" /\ flight[s] \in Flight
    BY <1>2, <1>15 DEF DeleteTrash
  <2>2. flight[s].id \in Ids
    BY <2>1 DEF Flight, Idle
  <2>3. rows' \in [Ids -> Row]
        /\ \A i \in Ids : /\ Same(rows[i], rows'[i])
                          /\ rows'[i].state = "active" => rows[i].state = "active"
    BY <1>2, <1>15, <2>2 DEF DeleteTrash, TableOK, Row, Same
  <2>4. TableOK'
    BY <2>3, SameTyped
  <2> QED BY <1>1, <1>2, <1>3, <1>15, <2>4, GotoTyped DEF DeleteTrash
<1>16. ASSUME NEW s \in Servers, NEW S \in SUBSET Ids, BulkDelete(s, S)
       PROVE  TypeOK'
  <2>1. TableOK'
    BY <1>16, ChangeTyped, MovedRows DEF BulkDelete
  <2> QED BY <1>1, <1>2, <1>16, <2>1 DEF BulkDelete, Change
<1>17. ASSUME NEW s \in Servers, NEW S \in SUBSET Ids, Restore(s, S)
       PROVE  TypeOK'
  <2>1. rows' \in [Ids -> Row] /\ \A i \in Ids : Same(rows[i], rows'[i])
    BY <1>2, <1>17, MovedRows DEF Restore, Change, TableOK, Same
  <2>2. \A i \in Ids : WellFormed(rows'[i])
    BY <1>2, <2>1 DEF TableOK, Same, WellFormed
  <2>3. TableOK'
    BY <1>17, <2>1, <2>2 DEF Restore, TableOK, IndexHolds
  <2> QED BY <1>1, <1>2, <1>17, <2>3 DEF Restore, Change
<1>18. ASSUME NEW S \in SUBSET Ids, Purge(S)
       PROVE  TypeOK'
  <2>1. TableOK'
    BY <1>18, ChangeTyped, PurgedRow DEF Purge
  <2> QED BY <1>1, <1>2, <1>18, <2>1 DEF Purge, Change
<1>19. ASSUME NEW s \in Servers, Abort(s)
       PROVE  TypeOK'
  BY <1>3, <1>4, <1>19 DEF Abort
<1>20. CASE UNCHANGED vars
  BY <1>20 DEF vars, TypeOK, IndexHolds
<1> QED
  BY <1>5, <1>6, <1>7, <1>8, <1>9, <1>10, <1>11, <1>12, <1>13, <1>14, <1>15, <1>16,
     <1>17, <1>18, <1>19, <1>20
  DEF Next, Step, Register, CliRegister

\* The empty table is in order.
LEMMA InitTyped == Init => TypeOK
BY DEF Init, TypeOK, Row, Unused, Flight, Idle, IndexHolds

\* The type invariant holds of every behaviour: the unique index in particular,
\* and that only records pin a schema version.
THEOREM TypeCorrect ==
  ASSUME RecordsAssumption
  PROVE  Spec => []TypeOK
<1>1. Init => TypeOK
  BY InitTyped
<1>2. TypeOK /\ [Next]_vars => TypeOK'
  BY TypeStep
<1> QED BY <1>1, <1>2, PTL DEF Spec

-----------------------------------------------------------------------------
(* What a step does to the rows.                                           *)

\* Row i is purged, or keeps what it is and its content.
Kept(i) ==
  \/ rows'[i] = Purged /\ rows[i].state # "unused"
  \/ /\ Same(rows[i], rows'[i]) /\ rows'[i].content = rows[i].content
     /\ rows'[i].state = "unused" <=> rows[i].state = "unused"

\* No entry is written, none becomes vetted.
Quiet ==
  /\ registered' = registered /\ vetted' \subseteq vetted
  /\ \A i \in Ids : Kept(i)

\* An upsert inserts `row` or merges its content into the active row of its slot.
LEMMA UpsertEffect ==
  ASSUME TypeOK, NEW row \in Row, NEW ok \in BOOLEAN, Upsert(row, ok)
  PROVE  \E i \in Ids :
           /\ \A j \in Ids \ {i} : rows'[j] = rows[j]
           /\ \/ /\ rows[i].state = "unused" /\ rows'[i] = row
                 /\ Vet(i, ok)
              \/ /\ rows[i].state = "active" /\ rows'[i].state = "active"
                 /\ Same(rows[i], rows'[i])
                 /\ rows[i].content # Absent => rows'[i].content = row.content
                 /\ Vet(i, ok /\ rows[i].pin = row.pin /\ rows[i].type = row.type)
<1> DEFINE slot == {i \in Ids : Own(i) /\ rows[i].source = row.source /\ rows[i].key = row.key}
<1>1. CASE slot = {}
  <2>1. PICK i \in Ids : Insert(i, row) /\ Vet(i, ok)
    BY <1>1 DEF Upsert
  <2>2. rows[i].state = "unused" /\ rows'[i] = row /\ \A j \in Ids \ {i} : rows'[j] = rows[j]
    BY <2>1 DEF Insert, TypeOK
  <2> QED BY <2>1, <2>2
<1>2. CASE slot # {}
  <2>1. PICK i \in slot, other \in BOOLEAN :
          /\ rows' = [rows EXCEPT ![i] = Merged(i, row, other)]
          /\ Vet(i, ok /\ rows[i].pin = row.pin /\ rows[i].type = row.type)
    BY <1>2 DEF Upsert
  <2>2. i \in Ids /\ rows[i] \in Row /\ rows[i].state = "active"
    BY DEF TypeOK, Own, Active
  <2>3. /\ rows'[i] = Merged(i, row, other)
        /\ \A j \in Ids \ {i} : rows'[j] = rows[j]
    BY <2>1, <2>2 DEF TypeOK
  <2>4. /\ Merged(i, row, other).state = rows[i].state
        /\ Same(rows[i], Merged(i, row, other))
        /\ rows[i].content # Absent => Merged(i, row, other).content = row.content
    BY <2>2 DEF Merged, Row, Same
  <2> QED BY <2>1, <2>2, <2>3, <2>4
<1> QED BY <1>1, <1>2

\* The steps that write an entry are four; every other one is quiet.
LEMMA StepCases ==
  ASSUME TypeOK, [Next]_vars
  PROVE  \/ \E i \in Ids, reg \in Schemas : RegisterSchema(i, reg)
         \/ \E s \in Servers : StoreRecord(s)
         \/ \E s \in Servers, slot \in Slots, content \in Contents : Remember(s, slot, content)
         \/ \E s \in Servers : UpdateWrite(s)
         \/ Quiet
<1>1. ASSUME UNCHANGED <<rows, registered, vetted>>
      PROVE  Quiet
  BY <1>1 DEF Quiet, Kept, Same
<1>2. ASSUME NEW S \in SUBSET Ids, NEW from \in {"active", "trash"}, NEW to \in {"active", "trash"},
             Change(S, from, Moved(to)), UNCHANGED vetted
      PROVE  Quiet
  <2>1. \A i \in Ids : Kept(i)
    <3> SUFFICES ASSUME NEW i \in Ids PROVE Kept(i)
      OBVIOUS
    <3>1. CASE i \in S
      <4>1. rows'[i] = Moved(to)[i] /\ rows[i].state = from
        BY <1>2, <3>1 DEF Change
      <4>2. rows'[i].state = to /\ Same(rows[i], rows'[i]) /\ rows'[i].content = rows[i].content
        BY <4>1, MovedRows
      <4> QED BY <4>1, <4>2 DEF Kept
    <3>2. CASE i \notin S
      BY <1>2, <3>2 DEF Change, Kept, Same
    <3> QED BY <3>1, <3>2
  <2> QED BY <1>2, <2>1 DEF Quiet, Change
<1>3. ASSUME NEW S \in SUBSET Ids, Purge(S)
      PROVE  Quiet
  BY <1>3 DEF Purge, Change, Quiet, Kept, Same
<1>4. ASSUME NEW s \in Servers, DeleteTrash(s)
      PROVE  Quiet
  <2>1. \A i \in Ids : Kept(i)
    <3> SUFFICES ASSUME NEW i \in Ids PROVE Kept(i)
      OBVIOUS
    <3>1. rows[i] \in Row
      BY DEF TypeOK
    <3>2. \/ rows'[i] = rows[i]
          \/ rows'[i] = [rows[i] EXCEPT !.state = "trash"] /\ rows[i].state = "active"
      BY <1>4 DEF DeleteTrash, TypeOK, Own, Active
    <3> QED BY <3>1, <3>2 DEF Kept, Row, Same
  <2> QED BY <1>4, <2>1 DEF Quiet, DeleteTrash
<1>5. ASSUME NEW s \in Servers, Step(s)
      PROVE  \/ \E i \in Ids, reg \in Schemas : RegisterSchema(i, reg)
             \/ StoreRecord(s)
             \/ \E slot \in Slots, content \in Contents : Remember(s, slot, content)
             \/ UpdateWrite(s)
             \/ Quiet
  BY <1>1, <1>2, <1>4, <1>5
     DEF Step, Register, CreateRecord, DeleteRead, UpdateRead, UpdateResolve, UpdateReread,
         DeleteCount, BulkDelete, Restore, Abort
<1>6. CASE UNCHANGED vars
  BY <1>1, <1>6 DEF vars
<1> QED
  BY <1>3, <1>5, <1>6 DEF Next, CliRegister

\* An update_entry writes content into one existing row.
LEMMA WriteEffect ==
  ASSUME TypeOK, NEW s \in Servers, UpdateWrite(s)
  PROVE  LET f == flight[s] IN
         /\ f.at = "write" /\ f.id \in Ids
         /\ \A i \in Ids : /\ Same(rows[i], rows'[i])
                           /\ rows'[i].state = rows[i].state
                           /\ \/ rows'[i].content = rows[i].content
                              \/ i = f.id /\ rows'[i].content = f.content
         /\ \/ UNCHANGED <<rows, vetted>>
            \/ rows'[f.id].content = f.content /\ Vet(f.id, f.vetted)
         /\ registered' = registered
<1> DEFINE f == flight[s]
<1>1. f.at = "write" /\ f \in Flight /\ rows \in [Ids -> Row]
  BY DEF UpdateWrite, TypeOK
<1>2. f.id \in Ids
  BY <1>1 DEF Flight, Idle
<1>3. rows[f.id] \in Row
  BY <1>1, <1>2
<1>4. CASE rows[f.id].state \in {"active", "trash"}
  <2>1. rows' = [rows EXCEPT ![f.id] = [rows[f.id] EXCEPT !.content = f.content]]
        /\ Vet(f.id, f.vetted)
    BY <1>1, <1>4 DEF UpdateWrite
  <2>2. /\ \A i \in Ids \ {f.id} : rows'[i] = rows[i]
        /\ rows'[f.id] = [rows[f.id] EXCEPT !.content = f.content]
    BY <1>1, <1>2, <2>1
  <2>3. rows'[f.id].content = f.content /\ Same(rows[f.id], rows'[f.id])
        /\ rows'[f.id].state = rows[f.id].state
    BY <1>3, <2>2 DEF Row, Same
  <2> QED BY <1>1, <1>2, <2>1, <2>2, <2>3 DEF UpdateWrite, Same
<1>5. CASE rows[f.id].state \notin {"active", "trash"}
  BY <1>1, <1>2, <1>5 DEF UpdateWrite, Same
<1> QED BY <1>4, <1>5

\* A row there is keeps what it is until it is purged, and no registration is
\* forgotten.
LEMMA RowsStay ==
  ASSUME TypeOK, RecordsAssumption, [Next]_vars
  PROVE  /\ \A i \in Ids : rows[i].state # "unused" =>
               /\ rows'[i].state # "unused"
               /\ rows'[i] = Purged \/ Same(rows[i], rows'[i])
         /\ registered \subseteq registered'
<1> DEFINE Stays == \A i \in Ids : rows[i].state # "unused" =>
                       /\ rows'[i].state # "unused"
                       /\ rows'[i] = Purged \/ Same(rows[i], rows'[i])
<1>1. ASSUME NEW i \in Ids, NEW reg \in Schemas, RegisterSchema(i, reg)
      PROVE  Stays /\ registered \subseteq registered'
  BY <1>1 DEF RegisterSchema, Insert, TypeOK, Same
<1>2. ASSUME NEW row \in Row, NEW ok \in BOOLEAN, Upsert(row, ok)
      PROVE  Stays
  <2>1. PICK i \in Ids : /\ \A j \in Ids \ {i} : rows'[j] = rows[j]
                         /\ \/ rows[i].state = "unused"
                            \/ rows'[i].state = "active" /\ Same(rows[i], rows'[i])
    BY <1>2, UpsertEffect
  <2> QED BY <2>1 DEF Same
<1>3. ASSUME NEW s \in Servers, StoreRecord(s)
      PROVE  Stays /\ registered \subseteq registered'
  <2>1. PICK row \in Row : Upsert(row, TRUE)
    BY <1>3, StoredRow
  <2> QED BY <1>2, <1>3, <2>1 DEF StoreRecord
<1>4. ASSUME NEW s \in Servers, NEW slot \in Slots, NEW content \in Contents,
             Remember(s, slot, content)
      PROVE  Stays /\ registered \subseteq registered'
  <2>1. PICK row \in Row : Upsert(row, FALSE)
    BY <1>4, RememberedRow
  <2> QED BY <1>2, <1>4, <2>1 DEF Remember
<1>5. ASSUME NEW s \in Servers, UpdateWrite(s)
      PROVE  Stays /\ registered \subseteq registered'
  BY <1>5, WriteEffect
<1>6. CASE Quiet
  BY <1>6, PurgedRow DEF Quiet, Kept
<1> QED BY <1>1, <1>3, <1>4, <1>5, <1>6, StepCases

-----------------------------------------------------------------------------
(* ContentConforms.                                                        *)

\* Every schema row was registered.
Known == \A i \in Ids : rows[i].type = "schema" => <<rows[i].key, rows[i].body>> \in registered

\* A record has content from the start.
Filled == \A i \in Ids : rows[i].type = "record" => rows[i].content \in Contents

\* What a call carries from the transaction that read it is still true: the
\* content was accepted for the version the record pins, and the row is there or
\* purged.
CallVetted(s) ==
  LET f == flight[s] IN
  /\ f.at = "upsert" => Accepted(f.pin, f.content)
  /\ f.at \in {"resolve", "reread", "write", "count", "trash"} => rows[f.id].state # "unused"
  /\ f.at = "resolve" => (rows[f.id].type = "record" => rows[f.id].pin = f.pin)
  /\ f.at = "count" => (rows[f.id].type = "schema" => rows[f.id].key = f.key)
  /\ f.at = "reread" =>
       ((rows[f.id].type = "record" /\ f.vetted) => Accepted(rows[f.id].pin, f.content))
  /\ f.at = "write" =>
       (rows[f.id].type = "record" =>
          f.content \in Contents /\ (f.vetted => Accepted(rows[f.id].pin, f.content)))

\* The inductive invariant for the content of records.
ConformInv ==
  /\ TypeOK /\ Known /\ Filled /\ ContentConforms
  /\ \A s \in Servers : CallVetted(s)

\* What passes validation was accepted by a schema registered under the version.
LEMMA PassesAccepted ==
  ASSUME Known, NEW pin, NEW content, Passes(pin, content)
  PROVE  Accepted(pin, content)
<1>1. PICK i \in Resolved(pin) : content \in rows[i].body
  BY DEF Passes
<1>2. i \in Ids /\ rows[i].type = "schema" /\ rows[i].key = Compose(pin)
  BY DEF Resolved, SchemasAt
<1>3. <<Compose(pin), rows[i].body>> \in registered
  BY <1>2 DEF Known
<1> QED BY <1>1, <1>3 DEF Accepted

\* Registered schemas stay registered, and what the table holds is known.
LEMMA KnownStep ==
  ASSUME ConformInv, RecordsAssumption, [Next]_vars
  PROVE  Known' /\ Filled'
<1>0. TypeOK /\ Known /\ Filled /\ \A s \in Servers : CallVetted(s)
  BY DEF ConformInv
<1>1. registered \subseteq registered'
  BY <1>0, RowsStay
<1>2. ASSUME NEW i \in Ids, NEW reg \in Schemas, RegisterSchema(i, reg)
      PROVE  Known' /\ Filled'
  BY <1>0, <1>2 DEF RegisterSchema, Insert, Known, Filled, TypeOK
<1>3. ASSUME NEW row \in Row, NEW ok \in BOOLEAN, Upsert(row, ok),
             row.type # "schema", row.content \in Contents
      PROVE  Known' /\ Filled'
  <2>1. PICK i \in Ids :
           /\ \A j \in Ids \ {i} : rows'[j] = rows[j]
           /\ \/ rows'[i] = row
              \/ /\ Same(rows[i], rows'[i])
                 /\ rows[i].content # Absent => rows'[i].content = row.content
    BY <1>0, <1>3, UpsertEffect
  <2>2. \A j \in Ids : rows[j].type = "record" => rows[j].content # Absent
    BY <1>0 DEF Filled, RecordsAssumption
  <2>3. Known'
    BY <1>0, <1>1, <1>3, <2>1 DEF Known, Same
  <2>4. Filled'
    BY <1>0, <1>3, <2>1, <2>2 DEF Filled, Same
  <2> QED BY <2>3, <2>4
<1>4. ASSUME NEW s \in Servers, StoreRecord(s)
      PROVE  Known' /\ Filled'
  <2>1. PICK row \in Row : Upsert(row, TRUE) /\ row.type = "record" /\ row.content \in Contents
    BY <1>0, <1>4, StoredRow
  <2> QED BY <1>3, <2>1
<1>5. ASSUME NEW s \in Servers, NEW slot \in Slots, NEW content \in Contents,
             Remember(s, slot, content)
      PROVE  Known' /\ Filled'
  <2>1. PICK row \in Row : row.type = "note" /\ row.content = content /\ Upsert(row, FALSE)
    BY <1>5, RememberedRow
  <2> QED BY <1>3, <2>1
<1>6. ASSUME NEW s \in Servers, UpdateWrite(s)
      PROVE  Known' /\ Filled'
  <2>1. /\ flight[s].at = "write"
        /\ \A i \in Ids : /\ Same(rows[i], rows'[i])
                          /\ \/ rows'[i].content = rows[i].content
                             \/ i = flight[s].id /\ rows'[i].content = flight[s].content
    BY <1>0, <1>6, WriteEffect
  <2>2. rows[flight[s].id].type = "record" => flight[s].content \in Contents
    BY <1>0, <2>1 DEF CallVetted
  <2> QED BY <1>0, <1>1, <2>1, <2>2 DEF Known, Filled, Same
<1>7. CASE Quiet
  BY <1>0, <1>1, <1>7, PurgedRow DEF Quiet, Kept, Same, Known, Filled
<1> QED BY <1>0, <1>2, <1>4, <1>5, <1>6, <1>7, StepCases

\* What was accepted stays so.
LEMMA AcceptedStays ==
  ASSUME registered \subseteq registered', NEW pin, NEW content, Accepted(pin, content)
  PROVE  Accepted(pin, content)'
BY DEF Accepted

\* The property itself.
LEMMA ConformStep ==
  ASSUME ConformInv, RecordsAssumption, [Next]_vars
  PROVE  ContentConforms'
<1> DEFINE Conforms(i) == (i \in vetted /\ rows[i].type = "record")
                          => Accepted(rows[i].pin, rows[i].content)
<1>0. TypeOK /\ Filled /\ (\A s \in Servers : CallVetted(s)) /\ \A i \in Ids : Conforms(i)
  BY DEF ConformInv, ContentConforms, Accepted
<1>1. registered \subseteq registered'
  BY <1>0, RowsStay
<1>2. ASSUME NEW i \in Ids,
             \/ rows'[i] = rows[i]
             \/ rows'[i].type # "record"
             \/ Same(rows[i], rows'[i]) /\ rows'[i].content = rows[i].content,
             i \in vetted' => i \in vetted
      PROVE  Conforms(i)'
  BY <1>0, <1>1, <1>2 DEF Accepted, Same
<1>3. ASSUME NEW i \in Ids, NEW reg \in Schemas, RegisterSchema(i, reg)
      PROVE  \A j \in Ids : Conforms(j)'
  <2>1. vetted' = vetted
    BY <1>3 DEF RegisterSchema
  <2>2. \A j \in Ids : rows'[j] = rows[j] \/ rows'[j].type # "record"
    BY <1>0, <1>3 DEF RegisterSchema, Insert, TypeOK
  <2> QED BY <1>2, <2>1, <2>2
<1>4. ASSUME NEW s \in Servers, StoreRecord(s)
      PROVE  \A j \in Ids : Conforms(j)'
  <2>1. PICK row \in Row :
           /\ flight[s].at = "upsert"
           /\ Upsert(row, TRUE)
           /\ row.type = "record" /\ row.pin = flight[s].pin
           /\ row.content = flight[s].content /\ row.content \in Contents
    BY <1>0, <1>4, StoredRow
  <2>2. Accepted(row.pin, row.content)
    BY <1>0, <2>1 DEF CallVetted
  <2>3. PICK i \in Ids :
           /\ \A j \in Ids \ {i} : rows'[j] = rows[j]
           /\ \/ rows'[i] = row /\ Vet(i, TRUE)
              \/ /\ Same(rows[i], rows'[i])
                 /\ rows[i].content # Absent => rows'[i].content = row.content
                 /\ Vet(i, TRUE /\ rows[i].pin = row.pin /\ rows[i].type = row.type)
    BY <1>0, <2>1, UpsertEffect
  <2>4. \A j \in Ids \ {i} : j \in vetted' => j \in vetted
    BY <2>3 DEF Vet
  <2>5. Conforms(i)'
    <3>1. CASE rows'[i] = row
      BY <1>1, <2>2, <3>1 DEF Accepted
    <3>2. CASE /\ Same(rows[i], rows'[i])
               /\ rows[i].content # Absent => rows'[i].content = row.content
               /\ Vet(i, TRUE /\ rows[i].pin = row.pin /\ rows[i].type = row.type)
      <4> SUFFICES ASSUME i \in vetted', rows'[i].type = "record"
                   PROVE  Accepted(rows[i].pin, rows[i].content)'
        OBVIOUS
      <4>1. rows[i].pin = row.pin /\ rows'[i].pin = row.pin /\ rows[i].type = "record"
        BY <3>2 DEF Vet, Same
      <4>2. rows'[i].content = row.content
        BY <1>0, <3>2, <4>1 DEF Filled, RecordsAssumption
      <4> QED BY <1>1, <2>2, <4>1, <4>2 DEF Accepted
    <3> QED BY <2>3, <3>1, <3>2
  <2> QED BY <1>2, <2>3, <2>4, <2>5
<1>5. ASSUME NEW s \in Servers, NEW slot \in Slots, NEW content \in Contents,
             Remember(s, slot, content)
      PROVE  \A j \in Ids : Conforms(j)'
  <2>1. PICK row \in Row : Upsert(row, FALSE)
    BY <1>5, RememberedRow
  <2>2. PICK i \in Ids : /\ \A j \in Ids \ {i} : rows'[j] = rows[j]
                         /\ \/ Vet(i, FALSE)
                            \/ Vet(i, FALSE /\ rows[i].pin = row.pin /\ rows[i].type = row.type)
    BY <1>0, <2>1, UpsertEffect
  <2>3. vetted' = vetted \ {i}
    BY <2>2 DEF Vet
  <2> QED BY <1>2, <2>2, <2>3
<1>6. ASSUME NEW s \in Servers, UpdateWrite(s)
      PROVE  \A j \in Ids : Conforms(j)'
  <2> DEFINE f == flight[s]
  <2>1. PICK id \in Ids, content \in Contents \cup {Absent}, ok \in BOOLEAN :
          f.id = id /\ f.content = content /\ f.vetted = ok
    BY <1>0, <1>6, WriteEffect DEF TypeOK, Flight, Idle
  <2>2. /\ f.at = "write"
        /\ \A i \in Ids : /\ Same(rows[i], rows'[i])
                          /\ i # id => rows'[i].content = rows[i].content
        /\ \/ UNCHANGED <<rows, vetted>>
           \/ rows'[id].content = content /\ Vet(id, ok)
    BY <1>0, <1>6, <2>1, WriteEffect
  <2>3. CASE UNCHANGED <<rows, vetted>>
    BY <1>2, <2>3
  <2>4. CASE rows'[id].content = content /\ Vet(id, ok)
    <3>1. Conforms(id)'
      <4> SUFFICES ASSUME id \in vetted', rows'[id].type = "record"
                   PROVE  Accepted(rows[id].pin, rows[id].content)'
        OBVIOUS
      <4>1. ok /\ rows[id].type = "record" /\ rows'[id].pin = rows[id].pin
        BY <2>2, <2>4 DEF Vet, Same
      <4>2. Accepted(rows[id].pin, content)
        BY <1>0, <2>1, <2>2, <4>1 DEF CallVetted
      <4> QED BY <1>1, <2>4, <4>1, <4>2 DEF Accepted
    <3>2. \A j \in Ids \ {id} : Conforms(j)'
      BY <1>2, <2>2, <2>4 DEF Vet
    <3> QED BY <3>1, <3>2
  <2> QED BY <2>2, <2>3, <2>4
<1>7. ASSUME Quiet
      PROVE  \A j \in Ids : Conforms(j)'
  BY <1>2, <1>7, PurgedRow DEF Quiet, Kept
<1>8. \A j \in Ids : Conforms(j)'
  BY <1>0, <1>3, <1>4, <1>5, <1>6, <1>7, StepCases
<1> QED BY <1>8 DEF ContentConforms, Accepted

\* A call that does not move keeps what it knows, whatever the others do.
LEMMA CallWaits ==
  ASSUME ConformInv, RecordsAssumption, [Next]_vars,
         NEW t \in Servers, flight'[t] = flight[t]
  PROVE  CallVetted(t)'
<1>0. TypeOK /\ CallVetted(t)
  BY DEF ConformInv
<1>1. /\ \A i \in Ids : rows[i].state # "unused" =>
           /\ rows'[i].state # "unused"
           /\ rows'[i] = Purged \/ Same(rows[i], rows'[i])
      /\ registered \subseteq registered'
  BY <1>0, RowsStay
<1>2. flight[t].at \in {"resolve", "reread", "write", "count", "trash"} => flight[t].id \in Ids
  BY <1>0 DEF TypeOK, Flight, Idle
<1>3. flight[t].at \in {"resolve", "reread", "write", "count", "trash"} =>
        LET i == flight[t].id IN
        /\ rows'[i].state # "unused"
        /\ rows'[i].type = "record" => rows[i].type = "record" /\ rows'[i].pin = rows[i].pin
        /\ rows'[i].type = "schema" => rows[i].type = "schema" /\ rows'[i].key = rows[i].key
  BY <1>0, <1>1, <1>2, PurgedRow DEF CallVetted, Same
<1> QED BY <1>0, <1>1, <1>3 DEF CallVetted, Accepted

\* The calls that move on to another of their transactions.
LEMMA MoversOnly ==
  ASSUME TypeOK, [Next]_vars, NEW t \in Servers, flight'[t] # flight[t], flight'[t] # Idle
  PROVE  \/ \E slot \in Slots, pin \in Pins, content \in Contents :
              CreateRecord(t, slot, pin, content)
         \/ \E i \in Ids, content \in Contents \cup {Absent} : UpdateRead(t, i, content)
         \/ UpdateResolve(t) \/ UpdateReread(t)
         \/ \E i \in Ids : DeleteRead(t, i)
         \/ DeleteCount(t)
<1>0. flight \in [Servers -> Flight]
  BY DEF TypeOK
<1>1. ASSUME NEW s \in Servers, NEW f, Goto(s, f)
      PROVE  s = t /\ f # Idle
  BY <1>0, <1>1 DEF Goto
<1>2. flight' # flight
  OBVIOUS
<1>3. PICK s \in Servers : Step(s)
  BY <1>2 DEF Next, vars, CliRegister, RegisterSchema, Purge, Change
<1>4. \/ \E slot \in Slots, pin \in Pins, content \in Contents :
           CreateRecord(s, slot, pin, content)
      \/ \E i \in Ids, content \in Contents \cup {Absent} : UpdateRead(s, i, content)
      \/ UpdateResolve(s) \/ UpdateReread(s)
      \/ \E i \in Ids : DeleteRead(s, i)
      \/ DeleteCount(s)
      \/ StoreRecord(s) \/ UpdateWrite(s) \/ DeleteTrash(s) \/ Abort(s)
  BY <1>2, <1>3 DEF Step, Register, RegisterSchema, Remember, BulkDelete, Restore, Change
<1>5. ~StoreRecord(s) /\ ~UpdateWrite(s) /\ ~DeleteTrash(s) /\ ~Abort(s)
  BY <1>1 DEF StoreRecord, UpdateWrite, DeleteTrash, Abort
<1>6. s = t
  BY <1>1, <1>4, <1>5
     DEF CreateRecord, UpdateRead, UpdateResolve, UpdateReread, DeleteRead, DeleteCount
<1> QED BY <1>4, <1>5, <1>6

\* Where a call goes on to, and what it then knows.
LEMMA CallStep ==
  ASSUME ConformInv, RecordsAssumption, [Next]_vars, NEW t \in Servers
  PROVE  CallVetted(t)'
<1>0. /\ TypeOK /\ Known /\ Filled /\ CallVetted(t) /\ ContentConforms
      /\ flight \in [Servers -> Flight]
  BY DEF ConformInv, TypeOK
<1>1. CASE flight'[t] = flight[t]
  BY <1>1, CallWaits
<1>3. ASSUME flight'[t] = Idle
      PROVE  CallVetted(t)'
  BY <1>3 DEF CallVetted, Idle
<1>4. ASSUME NEW slot \in Slots, NEW pin \in Pins, NEW content \in Contents,
             CreateRecord(t, slot, pin, content)
      PROVE  CallVetted(t)'
  <2>1. flight'[t] = [at |-> "upsert", source |-> slot[1], key |-> slot[2], pin |-> pin,
                      content |-> content]
    BY <1>0, <1>4 DEF CreateRecord, Goto
  <2>2. Accepted(pin, content) /\ registered' = registered
    BY <1>0, <1>4, PassesAccepted DEF CreateRecord
  <2> QED BY <2>1, <2>2 DEF CallVetted, Accepted
<1>5. ASSUME NEW i \in Ids, NEW content \in Contents \cup {Absent}, UpdateRead(t, i, content)
      PROVE  CallVetted(t)'
  <2>1. /\ rows' = rows /\ rows[i].state # "unused"
        /\ \/ flight'[t] = [at |-> "resolve", id |-> i, pin |-> rows[i].pin, content |-> content]
           \/ flight'[t] = [at |-> "reread", id |-> i, content |-> content, vetted |-> FALSE]
    BY <1>0, <1>5 DEF UpdateRead, Goto
  <2> QED BY <2>1 DEF CallVetted
<1>6. ASSUME UpdateResolve(t), flight'[t] # Idle
      PROVE  CallVetted(t)'
  <2> DEFINE f == flight[t]
  <2>1. /\ f.at = "resolve" /\ Passes(f.pin, f.content)
        /\ flight'[t] = [at |-> "reread", id |-> f.id, content |-> f.content, vetted |-> TRUE]
        /\ rows' = rows /\ registered' = registered
    BY <1>0, <1>6 DEF UpdateResolve, Goto
  <2>2. Accepted(f.pin, f.content)
    BY <1>0, <2>1, PassesAccepted
  <2> QED BY <1>0, <2>1, <2>2 DEF CallVetted, Accepted
<1>7. ASSUME UpdateReread(t), flight'[t] # Idle
      PROVE  CallVetted(t)'
  <2> DEFINE f == flight[t]
  <2>1. f.at = "reread" /\ rows' = rows /\ registered' = registered
    BY <1>7 DEF UpdateReread
  <2>2. f.id \in Ids /\ f.content \in Contents \cup {Absent}
    BY <1>0, <2>1 DEF Flight, Idle
  <2>3. CASE f.content = Absent
    <3>1. flight'[t] = [at |-> "write", id |-> f.id, content |-> rows[f.id].content,
                        vetted |-> f.id \in vetted]
      BY <1>0, <1>7, <2>3 DEF UpdateReread, Goto
    <3>2. rows[f.id].type = "record" =>
            /\ rows[f.id].content \in Contents
            /\ f.id \in vetted => Accepted(rows[f.id].pin, rows[f.id].content)
      BY <1>0, <2>2 DEF Filled, ContentConforms, Accepted
    <3>3. /\ flight'[t].at = "write" /\ flight'[t].id = f.id
          /\ flight'[t].content = rows[f.id].content
      BY <3>1
    <3>4. flight'[t].vetted = (f.id \in vetted)
      BY <3>1
    <3>5. CASE f.id \in vetted
      BY <1>0, <2>1, <3>2, <3>3, <3>5 DEF CallVetted, Accepted
    <3>6. CASE f.id \notin vetted
      <4>1. ~flight'[t].vetted
        BY <3>4, <3>6
      <4> QED BY <1>0, <2>1, <3>2, <3>3, <4>1 DEF CallVetted
    <3> QED BY <3>5, <3>6
  <2>4. CASE f.content # Absent
    <3>1. flight'[t] = [at |-> "write", id |-> f.id, content |-> f.content,
                        vetted |-> f.vetted]
      BY <1>0, <1>7, <2>4 DEF UpdateReread, Goto
    <3>2. rows[f.id].type = "record" =>
            f.content \in Contents /\ (f.vetted => Accepted(rows[f.id].pin, f.content))
      BY <1>0, <2>1, <2>2, <2>4 DEF CallVetted
    <3> QED BY <1>0, <2>1, <3>1, <3>2 DEF CallVetted, Accepted
  <2> QED BY <2>3, <2>4
<1>8. ASSUME NEW i \in Ids, DeleteRead(t, i)
      PROVE  CallVetted(t)'
  <2>1. /\ rows' = rows /\ rows[i].state # "unused"
        /\ \/ flight'[t] = [at |-> "count", id |-> i, key |-> rows[i].key]
           \/ flight'[t] = [at |-> "trash", id |-> i]
    BY <1>0, <1>8 DEF DeleteRead, Goto
  <2> QED BY <2>1 DEF CallVetted
<1>9. ASSUME DeleteCount(t), flight'[t] # Idle
      PROVE  CallVetted(t)'
  <2>1. /\ rows' = rows /\ flight[t].at = "count"
        /\ flight'[t] = [at |-> "trash", id |-> flight[t].id]
    BY <1>0, <1>9 DEF DeleteCount, Goto
  <2> QED BY <1>0, <2>1 DEF CallVetted
<1>10. ASSUME flight'[t] # flight[t], flight'[t] # Idle
       PROVE  \/ \E slot \in Slots, pin \in Pins, content \in Contents :
                   CreateRecord(t, slot, pin, content)
              \/ \E i \in Ids, content \in Contents \cup {Absent} : UpdateRead(t, i, content)
              \/ UpdateResolve(t) \/ UpdateReread(t)
              \/ \E i \in Ids : DeleteRead(t, i)
              \/ DeleteCount(t)
  BY MoversOnly, <1>0, <1>10
<1> QED BY <1>1, <1>3, <1>4, <1>5, <1>6, <1>7, <1>8, <1>9, <1>10

\* Whatever servers do in between, a record whose content passed validation
\* holds content that a schema of the version it pins accepted.
THEOREM RecordsConform ==
  ASSUME RecordsAssumption
  PROVE  Spec => []ContentConforms
<1>1. Init => ConformInv
  BY InitTyped DEF Init, ConformInv, Known, Filled, ContentConforms, CallVetted, Unused, Idle
<1>2. ConformInv /\ [Next]_vars => ConformInv'
  <2> SUFFICES ASSUME ConformInv, [Next]_vars PROVE ConformInv'
    OBVIOUS
  <2>1. TypeOK'
    BY TypeStep DEF ConformInv
  <2>2. Known' /\ Filled'
    BY KnownStep
  <2>3. ContentConforms'
    BY ConformStep
  <2>4. \A s \in Servers : CallVetted(s)'
    BY CallStep
  <2> QED BY <2>1, <2>2, <2>3, <2>4 DEF ConformInv
<1>3. ConformInv => ContentConforms
  BY DEF ConformInv
<1> QED BY <1>1, <1>2, <1>3, PTL DEF Spec

-----------------------------------------------------------------------------
(* OrphansOnlyNewcomers.                                                   *)

\* A deletion of an active schema that is past the count: the schema or every
\* record that references it arrived since the call began.
Counted(s) ==
  LET i == flight[s].id IN
  (flight[s].at = "trash" /\ Own(i) /\ rows[i].type = "schema") =>
    i \in arrived[s] \/ Referencing(rows[i].key) \subseteq arrived[s]

\* The inductive invariant for deletions.
DeleteInv == TypeOK /\ \A s \in Servers : CallVetted(s) /\ Counted(s)

\* Another server may add references or restore the schema; both arrive.
LEMMA CountWaits ==
  ASSUME TypeOK, RecordsAssumption, [Next]_vars, NEW t \in Servers,
         CallVetted(t), Counted(t), flight'[t] = flight[t]
  PROVE  Counted(t)'
<1> SUFFICES ASSUME flight[t].at = "trash", Own(flight[t].id)',
                    rows'[flight[t].id].type = "schema"
             PROVE  \/ flight[t].id \in arrived'[t]
                    \/ Referencing(rows[flight[t].id].key)' \subseteq arrived'[t]
  BY DEF Counted, Own, Active
<1>1. \A j \in Ids : rows[j].state # "unused" =>
        /\ rows'[j].state # "unused"
        /\ rows'[j] = Purged \/ Same(rows[j], rows'[j])
  BY RowsStay
<1>2. PICK i \in Ids : flight[t].id = i
  BY DEF TypeOK, Flight, Idle
<1>3. arrived'[t] = arrived[t] \cup {j \in Ids : rows'[j].state = "active" /\ ~Active(j)}
      \/ UNCHANGED vars
  <2>1. CASE Arrivals
    BY <2>1 DEF Arrivals
  <2>2. \A s \in Servers : Step(s) => Arrivals
    <3>1. ASSUME NEW s \in Servers, Step(s)
          PROVE  Arrivals
      <4>1. CASE \/ \E j \in Ids, reg \in Schemas : Register(s, j, reg)
                 \/ \E slot \in Slots, content \in Contents :
                      \/ \E pin \in Pins : CreateRecord(s, slot, pin, content)
                      \/ Remember(s, slot, content)
                 \/ StoreRecord(s)
        BY <4>1 DEF Register, RegisterSchema, CreateRecord, StoreRecord, Remember
      <4>2. CASE \/ \E j \in Ids, content \in Contents \cup {Absent} : UpdateRead(s, j, content)
                 \/ UpdateResolve(s) \/ UpdateReread(s) \/ UpdateWrite(s)
        BY <4>2 DEF UpdateRead, UpdateResolve, UpdateReread, UpdateWrite
      <4>3. CASE \/ \E j \in Ids : DeleteRead(s, j)
                 \/ DeleteCount(s) \/ DeleteTrash(s) \/ Abort(s)
                 \/ \E S \in SUBSET Ids \ {{}} : BulkDelete(s, S) \/ Restore(s, S)
        BY <4>3 DEF DeleteRead, DeleteCount, DeleteTrash, BulkDelete, Restore, Change, Abort
      <4> QED BY <3>1, <4>1, <4>2, <4>3 DEF Step
    <3> QED BY <3>1
  <2>3. \/ \E s \in Servers : Step(s)
        \/ Arrivals
        \/ UNCHANGED vars
    BY DEF Next, CliRegister, RegisterSchema, Purge, Change
  <2> QED BY <2>1, <2>2, <2>3
<1>4. CASE UNCHANGED vars
  <2>1. Own(i) /\ rows[i].type = "schema"
    BY <1>2, <1>4 DEF vars, Own, Active
  <2>2. Referencing(rows[i].key)' = Referencing(rows[i].key)
    BY <1>4 DEF vars, Referencing, Own, Active
  <2> QED BY <1>2, <1>4, <2>1, <2>2 DEF Counted, vars
<1>5. CASE arrived'[t] = arrived[t] \cup {j \in Ids : rows'[j].state = "active" /\ ~Active(j)}
  <2>1. rows[i].state # "unused" /\ rows'[i].state = "active"
    BY <1>2 DEF CallVetted, Own, Active
  <2>2. Same(rows[i], rows'[i])
    BY <1>1, <2>1, PurgedRow
  <2>3. CASE ~Active(i)
    BY <1>2, <1>5, <2>1, <2>3
  <2>4. CASE Active(i)
    <3>1. Own(i) /\ rows[i].type = "schema"
      BY <1>2, <2>2, <2>4 DEF Own, Same
    <3>2. i \in arrived[t] \/ Referencing(rows[i].key) \subseteq arrived[t]
      BY <1>2, <3>1 DEF Counted
    <3>3. ASSUME Referencing(rows[i].key) \subseteq arrived[t],
                 NEW j \in Referencing(rows[i].key)'
          PROVE  j \in arrived'[t]
      <4>1. /\ j \in Ids /\ rows'[j].state = "active" /\ rows'[j].owner = Caller
            /\ rows'[j].type = "record" /\ rows'[j].pin = Split(rows'[i].key)
        BY DEF Referencing, Own, Active
      <4>2. CASE ~Active(j)
        BY <1>5, <4>1, <4>2
      <4>3. CASE Active(j)
        <5>1. Same(rows[j], rows'[j])
          BY <1>1, <4>1, <4>3, PurgedRow DEF Active
        <5>2. j \in Referencing(rows[i].key)
          BY <2>2, <4>1, <4>3, <5>1 DEF Referencing, Own, Same
        <5> QED BY <1>5, <3>3, <5>2
      <4> QED BY <4>2, <4>3
    <3> QED BY <1>2, <1>5, <3>2, <3>3
  <2> QED BY <2>3, <2>4
<1> QED BY <1>3, <1>4, <1>5

\* A call comes to its deletion counted, or about an entry that was no schema
\* of the caller's when it was read.
LEMMA CountStep ==
  ASSUME DeleteInv, RecordsAssumption, [Next]_vars, NEW t \in Servers
  PROVE  Counted(t)'
<1>0. TypeOK /\ CallVetted(t) /\ Counted(t) /\ flight \in [Servers -> Flight]
  BY DEF DeleteInv, TypeOK
<1>1. CASE flight'[t] = flight[t]
  BY <1>0, <1>1, CountWaits
<1>2. CASE flight'[t].at # "trash"
  BY <1>2 DEF Counted
<1>3. ASSUME NEW i \in Ids, DeleteRead(t, i), flight'[t].at = "trash"
      PROVE  Counted(t)'
  <2>1. rows' = rows /\ flight'[t].id = i /\ ~(Own(i) /\ rows[i].type = "schema")
    BY <1>0, <1>3 DEF DeleteRead, Goto
  <2> QED BY <2>1 DEF Counted, Own, Active
<1>4. ASSUME DeleteCount(t), flight'[t].at = "trash"
      PROVE  Counted(t)'
  <2>1. /\ rows' = rows /\ flight[t].at = "count"
        /\ flight'[t].id = flight[t].id /\ Referencing(flight[t].key) = {}
    BY <1>0, <1>4 DEF DeleteCount, Goto, Idle
  <2>2. SUFFICES ASSUME rows[flight[t].id].type = "schema"
                 PROVE  Counted(t)'
    BY <2>1 DEF Counted
  <2>3. rows[flight[t].id].key = flight[t].key
    BY <1>0, <2>1, <2>2 DEF CallVetted
  <2>4. Referencing(rows[flight[t].id].key)' = {}
    BY <2>1, <2>3 DEF Referencing, Own, Active
  <2> QED BY <2>1, <2>4 DEF Counted
<1>5. ASSUME flight'[t] # flight[t], flight'[t].at = "trash"
      PROVE  (\E i \in Ids : DeleteRead(t, i)) \/ DeleteCount(t)
  <2>1. flight'[t] # Idle
    BY <1>5 DEF Idle
  <2>2. \A slot \in Slots, pin \in Pins, content \in Contents : ~CreateRecord(t, slot, pin, content)
    BY <1>0, <1>5 DEF CreateRecord, Goto
  <2>3. \A i \in Ids, content \in Contents \cup {Absent} : ~UpdateRead(t, i, content)
    BY <1>0, <1>5 DEF UpdateRead, Goto
  <2>4. ~UpdateResolve(t) /\ ~UpdateReread(t)
    BY <1>0, <1>5 DEF UpdateResolve, UpdateReread, Goto, Idle
  <2> QED BY <1>0, <1>5, <2>1, <2>2, <2>3, <2>4, MoversOnly
<1> QED BY <1>1, <1>2, <1>3, <1>4, <1>5

\* A deletion leaves its last stage by deleting, or aborts and deletes nothing.
LEMMA TrashLeft ==
  ASSUME TypeOK, [Next]_vars, NEW t \in Servers,
         flight[t].at = "trash", flight'[t] # flight[t], rows' # rows
  PROVE  DeleteTrash(t)
<1>0. flight \in [Servers -> Flight]
  BY DEF TypeOK
<1>1. ASSUME NEW s \in Servers, NEW f, Goto(s, f)
      PROVE  s = t
  BY <1>0, <1>1 DEF Goto
<1>2. flight' # flight
  OBVIOUS
<1>3. PICK s \in Servers : Step(s)
  BY <1>2 DEF Next, vars, CliRegister, RegisterSchema, Purge, Change
<1>4. StoreRecord(s) \/ UpdateWrite(s) \/ DeleteTrash(s)
  BY <1>2, <1>3
     DEF Step, Register, RegisterSchema, Remember, BulkDelete, Restore, Change, CreateRecord,
         UpdateRead, UpdateResolve, UpdateReread, DeleteRead, DeleteCount, Abort
<1>5. s = t
  BY <1>1, <1>4 DEF StoreRecord, UpdateWrite, DeleteTrash
<1> QED BY <1>4, <1>5 DEF StoreRecord, UpdateWrite

\* Splitting a name of at least two parts on its last colon.
LEMMA SplitAppended ==
  ASSUME NEW family \in Seq(Parts), family # <<>>, NEW part \in Parts
  PROVE  Split(family \o <<part>>) = <<family, <<part>>>>
<1> DEFINE key == Append(family, part)
<1>1. key = family \o <<part>>
  BY AppendIsConcat
<1>2. /\ key \in Seq(Parts) /\ Len(key) = Len(family) + 1
      /\ \A n \in 1 .. Len(family) : key[n] = family[n]
      /\ key[Len(family) + 1] = part
  BY AppendProperties
<1>3. Len(family) \in Nat /\ Len(family) >= 1
  BY LenProperties, EmptySeq
<1> HIDE DEF key
<1>4. Last(key) = part
  BY <1>2 DEF Last
<1>5. Front(key) = family
  <2>1. Front(key) = SubSeq(key, 1, Len(family))
    BY <1>2, <1>3 DEF Front
  <2>2. \A n \in 1 .. Len(family) : key[n] = family[n] /\ key[n] \in Parts
    BY <1>2, ElementOfSeq
  <2>3. /\ SubSeq(key, 1, Len(family)) \in Seq(Parts)
        /\ Len(SubSeq(key, 1, Len(family))) = Len(family)
        /\ \A n \in 1 .. Len(family) : SubSeq(key, 1, Len(family))[n] = family[n]
    BY <1>3, <2>2, SubSeqProperties
  <2> QED BY <2>1, <2>3, SeqEqual
<1> QED BY <1>1, <1>4, <1>5 DEF Split

\* Splitting the key of a pin gives the pin back when its version has no colon.
LEMMA SplitComposed ==
  ASSUME RecordsAssumption, NEW pin \in Pins, Len(pin[2]) = 1
  PROVE  Split(Compose(pin)) = pin
<1>1. PICK family \in Seq(Parts), version \in Seq(Parts) :
        family # <<>> /\ Len(version) = 1 /\ pin = <<family, version>>
  BY DEF RecordsAssumption
<1>2. version[1] \in Parts
  BY <1>1, ElementOfSeq
<1>3. version = <<version[1]>>
  <2>1. <<version[1]>> \in Seq(Parts) /\ Len(<<version[1]>>) = 1
    BY <1>2
  <2> QED BY <1>1, <2>1, SeqEqual
<1>4. Split(family \o <<version[1]>>) = <<family, <<version[1]>>>>
  BY <1>1, <1>2, SplitAppended
<1> QED BY <1>1, <1>3, <1>4 DEF Compose

\* So the count finds the dependents whose version has no colon.
LEMMA GuardedCounted ==
  ASSUME TypeOK, RecordsAssumption, NEW key, NEW j \in Dependents(key),
         Len(rows[j].pin[2]) = 1
  PROVE  j \in Referencing(key)
<1>1. /\ j \in Ids /\ Own(j) /\ rows[j].type = "record" /\ rows[j].pin \in Pins
      /\ Compose(rows[j].pin) = key
  BY DEF Dependents, TypeOK
<1>2. Split(key) = rows[j].pin
  BY <1>1, SplitComposed
<1> QED BY <1>1, <1>2 DEF Referencing

\* The calls of every behaviour are counted.
LEMMA AlwaysCounted ==
  ASSUME RecordsAssumption
  PROVE  Spec => [](ConformInv /\ DeleteInv)
<1>1. Init => ConformInv /\ DeleteInv
  <2>1. Init => ConformInv
    BY InitTyped DEF Init, ConformInv, Known, Filled, ContentConforms, CallVetted, Unused, Idle
  <2> QED BY <2>1 DEF Init, ConformInv, DeleteInv, Counted, Idle
<1>2. ConformInv /\ DeleteInv /\ [Next]_vars => ConformInv' /\ DeleteInv'
  <2> SUFFICES ASSUME ConformInv, DeleteInv, [Next]_vars PROVE ConformInv' /\ DeleteInv'
    OBVIOUS
  <2>1. TypeOK' /\ Known' /\ Filled' /\ ContentConforms'
    BY TypeStep, KnownStep, ConformStep DEF ConformInv
  <2>2. \A s \in Servers : CallVetted(s)' /\ Counted(s)'
    BY CallStep, CountStep
  <2> QED BY <2>1, <2>2 DEF ConformInv, DeleteInv
<1> QED BY <1>1, <1>2, PTL DEF Spec

\* A deletion that takes effect was counted.
LEMMA DeletionCounted ==
  ASSUME DeleteInv, [Next]_vars, NEW s \in Servers, NEW i \in Ids,
         DeletesSchema(s, i)
  PROVE  i \in arrived[s] \/ Referencing(rows[i].key) \subseteq arrived[s]
<1>1. TypeOK /\ Counted(s) /\ flight \in [Servers -> Flight]
  BY DEF DeleteInv, TypeOK
<1>2. DeleteTrash(s)
  BY <1>1, TrashLeft DEF DeletesSchema
<1>3. Own(i)
  BY <1>2 DEF DeleteTrash, DeletesSchema
<1> QED BY <1>1, <1>3 DEF Counted, DeletesSchema

\* Deleting a schema by id leaves a record without its schema only if that
\* record, or the schema itself, became active while the call was in progress, or
\* the record names its version with a colon.
THEOREM DeletionsOrphanNewcomers ==
  ASSUME RecordsAssumption
  PROVE  Spec => OrphansOnlyNewcomers
<1> DEFINE Orphans ==
      \A s \in Servers : \A i \in Ids :
        DeletesSchema(s, i) => i \in arrived[s] \/ Guarded(s, rows[i].key) = {}
<1>1. ConformInv /\ DeleteInv /\ [Next]_vars => [Orphans]_vars
  <2> SUFFICES ASSUME DeleteInv, [Next]_vars,
                      NEW s \in Servers, NEW i \in Ids,
                      DeletesSchema(s, i), i \notin arrived[s]
               PROVE  Guarded(s, rows[i].key) = {}
    OBVIOUS
  <2>1. Referencing(rows[i].key) \subseteq arrived[s]
    BY DeletionCounted
  <2>2. \A j \in Guarded(s, rows[i].key) : j \in Referencing(rows[i].key)
    BY GuardedCounted DEF Guarded, DeleteInv
  <2> QED BY <2>1, <2>2 DEF Guarded
<1> QED BY <1>1, AlwaysCounted, PTL DEF Spec, OrphansOnlyNewcomers

\* When no version has a colon, the guard keeps its promise to every record that
\* was there when the deletion began.
THEOREM DeletionsSpareDependents ==
  ASSUME RecordsAssumption, \A pin \in Pins : Len(pin[2]) = 1
  PROVE  Spec => DependentsKeepSchema
<1> DEFINE Spared ==
      \A s \in Servers : \A i \in Ids :
        DeletesSchema(s, i) => i \in arrived[s] \/ Dependents(rows[i].key) \subseteq arrived[s]
<1>1. ConformInv /\ DeleteInv /\ [Next]_vars => [Spared]_vars
  <2> SUFFICES ASSUME DeleteInv, [Next]_vars,
                      NEW s \in Servers, NEW i \in Ids,
                      DeletesSchema(s, i), i \notin arrived[s]
               PROVE  Dependents(rows[i].key) \subseteq arrived[s]
    OBVIOUS
  <2>1. Referencing(rows[i].key) \subseteq arrived[s]
    BY DeletionCounted
  <2>2. \A j \in Dependents(rows[i].key) : Len(rows[j].pin[2]) = 1
    BY DEF DeleteInv, TypeOK, Dependents
  <2>3. \A j \in Dependents(rows[i].key) : j \in Referencing(rows[i].key)
    BY <2>2, GuardedCounted DEF DeleteInv
  <2> QED BY <2>1, <2>3
<1> QED BY <1>1, AlwaysCounted, PTL DEF Spec, DependentsKeepSchema
=============================================================================
