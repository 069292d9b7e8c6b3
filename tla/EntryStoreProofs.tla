-------------------------- MODULE EntryStoreProofs --------------------------
(***************************************************************************)
(* Proofs about EntryStore, for any sets of ids, servers, sources, keys    *)
(* and contents and any retention.                                         *)
(***************************************************************************)
EXTENDS EntryStore, TLAPS

\* Where the expiry of a row comes from.  An update in flight carries a saved
\* expiry too, and the clock a cleanup thread works from is never ahead.
Lifespans ==
  /\ \A i \in Ids :
       /\ Exists(i) => rows[i].original \in {None, due[i]}
       /\ Active(i) => rows[i].expires \in {None, due[i]}
       /\ rows[i].state = "trash" => rows[i].expires = rows[i].deleted + Retention
  /\ \A s \in Servers :
       flight[s].at = "update" =>
         /\ rows[flight[s].id] # Unused
         /\ flight[s].row.original \in {None, due[flight[s].id]}
  /\ \A s \in Servers : cleaner[s].now <= time

\* An upsert in flight still has, active and under its key, the row it locked.
KeepsSlot ==
  \A s \in Servers :
    flight[s].at = "merge" => InSlot(flight[s].id, flight[s].source, flight[s].key)

IInv == TypeOK /\ Lifespans /\ IndexHolds(rows) /\ KeepsSlot

-----------------------------------------------------------------------------
(* The operators the actions are built from. *)

\* A change record holds a value for each field that changed.
LEMMA ChangeType ==
  ASSUME NEW r \in Row, NEW src \in Sources, NEW c \in Contents
  PROVE  [f \in Changed(r, src, c) |-> r[f]] \in Change
<1>1. Changed(r, src, c) \subseteq Fields
  BY DEF Changed
<1>2. r["source"] \in FieldValues /\ r["content"] \in FieldValues
  BY DEF Row, FieldValues
<1>3. \A f \in Changed(r, src, c) : r[f] \in FieldValues
  BY <1>1, <1>2 DEF Fields
<1>4. [f \in Changed(r, src, c) |-> r[f]] \in [Changed(r, src, c) -> FieldValues]
  BY <1>3
<1>. QED
  BY <1>1, <1>4 DEF Change

\* Editing a row gives a row with the same state, key, expiry and saved expiry.
LEMMA EditedType ==
  ASSUME NEW r \in Row, NEW src \in Sources, NEW c \in Contents
  PROVE  /\ Edited(r, src, c) \in Row
         /\ Edited(r, src, c).source = src
         /\ Edited(r, src, c).state = r.state
         /\ Edited(r, src, c).key = r.key
         /\ Edited(r, src, c).expires = r.expires
         /\ Edited(r, src, c).original = r.original
         /\ Edited(r, src, c).deleted = r.deleted
<1>1. Append(r.log, [f \in Changed(r, src, c) |-> r[f]]) \in Seq(Change)
  BY ChangeType DEF Row
<1>. DEFINE cc == IF c = Absent THEN r.content ELSE c
            l == Append(r.log, [f \in Changed(r, src, c) |-> r[f]])
<1>2. cc \in Contents
  BY DEF Row
<1>3. Edited(r, src, c) = [r EXCEPT !.source = src, !.content = cc, !.log = l]
  BY DEF Edited
<1>4. l \in Seq(Change)
  BY <1>1
<1>. HIDE DEF cc, l
<1>. QED
  BY <1>2, <1>3, <1>4 DEF Row

\* What a write destroys is a set of field-value pairs.
LEMMA OverwrittenType ==
  ASSUME NEW old \in Row, NEW new \in Row
  PROVE  Overwritten(old, new) \subseteq Fields \X FieldValues
<1>1. old["source"] \in FieldValues /\ old["content"] \in FieldValues
  BY DEF Row, FieldValues
<1>2. \A f \in Fields : old[f] \in FieldValues
  BY <1>1 DEF Fields
<1>. QED
  BY <1>2 DEF Overwritten

LEMMA TrashType ==
  ASSUME NEW r \in Row, time \in Nat
  PROVE  /\ Trashed(r) \in Row /\ Restored(r) \in Row
         /\ Trashed(r).state = "trash" /\ Trashed(r).original = r.expires
         /\ Trashed(r).expires = Trashed(r).deleted + Retention
         /\ Restored(r).state = "active" /\ Restored(r).original = None
         /\ Restored(r).expires = r.original
<1>1. time + Retention \in Nat /\ None \in Nat
  BY ParametersAssumption DEF None
<1>2. /\ Trashed(r) \in Row /\ Trashed(r).state = "trash"
      /\ Trashed(r).original = r.expires
      /\ Trashed(r).expires = Trashed(r).deleted + Retention
  BY <1>1 DEF Trashed, Row
<1>3. /\ Restored(r) \in Row /\ Restored(r).state = "active"
      /\ Restored(r).original = None /\ Restored(r).expires = r.original
  BY <1>1 DEF Restored, Row
<1>. QED
  BY <1>2, <1>3

\* Every existing row is a Row.
LEMMA ExistingRow ==
  ASSUME TypeOK, NEW i \in Ids
  PROVE  /\ Exists(i) => rows[i] \in Row
         /\ rows[i] \in Row => rows[i] # Unused /\ rows[i] # Purged /\ Exists(i)
         /\ ~Exists(i) => rows[i] \in {Unused, Purged}
BY DEF TypeOK, Exists, Row, Unused, Purged

\* What a call in flight looks like.
LEMMA FlightType ==
  ASSUME TypeOK, NEW s \in Servers
  PROVE  /\ flight[s].at = "update" =>
              /\ flight[s].id \in Ids /\ flight[s].source \in Sources
              /\ flight[s].content \in Contents /\ flight[s].row \in Row
         /\ flight[s].at = "merge" =>
              /\ flight[s].id \in Ids /\ flight[s].source \in Sources
              /\ flight[s].content \in Contents /\ flight[s].key \in Keys
BY DEF TypeOK, Flight, Call, Idle

\* A server that is ready holds neither an entry nor a lock.
LEMMA ReadyFlight ==
  ASSUME NEW s \in Servers, Ready(s)
  PROVE  flight[s].at # "update" /\ flight[s].at # "merge"
BY DEF Ready, Idle

\* If the rows active after a step were active before it, in the same slots,
\* the index still holds.
LEMMA SlotsKept ==
  ASSUME IndexHolds(rows),
         \A i \in Ids : rows'[i].state = "active" =>
           /\ Active(i)
           /\ rows'[i].source = rows[i].source /\ rows'[i].key = rows[i].key
  PROVE  IndexHolds(rows')
BY DEF IndexHolds, Active

LEMMA SchedulingType ==
  ASSUME TypeOK, Lifespans, NEW s \in Servers, ScheduleCleanup(s)
  PROVE  /\ cleaner' \in [Servers -> Cleaner]
         /\ \A x \in Servers : cleaner'[x].now <= time
<1>1. time \in Nat /\ None <= time /\ None \in Nat
  BY DEF TypeOK, None
<1>2. /\ cleaner \in [Servers -> Cleaner]
      /\ \A x \in Servers : cleaner[x].now <= time
  BY DEF TypeOK, Lifespans
<1>3. CASE UNCHANGED cleaner
  BY <1>2, <1>3
<1>4. CASE cleaner' = [cleaner EXCEPT ![s] = [at |-> "start", now |-> None]]
  <2>1. [at |-> "start", now |-> None] \in Cleaner
    BY <1>1 DEF Cleaner
  <2>. QED
    BY <1>1, <1>2, <1>4, <2>1
<1>. QED
  BY <1>3, <1>4 DEF ScheduleCleanup

-----------------------------------------------------------------------------
(* The steps. *)

LEMMA InsertStep ==
  ASSUME IInv, NEW i \in Ids, NEW src \in Sources, NEW k \in Keys \cup {NoKey},
         NEW c \in Contents, NEW exp \in Nat, Insert(i, src, k, c, exp),
         k # NoKey => \A j \in Ids : ~InSlot(j, src, k)
  PROVE  /\ rows' \in [Ids -> {Unused, Purged} \cup Row]
         /\ due' \in [Ids -> Nat]
         /\ \A j \in Ids : rows[j] # Unused => rows'[j] = rows[j] /\ due'[j] = due[j]
         /\ \A j \in Ids :
              /\ Exists(j)' => rows'[j].original \in {None, due'[j]}
              /\ Active(j)' => rows'[j].expires \in {None, due'[j]}
              /\ rows'[j].state = "trash" => rows'[j].expires = rows'[j].deleted + Retention
         /\ IndexHolds(rows')
<1>. DEFINE new == [state |-> "active", source |-> src, key |-> k, content |-> c,
                    expires |-> exp, original |-> None, deleted |-> None,
                    log |-> <<>>]
<1>1. new \in Row
  <2>1. <<>> \in Seq(Change) /\ None \in Nat
    BY DEF None
  <2>. QED
    BY <2>1 DEF Row
<1>2. /\ rows[i] = Unused
      /\ rows' = [rows EXCEPT ![i] = new]
      /\ due' = [due EXCEPT ![i] = exp]
  BY DEF Insert
<1>3. /\ new.state = "active" /\ new.source = src /\ new.key = k
      /\ new.expires = exp /\ new.original = None
  OBVIOUS
<1>. HIDE DEF new
<1>4. rows' \in [Ids -> {Unused, Purged} \cup Row] /\ due' \in [Ids -> Nat]
  BY <1>1, <1>2 DEF IInv, TypeOK
<1>5. /\ rows'[i] = new /\ due'[i] = exp
      /\ \A j \in Ids \ {i} : rows'[j] = rows[j] /\ due'[j] = due[j]
  BY <1>2 DEF IInv, TypeOK
<1>6. \A j \in Ids :
        /\ Exists(j)' => rows'[j].original \in {None, due'[j]}
        /\ Active(j)' => rows'[j].expires \in {None, due'[j]}
        /\ rows'[j].state = "trash" => rows'[j].expires = rows'[j].deleted + Retention
  BY <1>3, <1>5 DEF IInv, Lifespans, Exists, Active
<1>7. IndexHolds(rows')
  <2>. SUFFICES ASSUME NEW x \in Ids, NEW y \in Ids, x # y,
                       rows'[x].state = "active", rows'[y].state = "active",
                       rows'[x].key # NoKey,
                       <<rows'[x].source, rows'[x].key>> = <<rows'[y].source, rows'[y].key>>
                PROVE  FALSE
    BY DEF IndexHolds
  <2>1. CASE x = i
    BY <1>3, <1>5, <2>1 DEF InSlot, Active
  <2>2. CASE y = i
    BY <1>3, <1>5, <2>2 DEF InSlot, Active
  <2>3. CASE x # i /\ y # i
    BY <1>5, <2>3 DEF IInv, IndexHolds
  <2>. QED
    BY <2>1, <2>2, <2>3
<1>. QED
  BY <1>2, <1>4, <1>5, <1>6, <1>7

\* A step in which no call starts keeps the invariant, provided the rows' own
\* parts hold after it and the rows it changes were not locked.
LEMMA StepInv ==
  ASSUME IInv,
         rows' \in [Ids -> {Unused, Purged} \cup Row],
         due' \in [Ids -> Nat],
         past' \in [Ids -> SUBSET (Fields \X FieldValues)],
         overlapped' \subseteq Ids,
         autoCleanup' \in BOOLEAN,
         time' \in Nat \ {0},
         time <= time',
         cleaner' \in [Servers -> Cleaner],
         \A s \in Servers : cleaner'[s].now <= time,
         flight' \in [Servers -> Flight],
         \A s \in Servers : flight'[s] \in {flight[s], Idle},
         \A i \in Ids : rows[i] # Unused => rows'[i] # Unused /\ due'[i] = due[i],
         \A i \in Ids :
           /\ Exists(i)' => rows'[i].original \in {None, due'[i]}
           /\ Active(i)' => rows'[i].expires \in {None, due'[i]}
           /\ rows'[i].state = "trash" => rows'[i].expires = rows'[i].deleted + Retention,
         IndexHolds(rows'),
         \A i \in Ids : Locked(i) /\ Active(i) =>
           /\ rows'[i].state = "active"
           /\ rows'[i].source = rows[i].source /\ rows'[i].key = rows[i].key
  PROVE  IInv'
<1>1. TypeOK'
  BY DEF TypeOK
<1>2. \A s \in Servers : flight'[s].at \in {"update", "merge"} => flight'[s] = flight[s]
  BY DEF Idle
<1>3. Lifespans'
  <2>1. \A s \in Servers : flight'[s].at = "update" =>
          /\ rows'[flight'[s].id] # Unused
          /\ flight'[s].row.original \in {None, due'[flight'[s].id]}
    BY <1>2, FlightType DEF IInv, Lifespans
  <2>2. \A s \in Servers : cleaner'[s].now <= time'
    BY DEF Cleaner, IInv, TypeOK, None
  <2>. QED
    BY <2>1, <2>2 DEF Lifespans
<1>4. KeepsSlot'
  <2>. SUFFICES ASSUME NEW s \in Servers, flight'[s].at = "merge"
                PROVE  /\ rows'[flight'[s].id].state = "active"
                       /\ rows'[flight'[s].id].key = flight'[s].key
                       /\ rows'[flight'[s].id].source = flight'[s].source
    BY DEF KeepsSlot, InSlot, Active
  <2>1. flight'[s] = flight[s] /\ flight[s].at = "merge" /\ flight[s].id \in Ids
    BY <1>2, FlightType DEF IInv
  <2>2. InSlot(flight[s].id, flight[s].source, flight[s].key) /\ Locked(flight[s].id)
    BY <2>1 DEF IInv, KeepsSlot, Locked
  <2>. QED
    BY <2>1, <2>2 DEF InSlot, Active
<1>5. IndexHolds(rows)'
  BY DEF IndexHolds
<1>. QED
  BY <1>1, <1>3, <1>4, <1>5 DEF IInv

\* An answered call leaves a flight that StepInv accepts.
LEMMA AnswerFlight ==
  ASSUME TypeOK, NEW s \in Servers, Answer(s)
  PROVE  /\ flight' \in [Servers -> Flight]
         /\ \A x \in Servers : flight'[x] \in {flight[x], Idle}
BY DEF TypeOK, Answer, Flight

\* What of the invariant a step that leaves the rows alone inherits.
LEMMA SameRows ==
  ASSUME IInv, UNCHANGED <<rows, due>>
  PROVE  /\ rows' \in [Ids -> {Unused, Purged} \cup Row]
         /\ due' \in [Ids -> Nat]
         /\ \A i \in Ids : rows[i] # Unused => rows'[i] # Unused /\ due'[i] = due[i]
         /\ \A i \in Ids :
              /\ Exists(i)' => rows'[i].original \in {None, due'[i]}
              /\ Active(i)' => rows'[i].expires \in {None, due'[i]}
              /\ rows'[i].state = "trash" => rows'[i].expires = rows'[i].deleted + Retention
         /\ IndexHolds(rows')
         /\ \A i \in Ids : Locked(i) /\ Active(i) =>
              /\ rows'[i].state = "active"
              /\ rows'[i].source = rows[i].source /\ rows'[i].key = rows[i].key
<1>1. IndexHolds(rows')
  BY DEF IInv, IndexHolds
<1>. QED
  BY <1>1 DEF IInv, TypeOK, Lifespans, Exists, Active

LEMMA InsertedInv ==
  ASSUME IInv, NEW s \in Servers, NEW i \in Ids, NEW src \in Sources,
         NEW k \in Keys \cup {NoKey}, NEW c \in Contents, NEW exp \in Nat,
         Insert(i, src, k, c, exp),
         k # NoKey => \A j \in Ids : ~InSlot(j, src, k),
         ScheduleCleanup(s), Answer(s), UNCHANGED <<autoCleanup, time, past, overlapped>>
  PROVE  IInv'
<1>1. /\ rows' \in [Ids -> {Unused, Purged} \cup Row]
      /\ due' \in [Ids -> Nat]
      /\ \A j \in Ids : rows[j] # Unused => rows'[j] = rows[j] /\ due'[j] = due[j]
      /\ \A j \in Ids :
           /\ Exists(j)' => rows'[j].original \in {None, due'[j]}
           /\ Active(j)' => rows'[j].expires \in {None, due'[j]}
           /\ rows'[j].state = "trash" => rows'[j].expires = rows'[j].deleted + Retention
      /\ IndexHolds(rows')
  BY InsertStep
<1>2. /\ cleaner' \in [Servers -> Cleaner]
      /\ \A x \in Servers : cleaner'[x].now <= time
  BY SchedulingType DEF IInv
<1>3. /\ flight' \in [Servers -> Flight]
      /\ \A x \in Servers : flight'[x] \in {flight[x], Idle}
  BY AnswerFlight DEF IInv
<1>4. \A j \in Ids : Active(j) => rows[j] # Unused
  BY DEF Active, Unused
<1>5. /\ past' \in [Ids -> SUBSET (Fields \X FieldValues)] /\ autoCleanup' \in BOOLEAN
      /\ overlapped' \subseteq Ids
      /\ time' \in Nat \ {0} /\ time <= time'
  BY DEF IInv, TypeOK
<1>6. \A j \in Ids : Locked(j) /\ Active(j) =>
        /\ rows'[j].state = "active"
        /\ rows'[j].source = rows[j].source /\ rows'[j].key = rows[j].key
  BY <1>1, <1>4 DEF Active
<1>7. \A j \in Ids : rows[j] # Unused => rows'[j] # Unused /\ due'[j] = due[j]
  BY <1>1
<1>. QED
  BY <1>1, <1>2, <1>3, <1>5, <1>6, <1>7, StepInv

LEMMA AddStep ==
  ASSUME IInv, NEW s \in Servers, NEW i \in Ids, NEW src \in Sources,
         NEW c \in Contents, NEW ttl \in Ttls \cup {None}, Add(s, i, src, c, ttl)
  PROVE  IInv'
<1>. DEFINE exp == IF ttl = None THEN None ELSE time + ttl
<1>1. exp \in Nat
  BY ParametersAssumption DEF IInv, TypeOK, None
<1>2. /\ Insert(i, src, NoKey, c, exp) /\ ScheduleCleanup(s) /\ Answer(s)
      /\ UNCHANGED <<autoCleanup, time, past, overlapped>>
  BY DEF Add
<1>. HIDE DEF exp
<1>. QED
  BY <1>1, <1>2, InsertedInv

LEMMA UpsertInsertStep ==
  ASSUME IInv, NEW s \in Servers, NEW i \in Ids, NEW src \in Sources,
         NEW k \in Keys, NEW c \in Contents, UpsertInsert(s, i, src, k, c)
  PROVE  IInv'
<1>1. /\ Insert(i, src, k, c, None) /\ ScheduleCleanup(s) /\ Answer(s)
      /\ \A j \in Ids : ~InSlot(j, src, k)
      /\ UNCHANGED <<autoCleanup, time, past, overlapped>>
  BY DEF UpsertInsert
<1>2. None \in Nat
  BY DEF None
<1>. QED
  BY <1>1, <1>2, InsertedInv

LEMMA UpsertConflictStep ==
  ASSUME IInv, NEW s \in Servers, NEW j \in Ids, NEW src \in Sources,
         NEW k \in Keys, NEW c \in Contents, UpsertConflict(s, j, src, k, c)
  PROVE  IInv'
<1>. DEFINE call == [at |-> "merge", id |-> j, source |-> src, key |-> k, content |-> c]
<1>1. /\ InSlot(j, src, k)
      /\ flight' = [flight EXCEPT ![s] = call]
      /\ UNCHANGED <<rows, cleaner, autoCleanup, time, due, past, overlapped>>
  BY DEF UpsertConflict
<1>2. /\ call \in Flight /\ call.at = "merge" /\ call.id = j
      /\ call.source = src /\ call.key = k
  BY DEF Flight, Call
<1>. HIDE DEF call
<1>3. TypeOK'
  BY <1>1, <1>2 DEF IInv, TypeOK
<1>4. /\ flight'[s] = call
      /\ \A x \in Servers \ {s} : flight'[x] = flight[x]
  BY <1>1 DEF IInv, TypeOK
<1>5. Lifespans'
  BY <1>1, <1>2, <1>4 DEF IInv, Lifespans, Exists, Active
<1>6. KeepsSlot'
  BY <1>1, <1>2, <1>4 DEF IInv, KeepsSlot, InSlot, Active
<1>7. IndexHolds(rows)'
  BY <1>1 DEF IInv, IndexHolds
<1>. QED
  BY <1>3, <1>5, <1>6, <1>7 DEF IInv

LEMMA UpdateReadStep ==
  ASSUME IInv, NEW s \in Servers, NEW i \in Ids, NEW src \in Sources,
         NEW c \in Contents, UpdateRead(s, i, src, c)
  PROVE  IInv'
<1>. DEFINE call == [at |-> "update", id |-> i, source |-> src, content |-> c,
                     row |-> rows[i]]
<1>1. /\ Active(i)
      /\ flight' = [flight EXCEPT ![s] = call]
      /\ ScheduleCleanup(s)
      /\ UNCHANGED <<rows, autoCleanup, time, due, past, overlapped>>
  BY DEF UpdateRead
<1>2. rows[i] \in Row /\ rows[i] # Unused
  BY <1>1, ExistingRow DEF IInv, Exists, Active
<1>3. /\ call \in Flight /\ call.at = "update" /\ call.id = i
      /\ call.row = rows[i]
  BY <1>2 DEF Flight, Call
<1>. HIDE DEF call
<1>4. /\ cleaner' \in [Servers -> Cleaner]
      /\ \A x \in Servers : cleaner'[x].now <= time
  BY <1>1, SchedulingType DEF IInv
<1>5. TypeOK'
  BY <1>1, <1>3, <1>4 DEF IInv, TypeOK
<1>6. /\ flight'[s] = call
      /\ \A x \in Servers \ {s} : flight'[x] = flight[x]
  BY <1>1 DEF IInv, TypeOK
<1>7. rows[i].original \in {None, due[i]}
  BY <1>1 DEF IInv, Lifespans, Exists, Active
<1>8. Lifespans'
  BY <1>1, <1>2, <1>3, <1>4, <1>6, <1>7 DEF IInv, Lifespans, Exists, Active
<1>9. KeepsSlot'
  BY <1>1, <1>3, <1>6 DEF IInv, KeepsSlot, InSlot, Active
<1>10. IndexHolds(rows)'
  BY <1>1 DEF IInv, IndexHolds
<1>. QED
  BY <1>5, <1>8, <1>9, <1>10 DEF IInv

\* A step that answers a call and touches no row.
LEMMA AnsweredInv ==
  ASSUME IInv, NEW s \in Servers, Answer(s),
         cleaner' \in [Servers -> Cleaner],
         \A x \in Servers : cleaner'[x].now <= time,
         autoCleanup' \in BOOLEAN,
         UNCHANGED <<rows, time, due, past, overlapped>>
  PROVE  IInv'
<1>1. /\ flight' \in [Servers -> Flight]
      /\ \A x \in Servers : flight'[x] \in {flight[x], Idle}
  BY AnswerFlight DEF IInv
<1>2. /\ past' \in [Ids -> SUBSET (Fields \X FieldValues)]
      /\ overlapped' \subseteq Ids
      /\ time' \in Nat \ {0} /\ time <= time'
  BY DEF IInv, TypeOK
<1>. QED
  BY <1>1, <1>2, SameRows, StepInv

\* An edit written over an existing row.
LEMMA WrittenInv ==
  ASSUME IInv, NEW s \in Servers, NEW i \in Ids, NEW new \in Row, Exists(i),
         WriteRow(i, new),
         new.state = rows[i].state, new.expires = rows[i].expires,
         new.deleted = rows[i].deleted, new.original \in {None, due[i]},
         IndexHolds([rows EXCEPT ![i] = new]),
         Locked(i) => new.source = rows[i].source /\ new.key = rows[i].key,
         Answer(s), UNCHANGED <<cleaner, autoCleanup, time, due>>,
         overlapped' \subseteq Ids
  PROVE  IInv'
<1>1. /\ flight' \in [Servers -> Flight]
      /\ \A x \in Servers : flight'[x] \in {flight[x], Idle}
  BY AnswerFlight DEF IInv
<1>2. rows[i] \in Row /\ new # Unused
  BY ExistingRow DEF IInv, Row, Unused
<1>3. rows' = [rows EXCEPT ![i] = new]
  BY DEF WriteRow
<1>4. past' \in [Ids -> SUBSET (Fields \X FieldValues)]
  <2>1. Overwritten(rows[i], new) \subseteq Fields \X FieldValues
    BY <1>2, OverwrittenType
  <2>. QED
    BY <2>1 DEF WriteRow, IInv, TypeOK
<1>5. /\ rows' \in [Ids -> {Unused, Purged} \cup Row]
      /\ rows'[i] = new
      /\ \A j \in Ids \ {i} : rows'[j] = rows[j]
  BY <1>3 DEF IInv, TypeOK
<1>6. IndexHolds(rows')
  BY <1>3
<1>7. \A j \in Ids :
        /\ Exists(j)' => rows'[j].original \in {None, due'[j]}
        /\ Active(j)' => rows'[j].expires \in {None, due'[j]}
        /\ rows'[j].state = "trash" => rows'[j].expires = rows'[j].deleted + Retention
  BY <1>5 DEF IInv, Lifespans, Exists, Active
<1>8. \A j \in Ids : Locked(j) /\ Active(j) =>
        /\ rows'[j].state = "active"
        /\ rows'[j].source = rows[j].source /\ rows'[j].key = rows[j].key
  BY <1>5 DEF Active
<1>9. /\ due' \in [Ids -> Nat] /\ autoCleanup' \in BOOLEAN
      /\ time' \in Nat \ {0} /\ time <= time'
      /\ cleaner' \in [Servers -> Cleaner]
      /\ \A x \in Servers : cleaner'[x].now <= time
  BY DEF IInv, TypeOK, Lifespans
<1>10. \A j \in Ids : rows[j] # Unused => rows'[j] # Unused /\ due'[j] = due[j]
  BY <1>2, <1>5
<1>. QED
  BY <1>1, <1>4, <1>5, <1>6, <1>7, <1>8, <1>9, <1>10, StepInv

LEMMA UpsertMergeStep ==
  ASSUME IInv, NEW s \in Servers, UpsertMerge(s)
  PROVE  IInv'
<1>. DEFINE i == flight[s].id
            new == Edited(rows[i], flight[s].source, flight[s].content)
<1>1. /\ flight[s].at = "merge"
      /\ Answer(s)
      /\ UNCHANGED <<cleaner, autoCleanup, time, due, overlapped>>
      /\ UNCHANGED <<rows, past>> \/ WriteRow(i, new)
  BY DEF UpsertMerge
<1>2. /\ i \in Ids /\ flight[s].source \in Sources /\ flight[s].content \in Contents
      /\ InSlot(i, flight[s].source, flight[s].key)
  BY <1>1, FlightType DEF IInv, KeepsSlot
<1>3. Exists(i) /\ rows[i] \in Row /\ rows[i].source = flight[s].source
  BY <1>2, ExistingRow DEF IInv, InSlot, Exists, Active
<1>4. CASE UNCHANGED <<rows, past>>
  <2>1. /\ cleaner' \in [Servers -> Cleaner] /\ autoCleanup' \in BOOLEAN
        /\ \A x \in Servers : cleaner'[x].now <= time
    BY <1>1 DEF IInv, TypeOK, Lifespans
  <2>. QED
    BY <1>1, <1>4, <2>1, AnsweredInv
<1>5. CASE WriteRow(i, new)
  <2>1. /\ new \in Row /\ new.source = rows[i].source /\ new.state = rows[i].state
        /\ new.key = rows[i].key /\ new.expires = rows[i].expires
        /\ new.original = rows[i].original /\ new.deleted = rows[i].deleted
    BY <1>2, <1>3, EditedType
  <2>2. new.original \in {None, due[i]}
    BY <1>2, <1>3, <2>1 DEF IInv, Lifespans
  <2>. HIDE DEF new, i
  <2>3. IndexHolds([rows EXCEPT ![i] = new])
    BY <1>2, <2>1 DEF IInv, TypeOK, IndexHolds
  <2>. QED
    BY <1>1, <1>2, <1>3, <1>5, <2>1, <2>2, <2>3, WrittenInv DEF IInv, TypeOK
<1>. QED
  BY <1>1, <1>4, <1>5

LEMMA UpdateUnchangedStep ==
  ASSUME IInv, NEW s \in Servers, UpdateUnchanged(s)
  PROVE  IInv'
<1>1. Answer(s) /\ UNCHANGED <<rows, cleaner, autoCleanup, time, due, past, overlapped>>
  BY DEF UpdateUnchanged
<1>2. /\ cleaner' \in [Servers -> Cleaner] /\ autoCleanup' \in BOOLEAN
      /\ \A x \in Servers : cleaner'[x].now <= time
  BY <1>1 DEF IInv, TypeOK, Lifespans
<1>. QED
  BY <1>1, <1>2, AnsweredInv

LEMMA UpdateWriteStep ==
  ASSUME IInv, NEW s \in Servers, UpdateWrite(s)
  PROVE  IInv'
<1>. DEFINE f   == flight[s]
            new == Edited(f.row, f.source, f.content)
            to  == [rows[f.id] EXCEPT !.source = new.source, !.content = new.content,
                                      !.log = new.log, !.original = new.original]
<1>1. /\ f.at = "update" /\ ~Locked(f.id)
      /\ UNCHANGED <<cleaner, autoCleanup, time, due>>
      /\ Answer(s)
      /\ \/ UNCHANGED <<rows, past, overlapped>>
         \/ /\ Exists(f.id) /\ IndexHolds([rows EXCEPT ![f.id] = to])
            /\ WriteRow(f.id, to)
            /\ overlapped' \in {overlapped, overlapped \cup {f.id}}
  BY DEF UpdateWrite
<1>2. f.id \in Ids /\ f.source \in Sources /\ f.content \in Contents /\ f.row \in Row
  BY <1>1, FlightType DEF IInv
<1>3. new \in Row /\ new.original = f.row.original
  BY <1>2, EditedType
<1>4. CASE UNCHANGED <<rows, past, overlapped>>
  <2>1. /\ cleaner' \in [Servers -> Cleaner] /\ autoCleanup' \in BOOLEAN
        /\ \A x \in Servers : cleaner'[x].now <= time
    BY <1>1 DEF IInv, TypeOK, Lifespans
  <2>. QED
    BY <1>1, <1>4, <2>1, AnsweredInv
<1>5. CASE /\ Exists(f.id) /\ IndexHolds([rows EXCEPT ![f.id] = to])
           /\ WriteRow(f.id, to)
           /\ overlapped' \in {overlapped, overlapped \cup {f.id}}
  <2>1. new.original \in {None, due[f.id]}
    BY <1>1, <1>3 DEF IInv, Lifespans
  <2>2. rows[f.id] \in Row
    BY <1>2, <1>5, ExistingRow DEF IInv
  <2>. HIDE DEF new
  <2>3. /\ to \in Row
        /\ to.state = rows[f.id].state /\ to.expires = rows[f.id].expires
        /\ to.deleted = rows[f.id].deleted /\ to.original = new.original
    BY <1>3, <2>2 DEF Row
  <2>. HIDE DEF to, f
  <2>. QED
    BY <1>1, <1>2, <1>5, <2>1, <2>3, WrittenInv DEF IInv, TypeOK
<1>. QED
  BY <1>1, <1>4, <1>5

LEMMA SoftDeleteStep ==
  ASSUME IInv, NEW s \in Servers, NEW S \in SUBSET Ids, SoftDelete(s, S)
  PROVE  IInv'
<1>1. /\ \A i \in S : Active(i) /\ ~Locked(i)
      /\ rows' = [i \in Ids |-> IF i \in S THEN Trashed(rows[i]) ELSE rows[i]]
      /\ Answer(s)
      /\ UNCHANGED <<cleaner, autoCleanup, time, due, past, overlapped>>
  BY DEF SoftDelete
<1>2. /\ flight' \in [Servers -> Flight]
      /\ \A x \in Servers : flight'[x] \in {flight[x], Idle}
  BY <1>1, AnswerFlight DEF IInv
<1>3. \A i \in S :
        /\ rows[i] \in Row /\ Trashed(rows[i]) \in Row
        /\ Trashed(rows[i]).state = "trash"
        /\ Trashed(rows[i]).original = rows[i].expires
        /\ Trashed(rows[i]).expires = Trashed(rows[i]).deleted + Retention
  BY <1>1, ExistingRow, TrashType DEF IInv, TypeOK, Exists, Active
<1>4. /\ \A i \in S : rows'[i] = Trashed(rows[i])
      /\ \A i \in Ids \ S : rows'[i] = rows[i]
  BY <1>1
<1>5. rows' \in [Ids -> {Unused, Purged} \cup Row]
  BY <1>1, <1>3, <1>4 DEF IInv, TypeOK
<1>6. \A i \in Ids :
        /\ Exists(i)' => rows'[i].original \in {None, due'[i]}
        /\ Active(i)' => rows'[i].expires \in {None, due'[i]}
        /\ rows'[i].state = "trash" => rows'[i].expires = rows'[i].deleted + Retention
  BY <1>1, <1>3, <1>4 DEF IInv, Lifespans, Exists, Active
<1>7. \A i \in Ids : rows[i] # Unused => rows'[i] # Unused /\ due'[i] = due[i]
  BY <1>1, <1>3, <1>4 DEF Row, Unused
<1>8. IndexHolds(rows')
  BY <1>3, <1>4, SlotsKept DEF IInv, Active
<1>9. \A i \in Ids : Locked(i) /\ Active(i) =>
        /\ rows'[i].state = "active"
        /\ rows'[i].source = rows[i].source /\ rows'[i].key = rows[i].key
  BY <1>1, <1>4 DEF Active
<1>10. /\ past' \in [Ids -> SUBSET (Fields \X FieldValues)] /\ due' \in [Ids -> Nat]
       /\ overlapped' \subseteq Ids
       /\ autoCleanup' \in BOOLEAN /\ time' \in Nat \ {0} /\ time <= time'
       /\ cleaner' \in [Servers -> Cleaner]
       /\ \A x \in Servers : cleaner'[x].now <= time
  BY <1>1 DEF IInv, TypeOK, Lifespans
<1>. QED
  BY <1>2, <1>5, <1>6, <1>7, <1>8, <1>9, <1>10, StepInv

LEMMA RestoreStep ==
  ASSUME IInv, NEW s \in Servers, NEW S \in SUBSET Ids, Restore(s, S)
  PROVE  IInv'
<1>. DEFINE table == [i \in Ids |-> IF i \in S THEN Restored(rows[i]) ELSE rows[i]]
<1>1. /\ \A i \in S : rows[i].state = "trash" /\ ~Locked(i)
      /\ \/ rows' = rows
         \/ IndexHolds(table) /\ rows' = table
      /\ Answer(s)
      /\ UNCHANGED <<cleaner, autoCleanup, time, due, past, overlapped>>
  BY DEF Restore
<1>2. /\ cleaner' \in [Servers -> Cleaner] /\ autoCleanup' \in BOOLEAN
      /\ \A x \in Servers : cleaner'[x].now <= time
  BY <1>1 DEF IInv, TypeOK, Lifespans
<1>3. CASE rows' = rows
  BY <1>1, <1>2, <1>3, AnsweredInv
<1>4. CASE IndexHolds(table) /\ rows' = table
  <2>1. \A i \in S :
          /\ rows[i] \in Row /\ Restored(rows[i]) \in Row
          /\ Restored(rows[i]).state = "active"
          /\ Restored(rows[i]).original = None
          /\ Restored(rows[i]).expires = rows[i].original
    BY <1>1, ExistingRow, TrashType DEF IInv, TypeOK, Exists
  <2>2. /\ \A i \in S : rows'[i] = Restored(rows[i])
        /\ \A i \in Ids \ S : rows'[i] = rows[i]
    BY <1>4
  <2>3. rows' \in [Ids -> {Unused, Purged} \cup Row]
    BY <1>4, <2>1, <2>2 DEF IInv, TypeOK
  <2>4. \A i \in Ids :
          /\ Exists(i)' => rows'[i].original \in {None, due'[i]}
          /\ Active(i)' => rows'[i].expires \in {None, due'[i]}
          /\ rows'[i].state = "trash" => rows'[i].expires = rows'[i].deleted + Retention
    BY <1>1, <2>1, <2>2 DEF IInv, Lifespans, Exists, Active
  <2>5. \A i \in Ids : rows[i] # Unused => rows'[i] # Unused /\ due'[i] = due[i]
    BY <1>1, <2>1, <2>2 DEF Row, Unused
  <2>6. IndexHolds(rows')
    BY <1>4
  <2>7. \A i \in Ids : Locked(i) /\ Active(i) =>
          /\ rows'[i].state = "active"
          /\ rows'[i].source = rows[i].source /\ rows'[i].key = rows[i].key
    BY <1>1, <2>2 DEF Active
  <2>8. /\ flight' \in [Servers -> Flight]
        /\ \A x \in Servers : flight'[x] \in {flight[x], Idle}
    BY <1>1, AnswerFlight DEF IInv
  <2>9. /\ past' \in [Ids -> SUBSET (Fields \X FieldValues)] /\ due' \in [Ids -> Nat]
        /\ overlapped' \subseteq Ids
        /\ time' \in Nat \ {0} /\ time <= time'
    BY <1>1 DEF IInv, TypeOK
  <2>. QED
    BY <1>2, <2>3, <2>4, <2>5, <2>6, <2>7, <2>8, <2>9, StepInv
<1>. QED
  BY <1>1, <1>3, <1>4

LEMMA SetAutoCleanupStep ==
  ASSUME IInv, NEW s \in Servers, NEW on \in BOOLEAN, SetAutoCleanup(s, on)
  PROVE  IInv'
<1>1. /\ autoCleanup' = on /\ ScheduleCleanup(s) /\ Answer(s)
      /\ UNCHANGED <<rows, time, due, past, overlapped>>
  BY DEF SetAutoCleanup
<1>2. /\ cleaner' \in [Servers -> Cleaner]
      /\ \A x \in Servers : cleaner'[x].now <= time
  BY <1>1, SchedulingType DEF IInv
<1>. QED
  BY <1>1, <1>2, AnsweredInv

\* A cleanup thread that starts over, or works from the current clock.
LEMMA CleanerType ==
  ASSUME IInv, NEW s \in Servers,
         \/ cleaner' = [cleaner EXCEPT ![s] = NoThread]
         \/ cleaner' = [cleaner EXCEPT ![s] = [at |-> "delete", now |-> time]]
  PROVE  /\ cleaner' \in [Servers -> Cleaner]
         /\ \A x \in Servers : cleaner'[x].now <= time
<1>1. time \in Nat /\ None <= time /\ None \in Nat
  BY DEF IInv, TypeOK, None
<1>2. NoThread \in Cleaner /\ NoThread.now = None
  BY <1>1 DEF NoThread, Cleaner
<1>3. [at |-> "delete", now |-> time] \in Cleaner
  BY <1>1 DEF Cleaner
<1>. QED
  BY <1>1, <1>2, <1>3 DEF IInv, TypeOK, Lifespans

LEMMA CleanupListStep ==
  ASSUME IInv, NEW s \in Servers, CleanupList(s)
  PROVE  IInv'
<1>1. /\ \/ cleaner' = [cleaner EXCEPT ![s] = NoThread]
         \/ cleaner' = [cleaner EXCEPT ![s] = [at |-> "delete", now |-> time]]
      /\ UNCHANGED <<rows, flight, autoCleanup, time, due, past, overlapped>>
  BY DEF CleanupList
<1>2. /\ cleaner' \in [Servers -> Cleaner]
      /\ \A x \in Servers : cleaner'[x].now <= time
  BY <1>1, CleanerType
<1>3. /\ past' \in [Ids -> SUBSET (Fields \X FieldValues)] /\ autoCleanup' \in BOOLEAN
      /\ overlapped' \subseteq Ids
      /\ time' \in Nat \ {0} /\ time <= time'
      /\ flight' \in [Servers -> Flight] /\ \A x \in Servers : flight'[x] = flight[x]
  BY <1>1 DEF IInv, TypeOK
<1>. QED
  BY <1>1, <1>2, <1>3, SameRows, StepInv

LEMMA CleanupDeleteStep ==
  ASSUME IInv, NEW s \in Servers, CleanupDelete(s)
  PROVE  IInv'
<1>. DEFINE gone == {i \in Ids : Expired(i, cleaner[s].now)}
<1>1. /\ \A i \in gone : ~Locked(i)
      /\ rows' = [i \in Ids |-> IF i \in gone THEN Purged ELSE rows[i]]
      /\ cleaner' = [cleaner EXCEPT ![s] = NoThread]
      /\ UNCHANGED <<flight, autoCleanup, time, due, past, overlapped>>
  BY DEF CleanupDelete
<1>. HIDE DEF gone
<1>2. /\ cleaner' \in [Servers -> Cleaner]
      /\ \A x \in Servers : cleaner'[x].now <= time
  BY <1>1, CleanerType
<1>3. /\ Purged.state = "purged" /\ Purged # Unused
  BY DEF Purged, Unused
<1>4. \A i \in Ids : rows'[i] = Purged \/ rows'[i] = rows[i]
  BY <1>1
<1>5. rows' \in [Ids -> {Unused, Purged} \cup Row]
  BY <1>1 DEF IInv, TypeOK
<1>6. \A i \in Ids :
        /\ Exists(i)' => rows'[i].original \in {None, due'[i]}
        /\ Active(i)' => rows'[i].expires \in {None, due'[i]}
        /\ rows'[i].state = "trash" => rows'[i].expires = rows'[i].deleted + Retention
  BY <1>1, <1>3, <1>4 DEF IInv, Lifespans, Exists, Active
<1>7. \A i \in Ids : rows[i] # Unused => rows'[i] # Unused /\ due'[i] = due[i]
  BY <1>1, <1>3, <1>4
<1>8. IndexHolds(rows')
  BY <1>3, <1>4, SlotsKept DEF IInv, Active
<1>9. \A i \in Ids : Locked(i) /\ Active(i) =>
        /\ rows'[i].state = "active"
        /\ rows'[i].source = rows[i].source /\ rows'[i].key = rows[i].key
  BY <1>1 DEF Active
<1>10. /\ past' \in [Ids -> SUBSET (Fields \X FieldValues)] /\ due' \in [Ids -> Nat]
       /\ overlapped' \subseteq Ids
       /\ autoCleanup' \in BOOLEAN /\ time' \in Nat \ {0} /\ time <= time'
       /\ flight' \in [Servers -> Flight] /\ \A x \in Servers : flight'[x] = flight[x]
  BY <1>1 DEF IInv, TypeOK
<1>. QED
  BY <1>2, <1>5, <1>6, <1>7, <1>8, <1>9, <1>10, StepInv

LEMMA AbortStep ==
  ASSUME IInv, NEW s \in Servers, Abort(s)
  PROVE  IInv'
<1>1. /\ Answer(s)
      /\ cleaner' = [cleaner EXCEPT ![s] = NoThread]
      /\ UNCHANGED <<rows, autoCleanup, time, due, past, overlapped>>
  BY DEF Abort
<1>2. /\ cleaner' \in [Servers -> Cleaner]
      /\ \A x \in Servers : cleaner'[x].now <= time
  BY <1>1, CleanerType
<1>3. autoCleanup' \in BOOLEAN
  BY <1>1 DEF IInv, TypeOK
<1>. QED
  BY <1>1, <1>2, <1>3, AnsweredInv

LEMMA TickStep ==
  ASSUME IInv, Tick
  PROVE  IInv'
<1>1. time' = time + 1 /\ UNCHANGED <<rows, flight, cleaner, autoCleanup, due, past, overlapped>>
  BY DEF Tick
<1>2. /\ past' \in [Ids -> SUBSET (Fields \X FieldValues)] /\ autoCleanup' \in BOOLEAN
      /\ overlapped' \subseteq Ids
      /\ time' \in Nat \ {0} /\ time <= time'
      /\ cleaner' \in [Servers -> Cleaner]
      /\ \A x \in Servers : cleaner'[x].now <= time
      /\ flight' \in [Servers -> Flight] /\ \A x \in Servers : flight'[x] = flight[x]
  BY <1>1 DEF IInv, TypeOK, Lifespans
<1>. QED
  BY <1>1, <1>2, SameRows, StepInv

LEMMA StutterStep ==
  ASSUME IInv, UNCHANGED vars
  PROVE  IInv'
<1>1. /\ past' \in [Ids -> SUBSET (Fields \X FieldValues)] /\ autoCleanup' \in BOOLEAN
      /\ overlapped' \subseteq Ids
      /\ time' \in Nat \ {0} /\ time <= time'
      /\ cleaner' \in [Servers -> Cleaner]
      /\ \A x \in Servers : cleaner'[x].now <= time
      /\ flight' \in [Servers -> Flight] /\ \A x \in Servers : flight'[x] = flight[x]
      /\ UNCHANGED <<rows, due>>
  BY DEF IInv, TypeOK, Lifespans, vars
<1>. QED
  BY <1>1, SameRows, StepInv

-----------------------------------------------------------------------------
(* The invariant. *)

LEMMA InitIInv ==
  ASSUME Init
  PROVE  IInv
<1>1. TypeOK
  <2>1. None \in Nat /\ NoThread \in Cleaner /\ Idle \in Flight /\ time \in Nat \ {0}
    BY DEF Init, None, NoThread, Cleaner, Flight
  <2>. QED
    BY <2>1 DEF Init, TypeOK
<1>2. \A i \in Ids : rows[i].state = "none"
  BY DEF Init, Unused
<1>3. \A s \in Servers : flight[s].at = "idle"
  BY DEF Init, Idle
<1>4. \A s \in Servers : cleaner[s].now <= time
  BY DEF Init, NoThread, None
<1>5. Lifespans
  BY <1>2, <1>3, <1>4 DEF Lifespans, Exists, Active
<1>6. IndexHolds(rows) /\ KeepsSlot
  BY <1>2, <1>3 DEF IndexHolds, KeepsSlot
<1>. QED
  BY <1>1, <1>5, <1>6 DEF IInv

LEMMA NextIInv ==
  ASSUME IInv, [Next]_vars
  PROVE  IInv'
<1>1. ASSUME NEW s \in Servers, NEW i \in Ids, NEW src \in Sources, NEW c \in Contents,
             \/ \E ttl \in Ttls \cup {None} : Add(s, i, src, c, ttl)
             \/ \E k \in Keys : \/ UpsertInsert(s, i, src, k, c)
                                \/ UpsertConflict(s, i, src, k, c)
             \/ UpdateRead(s, i, src, c)
      PROVE  IInv'
  BY <1>1, AddStep, UpsertInsertStep, UpsertConflictStep, UpdateReadStep
<1>2. ASSUME NEW s \in Servers,
             UpsertMerge(s) \/ UpdateUnchanged(s) \/ UpdateWrite(s)
      PROVE  IInv'
  BY <1>2, UpsertMergeStep, UpdateUnchangedStep, UpdateWriteStep
<1>3. ASSUME NEW s \in Servers,
             \/ \E i \in Ids : SoftDeleteById(s, i)
             \/ \E src \in Sources : SoftDeleteBySource(s, src)
             \/ SoftDeleteByTags(s)
      PROVE  IInv'
  <2>1. \E S \in SUBSET Ids : SoftDelete(s, S)
    BY <1>3 DEF SoftDeleteById, SoftDeleteBySource, SoftDeleteByTags
  <2>. QED
    BY <2>1, SoftDeleteStep
<1>4. ASSUME NEW s \in Servers, (\E i \in Ids : RestoreById(s, i)) \/ RestoreByTags(s)
      PROVE  IInv'
  <2>1. \E S \in SUBSET Ids : Restore(s, S)
    BY <1>4 DEF RestoreById, RestoreByTags
  <2>. QED
    BY <2>1, RestoreStep
<1>5. ASSUME NEW s \in Servers,
             \/ \E on \in BOOLEAN : SetAutoCleanup(s, on)
             \/ CleanupList(s) \/ CleanupDelete(s) \/ Abort(s)
      PROVE  IInv'
  BY <1>5, SetAutoCleanupStep, CleanupListStep, CleanupDeleteStep, AbortStep
<1>. QED
  BY <1>1, <1>2, <1>3, <1>4, <1>5, TickStep, StutterStep DEF Next, AddContext

LEMMA Inductive == Spec => []IInv
BY InitIInv, NextIInv, PTL DEF Spec

\* Every variable stays in its type, whatever calls, cleanups and failures
\* interleave.
THEOREM TypeCorrect == Spec => []TypeOK
<1>1. IInv => TypeOK
  BY DEF IInv
<1>. QED
  BY <1>1, Inductive, PTL

\* upsert_by_logical_key finds, in its second query, exactly the row its INSERT
\* conflicted with: the lock keeps it there and the index keeps it alone.
THEOREM UpsertAlwaysFindsRow == Spec => []UpsertFindsRow
<1>1. ASSUME IInv PROVE UpsertFindsRow
  <2>. SUFFICES ASSUME NEW s \in Servers, flight[s].at = "merge"
                PROVE  {i \in Ids : InSlot(i, flight[s].source, flight[s].key)}
                         = {flight[s].id}
    BY DEF UpsertFindsRow
  <2>1. /\ flight[s].id \in Ids /\ flight[s].key \in Keys
        /\ InSlot(flight[s].id, flight[s].source, flight[s].key)
    BY <1>1, FlightType DEF IInv, KeepsSlot
  <2>2. flight[s].key # NoKey
    BY <2>1, ParametersAssumption
  <2>3. \A i \in Ids : InSlot(i, flight[s].source, flight[s].key) => i = flight[s].id
    BY <1>1, <2>1, <2>2 DEF IInv, IndexHolds, InSlot, Active
  <2>. QED
    BY <2>1, <2>3
<1>. QED
  BY <1>1, Inductive, PTL

\* No other step hard-deletes a row.
LEMMA OnlyCleanupPurges ==
  ASSUME IInv, [Next]_vars, NEW i \in Ids, Exists(i), rows'[i] = Purged
  PROVE  \E s \in Servers : CleanupDelete(s)
<1>. SUFFICES ASSUME \A s \in Servers : ~CleanupDelete(s)
              PROVE  FALSE
  OBVIOUS
<1>1. rows[i] \in Row /\ rows[i] # Purged /\ rows[i] # Unused
  BY ExistingRow DEF IInv
<1>2. \A r \in Row : r # Purged
  BY DEF Row, Purged
<1>3. ASSUME NEW j \in Ids, NEW src \in Sources, NEW k \in Keys \cup {NoKey},
             NEW c \in Contents, NEW exp \in Nat, Insert(j, src, k, c, exp)
      PROVE  FALSE
  BY <1>1, <1>3 DEF Insert, IInv, TypeOK
<1>4. ASSUME NEW s \in Servers, NEW j \in Ids, NEW src \in Sources, NEW c \in Contents,
             \/ \E ttl \in Ttls \cup {None} : Add(s, j, src, c, ttl)
             \/ \E k \in Keys : \/ UpsertInsert(s, j, src, k, c)
                                \/ UpsertConflict(s, j, src, k, c)
             \/ UpdateRead(s, j, src, c)
      PROVE  FALSE
  <2>1. ASSUME NEW ttl \in Ttls \cup {None}, Add(s, j, src, c, ttl)
        PROVE  FALSE
    <3>1. (IF ttl = None THEN None ELSE time + ttl) \in Nat
      BY ParametersAssumption DEF IInv, TypeOK, None
    <3>. QED
      BY <1>3, <2>1, <3>1 DEF Add
  <2>2. ASSUME NEW k \in Keys, UpsertInsert(s, j, src, k, c)
        PROVE  FALSE
    <3>1. None \in Nat
      BY DEF None
    <3>. QED
      BY <1>3, <2>2, <3>1 DEF UpsertInsert
  <2>3. ASSUME NEW k \in Keys, UpsertConflict(s, j, src, k, c)
        PROVE  FALSE
    BY <1>1, <2>3 DEF UpsertConflict
  <2>4. CASE UpdateRead(s, j, src, c)
    BY <1>1, <2>4 DEF UpdateRead
  <2>. QED
    BY <1>4, <2>1, <2>2, <2>3, <2>4
<1>5. ASSUME NEW s \in Servers, UpsertMerge(s)
      PROVE  FALSE
  <2>. DEFINE new == Edited(rows[flight[s].id], flight[s].source, flight[s].content)
  <2>1. /\ flight[s].at = "merge"
        /\ rows' = rows \/ rows' = [rows EXCEPT ![flight[s].id] = new]
    BY <1>5 DEF UpsertMerge, WriteRow
  <2>2. /\ flight[s].id \in Ids /\ flight[s].source \in Sources
        /\ flight[s].content \in Contents
        /\ InSlot(flight[s].id, flight[s].source, flight[s].key)
    BY <2>1, FlightType DEF IInv, KeepsSlot
  <2>3. new \in Row
    BY <2>2, ExistingRow, EditedType DEF IInv, InSlot, Active, Exists
  <2>. HIDE DEF new
  <2>. QED
    BY <1>1, <1>2, <2>1, <2>2, <2>3 DEF IInv, TypeOK
<1>6. ASSUME NEW s \in Servers, UpdateWrite(s)
      PROVE  FALSE
  <2>. DEFINE f   == flight[s]
              new == Edited(f.row, f.source, f.content)
              to  == [rows[f.id] EXCEPT !.source = new.source, !.content = new.content,
                                        !.log = new.log, !.original = new.original]
  <2>1. /\ f.at = "update"
        /\ rows' = rows \/ (Exists(f.id) /\ rows' = [rows EXCEPT ![f.id] = to])
    BY <1>6 DEF UpdateWrite, WriteRow
  <2>2. f.id \in Ids
    BY <2>1, FlightType DEF IInv
  <2>3. Exists(f.id) => to.state = rows[f.id].state
    BY <2>2, ExistingRow DEF IInv, Row
  <2>4. Exists(f.id) => to # Purged
    BY <2>3 DEF Exists, Purged
  <2>. HIDE DEF to, f
  <2>. QED
    BY <1>1, <2>1, <2>2, <2>4 DEF IInv, TypeOK
<1>7. ASSUME NEW s \in Servers, NEW S \in SUBSET Ids, SoftDelete(s, S)
      PROVE  FALSE
  <2>1. rows'[i] \in {rows[i], Trashed(rows[i])}
    BY <1>7 DEF SoftDelete
  <2>. QED
    BY <1>1, <1>2, <2>1, TrashType DEF IInv, TypeOK
<1>8. ASSUME NEW s \in Servers, NEW S \in SUBSET Ids, Restore(s, S)
      PROVE  FALSE
  <2>1. rows'[i] \in {rows[i], Restored(rows[i])}
    BY <1>8 DEF Restore
  <2>. QED
    BY <1>1, <1>2, <2>1, TrashType DEF IInv, TypeOK
<1>9. ASSUME rows' = rows
      PROVE  FALSE
  BY <1>1, <1>9
<1>10. ASSUME NEW s \in Servers,
              \/ UpdateUnchanged(s) \/ CleanupList(s) \/ Abort(s)
              \/ \E on \in BOOLEAN : SetAutoCleanup(s, on)
       PROVE  FALSE
  BY <1>9, <1>10 DEF UpdateUnchanged, CleanupList, Abort, SetAutoCleanup
<1>11. ASSUME NEW s \in Servers,
              \/ \E j \in Ids : SoftDeleteById(s, j) \/ RestoreById(s, j)
              \/ \E src \in Sources : SoftDeleteBySource(s, src)
              \/ SoftDeleteByTags(s) \/ RestoreByTags(s)
       PROVE  FALSE
  <2>1. \E S \in SUBSET Ids : SoftDelete(s, S) \/ Restore(s, S)
    BY <1>11 DEF SoftDeleteById, RestoreById, SoftDeleteBySource, SoftDeleteByTags,
                 RestoreByTags
  <2>. QED
    BY <1>7, <1>8, <2>1
<1>12. CASE Tick \/ UNCHANGED vars
  BY <1>9, <1>12 DEF Tick, vars
<1>. QED
  BY <1>4, <1>5, <1>6, <1>10, <1>11, <1>12 DEF Next, AddContext

\* The cleanup thread purges a trashed row only once its retention has passed,
\* and an active one only once the expiry it was created with has.
THEOREM PurgesAreDue == Spec => NeverPurgedEarly
<1>1. ASSUME IInv, [Next]_vars, NEW i \in Ids, Exists(i), rows'[i] = Purged
      PROVE  \/ rows[i].state = "trash" /\ rows[i].deleted + Retention <= time
             \/ Active(i) /\ due[i] # None /\ due[i] <= time
  <2>1. PICK s \in Servers : CleanupDelete(s)
    BY <1>1, OnlyCleanupPurges
  <2>2. rows[i] \in Row /\ rows[i] # Purged
    BY <1>1, ExistingRow DEF IInv
  <2>3. Expired(i, cleaner[s].now)
    BY <1>1, <2>1, <2>2 DEF CleanupDelete
  <2>4. /\ cleaner[s].now \in Nat /\ cleaner[s].now <= time /\ time \in Nat
        /\ rows[i].expires \in Nat
    BY <1>1, <2>2 DEF IInv, TypeOK, Lifespans, Cleaner, Row
  <2>5. rows[i].expires # None /\ rows[i].expires <= time
    BY <2>3, <2>4 DEF Expired
  <2>. QED
    BY <1>1, <2>5 DEF IInv, Lifespans, Exists, Active
<1>2. ASSUME IInv, [Next]_vars
      PROVE  [\A i \in Ids : Exists(i) /\ rows'[i] = Purged =>
                \/ rows[i].state = "trash" /\ rows[i].deleted + Retention <= time
                \/ Active(i) /\ due[i] # None /\ due[i] <= time]_vars
  BY <1>1, <1>2
<1>. QED
  BY <1>2, Inductive, PTL DEF Spec, NeverPurgedEarly

-----------------------------------------------------------------------------
(* What edits, deletions and restores keep of an entry that no update_entry  *)
(* has written back over somebody else's change.                            *)

\* Every lost value of P is in the changelog `log`.
Logged(P, log) ==
  \A p \in P : \E n \in DOMAIN log : p[1] \in DOMAIN log[n] /\ log[n][p[1]] = p[2]

\* A row has its expiry, or saved it in the trash, and logs what it lost.
RowKept(i) ==
  /\ Active(i) => rows[i].expires = due[i] /\ rows[i].original = None
  /\ rows[i].state = "trash" => rows[i].original = due[i]
  /\ rows[i] = Unused => past[i] = {}
  /\ Exists(i) => Logged(past[i], rows[i].log)

Kept == \A i \in Ids \ overlapped : RowKept(i)

KInv == IInv /\ Kept

\* An edit logs every value it replaces, and the log only grows.
LEMMA EditLogged ==
  ASSUME NEW r \in Row, NEW src \in Sources, NEW c \in Contents, NEW P, NEW new \in Row,
         new.source = src, new.content = IF c = Absent THEN r.content ELSE c,
         new.log = Append(r.log, [f \in Changed(r, src, c) |-> r[f]]),
         Logged(P, r.log)
  PROVE  Logged(P \cup Overwritten(r, new), new.log)
<1>. DEFINE e == [f \in Changed(r, src, c) |-> r[f]]
<1>1. r.log \in Seq(Change) /\ Len(r.log) \in Nat
  BY DEF Row
<1>2. /\ DOMAIN new.log = 1..(Len(r.log) + 1)
      /\ \A n \in 1..Len(r.log) : new.log[n] = r.log[n]
      /\ new.log[Len(r.log) + 1] = e
  BY <1>1
<1>3. DOMAIN r.log = 1..Len(r.log)
  BY <1>1
<1>4. ASSUME NEW p \in P
      PROVE  \E n \in DOMAIN new.log : p[1] \in DOMAIN new.log[n] /\ new.log[n][p[1]] = p[2]
  <2>1. PICK n \in DOMAIN r.log : p[1] \in DOMAIN r.log[n] /\ r.log[n][p[1]] = p[2]
    BY DEF Logged
  <2>2. n \in DOMAIN new.log
    BY <1>1, <1>2, <1>3, <2>1
  <2>3. new.log[n] = r.log[n]
    BY <1>2, <1>3, <2>1
  <2>. QED
    BY <2>1, <2>2, <2>3
<1>5. ASSUME NEW p \in Overwritten(r, new)
      PROVE  p[1] \in DOMAIN e /\ e[p[1]] = p[2]
  <2>1. PICK f \in Fields : p = <<f, r[f]>> /\ r[f] # new[f] /\ r[f] # Absent
    BY DEF Overwritten
  <2>2. f \in Changed(r, src, c)
    <3>1. CASE f = "source"
      <4>1. r["source"] # src
        BY <2>1, <3>1
      <4>. QED
        BY <2>1, <3>1, <4>1 DEF Changed
    <3>2. CASE f = "content"
      <4>1. r["content"] # new["content"] /\ r["content"] # Absent
        BY <2>1, <3>2
      <4>2. c \notin {Absent, r.content} /\ r.content # Absent
        BY <4>1
      <4>. QED
        BY <2>1, <3>2, <4>2 DEF Changed
    <3>. QED
      BY <3>1, <3>2 DEF Fields
  <2>3. p[1] = f /\ p[2] = r[f] /\ e[f] = r[f]
    BY <2>1, <2>2
  <2>. QED
    BY <2>2, <2>3
<1>6. Len(r.log) + 1 \in DOMAIN new.log
  BY <1>1, <1>2
<1>. HIDE DEF e
<1>. QED
  BY <1>2, <1>4, <1>5, <1>6 DEF Logged

\* A row that a step leaves alone keeps its part of the invariant.
LEMMA RowStays ==
  ASSUME NEW i \in Ids, RowKept(i), rows'[i] = rows[i], due'[i] = due[i], past'[i] = past[i]
  PROVE  RowKept(i)'
BY DEF RowKept, Active, Exists, Logged

\* A new row.
LEMMA InsertKept ==
  ASSUME KInv, NEW i \in Ids, NEW src, NEW k, NEW c, NEW exp, Insert(i, src, k, c, exp),
         UNCHANGED <<past, overlapped>>
  PROVE  Kept'
<1>. DEFINE new == [state |-> "active", source |-> src, key |-> k, content |-> c,
                    expires |-> exp, original |-> None, deleted |-> None,
                    log |-> <<>>]
<1>1. /\ rows[i] = Unused /\ rows'[i] = new /\ due'[i] = exp
      /\ \A j \in Ids \ {i} : rows'[j] = rows[j] /\ due'[j] = due[j]
  BY DEF Insert, KInv, IInv, TypeOK
<1>2. ASSUME i \notin overlapped PROVE RowKept(i)'
  <2>1. past'[i] = {}
    BY <1>1, <1>2 DEF KInv, Kept, RowKept
  <2>. QED
    BY <1>1, <2>1 DEF RowKept, Active, Exists, Logged, Unused
<1>. QED
  BY <1>1, <1>2, RowStays DEF KInv, Kept

\* An edit written back: over the row it was made from, or the row is overlapped.
LEMMA WriteKept ==
  ASSUME KInv, NEW i \in Ids, Exists(i), NEW src \in Sources, NEW c \in Contents,
         NEW new \in Row, WriteRow(i, new), UNCHANGED due,
         overlapped \subseteq overlapped',
         new.state = rows[i].state, new.expires = rows[i].expires,
         i \notin overlapped' =>
           /\ new.source = src
           /\ new.content = IF c = Absent THEN rows[i].content ELSE c
           /\ new.log = Append(rows[i].log, [f \in Changed(rows[i], src, c) |-> rows[i][f]])
           /\ new.original = rows[i].original
  PROVE  Kept'
<1>1. /\ rows'[i] = new /\ past'[i] = past[i] \cup Overwritten(rows[i], new)
      /\ \A j \in Ids \ {i} : rows'[j] = rows[j] /\ past'[j] = past[j]
  BY DEF WriteRow, KInv, IInv, TypeOK
<1>2. rows[i] \in Row /\ new # Unused
  BY ExistingRow DEF KInv, IInv, Row, Unused
<1>3. ASSUME i \notin overlapped' PROVE RowKept(i)'
  <2>1. RowKept(i)
    BY <1>3 DEF KInv, Kept
  <2>2. Logged(past[i] \cup Overwritten(rows[i], new), new.log)
    <3>1. Logged(past[i], rows[i].log)
      BY <2>1 DEF RowKept
    <3>. QED
      BY <1>2, <1>3, <3>1, EditLogged
  <2>3. Logged(past[i], rows[i].log)'
    BY <1>1, <2>2 DEF Logged
  <2>. QED
    BY <1>1, <1>2, <1>3, <2>1, <2>3 DEF RowKept, Active, Exists
<1>4. ASSUME NEW j \in Ids \ {i}, j \notin overlapped' PROVE RowKept(j)'
  BY <1>1, <1>4, RowStays DEF KInv, Kept
<1>. QED
  BY <1>3, <1>4 DEF Kept

\* A step that leaves the rows alone.
LEMMA QuietKept ==
  ASSUME KInv, UNCHANGED <<rows, due, past, overlapped>>
  PROVE  Kept'
BY RowStays DEF KInv, Kept

\* What was read is edited as what is there, unless it is stale.
LEMMA EditedFresh ==
  ASSUME NEW r \in Row, NEW old \in Row, ~Stale(old, r), NEW src \in Sources, NEW c \in Contents
  PROVE  /\ Edited(old, src, c).source = src
         /\ Edited(old, src, c).content = IF c = Absent THEN r.content ELSE c
         /\ Edited(old, src, c).log = Append(r.log, [f \in Changed(r, src, c) |-> r[f]])
         /\ Edited(old, src, c).original = r.original
<1>1. /\ old.source = r.source /\ old.content = r.content
      /\ old.log = r.log /\ old.original = r.original
  BY DEF Stale
<1>2. Changed(old, src, c) = Changed(r, src, c)
  BY <1>1 DEF Changed
<1>3. \A f \in Fields : old[f] = r[f]
  BY <1>1 DEF Fields
<1>4. [f \in Changed(old, src, c) |-> old[f]] = [f \in Changed(r, src, c) |-> r[f]]
  BY <1>2, <1>3 DEF Changed
<1>5. /\ Edited(old, src, c).source = src
      /\ Edited(old, src, c).content = IF c = Absent THEN old.content ELSE c
      /\ Edited(old, src, c).log = Append(old.log, [f \in Changed(old, src, c) |-> old[f]])
      /\ Edited(old, src, c).original = old.original
  BY DEF Edited, Row
<1>. QED
  BY <1>1, <1>4, <1>5

\* The step of an update that writes.
LEMMA UpdateWriteKept ==
  ASSUME KInv, NEW s \in Servers, UpdateWrite(s)
  PROVE  Kept'
<1>. DEFINE f   == flight[s]
            new == Edited(f.row, f.source, f.content)
            to  == [rows[f.id] EXCEPT !.source = new.source, !.content = new.content,
                                      !.log = new.log, !.original = new.original]
            Writes == /\ Exists(f.id) /\ WriteRow(f.id, to)
                      /\ overlapped' = IF Stale(f.row, rows[f.id])
                                       THEN overlapped \cup {f.id} ELSE overlapped
<1>1. /\ f.at = "update" /\ UNCHANGED due
      /\ UNCHANGED <<rows, past, overlapped>> \/ Writes
  BY DEF UpdateWrite
<1>2. PICK i \in Ids : f.id = i /\ f.source \in Sources /\ f.content \in Contents
                       /\ f.row \in Row
  BY <1>1, FlightType DEF KInv, IInv
<1>3. CASE UNCHANGED <<rows, past, overlapped>>
  BY <1>1, <1>3, QuietKept
<1>4. CASE Writes
  <2>1. Exists(i) /\ WriteRow(i, to) /\ rows[i] \in Row
    BY <1>2, <1>4, ExistingRow DEF KInv, IInv
  <2>2. overlapped \subseteq overlapped' /\ (i \notin overlapped' => ~Stale(f.row, rows[i]))
    BY <1>2, <1>4
  <2>3. new \in Row
    BY <1>2, EditedType
  <2>4. i \notin overlapped' =>
          /\ new.source = f.source
          /\ new.content = IF f.content = Absent THEN rows[i].content ELSE f.content
          /\ new.log = Append(rows[i].log, [g \in Changed(rows[i], f.source, f.content) |-> rows[i][g]])
          /\ new.original = rows[i].original
    BY <1>2, <2>1, <2>2, EditedFresh
  <2>. HIDE DEF new
  <2>5. /\ to \in Row /\ to.source = new.source /\ to.content = new.content
        /\ to.log = new.log /\ to.original = new.original
        /\ to.state = rows[i].state /\ to.expires = rows[i].expires
    BY <1>2, <2>1, <2>3 DEF Row
  <2>. HIDE DEF to, f
  <2>. QED
    BY <1>1, <1>2, <2>1, <2>2, <2>4, <2>5, WriteKept
<1>. QED
  BY <1>1, <1>3, <1>4

\* The step of an upsert that merges.
LEMMA UpsertMergeKept ==
  ASSUME KInv, NEW s \in Servers, UpsertMerge(s)
  PROVE  Kept'
<1>. DEFINE f   == flight[s]
            new == Edited(rows[f.id], f.source, f.content)
<1>1. /\ f.at = "merge" /\ UNCHANGED <<due, overlapped>>
      /\ UNCHANGED <<rows, past>> \/ WriteRow(f.id, new)
  BY DEF UpsertMerge
<1>2. PICK i \in Ids : f.id = i /\ f.source \in Sources /\ f.content \in Contents
                       /\ InSlot(i, f.source, f.key)
  BY <1>1, FlightType DEF KInv, IInv, KeepsSlot
<1>3. Exists(i) /\ rows[i] \in Row
  BY <1>2, ExistingRow DEF KInv, IInv, InSlot, Exists, Active
<1>4. CASE UNCHANGED <<rows, past>>
  BY <1>1, <1>4, QuietKept
<1>5. CASE WriteRow(f.id, new)
  <2>1. /\ new \in Row /\ new.source = f.source /\ new.state = rows[i].state
        /\ new.expires = rows[i].expires /\ new.original = rows[i].original
    BY <1>2, <1>3, EditedType
  <2>2. /\ new.content = IF f.content = Absent THEN rows[i].content ELSE f.content
        /\ new.log = Append(rows[i].log, [g \in Changed(rows[i], f.source, f.content) |-> rows[i][g]])
    BY <1>2, <1>3 DEF Edited, Row
  <2>3. WriteRow(i, new)
    BY <1>2, <1>5
  <2>. HIDE DEF new, f
  <2>. QED
    BY <1>1, <1>2, <1>3, <2>1, <2>2, <2>3, WriteKept
<1>. QED
  BY <1>1, <1>4, <1>5

LEMMA SoftDeleteKept ==
  ASSUME KInv, NEW s \in Servers, NEW S \in SUBSET Ids, SoftDelete(s, S)
  PROVE  Kept'
<1>1. /\ \A i \in S : Active(i)
      /\ rows' = [i \in Ids |-> IF i \in S THEN Trashed(rows[i]) ELSE rows[i]]
      /\ UNCHANGED <<due, past, overlapped>>
  BY DEF SoftDelete
<1>2. ASSUME NEW i \in S, i \notin overlapped PROVE RowKept(i)'
  <2>1. i \in Ids /\ rows[i] \in Row /\ rows'[i] = Trashed(rows[i]) /\ Exists(i)
    BY <1>1, ExistingRow DEF KInv, IInv, Exists, Active
  <2>2. /\ rows'[i].state = "trash" /\ rows'[i].original = rows[i].expires
        /\ rows'[i].log = rows[i].log /\ rows'[i] # Unused
    <3>1. Trashed(rows[i]).log = rows[i].log
      BY <2>1 DEF Trashed, Row
    <3>2. \A r \in Row : r # Unused
      BY DEF Row, Unused
    <3>3. time \in Nat
      BY DEF KInv, IInv, TypeOK
    <3>. QED
      BY <2>1, <3>1, <3>2, <3>3, TrashType
  <2>3. rows[i].expires = due'[i] /\ Logged(past[i], rows[i].log)
    BY <1>1, <1>2, <2>1 DEF KInv, Kept, RowKept
  <2>4. Logged(past[i], rows[i].log)'
    BY <1>1, <2>2, <2>3 DEF Logged
  <2>. QED
    BY <2>2, <2>3, <2>4 DEF RowKept, Active
<1>. QED
  BY <1>1, <1>2, RowStays DEF KInv, Kept

LEMMA RestoreKept ==
  ASSUME KInv, NEW s \in Servers, NEW S \in SUBSET Ids, Restore(s, S)
  PROVE  Kept'
<1>. DEFINE table == [i \in Ids |-> IF i \in S THEN Restored(rows[i]) ELSE rows[i]]
<1>1. /\ \A i \in S : rows[i].state = "trash"
      /\ rows' \in {rows, table}
      /\ UNCHANGED <<due, past, overlapped>>
  BY DEF Restore
<1>2. ASSUME NEW i \in S, i \notin overlapped, rows' = table PROVE RowKept(i)'
  <2>1. i \in Ids /\ rows[i] \in Row /\ rows'[i] = Restored(rows[i]) /\ Exists(i)
    BY <1>1, <1>2, ExistingRow DEF KInv, IInv, Exists
  <2>2. /\ rows'[i].state = "active" /\ rows'[i].original = None
        /\ rows'[i].expires = rows[i].original
        /\ rows'[i].log = rows[i].log /\ rows'[i] # Unused
    <3>1. Restored(rows[i]).log = rows[i].log
      BY <2>1 DEF Restored, Row
    <3>2. \A r \in Row : r # Unused
      BY DEF Row, Unused
    <3>3. time \in Nat
      BY DEF KInv, IInv, TypeOK
    <3>. QED
      BY <2>1, <3>1, <3>2, <3>3, TrashType
  <2>3. rows[i].original = due'[i] /\ Logged(past[i], rows[i].log)
    BY <1>1, <1>2, <2>1 DEF KInv, Kept, RowKept
  <2>4. Logged(past[i], rows[i].log)'
    BY <1>1, <2>2, <2>3 DEF Logged
  <2>. QED
    BY <2>2, <2>3, <2>4 DEF RowKept, Active
<1>3. ASSUME NEW i \in Ids, i \notin overlapped, rows' = table => i \notin S PROVE RowKept(i)'
  BY <1>1, <1>3, RowStays DEF KInv, Kept
<1>. QED
  BY <1>1, <1>2, <1>3 DEF Kept

LEMMA CleanupDeleteKept ==
  ASSUME KInv, NEW s \in Servers, CleanupDelete(s)
  PROVE  Kept'
<1>1. /\ \A i \in Ids : rows'[i] = Purged \/ rows'[i] = rows[i]
      /\ UNCHANGED <<due, past, overlapped>>
  BY DEF CleanupDelete
<1>2. ASSUME NEW i \in Ids, rows'[i] = Purged PROVE RowKept(i)'
  BY <1>2 DEF RowKept, Active, Exists, Purged, Unused
<1>. QED
  BY <1>1, <1>2, RowStays DEF KInv, Kept

\* Every step keeps the rows.
LEMMA KeptStep ==
  ASSUME KInv, [Next]_vars
  PROVE  Kept'
<1>1. ASSUME NEW s \in Servers, NEW i \in Ids, NEW src \in Sources, NEW c \in Contents,
             \/ \E ttl \in Ttls \cup {None} : Add(s, i, src, c, ttl)
             \/ \E k \in Keys : UpsertInsert(s, i, src, k, c)
      PROVE  Kept'
  <2>1. PICK k, exp : Insert(i, src, k, c, exp) /\ UNCHANGED <<past, overlapped>>
    BY <1>1 DEF Add, UpsertInsert
  <2>. QED
    BY <2>1, InsertKept
<1>2. ASSUME NEW s \in Servers, NEW i \in Ids, NEW src \in Sources, NEW c \in Contents,
             UpdateRead(s, i, src, c) \/ \E k \in Keys : UpsertConflict(s, i, src, k, c)
      PROVE  Kept'
  BY <1>2, QuietKept DEF UpdateRead, UpsertConflict
<1>3. ASSUME NEW s \in Servers,
             \/ \E i \in Ids : SoftDeleteById(s, i) \/ RestoreById(s, i)
             \/ \E src \in Sources : SoftDeleteBySource(s, src)
             \/ SoftDeleteByTags(s) \/ RestoreByTags(s)
      PROVE  Kept'
  <2>1. \E S \in SUBSET Ids : SoftDelete(s, S) \/ Restore(s, S)
    BY <1>3 DEF SoftDeleteById, RestoreById, SoftDeleteBySource, SoftDeleteByTags, RestoreByTags
  <2>. QED
    BY <2>1, SoftDeleteKept, RestoreKept
<1>4. ASSUME NEW s \in Servers,
             \/ UpdateUnchanged(s) \/ CleanupList(s) \/ Abort(s)
             \/ \E on \in BOOLEAN : SetAutoCleanup(s, on)
      PROVE  Kept'
  BY <1>4, QuietKept DEF UpdateUnchanged, CleanupList, Abort, SetAutoCleanup
<1>5. CASE Tick \/ UNCHANGED vars
  BY <1>5, QuietKept DEF Tick, vars
<1>6. ASSUME NEW s \in Servers, NEW i \in Ids, NEW src \in Sources, NEW c \in Contents,
             \/ Add(s, i, src, c, None)
             \/ \E ttl \in Ttls : AddContext(s, i, src, c, ttl)
             \/ \E k \in Keys : \/ UpsertInsert(s, i, src, k, c)
                                \/ UpsertConflict(s, i, src, k, c)
             \/ UpdateRead(s, i, src, c)
      PROVE  Kept'
  BY <1>1, <1>2, <1>6 DEF AddContext
<1>. QED
  BY <1>3, <1>4, <1>5, <1>6, UpsertMergeKept, UpdateWriteKept, CleanupDeleteKept DEF Next

LEMMA KeptAlways == Spec => []KInv
<1>1. ASSUME Init PROVE KInv
  <2>1. \A i \in Ids : rows[i].state = "none" /\ past[i] = {}
    BY <1>1 DEF Init, Unused
  <2>. QED
    BY <1>1, <2>1, InitIInv DEF KInv, Kept, RowKept, Active, Exists
<1>2. KInv /\ [Next]_vars => KInv'
  <2>. SUFFICES ASSUME KInv, [Next]_vars PROVE KInv'
    OBVIOUS
  <2>1. IInv'
    BY NextIInv DEF KInv
  <2>. QED
    BY <2>1, KeptStep DEF KInv
<1>. QED
  BY <1>1, <1>2, PTL DEF Spec

\* Servers give an entry back the expiry it was created with, however often it
\* is trashed, edited and restored, as long as no update_entry writes back what
\* another call changed since it was read.
THEOREM LifetimesKept == Spec => []LifetimeKept
<1>1. KInv => LifetimeKept
  BY DEF KInv, Kept, RowKept, LifetimeKept
<1>. QED
  BY <1>1, KeptAlways, PTL

\* As long as no update_entry does that, every value that an update_entry or an
\* upsert replaces is in the changelog.
THEOREM ChangesLogged == Spec => []ChangelogComplete
<1>1. KInv => ChangelogComplete
  BY DEF KInv, Kept, RowKept, Logged, ChangelogComplete
<1>. QED
  BY <1>1, KeptAlways, PTL

-----------------------------------------------------------------------------
(* With one server the two transactions of an update_entry enclose nothing *)
(* but its own cleanup thread.                                             *)

\* Tool calls run one at a time.
OneServer == \A p, q \in Servers : p = q

\* The entry an update holds is still the one in the table, or purged.
UpdateKept(s) ==
  flight[s].at = "update" =>
    LET i == flight[s].id IN Exists(i) => rows[i] = flight[s].row

AloneInv == TypeOK /\ (\A s \in Servers : UpdateKept(s)) /\ overlapped = {}

\* After a step of the only server that leaves it ready no update is under way.
LEMMA NoUpdate ==
  ASSUME OneServer, TypeOK, NEW s \in Servers, Answer(s)
  PROVE  \A x \in Servers : UpdateKept(x)'
BY DEF OneServer, TypeOK, Answer, UpdateKept, Idle

\* A step of the only server, which holds no stale entry.
LEMMA AloneStep ==
  ASSUME OneServer, AloneInv, [Next]_vars
  PROVE  (\A x \in Servers : UpdateKept(x)') /\ overlapped' = {}
<1>. DEFINE Goal == (\A x \in Servers : UpdateKept(x)') /\ overlapped' = {}
<1>. SUFFICES Goal
  OBVIOUS
<1>0. TypeOK /\ flight \in [Servers -> Flight]
  BY DEF AloneInv, TypeOK
<1>1. ASSUME NEW s \in Servers, Answer(s), UNCHANGED overlapped
      PROVE  Goal
  BY <1>0, <1>1, NoUpdate DEF AloneInv
<1>2. ASSUME UNCHANGED <<rows, overlapped>>,
             \A x \in Servers : flight'[x] = flight[x] \/ flight'[x].at # "update"
      PROVE  Goal
  BY <1>2 DEF AloneInv, UpdateKept, Exists
<1>3. ASSUME NEW s \in Servers, NEW i \in Ids, NEW src \in Sources, NEW c \in Contents,
             \/ \E ttl \in Ttls \cup {None} : Add(s, i, src, c, ttl)
             \/ \E k \in Keys : \/ UpsertInsert(s, i, src, k, c)
                                \/ UpsertConflict(s, i, src, k, c)
             \/ UpdateRead(s, i, src, c)
      PROVE  Goal
  <2>1. CASE UpdateRead(s, i, src, c)
    <3>1. /\ UNCHANGED <<rows, overlapped>>
          /\ flight'[s].id = i /\ flight'[s].row = rows[i]
          /\ \A x \in Servers : x = s
      BY <1>0, <2>1 DEF UpdateRead, OneServer
    <3>. QED
      BY <3>1 DEF AloneInv, UpdateKept
  <2>2. CASE \E k \in Keys : UpsertConflict(s, i, src, k, c)
    <3>1. /\ UNCHANGED <<rows, overlapped>>
          /\ \A x \in Servers : flight'[x] = flight[x] \/ flight'[x].at # "update"
      BY <1>0, <2>2 DEF UpsertConflict
    <3>. QED
      BY <1>2, <3>1
  <2>. QED
    BY <1>1, <1>3, <2>1, <2>2 DEF Add, UpsertInsert
<1>4. ASSUME NEW s \in Servers, UpdateWrite(s)
      PROVE  Goal
  <2>1. /\ flight[s].at = "update" /\ Answer(s)
        /\ \/ UNCHANGED overlapped
           \/ /\ Exists(flight[s].id)
              /\ overlapped' = IF Stale(flight[s].row, rows[flight[s].id])
                               THEN overlapped \cup {flight[s].id} ELSE overlapped
    BY <1>4 DEF UpdateWrite
  <2>2. Exists(flight[s].id) => ~Stale(flight[s].row, rows[flight[s].id])
    BY <2>1 DEF AloneInv, UpdateKept, Stale
  <2>. QED
    BY <1>1, <2>1, <2>2
<1>5. ASSUME NEW s \in Servers,
             \/ UpsertMerge(s) \/ UpdateUnchanged(s) \/ Abort(s)
             \/ \E i \in Ids : SoftDeleteById(s, i) \/ RestoreById(s, i)
             \/ \E src \in Sources : SoftDeleteBySource(s, src)
             \/ SoftDeleteByTags(s) \/ RestoreByTags(s)
             \/ \E on \in BOOLEAN : SetAutoCleanup(s, on)
      PROVE  Goal
  <2>1. Answer(s) /\ UNCHANGED overlapped
    BY <1>5 DEF UpsertMerge, UpdateUnchanged, Abort, SoftDeleteById, RestoreById,
                SoftDeleteBySource, SoftDeleteByTags, RestoreByTags, SoftDelete, Restore,
                SetAutoCleanup
  <2>. QED
    BY <1>1, <2>1
<1>6. ASSUME NEW s \in Servers, CleanupDelete(s)
      PROVE  Goal
  <2>1. /\ \A i \in Ids : rows'[i] = Purged \/ rows'[i] = rows[i]
        /\ UNCHANGED <<flight, overlapped>>
    BY <1>6 DEF CleanupDelete
  <2>2. ASSUME NEW x \in Servers, flight[x].at = "update" PROVE UpdateKept(x)'
    <3>1. flight[x].id \in Ids
      BY <1>0, <2>2, FlightType
    <3>. QED
      BY <2>1, <3>1 DEF AloneInv, UpdateKept, Exists, Purged
  <2>. QED
    BY <2>1, <2>2 DEF AloneInv, UpdateKept
<1>7. ASSUME NEW s \in Servers, CleanupList(s)
      PROVE  Goal
  BY <1>2, <1>7 DEF CleanupList
<1>8. CASE Tick \/ UNCHANGED vars
  BY <1>2, <1>8 DEF Tick, vars
<1>. HIDE DEF Goal
<1>9. ASSUME NEW s \in Servers, NEW i \in Ids, NEW src \in Sources, NEW c \in Contents,
             \/ Add(s, i, src, c, None)
             \/ \E ttl \in Ttls : AddContext(s, i, src, c, ttl)
             \/ \E k \in Keys : \/ UpsertInsert(s, i, src, k, c)
                                \/ UpsertConflict(s, i, src, k, c)
             \/ UpdateRead(s, i, src, c)
      PROVE  Goal
  BY <1>3, <1>9 DEF AddContext
<1>10. ASSUME NEW s \in Servers,
              \/ \E i \in Ids : SoftDeleteById(s, i) \/ RestoreById(s, i)
              \/ \E src \in Sources : SoftDeleteBySource(s, src)
              \/ SoftDeleteByTags(s) \/ RestoreByTags(s)
              \/ \E on \in BOOLEAN : SetAutoCleanup(s, on)
              \/ UpsertMerge(s) \/ UpdateUnchanged(s) \/ UpdateWrite(s) \/ Abort(s)
       PROVE  Goal
  BY <1>4, <1>5, <1>10
<1>11. CASE \E s \in Servers : CleanupList(s) \/ CleanupDelete(s)
  BY <1>6, <1>7, <1>11
<1>12. CASE Next
  <2>1. Tick \/ \E s \in Servers :
          \/ \E i \in Ids, src \in Sources, c \in Contents :
                \/ Add(s, i, src, c, None)
                \/ \E ttl \in Ttls : AddContext(s, i, src, c, ttl)
                \/ \E k \in Keys : \/ UpsertInsert(s, i, src, k, c)
                                  \/ UpsertConflict(s, i, src, k, c)
                \/ UpdateRead(s, i, src, c)
          \/ CleanupList(s) \/ CleanupDelete(s)
          \/ \E i \in Ids : SoftDeleteById(s, i) \/ RestoreById(s, i)
          \/ \E src \in Sources : SoftDeleteBySource(s, src)
          \/ SoftDeleteByTags(s) \/ RestoreByTags(s)
          \/ \E on \in BOOLEAN : SetAutoCleanup(s, on)
          \/ UpsertMerge(s) \/ UpdateUnchanged(s) \/ UpdateWrite(s) \/ Abort(s)
    BY <1>12 DEF Next
  <2>. QED
    BY <1>8, <1>9, <1>10, <1>11, <2>1
<1>. QED
  BY <1>8, <1>12 DEF vars

LEMMA AloneAlways ==
  ASSUME OneServer
  PROVE  Spec => []AloneInv
<1>1. ASSUME Init PROVE AloneInv
  BY <1>1, InitIInv DEF Init, IInv, AloneInv, UpdateKept, Idle
<1>2. ASSUME IInv, AloneInv, [Next]_vars PROVE AloneInv'
  BY <1>2, AloneStep, NextIInv DEF IInv, AloneInv
<1>3. IInv /\ AloneInv /\ [Next]_vars => AloneInv'
  BY <1>2
<1>. QED
  BY <1>1, <1>3, Inductive, PTL DEF Spec

\* One server gives every entry back the expiry it was created with ("Recovers
\* the original expires value that was saved during soft-delete"): an
\* update_entry holds no entry that a deletion changes meanwhile.  With two
\* servers this fails.
THEOREM OneServerKeepsLifetime ==
  ASSUME OneServer
  PROVE  Spec => []LifetimeAlwaysKept
<1>1. KInv /\ AloneInv => LifetimeAlwaysKept
  BY DEF KInv, Kept, RowKept, AloneInv, LifetimeAlwaysKept
<1>. QED
  BY <1>1, KeptAlways, AloneAlways, PTL
=============================================================================
