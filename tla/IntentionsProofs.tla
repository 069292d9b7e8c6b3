------------------------- MODULE IntentionsProofs -------------------------
(***************************************************************************)
(* Proofs about Intentions, for any ids, servers, delivery times, clock    *)
(* and cap on the list.  Fairness is not used.                             *)
(***************************************************************************)
EXTENDS Intentions, TLAPS

\* The intentions a briefing still has to fire.
Left(c) == IF c.at = "write" THEN c.todo \cup {c.id} ELSE c.todo

\* In the table T, what a briefing counts on is there: pending until the
\* briefing has fired it, fired afterwards.
Offers(c, T) ==
  c.at \in {"fire", "write"} =>
    /\ \A i \in c.offered :
         /\ T[i] # None /\ ~T[i].trashed
         /\ T[i].state = IF i \in Left(c) THEN "pending" ELSE "fired"
    /\ c.at = "write" => c.id \notin c.todo

\* What a call is about to write is there: nothing removes a row.
Aims(c, T) == c.at \in {"write", "update"} => T[c.id] # None

IInv == TypeOK /\ \A s \in Servers : Offers(call[s], rows) /\ Aims(call[s], rows)

---------------------------------------------------------------------------
(* The calls. *)

\* What the type says of a call, by the point it is at.
LEMMA CallFields ==
  ASSUME NEW c \in Call
  PROVE  /\ c.at \in {"idle", "fire", "write", "update"}
         /\ c.at \in {"fire", "write"} =>
              c.todo \in SUBSET Ids /\ c.offered \in SUBSET Ids
         /\ c.at \in {"write", "update"} => c.id \in Ids
         /\ c.at = "update" => c.state \in States
         /\ c.at = "idle" => c = Idle
BY DEF Call, Idle

\* Forgetting shrinks what a briefing counts on.
LEMMA ForgetCall ==
  ASSUME NEW c \in Call, NEW S \in SUBSET Ids
  PROVE  /\ Forget(c, S) \in Call
         /\ Forget(c, S).at = c.at
         /\ c.at \in {"fire", "write"} =>
              /\ Forget(c, S).todo = c.todo
              /\ Forget(c, S).offered = c.offered \ S
         /\ c.at = "write" => Forget(c, S).id = c.id
<1>1. CASE c \in [at : {"fire"}, todo : SUBSET Ids, offered : SUBSET Ids]
  BY <1>1 DEF Forget, Call
<1>2. CASE c \in [at : {"write"}, id : Ids, todo : SUBSET Ids, offered : SUBSET Ids]
  BY <1>2 DEF Forget, Call
<1>3. CASE c \in {Idle} \cup [at : {"update"}, id : Ids, state : States]
  BY <1>3 DEF Forget, Call, Idle
<1>4. QED
  BY <1>1, <1>2, <1>3 DEF Call

\* A step of one call keeps the invariant if it writes at most the intentions
\* it makes the others forget and the call itself can count on its own.
LEMMA CallStep ==
  ASSUME IInv, NEW s \in Servers, NEW c \in Call, NEW S \in SUBSET Ids, GoOn(s, c, S),
         rows' \in [Ids -> Row \cup {None}],
         \A i \in Ids \ S : rows'[i] = rows[i],
         \A i \in S : rows[i] # None => rows'[i] # None,
         UNCHANGED time, failures' \in 0..MaxFailures,
         Offers(c, rows'), Aims(c, rows')
  PROVE  IInv'
<1>1. /\ call \in [Servers -> Call]
      /\ \A t \in Servers : call'[t] = IF t = s THEN c ELSE Forget(call[t], S)
  BY DEF IInv, TypeOK, GoOn
<1>2. call' \in [Servers -> Call]
  <2>1. \A t \in Servers : call'[t] \in Call
    BY <1>1, ForgetCall
  <2>2. call' = [t \in Servers |-> call'[t]]
    BY DEF GoOn
  <2>3. QED
    BY <2>1, <2>2
<1>3. ASSUME NEW t \in Servers PROVE Aims(call'[t], rows')
  <2>1. CASE t = s
    BY <1>1, <2>1
  <2>2. CASE t # s
    <3>1. Aims(call[t], rows) /\ call[t] \in Call /\ call'[t] = Forget(call[t], S)
      BY <1>1, <2>2 DEF IInv
    <3>2. \A i \in Ids : rows[i] # None => rows'[i] # None
      OBVIOUS
    <3>3. CASE call[t].at \in {"write", "update"}
      <4>1. call[t].id \in Ids /\ call'[t].id = call[t].id
        BY <3>1, <3>3, CallFields, ForgetCall DEF Forget
      <4>2. QED
        BY <3>1, <3>2, <3>3, <4>1 DEF Aims
    <3>4. CASE call[t].at \notin {"write", "update"}
      BY <3>1, <3>4, ForgetCall DEF Aims
    <3>5. QED
      BY <3>3, <3>4
  <2>3. QED
    BY <2>1, <2>2
<1>4. ASSUME NEW t \in Servers PROVE Offers(call'[t], rows')
  <2>1. CASE t = s
    BY <1>1, <2>1
  <2>2. CASE t # s
    <3>1. Offers(call[t], rows) /\ call[t] \in Call /\ call'[t] = Forget(call[t], S)
      BY <1>1, <2>2 DEF IInv
    <3>2. SUFFICES ASSUME call[t].at \in {"fire", "write"} PROVE Offers(call'[t], rows')
      BY <3>1, ForgetCall DEF Offers
    <3>3. /\ call'[t].at = call[t].at /\ call'[t].todo = call[t].todo
          /\ call'[t].offered = call[t].offered \ S
          /\ call[t].at = "write" => call'[t].id = call[t].id
      BY <3>1, <3>2, ForgetCall
    <3>4. call[t].offered \in SUBSET Ids
      BY <3>1, <3>2, CallFields
    <3>5. Left(call'[t]) = Left(call[t])
      BY <3>3 DEF Left
    <3>6. QED
      BY <3>1, <3>2, <3>3, <3>4, <3>5 DEF Offers
  <2>3. QED
    BY <2>1, <2>2
<1>5. QED
  BY <1>2, <1>3, <1>4 DEF IInv, TypeOK

\* An idle call, or one that updates, counts on nothing.
LEMMA NothingOffered ==
  ASSUME NEW T, NEW c \in Call, c.at \in {"idle", "update"}
  PROVE  Offers(c, T)
BY DEF Offers

---------------------------------------------------------------------------
(* The actions. *)

LEMMA RemindKeeps ==
  ASSUME IInv, NEW s \in Servers, NEW i \in Ids, NEW d \in Deliver, NEW u \in Urgencies,
         Remind(s, i, d, u)
  PROVE  IInv'
<1> DEFINE row == [state |-> "pending", due |-> d, urgency |-> u, trashed |-> FALSE]
<1>1. row \in Row
  BY ParametersAssumption DEF Row
<1>2. /\ rows' = [rows EXCEPT ![i] = row] /\ rows[i] = None
      /\ UNCHANGED <<call, time, failures>>
  BY DEF Remind
<1> HIDE DEF row
<1>3. rows' \in [Ids -> Row \cup {None}] /\ \A j \in Ids \ {i} : rows'[j] = rows[j]
  BY <1>1, <1>2 DEF IInv, TypeOK
<1>4. ASSUME NEW t \in Servers PROVE Offers(call[t], rows') /\ Aims(call[t], rows')
  <2>1. Offers(call[t], rows) /\ Aims(call[t], rows) /\ call[t] \in Call
    BY DEF IInv, TypeOK
  <2>2. QED
    BY <2>1, <1>2, <1>3, CallFields DEF Offers, Aims
<1>5. QED
  BY <1>2, <1>3, <1>4 DEF IInv, TypeOK

LEMMA UpdateReadKeeps ==
  ASSUME IInv, NEW s \in Servers, NEW i \in Ids, NEW st \in States, UpdateRead(s, i, st)
  PROVE  IInv'
<1> DEFINE c == [at |-> "update", id |-> i, state |-> st]
<1>1. /\ c \in Call /\ c.at = "update" /\ c.id = i /\ rows[i] # None
      /\ GoOn(s, c, {}) /\ UNCHANGED <<rows, time, failures>>
  BY DEF UpdateRead, Call, Active
<1> HIDE DEF c
<1>2. Offers(c, rows') /\ Aims(c, rows')
  BY <1>1, NothingOffered DEF Aims
<1>3. QED
  BY <1>1, <1>2, CallStep DEF IInv, TypeOK

LEMMA EditReadKeeps ==
  ASSUME IInv, NEW s \in Servers, NEW i \in Ids, EditRead(s, i)
  PROVE  IInv'
<1>1. rows[i].state \in States
  BY DEF EditRead, Active, IInv, TypeOK, Row
<1>2. QED
  BY <1>1, UpdateReadKeeps DEF EditRead

\* Writing the state of a row keeps the table's type.
LEMMA WrittenRows ==
  ASSUME IInv, NEW i \in Ids, NEW st \in States, rows[i] # None,
         rows' = [rows EXCEPT ![i].state = st]
  PROVE  /\ rows' \in [Ids -> Row \cup {None}]
         /\ \A j \in Ids \ {i} : rows'[j] = rows[j]
         /\ rows'[i] # None /\ rows'[i].state = st /\ rows'[i].trashed = rows[i].trashed
<1>1. rows[i] \in Row
  BY DEF IInv, TypeOK
<1>2. [rows[i] EXCEPT !.state = st] \in Row
  BY <1>1 DEF Row
<1>3. rows'[i] = [rows[i] EXCEPT !.state = st]
  BY DEF IInv, TypeOK
<1>4. rows'[i] # None /\ rows'[i].state = st /\ rows'[i].trashed = rows[i].trashed
  BY <1>1, <1>2, <1>3, NoneAssumption DEF Row
<1>5. QED
  BY <1>2, <1>3, <1>4 DEF IInv, TypeOK

LEMMA UpdateWriteKeeps ==
  ASSUME IInv, NEW s \in Servers, UpdateWrite(s)
  PROVE  IInv'
<1>1. call[s] \in Call /\ call[s].at = "update" /\ Aims(call[s], rows)
  BY DEF UpdateWrite, IInv, TypeOK
<1> DEFINE i == call[s].id
           st == call[s].state
<1>2. i \in Ids /\ st \in States /\ rows[i] # None
  BY <1>1, CallFields DEF Aims
<1>3. /\ rows' \in [Ids -> Row \cup {None}] /\ \A j \in Ids \ {i} : rows'[j] = rows[j]
      /\ rows'[i] # None
  BY <1>2, WrittenRows DEF UpdateWrite
<1>4. GoOn(s, Idle, {i}) /\ UNCHANGED <<time, failures>>
  BY DEF UpdateWrite
<1>5. Idle \in Call /\ Offers(Idle, rows') /\ Aims(Idle, rows')
  BY DEF Call, Idle, Offers, Aims
<1>6. QED
  BY <1>2, <1>3, <1>4, <1>5, CallStep DEF IInv, TypeOK

\* delete_entry and restore_entry write whole sets of rows, which the briefings
\* under way no longer count on.
LEMMA TrashStep ==
  ASSUME IInv, NEW s \in Servers, NEW S \in SUBSET Ids, NEW b \in BOOLEAN,
         \A i \in S : rows[i] # None,
         rows' = [i \in Ids |-> IF i \in S THEN [rows[i] EXCEPT !.trashed = b] ELSE rows[i]],
         GoOn(s, Idle, S), UNCHANGED <<time, failures>>
  PROVE  IInv'
<1>1. ASSUME NEW i \in S PROVE rows'[i] \in Row
  <2>1. rows[i] \in Row
    BY DEF IInv, TypeOK
  <2>2. QED
    BY <2>1 DEF Row
<1>2. \A i \in Ids \ S : rows'[i] = rows[i]
  OBVIOUS
<1>3. rows' \in [Ids -> Row \cup {None}]
  BY <1>1, <1>2 DEF IInv, TypeOK
<1>4. Idle \in Call /\ Offers(Idle, rows') /\ Aims(Idle, rows')
  BY DEF Call, Idle, Offers, Aims
<1>5. \A i \in S : rows'[i] # None
  BY <1>1, NoneAssumption
<1>6. QED
  BY <1>2, <1>3, <1>4, <1>5, CallStep DEF IInv, TypeOK

LEMMA TrashKeeps ==
  ASSUME IInv, NEW s \in Servers, NEW S \in SUBSET Ids, Trash(s, S) \/ Restore(s, S)
  PROVE  IInv'
<1>1. CASE Trash(s, S)
  BY <1>1, TrashStep DEF Trash, Active
<1>2. CASE Restore(s, S)
  BY <1>2, TrashStep DEF Restore
<1>3. QED
  BY <1>1, <1>2

LEMMA BriefingListKeeps ==
  ASSUME IInv, NEW s \in Servers, BriefingList(s)
  PROVE  IInv'
<1> DEFINE due == {i \in Ids : Due(i)}
           c == [at |-> "fire", todo |-> due,
                 offered |-> due \cup {i \in Ids : InState(i, "fired")}]
<1>1. /\ c \in Call /\ c.at = "fire" /\ c.todo = due
      /\ c.offered = due \cup {i \in Ids : InState(i, "fired")}
      /\ GoOn(s, c, {}) /\ UNCHANGED <<rows, time, failures>>
  BY DEF BriefingList, Call
<1> HIDE DEF c
<1>2. Offers(c, rows') /\ Aims(c, rows')
  BY <1>1 DEF Offers, Aims, Left, Due, InState, Active
<1>3. QED
  BY <1>1, <1>2, CallStep DEF IInv, TypeOK

LEMMA FireReadKeeps ==
  ASSUME IInv, NEW s \in Servers, FireRead(s)
  PROVE  IInv'
<1>1. /\ call[s] \in Call /\ call[s].at = "fire" /\ Offers(call[s], rows)
      /\ UNCHANGED <<rows, time, failures>>
      /\ call[s].todo \in SUBSET Ids /\ call[s].offered \in SUBSET Ids
  BY CallFields DEF FireRead, IInv, TypeOK
<1>2. PICK i \in call[s].todo :
        LET rest == call[s].todo \ {i}
        IN  IF Active(i)
            THEN GoOn(s, [at |-> "write", id |-> i, todo |-> rest,
                          offered |-> call[s].offered], {})
            ELSE GoOn(s, [call[s] EXCEPT !.todo = rest], {})
  BY DEF FireRead
<1> DEFINE rest == call[s].todo \ {i}
<1>3. CASE Active(i)
  <2> DEFINE c == [at |-> "write", id |-> i, todo |-> rest, offered |-> call[s].offered]
  <2>1. /\ c \in Call /\ c.at = "write" /\ c.id = i /\ c.todo = rest
        /\ c.offered = call[s].offered
    BY <1>1 DEF Call
  <2>2. GoOn(s, c, {})
    BY <1>2, <1>3
  <2> HIDE DEF c
  <2>3. Left(c) = Left(call[s])
    BY <1>1, <2>1 DEF Left
  <2>4. Offers(c, rows') /\ Aims(c, rows')
    BY <1>1, <1>3, <2>1, <2>3 DEF Offers, Aims, Active
  <2>5. QED
    BY <1>1, <2>1, <2>2, <2>4, CallStep DEF IInv, TypeOK
\* An intention that is gone is none the briefing counts on.
<1>4. CASE ~Active(i)
  <2> DEFINE c == [call[s] EXCEPT !.todo = rest]
  <2>1. call[s] \in [at : {"fire"}, todo : SUBSET Ids, offered : SUBSET Ids]
    BY <1>1 DEF Call, Idle
  <2>2. c \in Call /\ c.at = "fire" /\ c.todo = rest /\ c.offered = call[s].offered
    BY <2>1 DEF Call
  <2>3. GoOn(s, c, {})
    BY <1>2, <1>4
  <2> HIDE DEF c
  <2>4. i \notin call[s].offered
    BY <1>1, <1>4 DEF Offers, Active
  <2>5. Offers(c, rows') /\ Aims(c, rows')
    BY <1>1, <2>2, <2>4 DEF Offers, Aims, Left
  <2>6. QED
    BY <1>1, <2>2, <2>3, <2>5, CallStep DEF IInv, TypeOK
<1>5. QED
  BY <1>3, <1>4

LEMMA FireWriteKeeps ==
  ASSUME IInv, NEW s \in Servers, FireWrite(s)
  PROVE  IInv'
<1> DEFINE i == call[s].id
           c == [at |-> "fire", todo |-> call[s].todo, offered |-> call[s].offered]
<1>1. /\ call[s] \in Call /\ call[s].at = "write"
      /\ Offers(call[s], rows) /\ Aims(call[s], rows)
      /\ rows' = [rows EXCEPT ![i].state = "fired"]
      /\ GoOn(s, c, {i}) /\ UNCHANGED <<time, failures>>
  BY DEF FireWrite, IInv, TypeOK
<1>2. /\ i \in Ids /\ rows[i] # None
      /\ call[s].todo \in SUBSET Ids /\ call[s].offered \in SUBSET Ids
      /\ i \notin call[s].todo
  BY <1>1, CallFields DEF Aims, Offers
<1>3. /\ rows' \in [Ids -> Row \cup {None}] /\ \A j \in Ids \ {i} : rows'[j] = rows[j]
      /\ rows'[i] # None /\ rows'[i].state = "fired" /\ rows'[i].trashed = rows[i].trashed
  BY <1>1, <1>2, WrittenRows, ParametersAssumption
<1>4. c \in Call /\ c.at = "fire" /\ c.todo = call[s].todo /\ c.offered = call[s].offered
  BY <1>2 DEF Call
<1> HIDE DEF c
<1>5. Offers(c, rows') /\ Aims(c, rows')
  BY <1>1, <1>2, <1>3, <1>4 DEF Offers, Aims, Left
<1>6. /\ {i} \in SUBSET Ids /\ UNCHANGED time /\ failures' \in 0..MaxFailures
      /\ \A j \in {i} : rows[j] # None => rows'[j] # None
  BY <1>1, <1>2, <1>3 DEF IInv, TypeOK
<1>7. GoOn(s, c, {i})
  BY <1>1
<1> HIDE DEF i
<1>8. QED
  BY <1>3, <1>4, <1>5, <1>6, <1>7, CallStep

\* A step that only ends a call.
LEMMA EndStep ==
  ASSUME IInv, NEW s \in Servers, GoOn(s, Idle, {}), UNCHANGED <<rows, time>>,
         failures' \in 0..MaxFailures
  PROVE  IInv'
<1>1. Idle \in Call /\ Offers(Idle, rows') /\ Aims(Idle, rows')
  BY DEF Call, Idle, Offers, Aims
<1>2. QED
  BY <1>1, CallStep DEF IInv, TypeOK

LEMMA SurfaceKeeps ==
  ASSUME IInv, NEW s \in Servers, NEW S \in SUBSET Ids, Surface(s, S)
  PROVE  IInv'
BY EndStep DEF Surface, IInv, TypeOK

LEMMA AbortKeeps ==
  ASSUME IInv, NEW s \in Servers, Abort(s)
  PROVE  IInv'
<1>1. failures' \in 0..MaxFailures
  BY ParametersAssumption DEF Abort, IInv, TypeOK
<1>2. QED
  BY <1>1, EndStep DEF Abort

LEMMA TickKeeps ==
  ASSUME IInv, Tick
  PROVE  IInv'
<1>1. time' \in 1..MaxTime /\ UNCHANGED <<rows, call, failures>>
  BY ParametersAssumption DEF Tick, IInv, TypeOK
<1>2. QED
  BY <1>1 DEF IInv, TypeOK, Offers, Aims, Left

LEMMA ProceedKeeps ==
  ASSUME IInv, NEW s \in Servers, Proceed(s)
  PROVE  IInv'
BY UpdateWriteKeeps, FireReadKeeps, FireWriteKeeps, SurfaceKeeps DEF Proceed

---------------------------------------------------------------------------
(* The theorems. *)

LEMMA Initial == Init => IInv
<1> SUFFICES ASSUME Init PROVE IInv
  OBVIOUS
<1>1. Idle \in Call /\ Offers(Idle, rows) /\ Aims(Idle, rows)
  BY DEF Call, Idle, Offers, Aims
<1>2. QED
  BY <1>1, ParametersAssumption DEF Init, IInv, TypeOK

LEMMA Inductive == IInv /\ [Next]_vars => IInv'
<1> SUFFICES ASSUME IInv, [Next]_vars PROVE IInv'
  OBVIOUS
<1>1. CASE UNCHANGED vars
  BY <1>1 DEF vars, IInv, TypeOK, Offers, Aims, Left
<1>2. CASE Tick
  BY <1>2, TickKeeps
<1>3. ASSUME NEW s \in Servers, NEW i \in Ids,
             \/ \E d \in Deliver, u \in Urgencies : Remind(s, i, d, u)
             \/ \E st \in States : UpdateRead(s, i, st)
             \/ EditRead(s, i)
      PROVE  IInv'
  BY <1>3, RemindKeeps, UpdateReadKeeps, EditReadKeeps
<1>4. ASSUME NEW s \in Servers,
             \/ \E S \in SUBSET Ids \ {{}} : Trash(s, S) \/ Restore(s, S)
             \/ BriefingList(s)
             \/ Proceed(s)
             \/ Abort(s)
      PROVE  IInv'
  BY <1>4, TrashKeeps, BriefingListKeeps, ProceedKeeps, AbortKeeps
<1>5. QED
  BY <1>1, <1>2, <1>3, <1>4 DEF Next

THEOREM Invariance == Spec => []IInv
BY Initial, Inductive, PTL DEF Spec

\* Every variable stays in its type, for any number of servers and intentions.
THEOREM TypeCorrect == Spec => []TypeOK
<1>1. IInv => TypeOK
  BY DEF IInv
<1>2. QED
  BY <1>1, Invariance, PTL

\* A briefing answers with every intention that was due or fired when it listed
\* them and that nobody wrote since, unless MaxListed others at least as urgent
\* take its place.
THEOREM BriefingsSurface == Spec => BriefingSurfacesDue
<1>1. ASSUME IInv, NEW s \in Servers, NEW S \in SUBSET Ids, Surface(s, S),
             NEW i \in call[s].offered \ S
      PROVE  /\ Cardinality(S) = MaxListed
             /\ \A j \in S : rows[j].urgency >= rows[i].urgency
  <2> DEFINE F == {j \in Ids : InState(j, "fired")}
  <2>1. /\ call[s] \in Call /\ call[s].at = "fire" /\ call[s].todo = {}
        /\ Offers(call[s], rows) /\ Listed(S, F)
    BY <1>1 DEF Surface, IInv, TypeOK
  <2>2. i \in Ids
    BY <2>1, CallFields
  \* Nothing is left to fire, so what the briefing counts on has been fired.
  <2>3. i \in F
    BY <2>1, <2>2 DEF Offers, Left, InState, Active
  <2>4. S # F
    BY <2>3
  <2>5. QED
    BY <2>1, <2>3, <2>4 DEF Listed
<1>2. IInv =>
        [\A s \in Servers, S \in SUBSET Ids :
           Surface(s, S) =>
             \A i \in call[s].offered \ S :
               /\ Cardinality(S) = MaxListed
               /\ \A j \in S : rows[j].urgency >= rows[i].urgency]_vars
  BY <1>1
<1>3. QED
  BY <1>2, Invariance, PTL DEF BriefingSurfacesDue

\* As long as nobody wrote it since the listing, an intention that a briefing
\* fires is pending.
THEOREM FiresOnlyPending == Spec => FiresPending
<1>1. ASSUME IInv, NEW s \in Servers, FireWrite(s), call[s].id \in call[s].offered
      PROVE  InState(call[s].id, "pending")
  BY <1>1 DEF FireWrite, IInv, Offers, Left, InState, Active
<1>2. IInv =>
        [\A s \in Servers :
           (FireWrite(s) /\ call[s].id \in call[s].offered)
           => InState(call[s].id, "pending")]_vars
  BY <1>1
<1>3. QED
  BY <1>2, Invariance, PTL DEF FiresPending

===========================================================================
