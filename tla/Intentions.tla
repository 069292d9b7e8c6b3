---------------------------- MODULE Intentions ----------------------------
(***************************************************************************)
(* Intentions (remind, update_intention) and the part of the briefing that *)
(* fires and surfaces them (collator.generate_briefing), on several        *)
(* servers sharing the entries table.                                      *)
(*                                                                         *)
(* A server runs one tool call at a time.  generate_briefing lists the due *)
(* intentions in one transaction and then, for each, reads it in another   *)
(* and writes it back in a third; update_intention and update_entry read   *)
(* and write in two.  The write carries all of `data`, of which only the   *)
(* state changes: deliver_at and urgency are given once, by remind.        *)
(***************************************************************************)
EXTENDS Naturals, FiniteSets

CONSTANTS Ids,          \* entry ids of intentions
          Servers,      \* server processes
          Deliver,      \* values of deliver_at that are used; 0: none
          Urgencies,    \* ranks of the urgencies that are used (_URGENCY_RANK)
          States,       \* INTENTION_STATES, or those an instance uses
          MaxListed,    \* _MAX_FIRED_IN_BRIEFING
          MaxTime,      \* bound on the clock
          MaxFailures,  \* bound: how many calls fail
          None          \* no entry yet

ASSUME ParametersAssumption ==
  /\ Deliver \subseteq Nat /\ Urgencies \subseteq 0..2
  /\ States \subseteq {"pending", "fired", "active", "completed", "snoozed", "cancelled"}
  /\ {"pending", "fired"} \subseteq States
  /\ MaxListed \in Nat /\ MaxTime \in Nat \ {0} /\ MaxFailures \in Nat

VARIABLES rows,     \* the intentions in the entries table
          call,     \* per server, the tool call it is in
          time,     \* now
          failures  \* how many calls have failed

vars == <<rows, call, time, failures>>

Row == [state : States, due : Deliver, urgency : Urgencies, trashed : BOOLEAN]

ASSUME NoneAssumption == None \notin Row

Idle == [at |-> "idle"]

\* A briefing that still has to fire todo, is about to write id, or an update
\* about to write id.  History: offered are the intentions that were due or
\* fired when the briefing listed them and that no other call wrote since.
Call == {Idle}
        \cup [at : {"fire"}, todo : SUBSET Ids, offered : SUBSET Ids]
        \cup [at : {"write"}, id : Ids, todo : SUBSET Ids, offered : SUBSET Ids]
        \cup [at : {"update"}, id : Ids, state : States]

\* Every variable stays in its type.
TypeOK ==
  /\ rows \in [Ids -> Row \cup {None}]
  /\ call \in [Servers -> Call]
  /\ time \in 1..MaxTime
  /\ failures \in 0..MaxFailures

Init ==
  /\ rows = [i \in Ids |-> None]
  /\ call = [s \in Servers |-> Idle]
  /\ time = 1
  /\ failures = 0

Active(i) == rows[i] # None /\ ~rows[i].trashed

InState(i, st) == Active(i) /\ rows[i].state = st

\* Mistake: get_fired_intentions does not ask for pending ones.
DueAnyState(i) == Active(i) /\ rows[i].due # 0 /\ rows[i].due <= time

\* get_fired_intentions
Due(i) == InState(i, "pending") /\ rows[i].due # 0 /\ rows[i].due <= time

Ready(s) == call[s] = Idle

\* The briefings of other servers no longer count on an intention that was
\* written.
Forget(c, S) ==
  IF c.at \in {"fire", "write"} THEN [c EXCEPT !.offered = @ \ S] ELSE c

\* Server s goes on as c, having written the intentions S.
GoOn(s, c, S) ==
  call' = [t \in Servers |-> IF t = s THEN c ELSE Forget(call[t], S)]

---------------------------------------------------------------------------
(* The tools. *)

\* remind
Remind(s, i, d, u) ==
  /\ Ready(s)
  /\ rows[i] = None
  /\ rows' = [rows EXCEPT ![i] = [state |-> "pending", due |-> d, urgency |-> u,
                                  trashed |-> FALSE]]
  /\ UNCHANGED <<call, time, failures>>

\* update_intention: get_entry_by_id finds the entry, the state is set in memory.
UpdateRead(s, i, st) ==
  /\ Ready(s)
  /\ Active(i)
  /\ GoOn(s, [at |-> "update", id |-> i, state |-> st], {})
  /\ UNCHANGED <<rows, time, failures>>

\* update_entry on an intention, which its type check lets through: say new
\* tags.  The state goes back as it was read.
EditRead(s, i) ==
  /\ Active(i)
  /\ UpdateRead(s, i, rows[i].state)

\* UPDATE entries ... WHERE id = %s, whatever has become of the row.
UpdateWrite(s) ==
  /\ call[s].at = "update"
  /\ rows' = [rows EXCEPT ![call[s].id].state = call[s].state]
  /\ GoOn(s, Idle, {call[s].id})
  /\ UNCHANGED <<time, failures>>

\* delete_entry: one statement trashes the intentions of S, by id or tags.
Trash(s, S) ==
  /\ Ready(s)
  /\ \A i \in S : Active(i)
  /\ rows' = [i \in Ids |-> IF i \in S THEN [rows[i] EXCEPT !.trashed = TRUE] ELSE rows[i]]
  /\ GoOn(s, Idle, S)
  /\ UNCHANGED <<time, failures>>

\* restore_entry
Restore(s, S) ==
  /\ Ready(s)
  /\ \A i \in S : rows[i] # None /\ rows[i].trashed
  /\ rows' = [i \in Ids |-> IF i \in S THEN [rows[i] EXCEPT !.trashed = FALSE] ELSE rows[i]]
  /\ GoOn(s, Idle, S)
  /\ UNCHANGED <<time, failures>>

---------------------------------------------------------------------------
(* generate_briefing. *)

\* get_fired_intentions takes the time and lists what is due.
BriefingList(s) ==
  /\ Ready(s)
  /\ LET due == {i \in Ids : Due(i)}
     IN  GoOn(s, [at |-> "fire", todo |-> due,
                  offered |-> due \cup {i \in Ids : InState(i, "fired")}], {})
  /\ UNCHANGED <<rows, time, failures>>

\* update_intention_state reads the next one; one that is gone is passed over.
FireRead(s) ==
  /\ call[s].at = "fire"
  /\ \E i \in call[s].todo :
       LET rest == call[s].todo \ {i}
       IN  IF Active(i)
           THEN GoOn(s, [at |-> "write", id |-> i, todo |-> rest,
                         offered |-> call[s].offered], {})
           ELSE GoOn(s, [call[s] EXCEPT !.todo = rest], {})
  /\ UNCHANGED <<rows, time, failures>>

\* Mistake: due intentions are reported as fired without being written.
FireForgetful(s) ==
  /\ call[s].at = "write"
  /\ GoOn(s, [at |-> "fire", todo |-> call[s].todo, offered |-> call[s].offered], {})
  /\ UNCHANGED <<rows, time, failures>>

\* ... and writes it as fired, whatever state it is in by now.
FireWrite(s) ==
  /\ call[s].at = "write"
  /\ rows' = [rows EXCEPT ![call[s].id].state = "fired"]
  /\ GoOn(s, [at |-> "fire", todo |-> call[s].todo, offered |-> call[s].offered],
          {call[s].id})
  /\ UNCHANGED <<time, failures>>

\* What a briefing may list of the fired intentions F: all, or MaxListed of
\* the most urgent (of equally urgent ones the most recent, left open here).
Listed(S, F) ==
  /\ S \subseteq F
  /\ Cardinality(S) <= MaxListed
  /\ S = F \/ Cardinality(S) = MaxListed
  /\ \A i \in S, j \in F \ S : rows[i].urgency >= rows[j].urgency

\* Mistake: intentions that agents fired by hand are left out.
SurfaceDueOnly(s, S) ==
  /\ call[s].at = "fire" /\ call[s].todo = {}
  /\ Listed(S, {i \in Ids : InState(i, "fired") /\ rows[i].due # 0})
  /\ GoOn(s, Idle, {})
  /\ UNCHANGED <<rows, time, failures>>

\* get_intentions(state="fired"); the briefing answers with the intentions S.
Surface(s, S) ==
  /\ call[s].at = "fire" /\ call[s].todo = {}
  /\ Listed(S, {i \in Ids : InState(i, "fired")})
  /\ GoOn(s, Idle, {})
  /\ UNCHANGED <<rows, time, failures>>

---------------------------------------------------------------------------
\* A transaction fails or the server stops; the call ends with what it has
\* committed so far.
Abort(s) ==
  /\ ~Ready(s)
  /\ failures < MaxFailures
  /\ failures' = failures + 1
  /\ GoOn(s, Idle, {})
  /\ UNCHANGED <<rows, time>>

Tick ==
  /\ time < MaxTime
  /\ time' = time + 1
  /\ UNCHANGED <<rows, call, failures>>

\* A call that has begun takes its next step.
Proceed(s) ==
  \/ UpdateWrite(s) \/ FireRead(s) \/ FireWrite(s)
  \/ \E S \in SUBSET Ids : Surface(s, S)

Next ==
  \/ \E s \in Servers :
       \/ \E i \in Ids :
            \/ \E d \in Deliver, u \in Urgencies : Remind(s, i, d, u)
            \/ \E st \in States : UpdateRead(s, i, st)
            \/ EditRead(s, i)
       \/ \E S \in SUBSET Ids \ {{}} : Trash(s, S) \/ Restore(s, S)
       \/ BriefingList(s)
       \/ Proceed(s)
       \/ Abort(s)
  \/ Tick

\* A call does not stop midway (tools run synchronously), and agents ask for a
\* briefing again and again ("Call this at conversation start").
Fairness ==
  /\ \A s \in Servers : WF_vars(Proceed(s))
  /\ SF_vars(\E s \in Servers : BriefingList(s))

Spec == Init /\ [][Next]_vars /\ Fairness

---------------------------------------------------------------------------
(* Properties. *)

\* A briefing answers with every intention that was due or already fired when
\* it listed them and that nobody wrote since, unless MaxListed others at
\* least as urgent take its place ("next briefing call after the deadline
\* transitions pending -> fired and surfaces it", remind).
BriefingSurfacesDue ==
  [][\A s \in Servers, S \in SUBSET Ids :
       Surface(s, S) =>
         \A i \in call[s].offered \ S :
           /\ Cardinality(S) = MaxListed
           /\ \A j \in S : rows[j].urgency >= rows[i].urgency]_vars

\* As long as no other call wrote it since the listing, what a briefing fires is
\* pending: of intentions that were handled or dismissed none comes back.
FiresPending ==
  [][\A s \in Servers :
       (FireWrite(s) /\ call[s].id \in call[s].offered)
       => InState(call[s].id, "pending")]_vars

\* Every due intention is fired, or taken up by somebody, although briefings
\* fail now and then and the servers' writes overwrite each other.
DueIsFired == \A i \in Ids : Due(i) ~> ~Due(i)
===========================================================================
