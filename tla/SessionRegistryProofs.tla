----------------------- MODULE SessionRegistryProofs -----------------------
(***************************************************************************)
(* Proofs about SessionRegistry, for every number of nodes, owners,        *)
(* requests and session ids and every TTL and grace period.                *)
(***************************************************************************)
EXTENDS SessionRegistry, TLAPS

---------------------------------------------------------------------------
(* What the statements of SessionStore return. *)

\* No session id is the "no id" of a flight.
LEMMA SidsPositive == \A s \in Sids : s \in Nat /\ s # 0
BY ConstantsAssumption DEF Sids

\* Registering a row keeps the table's type.
LEMMA RegisterRowType ==
  ASSUME TypeOK, NEW s \in Sids, NEW o \in Owners
  PROVE  RegisterRow(s, o) \in [Sids -> SessionRow \cup {None}]
<1>1. [owner |-> o, left |-> TTL] \in SessionRow
  BY ConstantsAssumption DEF SessionRow
<1>. QED
  BY <1>1 DEF TypeOK, RegisterRow

\* Touching a row keeps the table's type.
LEMMA TouchRowType ==
  ASSUME TypeOK, NEW s \in Sids \cup {0}
  PROVE  TouchRow(s) \in [Sids -> SessionRow \cup {None}]
<1>1. CASE Live(s) /\ s \in Sids
  <2>1. sessions[s] \in SessionRow
    BY <1>1 DEF TypeOK, Live
  <2>2. [sessions[s] EXCEPT !.left = TTL] \in SessionRow
    BY <2>1, ConstantsAssumption DEF SessionRow
  <2>. QED
    BY <1>1, <2>2 DEF TypeOK, TouchRow
<1>2. CASE s \notin Sids
  BY <1>2 DEF TypeOK, TouchRow
<1>3. CASE ~Live(s)
  BY <1>3 DEF TypeOK, TouchRow
<1>. QED
  BY <1>1, <1>2, <1>3

\* Invalidating a row keeps the table's type.
LEMMA InvalidateRowType ==
  ASSUME TypeOK, NEW s \in Sids \cup {0}
  PROVE  InvalidateRow(s) \in [Sids -> SessionRow \cup {None}]
<1>1. CASE sessions[s] # None /\ s \in Sids
  <2>1. sessions[s] \in SessionRow
    BY <1>1 DEF TypeOK
  <2>2. [sessions[s] EXCEPT !.left = 0] \in SessionRow
    BY <2>1, ConstantsAssumption DEF SessionRow
  <2>. QED
    BY <1>1, <2>2 DEF TypeOK, InvalidateRow
<1>2. CASE s \notin Sids
  BY <1>2 DEF TypeOK, InvalidateRow
<1>3. CASE sessions[s] = None
  BY <1>3 DEF TypeOK, InvalidateRow
<1>. QED
  BY <1>1, <1>2, <1>3

\* Purging deletes rows and changes none.
LEMMA PurgedType ==
  ASSUME NEW R, NEW t \in [Sids -> R \cup {None}]
  PROVE  Purged(t) \in [Sids -> R \cup {None}]
BY DEF Purged

\* Aging keeps the types of both tables.
LEMMA AgedType ==
  ASSUME TypeOK
  PROVE  /\ Aged(sessions) \in [Sids -> SessionRow \cup {None}]
         /\ Aged(redirects) \in [Sids -> RedirectRow \cup {None}]
BY ConstantsAssumption DEF TypeOK, Aged, Less, SessionRow, RedirectRow
---------------------------------------------------------------------------
(* What the steps of a request do to req and to the cleaner. *)

\* Going on to another point keeps a flight a flight, if what that point
\* needs is there.
LEMMA GotoType ==
  ASSUME TypeOK, NEW r \in Requests, req[r] # None, NEW pc \in Pcs, Goto(r, pc),
         pc \notin {"initialize", "register"} => req[r].sid # 0,
         pc \in WithNew => req[r].new # 0
  PROVE  req' \in [Requests -> Flight \cup {None}]
<1>1. req[r] \in Flight
  BY DEF TypeOK
<1>2. [req[r] EXCEPT !.pc = pc] \in Flight
  BY <1>1 DEF Flight
<1>. QED
  BY <1>2 DEF TypeOK, Goto

\* Answering a request frees its slot.
LEMMA FinishType ==
  ASSUME TypeOK, NEW r \in Requests, Finish(r)
  PROVE  req' \in [Requests -> Flight \cup {None}]
BY DEF TypeOK, Finish

\* An arriving request is a flight.
LEMMA ArriveType ==
  ASSUME TypeOK, NEW r \in Requests, NEW n \in Nodes, NEW o \in Owners,
         NEW s \in Sids \cup {0}, NEW pc \in Pcs, Arrive(r, n, o, s, pc),
         pc \notin WithNew, pc # "initialize" => s # 0
  PROVE  req' \in [Requests -> Flight \cup {None}]
<1>1. [pc |-> pc, node |-> n, owner |-> o, sid |-> s, new |-> 0] \in Flight
  BY DEF Flight
<1>. QED
  BY <1>1 DEF TypeOK, Arrive

\* The owner check ends in a flight or in a free slot.
LEMMA ValidateType ==
  ASSUME TypeOK, NEW r \in Requests, NEW n \in Nodes, NEW o \in Owners,
         NEW s \in Sids, Validate(r, n, o, s)
  PROVE  req' \in [Requests -> Flight \cup {None}]
<1>1. CASE Arrive(r, n, o, s, "call")
  BY <1>1, ArriveType DEF Pcs, WithNew, Sids
<1>2. CASE Finish(r)
  BY <1>2, FinishType
<1>. QED
  BY <1>1, <1>2 DEF Validate

\* A session opened by FastMCP has an id of its own.
LEMMA OpenLocalType ==
  ASSUME TypeOK, NEW r \in Requests, req[r] # None, NEW pc \in Pcs,
         OpenLocal(r, pc), pc \notin {"initialize", "register"} => req[r].sid # 0
  PROVE  /\ req' \in [Requests -> Flight \cup {None}]
         /\ req'[r] \in Flight
         /\ issued' \in 0..MaxSid
         /\ issued' \in Sids
         /\ local' \in [Nodes -> SUBSET Sids]
<1>1. req[r] \in Flight
  BY DEF TypeOK
<1>2. /\ issued + 1 \in Sids /\ issued + 1 # 0
      /\ issued' = issued + 1 /\ issued' \in 0..MaxSid
  BY ConstantsAssumption DEF TypeOK, OpenLocal, Sids
<1>3. [req[r] EXCEPT !.pc = pc, !.new = issued + 1] \in Flight
  BY <1>1, <1>2 DEF Flight
<1>4. req' \in [Requests -> Flight \cup {None}] /\ req'[r] \in Flight
  BY <1>3 DEF TypeOK, OpenLocal
<1>5. local' \in [Nodes -> SUBSET Sids]
  BY <1>1, <1>2 DEF TypeOK, OpenLocal, Flight
<1>. QED
  BY <1>2, <1>4, <1>5

\* Scheduling a cleanup keeps the cleaner's type.
LEMMA ScheduleCleanupType ==
  ASSUME TypeOK, NEW n \in Nodes, ScheduleCleanup(n)
  PROVE  cleaner' \in [Nodes -> [wait : 0..CleanupInterval, alive : BOOLEAN]]
BY ConstantsAssumption DEF TypeOK, ScheduleCleanup

\* The fields of a request in flight.
LEMMA FlightFields ==
  ASSUME TypeOK, NEW r \in Requests, req[r] # None
  PROVE  /\ req[r] \in Flight
         /\ req[r].pc \in Pcs /\ req[r].node \in Nodes
         /\ req[r].owner \in Owners
         /\ req[r].sid \in Sids \cup {0} /\ req[r].new \in Sids \cup {0}
         /\ req[r].pc \notin {"initialize", "register"} => req[r].sid \in Sids
         /\ req[r].pc \in WithNew => req[r].new \in Sids
BY DEF TypeOK, Flight
---------------------------------------------------------------------------
(* Type correctness. *)

\* The initial tables are empty and nothing is in flight.
LEMMA InitType == Init => TypeOK
BY ConstantsAssumption DEF Init, TypeOK

\* The steps of _handle_initialize keep the types.
LEMMA InitializeType ==
  ASSUME TypeOK, NEW r \in Requests,
         \/ \E n \in Nodes, o \in Owners : Initialize(r, n, o)
         \/ InitializeApp(r)
         \/ RegisterSession(r)
  PROVE  TypeOK'
<1>1. ASSUME NEW n \in Nodes, NEW o \in Owners, Initialize(r, n, o)
      PROVE  TypeOK'
  <2>1. req' \in [Requests -> Flight \cup {None}]
    BY <1>1, ArriveType DEF Initialize, Pcs, WithNew
  <2>. QED
    BY <1>1, <2>1 DEF Initialize, TypeOK, tables
<1>2. CASE InitializeApp(r)
  <2>1. CASE OpenLocal(r, "register") /\ known' = known \cup {issued'}
    <3>1. /\ req' \in [Requests -> Flight \cup {None}] /\ issued' \in 0..MaxSid
          /\ issued' \in Sids /\ local' \in [Nodes -> SUBSET Sids]
      BY <1>2, <2>1, OpenLocalType DEF InitializeApp, At, Pcs
    <3>. QED
      BY <1>2, <2>1, <3>1 DEF InitializeApp, TypeOK, tables
  <2>2. CASE Finish(r) /\ UNCHANGED <<issued, local, known>>
    BY <1>2, <2>2, FinishType DEF InitializeApp, TypeOK, tables
  <2>. QED
    BY <1>2, <2>1, <2>2 DEF InitializeApp
<1>3. CASE RegisterSession(r)
  <2>. req[r] # None /\ req[r].pc = "register"
    BY <1>3 DEF RegisterSession, At
  <2>1. sessions' \in [Sids -> SessionRow \cup {None}]
    <3>1. req[r].new \in Sids /\ req[r].owner \in Owners
      BY FlightFields DEF WithNew
    <3>. QED
      BY <1>3, <3>1, RegisterRowType DEF RegisterSession, TypeOK
  <2>2. cleaner' \in [Nodes -> [wait : 0..CleanupInterval, alive : BOOLEAN]]
    BY <1>3, FlightFields, ScheduleCleanupType DEF RegisterSession, TypeOK
  <2>3. req' \in [Requests -> Flight \cup {None}]
    BY <1>3, FinishType DEF RegisterSession
  <2>. QED
    BY <1>3, <2>1, <2>2, <2>3 DEF RegisterSession, TypeOK
<1>. QED
  BY <1>1, <1>2, <1>3

\* The steps of _handle_subsequent keep the types.
LEMMA SubsequentType ==
  ASSUME TypeOK, NEW r \in Requests,
         \/ \E n \in Nodes, o \in Owners, s \in Sids : Subsequent(r, n, o, s)
         \/ RedirectLookup(r) \/ TargetLookup(r) \/ CallApp(r) \/ Touch(r)
  PROVE  TypeOK'
<1>1. ASSUME NEW n \in Nodes, NEW o \in Owners, NEW s \in Sids,
             Subsequent(r, n, o, s)
      PROVE  TypeOK'
  <2>1. req' \in [Requests -> Flight \cup {None}]
    <3>1. CASE Validate(r, n, o, s)
      BY <3>1, ValidateType
    <3>2. CASE Arrive(r, n, o, s, "redirect")
      BY <3>2, SidsPositive, ArriveType DEF Pcs, WithNew
    <3>. QED
      BY <1>1, <3>1, <3>2 DEF Subsequent
  <2>. QED
    BY <1>1, <2>1 DEF Subsequent, TypeOK, tables
<1>2. CASE RedirectLookup(r)
  <2>. req[r] # None /\ req[r].pc = "redirect"
    BY <1>2 DEF RedirectLookup, At
  <2>1. req[r].sid \in Sids /\ req[r].node \in Nodes /\ req[r].owner \in Owners
    BY FlightFields
  <2>2. CASE Redirected(req[r].sid)
    <3>1. redirects[req[r].sid].to \in Sids
      BY <2>1, <2>2 DEF Redirected, TypeOK, RedirectRow
    <3>2. ASSUME Arrive(r, req[r].node, req[r].owner, redirects[req[r].sid].to, "target")
          PROVE  req' \in [Requests -> Flight \cup {None}]
      <4>1. redirects[req[r].sid].to # 0 /\ "target" \in Pcs /\ "target" \notin WithNew
        BY <3>1, SidsPositive DEF Pcs, WithNew
      <4>. QED
        BY <2>1, <3>1, <3>2, <4>1, ArriveType
    <3>3. ASSUME Finish(r)
          PROVE  req' \in [Requests -> Flight \cup {None}]
      BY <3>3, FinishType
    <3>4. req' \in [Requests -> Flight \cup {None}]
      BY <1>2, <3>2, <3>3 DEF RedirectLookup
    <3>. QED
      BY <1>2, <3>4 DEF RedirectLookup, TypeOK, tables
  <2>3. CASE ~Redirected(req[r].sid)
    BY <1>2, <2>3, FinishType DEF RedirectLookup, TypeOK, tables
  <2>. QED
    BY <2>2, <2>3
<1>3. CASE TargetLookup(r)
  <2>. req[r] # None /\ req[r].pc = "target"
    BY <1>3 DEF TargetLookup, At
  <2>1. req' \in [Requests -> Flight \cup {None}]
    BY <1>3, FlightFields, ValidateType, FinishType DEF TargetLookup
  <2>. QED
    BY <1>3, <2>1 DEF TargetLookup, TypeOK, tables
<1>4. CASE CallApp(r)
  <2>. req[r] # None /\ req[r].pc = "call"
    BY <1>4 DEF CallApp, At
  <2>1. req' \in [Requests -> Flight \cup {None}]
    <3>1. req[r].sid # 0
      BY FlightFields DEF Sids
    <3>. QED
      BY <1>4, <3>1, GotoType, FinishType DEF CallApp, Pcs, WithNew
  <2>. QED
    BY <1>4, <2>1 DEF CallApp, TypeOK, tables
<1>5. CASE Touch(r)
  <2>. req[r] # None /\ req[r].pc = "touch"
    BY <1>5 DEF Touch, At
  <2>0. req[r].sid \in Sids /\ req[r].node \in Nodes
    BY FlightFields
  <2>1. sessions' \in [Sids -> SessionRow \cup {None}]
    BY <1>5, <2>0, TouchRowType DEF Touch, TypeOK
  <2>2. touchWait' \in [Nodes -> [Sids -> 0..TouchDebounce]]
    <3>1. TouchDebounce \in 0..TouchDebounce
      BY ConstantsAssumption
    <3>2. [touchWait EXCEPT ![req[r].node][req[r].sid] = TouchDebounce]
            \in [Nodes -> [Sids -> 0..TouchDebounce]]
      BY <2>0, <3>1 DEF TypeOK
    <3>. QED
      BY <1>5, <3>2 DEF Touch, TypeOK
  <2>3. cleaner' \in [Nodes -> [wait : 0..CleanupInterval, alive : BOOLEAN]]
    BY <1>5, <2>0, ScheduleCleanupType DEF Touch
  <2>4. req' \in [Requests -> Flight \cup {None}]
    BY <1>5, FinishType DEF Touch
  <2>. QED
    BY <1>5, <2>1, <2>2, <2>3, <2>4 DEF Touch, TypeOK
<1>. QED
  BY <1>1, <1>2, <1>3, <1>4, <1>5
\* The steps of _reinitialize keep the types.
LEMMA ReinitType ==
  ASSUME TypeOK, NEW r \in Requests,
         \/ ReinitApp(r) \/ ReinitRegister(r) \/ ReinitRedirect(r)
         \/ ReinitInvalidate(r) \/ Replay(r)
  PROVE  TypeOK'
<1>1. CASE ReinitApp(r)
  <2>. req[r] # None /\ req[r].pc = "reinit"
    BY <1>1 DEF ReinitApp, At
  <2>1. req[r].sid # 0
    BY FlightFields, SidsPositive
  <2>2. CASE OpenLocal(r, "reregister")
    <3>1. /\ req' \in [Requests -> Flight \cup {None}]
          /\ issued' \in 0..MaxSid /\ local' \in [Nodes -> SUBSET Sids]
      BY <2>1, <2>2, OpenLocalType DEF Pcs
    <3>. QED
      BY <1>1, <3>1 DEF ReinitApp, TypeOK, tables
  <2>3. CASE Finish(r) /\ UNCHANGED <<issued, local>>
    BY <1>1, <2>3, FinishType DEF ReinitApp, TypeOK, tables
  <2>. QED
    BY <1>1, <2>2, <2>3 DEF ReinitApp
<1>2. CASE ReinitRegister(r)
  <2>. req[r] # None /\ req[r].pc = "reregister"
    BY <1>2 DEF ReinitRegister, At
  <2>1. /\ req[r].sid # 0 /\ req[r].new \in Sids /\ req[r].new # 0
        /\ req[r].owner \in Owners
    BY FlightFields, SidsPositive DEF WithNew
  <2>2. sessions' \in [Sids -> SessionRow \cup {None}]
    BY <1>2, <2>1, RegisterRowType DEF ReinitRegister, TypeOK
  <2>3. req' \in [Requests -> Flight \cup {None}]
    BY <1>2, <2>1, GotoType, FinishType DEF ReinitRegister, Pcs
  <2>. QED
    BY <1>2, <2>2, <2>3 DEF ReinitRegister, TypeOK
<1>3. CASE ReinitRedirect(r)
  <2>. req[r] # None /\ req[r].pc = "addredirect"
    BY <1>3 DEF ReinitRedirect, At
  <2>1. /\ req[r].sid \in Sids /\ req[r].sid # 0
        /\ req[r].new \in Sids /\ req[r].new # 0
    BY FlightFields, SidsPositive DEF WithNew
  <2>2. redirects' \in [Sids -> RedirectRow \cup {None}]
    <3>1. [to |-> req[r].new, left |-> Grace] \in RedirectRow
      BY <2>1, ConstantsAssumption DEF RedirectRow
    <3>. QED
      BY <1>3, <2>1, <3>1 DEF ReinitRedirect, AddRedirectRow, TypeOK
  <2>3. req' \in [Requests -> Flight \cup {None}]
    BY <1>3, <2>1, GotoType, FinishType DEF ReinitRedirect, Pcs
  <2>. QED
    BY <1>3, <2>2, <2>3 DEF ReinitRedirect, TypeOK
<1>4. CASE ReinitInvalidate(r)
  <2>. req[r] # None /\ req[r].pc = "invalidate"
    BY <1>4 DEF ReinitInvalidate, At
  <2>1. req[r].sid \in Sids /\ req[r].sid # 0 /\ req[r].new # 0
    BY FlightFields, SidsPositive DEF WithNew
  <2>2. sessions' \in [Sids -> SessionRow \cup {None}]
    BY <1>4, <2>1, InvalidateRowType DEF ReinitInvalidate, TypeOK
  <2>3. req' \in [Requests -> Flight \cup {None}]
    BY <1>4, <2>1, GotoType, FinishType DEF ReinitInvalidate, Pcs
  <2>. QED
    BY <1>4, <2>2, <2>3 DEF ReinitInvalidate, TypeOK
<1>5. CASE Replay(r)
  <2>. req[r] # None /\ req[r].pc = "replay"
    BY <1>5 DEF Replay, At
  <2>1. req[r].new \in Sids
    BY FlightFields DEF WithNew
  <2>2. req' \in [Requests -> Flight \cup {None}]
    BY <1>5, FinishType DEF Replay
  <2>. QED
    BY <1>5, <2>1, <2>2 DEF Replay, TypeOK, tables
<1>. QED
  BY <1>1, <1>2, <1>3, <1>4, <1>5

\* The steps of _handle_terminate keep the types.
LEMMA TerminateType ==
  ASSUME TypeOK, NEW r \in Requests,
         \/ \E n \in Nodes, o \in Owners, s \in Sids : Terminate(r, n, o, s)
         \/ TerminateApp(r) \/ TerminateInvalidate(r) \/ TerminateRedirects(r)
  PROVE  TypeOK'
<1>1. ASSUME NEW n \in Nodes, NEW o \in Owners, NEW s \in Sids,
             Terminate(r, n, o, s)
      PROVE  TypeOK'
  <2>1. req' \in [Requests -> Flight \cup {None}]
    BY <1>1, SidsPositive, ArriveType DEF Terminate, Pcs, WithNew
  <2>. QED
    BY <1>1, <2>1 DEF Terminate, TypeOK, tables
<1>2. CASE TerminateApp(r)
  <2>. req[r] # None /\ req[r].pc = "terminate"
    BY <1>2 DEF TerminateApp, At
  <2>1. req[r].sid # 0 /\ req[r].node \in Nodes
    BY FlightFields, SidsPositive
  <2>2. req' \in [Requests -> Flight \cup {None}]
    BY <1>2, <2>1, GotoType DEF TerminateApp, Pcs, WithNew
  <2>3. local' \in [Nodes -> SUBSET Sids]
    BY <1>2, <2>1 DEF TerminateApp, TypeOK
  <2>. QED
    BY <1>2, <2>2, <2>3 DEF TerminateApp, TypeOK, tables
<1>3. CASE TerminateInvalidate(r)
  <2>. req[r] # None /\ req[r].pc = "term_invalidate"
    BY <1>3 DEF TerminateInvalidate, At
  <2>1. req[r].sid \in Sids /\ req[r].sid # 0
    BY FlightFields, SidsPositive
  <2>2. sessions' \in [Sids -> SessionRow \cup {None}]
    BY <1>3, <2>1, InvalidateRowType DEF TerminateInvalidate, TypeOK
  <2>3. req' \in [Requests -> Flight \cup {None}]
    BY <1>3, <2>1, GotoType, FinishType DEF TerminateInvalidate, Pcs, WithNew
  <2>. QED
    BY <1>3, <2>2, <2>3 DEF TerminateInvalidate, TypeOK
<1>4. CASE TerminateRedirects(r)
  <2>. req[r] # None
    BY <1>4 DEF TerminateRedirects, At
  <2>1. redirects' \in [Sids -> RedirectRow \cup {None}]
    BY <1>4 DEF TerminateRedirects, DeleteRedirectsTo, TypeOK
  <2>2. cleaner' \in [Nodes -> [wait : 0..CleanupInterval, alive : BOOLEAN]]
    BY <1>4, FlightFields, ScheduleCleanupType DEF TerminateRedirects, TypeOK
  <2>3. req' \in [Requests -> Flight \cup {None}]
    BY <1>4, FinishType DEF TerminateRedirects
  <2>. QED
    BY <1>4, <2>1, <2>2, <2>3 DEF TerminateRedirects, TypeOK
<1>. QED
  BY <1>1, <1>2, <1>3, <1>4

\* Cleanup threads, restarts and the clock keep the types.
LEMMA EnvironmentType ==
  ASSUME TypeOK, (\E n \in Nodes : Cleanup(n) \/ Restart(n)) \/ Tick
  PROVE  TypeOK'
<1>1. ASSUME NEW n \in Nodes, Cleanup(n)
      PROVE  TypeOK'
  <2>1. /\ sessions' \in [Sids -> SessionRow \cup {None}]
        /\ redirects' \in [Sids -> RedirectRow \cup {None}]
    <3>1. /\ Purged(sessions) \in [Sids -> SessionRow \cup {None}]
          /\ Purged(redirects) \in [Sids -> RedirectRow \cup {None}]
      BY PurgedType DEF TypeOK
    <3>. QED
      BY <1>1, <3>1 DEF Cleanup, TypeOK, tables
  <2>2. cleaner' \in [Nodes -> [wait : 0..CleanupInterval, alive : BOOLEAN]]
    BY <1>1 DEF Cleanup, TypeOK
  <2>. QED
    BY <1>1, <2>1, <2>2 DEF Cleanup, TypeOK
<1>2. ASSUME NEW n \in Nodes, Restart(n)
      PROVE  TypeOK'
  BY <1>2, ConstantsAssumption DEF Restart, TypeOK, tables
<1>3. CASE Tick
  <2>1. touchWait' \in [Nodes -> [Sids -> 0..TouchDebounce]]
    BY <1>3, ConstantsAssumption DEF Tick, TypeOK, Less
  <2>2. cleaner' \in [Nodes -> [wait : 0..CleanupInterval, alive : BOOLEAN]]
    <3>1. ASSUME NEW n \in Nodes
          PROVE  [cleaner[n] EXCEPT !.wait = Less(@)]
                   \in [wait : 0..CleanupInterval, alive : BOOLEAN]
      <4>1. cleaner[n] \in [wait : 0..CleanupInterval, alive : BOOLEAN]
        BY DEF TypeOK
      <4>2. Less(cleaner[n].wait) \in 0..CleanupInterval
        BY <4>1, ConstantsAssumption DEF Less
      <4>. QED
        BY <4>1, <4>2
    <3>. QED
      BY <1>3, <3>1 DEF Tick
  <2>. QED
    BY <1>3, <2>1, <2>2, AgedType DEF Tick, TypeOK
<1>. QED
  BY <1>1, <1>2, <1>3

\* Every step keeps the types.
LEMMA NextType == TypeOK /\ [Next]_vars => TypeOK'
<1>. SUFFICES ASSUME TypeOK, [Next]_vars
              PROVE  TypeOK'
  OBVIOUS
<1>1. CASE UNCHANGED vars
  BY <1>1 DEF vars, TypeOK
<1>2. CASE Next
  BY <1>2, InitializeType, SubsequentType, ReinitType, TerminateType,
     EnvironmentType DEF Next, Handler
<1>. QED
  BY <1>1, <1>2

\* The tables, the in-memory state of every node and every request in flight
\* keep their types whatever interleaves, fails or restarts: no handler goes
\* on without the session id its next transaction needs.
THEOREM TypeCorrect == Spec => []TypeOK
BY InitType, NextType, PTL DEF Spec
---------------------------------------------------------------------------
(* Ownership.  RedirectOwner and ValidatedOwner are not inductive: they    *)
(* rest on FastMCP's ids being new when they are registered, so that no    *)
(* redirect and no request in flight refers to a row before it is there.   *)

PendingPcs == {"register", "reregister"}

\* Only ids FastMCP has handed out are in the tables and in requests.
IdsIssued ==
  /\ \A s \in Sids : sessions[s] # None => s <= issued
  /\ \A s \in Sids :
       redirects[s] # None => s <= issued /\ redirects[s].to <= issued
  /\ \A r \in Requests : req[r] # None => req[r].new <= issued
  /\ \A r \in Requests :
       req[r] # None /\ req[r].pc \in Validated => req[r].sid <= issued

\* Nothing refers to an id that is about to be registered.
FreshIds ==
  \A r \in Requests :
    req[r] # None /\ req[r].pc \in PendingPcs
    => /\ sessions[req[r].new] = None
       /\ redirects[req[r].new] = None
       /\ \A s \in Sids :
            redirects[s] # None => redirects[s].to # req[r].new
       /\ \A q \in Requests \ {r} :
            req[q] # None => req[q].new # req[r].new
       /\ \A q \in Requests :
            req[q] # None /\ req[q].pc \in Validated
            => req[q].sid # req[r].new

\* The row a re-initialization has registered belongs to its request's owner.
NewOwner ==
  \A r \in Requests :
    (/\ req[r] # None
     /\ req[r].pc = "addredirect"
     /\ sessions[req[r].new] # None)
    => sessions[req[r].new].owner = req[r].owner

IInv == /\ TypeOK
        /\ RedirectOwner /\ ValidatedOwner
        /\ IdsIssued /\ FreshIds /\ NewOwner

\* What most steps do: rows and redirects at most disappear or age, and a
\* request goes on, arrives, or has just passed the owner check.
RowsKept ==
  \A s \in Sids :
    sessions'[s] # None
    => /\ sessions[s] # None /\ sessions'[s].owner = sessions[s].owner
       /\ sessions'[s].left > 0 => sessions[s].left > 0

RedirectsKept ==
  \A s \in Sids :
    redirects'[s] # None
    => redirects[s] # None /\ redirects'[s].to = redirects[s].to

GoesOn(r) ==
  /\ req[r] # None
  /\ req'[r].sid = req[r].sid /\ req'[r].new = req[r].new
  /\ req'[r].owner = req[r].owner
  /\ req'[r].pc \in Validated => req[r].pc \in Validated
  /\ req'[r].pc \in PendingPcs => req[r].pc = req'[r].pc
  /\ req'[r].pc = "addredirect" => req[r].pc = "addredirect"

Arrived(r) == req'[r].new = 0 /\ req'[r].pc \notin Validated \cup WithNew

Checked(r) ==
  /\ req'[r].new = 0 /\ req'[r].pc = "call"
  /\ req'[r].sid \in Sids /\ sessions[req'[r].sid] # None
  /\ sessions[req'[r].sid].owner = req'[r].owner

Quiet == /\ RowsKept /\ RedirectsKept /\ issued' = issued
         /\ \A r \in Requests :
              req'[r] # None => GoesOn(r) \/ Arrived(r) \/ Checked(r)
\* A quiet step keeps the ownership invariant.
LEMMA QuietStep ==
  ASSUME IInv, TypeOK', Quiet
  PROVE  IInv'
<1>. USE DEF IInv
<1>0. \A r \in Requests : req[r] # None => req[r] \in Flight
  BY DEF TypeOK
<1>1. RedirectOwner'
  BY DEF RedirectOwner, Quiet, RowsKept, RedirectsKept, TypeOK, RedirectRow
<1>2. ValidatedOwner'
  <2>. SUFFICES ASSUME NEW r \in Requests, req'[r] # None,
                       req'[r].pc \in Validated, sessions'[req'[r].sid] # None
                PROVE  sessions'[req'[r].sid].owner = req'[r].owner
    BY DEF ValidatedOwner
  <2>0. req'[r].sid \in Sids
    BY DEF TypeOK, Flight, Validated
  <2>1. CASE GoesOn(r)
    BY <2>0, <2>1 DEF GoesOn, ValidatedOwner, Quiet, RowsKept
  <2>2. CASE Checked(r)
    BY <2>0, <2>2 DEF Checked, Quiet, RowsKept
  <2>. QED
    BY <2>1, <2>2 DEF Quiet, Arrived
<1>3. IdsIssued'
  <2>1. \A s \in Sids : sessions'[s] # None => s <= issued'
    BY DEF IdsIssued, Quiet, RowsKept
  <2>2. \A s \in Sids :
          redirects'[s] # None => s <= issued' /\ redirects'[s].to <= issued'
    BY DEF IdsIssued, Quiet, RedirectsKept
  <2>3. ASSUME NEW r \in Requests, req'[r] # None
        PROVE  /\ req'[r].new <= issued'
               /\ req'[r].pc \in Validated => req'[r].sid <= issued'
    <3>1. CASE GoesOn(r)
      BY <3>1 DEF GoesOn, IdsIssued, Quiet
    <3>2. issued \in Nat /\ 0 <= issued
      BY ConstantsAssumption DEF TypeOK
    <3>3. CASE Arrived(r)
      BY <3>2, <3>3 DEF Arrived, Quiet
    <3>4. CASE Checked(r)
      BY <3>2, <3>4 DEF Checked, IdsIssued, Quiet
    <3>. QED
      BY <2>3, <3>1, <3>3, <3>4 DEF Quiet
  <2>. QED
    BY <2>1, <2>2, <2>3 DEF IdsIssued
<1>4. FreshIds'
  <2>. SUFFICES ASSUME NEW r \in Requests, req'[r] # None, req'[r].pc \in PendingPcs
                PROVE  /\ sessions'[req'[r].new] = None
                       /\ redirects'[req'[r].new] = None
                       /\ \A s \in Sids :
                            redirects'[s] # None => redirects'[s].to # req'[r].new
                       /\ \A q \in Requests \ {r} :
                            req'[q] # None => req'[q].new # req'[r].new
                       /\ \A q \in Requests :
                            req'[q] # None /\ req'[q].pc \in Validated
                            => req'[q].sid # req'[r].new
    BY DEF FreshIds
  <2>1. GoesOn(r)
    BY DEF Quiet, Arrived, Checked, PendingPcs, WithNew
  <2>2. req[r] # None /\ req[r].pc \in PendingPcs /\ req'[r].new = req[r].new
    BY <2>1 DEF GoesOn
  <2>3. req[r].new \in Sids /\ req[r].new # 0
    BY <1>0, <2>2, FlightFields, SidsPositive DEF PendingPcs, WithNew
  <2>4. sessions'[req'[r].new] = None /\ redirects'[req'[r].new] = None
    BY <2>2, <2>3 DEF FreshIds, Quiet, RowsKept, RedirectsKept
  <2>5. \A s \in Sids : redirects'[s] # None => redirects'[s].to # req'[r].new
    BY <2>2 DEF FreshIds, Quiet, RedirectsKept
  <2>6. \A q \in Requests \ {r} : req'[q] # None => req'[q].new # req'[r].new
    BY <2>2, <2>3 DEF FreshIds, Quiet, GoesOn, Arrived, Checked
  <2>7. ASSUME NEW q \in Requests, req'[q] # None, req'[q].pc \in Validated
        PROVE  req'[q].sid # req'[r].new
    <3>1. CASE GoesOn(q)
      BY <2>2, <2>7, <3>1 DEF FreshIds, GoesOn
    <3>2. CASE Checked(q)
      BY <2>2, <3>2 DEF FreshIds, Checked
    <3>. QED
      BY <2>7, <3>1, <3>2 DEF Quiet, Arrived
  <2>. QED
    BY <2>4, <2>5, <2>6, <2>7
<1>5. NewOwner'
  <2>. SUFFICES ASSUME NEW r \in Requests, req'[r] # None,
                       req'[r].pc = "addredirect", sessions'[req'[r].new] # None
                PROVE  sessions'[req'[r].new].owner = req'[r].owner
    BY DEF NewOwner
  <2>1. GoesOn(r)
    BY DEF Quiet, Arrived, Checked, WithNew
  <2>2. req[r].new \in Sids
    BY <1>0, <2>1, FlightFields DEF GoesOn, WithNew
  <2>. QED
    BY <2>1, <2>2 DEF GoesOn, NewOwner, Quiet, RowsKept
<1>. QED
  BY <1>1, <1>2, <1>3, <1>4, <1>5
\* Opening a session: its id is new, so nothing refers to it.
LEMMA OpenLocalStep ==
  ASSUME IInv, TypeOK', NEW r \in Requests, NEW pc \in PendingPcs,
         req[r] # None, OpenLocal(r, pc), UNCHANGED tables,
         pc = "reregister" => req[r].pc = "reinit"
  PROVE  IInv'
<1>. USE DEF IInv
<1>0. /\ issued \in Nat /\ issued' = issued + 1 /\ issued' \in Sids
      /\ sessions' = sessions /\ redirects' = redirects
      /\ req'[r] # None /\ req'[r].new = issued + 1 /\ req'[r].pc = pc
      /\ req'[r].sid = req[r].sid /\ req'[r].owner = req[r].owner
      /\ \A q \in Requests \ {r} : req'[q] = req[q]
  <2>1. req[r] \in Flight /\ req'[r] = [req[r] EXCEPT !.pc = pc, !.new = issued + 1]
    BY DEF TypeOK, OpenLocal
  <2>2. issued \in Nat /\ issued' = issued + 1 /\ issued' \in Sids
    BY ConstantsAssumption DEF TypeOK, OpenLocal, Sids
  <2>3. req'[r] # None
    <3>1. pc \notin {"initialize", "register"} => req[r].sid # 0
      BY FlightFields, SidsPositive DEF PendingPcs
    <3>. QED
      BY <3>1, NoneAssumption, OpenLocalType DEF PendingPcs, Pcs
  <2>. QED
    BY <2>1, <2>2, <2>3 DEF TypeOK, OpenLocal, tables, Flight
<1>1. RedirectOwner'
  BY <1>0 DEF RedirectOwner
<1>2. ValidatedOwner'
  BY <1>0 DEF ValidatedOwner, Validated, PendingPcs
<1>3. IdsIssued'
  <2>1. \A q \in Requests : req[q] # None => req[q].new \in Nat /\ req[q].sid \in Nat
    BY FlightFields, SidsPositive
  <2>2. \A s \in Sids :
          s \in Nat /\ (redirects[s] # None => redirects[s].to \in Nat)
    BY SidsPositive DEF TypeOK, RedirectRow
  <2>3. \A s \in Sids : sessions'[s] # None => s <= issued'
    <3>. SUFFICES ASSUME NEW s \in Sids, sessions[s] # None
                  PROVE  s <= issued + 1
      BY <1>0
    <3>1. s <= issued
      BY DEF IdsIssued
    <3>2. s \in Nat /\ issued \in Nat
      BY <1>0, <2>2
    <3>. QED
      BY <3>1, <3>2
  <2>4. \A s \in Sids :
          redirects'[s] # None => s <= issued' /\ redirects'[s].to <= issued'
    <3>. SUFFICES ASSUME NEW s \in Sids, redirects[s] # None
                  PROVE  s <= issued + 1 /\ redirects[s].to <= issued + 1
      BY <1>0
    <3>1. s <= issued /\ redirects[s].to <= issued
      BY DEF IdsIssued
    <3>2. s \in Nat /\ redirects[s].to \in Nat /\ issued \in Nat
      BY <1>0, <2>2
    <3>. QED
      BY <3>1, <3>2
  <2>5. ASSUME NEW q \in Requests, req'[q] # None
        PROVE  /\ req'[q].new <= issued'
               /\ req'[q].pc \in Validated => req'[q].sid <= issued'
    <3>1. CASE q = r
      <4>1. req'[q].new <= issued'
        BY <1>0, <3>1
      <4>2. req'[q].pc \in Validated => req[q].pc \in Validated
        BY <1>0, <3>1 DEF Validated, PendingPcs
      <4>3. req[q].pc \in Validated => req[q].sid <= issued
        BY <3>1 DEF IdsIssued
      <4>. QED
        BY <1>0, <2>1, <3>1, <4>1, <4>2, <4>3
    <3>2. CASE q # r
      <4>1. req'[q] = req[q] /\ req[q] # None
        BY <1>0, <2>5, <3>2
      <4>2. req[q].new <= issued /\ (req[q].pc \in Validated => req[q].sid <= issued)
        BY <4>1 DEF IdsIssued
      <4>. QED
        BY <1>0, <2>1, <4>1, <4>2
    <3>. QED
      BY <3>1, <3>2
  <2>. QED
    BY <2>3, <2>4, <2>5 DEF IdsIssued
<1>4. FreshIds'
  <2>1. sessions[issued + 1] = None /\ redirects[issued + 1] = None
    BY <1>0 DEF IdsIssued
  <2>2. \A s \in Sids : redirects[s] # None => redirects[s].to # issued + 1
    BY <1>0, SidsPositive DEF IdsIssued, TypeOK, RedirectRow
  <2>3. \A q \in Requests : req[q] # None => req[q].new # issued + 1
    BY <1>0, FlightFields, SidsPositive DEF IdsIssued
  <2>4. \A q \in Requests :
          req[q] # None /\ req[q].pc \in Validated => req[q].sid # issued + 1
    BY <1>0, FlightFields, SidsPositive DEF IdsIssued
  <2>5. pc \in Validated => req[r].pc \in Validated
    BY DEF PendingPcs, Validated
  <2>6. \A q \in Requests :
          req'[q] # None /\ req'[q].pc \in Validated
          => req[q] # None /\ req[q].pc \in Validated /\ req'[q].sid = req[q].sid
    BY <1>0, <2>5
  <2>. SUFFICES ASSUME NEW p \in Requests, req'[p] # None, req'[p].pc \in PendingPcs
                PROVE  /\ sessions'[req'[p].new] = None
                       /\ redirects'[req'[p].new] = None
                       /\ \A s \in Sids :
                            redirects'[s] # None => redirects'[s].to # req'[p].new
                       /\ \A q \in Requests \ {p} :
                            req'[q] # None => req'[q].new # req'[p].new
                       /\ \A q \in Requests :
                            req'[q] # None /\ req'[q].pc \in Validated
                            => req'[q].sid # req'[p].new
    BY DEF FreshIds
  <2>7. CASE p = r
    BY <1>0, <2>1, <2>2, <2>3, <2>4, <2>6, <2>7
  <2>8. CASE p # r
    BY <1>0, <2>3, <2>6, <2>8 DEF FreshIds
  <2>. QED
    BY <2>7, <2>8
<1>5. NewOwner'
  BY <1>0 DEF NewOwner, PendingPcs
<1>. QED
  BY <1>1, <1>2, <1>3, <1>4, <1>5

\* Registering: the row is the request's owner's, and no redirect leads to it.
LEMMA RegisterStep ==
  ASSUME IInv, TypeOK', NEW r \in Requests,
         req[r] # None, req[r].pc \in PendingPcs,
         sessions' = RegisterRow(req[r].new, req[r].owner),
         redirects' = redirects, issued' = issued,
         Finish(r) \/ (req[r].pc = "reregister" /\ Goto(r, "addredirect"))
  PROVE  IInv'
<1>. USE DEF IInv
<1>0. /\ req[r].new \in Sids
      /\ sessions'[req[r].new] = [owner |-> req[r].owner, left |-> TTL]
      /\ \A s \in Sids \ {req[r].new} : sessions'[s] = sessions[s]
  BY FlightFields DEF TypeOK, RegisterRow, PendingPcs, WithNew
<1>1. /\ \A q \in Requests \ {r} : req'[q] = req[q]
      /\ req'[r] # None
         => /\ req[r].pc = "reregister" /\ req'[r].pc = "addredirect"
            /\ req'[r].sid = req[r].sid /\ req'[r].new = req[r].new
            /\ req'[r].owner = req[r].owner
  BY FlightFields DEF TypeOK, Finish, Goto, Flight
<1>2. RedirectOwner'
  <2>. SUFFICES ASSUME NEW s \in Sids, redirects[s] # None
                PROVE  (sessions'[s] # None /\ sessions'[redirects[s].to] # None)
                       => sessions'[s].owner = sessions'[redirects[s].to].owner
    BY DEF RedirectOwner
  <2>1. s # req[r].new /\ redirects[s].to # req[r].new
    BY DEF FreshIds
  <2>2. redirects[s].to \in Sids
    BY DEF TypeOK, RedirectRow
  <2>3. sessions'[s] = sessions[s] /\ sessions'[redirects[s].to] = sessions[redirects[s].to]
    BY <1>0, <2>1, <2>2
  <2>. QED
    BY <2>3 DEF RedirectOwner
<1>3. ValidatedOwner'
  <2>. SUFFICES ASSUME NEW q \in Requests, req'[q] # None,
                       req'[q].pc \in Validated, sessions'[req'[q].sid] # None
                PROVE  sessions'[req'[q].sid].owner = req'[q].owner
    BY DEF ValidatedOwner
  <2>1. /\ req[q] # None /\ req[q].pc \in Validated
        /\ req'[q].sid = req[q].sid /\ req'[q].owner = req[q].owner
    BY <1>1 DEF Validated
  <2>2. req[q].sid \in Sids /\ req[q].sid # req[r].new
    BY <2>1, FlightFields DEF FreshIds, Validated
  <2>. QED
    BY <1>0, <2>1, <2>2 DEF ValidatedOwner
<1>4. IdsIssued'
  BY <1>0, <1>1 DEF IdsIssued, Validated
<1>5. FreshIds'
  <2>. SUFFICES ASSUME NEW p \in Requests, req'[p] # None, req'[p].pc \in PendingPcs
                PROVE  /\ sessions'[req'[p].new] = None
                       /\ redirects'[req'[p].new] = None
                       /\ \A s \in Sids :
                            redirects'[s] # None => redirects'[s].to # req'[p].new
                       /\ \A q \in Requests \ {p} :
                            req'[q] # None => req'[q].new # req'[p].new
                       /\ \A q \in Requests :
                            req'[q] # None /\ req'[q].pc \in Validated
                            => req'[q].sid # req'[p].new
    BY DEF FreshIds
  <2>1. p # r /\ req'[p] = req[p]
    BY <1>1 DEF PendingPcs
  <2>2. req[p].new \in Sids /\ req[p].new # req[r].new
    BY <2>1, FlightFields DEF FreshIds, PendingPcs, WithNew
  <2>. QED
    BY <1>0, <1>1, <2>1, <2>2 DEF FreshIds, Validated
<1>6. NewOwner'
  <2>. SUFFICES ASSUME NEW q \in Requests, req'[q] # None,
                       req'[q].pc = "addredirect", sessions'[req'[q].new] # None
                PROVE  sessions'[req'[q].new].owner = req'[q].owner
    BY DEF NewOwner
  <2>1. CASE q = r
    BY <1>0, <1>1, <2>1
  <2>2. CASE q # r
    <3>1. req'[q] = req[q] /\ req[q].new \in Sids /\ req[q].new # req[r].new
      BY <1>1, <2>2, FlightFields DEF FreshIds, WithNew
    <3>. QED
      BY <1>0, <3>1 DEF NewOwner
  <2>. QED
    BY <2>1, <2>2
<1>. QED
  BY <1>2, <1>3, <1>4, <1>5, <1>6

\* Storing a redirect: both ends belong to the request's owner.
LEMMA RedirectStep ==
  ASSUME IInv, TypeOK', NEW r \in Requests,
         req[r] # None, req[r].pc = "addredirect",
         sessions' = sessions, issued' = issued,
         redirects' = AddRedirectRow(req[r].sid, req[r].new),
         Goto(r, "invalidate")
  PROVE  IInv'
<1>. USE DEF IInv
<1>0. /\ req[r].new \in Sids /\ req[r].sid \in Sids
      /\ redirects'[req[r].sid] = [to |-> req[r].new, left |-> Grace]
      /\ \A s \in Sids \ {req[r].sid} : redirects'[s] = redirects[s]
  BY FlightFields DEF TypeOK, AddRedirectRow, WithNew
<1>1. /\ \A q \in Requests \ {r} : req'[q] = req[q]
      /\ req'[r].pc = "invalidate"
      /\ req'[r].sid = req[r].sid /\ req'[r].new = req[r].new
      /\ req'[r].owner = req[r].owner
  BY FlightFields DEF TypeOK, Goto, Flight
<1>2. RedirectOwner'
  BY <1>0 DEF RedirectOwner, NewOwner, ValidatedOwner, Validated
<1>3. ValidatedOwner'
  BY <1>0, <1>1 DEF ValidatedOwner, Validated
<1>4. IdsIssued'
  <2>1. req[r].new <= issued /\ req[r].sid <= issued
    BY DEF IdsIssued, Validated
  <2>. QED
    BY <1>0, <1>1, <2>1 DEF IdsIssued, Validated
<1>5. FreshIds'
  <2>. SUFFICES ASSUME NEW p \in Requests, req'[p] # None, req'[p].pc \in PendingPcs
                PROVE  /\ sessions'[req'[p].new] = None
                       /\ redirects'[req'[p].new] = None
                       /\ \A s \in Sids :
                            redirects'[s] # None => redirects'[s].to # req'[p].new
                       /\ \A q \in Requests \ {p} :
                            req'[q] # None => req'[q].new # req'[p].new
                       /\ \A q \in Requests :
                            req'[q] # None /\ req'[q].pc \in Validated
                            => req'[q].sid # req'[p].new
    BY DEF FreshIds
  <2>1. p # r /\ req'[p] = req[p]
    BY <1>1 DEF PendingPcs
  <2>2. /\ req[p].new \in Sids /\ req[p].new # req[r].new
        /\ req[p].new # req[r].sid
    BY <2>1, FlightFields DEF FreshIds, PendingPcs, WithNew, Validated
  <2>. QED
    BY <1>0, <1>1, <2>1, <2>2 DEF FreshIds, Validated
<1>6. NewOwner'
  BY <1>1 DEF NewOwner
<1>. QED
  BY <1>2, <1>3, <1>4, <1>5, <1>6
\* Which statements keep rows and redirects.
LEMMA StatementsKeepRows ==
  ASSUME TypeOK
  PROVE  /\ \A s \in Sids :
              sessions' \in {sessions, TouchRow(s), InvalidateRow(s)} => RowsKept
         /\ sessions' \in {Purged(sessions), Aged(sessions)} => RowsKept
         /\ redirects' \in {redirects, Purged(redirects), Aged(redirects)}
            => RedirectsKept
         /\ \A s \in Sids : redirects' = DeleteRedirectsTo(s) => RedirectsKept
<1>1. ASSUME NEW s \in Sids, sessions' \in {sessions, TouchRow(s), InvalidateRow(s)}
      PROVE  RowsKept
  <2>1. CASE sessions' = sessions
    BY <2>1 DEF RowsKept
  <2>2. CASE sessions' = TouchRow(s)
    BY <2>2 DEF TypeOK, TouchRow, Live, RowsKept, SessionRow
  <2>3. CASE sessions' = InvalidateRow(s)
    BY <2>3 DEF TypeOK, InvalidateRow, RowsKept, SessionRow
  <2>. QED
    BY <1>1, <2>1, <2>2, <2>3
<1>2. ASSUME sessions' \in {Purged(sessions), Aged(sessions)}
      PROVE  RowsKept
  BY <1>2, ConstantsAssumption DEF TypeOK, Purged, Aged, Less, RowsKept, SessionRow
<1>3. ASSUME redirects' \in {redirects, Purged(redirects), Aged(redirects)}
      PROVE  RedirectsKept
  BY <1>3 DEF TypeOK, Purged, Aged, RedirectsKept, RedirectRow
<1>4. ASSUME NEW s \in Sids, redirects' = DeleteRedirectsTo(s)
      PROVE  RedirectsKept
  BY <1>4 DEF TypeOK, DeleteRedirectsTo, RedirectsKept, RedirectRow
<1>. QED
  BY <1>1, <1>2, <1>3, <1>4

\* A finished request is gone and the others go on.
LEMMA FinishMoves ==
  ASSUME TypeOK, NEW r \in Requests, Finish(r), NEW q \in Requests, req'[q] # None
  PROVE  GoesOn(q)
BY DEF TypeOK, Finish, GoesOn

\* Going on to a point that registers nothing is a quiet move.
LEMMA GotoMoves ==
  ASSUME TypeOK, NEW r \in Requests, req[r] # None, NEW pc, Goto(r, pc),
         pc \in Validated => req[r].pc \in Validated,
         pc \notin PendingPcs \cup {"addredirect"},
         NEW q \in Requests, req'[q] # None
  PROVE  GoesOn(q)
BY FlightFields DEF TypeOK, Goto, GoesOn, Flight

\* An arriving request has passed no check yet.
LEMMA ArriveMoves ==
  ASSUME TypeOK, NEW r \in Requests, NEW n, NEW o, NEW s, NEW pc,
         Arrive(r, n, o, s, pc), pc \notin Validated \cup WithNew,
         NEW q \in Requests, req'[q] # None
  PROVE  GoesOn(q) \/ Arrived(q)
BY DEF TypeOK, Arrive, GoesOn, Arrived

\* A request gets past the owner check only with its own owner's row.
LEMMA ValidateMoves ==
  ASSUME TypeOK, NEW r \in Requests, NEW n, NEW o, NEW s \in Sids,
         Validate(r, n, o, s), NEW q \in Requests, req'[q] # None
  PROVE  GoesOn(q) \/ Checked(q)
<1>1. CASE Finish(r)
  BY <1>1, FinishMoves
<1>2. CASE Live(s) /\ sessions[s].owner = o /\ Arrive(r, n, o, s, "call")
  BY <1>2 DEF TypeOK, Arrive, GoesOn, Checked, Live
<1>. QED
  BY <1>1, <1>2 DEF Validate
\* The cleanup threads, the restarts and the clock are quiet.
LEMMA QuietEnvironment ==
  ASSUME TypeOK, (\E n \in Nodes : Cleanup(n) \/ Restart(n)) \/ Tick
  PROVE  Quiet
<1>1. ASSUME NEW n \in Nodes, Cleanup(n)
      PROVE  Quiet
  <2>1. RowsKept /\ RedirectsKept
    BY <1>1, StatementsKeepRows DEF Cleanup, tables, RowsKept, RedirectsKept
  <2>. QED
    BY <1>1, <2>1 DEF Cleanup, Quiet, GoesOn
<1>2. ASSUME NEW n \in Nodes, Restart(n)
      PROVE  Quiet
  BY <1>2 DEF Restart, Quiet, RowsKept, RedirectsKept, tables, GoesOn
<1>3. CASE Tick
  <2>1. RowsKept /\ RedirectsKept
    BY <1>3, StatementsKeepRows DEF Tick
  <2>. QED
    BY <1>3, <2>1 DEF Tick, Quiet, GoesOn
<1>. QED
  BY <1>1, <1>2, <1>3

\* The steps of the handlers that register nothing and store no redirect
\* are quiet.
LEMMA QuietSteps ==
  ASSUME TypeOK,
         NEW r \in Requests,
         \/ \E n \in Nodes, o \in Owners :
              \/ Initialize(r, n, o)
              \/ \E s \in Sids : Subsequent(r, n, o, s) \/ Terminate(r, n, o, s)
         \/ RedirectLookup(r) \/ TargetLookup(r) \/ CallApp(r) \/ Touch(r)
         \/ ReinitInvalidate(r) \/ Replay(r)
         \/ TerminateApp(r) \/ TerminateInvalidate(r) \/ TerminateRedirects(r)
  PROVE  Quiet
<1>. DEFINE Moves == \A q \in Requests :
                       req'[q] # None => GoesOn(q) \/ Arrived(q) \/ Checked(q)
<1>1. ASSUME NEW n \in Nodes, NEW o \in Owners, Initialize(r, n, o)
      PROVE  Quiet
  <2>1. Moves
    BY <1>1, ArriveMoves DEF Initialize, Validated, WithNew
  <2>. QED
    BY <1>1, <2>1 DEF Initialize, Quiet, RowsKept, RedirectsKept, tables
<1>2. ASSUME NEW n \in Nodes, NEW o \in Owners, NEW s \in Sids, Subsequent(r, n, o, s)
      PROVE  Quiet
  <2>1. Moves
    <3>1. CASE Validate(r, n, o, s)
      BY <3>1, ValidateMoves
    <3>2. CASE Arrive(r, n, o, s, "redirect")
      BY <3>2, ArriveMoves DEF Validated, WithNew
    <3>. QED
      BY <1>2, <3>1, <3>2 DEF Subsequent
  <2>. QED
    BY <1>2, <2>1 DEF Subsequent, Quiet, RowsKept, RedirectsKept, tables
<1>3. ASSUME NEW n \in Nodes, NEW o \in Owners, NEW s \in Sids, Terminate(r, n, o, s)
      PROVE  Quiet
  <2>1. Moves
    BY <1>3, ArriveMoves DEF Terminate, Validated, WithNew
  <2>. QED
    BY <1>3, <2>1 DEF Terminate, Quiet, RowsKept, RedirectsKept, tables
<1>4. CASE RedirectLookup(r)
  <2>1. Moves
    <3>1. ASSUME Arrive(r, req[r].node, req[r].owner, redirects[req[r].sid].to, "target")
          PROVE  Moves
      BY <3>1, ArriveMoves DEF Validated, WithNew
    <3>2. CASE Finish(r)
      BY <3>2, FinishMoves
    <3>. QED
      BY <1>4, <3>1, <3>2 DEF RedirectLookup
  <2>. QED
    BY <1>4, <2>1 DEF RedirectLookup, Quiet, RowsKept, RedirectsKept, tables
<1>5. CASE TargetLookup(r)
  <2>1. Moves
    <3>0. req[r].sid \in Sids
      BY <1>5, FlightFields DEF TargetLookup, At
    <3>1. CASE Validate(r, req[r].node, req[r].owner, req[r].sid)
      BY <3>0, <3>1, ValidateMoves
    <3>2. CASE Finish(r)
      BY <3>2, FinishMoves
    <3>. QED
      BY <1>5, <3>1, <3>2 DEF TargetLookup
  <2>. QED
    BY <1>5, <2>1 DEF TargetLookup, Quiet, RowsKept, RedirectsKept, tables
<1>6. CASE CallApp(r)
  <2>1. Moves
    BY <1>6, FinishMoves, GotoMoves DEF CallApp, At, Validated, PendingPcs
  <2>. QED
    BY <1>6, <2>1 DEF CallApp, Quiet, RowsKept, RedirectsKept, tables
<1>7. CASE Touch(r)
  <2>1. Moves
    BY <1>7, FinishMoves DEF Touch
  <2>2. req[r].sid \in Sids
    BY <1>7, FlightFields DEF Touch, At
  <2>3. RowsKept /\ RedirectsKept
    BY <1>7, <2>2, StatementsKeepRows DEF Touch
  <2>. QED
    BY <1>7, <2>1, <2>3 DEF Touch, Quiet
<1>8. CASE ReinitInvalidate(r)
  <2>1. Moves
    BY <1>8, FinishMoves, GotoMoves DEF ReinitInvalidate, At, Validated, PendingPcs
  <2>2. req[r].sid \in Sids
    BY <1>8, FlightFields DEF ReinitInvalidate, At
  <2>3. RowsKept /\ RedirectsKept
    BY <1>8, <2>2, StatementsKeepRows DEF ReinitInvalidate
  <2>. QED
    BY <1>8, <2>1, <2>3 DEF ReinitInvalidate, Quiet
<1>9. CASE Replay(r)
  <2>1. Moves
    BY <1>9, FinishMoves DEF Replay
  <2>. QED
    BY <1>9, <2>1 DEF Replay, Quiet, RowsKept, RedirectsKept, tables
<1>10. CASE TerminateApp(r)
  <2>1. Moves
    BY <1>10, GotoMoves DEF TerminateApp, At, Validated, PendingPcs
  <2>. QED
    BY <1>10, <2>1 DEF TerminateApp, Quiet, RowsKept, RedirectsKept, tables
<1>11. CASE TerminateInvalidate(r)
  <2>1. Moves
    BY <1>11, FinishMoves, GotoMoves DEF TerminateInvalidate, At, Validated, PendingPcs
  <2>2. req[r].sid \in Sids
    BY <1>11, FlightFields DEF TerminateInvalidate, At
  <2>3. RowsKept /\ RedirectsKept
    BY <1>11, <2>2, StatementsKeepRows DEF TerminateInvalidate
  <2>. QED
    BY <1>11, <2>1, <2>3 DEF TerminateInvalidate, Quiet
<1>12. CASE TerminateRedirects(r)
  <2>1. Moves
    BY <1>12, FinishMoves DEF TerminateRedirects
  <2>2. req[r].sid \in Sids
    BY <1>12, FlightFields DEF TerminateRedirects, At
  <2>3. RowsKept /\ RedirectsKept
    BY <1>12, <2>2, StatementsKeepRows DEF TerminateRedirects
  <2>. QED
    BY <1>12, <2>1, <2>3 DEF TerminateRedirects, Quiet
<1>. QED
  BY <1>1, <1>2, <1>3, <1>4, <1>5, <1>6, <1>7, <1>8, <1>9, <1>10, <1>11, <1>12

\* The ownership invariant holds at the start.
LEMMA InitIInv == Init => IInv
BY InitType, ConstantsAssumption
DEF Init, IInv, RedirectOwner, ValidatedOwner, IdsIssued, FreshIds, NewOwner

\* Every step keeps the ownership invariant.
LEMMA NextIInv == IInv /\ [Next]_vars => IInv'
<1>. SUFFICES ASSUME IInv, [Next]_vars
              PROVE  IInv'
  OBVIOUS
<1>0. TypeOK /\ TypeOK'
  BY NextType DEF IInv
<1>1. CASE UNCHANGED vars
  BY <1>1 DEF vars, IInv, TypeOK, RedirectOwner, ValidatedOwner, IdsIssued,
     FreshIds, NewOwner
<1>2. CASE Quiet
  BY <1>0, <1>2, QuietStep
<1>3. ASSUME NEW r \in Requests, InitializeApp(r)
      PROVE  IInv'
  <2>1. CASE OpenLocal(r, "register")
    BY <1>0, <1>3, <2>1, OpenLocalStep DEF InitializeApp, At, PendingPcs
  <2>2. CASE Finish(r) /\ UNCHANGED <<issued, local, known>>
    <3>1. Quiet
      BY <1>0, <1>3, <2>2, FinishMoves
      DEF InitializeApp, Quiet, RowsKept, RedirectsKept, tables
    <3>. QED
      BY <1>2, <3>1
  <2>. QED
    BY <1>3, <2>1, <2>2 DEF InitializeApp
<1>4. ASSUME NEW r \in Requests, RegisterSession(r)
      PROVE  IInv'
  <2>. req[r] # None /\ req[r].pc = "register"
    BY <1>4 DEF RegisterSession, At
  <2>1. CASE sessions' = RegisterRow(req[r].new, req[r].owner)
    BY <1>0, <1>4, <2>1, RegisterStep DEF RegisterSession, PendingPcs
  <2>2. CASE sessions' = sessions
    <3>1. Quiet
      BY <1>0, <1>4, <2>2, FinishMoves
      DEF RegisterSession, Quiet, RowsKept, RedirectsKept
    <3>. QED
      BY <1>2, <3>1
  <2>. QED
    BY <1>4, <2>1, <2>2 DEF RegisterSession
<1>5. ASSUME NEW r \in Requests, ReinitApp(r)
      PROVE  IInv'
  <2>1. CASE OpenLocal(r, "reregister")
    BY <1>0, <1>5, <2>1, OpenLocalStep DEF ReinitApp, At, PendingPcs
  <2>2. CASE Finish(r) /\ UNCHANGED <<issued, local>>
    <3>1. Quiet
      BY <1>0, <1>5, <2>2, FinishMoves
      DEF ReinitApp, Quiet, RowsKept, RedirectsKept, tables
    <3>. QED
      BY <1>2, <3>1
  <2>. QED
    BY <1>5, <2>1, <2>2 DEF ReinitApp
<1>6. ASSUME NEW r \in Requests, ReinitRegister(r)
      PROVE  IInv'
  <2>. req[r] # None /\ req[r].pc = "reregister"
    BY <1>6 DEF ReinitRegister, At
  <2>1. CASE sessions' = RegisterRow(req[r].new, req[r].owner) /\ Goto(r, "addredirect")
    BY <1>0, <1>6, <2>1, RegisterStep DEF ReinitRegister, PendingPcs
  <2>2. CASE sessions' = sessions /\ Finish(r)
    <3>1. Quiet
      BY <1>0, <1>6, <2>2, FinishMoves
      DEF ReinitRegister, Quiet, RowsKept, RedirectsKept
    <3>. QED
      BY <1>2, <3>1
  <2>. QED
    BY <1>6, <2>1, <2>2 DEF ReinitRegister
<1>7. ASSUME NEW r \in Requests, ReinitRedirect(r)
      PROVE  IInv'
  <2>. req[r] # None /\ req[r].pc = "addredirect"
    BY <1>7 DEF ReinitRedirect, At
  <2>1. CASE redirects' = AddRedirectRow(req[r].sid, req[r].new) /\ Goto(r, "invalidate")
    BY <1>0, <1>7, <2>1, RedirectStep DEF ReinitRedirect
  <2>2. CASE redirects' = redirects /\ Finish(r)
    <3>1. Quiet
      BY <1>0, <1>7, <2>2, FinishMoves
      DEF ReinitRedirect, Quiet, RowsKept, RedirectsKept
    <3>. QED
      BY <1>2, <3>1
  <2>. QED
    BY <1>7, <2>1, <2>2 DEF ReinitRedirect
<1>. QED
  BY <1>0, <1>1, <1>2, <1>3, <1>4, <1>5, <1>6, <1>7, QuietSteps, QuietEnvironment
  DEF Next, Handler

\* A redirect never leads from one owner's session to another's: the owner
\* check of _handle_subsequent protects the redirect _reinitialize writes
\* several awaits and transactions later.
THEOREM RedirectsKeepOwner == Spec => []RedirectOwner
<1>1. IInv => RedirectOwner
  BY DEF IInv
<1>. QED
  BY <1>1, InitIInv, NextIInv, PTL DEF Spec

\* From the owner check to the end of a request, the session it acts for is
\* its own owner's.
THEOREM RequestsStayWithOwner == Spec => []ValidatedOwner
<1>1. IInv => ValidatedOwner
  BY DEF IInv
<1>. QED
  BY <1>1, InitIInv, NextIInv, PTL DEF Spec
---------------------------------------------------------------------------
(* SessionRegistry implements SessionLifecycle. *)

\* Pending ids stay pending or are done with, in a quiet step.
LEMMA QuietPending ==
  ASSUME Quiet, NEW s \in Sids, Pending(s)'
  PROVE  Pending(s)
BY SidsPositive DEF Quiet, Pending, GoesOn, Arrived, Checked, PendingPcs, WithNew

\* In a quiet step every id keeps its holder or dies.
LEMMA QuietRetires ==
  ASSUME IInv, Quiet
  PROVE  \E S \in SUBSET Sids : Lifecycle!Retire(S)
<1>. DEFINE Gone == {s \in Sids : Holder'[s] = "dead"}
<1>1. ASSUME NEW s \in Sids, Holder'[s] # "dead"
      PROVE  Holder'[s] = Holder[s]
  <2>1. CASE Live(s)'
    BY <2>1 DEF Holder, Live, Quiet, RowsKept
  <2>2. CASE ~Live(s)'
    <3>1. s > issued' \/ Pending(s)'
      BY <1>1, <2>2 DEF Holder
    <3>2. s > issued \/ Pending(s)
      BY <3>1, QuietPending DEF Quiet
    <3>3. sessions[s] = None
      BY <3>2, SidsPositive, ConstantsAssumption
      DEF IInv, IdsIssued, FreshIds, Pending, PendingPcs, TypeOK
    <3>. QED
      BY <2>2, <3>1, <3>2, <3>3 DEF Holder, Live
  <2>. QED
    BY <2>1, <2>2
<1>2. Holder' = [s \in Sids |-> IF s \in Gone THEN "dead" ELSE Holder[s]]
  BY <1>1 DEF Holder
<1>. QED
  BY <1>2 DEF Lifecycle!Retire
\* A step that changes no row and no pending id changes no holder.
LEMMA SameHolder ==
  ASSUME sessions' = sessions,
         \A s \in Sids : (s > issued \/ Pending(s))' <=> (s > issued \/ Pending(s))
  PROVE  Holder' = Holder
BY DEF Holder, Live

\* Opening a session in FastMCP's memory leaves its id fresh.
LEMMA OpenLocalHolder ==
  ASSUME IInv, TypeOK', NEW r \in Requests, NEW pc \in PendingPcs,
         req[r] # None, req[r].pc \notin PendingPcs,
         pc = "reregister" => req[r].pc = "reinit",
         OpenLocal(r, pc), UNCHANGED tables
  PROVE  Holder' = Holder
<1>1. /\ issued \in Nat /\ issued' = issued + 1
      /\ req'[r] # None /\ req'[r].new = issued + 1 /\ req'[r].pc = pc
      /\ \A q \in Requests \ {r} : req'[q] = req[q]
  <2>1. req[r] \in Flight /\ req'[r] = [req[r] EXCEPT !.pc = pc, !.new = issued + 1]
    BY DEF IInv, TypeOK, OpenLocal
  <2>2. req'[r] # None
    <3>1. pc \notin {"initialize", "register"} => req[r].sid # 0
      BY FlightFields, SidsPositive DEF PendingPcs, IInv
    <3>. QED
      BY <3>1, NoneAssumption, OpenLocalType DEF PendingPcs, Pcs, IInv
  <2>. QED
    BY <2>1, <2>2, ConstantsAssumption DEF IInv, TypeOK, OpenLocal, Flight
<1>2. ASSUME NEW s \in Sids
      PROVE  (s > issued \/ Pending(s))' <=> (s > issued \/ Pending(s))
  <2>1. Pending(s)' <=> Pending(s) \/ s = issued + 1
    BY <1>1 DEF Pending, PendingPcs
  <2>. QED
    BY <1>1, <2>1, SidsPositive
<1>. QED
  BY <1>2, SameHolder DEF tables

\* Registering gives a fresh id to the request's owner.
LEMMA RegisterHolder ==
  ASSUME IInv, TypeOK', NEW r \in Requests,
         req[r] # None, req[r].pc \in PendingPcs,
         sessions' = RegisterRow(req[r].new, req[r].owner), issued' = issued,
         Finish(r) \/ (req[r].pc = "reregister" /\ Goto(r, "addredirect"))
  PROVE  \E s \in Sids, o \in Owners : Lifecycle!Register(s, o)
<1>1. /\ req[r].new \in Sids /\ req[r].owner \in Owners
      /\ sessions'[req[r].new] = [owner |-> req[r].owner, left |-> TTL]
      /\ \A s \in Sids \ {req[r].new} : sessions'[s] = sessions[s]
  BY FlightFields DEF IInv, TypeOK, RegisterRow, PendingPcs, WithNew
<1>2. /\ \A q \in Requests \ {r} : req'[q] = req[q]
      /\ req'[r] # None => req'[r].pc = "addredirect"
  BY FlightFields DEF IInv, TypeOK, Finish, Goto, Flight
<1>3. Holder[req[r].new] = "fresh"
  <2>1. sessions[req[r].new] = None /\ Pending(req[r].new)
    BY DEF IInv, FreshIds, Pending, PendingPcs
  <2>. QED
    BY <1>1, <2>1 DEF Holder, Live
<1>4. Holder'[req[r].new] = req[r].owner
  <2>1. sessions'[req[r].new] # None
    <3>1. [owner |-> req[r].owner, left |-> TTL] \in SessionRow
      BY <1>1, ConstantsAssumption DEF SessionRow
    <3>. QED
      BY <1>1, <3>1, NoneAssumption
  <2>. QED
    BY <1>1, <2>1, ConstantsAssumption DEF Holder, Live
<1>5. ASSUME NEW s \in Sids \ {req[r].new}
      PROVE  Holder'[s] = Holder[s]
  <2>1. Pending(s)' <=> Pending(s)
    BY <1>2 DEF Pending, PendingPcs
  <2>. QED
    BY <1>1, <2>1 DEF Holder, Live
<1>6. Holder' = [Holder EXCEPT ![req[r].new] = req[r].owner]
  <2>1. /\ Holder = [s \in Sids |-> Holder[s]]
        /\ Holder' = [s \in Sids |-> Holder'[s]]
    BY DEF Holder
  <2>. QED
    BY <1>1, <1>4, <1>5, <2>1
<1>. QED
  BY <1>1, <1>3, <1>6 DEF Lifecycle!Register

\* Storing a redirect changes no holder.
LEMMA RedirectHolder ==
  ASSUME IInv, NEW r \in Requests, req[r] # None, req[r].pc = "addredirect",
         sessions' = sessions, issued' = issued, Goto(r, "invalidate")
  PROVE  Holder' = Holder
<1>1. /\ \A q \in Requests \ {r} : req'[q] = req[q]
      /\ req'[r].pc = "invalidate"
  BY FlightFields DEF IInv, TypeOK, Goto, Flight
<1>2. \A s \in Sids : Pending(s)' <=> Pending(s)
  BY <1>1 DEF Pending
<1>. QED
  BY <1>2, SameHolder

\* Every step of the registry is a step of the lifecycle or leaves all
\* holders alone.
LEMMA NextLifecycle == IInv /\ [Next]_vars => [Lifecycle!Next]_Holder
<1>. SUFFICES ASSUME IInv, [Next]_vars
              PROVE  [Lifecycle!Next]_Holder
  OBVIOUS
<1>0. TypeOK /\ TypeOK'
  BY NextType DEF IInv
<1>1. CASE UNCHANGED vars
  <2>1. Holder' = Holder
    BY <1>1 DEF vars, Holder, Live, Pending
  <2>. QED
    BY <2>1
<1>2. ASSUME Quiet
      PROVE  Lifecycle!Next
  BY <1>2, QuietRetires DEF Lifecycle!Next
<1>3. ASSUME NEW r \in Requests, InitializeApp(r)
      PROVE  [Lifecycle!Next]_Holder
  <2>1. CASE OpenLocal(r, "register")
    BY <1>0, <1>3, <2>1, OpenLocalHolder DEF InitializeApp, At, PendingPcs
  <2>2. CASE Finish(r) /\ UNCHANGED <<issued, local, known>>
    <3>1. Quiet
      BY <1>0, <1>3, <2>2, FinishMoves
      DEF InitializeApp, Quiet, RowsKept, RedirectsKept, tables
    <3>. QED
      BY <1>2, <3>1
  <2>. QED
    BY <1>3, <2>1, <2>2 DEF InitializeApp
<1>4. ASSUME NEW r \in Requests, RegisterSession(r)
      PROVE  Lifecycle!Next
  <2>. req[r] # None /\ req[r].pc = "register"
    BY <1>4 DEF RegisterSession, At
  <2>1. CASE sessions' = RegisterRow(req[r].new, req[r].owner)
    BY <1>0, <1>4, <2>1, RegisterHolder
    DEF RegisterSession, PendingPcs, Lifecycle!Next
  <2>2. CASE sessions' = sessions
    <3>1. Quiet
      BY <1>0, <1>4, <2>2, FinishMoves
      DEF RegisterSession, Quiet, RowsKept, RedirectsKept
    <3>. QED
      BY <1>2, <3>1
  <2>. QED
    BY <1>4, <2>1, <2>2 DEF RegisterSession
<1>5. ASSUME NEW r \in Requests, ReinitApp(r)
      PROVE  [Lifecycle!Next]_Holder
  <2>1. CASE OpenLocal(r, "reregister")
    BY <1>0, <1>5, <2>1, OpenLocalHolder DEF ReinitApp, At, PendingPcs
  <2>2. CASE Finish(r) /\ UNCHANGED <<issued, local>>
    <3>1. Quiet
      BY <1>0, <1>5, <2>2, FinishMoves
      DEF ReinitApp, Quiet, RowsKept, RedirectsKept, tables
    <3>. QED
      BY <1>2, <3>1
  <2>. QED
    BY <1>5, <2>1, <2>2 DEF ReinitApp
<1>6. ASSUME NEW r \in Requests, ReinitRegister(r)
      PROVE  Lifecycle!Next
  <2>. req[r] # None /\ req[r].pc = "reregister"
    BY <1>6 DEF ReinitRegister, At
  <2>1. CASE sessions' = RegisterRow(req[r].new, req[r].owner) /\ Goto(r, "addredirect")
    BY <1>0, <1>6, <2>1, RegisterHolder
    DEF ReinitRegister, PendingPcs, Lifecycle!Next
  <2>2. CASE sessions' = sessions /\ Finish(r)
    <3>1. Quiet
      BY <1>0, <1>6, <2>2, FinishMoves
      DEF ReinitRegister, Quiet, RowsKept, RedirectsKept
    <3>. QED
      BY <1>2, <3>1
  <2>. QED
    BY <1>6, <2>1, <2>2 DEF ReinitRegister
<1>7. ASSUME NEW r \in Requests, ReinitRedirect(r)
      PROVE  [Lifecycle!Next]_Holder
  <2>. req[r] # None /\ req[r].pc = "addredirect"
    BY <1>7 DEF ReinitRedirect, At
  <2>1. CASE redirects' = AddRedirectRow(req[r].sid, req[r].new) /\ Goto(r, "invalidate")
    BY <1>0, <1>7, <2>1, RedirectHolder DEF ReinitRedirect
  <2>2. CASE redirects' = redirects /\ Finish(r)
    <3>1. Quiet
      BY <1>0, <1>7, <2>2, FinishMoves
      DEF ReinitRedirect, Quiet, RowsKept, RedirectsKept
    <3>. QED
      BY <1>2, <3>1
  <2>. QED
    BY <1>7, <2>1, <2>2 DEF ReinitRedirect
<1>. QED
  BY <1>0, <1>1, <1>2, <1>3, <1>4, <1>5, <1>6, <1>7, QuietSteps, QuietEnvironment
  DEF Next, Handler

\* Every id is fresh at the start.
LEMMA InitLifecycle == Init => Lifecycle!Init
<1>. SUFFICES ASSUME Init PROVE Lifecycle!Init
  OBVIOUS
<1>1. ASSUME NEW s \in Sids
      PROVE  Holder[s] = "fresh"
  BY ConstantsAssumption DEF Init, Holder, Live, Sids
<1>. QED
  BY <1>1 DEF Lifecycle!Init, Holder

\* The registry implements the lifecycle: no interleaving of touches,
\* invalidations, registrations, cleanups, failures and restarts revives a
\* dead session or hands a live one to another owner.
THEOREM RegistryImplementsLifecycle == Spec => ImplementsLifecycle
<1>1. Spec => []IInv
  BY InitIInv, NextIInv, PTL DEF Spec
<1>. QED
  BY <1>1, InitLifecycle, NextLifecycle, PTL
  DEF Spec, ImplementsLifecycle, Lifecycle!Spec

---------------------------------------------------------------------------
(* Debounced touches.  With a database that answers, DebounceCoversTTL is  *)
(* inductive by itself.                                                    *)

\* A row that a step leaves live was live before with no more time left, or
\* has its whole time again.
RowsFull ==
  \A s \in Sids :
    Live(s)' => sessions'[s].left = TTL
                \/ (Live(s) /\ sessions'[s].left = sessions[s].left)

\* Such a step keeps the property if it leaves the debounces alone.
LEMMA DebounceKept ==
  ASSUME DebounceCoversTTL, TypeOK, TypeOK', RowsFull, touchWait' = touchWait
  PROVE  DebounceCoversTTL'
<1>. SUFFICES ASSUME NEW n \in Nodes, NEW s \in Sids, Live(s)', touchWait[n][s] > 0
              PROVE  sessions'[s].left + (TouchDebounce - touchWait[n][s]) >= TTL
  BY DEF DebounceCoversTTL
<1>1. touchWait[n][s] \in 0..TouchDebounce
  BY DEF TypeOK
<1>2. CASE sessions'[s].left = TTL
  BY <1>1, <1>2, ConstantsAssumption
<1>3. CASE Live(s) /\ sessions'[s].left = sessions[s].left
  BY <1>3 DEF DebounceCoversTTL
<1>. QED
  BY <1>2, <1>3 DEF RowsFull

\* The statements of the handlers and of the cleanup leave such rows.
LEMMA StatementsFill ==
  ASSUME TypeOK
  PROVE  /\ sessions' = sessions => RowsFull
         /\ \A s \in Sids, o \in Owners : sessions' = RegisterRow(s, o) => RowsFull
         /\ \A s \in Sids : sessions' \in {TouchRow(s), InvalidateRow(s)} => RowsFull
         /\ sessions' = Purged(sessions) => RowsFull
<1>1. ASSUME sessions' = sessions PROVE RowsFull
  BY <1>1 DEF RowsFull, Live
<1>2. ASSUME NEW s \in Sids, NEW o \in Owners, sessions' = RegisterRow(s, o)
      PROVE  RowsFull
  BY <1>2 DEF RowsFull, Live, RegisterRow, TypeOK
<1>3. ASSUME NEW s \in Sids, sessions' = TouchRow(s) PROVE RowsFull
  BY <1>3 DEF RowsFull, Live, TouchRow, TypeOK, SessionRow
<1>4. ASSUME NEW s \in Sids, sessions' = InvalidateRow(s) PROVE RowsFull
  BY <1>4 DEF RowsFull, Live, InvalidateRow, TypeOK, SessionRow
<1>5. ASSUME sessions' = Purged(sessions) PROVE RowsFull
  BY <1>5 DEF RowsFull, Live, Purged, TypeOK
<1>. QED
  BY <1>1, <1>2, <1>3, <1>4, <1>5

\* A touch that happens fills the row for the debounce it arms.
LEMMA TouchCovers ==
  ASSUME DebounceCoversTTL, TypeOK, TypeOK', ~DbMayFail,
         NEW r \in Requests, Touch(r)
  PROVE  DebounceCoversTTL'
<1>. DEFINE m == req[r].node
            x == req[r].sid
<1>1. m \in Nodes /\ x \in Sids
  BY FlightFields DEF Touch, At
<1>2. CASE touchWait[m][x] > 0
  BY <1>2, DebounceKept, StatementsFill DEF Touch
<1>3. CASE ~(touchWait[m][x] > 0)
  <2>1. /\ touchWait' = [touchWait EXCEPT ![m][x] = TouchDebounce]
        /\ sessions' = TouchRow(x)
    BY <1>3 DEF Touch, DbOutcomes
  <2>. HIDE DEF m, x
  <2>. SUFFICES ASSUME NEW n \in Nodes, NEW s \in Sids, Live(s)', touchWait'[n][s] > 0
                PROVE  sessions'[s].left + (TouchDebounce - touchWait'[n][s]) >= TTL
    BY DEF DebounceCoversTTL
  <2>2. touchWait'[n][s] \in 0..TouchDebounce
    BY DEF TypeOK
  <2>3. CASE s = x
    <3>1. sessions'[s].left = TTL
      BY <1>1, <2>1, <2>3 DEF TypeOK, TouchRow, Live, SessionRow
    <3>. QED
      BY <2>2, <3>1, ConstantsAssumption
  <2>4. CASE s # x
    <3>1. sessions'[s] = sessions[s]
      BY <1>1, <2>1, <2>4 DEF TypeOK, TouchRow
    <3>2. touchWait'[n][s] = touchWait[n][s]
      BY <1>1, <2>1, <2>4 DEF TypeOK
    <3>. QED
      BY <3>1, <3>2 DEF DebounceCoversTTL, Live
  <2>. QED
    BY <2>3, <2>4
<1>. QED
  BY <1>2, <1>3

\* Rows and debounces age together.
LEMMA TickCovers ==
  ASSUME DebounceCoversTTL, TypeOK, TypeOK', Tick
  PROVE  DebounceCoversTTL'
<1>. SUFFICES ASSUME NEW n \in Nodes, NEW s \in Sids, Live(s)', touchWait'[n][s] > 0
              PROVE  sessions'[s].left + (TouchDebounce - touchWait'[n][s]) >= TTL
  BY DEF DebounceCoversTTL
<1>1. touchWait[n][s] \in 0..TouchDebounce /\ touchWait'[n][s] = Less(touchWait[n][s])
  BY DEF Tick, TypeOK
<1>2. sessions[s] # None /\ sessions[s] \in SessionRow
      /\ sessions'[s] = [sessions[s] EXCEPT !.left = Less(@)]
  BY DEF Tick, TypeOK, Aged, Live
<1>3. sessions'[s].left = Less(sessions[s].left) /\ sessions[s].left \in 0..TTL
  BY <1>2 DEF SessionRow
<1>4. /\ touchWait[n][s] > 0 /\ touchWait'[n][s] = touchWait[n][s] - 1
      /\ sessions[s].left > 0 /\ sessions'[s].left = sessions[s].left - 1
  BY <1>1, <1>3, ConstantsAssumption DEF Less, Live
<1>5. sessions[s].left + (TouchDebounce - touchWait[n][s]) >= TTL
  BY <1>2, <1>4 DEF DebounceCoversTTL, Live
<1>. QED
  BY <1>1, <1>3, <1>4, <1>5, ConstantsAssumption

\* With a database that answers, every step keeps the property.
LEMMA DebounceNext ==
  ASSUME ~DbMayFail, TypeOK, DebounceCoversTTL, [Next]_vars
  PROVE  DebounceCoversTTL'
<1>0. TypeOK'
  BY NextType
<1>. HIDE DEF DebounceCoversTTL
<1>1. CASE UNCHANGED <<sessions, touchWait>>
  BY <1>0, <1>1, DebounceKept, StatementsFill
<1>2. CASE touchWait' = touchWait /\ RowsFull
  BY <1>0, <1>2, DebounceKept
<1>3. ASSUME NEW r \in Requests, RegisterSession(r) \/ ReinitRegister(r)
      PROVE  DebounceCoversTTL'
  <2>1. req[r].new \in Sids /\ req[r].owner \in Owners
    BY <1>3, FlightFields DEF RegisterSession, ReinitRegister, At, WithNew
  <2>. QED
    BY <1>2, <1>3, <2>1, StatementsFill DEF RegisterSession, ReinitRegister
<1>4. ASSUME NEW r \in Requests, ReinitInvalidate(r) \/ TerminateInvalidate(r)
      PROVE  DebounceCoversTTL'
  <2>1. req[r].sid \in Sids
    BY <1>4, FlightFields DEF ReinitInvalidate, TerminateInvalidate, At
  <2>. QED
    BY <1>2, <1>4, <2>1, StatementsFill DEF ReinitInvalidate, TerminateInvalidate
<1>5. ASSUME NEW n \in Nodes, Cleanup(n)
      PROVE  DebounceCoversTTL'
  BY <1>2, <1>5, StatementsFill DEF Cleanup, tables
<1>6. ASSUME NEW n \in Nodes, Restart(n)
      PROVE  DebounceCoversTTL'
  BY <1>6 DEF Restart, DebounceCoversTTL, tables, TypeOK, Live
<1>7. ASSUME NEW r \in Requests, Handler(r)
      PROVE  DebounceCoversTTL'
  BY <1>0, <1>1, <1>3, <1>4, <1>7, TouchCovers
  DEF Handler, InitializeApp, RedirectLookup, TargetLookup, CallApp, ReinitApp,
      ReinitRedirect, Replay, TerminateApp, TerminateRedirects, tables
<1>8. ASSUME NEW r \in Requests, NEW n \in Nodes, NEW o \in Owners,
             \/ Initialize(r, n, o)
             \/ \E s \in Sids : Subsequent(r, n, o, s) \/ Terminate(r, n, o, s)
      PROVE  DebounceCoversTTL'
  BY <1>1, <1>8 DEF Initialize, Subsequent, Terminate, tables
<1>. QED
  BY <1>0, <1>1, <1>5, <1>6, <1>7, <1>8, TickCovers DEF Next, vars

\* As long as the database answers, the touches a node skips never let an
\* active session run out: whatever the other nodes do with it, its row has
\* lost no more than the time since the node last touched it.
THEOREM DebounceKeepsAlive ==
  ASSUME ~DbMayFail
  PROVE  Spec => []DebounceCoversTTL
<1>1. Init => DebounceCoversTTL
  BY DEF Init, DebounceCoversTTL, Live
<1>2. TypeOK /\ DebounceCoversTTL /\ [Next]_vars => DebounceCoversTTL'
  BY DebounceNext
<1>. QED
  BY <1>1, <1>2, TypeCorrect, PTL DEF Spec

---------------------------------------------------------------------------
(* Chains of redirects.  ChainIntact is not inductive: a redirect must not *)
(* outlive what it leads to, the row a re-initialization has registered    *)
(* must be untouched when the redirect to it is written, and for that no   *)
(* client, no redirect and no other request may know its id.               *)

RotationPcs == {"reregister", "addredirect"}
TerminatePcs == {"terminate", "term_invalidate", "term_redirects"}

NoDelete == \A r \in Requests : req[r] # None => req[r].pc \notin TerminatePcs

\* Clients, redirects and requests hold ids FastMCP has handed out.
IdsKnown ==
  /\ issued \in Nat
  /\ \A s \in known : s <= issued
  /\ \A s \in Sids : redirects[s] # None => redirects[s].to <= issued
  /\ \A q \in Requests : req[q] # None => req[q].sid <= issued /\ req[q].new <= issued

\* Nothing but request r holds the id t.
HiddenFrom(r, t) ==
  /\ t \notin known
  /\ \A s \in Sids : redirects[s] # None => redirects[s].to # t
  /\ \A q \in Requests : req[q] # None => req[q].sid # t
  /\ \A q \in Requests \ {r} : req[q] # None => req[q].new # t

HiddenIds ==
  \A r \in Requests :
    req[r] # None /\ req[r].pc \in RotationPcs => HiddenFrom(r, req[r].new)

\* The row just registered and the redirect just written have their whole time.
FullRows ==
  \A r \in Requests : req[r] # None =>
    /\ req[r].pc = "addredirect" =>
         sessions[req[r].new] # None /\ sessions[req[r].new].left = TTL
    /\ req[r].pc = "invalidate" /\ Grace > 0 =>
         redirects[req[r].sid] # None /\ redirects[req[r].sid].left = Grace

\* What a redirect leads to has at least the time the redirect has.
Outlasts(t, left) ==
  \/ sessions[t] # None /\ sessions[t].left >= left
  \/ redirects[t] # None /\ redirects[t].left >= left

ChainLeft == \A s \in Sids : Redirected(s) => Outlasts(redirects[s].to, redirects[s].left)

CInv == TypeOK /\ NoDelete /\ IdsKnown /\ HiddenIds /\ FullRows /\ ChainLeft

\* The assumptions: nobody deletes sessions, and a session outlasts a redirect.
ChainAssumption == "delete" \notin Methods /\ TTL >= Grace

\* Where an id a step brings into circulation comes from: it circulated before,
\* or it is the new id of a request that has written its redirect.
Circulates(t) ==
  \/ t = 0 \/ t \in known
  \/ \E s \in Sids : redirects[s] # None /\ t = redirects[s].to
  \/ \E q \in Requests : req[q] # None /\ t = req[q].sid
  \/ \E q \in Requests : req[q] # None /\ req[q].pc \in WithNew \ RotationPcs /\ t = req[q].new
  \/ \E q \in Requests :
       /\ req[q] # None /\ req[q].pc \in WithNew /\ t = req[q].new
       /\ req'[q] = None \/ req'[q].pc \notin RotationPcs

\* A request that has no new id, or kept it and did not step back.
Proceeds(q) ==
  \/ req'[q].new = 0 /\ req'[q].pc \notin WithNew
  \/ /\ req[q] # None /\ req'[q].new = req[q].new
     /\ req'[q].pc \in RotationPcs => req[q].pc \in RotationPcs

Spreads ==
  /\ issued' = issued
  /\ \A t \in known' : Circulates(t)
  /\ \A s \in Sids : redirects'[s] # None => Circulates(redirects'[s].to)
  /\ \A q \in Requests : req'[q] # None => Circulates(req'[q].sid) /\ Proceeds(q)

\* A hidden id does not circulate.
LEMMA HiddenStays ==
  ASSUME CInv, TypeOK', NEW r \in Requests, req[r] # None, req[r].pc \in RotationPcs,
         req'[r] # None, req'[r].pc \in RotationPcs
  PROVE  ~Circulates(req[r].new)
<1>1. HiddenFrom(r, req[r].new) /\ req[r].new # 0
  BY FlightFields, SidsPositive DEF CInv, HiddenIds, RotationPcs, WithNew
<1>. QED
  BY <1>1 DEF Circulates, HiddenFrom

\* What circulates has been handed out.
LEMMA CirculatesIssued ==
  ASSUME CInv, NEW t, Circulates(t)
  PROVE  t <= issued
BY DEF CInv, IdsKnown, Circulates

\* A step that spreads only circulating ids keeps the hidden ones hidden.
LEMMA SpreadStep ==
  ASSUME CInv, TypeOK', Spreads
  PROVE  IdsKnown' /\ HiddenIds'
<1>1. IdsKnown'
  <2>1. /\ \A s \in known' : s <= issued
        /\ \A s \in Sids : redirects'[s] # None => redirects'[s].to <= issued
        /\ \A q \in Requests : req'[q] # None => req'[q].sid <= issued
    BY CirculatesIssued DEF Spreads
  <2>2. \A q \in Requests : req'[q] # None => req'[q].new <= issued
    BY DEF Spreads, Proceeds, CInv, IdsKnown
  <2>. QED
    BY <2>1, <2>2 DEF IdsKnown, Spreads, CInv
<1>2. HiddenIds'
  <2>. SUFFICES ASSUME NEW r \in Requests, req'[r] # None, req'[r].pc \in RotationPcs
                PROVE  /\ req'[r].new \notin known'
                       /\ \A s \in Sids : redirects'[s] # None => redirects'[s].to # req'[r].new
                       /\ \A q \in Requests : req'[q] # None => req'[q].sid # req'[r].new
                       /\ \A q \in Requests \ {r} : req'[q] # None => req'[q].new # req'[r].new
    BY DEF HiddenIds, HiddenFrom
  <2>1. /\ req[r] # None /\ req'[r].new = req[r].new /\ req[r].pc \in RotationPcs
    BY DEF Spreads, Proceeds, RotationPcs, WithNew
  <2>2. ~Circulates(req[r].new)
    BY <2>1, HiddenStays
  <2>3. req[r].new # 0
    BY <2>1, FlightFields, SidsPositive DEF CInv, RotationPcs, WithNew
  <2>4. \A q \in Requests \ {r} : req'[q] # None => req'[q].new # req'[r].new
    BY <2>1, <2>3 DEF Spreads, Proceeds, CInv, HiddenIds, HiddenFrom
  <2>. QED
    BY <2>1, <2>2, <2>4 DEF Spreads
<1>. QED
  BY <1>1, <1>2

\* No live row and no unexpired redirect loses time, and no redirect is new.
Keeps ==
  /\ \A s \in Sids :
       Live(s) => sessions'[s] # None /\ sessions'[s].left >= sessions[s].left
  /\ \A s \in Sids : Redirected(s) => redirects'[s] = redirects[s]
  /\ \A s \in Sids : redirects'[s] # None => redirects'[s] = redirects[s]

\* The statements of the handlers and of the cleanup keep in this sense.
LEMMA StatementsKeep ==
  ASSUME TypeOK
  PROVE  /\ UNCHANGED tables => Keeps
         /\ \A s \in Sids, o \in Owners :
              sessions' = RegisterRow(s, o) /\ redirects' = redirects => Keeps
         /\ \A s \in Sids : sessions' = TouchRow(s) /\ redirects' = redirects => Keeps
         /\ sessions' = Purged(sessions) /\ redirects' = Purged(redirects) => Keeps
<1>0. \A s \in Sids : sessions[s] # None => sessions[s].left \in 0..TTL
  BY DEF TypeOK, SessionRow
<1>1. ASSUME UNCHANGED tables PROVE Keeps
  BY <1>0, <1>1, ConstantsAssumption DEF Keeps, tables, Live, Redirected
<1>2. ASSUME NEW s \in Sids, NEW o \in Owners,
             sessions' = RegisterRow(s, o), redirects' = redirects
      PROVE  Keeps
  <2>1. sessions'[s] = [owner |-> o, left |-> TTL] /\ sessions'[s] # None
    <3>1. [owner |-> o, left |-> TTL] \in SessionRow
      BY ConstantsAssumption DEF SessionRow
    <3>. QED
      BY <1>2, <3>1, NoneAssumption DEF TypeOK, RegisterRow
  <2>2. \A t \in Sids \ {s} : sessions'[t] = sessions[t]
    BY <1>2 DEF TypeOK, RegisterRow
  <2>. QED
    BY <1>0, <1>2, <2>1, <2>2, ConstantsAssumption DEF Keeps, Live, Redirected
<1>3. ASSUME NEW s \in Sids, sessions' = TouchRow(s), redirects' = redirects
      PROVE  Keeps
  <2>1. CASE Live(s)
    <3>1. sessions'[s] = [sessions[s] EXCEPT !.left = TTL] /\ sessions[s] \in SessionRow
      BY <1>3, <2>1 DEF TypeOK, TouchRow, Live
    <3>2. sessions'[s].left = TTL /\ sessions'[s] \in SessionRow
      BY <3>1, ConstantsAssumption DEF SessionRow
    <3>3. \A t \in Sids \ {s} : sessions'[t] = sessions[t]
      BY <1>3, <2>1 DEF TypeOK, TouchRow
    <3>. QED
      BY <1>0, <1>3, <3>2, <3>3, NoneAssumption, ConstantsAssumption
      DEF Keeps, Live, Redirected
  <2>2. CASE ~Live(s)
    BY <1>1, <1>3, <2>2 DEF TouchRow, tables
  <2>. QED
    BY <2>1, <2>2
<1>4. ASSUME sessions' = Purged(sessions), redirects' = Purged(redirects)
      PROVE  Keeps
  <2>1. \A s \in Sids : Live(s) => sessions'[s] = sessions[s]
    BY <1>0, <1>4 DEF Purged, Live
  <2>2. \A s \in Sids : Redirected(s) => redirects'[s] = redirects[s]
    BY <1>4 DEF Purged, Redirected
  <2>3. \A s \in Sids : redirects'[s] # None => redirects'[s] = redirects[s]
    BY <1>4 DEF Purged
  <2>. QED
    BY <1>0, <2>1, <2>2, <2>3 DEF Keeps, Live
<1>. QED
  BY <1>1, <1>2, <1>3, <1>4

\* Such a step breaks no chain.
LEMMA KeepsChain ==
  ASSUME CInv, TypeOK', Keeps
  PROVE  ChainLeft'
<1>. DEFINE Lasts(x, n) == (sessions'[x] # None /\ sessions'[x].left >= n)
                          \/ (redirects'[x] # None /\ redirects'[x].left >= n)
<1>. SUFFICES ASSUME NEW s \in Sids, redirects'[s] # None, redirects'[s].left > 0
              PROVE  Lasts(redirects'[s].to, redirects'[s].left)
  BY DEF ChainLeft, Redirected, Outlasts
<1>1. redirects'[s] = redirects[s] /\ Redirected(s)
  <2>1. redirects'[s] = redirects[s]
    BY DEF Keeps
  <2>. QED
    BY <2>1 DEF Redirected
<1>. DEFINE t == redirects[s].to
            left == redirects[s].left
<1>2. t \in Sids /\ left \in 0..Grace /\ left > 0
  BY <1>1 DEF CInv, TypeOK, RedirectRow, Redirected
<1>3. Outlasts(t, left)
  BY <1>1 DEF CInv, ChainLeft
<1>. HIDE DEF t, left
<1>4. CASE sessions[t] # None /\ sessions[t].left >= left
  <2>1. sessions[t].left \in 0..TTL
    BY <1>2, <1>4 DEF CInv, TypeOK, SessionRow
  <2>2. Live(t)
    BY <1>2, <1>4, <2>1, ConstantsAssumption DEF Live
  <2>3. sessions'[t] # None /\ sessions'[t].left >= sessions[t].left
    BY <1>2, <2>2 DEF Keeps
  <2>4. sessions'[t].left \in 0..TTL
    BY <1>2, <2>3 DEF TypeOK, SessionRow
  <2>5. sessions'[t].left >= left
    BY <1>2, <1>4, <2>1, <2>3, <2>4, ConstantsAssumption
  <2>6. Lasts(t, left)
    BY <2>3, <2>5
  <2>. QED
    BY <1>1, <2>6 DEF t, left
<1>5. CASE redirects[t] # None /\ redirects[t].left >= left
  <2>1. redirects[t].left \in 0..Grace
    BY <1>2, <1>5 DEF CInv, TypeOK, RedirectRow
  <2>2. Redirected(t)
    BY <1>2, <1>5, <2>1, ConstantsAssumption DEF Redirected
  <2>3. redirects'[t] = redirects[t]
    BY <1>2, <2>2 DEF Keeps
  <2>. QED
    BY <1>1, <1>5, <2>3 DEF t, left
<1>. QED
  BY <1>3, <1>4, <1>5 DEF Outlasts

\* A request that stays where it is, or moves outside the critical points.
CalmMove(q) ==
  \/ req'[q] = req[q]
  \/ /\ Circulates(req'[q].sid) /\ Proceeds(q)
     /\ req'[q].pc \notin {"addredirect", "invalidate"} \cup TerminatePcs

\* A request between the transactions of its re-initialization stays there
\* with the rows it has written.
LEMMA CriticalKept ==
  ASSUME CInv, TypeOK', Keeps, NEW q \in Requests, req'[q] # None, req'[q] = req[q]
  PROVE  /\ req'[q].pc = "addredirect" =>
              sessions'[req'[q].new] # None /\ sessions'[req'[q].new].left = TTL
         /\ req'[q].pc = "invalidate" /\ Grace > 0 =>
              redirects'[req'[q].sid] # None /\ redirects'[req'[q].sid].left = Grace
<1>1. ASSUME req'[q].pc = "addredirect"
      PROVE  sessions'[req'[q].new] # None /\ sessions'[req'[q].new].left = TTL
  <2>1. req[q].new \in Sids
    BY <1>1, FlightFields DEF CInv, WithNew
  <2>2. sessions[req[q].new] # None /\ sessions[req[q].new].left = TTL
    BY <1>1 DEF CInv, FullRows
  <2>3. sessions'[req[q].new] # None /\ sessions'[req[q].new].left >= TTL
    BY <2>1, <2>2, ConstantsAssumption DEF Keeps, Live
  <2>4. sessions'[req[q].new].left \in 0..TTL
    BY <2>1, <2>3 DEF TypeOK, SessionRow
  <2>. QED
    BY <2>3, <2>4, ConstantsAssumption
<1>2. ASSUME req'[q].pc = "invalidate", Grace > 0
      PROVE  redirects'[req'[q].sid] # None /\ redirects'[req'[q].sid].left = Grace
  <2>1. req[q].sid \in Sids
    BY <1>2, FlightFields DEF CInv
  <2>2. redirects[req[q].sid] # None /\ redirects[req[q].sid].left = Grace
    BY <1>2 DEF CInv, FullRows
  <2>. QED
    BY <1>2, <2>1, <2>2 DEF Keeps, Redirected
<1>. QED
  BY <1>1, <1>2

\* Steps that keep the tables and move a request in this sense.
LEMMA CalmStep ==
  ASSUME CInv, TypeOK', Keeps, issued' = issued,
         \A t \in known' : Circulates(t),
         \A q \in Requests : req'[q] # None => CalmMove(q)
  PROVE  CInv'
<1>1. Spreads
  <2>1. \A s \in Sids : redirects'[s] # None => Circulates(redirects'[s].to)
    BY DEF Keeps, Circulates
  <2>2. ASSUME NEW q \in Requests, req'[q] # None
        PROVE  Circulates(req'[q].sid) /\ Proceeds(q)
    BY <2>2 DEF CalmMove, Circulates, Proceeds
  <2>. QED
    BY <2>1, <2>2 DEF Spreads
<1>2. NoDelete'
  BY DEF CalmMove, NoDelete, CInv
<1>3. FullRows'
  <2>. SUFFICES ASSUME NEW q \in Requests, req'[q] # None
                PROVE  /\ req'[q].pc = "addredirect" =>
                            sessions'[req'[q].new] # None /\ sessions'[req'[q].new].left = TTL
                       /\ req'[q].pc = "invalidate" /\ Grace > 0 =>
                            redirects'[req'[q].sid] # None /\ redirects'[req'[q].sid].left = Grace
    BY DEF FullRows
  <2>1. CASE req'[q] = req[q]
    BY <2>1, CriticalKept
  <2>2. CASE req'[q].pc \notin {"addredirect", "invalidate"}
    BY <2>2
  <2>. QED
    BY <2>1, <2>2 DEF CalmMove
<1>. QED
  BY <1>1, <1>2, <1>3, SpreadStep, KeepsChain DEF CInv

\* FastMCP opens a session: nobody can know the id yet.
LEMMA OpenStep ==
  ASSUME CInv, TypeOK', UNCHANGED tables, NEW r \in Requests, req[r] # None,
         req[r].pc \in {"initialize", "reinit"}, NEW pc \in {"register", "reregister"},
         OpenLocal(r, pc), pc = "reregister" => req[r].pc = "reinit",
         known' \subseteq known \cup {issued'}, pc = "reregister" => known' = known
  PROVE  CInv'
<1>1. /\ issued' = issued + 1 /\ issued \in Nat
      /\ req'[r] # None /\ req'[r].sid = req[r].sid
      /\ req'[r].new = issued + 1 /\ req'[r].pc = pc
      /\ \A q \in Requests \ {r} : req'[q] = req[q]
  <2>1. req[r] \in Flight /\ req'[r] = [req[r] EXCEPT !.pc = pc, !.new = issued + 1]
    BY DEF CInv, TypeOK, OpenLocal
  <2>2. req'[r] # None
    <3>1. pc \notin {"initialize", "register"} => req[r].sid # 0
      BY FlightFields, SidsPositive DEF CInv
    <3>. QED
      BY <3>1, NoneAssumption, OpenLocalType DEF CInv, Pcs
  <2>. QED
    BY <2>1, <2>2, ConstantsAssumption DEF CInv, TypeOK, OpenLocal, Flight
<1>2. /\ sessions' = sessions /\ redirects' = redirects
      /\ \A s \in known : s <= issued /\ s \in Nat
      /\ \A s \in Sids : redirects[s] # None =>
           redirects[s].to <= issued /\ redirects[s].to \in Nat
      /\ \A q \in Requests : req[q] # None =>
           /\ req[q].sid <= issued /\ req[q].new <= issued
           /\ req[q].sid \in Nat /\ req[q].new \in Nat
  <2>1. /\ sessions' = sessions /\ redirects' = redirects
        /\ \A s \in known : s <= issued
        /\ \A s \in Sids : redirects[s] # None => redirects[s].to <= issued
        /\ \A q \in Requests : req[q] # None => req[q].sid <= issued /\ req[q].new <= issued
    BY DEF CInv, IdsKnown, tables
  <2>2. \A s \in known : s \in Nat
    BY SidsPositive DEF CInv, TypeOK
  <2>3. \A s \in Sids : redirects[s] # None => redirects[s].to \in Nat
    BY SidsPositive DEF CInv, TypeOK, RedirectRow
  <2>4. \A q \in Requests : req[q] # None => req[q].sid \in Nat /\ req[q].new \in Nat
    BY SidsPositive, FlightFields DEF CInv
  <2>. QED
    BY <2>1, <2>2, <2>3, <2>4
<1>3. IdsKnown'
  BY <1>1, <1>2 DEF IdsKnown
<1>4. HiddenIds'
  <2>. SUFFICES ASSUME NEW q \in Requests, req'[q] # None, req'[q].pc \in RotationPcs
                PROVE  /\ req'[q].new \notin known'
                       /\ \A s \in Sids : redirects'[s] # None => redirects'[s].to # req'[q].new
                       /\ \A p \in Requests : req'[p] # None => req'[p].sid # req'[q].new
                       /\ \A p \in Requests \ {q} : req'[p] # None => req'[p].new # req'[q].new
    BY DEF HiddenIds, HiddenFrom
  <2>1. CASE q = r
    <3>1. known' = known /\ req'[q].new = issued + 1
      BY <1>1, <2>1 DEF RotationPcs
    <3>2. issued + 1 \notin known
      BY <1>1, <1>2
    <3>3. \A s \in Sids : redirects[s] # None => redirects[s].to # issued + 1
      BY <1>1, <1>2
    <3>4. \A p \in Requests : req[p] # None => req[p].sid # issued + 1 /\ req[p].new # issued + 1
      BY <1>1, <1>2
    <3>. QED
      BY <1>1, <1>2, <2>1, <3>1, <3>2, <3>3, <3>4
  <2>2. CASE q # r
    <3>1. req'[q] = req[q] /\ HiddenFrom(q, req[q].new)
      BY <1>1, <2>2 DEF CInv, HiddenIds
    <3>2. req[q].new # issued + 1
      BY <1>1, <1>2, <3>1
    <3>. QED
      BY <1>1, <1>2, <2>2, <3>1, <3>2 DEF HiddenFrom
  <2>. QED
    BY <2>1, <2>2
<1>5. NoDelete'
  BY <1>1 DEF CInv, NoDelete, TerminatePcs
<1>6. FullRows'
  BY <1>1, <1>2 DEF CInv, FullRows
<1>7. ChainLeft'
  BY <1>2 DEF CInv, ChainLeft, Redirected, Outlasts
<1>. QED
  BY <1>3, <1>4, <1>5, <1>6, <1>7 DEF CInv

\* Where a request goes that is answered, goes on or arrives.
LEMMA CalmMoves ==
  ASSUME TypeOK, NEW r \in Requests, NEW q \in Requests, req'[q] # None
  PROVE  /\ Finish(r) => CalmMove(q)
         /\ \A pc \in {"call", "touch", "reinit", "replay"} :
              req[r] # None /\ Goto(r, pc) /\ (pc = "replay" => req[r].pc = "invalidate")
              => CalmMove(q)
         /\ \A n, o, t : \A pc \in {"initialize", "redirect", "target", "call"} :
              Arrive(r, n, o, t, pc) /\ Circulates(t) => CalmMove(q)
<1>1. ASSUME Finish(r) PROVE CalmMove(q)
  BY <1>1 DEF Finish, TypeOK, CalmMove
<1>2. ASSUME NEW pc \in {"call", "touch", "reinit", "replay"}, req[r] # None, Goto(r, pc),
             pc = "replay" => req[r].pc = "invalidate"
      PROVE  CalmMove(q)
  BY <1>2, FlightFields DEF Goto, TypeOK, CalmMove, Circulates, Proceeds, RotationPcs, TerminatePcs, WithNew, Flight
<1>3. ASSUME NEW n, NEW o, NEW t, NEW pc \in {"initialize", "redirect", "target", "call"},
             Arrive(r, n, o, t, pc), Circulates(t)
      PROVE  CalmMove(q)
  <2>1. CASE q = r
    <3>1. req'[q] = [pc |-> pc, node |-> n, owner |-> o, sid |-> t, new |-> 0]
      BY <1>3, <2>1 DEF Arrive, TypeOK
    <3>. QED
      BY <1>3, <3>1 DEF CalmMove, Proceeds, TerminatePcs, WithNew
  <2>2. CASE q # r
    BY <1>3, <2>2 DEF Arrive, TypeOK, CalmMove
  <2>. QED
    BY <2>1, <2>2
<1>. QED
  BY <1>1, <1>2, <1>3

\* The steps that neither open a session nor write rows of a rotation, and the
\* first transaction of none, keep the invariant.
LEMMA CalmHandlers ==
  ASSUME CInv, TypeOK', NEW r \in Requests,
         \/ \E n \in Nodes, o \in Owners :
              Initialize(r, n, o) \/ \E s \in Sids : Subsequent(r, n, o, s)
         \/ RedirectLookup(r) \/ TargetLookup(r) \/ CallApp(r)
  PROVE  CInv'
<1>. DEFINE Moves == \A q \in Requests : req'[q] # None => CalmMove(q)
<1>0. Moves /\ UNCHANGED <<tables, issued, known>> => CInv'
  BY CalmStep, StatementsKeep DEF CInv, Circulates
<1>1. ASSUME NEW n \in Nodes, NEW o \in Owners, Initialize(r, n, o)
      PROVE  CInv'
  <2>1. Arrive(r, n, o, 0, "initialize") /\ Circulates(0)
    BY <1>1 DEF Initialize, Circulates
  <2>2. Moves
    BY <2>1, CalmMoves DEF CInv
  <2>. QED
    BY <1>0, <1>1, <2>2 DEF Initialize
<1>2. ASSUME NEW n \in Nodes, NEW o \in Owners, NEW s \in Sids, Subsequent(r, n, o, s)
      PROVE  CInv'
  <2>1. Circulates(s)
    BY <1>2 DEF Subsequent, Circulates
  <2>2. \/ Arrive(r, n, o, s, "call") \/ Finish(r) \/ Arrive(r, n, o, s, "redirect")
    BY <1>2 DEF Subsequent, Validate
  <2>3. Moves
    BY <2>1, <2>2, CalmMoves DEF CInv
  <2>. QED
    BY <1>0, <1>2, <2>3 DEF Subsequent
<1>3. CASE RedirectLookup(r)
  <2>1. req[r] # None /\ req[r].sid \in Sids
    BY <1>3, FlightFields DEF RedirectLookup, At, CInv
  <2>2. \/ Finish(r)
        \/ /\ Arrive(r, req[r].node, req[r].owner, redirects[req[r].sid].to, "target")
           /\ redirects[req[r].sid] # None
    BY <1>3 DEF RedirectLookup, Redirected
  <2>3. redirects[req[r].sid] # None => Circulates(redirects[req[r].sid].to)
    BY <2>1 DEF Circulates
  <2>4. Moves
    BY <2>2, <2>3, CalmMoves DEF CInv
  <2>. QED
    BY <1>0, <1>3, <2>4 DEF RedirectLookup
<1>4. CASE TargetLookup(r)
  <2>1. Circulates(req[r].sid)
    BY <1>4 DEF TargetLookup, At, Circulates
  <2>2. Finish(r) \/ Arrive(r, req[r].node, req[r].owner, req[r].sid, "call")
    BY <1>4 DEF TargetLookup, Validate
  <2>3. Moves
    BY <2>1, <2>2, CalmMoves DEF CInv
  <2>. QED
    BY <1>0, <1>4, <2>3 DEF TargetLookup
<1>5. CASE CallApp(r)
  <2>1. req[r] # None /\ (Finish(r) \/ Goto(r, "touch") \/ Goto(r, "reinit"))
    BY <1>5 DEF CallApp, At
  <2>2. Moves
    BY <2>1, CalmMoves DEF CInv
  <2>. QED
    BY <1>0, <1>5, <2>2 DEF CallApp
<1>. QED
  BY <1>1, <1>2, <1>3, <1>4, <1>5

\* The steps that end a request.
LEMMA CalmEnds ==
  ASSUME CInv, TypeOK', NEW r \in Requests, req[r] # None, Finish(r), issued' = issued,
         Keeps, known' = known \/ (known' = known \cup {req[r].new} /\ req[r].pc = "replay")
  PROVE  CInv'
<1>1. \A q \in Requests : req'[q] # None => CalmMove(q)
  BY CalmMoves DEF CInv
<1>2. \A t \in known' : Circulates(t)
  BY DEF Circulates, RotationPcs, WithNew
<1>. QED
  BY <1>1, <1>2, CalmStep

\* The first transaction of a rotation: the new row has its whole time.
LEMMA RotationRegisters ==
  ASSUME CInv, TypeOK', NEW r \in Requests, ReinitRegister(r)
  PROVE  CInv'
<1>1. /\ req[r] # None /\ req[r].new \in Sids /\ req[r].owner \in Owners
      /\ req[r].pc = "reregister"
  BY FlightFields DEF ReinitRegister, At, CInv, WithNew
<1>2. CASE Finish(r) /\ sessions' = sessions
  <2>1. Keeps
    BY <1>2, StatementsKeep DEF ReinitRegister, tables, CInv
  <2>. QED
    BY <1>1, <1>2, <2>1, CalmEnds DEF ReinitRegister
<1>3. CASE sessions' = RegisterRow(req[r].new, req[r].owner) /\ Goto(r, "addredirect")
  <2>1. /\ Keeps /\ redirects' = redirects /\ issued' = issued /\ known' = known
    BY <1>1, <1>3, StatementsKeep DEF ReinitRegister, CInv
  <2>2. /\ req'[r] # None /\ req'[r].pc = "addredirect"
        /\ req'[r].sid = req[r].sid /\ req'[r].new = req[r].new
        /\ \A q \in Requests \ {r} : req'[q] = req[q]
    <3>1. req[r] \in Flight /\ req'[r] = [req[r] EXCEPT !.pc = "addredirect"]
      BY <1>1, <1>3 DEF Goto, CInv, TypeOK
    <3>2. req'[r] \in Flight
      BY <1>1, <3>1, FlightFields, SidsPositive DEF Flight, Pcs, WithNew, CInv
    <3>. QED
      BY <1>3, <3>1, <3>2, NoneAssumption DEF Goto, CInv, TypeOK, Flight
  <2>3. Spreads
    <3>1. \A q \in Requests : req'[q] # None => Circulates(req'[q].sid)
      BY <1>1, <2>2 DEF Circulates
    <3>2. \A q \in Requests : req'[q] # None => Proceeds(q)
      BY <1>1, <2>2 DEF Proceeds, RotationPcs
    <3>. QED
      BY <2>1, <3>1, <3>2 DEF Spreads, Circulates
  <2>4. NoDelete'
    BY <2>2 DEF CInv, NoDelete, TerminatePcs
  <2>5. FullRows'
    <3>. SUFFICES ASSUME NEW q \in Requests, req'[q] # None
                  PROVE  /\ req'[q].pc = "addredirect" =>
                              sessions'[req'[q].new] # None /\ sessions'[req'[q].new].left = TTL
                         /\ req'[q].pc = "invalidate" /\ Grace > 0 =>
                              redirects'[req'[q].sid] # None /\ redirects'[req'[q].sid].left = Grace
      BY DEF FullRows
    <3>1. CASE q = r
      <4>1. sessions'[req[r].new] = [owner |-> req[r].owner, left |-> TTL]
        BY <1>1, <1>3 DEF RegisterRow, CInv, TypeOK
      <4>2. sessions'[req[r].new] # None /\ sessions'[req[r].new].left = TTL
        BY <1>1, <4>1, ConstantsAssumption, NoneAssumption DEF SessionRow
      <4>. QED
        BY <2>2, <3>1, <4>2
    <3>2. CASE q # r
      BY <2>1, <2>2, <3>2, CriticalKept
    <3>. QED
      BY <3>1, <3>2
  <2>. QED
    BY <2>1, <2>3, <2>4, <2>5, SpreadStep, KeepsChain DEF CInv
<1>. QED
  BY <1>2, <1>3 DEF ReinitRegister

\* The request of a rotation goes on, and nobody else moves.
LEMMA RotationMoves ==
  ASSUME TypeOK, NEW r \in Requests, req[r] # None, NEW pc \in {"invalidate", "replay"},
         req[r].pc \in {"addredirect", "invalidate"}, Goto(r, pc)
  PROVE  /\ req'[r] # None /\ req'[r].pc = pc
         /\ req'[r].sid = req[r].sid /\ req'[r].new = req[r].new
         /\ \A q \in Requests \ {r} : req'[q] = req[q]
<1>1. req[r] \in Flight /\ req'[r] = [req[r] EXCEPT !.pc = pc]
  BY DEF Goto, TypeOK
<1>2. req[r].sid # 0 /\ req[r].new # 0
  BY FlightFields, SidsPositive DEF WithNew
<1>3. [req[r] EXCEPT !.pc = pc] \in Flight
  BY <1>1, <1>2 DEF Flight, Pcs
<1>. QED
  BY <1>1, <1>3, NoneAssumption DEF Goto, TypeOK, Flight

\* The second transaction: the redirect leads to a row with its whole time.
LEMMA RotationRedirects ==
  ASSUME CInv, TypeOK', TTL >= Grace, NEW r \in Requests, ReinitRedirect(r)
  PROVE  CInv'
<1>1. /\ req[r] # None /\ req[r].new \in Sids /\ req[r].sid \in Sids
      /\ req[r].pc = "addredirect"
  BY FlightFields DEF ReinitRedirect, At, CInv, WithNew
<1>2. CASE Finish(r) /\ redirects' = redirects
  <2>1. Keeps
    BY <1>2, StatementsKeep DEF ReinitRedirect, tables, CInv
  <2>. QED
    BY <1>1, <1>2, <2>1, CalmEnds DEF ReinitRedirect
<1>3. CASE redirects' = AddRedirectRow(req[r].sid, req[r].new) /\ Goto(r, "invalidate")
  <2>1. /\ sessions' = sessions /\ issued' = issued /\ known' = known
    BY DEF ReinitRedirect
  <2>2. /\ req'[r] # None /\ req'[r].pc = "invalidate"
        /\ req'[r].sid = req[r].sid /\ req'[r].new = req[r].new
        /\ \A q \in Requests \ {r} : req'[q] = req[q]
    BY <1>1, <1>3, RotationMoves DEF CInv
  <2>3. /\ redirects'[req[r].sid] # None
        /\ redirects'[req[r].sid].to = req[r].new /\ redirects'[req[r].sid].left = Grace
        /\ \A s \in Sids \ {req[r].sid} : redirects'[s] = redirects[s]
    <3>1. redirects'[req[r].sid] = [to |-> req[r].new, left |-> Grace]
      BY <1>1, <1>3 DEF AddRedirectRow, CInv, TypeOK
    <3>2. [to |-> req[r].new, left |-> Grace] \in RedirectRow
      BY <1>1, ConstantsAssumption DEF RedirectRow
    <3>. QED
      BY <1>1, <1>3, <3>1, <3>2, NoneAssumption DEF AddRedirectRow, CInv, TypeOK
  <2>4. Spreads
    <3>1. \A q \in Requests : req'[q] # None => Circulates(req'[q].sid)
      BY <1>1, <2>2 DEF Circulates
    <3>2. \A q \in Requests : req'[q] # None => Proceeds(q)
      BY <1>1, <2>2 DEF Proceeds, RotationPcs
    <3>3. Circulates(req[r].new)
      BY <1>1, <2>2 DEF Circulates, WithNew, RotationPcs
    <3>4. \A s \in Sids : redirects'[s] # None => Circulates(redirects'[s].to)
      BY <2>3, <3>3 DEF Circulates
    <3>. QED
      BY <2>1, <3>1, <3>2, <3>4 DEF Spreads, Circulates
  <2>5. NoDelete'
    BY <2>2 DEF CInv, NoDelete, TerminatePcs
  <2>6. FullRows'
    <3>1. ASSUME NEW q \in Requests, req'[q] # None, req'[q].pc = "addredirect"
          PROVE  sessions'[req'[q].new] # None /\ sessions'[req'[q].new].left = TTL
      BY <2>1, <2>2, <3>1 DEF CInv, FullRows
    <3>2. ASSUME NEW q \in Requests, req'[q] # None, req'[q].pc = "invalidate", Grace > 0
          PROVE  redirects'[req'[q].sid] # None /\ redirects'[req'[q].sid].left = Grace
      <4>1. CASE req'[q].sid = req[r].sid
        BY <2>3, <4>1
      <4>2. CASE req'[q].sid # req[r].sid
        <5>1. req'[q] = req[q] /\ req[q].sid \in Sids
          BY <2>2, <3>2, <4>2, FlightFields DEF CInv
        <5>. QED
          BY <2>3, <3>2, <4>2, <5>1 DEF CInv, FullRows
      <4>. QED
        BY <4>1, <4>2
    <3>. QED
      BY <3>1, <3>2 DEF FullRows
  <2>7. ChainLeft'
    <3>. DEFINE Lasts(x, n) == (sessions'[x] # None /\ sessions'[x].left >= n)
                              \/ (redirects'[x] # None /\ redirects'[x].left >= n)
    <3>. SUFFICES ASSUME NEW s \in Sids, redirects'[s] # None, redirects'[s].left > 0
                  PROVE  Lasts(redirects'[s].to, redirects'[s].left)
      BY DEF ChainLeft, Redirected, Outlasts
    <3>1. CASE s = req[r].sid
      <4>1. sessions[req[r].new] # None /\ sessions[req[r].new].left = TTL
        BY <1>1 DEF CInv, FullRows
      <4>. QED
        BY <2>1, <2>3, <3>1, <4>1
    <3>2. CASE s # req[r].sid
      <4>1. redirects'[s] = redirects[s] /\ Redirected(s)
        BY <2>3, <3>2 DEF Redirected
      <4>2. redirects[s].to \in Sids /\ redirects[s].left \in 0..Grace
        BY <4>1 DEF CInv, TypeOK, RedirectRow, Redirected
      <4>3. Outlasts(redirects[s].to, redirects[s].left)
        BY <4>1 DEF CInv, ChainLeft
      <4>4. CASE redirects[s].to = req[r].sid
        <5>1. redirects'[redirects[s].to] # None /\ redirects'[redirects[s].to].left = Grace
          BY <2>3, <4>4
        <5>2. Grace >= redirects[s].left
          BY <4>2, ConstantsAssumption
        <5>. QED
          BY <4>1, <5>1, <5>2
      <4>5. CASE redirects[s].to # req[r].sid
        BY <2>1, <2>3, <4>1, <4>2, <4>3, <4>5 DEF Outlasts
      <4>. QED
        BY <4>4, <4>5
    <3>. QED
      BY <3>1, <3>2
  <2>. QED
    BY <2>4, <2>5, <2>6, <2>7, SpreadStep DEF CInv
<1>. QED
  BY <1>2, <1>3 DEF ReinitRedirect

\* The third transaction: what led to the old row now has its redirect.
LEMMA RotationInvalidates ==
  ASSUME CInv, TypeOK', NEW r \in Requests, ReinitInvalidate(r)
  PROVE  CInv'
<1>1. /\ req[r] # None /\ req[r].new \in Sids /\ req[r].sid \in Sids
      /\ req[r].pc = "invalidate"
  BY FlightFields DEF ReinitInvalidate, At, CInv, WithNew
<1>2. CASE Finish(r) /\ sessions' = sessions
  <2>1. Keeps
    BY <1>2, StatementsKeep DEF ReinitInvalidate, tables, CInv
  <2>. QED
    BY <1>1, <1>2, <2>1, CalmEnds DEF ReinitInvalidate
<1>3. CASE sessions' = InvalidateRow(req[r].sid) /\ Goto(r, "replay")
  <2>1. /\ redirects' = redirects /\ issued' = issued /\ known' = known
    BY DEF ReinitInvalidate
  <2>2. /\ req'[r] # None /\ req'[r].pc = "replay"
        /\ req'[r].sid = req[r].sid /\ req'[r].new = req[r].new
        /\ \A q \in Requests \ {r} : req'[q] = req[q]
    BY <1>1, <1>3, RotationMoves DEF CInv
  <2>3. \A s \in Sids \ {req[r].sid} : sessions'[s] = sessions[s]
    BY <1>3 DEF InvalidateRow, CInv, TypeOK
  <2>4. Spreads
    <3>1. \A q \in Requests : req'[q] # None => Circulates(req'[q].sid)
      BY <1>1, <2>2 DEF Circulates
    <3>2. \A q \in Requests : req'[q] # None => Proceeds(q)
      BY <1>1, <2>2 DEF Proceeds, RotationPcs
    <3>. QED
      BY <2>1, <3>1, <3>2 DEF Spreads, Circulates
  <2>5. NoDelete'
    BY <2>2 DEF CInv, NoDelete, TerminatePcs
  <2>6. FullRows'
    <3>1. ASSUME NEW q \in Requests, req'[q] # None, req'[q].pc = "addredirect"
          PROVE  sessions'[req'[q].new] # None /\ sessions'[req'[q].new].left = TTL
      <4>1. req'[q] = req[q] /\ req[q].new \in Sids
        BY <2>2, <3>1, FlightFields DEF CInv, WithNew
      <4>2. req[r].sid # req[q].new
        BY <1>1, <3>1, <4>1 DEF CInv, HiddenIds, HiddenFrom, RotationPcs
      <4>. QED
        BY <2>3, <3>1, <4>1, <4>2 DEF CInv, FullRows
    <3>2. ASSUME NEW q \in Requests, req'[q] # None, req'[q].pc = "invalidate", Grace > 0
          PROVE  redirects'[req'[q].sid] # None /\ redirects'[req'[q].sid].left = Grace
      BY <2>1, <2>2, <3>2 DEF CInv, FullRows
    <3>. QED
      BY <3>1, <3>2 DEF FullRows
  <2>7. ChainLeft'
    <3>. DEFINE Lasts(x, n) == (sessions'[x] # None /\ sessions'[x].left >= n)
                              \/ (redirects'[x] # None /\ redirects'[x].left >= n)
    <3>. SUFFICES ASSUME NEW s \in Sids, redirects'[s] # None, redirects'[s].left > 0
                  PROVE  Lasts(redirects'[s].to, redirects'[s].left)
      BY DEF ChainLeft, Redirected, Outlasts
    <3>1. redirects'[s] = redirects[s] /\ Redirected(s)
      BY <2>1 DEF Redirected
    <3>2. redirects[s].to \in Sids /\ redirects[s].left \in 0..Grace /\ redirects[s].left > 0
      BY <3>1 DEF CInv, TypeOK, RedirectRow, Redirected
    <3>3. Outlasts(redirects[s].to, redirects[s].left)
      BY <3>1 DEF CInv, ChainLeft
    <3>4. CASE redirects[s].to = req[r].sid
      <4>1. Grace > 0 /\ Grace >= redirects[s].left
        BY <3>2, ConstantsAssumption
      <4>2. redirects[req[r].sid] # None /\ redirects[req[r].sid].left = Grace
        BY <1>1, <4>1 DEF CInv, FullRows
      <4>. QED
        BY <2>1, <3>1, <3>4, <4>1, <4>2
    <3>5. CASE redirects[s].to # req[r].sid
      BY <2>1, <2>3, <3>1, <3>2, <3>3, <3>5 DEF Outlasts
    <3>. QED
      BY <3>4, <3>5
  <2>. QED
    BY <2>4, <2>5, <2>6, <2>7, SpreadStep DEF CInv
<1>. QED
  BY <1>2, <1>3 DEF ReinitInvalidate

\* Rows and redirects age together, and no rotation is under way.
LEMMA ChainsAge ==
  ASSUME CInv, TypeOK', Tick
  PROVE  CInv'
<1>1. \A q \in Requests : req'[q] = req[q]
                          /\ (req[q] # None => req[q].pc \notin {"addredirect", "invalidate"})
  BY DEF Tick
<1>2. \A s \in Sids : sessions[s] # None =>
        /\ sessions'[s] # None
        /\ sessions'[s].left = Less(sessions[s].left)
        /\ sessions[s].left \in Nat
  <2>. SUFFICES ASSUME NEW s \in Sids, sessions[s] # None
                PROVE  /\ sessions'[s] # None
                       /\ sessions'[s].left = Less(sessions[s].left)
                       /\ sessions[s].left \in Nat
    OBVIOUS
  <2>1. /\ sessions[s] \in SessionRow
        /\ sessions'[s] = [sessions[s] EXCEPT !.left = Less(@)]
    BY DEF Tick, Aged, CInv, TypeOK
  <2>2. Less(sessions[s].left) \in 0..TTL /\ sessions[s].left \in Nat
    BY <2>1, ConstantsAssumption DEF SessionRow, Less
  <2>3. sessions'[s] \in SessionRow /\ sessions'[s].left = Less(sessions[s].left)
    BY <2>1, <2>2 DEF SessionRow
  <2>. QED
    BY <2>2, <2>3, NoneAssumption
<1>3. \A s \in Sids :
        /\ redirects'[s] # None => redirects[s] # None
        /\ redirects[s] # None =>
             /\ redirects'[s] # None
             /\ redirects'[s].to = redirects[s].to /\ redirects[s].to \in Sids
             /\ redirects'[s].left = Less(redirects[s].left)
             /\ redirects[s].left \in Nat
  <2>. SUFFICES ASSUME NEW s \in Sids
                PROVE  /\ redirects'[s] # None => redirects[s] # None
                       /\ redirects[s] # None =>
                            /\ redirects'[s] # None
                            /\ redirects'[s].to = redirects[s].to /\ redirects[s].to \in Sids
                            /\ redirects'[s].left = Less(redirects[s].left)
                            /\ redirects[s].left \in Nat
    OBVIOUS
  <2>1. CASE redirects[s] = None
    BY <2>1 DEF Tick, Aged
  <2>2. CASE redirects[s] # None
    <3>1. /\ redirects[s] \in RedirectRow
          /\ redirects'[s] = [redirects[s] EXCEPT !.left = Less(@)]
      BY <2>2 DEF Tick, Aged, CInv, TypeOK
    <3>2. Less(redirects[s].left) \in 0..Grace /\ redirects[s].left \in Nat
      BY <3>1, ConstantsAssumption DEF RedirectRow, Less
    <3>3. /\ redirects'[s] \in RedirectRow /\ redirects'[s].left = Less(redirects[s].left)
          /\ redirects'[s].to = redirects[s].to /\ redirects[s].to \in Sids
      BY <3>1, <3>2 DEF RedirectRow
    <3>. QED
      BY <2>2, <3>2, <3>3, NoneAssumption
  <2>. QED
    BY <2>1, <2>2
<1>4. Spreads
  <2>1. issued' = issued /\ known' = known
    BY DEF Tick
  <2>2. \A t \in known' : Circulates(t)
    BY <2>1 DEF Circulates
  <2>3. \A s \in Sids : redirects'[s] # None => Circulates(redirects'[s].to)
    BY <1>3 DEF Circulates
  <2>4. \A q \in Requests : req'[q] # None => Circulates(req'[q].sid) /\ Proceeds(q)
    BY <1>1 DEF Circulates, Proceeds
  <2>. QED
    BY <2>1, <2>2, <2>3, <2>4 DEF Spreads
<1>5. NoDelete' /\ FullRows'
  BY <1>1 DEF CInv, NoDelete, FullRows
<1>6. ChainLeft'
  <2>. DEFINE Lasts(x, n) == (sessions'[x] # None /\ sessions'[x].left >= n)
                            \/ (redirects'[x] # None /\ redirects'[x].left >= n)
  <2>. SUFFICES ASSUME NEW s \in Sids, redirects'[s] # None, redirects'[s].left > 0
                PROVE  Lasts(redirects'[s].to, redirects'[s].left)
    BY DEF ChainLeft, Redirected, Outlasts
  <2>1. /\ redirects[s] # None /\ redirects[s].to \in Sids /\ redirects[s].left \in Nat
        /\ redirects'[s].to = redirects[s].to
        /\ redirects'[s].left = Less(redirects[s].left)
    BY <1>3
  <2>2. redirects[s].left > 0 /\ redirects'[s].left = redirects[s].left - 1
    BY <2>1 DEF Less
  <2>3. Outlasts(redirects[s].to, redirects[s].left)
    BY <2>1, <2>2 DEF CInv, ChainLeft, Redirected
  <2>. DEFINE t == redirects[s].to
  <2>4. CASE sessions[t] # None /\ sessions[t].left >= redirects[s].left
    <3>1. /\ sessions'[t] # None /\ sessions'[t].left = Less(sessions[t].left)
          /\ sessions[t].left \in Nat
      BY <1>2, <2>1, <2>4
    <3>2. sessions'[t].left >= redirects[s].left - 1
      BY <2>1, <2>2, <2>4, <3>1 DEF Less
    <3>. QED
      BY <2>1, <2>2, <3>1, <3>2
  <2>5. CASE redirects[t] # None /\ redirects[t].left >= redirects[s].left
    <3>1. /\ redirects'[t] # None /\ redirects'[t].left = Less(redirects[t].left)
          /\ redirects[t].left \in Nat
      BY <1>3, <2>1, <2>5
    <3>2. redirects'[t].left >= redirects[s].left - 1
      BY <2>1, <2>2, <2>5, <3>1 DEF Less
    <3>. QED
      BY <2>1, <2>2, <3>1, <3>2
  <2>. QED
    BY <2>3, <2>4, <2>5 DEF Outlasts
<1>. QED
  BY <1>4, <1>5, <1>6, SpreadStep DEF CInv

\* Every step keeps the chains, when nobody deletes sessions.
LEMMA ChainNext ==
  ASSUME ChainAssumption, CInv, [Next]_vars
  PROVE  CInv'
<1>0. TypeOK'
  BY NextType DEF CInv
<1>. USE <1>0
<1>1. ASSUME NEW r \in Requests, InitializeApp(r)
      PROVE  CInv'
  <2>1. /\ req[r] # None /\ req[r].pc = "initialize" /\ UNCHANGED tables
    BY <1>1 DEF InitializeApp, At
  <2>2. CASE OpenLocal(r, "register") /\ known' = known \cup {issued'}
    BY <2>1, <2>2, OpenStep
  <2>3. CASE Finish(r) /\ UNCHANGED <<issued, local, known>>
    BY <2>1, <2>3, CalmEnds, StatementsKeep DEF CInv
  <2>. QED
    BY <1>1, <2>2, <2>3 DEF InitializeApp
<1>2. ASSUME NEW r \in Requests, RegisterSession(r)
      PROVE  CInv'
  <2>1. /\ req[r] # None /\ req[r].new \in Sids /\ req[r].owner \in Owners
    BY <1>2, FlightFields DEF RegisterSession, At, CInv, WithNew
  <2>2. Keeps
    BY <1>2, <2>1, StatementsKeep DEF RegisterSession, CInv, tables
  <2>. QED
    BY <1>2, <2>1, <2>2, CalmEnds DEF RegisterSession
<1>3. ASSUME NEW r \in Requests, Touch(r)
      PROVE  CInv'
  <2>1. req[r] # None /\ req[r].sid \in Sids
    BY <1>3, FlightFields DEF Touch, At, CInv
  <2>2. /\ sessions' = sessions \/ sessions' = TouchRow(req[r].sid)
        /\ redirects' = redirects
    BY <1>3 DEF Touch
  <2>3. Keeps
    BY <2>1, <2>2, StatementsKeep DEF CInv, tables
  <2>. QED
    BY <1>3, <2>1, <2>3, CalmEnds DEF Touch
<1>4. ASSUME NEW r \in Requests, ReinitApp(r)
      PROVE  CInv'
  <2>1. /\ req[r] # None /\ req[r].pc = "reinit" /\ UNCHANGED tables /\ known' = known
    BY <1>4 DEF ReinitApp, At
  <2>2. CASE OpenLocal(r, "reregister")
    BY <2>1, <2>2, OpenStep
  <2>3. CASE Finish(r) /\ UNCHANGED <<issued, local>>
    BY <2>1, <2>3, CalmEnds, StatementsKeep DEF CInv
  <2>. QED
    BY <1>4, <2>2, <2>3 DEF ReinitApp
<1>5. ASSUME NEW r \in Requests, Replay(r)
      PROVE  CInv'
  <2>1. Keeps
    BY <1>5, StatementsKeep DEF Replay, CInv
  <2>. QED
    BY <1>5, <2>1, CalmEnds DEF Replay, At
<1>6. ASSUME NEW r \in Requests,
             TerminateApp(r) \/ TerminateInvalidate(r) \/ TerminateRedirects(r)
      PROVE  CInv'
  BY <1>6 DEF CInv, NoDelete, TerminatePcs, TerminateApp, TerminateInvalidate,
              TerminateRedirects, At
<1>7. ASSUME NEW r \in Requests, Handler(r)
      PROVE  CInv'
  BY <1>1, <1>2, <1>3, <1>4, <1>5, <1>6, <1>7, CalmHandlers, RotationRegisters,
     RotationRedirects, RotationInvalidates
  DEF Handler, ChainAssumption
<1>8. ASSUME NEW r \in Requests, NEW n \in Nodes, NEW o \in Owners,
             \/ Initialize(r, n, o)
             \/ \E s \in Sids : Subsequent(r, n, o, s) \/ Terminate(r, n, o, s)
      PROVE  CInv'
  BY <1>8, CalmHandlers DEF Terminate, ChainAssumption
<1>9. ASSUME NEW n \in Nodes, Cleanup(n)
      PROVE  CInv'
  <2>1. Keeps
    BY <1>9, StatementsKeep DEF Cleanup, CInv
  <2>. QED
    BY <1>9, <2>1, CalmStep DEF Cleanup, CalmMove, Circulates
<1>10. ASSUME NEW n \in Nodes, Restart(n)
       PROVE  CInv'
  <2>1. Keeps
    BY <1>10, StatementsKeep DEF Restart, CInv
  <2>2. \A q \in Requests : req'[q] # None => CalmMove(q)
    BY <1>10 DEF Restart, CalmMove
  <2>. QED
    BY <1>10, <2>1, <2>2, CalmStep DEF Restart, Circulates
<1>11. CASE UNCHANGED vars
  <2>1. Keeps /\ issued' = issued /\ known' = known /\ req' = req
    BY <1>11, StatementsKeep DEF vars, tables, CInv
  <2>. QED
    BY <2>1, CalmStep DEF CalmMove, Circulates
<1>. QED
  BY <1>7, <1>8, <1>9, <1>10, <1>11, ChainsAge DEF Next

\* As long as nobody deletes sessions and a session lives no shorter than a
\* redirect, no number of rotations by any number of nodes, in any
\* interleaving and with any failures and restarts, breaks a chain: the target
\* of an unexpired redirect is live or redirected itself.
THEOREM ChainsStayIntact ==
  ASSUME ChainAssumption
  PROVE  Spec => []ChainIntact
<1>1. Init => CInv
  BY InitType DEF Init, CInv, NoDelete, IdsKnown, HiddenIds, FullRows, ChainLeft, Redirected
<1>2. CInv /\ [Next]_vars => CInv'
  BY ChainNext
<1>3. CInv => ChainIntact
  <2>. SUFFICES ASSUME CInv, NEW s \in Sids, Redirected(s)
                PROVE  Live(redirects[s].to) \/ Redirected(redirects[s].to)
    BY DEF ChainIntact
  <2>. DEFINE t == redirects[s].to
  <2>1. /\ t \in Sids /\ redirects[s].left \in Nat /\ redirects[s].left > 0
    BY DEF CInv, TypeOK, RedirectRow, Redirected
  <2>2. Outlasts(t, redirects[s].left)
    BY DEF CInv, ChainLeft
  <2>3. /\ sessions[t] # None => sessions[t].left \in Nat
        /\ redirects[t] # None => redirects[t].left \in Nat
    BY <2>1 DEF CInv, TypeOK, SessionRow, RedirectRow
  <2>. QED
    BY <2>1, <2>2, <2>3 DEF Outlasts, Live, Redirected
<1>. QED
  BY <1>1, <1>2, <1>3, PTL DEF Spec
===========================================================================
