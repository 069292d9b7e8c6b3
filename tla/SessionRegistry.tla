-------------------------- MODULE SessionRegistry --------------------------
(***************************************************************************)
(* The Postgres session registry (SessionStore) and the ASGI middleware in *)
(* front of FastMCP (SessionRegistryMiddleware), on several nodes sharing  *)
(* one session database.                                                   *)
(*                                                                         *)
(* Every SessionStore call is one transaction and one action.  A handler   *)
(* is a coroutine: between two awaits its transactions run back to back on *)
(* its node's event loop, so no other request of that node interleaves     *)
(* there, but requests of other nodes and the cleanup threads do.          *)
(*                                                                         *)
(* expires_at is kept as the time that is left; a row with left = 0 is one *)
(* whose expires_at <= NOW().                                              *)
(***************************************************************************)
EXTENDS Naturals, FiniteSets

CONSTANTS Nodes,            \* server processes behind the load balancer
          Owners,           \* owner ids AuthMiddleware may put in the context
          Requests,         \* slots for requests in flight
          MaxSid,           \* bound: how many session ids FastMCP hands out
          TTL,              \* SessionStore.ttl_seconds
          Grace,            \* SessionStore.redirect_grace_seconds
          MaxPerOwner,      \* max_sessions_per_owner
          TouchDebounce,    \* _touch_debounce_seconds
          CleanupInterval,  \* _cleanup_interval
          Methods,          \* what the clients of this instance send
          DbMayFail,        \* whether a database call may raise
          None              \* no row, no request

Sids == 1..MaxSid

SessionRow  == [owner : Owners, left : 0..TTL]
RedirectRow == [to : Sids, left : 0..Grace]

\* Where a request stands; see the actions below.
Pcs == {"initialize", "register", "redirect", "target", "call", "touch",
        "reinit", "reregister", "addredirect", "invalidate", "replay",
        "terminate", "term_invalidate", "term_redirects"}

\* The points at which FastMCP has created a session for the request.
WithNew == {"register", "reregister", "addredirect", "invalidate", "replay"}

\* sid is the (possibly rewritten) mcp-session-id, new the id FastMCP has
\* just created for this request; 0 stands for no id.
Flight == {f \in [pc : Pcs, node : Nodes, owner : Owners,
                  sid : Sids \cup {0}, new : Sids \cup {0}] :
             /\ f.pc \notin {"initialize", "register"} => f.sid # 0
             /\ f.pc \in WithNew => f.new # 0}

ASSUME ConstantsAssumption ==
  /\ MaxSid \in Nat /\ TTL \in Nat \ {0} /\ Grace \in Nat
  /\ MaxPerOwner \in Nat /\ TouchDebounce \in Nat /\ CleanupInterval \in Nat
  /\ Methods \subseteq {"initialize", "call", "badcall", "delete"}
  /\ DbMayFail \in BOOLEAN

ASSUME NoneAssumption == None \notin SessionRow \cup RedirectRow \cup Flight

VARIABLES sessions,   \* table session_registry
          redirects,  \* table session_redirects
          issued,     \* FastMCP has handed out the ids 1..issued
          local,      \* per node: the sessions FastMCP holds in memory
          touchWait,  \* per node and id: what is left of the touch debounce
          cleaner,    \* per node: cleanup debounce and cleanup thread
          req,        \* per slot: the request in flight
          known       \* ids that some response has carried to a client

tables == <<sessions, redirects>>
vars == <<sessions, redirects, issued, local, touchWait, cleaner, req, known>>

\* Every variable stays in its type.
TypeOK ==
  /\ sessions \in [Sids -> SessionRow \cup {None}]
  /\ redirects \in [Sids -> RedirectRow \cup {None}]
  /\ issued \in 0..MaxSid
  /\ local \in [Nodes -> SUBSET Sids]
  /\ touchWait \in [Nodes -> [Sids -> 0..TouchDebounce]]
  /\ cleaner \in [Nodes -> [wait : 0..CleanupInterval, alive : BOOLEAN]]
  /\ req \in [Requests -> Flight \cup {None}]
  /\ known \in SUBSET Sids

Init ==
  /\ sessions = [s \in Sids |-> None]
  /\ redirects = [s \in Sids |-> None]
  /\ issued = 0
  /\ local = [n \in Nodes |-> {}]
  /\ touchWait = [n \in Nodes |-> [s \in Sids |-> 0]]
  /\ cleaner = [n \in Nodes |-> [wait |-> 0, alive |-> FALSE]]
  /\ req = [r \in Requests |-> None]
  /\ known = {}

---------------------------------------------------------------------------
(* The statements of SessionStore. *)

\* session_lookup.sql: the row is there and has not expired.
Live(s) == sessions[s] # None /\ sessions[s].left > 0

\* session_redirect_lookup.sql
Redirected(s) == redirects[s] # None /\ redirects[s].left > 0

\* session_count_active.sql
ActiveCount(o) == Cardinality({s \in Sids : Live(s) /\ sessions[s].owner = o})

\* session_register.sql
RegisterRow(s, o) == [sessions EXCEPT ![s] = [owner |-> o, left |-> TTL]]

\* Mistake: touch without the expires_at guard.
TouchExpiredRow(s) ==
  IF sessions[s] # None THEN [sessions EXCEPT ![s].left = TTL] ELSE sessions

\* session_touch.sql: only a row that has not expired is extended.
TouchRow(s) ==
  IF Live(s) THEN [sessions EXCEPT ![s].left = TTL] ELSE sessions

\* session_invalidate.sql: expires_at = NOW().
InvalidateRow(s) ==
  IF sessions[s] # None THEN [sessions EXCEPT ![s].left = 0] ELSE sessions

\* session_add_redirect.sql: upsert.
AddRedirectRow(old, new) ==
  [redirects EXCEPT ![old] = [to |-> new, left |-> Grace]]

\* session_delete_redirects_to.sql
DeleteRedirectsTo(t) ==
  [s \in Sids |-> IF redirects[s] # None /\ redirects[s].to = t
                  THEN None ELSE redirects[s]]

\* session_cleanup_redirects.sql and session_cleanup_sessions.sql
Purged(table) ==
  [s \in Sids |-> IF table[s] # None /\ table[s].left = 0
                  THEN None ELSE table[s]]

\* A database call either commits or raises.
DbOutcomes == IF DbMayFail THEN BOOLEAN ELSE {TRUE}

---------------------------------------------------------------------------
(* Requests and the event loop. *)

\* A request at one of these points is between two transactions of one
\* synchronous stretch of its handler: it holds its node's event loop.
HoldsLoop == {"redirect", "target", "addredirect", "invalidate",
              "term_redirects"}

LoopFree(r, n) ==
  \A q \in Requests \ {r} :
    req[q] # None => (req[q].node # n \/ req[q].pc \notin HoldsLoop)

\* Request r is at pc and may take its next step.
At(r, pc) == req[r] # None /\ req[r].pc = pc /\ LoopFree(r, req[r].node)

Goto(r, pc) == req' = [req EXCEPT ![r].pc = pc]

\* The response has been sent.
Finish(r) == req' = [req EXCEPT ![r] = None]

Arrive(r, n, o, s, pc) ==
  req' = [req EXCEPT ![r] = [pc |-> pc, node |-> n, owner |-> o,
                             sid |-> s, new |-> 0]]

\* SessionStore._schedule_cleanup: debounced, one thread at a time.
ScheduleCleanup(n) ==
  cleaner' =
    IF cleaner[n].wait = 0 /\ ~cleaner[n].alive
    THEN [cleaner EXCEPT ![n] = [wait |-> CleanupInterval, alive |-> TRUE]]
    ELSE cleaner

\* FastMCP, on node n, opens a session under an id never used before and
\* answers 2xx; the handler of r goes on at pc with the new id.
OpenLocal(r, pc) ==
  /\ issued < MaxSid
  /\ issued' = issued + 1
  /\ local' = [local EXCEPT ![req[r].node] = @ \cup {issued + 1}]
  /\ req' = [req EXCEPT ![r].pc = pc, ![r].new = issued + 1]

---------------------------------------------------------------------------
(* _handle_initialize: POST without a session id. *)

\* The limit is checked before the body is read; a failed check lets the
\* request through.  The 429 answer changes no state.
Initialize(r, n, o) ==
  /\ "initialize" \in Methods
  /\ req[r] = None /\ LoopFree(r, n)
  /\ \E ok \in DbOutcomes : ok => ActiveCount(o) < MaxPerOwner
  /\ Arrive(r, n, o, 0, "initialize")
  /\ UNCHANGED <<tables, issued, local, touchWait, cleaner, known>>

\* FastMCP answers, or refuses; capturing_send forwards the answer to the
\* client at once, so the client holds the id before it is registered.
InitializeApp(r) ==
  /\ At(r, "initialize")
  /\ \/ OpenLocal(r, "register") /\ known' = known \cup {issued'}
     \/ Finish(r) /\ UNCHANGED <<issued, local, known>>
  /\ UNCHANGED <<tables, touchWait, cleaner>>

\* After the awaited call: register; a failure is only logged.
RegisterSession(r) ==
  /\ At(r, "register")
  /\ \E ok \in DbOutcomes :
       IF ok
       THEN /\ sessions' = RegisterRow(req[r].new, req[r].owner)
            /\ ScheduleCleanup(req[r].node)
       ELSE UNCHANGED <<sessions, cleaner>>
  /\ Finish(r)
  /\ UNCHANGED <<redirects, issued, local, touchWait, known>>

---------------------------------------------------------------------------
(* _handle_subsequent: POST or GET with a session id.  Passing the request *)
(* through to FastMCP without a registry row ends it here: what FastMCP    *)
(* answers changes nothing this module keeps.                              *)

\* Mistake: the owner of the row is not compared.
ValidateNoOwner(r, n, o, s) ==
  IF Live(s) THEN Arrive(r, n, o, s, "call") ELSE Finish(r)

\* Owner check on a row that was found, or pass through / 403.
Validate(r, n, o, s) ==
  IF Live(s) /\ sessions[s].owner = o
  THEN Arrive(r, n, o, s, "call")
  ELSE Finish(r)

\* First lookup of the id the client sent.
Subsequent(r, n, o, s) ==
  /\ "call" \in Methods
  /\ req[r] = None /\ LoopFree(r, n)
  /\ s \in known
  /\ IF Live(s) THEN Validate(r, n, o, s)
                ELSE Arrive(r, n, o, s, "redirect")
  /\ UNCHANGED <<tables, issued, local, touchWait, cleaner, known>>

\* redirect_lookup; on a hit the session header is rewritten.
RedirectLookup(r) ==
  /\ At(r, "redirect")
  /\ \E ok \in DbOutcomes :
       IF ok /\ Redirected(req[r].sid)
       THEN Arrive(r, req[r].node, req[r].owner, redirects[req[r].sid].to, "target")
       ELSE Finish(r)
  /\ UNCHANGED <<tables, issued, local, touchWait, cleaner, known>>

\* Mistake: a redirected request skips the owner check.
TargetLookupTrusting(r) ==
  /\ At(r, "target")
  /\ \E ok \in DbOutcomes :
       IF ok /\ Live(req[r].sid) THEN Goto(r, "call") ELSE Finish(r)
  /\ UNCHANGED <<tables, issued, local, touchWait, cleaner, known>>

\* Lookup of the redirect's target, then the same owner check.
TargetLookup(r) ==
  /\ At(r, "target")
  /\ \E ok \in DbOutcomes :
       IF ok THEN Validate(r, req[r].node, req[r].owner, req[r].sid)
             ELSE Finish(r)
  /\ UNCHANGED <<tables, issued, local, touchWait, cleaner, known>>

\* The request reaches FastMCP on this node: 2xx only if the session is in its
\* memory; 400 or 404 if it is not, or for a bad call, which it will not take in
\* any session; or some other error, which is sent on.
CallApp(r) ==
  /\ At(r, "call")
  /\ \/ req[r].sid \in local[req[r].node] /\ Goto(r, "touch")
     \/ /\ req[r].sid \notin local[req[r].node] \/ "badcall" \in Methods
        /\ Goto(r, "reinit")
     \/ Finish(r)
  /\ UNCHANGED <<tables, issued, local, touchWait, cleaner, known>>

\* Mistake: one debounce per node instead of one per session.
TouchPerNode(r) ==
  /\ At(r, "touch")
  /\ LET n == req[r].node
         s == req[r].sid
     IN  /\ IF touchWait[n][s] > 0
            THEN UNCHANGED <<sessions, touchWait>>
            ELSE /\ touchWait' = [touchWait EXCEPT
                                   ![n] = [x \in Sids |-> TouchDebounce]]
                 /\ sessions' = TouchRow(s)
         /\ ScheduleCleanup(n)
  /\ Finish(r)
  /\ UNCHANGED <<redirects, issued, local, known>>

\* _debounced_touch: the debounce is armed before touch is tried.
Touch(r) ==
  /\ At(r, "touch")
  /\ LET n == req[r].node
         s == req[r].sid
     IN  /\ IF touchWait[n][s] > 0
            THEN UNCHANGED <<sessions, touchWait>>
            ELSE /\ touchWait' = [touchWait EXCEPT ![n][s] = TouchDebounce]
                 /\ \E ok \in DbOutcomes :
                      sessions' = IF ok THEN TouchRow(s) ELSE sessions
         /\ ScheduleCleanup(n)
  /\ Finish(r)
  /\ UNCHANGED <<redirects, issued, local, known>>

---------------------------------------------------------------------------
(* _reinitialize: the registry knows the session, this node does not.      *)
(* The row read by the lookup is not read again.                           *)

\* Mistake: the answer to the synthetic initialize is not inspected.
ReinitAppUnchecked(r) ==
  /\ At(r, "reinit")
  /\ \/ OpenLocal(r, "reregister")
     \/ Goto(r, "reregister") /\ UNCHANGED <<issued, local>>
  /\ UNCHANGED <<tables, touchWait, cleaner, known>>

\* Step 1: a synthetic initialize; FastMCP opens a session or refuses.
ReinitApp(r) ==
  /\ At(r, "reinit")
  /\ \/ OpenLocal(r, "reregister")
     \/ Finish(r) /\ UNCHANGED <<issued, local>>
  /\ UNCHANGED <<tables, touchWait, cleaner, known>>

\* Mistake: the limit applies to the registration, but not to what follows it.
ReinitRegisterLimited(r) ==
  /\ At(r, "reregister")
  /\ sessions' = IF ActiveCount(req[r].owner) < MaxPerOwner
                 THEN RegisterRow(req[r].new, req[r].owner) ELSE sessions
  /\ Goto(r, "addredirect")
  /\ UNCHANGED <<redirects, issued, local, touchWait, cleaner, known>>

\* Step 2: register, redirect, invalidate, each a transaction of its own.
\* A failure ends the re-initialization and leaves what was committed.
ReinitRegister(r) ==
  /\ At(r, "reregister")
  /\ \E ok \in DbOutcomes :
       IF ok
       THEN /\ sessions' = RegisterRow(req[r].new, req[r].owner)
            /\ Goto(r, "addredirect")
       ELSE Finish(r) /\ UNCHANGED sessions
  /\ UNCHANGED <<redirects, issued, local, touchWait, cleaner, known>>

ReinitRedirect(r) ==
  /\ At(r, "addredirect")
  /\ \E ok \in DbOutcomes :
       IF ok
       THEN /\ redirects' = AddRedirectRow(req[r].sid, req[r].new)
            /\ Goto(r, "invalidate")
       ELSE Finish(r) /\ UNCHANGED redirects
  /\ UNCHANGED <<sessions, issued, local, touchWait, cleaner, known>>

ReinitInvalidate(r) ==
  /\ At(r, "invalidate")
  /\ \E ok \in DbOutcomes :
       IF ok
       THEN /\ sessions' = InvalidateRow(req[r].sid)
            /\ Goto(r, "replay")
       ELSE Finish(r) /\ UNCHANGED sessions
  /\ UNCHANGED <<redirects, issued, local, touchWait, cleaner, known>>

\* Step 3: the original request again; the answer carries the new id.
Replay(r) ==
  /\ At(r, "replay")
  /\ known' = known \cup {req[r].new}
  /\ Finish(r)
  /\ UNCHANGED <<tables, issued, local, touchWait, cleaner>>

---------------------------------------------------------------------------
(* _handle_terminate: DELETE.  FastMCP goes first, the registry follows.   *)

Terminate(r, n, o, s) ==
  /\ "delete" \in Methods
  /\ req[r] = None /\ LoopFree(r, n)
  /\ s \in known
  /\ Arrive(r, n, o, s, "terminate")
  /\ UNCHANGED <<tables, issued, local, touchWait, cleaner, known>>

TerminateApp(r) ==
  /\ At(r, "terminate")
  /\ local' = [local EXCEPT ![req[r].node] = @ \ {req[r].sid}]
  /\ Goto(r, "term_invalidate")
  /\ UNCHANGED <<tables, issued, touchWait, cleaner, known>>

TerminateInvalidate(r) ==
  /\ At(r, "term_invalidate")
  /\ \E ok \in DbOutcomes :
       IF ok
       THEN /\ sessions' = InvalidateRow(req[r].sid)
            /\ Goto(r, "term_redirects")
       ELSE Finish(r) /\ UNCHANGED sessions
  /\ UNCHANGED <<redirects, issued, local, touchWait, cleaner, known>>

TerminateRedirects(r) ==
  /\ At(r, "term_redirects")
  /\ \E ok \in DbOutcomes :
       IF ok
       THEN /\ redirects' = DeleteRedirectsTo(req[r].sid)
            /\ ScheduleCleanup(req[r].node)
       ELSE UNCHANGED <<redirects, cleaner>>
  /\ Finish(r)
  /\ UNCHANGED <<sessions, issued, local, touchWait, known>>

---------------------------------------------------------------------------
(* What happens beside the requests. *)

\* _do_cleanup on a node's background thread: both tables in one transaction.
Cleanup(n) ==
  /\ cleaner[n].alive
  /\ \E ok \in DbOutcomes :
       IF ok THEN sessions' = Purged(sessions) /\ redirects' = Purged(redirects)
             ELSE UNCHANGED tables
  /\ cleaner' = [cleaner EXCEPT ![n].alive = FALSE]
  /\ UNCHANGED <<issued, local, touchWait, req, known>>

\* The process dies and comes back: everything in its memory is gone, and
\* the requests it was serving with it.
Restart(n) ==
  /\ local' = [local EXCEPT ![n] = {}]
  /\ touchWait' = [touchWait EXCEPT ![n] = [s \in Sids |-> 0]]
  /\ cleaner' = [cleaner EXCEPT ![n] = [wait |-> 0, alive |-> FALSE]]
  /\ req' = [r \in Requests |->
               IF req[r] # None /\ req[r].node = n THEN None ELSE req[r]]
  /\ UNCHANGED <<tables, issued, known>>

Less(x) == IF x > 0 THEN x - 1 ELSE 0

Aged(table) ==
  [s \in Sids |-> IF table[s] = None THEN None
                  ELSE [table[s] EXCEPT !.left = Less(@)]]

\* A unit of time passes.  Timing assumption: the three transactions of a
\* re-initialization, which follow each other without an await, take less
\* than one unit.
Tick ==
  /\ \A r \in Requests :
       req[r] # None => req[r].pc \notin {"addredirect", "invalidate"}
  /\ sessions' = Aged(sessions)
  /\ redirects' = Aged(redirects)
  /\ touchWait' = [n \in Nodes |-> [s \in Sids |-> Less(touchWait[n][s])]]
  /\ cleaner' = [n \in Nodes |-> [cleaner[n] EXCEPT !.wait = Less(@)]]
  /\ UNCHANGED <<issued, local, req, known>>

Handler(r) ==
  \/ InitializeApp(r) \/ RegisterSession(r)
  \/ RedirectLookup(r) \/ TargetLookup(r) \/ CallApp(r) \/ Touch(r)
  \/ ReinitApp(r) \/ ReinitRegister(r) \/ ReinitRedirect(r)
  \/ ReinitInvalidate(r) \/ Replay(r)
  \/ TerminateApp(r) \/ TerminateInvalidate(r) \/ TerminateRedirects(r)

Next ==
  \/ \E r \in Requests, n \in Nodes, o \in Owners :
       \/ Initialize(r, n, o)
       \/ \E s \in Sids : Subsequent(r, n, o, s) \/ Terminate(r, n, o, s)
  \/ \E r \in Requests : Handler(r)
  \/ \E n \in Nodes : Cleanup(n) \/ Restart(n)
  \/ Tick

Spec == Init /\ [][Next]_vars
---------------------------------------------------------------------------
(* Properties. *)

\* An id FastMCP has created and a handler is about to register.
Pending(s) ==
  \E r \in Requests : /\ req[r] # None
                      /\ req[r].pc \in {"register", "reregister"}
                      /\ req[r].new = s

\* The registry as SessionLifecycle sees it.
Holder ==
  [s \in Sids |-> IF Live(s) THEN sessions[s].owner
                  ELSE IF s > issued \/ Pending(s) THEN "fresh" ELSE "dead"]

Lifecycle == INSTANCE SessionLifecycle
               WITH holder <- Holder, Fresh <- "fresh", Dead <- "dead"

\* The registry implements the lifecycle: whatever touches, invalidations,
\* registrations and cleanups of several nodes interleave, a session that
\* expired or was invalidated never comes back (session_touch.sql's guard)
\* and a live session never changes hands.
ImplementsLifecycle == Lifecycle!Spec

\* A redirect written by _reinitialize never leads from one owner's session
\* to another owner's, though the row was validated before two awaits and
\* is not read again when the redirect is written.
RedirectOwner ==
  \A s \in Sids :
    (/\ redirects[s] # None
     /\ sessions[s] # None
     /\ sessions[redirects[s].to] # None)
    => sessions[s].owner = sessions[redirects[s].to].owner

\* The points of _handle_subsequent behind the owner check.
Validated == {"call", "touch", "reinit", "reregister", "addredirect",
              "invalidate", "replay"}

\* Whatever happens between the owner check and the end of the request, the
\* session it acts for stays its own owner's, also when it was reached
\* through a redirect.
ValidatedOwner ==
  \A r \in Requests :
    (/\ req[r] # None
     /\ req[r].pc \in Validated
     /\ sessions[req[r].sid] # None)
    => sessions[req[r].sid].owner = req[r].owner

\* While a node's debounce for a session is armed, the session's remaining
\* life has shrunk by no more than the time since the node armed it, so
\* debounced touches keep an active session alive ("active sessions never
\* expire").  It needs a database that answers: _debounced_touch arms the
\* debounce before it tries to touch.
DebounceCoversTTL ==
  \A n \in Nodes, s \in Sids :
    (Live(s) /\ touchWait[n][s] > 0)
    => sessions[s].left + (TouchDebounce - touchWait[n][s]) >= TTL

\* As long as nobody terminates a session, following redirects from an id
\* does not run into a session that is gone: the target of an unexpired
\* redirect is live, or was itself rotated and has an unexpired redirect.
ChainIntact ==
  \A s \in Sids :
    Redirected(s) => (Live(redirects[s].to) \/ Redirected(redirects[s].to))
===========================================================================
