------------------------- MODULE SessionLifecycle -------------------------
(***************************************************************************)
(* What the session registry promises about one MCP session id, seen from  *)
(* outside: the id is fresh until it is registered, then it belongs to one *)
(* owner, and once it has expired, was invalidated or failed to register   *)
(* it is dead for ever.  Nothing brings a dead id back and nothing hands a *)
(* live id to another owner.                                               *)
(***************************************************************************)
CONSTANTS Sids,     \* session ids
          Owners,   \* owner ids
          Fresh,    \* the id has not been registered yet
          Dead      \* the id can never be used again

VARIABLE holder     \* per id: Fresh, the owner it belongs to, or Dead

\* The variable stays in its type.
TypeOK == holder \in [Sids -> Owners \cup {Fresh, Dead}]

Init == holder = [s \in Sids |-> Fresh]

\* One id is registered for an owner.
Register(s, o) ==
  /\ holder[s] = Fresh
  /\ holder' = [holder EXCEPT ![s] = o]

\* Any number of ids die at once: one tick of the clock can expire several.
Retire(S) ==
  /\ holder' = [s \in Sids |-> IF s \in S THEN Dead ELSE holder[s]]

Next ==
  \/ \E s \in Sids, o \in Owners : Register(s, o)
  \/ \E S \in SUBSET Sids : Retire(S)

Spec == Init /\ [][Next]_holder
===========================================================================
