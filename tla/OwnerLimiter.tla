---------------------------- MODULE OwnerLimiter ----------------------------
(***************************************************************************)
(* The per-owner concurrency limiter of AuthMiddleware: an OrderedDict of  *)
(* counters, capped by evicting the owner that was admitted longest ago.   *)
(* The bodies of both `async with self._owner_lock` blocks contain no      *)
(* await, so admitting and releasing are atomic; between the two a request *)
(* is served for as long as it likes.                                      *)
(***************************************************************************)
EXTENDS Naturals, Sequences, FiniteSets

CONSTANTS Owners,         \* owner ids of valid tokens
          MaxConcurrent,  \* max_concurrent_per_owner
          MaxOwners,      \* _MAX_OWNERS
          MaxServing      \* bound: requests of one owner served at a time

ASSUME LimiterAssumption ==
  /\ MaxConcurrent \in Nat \ {0} /\ MaxOwners \in Nat \ {0}
  /\ MaxServing \in Nat

VARIABLES counter,  \* _owner_inflight; 0: the owner has no entry
          order,    \* the entries of _owner_inflight, least recent first
          serving,  \* how many requests of each owner are really in flight
          evicted   \* history: owners evicted since they were last idle

vars == <<counter, order, serving, evicted>>

Init ==
  /\ counter = [o \in Owners |-> 0]
  /\ order = <<>>
  /\ serving = [o \in Owners |-> 0]
  /\ evicted = {}

Positions(o) == {i \in 1..Len(order) : order[i] = o}

\* The entries without that of o, which is there at most once.
Without(o) ==
  IF Positions(o) = {} THEN order
  ELSE LET i == CHOOSE p \in Positions(o) : TRUE
       IN  [j \in 1..(Len(order) - 1) |->
              IF j < i THEN order[j] ELSE order[j + 1]]

\* Mistake: the cap evicts from the wrong end of the OrderedDict.
EnterMostRecent(o) ==
  LET moved == Append(Without(o), o)
  IN  IF Len(moved) > MaxOwners
      THEN /\ order' = Without(o)
           /\ counter' = [counter EXCEPT ![o] = 0]
      ELSE /\ order' = moved
           /\ counter' = [counter EXCEPT ![o] = @ + 1]

\* Mistake: the cap is tested before the entry is added.
EnterTestFirst(o) ==
  LET moved == Append(Without(o), o)
  IN  IF Len(order) > MaxOwners
      THEN /\ order' = Tail(moved)
           /\ counter' = [counter EXCEPT ![o] = @ + 1, ![Head(moved)] = 0]
      ELSE /\ order' = moved
           /\ counter' = [counter EXCEPT ![o] = @ + 1]

\* move_to_end, then popitem(last=False) when the dict is over its cap.
Enter(o) ==
  LET moved == Append(Without(o), o)
  IN  IF Len(moved) > MaxOwners
      THEN /\ order' = Tail(moved)
           /\ counter' = [counter EXCEPT ![o] = @ + 1, ![Head(moved)] = 0]
      ELSE /\ order' = moved
           /\ counter' = [counter EXCEPT ![o] = @ + 1]

\* Mistake: the limit is off by one.
AdmitOneMore(o) ==
  /\ serving[o] < MaxServing
  /\ counter[o] <= MaxConcurrent
  /\ Enter(o)
  /\ serving' = [serving EXCEPT ![o] = @ + 1]
  /\ evicted' = evicted \cup {x \in Owners : counter[x] > 0 /\ counter'[x] = 0}

\* A request of o passes the limiter.  At the limit it is answered 429, which
\* changes nothing.
Admit(o) ==
  /\ serving[o] < MaxServing
  /\ counter[o] < MaxConcurrent
  /\ Enter(o)
  /\ serving' = [serving EXCEPT ![o] = @ + 1]
  /\ evicted' = evicted \cup {x \in Owners : counter[x] > 0 /\ counter'[x] = 0}

\* A request ends; with its owner's last one the past evictions are over.
Leave(o) ==
  /\ serving' = [serving EXCEPT ![o] = @ - 1]
  /\ evicted' = IF serving[o] = 1 THEN evicted \ {o} ELSE evicted

\* Mistake: releasing drops the owner's entry, whatever its count.
ReleaseDropsEntry(o) ==
  /\ serving[o] > 0
  /\ Leave(o)
  /\ counter' = [counter EXCEPT ![o] = 0]
  /\ order' = Without(o)

\* Mistake: a request whose entry was evicted re-creates it on release.
ReleaseDefaultTwo(o) ==
  /\ serving[o] > 0
  /\ Leave(o)
  /\ IF counter[o] = 1
     THEN counter' = [counter EXCEPT ![o] = 0] /\ order' = Without(o)
     ELSE /\ counter' = [counter EXCEPT ![o] = IF @ = 0 THEN 1 ELSE @ - 1]
          /\ order' = IF counter[o] = 0 THEN Append(order, o) ELSE order

\* The finally block: get(owner_id, 1) - 1, and the entry goes at zero.  An
\* evicted entry counts as 1, so releasing does not bring it back.
Release(o) ==
  /\ serving[o] > 0
  /\ Leave(o)
  /\ IF counter[o] <= 1
     THEN counter' = [counter EXCEPT ![o] = 0] /\ order' = Without(o)
     ELSE counter' = [counter EXCEPT ![o] = @ - 1] /\ UNCHANGED order

Next == \E o \in Owners : Admit(o) \/ Release(o)

Spec == Init /\ [][Next]_vars

---------------------------------------------------------------------------
\* Every variable stays in its type; no counter exceeds its limit.
TypeOK ==
  /\ counter \in [Owners -> 0..MaxConcurrent]
  /\ order \in Seq(Owners)
  /\ serving \in [Owners -> 0..MaxServing]
  /\ evicted \subseteq Owners

\* The dict never holds more than _MAX_OWNERS entries, holds exactly the
\* owners with a positive count, and each of them once.
Bounded ==
  /\ Len(order) <= MaxOwners
  /\ \A o \in Owners :
       counter[o] > 0 <=> \E i \in 1..Len(order) : order[i] = o
  /\ \A i, j \in 1..Len(order) : order[i] = order[j] => i = j

\* No slot leaks: whatever is evicted and released in between, an owner is
\* never charged for more requests than it has in flight.  In particular an
\* owner without requests in flight is not locked out.
NeverOvercounts == \A o \in Owners : counter[o] <= serving[o]

\* The limiter's purpose: the counter is exact, and so the limit holds, for
\* every owner that was not evicted while it had requests in flight.
ExactUnlessEvicted == \A o \in Owners \ evicted : serving[o] = counter[o]

\* A request that gets past the limiter has been counted: the owner being
\* admitted is never the one the cap evicts.
AdmittedIsCounted ==
  [][\A o \in Owners : Admit(o) => counter'[o] = counter[o] + 1]_vars
===========================================================================
