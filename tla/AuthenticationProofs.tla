------------------------ MODULE AuthenticationProofs ------------------------
(***************************************************************************)
(* Proofs about what AuthMiddleware does to a request.                     *)
(*                                                                         *)
(* Authentication, for any threads, keys, owners and limits: the limiter   *)
(* it extends counts right, authenticating and admitting requests          *)
(* implements it, and the key cache neither accepts what is withdrawn nor  *)
(* refuses what is good.                                                   *)
(*                                                                         *)
(* UserLinking, for any sets of identities, accounts, emails and           *)
(* concurrent logins.                                                      *)
(***************************************************************************)
EXTENDS Authentication, UserLinking, TLAPS

(* The limiter.                                                            *)

\* The type invariant with the cap and the order of the OrderedDict.
LInv == TypeOK /\ Bounded /\ NeverOvercounts /\ ExactUnlessEvicted

\* Removing an owner's entry keeps the others, in their order.
LEMMA WithoutEntry ==
  ASSUME TypeOK, Bounded, NEW o \in Owners
  PROVE  /\ Without(o) \in Seq(Owners)
         /\ counter[o] = 0 => Without(o) = order
         /\ counter[o] > 0 => Len(Without(o)) = Len(order) - 1
         /\ \A x \in Owners :
              (x # o /\ counter[x] > 0)
              <=> \E i \in 1..Len(Without(o)) : Without(o)[i] = x
         /\ \A i, j \in 1..Len(Without(o)) :
              Without(o)[i] = Without(o)[j] => i = j
<1>0. Len(order) \in Nat /\ order \in Seq(Owners)
  BY DEF TypeOK
<1>1. CASE Positions(o) = {}
  <2>1. Without(o) = order /\ ~(counter[o] > 0)
    BY <1>1 DEF Without, Bounded, Positions
  <2>. QED
    BY <1>0, <2>1, LimiterAssumption DEF Bounded, TypeOK
<1>2. CASE Positions(o) # {}
  <2>. DEFINE i == CHOOSE p \in Positions(o) : TRUE
  <2>1. i \in 1..Len(order) /\ order[i] = o
    BY <1>2 DEF Positions
  <2>2. \A k \in 1..Len(order) : order[k] = o => k = i
    BY <2>1 DEF Bounded
  <2>3. Without(o) = [j \in 1..(Len(order) - 1) |->
                        IF j < i THEN order[j] ELSE order[j + 1]]
    BY <1>2 DEF Without
  <2>. HIDE DEF i
  <2>4. Len(order) - 1 \in Nat
    BY <1>0, <2>1
  <2>5. /\ Without(o) \in Seq(Owners)
        /\ Len(Without(o)) = Len(order) - 1
    BY <1>0, <2>1, <2>3, <2>4
  <2>6. ASSUME NEW x \in Owners, x # o, counter[x] > 0
        PROVE  \E j \in 1..Len(Without(o)) : Without(o)[j] = x
    <3>1. PICK k \in 1..Len(order) : order[k] = x
      BY <2>6 DEF Bounded
    <3>2. k # i
      BY <2>1, <2>6, <3>1
    <3>3. CASE k < i
      BY <1>0, <2>1, <2>3, <2>5, <3>1, <3>3
    <3>4. CASE k > i
      <4>1. k - 1 \in 1..(Len(order) - 1) /\ ~(k - 1 < i)
        BY <1>0, <2>1, <3>1, <3>4
      <4>2. Without(o)[k - 1] = order[(k - 1) + 1] /\ (k - 1) + 1 = k
        BY <1>0, <2>3, <4>1
      <4>. QED
        BY <2>5, <3>1, <4>1, <4>2
    <3>. QED
      BY <1>0, <2>1, <3>1, <3>2, <3>3, <3>4
  <2>7. ASSUME NEW x \in Owners, NEW j \in 1..Len(Without(o)), Without(o)[j] = x
        PROVE  x # o /\ counter[x] > 0
    <3>1. CASE j < i
      BY <1>0, <2>1, <2>2, <2>3, <2>5, <2>7, <3>1 DEF Bounded
    <3>2. CASE ~(j < i)
      <4>1. j + 1 \in 1..Len(order) /\ order[j + 1] = x /\ j + 1 # i
        BY <1>0, <2>1, <2>3, <2>5, <2>7, <3>2
      <4>. QED
        BY <2>2, <4>1 DEF Bounded
    <3>. QED
      BY <3>1, <3>2
  <2>8. ASSUME NEW j \in 1..Len(Without(o)), NEW k \in 1..Len(Without(o)),
               Without(o)[j] = Without(o)[k]
        PROVE  j = k
    <3>. DEFINE at(p) == IF p < i THEN p ELSE p + 1
    <3>1. /\ at(j) \in 1..Len(order) /\ at(k) \in 1..Len(order)
          /\ order[at(j)] = Without(o)[j] /\ order[at(k)] = Without(o)[k]
      BY <1>0, <2>1, <2>3, <2>5
    <3>2. at(j) = at(k)
      BY <2>8, <3>1 DEF Bounded
    <3>. QED
      BY <1>0, <2>1, <2>5, <3>2
  <2>9. counter[o] > 0
    BY <2>1 DEF Bounded
  <2>10. \A x \in Owners :
           (x # o /\ counter[x] > 0)
           <=> \E j \in 1..Len(Without(o)) : Without(o)[j] = x
    BY <2>6, <2>7
  <2>11. counter[o] # 0
    BY <2>9, LimiterAssumption DEF TypeOK
  <2>12. \A j, k \in 1..Len(Without(o)) :
           Without(o)[j] = Without(o)[k] => j = k
    BY <2>8
  <2>. QED
    BY <2>5, <2>10, <2>11, <2>12
<1>. QED
  BY <1>1, <1>2

\* Admitting keeps the dict within its cap and counts the request.
LEMMA EnterStep ==
  ASSUME TypeOK, Bounded, NEW o \in Owners, counter[o] < MaxConcurrent, Enter(o)
  PROVE  /\ order' \in Seq(Owners)
         /\ counter' \in [Owners -> 0..MaxConcurrent]
         /\ counter'[o] = counter[o] + 1
         /\ \A x \in Owners \ {o} : counter'[x] \in {counter[x], 0}
         /\ Bounded'
<1>. DEFINE w == Without(o)
            moved == Append(w, o)
<1>1. /\ w \in Seq(Owners) /\ Len(w) \in Nat /\ Len(w) <= MaxOwners
      /\ \A x \in Owners : (x # o /\ counter[x] > 0)
                          <=> \E i \in 1..Len(w) : w[i] = x
      /\ \A i, j \in 1..Len(w) : w[i] = w[j] => i = j
  <2>1. Len(w) = Len(order) \/ Len(w) = Len(order) - 1
    BY WithoutEntry, LimiterAssumption DEF TypeOK
  <2>2. Len(w) \in Nat /\ Len(order) \in Nat /\ Len(order) <= MaxOwners
    BY WithoutEntry DEF Bounded, TypeOK
  <2>3. Len(w) <= MaxOwners
    BY <2>1, <2>2, LimiterAssumption
  <2>. QED
    BY WithoutEntry, <2>2, <2>3
<1>2. counter[o] \in Nat /\ counter[o] + 1 \in 0..MaxConcurrent
  BY LimiterAssumption DEF TypeOK
<1>3. /\ moved \in Seq(Owners) /\ Len(moved) = Len(w) + 1
      /\ moved[Len(w) + 1] = o
      /\ \A i \in 1..Len(w) : moved[i] = w[i]
  BY <1>1
<1>4. \A i \in 1..Len(w) : w[i] # o
  BY <1>1
<1>. HIDE DEF w, moved
<1>5. CASE Len(moved) > MaxOwners
  <2>1. /\ order' = Tail(moved)
        /\ counter' = [counter EXCEPT ![o] = @ + 1, ![Head(moved)] = 0]
    BY <1>5 DEF Enter, w, moved
  <2>2. Len(w) > 0 /\ Len(w) = MaxOwners
    BY <1>1, <1>3, <1>5, LimiterAssumption
  <2>3. Head(moved) = w[1] /\ w[1] \in Owners /\ w[1] # o
    BY <1>1, <1>3, <1>4, <2>2
  <2>4. /\ order' \in Seq(Owners) /\ Len(order') = Len(w)
        /\ \A i \in 1..Len(w) : order'[i] = moved[i + 1]
    BY <1>1, <1>3, <2>1
  <2>5. /\ counter'[o] = counter[o] + 1 /\ counter'[w[1]] = 0
        /\ \A x \in Owners \ {o, w[1]} : counter'[x] = counter[x]
    BY <2>1, <2>3 DEF TypeOK
  <2>6. counter' \in [Owners -> 0..MaxConcurrent]
    <3>1. ASSUME NEW x \in Owners
          PROVE  counter'[x] \in 0..MaxConcurrent
      <4>1. CASE x = o
        BY <1>2, <2>5, <4>1
      <4>2. CASE x = w[1]
        BY <2>5, <4>2, LimiterAssumption
      <4>3. CASE x # o /\ x # w[1]
        BY <2>5, <4>3 DEF TypeOK
      <4>. QED
        BY <4>1, <4>2, <4>3
    <3>2. counter' = [x \in Owners |-> counter'[x]]
      BY <2>1 DEF TypeOK
    <3>. QED
      BY <3>1, <3>2
  <2>7. ASSUME NEW x \in Owners
        PROVE  counter'[x] > 0 <=> \E i \in 1..Len(order') : order'[i] = x
    <3>1. CASE x = o
      BY <1>1, <1>2, <1>3, <2>2, <2>4, <2>5, <3>1
    <3>2. CASE x = w[1]
      <4>1. \A i \in 2..Len(w) : w[i] # x
        BY <1>1, <2>2, <3>2
      <4>2. \A i \in 1..Len(w) : order'[i] # x
        BY <1>1, <1>3, <2>2, <2>3, <2>4, <3>2, <4>1
      <4>. QED
        BY <2>4, <2>5, <3>2, <4>2
    <3>3. CASE x # o /\ x # w[1]
      <4>1. counter'[x] = counter[x]
        BY <2>5, <3>3
      <4>2. ASSUME NEW i \in 1..Len(w), w[i] = x
            PROVE  \E k \in 1..Len(order') : order'[k] = x
        <5>1. i - 1 \in 1..Len(w) /\ (i - 1) + 1 = i
          BY <1>1, <3>3, <4>2
        <5>. QED
          BY <1>3, <2>4, <4>2, <5>1
      <4>3. ASSUME NEW k \in 1..Len(order'), order'[k] = x
            PROVE  \E i \in 1..Len(w) : w[i] = x
        <5>1. k \in 1..Len(w) /\ order'[k] = moved[k + 1] /\ Len(w) \in Nat
          BY <1>1, <2>4, <4>3
        <5>2. k # Len(w)
          BY <1>3, <3>3, <4>3, <5>1
        <5>3. k + 1 \in 1..Len(w)
          BY <5>1, <5>2
        <5>. QED
          BY <1>3, <4>3, <5>1, <5>3
      <4>. QED
        BY <1>1, <3>3, <4>1, <4>2, <4>3
    <3>. QED
      BY <3>1, <3>2, <3>3
  <2>8. ASSUME NEW i \in 1..Len(order'), NEW j \in 1..Len(order'),
               order'[i] = order'[j]
        PROVE  i = j
    <3>1. moved[i + 1] = moved[j + 1] /\ i \in 1..Len(w) /\ j \in 1..Len(w)
      BY <2>4, <2>8
    <3>2. CASE i = Len(w)
      BY <1>1, <1>3, <1>4, <3>1, <3>2
    <3>3. CASE j = Len(w)
      BY <1>1, <1>3, <1>4, <3>1, <3>3
    <3>4. CASE i # Len(w) /\ j # Len(w)
      <4>1. i + 1 \in 1..Len(w) /\ j + 1 \in 1..Len(w)
        BY <1>1, <3>1, <3>4
      <4>2. i + 1 = j + 1
        BY <1>1, <1>3, <3>1, <4>1
      <4>. QED
        BY <3>1, <4>2
    <3>. QED
      BY <3>2, <3>3, <3>4
  <2>9. Bounded'
    BY <1>1, <2>4, <2>7, <2>8 DEF Bounded
  <2>. QED
    BY <2>3, <2>4, <2>5, <2>6, <2>9
<1>6. CASE ~(Len(moved) > MaxOwners)
  <2>1. order' = moved /\ counter' = [counter EXCEPT ![o] = @ + 1]
    BY <1>6 DEF Enter, w, moved
  <2>2. /\ counter' \in [Owners -> 0..MaxConcurrent]
        /\ counter'[o] = counter[o] + 1
        /\ \A x \in Owners \ {o} : counter'[x] = counter[x]
    BY <1>2, <2>1 DEF TypeOK
  <2>3. ASSUME NEW x \in Owners
        PROVE  counter'[x] > 0 <=> \E i \in 1..Len(order') : order'[i] = x
    <3>1. CASE x = o
      BY <1>1, <1>2, <1>3, <2>1, <2>2, <3>1
    <3>2. CASE x # o
      <4>1. counter[x] > 0 <=> \E i \in 1..Len(w) : w[i] = x
        BY <1>1, <3>2
      <4>2. \A i \in 1..Len(order') : order'[i] = x <=> i \in 1..Len(w) /\ w[i] = x
        BY <1>1, <1>3, <2>1, <3>2
      <4>3. \A i \in 1..Len(w) : i \in 1..Len(order')
        BY <1>1, <1>3, <2>1
      <4>. QED
        BY <2>2, <3>2, <4>1, <4>2, <4>3
    <3>. QED
      BY <3>1, <3>2
  <2>4. ASSUME NEW i \in 1..Len(order'), NEW j \in 1..Len(order'),
               order'[i] = order'[j]
        PROVE  i = j
    BY <1>1, <1>3, <1>4, <2>1, <2>4
  <2>5. Len(order') <= MaxOwners
    BY <1>1, <1>3, <1>6, <2>1, LimiterAssumption
  <2>6. Bounded'
    BY <2>3, <2>4, <2>5 DEF Bounded
  <2>. QED
    BY <1>3, <2>1, <2>2, <2>6
<1>. QED
  BY <1>5, <1>6

\* The initial dict is empty.
LEMMA InitLInv == Init => LInv
BY LimiterAssumption DEF Init, LInv, TypeOK, Bounded, NeverOvercounts,
                         ExactUnlessEvicted

\* Every step keeps the invariant.
LEMMA NextLInv == LInv /\ [Next]_vars => LInv'
<1>. SUFFICES ASSUME LInv, [Next]_vars
              PROVE  LInv'
  OBVIOUS
<1>. USE DEF LInv
<1>1. ASSUME NEW o \in Owners, Admit(o)
      PROVE  LInv'
  <2>1. /\ order' \in Seq(Owners)
        /\ counter' \in [Owners -> 0..MaxConcurrent]
        /\ counter'[o] = counter[o] + 1
        /\ \A x \in Owners \ {o} : counter'[x] \in {counter[x], 0}
        /\ Bounded'
    BY <1>1, EnterStep DEF Admit
  <2>2. serving' \in [Owners -> 0..MaxServing]
    BY <1>1, LimiterAssumption DEF Admit, TypeOK
  <2>3. ASSUME NEW x \in Owners
        PROVE  counter'[x] <= serving'[x]
    <3>1. counter[x] \in Nat /\ serving[x] \in Nat /\ counter[x] <= serving[x]
      BY LimiterAssumption DEF TypeOK, NeverOvercounts
    <3>2. serving'[x] = IF x = o THEN serving[x] + 1 ELSE serving[x]
      BY <1>1 DEF Admit, TypeOK
    <3>. QED
      BY <2>1, <3>1, <3>2
  <2>4. evicted' = evicted \cup {x \in Owners : counter[x] > 0 /\ counter'[x] = 0}
    BY <1>1 DEF Admit
  <2>5. ASSUME NEW x \in Owners \ evicted'
        PROVE  serving'[x] = counter'[x]
    <3>1. counter[x] \in Nat /\ serving[x] = counter[x]
      BY <2>4, <2>5, LimiterAssumption DEF TypeOK, ExactUnlessEvicted
    <3>2. serving'[x] = IF x = o THEN serving[x] + 1 ELSE serving[x]
      BY <1>1 DEF Admit, TypeOK
    <3>3. x # o => counter'[x] = counter[x]
      BY <2>1, <2>4, <2>5, <3>1
    <3>. QED
      BY <2>1, <3>1, <3>2, <3>3
  <2>. QED
    BY <2>1, <2>2, <2>3, <2>4, <2>5 DEF TypeOK, NeverOvercounts, ExactUnlessEvicted
<1>2. ASSUME NEW o \in Owners, Release(o)
      PROVE  LInv'
  <2>1. serving' \in [Owners -> 0..MaxServing] /\ evicted' \subseteq Owners
    BY <1>2, LimiterAssumption DEF Release, Leave, TypeOK
  <2>2. counter[o] \in Nat
    BY LimiterAssumption DEF TypeOK
  <2>3. CASE counter[o] <= 1
    <3>1. counter' = [counter EXCEPT ![o] = 0] /\ order' = Without(o)
      BY <1>2, <2>3 DEF Release
    <3>2. counter' \in [Owners -> 0..MaxConcurrent] /\ order' \in Seq(Owners)
      BY <3>1, WithoutEntry, LimiterAssumption DEF TypeOK
    <3>3. \A x \in Owners :
            counter'[x] > 0 <=> \E i \in 1..Len(order') : order'[i] = x
      <4>1. \A x \in Owners : counter'[x] > 0 <=> (x # o /\ counter[x] > 0)
        BY <3>1 DEF TypeOK
      <4>. QED
        BY <3>1, <4>1, WithoutEntry
    <3>4. Len(order') <= MaxOwners
      <4>1. Len(order') = Len(order) \/ Len(order') = Len(order) - 1
        BY <2>2, <3>1, WithoutEntry
      <4>. QED
        BY <4>1, LimiterAssumption DEF Bounded, TypeOK
    <3>5. Bounded'
      BY <3>1, <3>3, <3>4, WithoutEntry DEF Bounded
    <3>6. ASSUME NEW x \in Owners
          PROVE  counter'[x] <= serving'[x]
      <4>1. counter[x] \in Nat /\ serving[x] \in Nat /\ counter[x] <= serving[x]
        BY LimiterAssumption DEF TypeOK, NeverOvercounts
      <4>. QED
        BY <1>2, <3>1, <4>1 DEF Release, Leave, TypeOK
    <3>7. ASSUME NEW x \in Owners \ evicted'
          PROVE  serving'[x] = counter'[x]
      <4>1. counter[x] \in Nat /\ serving[x] \in Nat
        BY LimiterAssumption DEF TypeOK
      <4>2. CASE x = o
        <5>1. serving[o] = 1
          BY <1>2, <2>3, <3>7, <4>1, <4>2 DEF Release, Leave, ExactUnlessEvicted
        <5>. QED
          BY <1>2, <3>1, <4>2, <5>1 DEF Release, Leave, TypeOK
      <4>3. CASE x # o
        BY <1>2, <3>1, <3>7, <4>3 DEF Release, Leave, TypeOK, ExactUnlessEvicted
      <4>. QED
        BY <4>2, <4>3
    <3>. QED
      BY <2>1, <3>2, <3>5, <3>6, <3>7 DEF TypeOK, NeverOvercounts, ExactUnlessEvicted
  <2>4. CASE counter[o] > 1
    <3>1. counter' = [counter EXCEPT ![o] = @ - 1] /\ order' = order
      BY <1>2, <2>2, <2>4 DEF Release
    <3>2. counter' \in [Owners -> 0..MaxConcurrent]
      BY <2>4, <3>1, LimiterAssumption DEF TypeOK
    <3>3. \A x \in Owners : counter'[x] > 0 <=> counter[x] > 0
      BY <2>2, <2>4, <3>1 DEF TypeOK
    <3>4. Bounded'
      BY <3>1, <3>3 DEF Bounded
    <3>5. ASSUME NEW x \in Owners
          PROVE  counter'[x] <= serving'[x]
      <4>1. counter[x] \in Nat /\ serving[x] \in Nat /\ counter[x] <= serving[x]
        BY LimiterAssumption DEF TypeOK, NeverOvercounts
      <4>. QED
        BY <1>2, <3>1, <4>1 DEF Release, Leave, TypeOK
    <3>6. ASSUME NEW x \in Owners \ evicted'
          PROVE  serving'[x] = counter'[x]
      <4>1. counter[x] \in Nat /\ serving[x] \in Nat /\ counter[x] <= serving[x]
        BY LimiterAssumption DEF TypeOK, NeverOvercounts
      <4>2. x \notin evicted
        BY <1>2, <2>4, <3>6, <4>1 DEF Release, Leave
      <4>. QED
        BY <1>2, <3>1, <4>1, <4>2 DEF Release, Leave, TypeOK, ExactUnlessEvicted
    <3>. QED
      BY <2>1, <3>1, <3>2, <3>4, <3>5, <3>6
         DEF TypeOK, NeverOvercounts, ExactUnlessEvicted
  <2>. QED
    BY <2>2, <2>3, <2>4
<1>3. CASE UNCHANGED vars
  BY <1>3 DEF vars, TypeOK, Bounded, NeverOvercounts, ExactUnlessEvicted
<1>. QED
  BY <1>1, <1>2, <1>3 DEF Next

\* The OrderedDict of AuthMiddleware never outgrows _MAX_OWNERS, and holds
\* each owner with a positive count exactly once.
THEOREM DictIsBounded == Spec => []Bounded
<1>1. LInv => Bounded
  BY DEF LInv
<1>. QED
  BY <1>1, InitLInv, NextLInv, PTL DEF Spec

\* Eviction and the release of evicted entries never charge an owner for more
\* requests than it has in flight: nobody is locked out for good.
THEOREM NoSlotLeaks == Spec => []NeverOvercounts
<1>1. LInv => NeverOvercounts
  BY DEF LInv
<1>. QED
  BY <1>1, InitLInv, NextLInv, PTL DEF Spec

\* Within the cap the limit is exact: an owner that has not been evicted is
\* charged for precisely the requests it has in flight.
THEOREM LimitIsExact == Spec => []ExactUnlessEvicted
<1>1. LInv => ExactUnlessEvicted
  BY DEF LInv
<1>. QED
  BY <1>1, InitLInv, NextLInv, PTL DEF Spec

\* A request that is let through has been counted.
THEOREM AdmissionIsCounted == Spec => AdmittedIsCounted
<1>1. Spec => []LInv
  BY InitLInv, NextLInv, PTL DEF Spec
<1>2. LInv /\ [Next]_vars
      => [\A o \in Owners : Admit(o) => counter'[o] = counter[o] + 1]_vars
  BY EnterStep DEF LInv, Admit
<1>. QED
  BY <1>1, <1>2, PTL DEF Spec, AdmittedIsCounted

-----------------------------------------------------------------------------
(* Authentication.                                                         *)

\* The types of what Authentication adds to the limiter.
AuthType ==
  /\ life \in [Keys -> [state : States, ago : Ages]]
  /\ client \in [keys : SUBSET Keys, age : Ages]
  /\ slot \in [Slots -> Flight \cup {Free}]

Flying(s) == slot[s] # Free

\* A key fetched since the last refresh: withdrawn no earlier than that.  While
\* a client without its time is in use, all that it cached is published, or was
\* withdrawn under its eyes.
Within(k) ==
  \/ life[k].state \in {"published", "lingering"}
  \/ life[k].state = "withdrawn" /\ life[k].ago <= client.age /\ Unlocked

\* _jwks_lock is held by one thread at a time.
OneHolder ==
  \A s, t \in Slots : slot[s].at = "stamp" /\ slot[t].at = "stamp" => s = t

\* An answer on its way into the client that is in use.
Storing(s) == slot[s].at = "store" /\ slot[s].mine

\* What is cached, and what is about to be, is no older than the client.
CacheInv ==
  /\ OneHolder
  /\ \A k \in client.keys : Within(k)
  /\ \A s \in Slots : Storing(s) => \A k \in slot[s].got : Within(k)

Gone(k) == life[k].state = "withdrawn" /\ life[k].ago > TTL

\* k is neither cached nor about to be.
Purged(k) ==
  /\ k \notin client.keys
  /\ \A t \in Slots : Storing(t) => k \notin slot[t].got

\* A request whose key is long withdrawn finds no cache that holds the key,
\* unless it is about to replace that cache.
LateInv ==
  \A s \in Slots : Flying(s) /\ slot[s].late =>
    /\ Gone(slot[s].key)
    /\ slot[s].at # "found"
    /\ slot[s].at = "store" => slot[s].key \notin slot[s].got
    /\ (slot[s].at = "refresh" /\ slot[s].due) \/ Purged(slot[s].key)

\* A good token is not refused, and a fetch for it brings its key.
OwedInv ==
  \A s \in Slots : Flying(s) /\ slot[s].owed =>
    /\ life[slot[s].key].state = "published"
    /\ slot[s].at # "refused"
    /\ slot[s].at = "store" => slot[s].key \in slot[s].got

\* The client has been replaced.
Emptied == client'.keys = {} /\ \A t \in Slots : ~(Storing(t))'

---------------------------------------------------------------------------
(* The limiter. *)

\* Every step admits or releases a request as the limiter does, or leaves the
\* limiter alone.
LEMMA StepsOfLimiter == [ANext]_avars => [Next]_vars
BY DEF ANext, Next, Pass, Resolve, SelfSigned, avars

\* Authentication implements the limiter: what is proved of OwnerLimiter holds
\* of requests that come through AuthMiddleware.
THEOREM ImplementsLimiter == ASpec => Spec
<1>1. AInit => Init
  BY DEF AInit
<1>. QED
  BY <1>1, StepsOfLimiter, PTL DEF ASpec, Spec

---------------------------------------------------------------------------
(* Types. *)

\* A thread at one of its stages is a flight, with a flight's fields.
LEMMA Fields ==
  ASSUME AuthType, NEW s \in Slots, Flying(s)
  PROVE  /\ slot[s] \in Flight
         /\ slot[s].key \in Keys /\ slot[s].got \in SUBSET Keys
         /\ slot[s].due \in BOOLEAN /\ slot[s].mine \in BOOLEAN
         /\ slot[s].late \in BOOLEAN /\ slot[s].owed \in BOOLEAN
BY DEF AuthType, Flying, Flight

\* A stage is not that of a free thread.
LEMMA StageIsFlying ==
  ASSUME NEW s \in Slots, slot[s].at \in Stages
  PROVE  Flying(s)
BY DEF Stages, Flying, Free

\* The cached keys and the time stay in their types.
LEMMA CacheType ==
  ASSUME AuthType, NEW s \in Slots, NEW keys \in SUBSET Keys, Cache(s, keys)
  PROVE  client' \in [keys : SUBSET Keys, age : Ages] /\ client'.age = client.age
BY DEF AuthType, Cache

\* Times stay in their range and in their order.
LEMMA OlderOrder ==
  ASSUME NEW m \in Ages, NEW n \in Ages
  PROVE  /\ Older(m) \in Ages
         /\ m <= n => Older(m) <= Older(n)
         /\ m > TTL => Older(m) > TTL
BY AuthenticationAssumption DEF Ages, Older

\* What Refresh does, by the outcome of the double check.
LEMMA RefreshCases ==
  ASSUME NEW s \in Slots, Refresh(s)
  PROVE  /\ life' = life
         /\ \/ /\ client' = [client EXCEPT !.keys = {}]
               /\ slot' = [t \in Slots |->
                             IF slot[t] = Free THEN Free
                             ELSE [slot[t] EXCEPT !.mine = FALSE,
                                     !.at = IF t = s THEN "stamp" ELSE @]]
            \/ /\ slot' = [slot EXCEPT ![s].at = "lookup"]
               /\ ~slot[s].due
               /\ client' = client
BY Zenon DEF Refresh

\* A flight moves to another stage.
LEMMA Moves ==
  ASSUME AuthType, NEW s \in Slots, Flying(s), NEW a \in Stages,
         NEW g \in SUBSET Keys, NEW o \in BOOLEAN, NEW m \in BOOLEAN
  PROVE  /\ [slot[s] EXCEPT !.at = a] \in Flight
         /\ [slot[s] EXCEPT !.at = a, !.got = g] \in Flight
         /\ [slot[s] EXCEPT !.at = a, !.owed = o] \in Flight
         /\ [slot[s] EXCEPT !.mine = m, !.at = a] \in Flight
         /\ [slot[s] EXCEPT !.owed = o] \in Flight
<1>1. slot[s] \in Flight
  BY Fields
<1>. QED
  BY <1>1 DEF Flight

\* The thread of one slot moves on.
LEMMA SlotType ==
  ASSUME AuthType, NEW s \in Slots, NEW f \in Flight, slot' = [slot EXCEPT ![s] = f]
  PROVE  slot' \in [Slots -> Flight \cup {Free}]
BY DEF AuthType

\* Every step keeps the types.
LEMMA AuthTypeStep == AuthType /\ [ANext]_avars => AuthType'
<1>. SUFFICES ASSUME AuthType, [ANext]_avars
              PROVE  AuthType'
  OBVIOUS
<1>1. ASSUME NEW s \in Slots, NEW k \in Keys, Validate(s, k)
      PROVE  AuthType'
  <2>1. [at |-> IF client.age > TTL THEN "refresh" ELSE "lookup",
         key |-> k, due |-> client.age > TTL, mine |-> FALSE, got |-> {},
         late |-> life[k].state = "withdrawn" /\ life[k].ago > TTL,
         owed |-> k \in Published] \in Flight
    BY DEF Flight, Stages
  <2>. QED
    BY <1>1, <2>1 DEF Validate, AuthType
<1>2. ASSUME NEW s \in Slots, Refresh(s)
      PROVE  AuthType'
  <2>1. Flying(s)
    BY <1>2, StageIsFlying DEF Refresh, Stages
  <2>2. "lookup" \in Stages /\ "stamp" \in Stages
    BY DEF Stages
  <2>3. client' \in [keys : SUBSET Keys, age : Ages]
    <3>1. client' = [client EXCEPT !.keys = {}] \/ client' = client
      BY <1>2, RefreshCases, Zenon
    <3>2. client \in [keys : SUBSET Keys, age : Ages]
      BY DEF AuthType
    <3>. QED
      BY <3>1, <3>2
  <2>4. [slot[s] EXCEPT !.at = "lookup"] \in Flight
    BY <2>1, <2>2, Moves
  <2>5. ASSUME NEW t \in Slots, Flying(t)
        PROVE  [slot[t] EXCEPT !.mine = FALSE,
                  !.at = IF t = s THEN "stamp" ELSE @] \in Flight
    <3>1. slot[t] \in Flight
      BY <2>5, Fields
    <3>. QED
      BY <2>2, <3>1 DEF Flight
  <2>6. slot' \in [Slots -> Flight \cup {Free}]
    <3>1. CASE slot' = [slot EXCEPT ![s].at = "lookup"]
      <4>1. slot' = [slot EXCEPT ![s] = [slot[s] EXCEPT !.at = "lookup"]]
        BY <3>1
      <4>. QED
        BY <2>4, <4>1, SlotType
    <3>2. CASE slot' = [t \in Slots |->
                          IF slot[t] = Free THEN Free
                          ELSE [slot[t] EXCEPT !.mine = FALSE,
                                  !.at = IF t = s THEN "stamp" ELSE @]]
      BY <2>5, <3>2 DEF Flying
    <3>. QED
      BY <1>2, <3>1, <3>2, RefreshCases, Zenon
  <2>. QED
    BY <1>2, <2>3, <2>6, RefreshCases DEF AuthType
<1>7. ASSUME NEW s \in Slots, Stamp(s)
      PROVE  AuthType'
  <2>1. "lookup" \in Stages /\ 0 \in Ages /\ "withdrawn" \in States
    BY AuthenticationAssumption DEF Stages, Ages, States
  <2>2. client' \in [keys : SUBSET Keys, age : Ages]
    BY <1>7, <2>1 DEF Stamp, AuthType
  <2>3. life' \in [Keys -> [state : States, ago : Ages]]
    BY <1>7, <2>1 DEF Stamp, AuthType
  <2>4. ASSUME NEW t \in Slots, Flying(t)
        PROVE  [slot[t] EXCEPT !.due = FALSE,
                  !.at = IF t = s THEN "lookup" ELSE @] \in Flight
    <3>1. slot[t] \in Flight
      BY <2>4, Fields
    <3>. QED
      BY <2>1, <3>1 DEF Flight
  <2>5. slot' \in [Slots -> Flight \cup {Free}]
    BY <1>7, <2>4 DEF Stamp, Flying
  <2>. QED
    BY <2>2, <2>3, <2>5 DEF AuthType
<1>3. ASSUME NEW s \in Slots, Lookup(s)
      PROVE  AuthType'
  <2>1. Flying(s)
    BY <1>3, StageIsFlying DEF Lookup, Stages
  <2>. DEFINE a == IF slot[s].key \in client.keys THEN "found" ELSE "fetch"
  <2>2. a \in Stages
    BY DEF Stages
  <2>3. slot' = [slot EXCEPT ![s] = [slot[s] EXCEPT !.mine = TRUE, !.at = a]]
    BY <1>3 DEF Lookup
  <2>. HIDE DEF a
  <2>. QED
    BY <1>3, <2>1, <2>2, <2>3, Moves, SlotType DEF Lookup, AuthType
<1>4. ASSUME NEW s \in Slots, Fetch(s)
      PROVE  AuthType'
  <2>1. Flying(s) /\ "store" \in Stages /\ Published \in SUBSET Keys
    BY <1>4, StageIsFlying DEF Fetch, Stages, Published
  <2>2. slot' = [slot EXCEPT ![s] = [slot[s] EXCEPT !.at = "store", !.got = Published]]
    BY <1>4 DEF Fetch
  <2>. QED
    BY <1>4, <2>1, <2>2, Moves, SlotType DEF Fetch, AuthType
<1>5. ASSUME NEW s \in Slots, FetchFails(s) \/ ClaimsFail(s)
      PROVE  AuthType'
  <2>1. Flying(s) /\ "refused" \in Stages
    BY <1>5, StageIsFlying DEF FetchFails, ClaimsFail, Stages
  <2>2. client' \in [keys : SUBSET Keys, age : Ages]
    BY <1>5, CacheType DEF FetchFails, ClaimsFail, AuthType
  <2>3. slot' = [slot EXCEPT ![s] = [slot[s] EXCEPT !.at = "refused", !.owed = FALSE]]
    BY <1>5 DEF FetchFails, ClaimsFail
  <2>. QED
    BY <1>5, <2>1, <2>2, <2>3, Moves, SlotType DEF FetchFails, ClaimsFail, AuthType
<1>6. ASSUME NEW s \in Slots, Store(s)
      PROVE  AuthType'
  <2>1. Flying(s) /\ slot[s].got \in SUBSET Keys
    BY <1>6, StageIsFlying, Fields DEF Store, Stages
  <2>2. client' \in [keys : SUBSET Keys, age : Ages]
    BY <1>6, <2>1, CacheType DEF Store
  <2>. DEFINE a == IF slot[s].key \in slot[s].got THEN "found" ELSE "refused"
  <2>3. a \in Stages
    BY DEF Stages
  <2>4. slot' = [slot EXCEPT ![s] = [slot[s] EXCEPT !.at = a]]
    BY <1>6 DEF Store
  <2>. HIDE DEF a
  <2>. QED
    BY <1>6, <2>1, <2>2, <2>3, <2>4, Moves, SlotType DEF Store, AuthType
<1>8. ASSUME NEW s \in Slots, Unauthorized(s) \/ Resolve(s)
      PROVE  AuthType'
  BY <1>8 DEF Unauthorized, Resolve, AuthType
<1>9. ASSUME NEW k \in Keys, Publish(k)
      PROVE  AuthType'
  BY <1>9 DEF Publish, AuthType, States
<1>10. ASSUME NEW k \in Keys, Withdraw(k)
       PROVE  AuthType'
  <2>1. life' \in [Keys -> [state : States, ago : Ages]]
    BY <1>10, AuthenticationAssumption DEF Withdraw, AuthType, Ages, States
  <2>2. ASSUME NEW f \in Flight
        PROVE  [f EXCEPT !.owed = FALSE] \in Flight
    BY DEF Flight
  <2>3. slot' \in [Slots -> Flight \cup {Free}]
    BY <1>10, <2>2 DEF Withdraw, AuthType
  <2>. QED
    BY <1>10, <2>1, <2>3 DEF Withdraw, AuthType
<1>11. ASSUME Forget
       PROVE  AuthType'
  BY <1>11 DEF Forget, AuthType
<1>12. ASSUME Tick
       PROVE  AuthType'
  BY <1>12, OlderOrder DEF Tick, AuthType
<1>13. ASSUME UNCHANGED authVars
       PROVE  AuthType'
  BY <1>13 DEF authVars, AuthType
<1>. QED
  BY <1>1, <1>2, <1>3, <1>4, <1>5, <1>6, <1>7, <1>8, <1>9, <1>10, <1>11, <1>12, <1>13
     DEF ANext, Thread, Environment, SelfSigned, avars

\* No thread is busy and nothing is cached when a process begins.
LEMMA InitAuth == AInit => AuthType /\ CacheInv /\ LateInv /\ OwedInv
<1>. SUFFICES ASSUME AInit
              PROVE  AuthType /\ CacheInv /\ LateInv /\ OwedInv
  OBVIOUS
<1>1. 0 \in Ages
  BY AuthenticationAssumption DEF Ages
<1>2. AuthType
  BY <1>1 DEF AInit, AuthType, States
<1>3. client.keys = {}
  BY DEF AInit
<1>4. \A s \in Slots : slot[s] = Free /\ slot[s].at # "stamp" /\ ~Storing(s)
  BY DEF AInit, Storing, Free
<1>. QED
  BY <1>2, <1>3, <1>4 DEF CacheInv, OneHolder, LateInv, OwedInv, Flying

\* The variables have their types.
THEOREM ATypeCorrect == ASpec => []ATypeOK
<1>1. AInit => AuthType
  BY InitAuth
<1>2. AInit => jwks \in Discovered
  BY DEF AInit
<1>3. jwks \in Discovered /\ [ANext]_avars => (jwks \in Discovered)'
  BY DEF ANext, avars
<1>4. LInv /\ AuthType /\ jwks \in Discovered => ATypeOK
  BY DEF LInv, ATypeOK, AuthType
<1>. QED
  BY <1>1, <1>2, <1>3, <1>4, AuthTypeStep, ImplementsLimiter, InitLInv, NextLInv, PTL
     DEF ASpec, Spec

---------------------------------------------------------------------------
(* The cache of keys. *)

\* Whoever replaces the client leaves no answer that could still reach it.
LEMMA RefreshEnds ==
  ASSUME AuthType, NEW s \in Slots, NEW t \in Slots,
         slot' = [u \in Slots |->
                   IF slot[u] = Free THEN Free
                   ELSE [slot[u] EXCEPT !.mine = FALSE,
                           !.at = IF u = s THEN "stamp" ELSE @]]
  PROVE  ~(Storing(t))'
<1>1. CASE slot[t] = Free
  BY <1>1 DEF Storing, Free
<1>2. CASE slot[t] # Free
  <2>1. slot[t] \in Flight
    BY <1>2, Fields DEF Flying
  <2>. QED
    BY <1>2, <2>1 DEF Storing, Flight
<1>. QED
  BY <1>1, <1>2

\* Where cached keys come from: they are dropped, kept, or an answer that was
\* on its way into the client; and an answer holds what was published.
LEMMA CacheEffect ==
  ASSUME AuthType, [ANext]_avars
  PROVE  /\ \/ client'.keys \in {{}, client.keys}
            \/ \E s \in Slots : Storing(s) /\ client'.keys = slot[s].got
         /\ \A t \in Slots : (Storing(t))' =>
              \/ Storing(t) /\ slot'[t].got = slot[t].got
              \/ slot'[t].got = Published
<1>1. ASSUME NEW s \in Slots, NEW k \in Keys, Validate(s, k)
      PROVE  /\ client' = client
             /\ \A t \in Slots : (Storing(t))' => Storing(t) /\ slot'[t].got = slot[t].got
  BY <1>1 DEF Validate, AuthType, Storing
<1>2. ASSUME NEW s \in Slots, Refresh(s)
      PROVE  /\ client'.keys \in {{}, client.keys}
             /\ \A t \in Slots : (Storing(t))' => Storing(t) /\ slot'[t].got = slot[t].got
  <2>1. CASE /\ client' = [client EXCEPT !.keys = {}]
             /\ slot' = [t \in Slots |->
                           IF slot[t] = Free THEN Free
                           ELSE [slot[t] EXCEPT !.mine = FALSE,
                                   !.at = IF t = s THEN "stamp" ELSE @]]
    <3>1. ASSUME NEW t \in Slots, (Storing(t))'
          PROVE  FALSE
      BY <2>1, <3>1, RefreshEnds
    <3>2. client'.keys = {}
      BY <2>1 DEF AuthType
    <3>. QED
      BY <3>1, <3>2
  <2>2. CASE slot' = [slot EXCEPT ![s].at = "lookup"] /\ client' = client
    <3>1. slot[s] \in Flight
      BY <1>2, StageIsFlying, Fields DEF Refresh, Stages
    <3>. QED
      BY <2>2, <3>1 DEF AuthType, Flight, Storing
  <2>. QED
    BY <1>2, <2>1, <2>2, RefreshCases
<1>3. ASSUME NEW s \in Slots, Lookup(s)
      PROVE  /\ client' = client
             /\ \A t \in Slots : (Storing(t))' => Storing(t) /\ slot'[t].got = slot[t].got
  BY <1>3, StageIsFlying, Fields DEF Lookup, AuthType, Flight, Stages, Storing
<1>4. ASSUME NEW s \in Slots, ClaimsFail(s) \/ Unauthorized(s) \/ Resolve(s)
      PROVE  /\ client' = client
             /\ \A t \in Slots : (Storing(t))' => Storing(t) /\ slot'[t].got = slot[t].got
  <2>1. CASE ClaimsFail(s)
    BY <2>1 DEF ClaimsFail, AuthType, Storing
  <2>2. CASE Unauthorized(s) \/ Resolve(s)
    BY <2>2 DEF Unauthorized, Resolve, AuthType, Storing, Free
  <2>. QED
    BY <1>4, <2>1, <2>2
<1>5. ASSUME NEW s \in Slots, Fetch(s)
      PROVE  /\ client' = client
             /\ \A t \in Slots : (Storing(t))' =>
                  \/ Storing(t) /\ slot'[t].got = slot[t].got
                  \/ slot'[t].got = Published
  BY <1>5 DEF Fetch, AuthType, Storing
<1>6. ASSUME NEW s \in Slots, FetchFails(s)
      PROVE  /\ client'.keys \in {{}, client.keys}
             /\ \A t \in Slots : (Storing(t))' => Storing(t) /\ slot'[t].got = slot[t].got
  BY <1>6 DEF FetchFails, Cache, AuthType, Storing
<1>7. ASSUME NEW s \in Slots, Store(s)
      PROVE  /\ client'.keys = client.keys \/ (Storing(s) /\ client'.keys = slot[s].got)
             /\ \A t \in Slots : (Storing(t))' => Storing(t) /\ slot'[t].got = slot[t].got
  <2>1. client'.keys = client.keys \/ (Storing(s) /\ client'.keys = slot[s].got)
    BY <1>7 DEF Store, Cache, Storing, AuthType
  <2>2. \A t \in Slots : (Storing(t))' => Storing(t) /\ slot'[t].got = slot[t].got
    BY <1>7 DEF Store, AuthType, Storing
  <2>. QED
    BY <2>1, <2>2
<1>8. ASSUME NEW k \in Keys, Withdraw(k)
      PROVE  /\ client' = client
             /\ \A t \in Slots : (Storing(t))' => Storing(t) /\ slot'[t].got = slot[t].got
  BY <1>8 DEF Withdraw, AuthType, Flight, Storing
<1>10. ASSUME NEW s \in Slots, Stamp(s)
       PROVE  /\ client'.keys = client.keys
              /\ \A t \in Slots : (Storing(t))' => Storing(t) /\ slot'[t].got = slot[t].got
  <2>1. client'.keys = client.keys
    BY <1>10 DEF Stamp, AuthType
  <2>2. ASSUME NEW t \in Slots, (Storing(t))'
        PROVE  Storing(t) /\ slot'[t].got = slot[t].got
    <3>1. slot'[t] = [slot[t] EXCEPT !.due = FALSE, !.at = IF t = s THEN "lookup" ELSE @]
          /\ slot[t] # Free
      BY <1>10, <2>2 DEF Stamp, Storing, Free
    <3>2. slot[t] \in Flight
      BY <3>1, Fields DEF Flying
    <3>. QED
      BY <2>2, <3>1, <3>2 DEF Flight, Storing
  <2>. QED
    BY <2>1, <2>2
<1>9. ASSUME \/ \E k \in Keys : Publish(k)
             \/ Forget \/ Tick \/ UNCHANGED authVars
      PROVE  client'.keys \in {{}, client.keys} /\ slot' = slot
  BY <1>9 DEF Publish, Forget, Tick, authVars, AuthType
<1>. QED
  BY <1>1, <1>2, <1>3, <1>4, <1>5, <1>6, <1>7, <1>8, <1>9, <1>10
     DEF ANext, Thread, Environment, SelfSigned, avars, Storing

\* What a step does to the lock: only the thread that replaces the client takes
\* it, when it is free, and only that thread gives it back.
LEMMA LockSteps ==
  ASSUME AuthType, CacheInv, [ANext]_avars
  PROVE  /\ OneHolder'
         /\ \/ Unlocked => Unlocked'
            \/ client'.keys = {} /\ \A t \in Slots : ~(Storing(t))'
<1>. USE DEF CacheInv, OneHolder, Unlocked
<1>1. ASSUME \A s \in Slots : slot'[s].at = "stamp" => slot[s].at = "stamp"
      PROVE  OneHolder' /\ (Unlocked => Unlocked')
  BY <1>1
<1>2. ASSUME NEW s \in Slots, Refresh(s)
      PROVE  /\ OneHolder'
             /\ \/ Unlocked => Unlocked'
                \/ client'.keys = {} /\ \A t \in Slots : ~(Storing(t))'
  <2>1. CASE /\ client' = [client EXCEPT !.keys = {}]
             /\ slot' = [t \in Slots |->
                           IF slot[t] = Free THEN Free
                           ELSE [slot[t] EXCEPT !.mine = FALSE,
                                   !.at = IF t = s THEN "stamp" ELSE @]]
    <3>1. Unlocked
      BY <1>2 DEF Refresh
    <3>2. ASSUME NEW t \in Slots, slot'[t].at = "stamp" PROVE t = s
      <4>1. slot[t] # Free => slot[t] \in Flight
        BY Fields DEF Flying
      <4>. QED
        BY <2>1, <3>1, <3>2, <4>1 DEF Flight, Free
    <3>3. client'.keys = {} /\ \A t \in Slots : ~(Storing(t))'
      BY <2>1, RefreshEnds DEF AuthType
    <3>. QED
      BY <3>2, <3>3
  <2>2. CASE slot' = [slot EXCEPT ![s].at = "lookup"]
    <3>1. \A t \in Slots : slot'[t].at = "stamp" => slot[t].at = "stamp"
      BY <1>2, <2>2, StageIsFlying, Fields DEF Refresh, Stages, AuthType, Flight
    <3>. QED
      BY <1>1, <3>1
  <2>. QED
    BY <1>2, <2>1, <2>2, RefreshCases, Zenon
<1>3. ASSUME NEW s \in Slots, Stamp(s)
      PROVE  \A t \in Slots : slot'[t].at = "stamp" => slot[t].at = "stamp"
  <2>1. ASSUME NEW t \in Slots, slot'[t].at = "stamp" PROVE slot[t].at = "stamp"
    <3>1. slot[t] # Free => slot[t] \in Flight
      BY Fields DEF Flying
    <3>. QED
      BY <1>3, <2>1, <3>1 DEF Stamp, Flight, Free
  <2>. QED
    BY <2>1
<1>4. ASSUME NEW s \in Slots,
             \/ Lookup(s) \/ Fetch(s) \/ FetchFails(s) \/ Store(s) \/ ClaimsFail(s)
      PROVE  \A t \in Slots : slot'[t].at = "stamp" => slot[t].at = "stamp"
  <2>1. \A t \in Slots \ {s} : slot'[t] = slot[t]
    BY <1>4 DEF Lookup, Fetch, FetchFails, Store, ClaimsFail, AuthType
  <2>2. slot[s] \in Flight
    BY <1>4, StageIsFlying, Fields
       DEF Lookup, Fetch, FetchFails, Store, ClaimsFail, Stages
  <2>3. slot'[s].at # "stamp"
    BY <1>4, <2>2 DEF Lookup, Fetch, FetchFails, Store, ClaimsFail, AuthType, Flight
  <2>. QED
    BY <2>1, <2>3
<1>5. ASSUME NEW s \in Slots,
             (\E k \in Keys : Validate(s, k)) \/ Unauthorized(s) \/ Resolve(s)
      PROVE  \A t \in Slots : slot'[t].at = "stamp" => slot[t].at = "stamp"
  BY <1>5 DEF Validate, Unauthorized, Resolve, AuthType, Free
<1>6. ASSUME NEW k \in Keys, Withdraw(k)
      PROVE  \A t \in Slots : slot'[t].at = "stamp" => slot[t].at = "stamp"
  BY <1>6 DEF Withdraw, AuthType, Flight
<1>7. ASSUME slot' = slot
      PROVE  \A t \in Slots : slot'[t].at = "stamp" => slot[t].at = "stamp"
  BY <1>7
<1>8. CASE \E s \in Slots : Thread(s) \/ Resolve(s)
  BY <1>1, <1>2, <1>3, <1>4, <1>5, <1>8 DEF Thread
<1>9. CASE Environment \/ UNCHANGED authVars
  BY <1>1, <1>6, <1>7, <1>9 DEF Environment, Publish, Forget, Tick, authVars
<1>. QED
  BY <1>8, <1>9 DEF ANext, SelfSigned, avars

\* Time passes for the client and for a withdrawn key alike; the client becomes
\* younger only when its time is noted, and then what it has cached is published
\* or withdrawn just now.
LEMMA WithinStays ==
  ASSUME AuthType, CacheInv, [ANext]_avars
  PROVE  \/ \A x \in Keys : Within(x) => (Within(x))'
         \/ client'.keys = {} /\ \A t \in Slots : ~(Storing(t))'
<1>. SUFFICES ASSUME Unlocked => Unlocked', NEW x \in Keys, Within(x)
              PROVE  (Within(x))'
  BY LockSteps
<1>1. CASE life' = life /\ client'.age = client.age
  BY <1>1 DEF Within
<1>2. CASE \E s \in Slots : Stamp(s)
  <2>1. PICK s \in Slots : Stamp(s)
    BY <1>2
  <2>2. ~Unlocked /\ Unlocked'
    <3>1. ~Unlocked
      BY <2>1 DEF Stamp, Unlocked
    <3>2. ASSUME NEW t \in Slots PROVE slot'[t].at # "stamp"
      <4>1. slot[t] # Free => slot[t] \in Flight
        BY Fields DEF Flying
      <4>2. slot[t].at = "stamp" => t = s
        BY <2>1 DEF Stamp, CacheInv, OneHolder
      <4>. QED
        BY <2>1, <4>1, <4>2 DEF Stamp, Flight, Free
    <3>. QED
      BY <3>1, <3>2 DEF Unlocked
  <2>3. life[x].state \in {"published", "lingering"}
    BY <2>2 DEF Within
  <2>4. client'.age = 0
    BY <2>1 DEF Stamp, AuthType
  <2>5. CASE life[x].state = "published"
    BY <2>1, <2>5 DEF Stamp, Within
  <2>6. CASE life[x].state = "lingering"
    <3>1. life'[x].state = "withdrawn" /\ life'[x].ago = 0
      BY <2>1, <2>6 DEF Stamp
    <3>. QED
      BY <2>2, <2>4, <3>1 DEF Within
  <2>. QED
    BY <2>3, <2>5, <2>6
<1>3. CASE \E k \in Keys : Publish(k)
  BY <1>3 DEF Publish, AuthType, Within
<1>4. CASE \E k \in Keys : Withdraw(k)
  <2>1. client' = client /\ 0 <= client.age
    BY <1>4, AuthenticationAssumption DEF Withdraw, AuthType, Ages
  <2>. QED
    BY <1>4, <2>1 DEF Withdraw, AuthType, Within
<1>5. CASE Tick
  <2>1. client'.age = Older(client.age)
    BY <1>5 DEF Tick, AuthType
  <2>2. CASE life[x].state \in {"published", "lingering"}
    BY <1>5, <2>2 DEF Tick, AuthType, Within
  <2>3. CASE life[x].state = "withdrawn" /\ life[x].ago <= client.age /\ Unlocked
    <3>1. life'[x].state = "withdrawn" /\ life'[x].ago = Older(life[x].ago)
      BY <1>5, <2>3 DEF Tick, AuthType
    <3>2. Older(life[x].ago) <= Older(client.age)
      BY <2>3, OlderOrder DEF AuthType
    <3>. QED
      BY <2>1, <2>3, <3>1, <3>2 DEF Within
  <2>. QED
    BY <2>2, <2>3 DEF Within
<1>6. CASE \E s \in Slots : FetchFails(s) \/ Store(s)
  <2>1. life' = life /\ client'.age = client.age
    BY <1>6 DEF FetchFails, Store, Cache, AuthType
  <2>. QED
    BY <1>1, <2>1
<1>7. CASE Forget
  <2>1. life' = life /\ client'.age = client.age
    BY <1>7 DEF Forget, AuthType
  <2>. QED
    BY <1>1, <2>1
<1>8. CASE \E s \in Slots : Refresh(s)
  <2>1. life' = life /\ client'.age = client.age
    BY <1>8 DEF Refresh, AuthType
  <2>. QED
    BY <1>1, <2>1
<1>9. CASE \E s \in Slots :
             \/ \E k \in Keys : Validate(s, k)
             \/ Lookup(s) \/ Fetch(s) \/ ClaimsFail(s) \/ Unauthorized(s) \/ Resolve(s)
  BY <1>1, <1>9 DEF Validate, Lookup, Fetch, ClaimsFail, Unauthorized, Resolve
<1>10. CASE UNCHANGED authVars
  BY <1>1, <1>10 DEF authVars
<1>. QED
  BY <1>2, <1>3, <1>4, <1>5, <1>6, <1>7, <1>8, <1>9, <1>10
     DEF ANext, Thread, Environment, SelfSigned, avars

\* Keys in the client, and in answers for it, are keys.
LEMMA CachedAreKeys ==
  ASSUME AuthType
  PROVE  /\ client.keys \in SUBSET Keys
         /\ \A t \in Slots : Storing(t) => slot[t].got \in SUBSET Keys
<1>1. client.keys \in SUBSET Keys
  BY DEF AuthType
<1>2. \A t \in Slots : Storing(t) => slot[t].got \in SUBSET Keys
  BY StageIsFlying, Fields DEF Storing, Stages
<1>. QED
  BY <1>1, <1>2

\* What is cached or about to be cached was published after the last refresh.
LEMMA CacheStep ==
  ASSUME AuthType, CacheInv, [ANext]_avars
  PROVE  CacheInv'
<1>1. CASE client'.keys = {} /\ \A t \in Slots : ~(Storing(t))'
  BY <1>1, LockSteps DEF CacheInv
<1>2. CASE \A x \in Keys : Within(x) => (Within(x))'
  <2>1. \A x \in client'.keys : (Within(x))'
    BY <1>2, CacheEffect, CachedAreKeys DEF CacheInv
  <2>2. \A x \in Published : (Within(x))'
    BY <1>2 DEF Published, Within
  <2>3. ASSUME NEW t \in Slots, (Storing(t))', NEW x \in slot'[t].got
        PROVE  (Within(x))'
    BY <1>2, <2>2, <2>3, CacheEffect, CachedAreKeys DEF CacheInv
  <2>. QED
    BY <2>1, <2>3, LockSteps DEF CacheInv
<1>. QED
  BY <1>1, <1>2, WithinStays

\* A key that is long gone stays gone.
LEMMA GoneStays ==
  ASSUME AuthType, [ANext]_avars, NEW k \in Keys, Gone(k)
  PROVE  (Gone(k))'
<1>1. CASE life' = life
  BY <1>1 DEF Gone
<1>2. CASE \E x \in Keys : Publish(x) \/ Withdraw(x)
  BY <1>2 DEF Publish, Withdraw, AuthType, Gone
<1>3. CASE Tick
  BY <1>3, OlderOrder DEF Tick, AuthType, Gone
<1>4. CASE \E s \in Slots : Stamp(s)
  BY <1>4 DEF Stamp, AuthType, Gone
<1>. QED
  BY <1>1, <1>2, <1>3, <1>4 DEF ANext, Thread, Environment, SelfSigned, avars, authVars,
     Validate, Refresh, Lookup, Fetch, FetchFails, Store, ClaimsFail, Unauthorized,
     Resolve, Forget

\* A key that is gone and in no cache is not put into one.
LEMMA PurgedStays ==
  ASSUME AuthType, [ANext]_avars, NEW k \in Keys, Gone(k), Purged(k)
  PROVE  (Purged(k))'
<1>1. k \notin Published
  BY DEF Gone, Published
<1>2. k \notin client'.keys
  BY CacheEffect DEF Purged
<1>. QED
  BY <1>1, <1>2, CacheEffect DEF Purged

\* How a flight may move: the stages before and after, with what decides.
Moved(s) ==
  \/ slot'[s].at = slot[s].at /\ slot'[s].got = slot[s].got /\ slot'[s].due = slot[s].due
  \/ slot'[s].at = slot[s].at /\ slot'[s].got = slot[s].got /\ ~Unlocked
  \/ slot[s].at = "refresh" /\ slot'[s].at = "stamp" /\ Emptied
  \/ slot[s].at = "refresh" /\ slot'[s].at = "lookup" /\ ~slot[s].due
  \/ slot[s].at = "stamp" /\ slot'[s].at = "lookup"
  \/ slot[s].at = "lookup" /\ slot'[s].at = "found" /\ slot[s].key \in client.keys
  \/ slot[s].at = "lookup" /\ slot'[s].at = "fetch"
  \/ slot[s].at = "fetch" /\ slot'[s].at = "store" /\ slot'[s].got = Published
  \/ slot[s].at = "store" /\ slot'[s].at = "found" /\ slot[s].key \in slot[s].got
  \/ slot[s].at = "store" /\ slot'[s].at = "refused" /\ slot[s].key \notin slot[s].got
  \/ slot[s].at \in {"fetch", "found"} /\ slot'[s].at = "refused" /\ ~slot'[s].owed

\* A thread that is busy has just received a token, or it was busy with the
\* same token and has moved by one stage at most.
LEMMA FlightStep ==
  ASSUME AuthType, [ANext]_avars, NEW s \in Slots, slot'[s] # Free
  PROVE  \/ \E k \in Keys : Validate(s, k)
         \/ /\ Flying(s) /\ Moved(s)
            /\ slot'[s].key = slot[s].key /\ slot'[s].late = slot[s].late
            /\ slot'[s].owed => slot[s].owed
<1>1. CASE slot'[s] = slot[s]
  BY <1>1 DEF Flying, Moved
<1>2. ASSUME NEW t \in Slots, \E k \in Keys : Validate(t, k)
      PROVE  (\E k \in Keys : Validate(s, k)) \/ slot'[s] = slot[s]
  BY <1>2 DEF Validate, AuthType
<1>3. ASSUME NEW t \in Slots, Refresh(t), slot'[s] # slot[s]
      PROVE  /\ Flying(s) /\ Moved(s)
             /\ slot'[s].key = slot[s].key /\ slot'[s].late = slot[s].late
             /\ slot'[s].owed => slot[s].owed
  <2>1. Flying(t) /\ slot[t] \in Flight
    BY <1>3, StageIsFlying, Fields DEF Refresh, Stages
  <2>2. CASE /\ slot' = [slot EXCEPT ![t].at = "lookup"]
             /\ ~slot[t].due
             /\ client' = client
    <3>1. s = t
      BY <1>3, <2>2 DEF AuthType
    <3>2. slot'[s] = [slot[s] EXCEPT !.at = "lookup"]
      BY <2>2, <3>1 DEF AuthType
    <3>. QED
      BY <1>3, <2>1, <2>2, <3>1, <3>2 DEF Flight, Moved, Refresh
  <2>3. CASE /\ client' = [client EXCEPT !.keys = {}]
             /\ slot' = [u \in Slots |->
                           IF slot[u] = Free THEN Free
                           ELSE [slot[u] EXCEPT !.mine = FALSE,
                                   !.at = IF u = t THEN "stamp" ELSE @]]
    <3>1. Emptied
      BY <2>3, RefreshEnds DEF Emptied, AuthType
    <3>2. Flying(s) /\ slot[s] \in Flight
      BY <1>3, <2>3, Fields DEF Flying
    <3>3. slot'[s] = [slot[s] EXCEPT !.mine = FALSE,
                        !.at = IF s = t THEN "stamp" ELSE @]
      BY <2>3, <3>2 DEF Flying
    <3>4. /\ slot'[s].key = slot[s].key /\ slot'[s].late = slot[s].late
          /\ slot'[s].owed = slot[s].owed /\ slot'[s].got = slot[s].got
          /\ slot'[s].due = slot[s].due
          /\ slot'[s].at = IF s = t THEN "stamp" ELSE slot[s].at
      BY <3>2, <3>3 DEF Flight
    <3>. QED
      BY <1>3, <3>1, <3>2, <3>4 DEF Moved, Refresh
  <2>. QED
    BY <1>3, <2>2, <2>3, RefreshCases
<1>4. ASSUME NEW t \in Slots,
             \/ Lookup(t) \/ Fetch(t) \/ FetchFails(t)
             \/ Store(t) \/ ClaimsFail(t)
      PROVE  /\ slot'[s] # slot[s] => s = t
             /\ slot[t] \in Flight /\ Flying(t)
  <2>1. Flying(t)
    BY <1>4, StageIsFlying DEF Lookup, Fetch, FetchFails, Store, ClaimsFail, Stages
  <2>2. slot'[s] # slot[s] => s = t
    BY <1>4 DEF Lookup, Fetch, FetchFails, Store, ClaimsFail, AuthType
  <2>. QED
    BY <2>1, <2>2, Fields
<1>5. ASSUME Flying(s), slot[s] \in Flight, Lookup(s)
      PROVE  /\ Moved(s) /\ slot'[s].key = slot[s].key
             /\ slot'[s].late = slot[s].late /\ slot'[s].owed = slot[s].owed
  BY <1>5 DEF Lookup, AuthType, Flight, Moved
<1>6. ASSUME Flying(s), slot[s] \in Flight, Fetch(s)
      PROVE  /\ Moved(s) /\ slot'[s].key = slot[s].key
             /\ slot'[s].late = slot[s].late /\ slot'[s].owed = slot[s].owed
  BY <1>6 DEF Fetch, AuthType, Flight, Moved
<1>7. ASSUME Flying(s), slot[s] \in Flight, FetchFails(s) \/ ClaimsFail(s)
      PROVE  /\ Moved(s) /\ slot'[s].key = slot[s].key
             /\ slot'[s].late = slot[s].late /\ ~slot'[s].owed
  <2>1. slot'[s] = [slot[s] EXCEPT !.at = "refused", !.owed = FALSE]
    BY <1>7 DEF FetchFails, ClaimsFail, AuthType
  <2>2. slot[s].at \in {"fetch", "found"}
    BY <1>7 DEF FetchFails, ClaimsFail
  <2>. QED
    BY <1>7, <2>1, <2>2 DEF Flight, Moved
<1>8. ASSUME Flying(s), slot[s] \in Flight, Store(s)
      PROVE  /\ Moved(s) /\ slot'[s].key = slot[s].key
             /\ slot'[s].late = slot[s].late /\ slot'[s].owed = slot[s].owed
  BY <1>8 DEF Store, AuthType, Flight, Moved
<1>9. ASSUME NEW t \in Slots, Unauthorized(t) \/ Resolve(t)
      PROVE  slot'[s] = slot[s]
  BY <1>9 DEF Unauthorized, Resolve, AuthType
<1>10. ASSUME NEW k \in Keys, Withdraw(k), slot'[s] # slot[s]
       PROVE  /\ Flying(s) /\ Moved(s) /\ slot'[s].key = slot[s].key
              /\ slot'[s].late = slot[s].late /\ ~slot'[s].owed
  <2>1. Flying(s) /\ slot'[s] = [slot[s] EXCEPT !.owed = FALSE]
    BY <1>10 DEF Withdraw, Flying
  <2>. QED
    BY <2>1, Fields DEF Flight, Moved
<1>11. ASSUME (\E k \in Keys : Publish(k)) \/ Forget \/ Tick \/ UNCHANGED authVars
       PROVE  slot'[s] = slot[s]
  BY <1>11 DEF Publish, Forget, Tick, authVars
<1>12. ASSUME NEW t \in Slots,
              \/ Lookup(t) \/ Fetch(t) \/ FetchFails(t)
              \/ Store(t) \/ ClaimsFail(t)
       PROVE  \/ slot'[s] = slot[s]
              \/ /\ Flying(s) /\ Moved(s)
                 /\ slot'[s].key = slot[s].key /\ slot'[s].late = slot[s].late
                 /\ slot'[s].owed => slot[s].owed
  BY <1>4, <1>5, <1>6, <1>7, <1>8, <1>12
<1>16. ASSUME NEW t \in Slots, Stamp(t)
       PROVE  \/ slot'[s] = slot[s]
              \/ /\ Flying(s) /\ Moved(s)
                 /\ slot'[s].key = slot[s].key /\ slot'[s].late = slot[s].late
                 /\ slot'[s].owed => slot[s].owed
  <2>1. ~Unlocked
    BY <1>16 DEF Stamp, Unlocked
  <2>2. Flying(s) /\ slot[s] \in Flight
    BY <1>16, Fields DEF Stamp, Flying
  <2>3. slot'[s] = [slot[s] EXCEPT !.due = FALSE, !.at = IF s = t THEN "lookup" ELSE @]
    BY <1>16, <2>2 DEF Stamp, Flying
  <2>. QED
    BY <1>16, <2>1, <2>2, <2>3 DEF Stamp, Flight, Moved
<1>13. CASE \E t \in Slots : Thread(t)
  BY <1>1, <1>2, <1>3, <1>9, <1>12, <1>13, <1>16 DEF Thread
<1>14. CASE Environment
  BY <1>1, <1>10, <1>11, <1>14 DEF Environment
<1>15. CASE (\E t \in Slots : Resolve(t)) \/ UNCHANGED authVars
  BY <1>1, <1>9, <1>11, <1>15
<1>. QED
  BY <1>13, <1>14, <1>15 DEF ANext, SelfSigned, avars

\* A request is owed nothing any more once its key is withdrawn.
LEMMA OwedPublished ==
  ASSUME AuthType, [ANext]_avars, NEW s \in Slots, Flying(s), slot'[s].owed,
         slot'[s] # Free, NEW k \in Keys, k = slot[s].key, life[k].state = "published"
  PROVE  life'[k].state = "published"
<1>1. CASE life' = life
  BY <1>1
<1>2. CASE \E x \in Keys : Publish(x)
  BY <1>2 DEF Publish, AuthType
<1>3. CASE \E x \in Keys : Withdraw(x)
  <2>1. PICK x \in Keys : Withdraw(x)
    BY <1>3
  <2>2. x # k
    BY <2>1, Fields DEF Withdraw, Flying, Flight
  <2>. QED
    BY <2>1, <2>2 DEF Withdraw, AuthType
<1>4. CASE Tick
  BY <1>4 DEF Tick, AuthType
<1>5. CASE \E t \in Slots : Stamp(t)
  BY <1>5 DEF Stamp, AuthType
<1>. QED
  BY <1>1, <1>2, <1>3, <1>4, <1>5 DEF ANext, Thread, Environment, SelfSigned, avars, authVars,
     Validate, Refresh, Lookup, Fetch, FetchFails, Store, ClaimsFail, Unauthorized,
     Resolve, Forget

\* Late requests stay locked out of the cache, whatever the threads do.
LEMMA LateStep ==
  ASSUME AuthType, CacheInv, LateInv, [ANext]_avars
  PROVE  LateInv'
<1>. SUFFICES ASSUME NEW s \in Slots, slot'[s] # Free, slot'[s].late
              PROVE  /\ (Gone(slot[s].key))'
                     /\ slot'[s].at # "found"
                     /\ slot'[s].at = "store" => slot'[s].key \notin slot'[s].got
                     /\ \/ slot'[s].at = "refresh" /\ slot'[s].due
                        \/ (Purged(slot[s].key))'
  BY DEF LateInv, Flying
<1>1. CASE \E k \in Keys : Validate(s, k)
  <2>1. PICK k \in Keys : Validate(s, k)
    BY <1>1
  <2>2. /\ slot'[s].key = k /\ slot'[s].due = (client.age > TTL)
        /\ slot'[s].at = IF client.age > TTL THEN "refresh" ELSE "lookup"
        /\ life' = life /\ client' = client /\ Gone(k)
        /\ \A t \in Slots : (Storing(t))' => Storing(t) /\ slot'[t].got = slot[t].got
    BY <2>1 DEF Validate, AuthType, Gone, Storing
  <2>3. CASE client.age > TTL
    BY <2>2, <2>3 DEF Gone
  <2>4. CASE ~(client.age > TTL)
    <3>1. ~Within(k)
      BY <2>2, <2>4, AuthenticationAssumption DEF Gone, Within, AuthType, Ages
    <3>. QED
      BY <2>2, <2>4, <3>1 DEF Gone, Purged, CacheInv
  <2>. QED
    BY <2>3, <2>4
<1>2. CASE /\ Flying(s) /\ Moved(s)
           /\ slot'[s].key = slot[s].key /\ slot'[s].late = slot[s].late
  <2>1. PICK k \in Keys : k = slot[s].key
    BY <1>2, Fields
  <2>2. /\ Gone(k) /\ slot[s].at # "found"
        /\ slot[s].at = "store" => k \notin slot[s].got
        /\ (slot[s].at = "refresh" /\ slot[s].due) \/ Purged(k)
    BY <1>2, <2>1 DEF LateInv
  <2>3. (Gone(k))' /\ k \notin Published
    BY <2>1, <2>2, GoneStays DEF Gone, Published
  <2>4. Purged(k) => (Purged(k))'
    BY <2>1, <2>2, PurgedStays
  <2>5. Emptied => (Purged(k))'
    BY DEF Emptied, Purged
  <2>6. slot'[s].at # "found"
    BY <1>2, <2>1, <2>2 DEF Moved, Purged
  <2>7. slot'[s].at = "store" => k \notin slot'[s].got
    BY <1>2, <2>1, <2>2, <2>3 DEF Moved
  <2>8. (slot'[s].at = "refresh" /\ slot'[s].due) \/ (Purged(k))'
    <3>1. CASE Purged(k) \/ Emptied
      BY <2>4, <2>5, <3>1
    <3>2. CASE slot[s].at = "refresh" /\ slot[s].due /\ ~Emptied /\ ~Purged(k)
      <4>1. Unlocked
        BY <2>2, <3>2 DEF Purged, CacheInv, Within, Gone
      <4>. QED
        BY <1>2, <3>2, <4>1 DEF Moved
    <3>. QED
      BY <2>2, <3>1, <3>2
  <2>. QED
    BY <1>2, <2>1, <2>3, <2>6, <2>7, <2>8 DEF Purged, Gone
<1>. QED
  BY <1>1, <1>2, FlightStep

\* Good tokens stay on the way to being accepted.
LEMMA OwedStep ==
  ASSUME AuthType, OwedInv, [ANext]_avars
  PROVE  OwedInv'
<1>. SUFFICES ASSUME NEW s \in Slots, slot'[s] # Free, slot'[s].owed
              PROVE  /\ life'[slot'[s].key].state = "published"
                     /\ slot'[s].at # "refused"
                     /\ slot'[s].at = "store" => slot'[s].key \in slot'[s].got
  BY DEF OwedInv, Flying
<1>1. CASE \E k \in Keys : Validate(s, k)
  <2>1. PICK k \in Keys : Validate(s, k)
    BY <1>1
  <2>2. /\ slot'[s].key = k /\ slot'[s].owed = (k \in Published) /\ life' = life
        /\ slot'[s].at \in {"refresh", "lookup"}
    BY <2>1 DEF Validate, AuthType
  <2>. QED
    BY <2>2 DEF Published
<1>2. CASE /\ Flying(s) /\ Moved(s) /\ slot'[s].key = slot[s].key /\ slot[s].owed
  <2>1. PICK k \in Keys : k = slot[s].key
    BY <1>2, Fields
  <2>2. /\ life[k].state = "published" /\ slot[s].at # "refused"
        /\ slot[s].at = "store" => k \in slot[s].got
    BY <1>2, <2>1 DEF OwedInv
  <2>3. life'[k].state = "published"
    BY <1>2, <2>1, <2>2, OwedPublished
  <2>. QED
    BY <1>2, <2>1, <2>2, <2>3 DEF Moved, Published
<1>. QED
  BY <1>1, <1>2, FlightStep

\* Validate and the middleware answer a request whose key has been withdrawn for
\* longer than the cache's lifetime with a refusal, however the threads that
\* share the client interleave.
THEOREM KeysExpire == ASpec => []WithdrawnKeysExpire
<1>1. AInit => AuthType /\ CacheInv /\ LateInv
  BY InitAuth
<1>2. AuthType /\ CacheInv /\ LateInv /\ [ANext]_avars
      => (AuthType /\ CacheInv /\ LateInv)'
  BY AuthTypeStep, CacheStep, LateStep
<1>3. LateInv => WithdrawnKeysExpire
  BY DEF LateInv, WithdrawnKeysExpire, Flying, Free
<1>. QED
  BY <1>1, <1>2, <1>3, PTL DEF ASpec

\* A token whose key stays published is refused only when the provider or its
\* own claims fail.
THEOREM GoodPass == ASpec => []GoodTokensPass
<1>1. AInit => AuthType /\ OwedInv
  BY InitAuth
<1>2. AuthType /\ OwedInv /\ [ANext]_avars => (AuthType /\ OwedInv)'
  BY AuthTypeStep, OwedStep
<1>3. OwedInv => GoodTokensPass
  BY DEF OwedInv, GoodTokensPass, Flying, Free
<1>. QED
  BY <1>1, <1>2, <1>3, PTL DEF ASpec

-----------------------------------------------------------------------------
(* Linking identities to users.  The invariant speaks of a users table T,  *)
(* so that the same definitions serve before and after a step.             *)

\* An identity has one user; a user without an identity was added by the
\* operator; a linked user is an account or was created for a claim of its
\* identity, and in the first case it has an email (it was linked by it).
Table(T) ==
  /\ \A u, v \in Ids : (T[u] # None /\ T[v] # None /\ T[u].identity # None
                        /\ T[u].identity = T[v].identity) => u = v
  /\ \A u \in Ids : (T[u] # None /\ T[u].identity = None) => u \in Accounts
  /\ \A u \in Ids : (T[u] # None /\ T[u].identity # None)
                    => \/ u \in ClaimsOf[T[u].identity]
                       \/ u \in Accounts /\ T[u].email # None

Linked(T, u, x) == T[u] # None /\ T[u].identity = x

\* A login that holds a user is linked to it, and ends as that user or, when
\* the user was created for a claim, as its own token's claim.
Held(r, T) ==
  r.held # None =>
    /\ Linked(T, r.held, r.identity)
    /\ r.pc \in {"lookup", "profile", "done"}
    /\ r.pc = "profile" => r.owner = r.held
    /\ r.pc = "done" => \/ r.owner = r.held
                        \/ r.held \in ClaimsOf[r.identity] /\ r.owner = r.claim

LoginsOK == \A l \in Logins : login[l] # None => Held(login[l], users)

IInv == ULTypeOK /\ Table(users) /\ LoginsOK

---------------------------------------------------------------------------
(* Facts about the constants and the records. *)

LEMMA NoneIsNothing ==
  /\ None \notin Identities /\ None \notin Emails /\ None \notin Ids
  /\ None \notin Row /\ None \notin Login
BY NoneAssumption

\* What the type says of one login.
LEMMA LoginFields ==
  ASSUME ULTypeOK, NEW l \in Logins, login[l] # None
  PROVE  /\ login[l] \in Login /\ login[l].pc \in Pcs
         /\ login[l].identity \in Identities
         /\ login[l].claim \in ClaimsOf[login[l].identity]
         /\ login[l].claim \in Ids
         /\ login[l].email \in Emails \cup {None} /\ login[l].named \in BOOLEAN
         /\ login[l].held \in Ids \cup {None} /\ login[l].owner \in Ids \cup {None}
         /\ login[l].pc \in {"profile", "done"} => login[l].owner \in Ids
BY DEF ULTypeOK, Login, Ids

---------------------------------------------------------------------------
(* Steps of one login. *)

\* U has every link of T.
Keeps(T, U) ==
  \A u \in Ids : (T[u] # None /\ T[u].identity # None)
                 => U[u] # None /\ U[u].identity = T[u].identity

\* A login goes on holding its user while the links are kept.
LEMMA HeldStays ==
  ASSUME IInv, Keeps(users, users'), NEW m \in Logins, login[m] # None
  PROVE  Held(login[m], users')
<1>1. login[m].identity \in Identities /\ login[m].held \in Ids \cup {None}
  BY LoginFields DEF IInv
<1>2. Held(login[m], users)
  BY DEF IInv, LoginsOK
<1>3. QED
  BY <1>1, <1>2, NoneIsNothing DEF Held, Linked, Keeps

\* A step of one login keeps the invariant if the table stays sound and keeps
\* its links, and the login is right about the user it holds.
LEMMA LoginStep ==
  ASSUME IInv, NEW l \in Logins, NEW r \in Login \cup {None},
         login' = [login EXCEPT ![l] = r],
         users' \in [Ids -> Row \cup {None}], Table(users'), Keeps(users, users'),
         r # None => Held(r, users')
  PROVE  IInv'
<1>1. ULTypeOK'
  BY DEF IInv, ULTypeOK
<1>2. \A m \in Logins : login'[m] = IF m = l THEN r ELSE login[m]
  BY DEF IInv, ULTypeOK
<1>3. LoginsOK'
  BY <1>2, HeldStays DEF LoginsOK
<1>4. QED
  BY <1>1, <1>3 DEF IInv

\* A step that resolves the login to u without linking it.
LEMMA ResolveStep ==
  ASSUME IInv, NEW l \in Logins, login[l] # None, NEW u \in Ids, RunAs(l, u),
         users' \in [Ids -> Row \cup {None}], Table(users'), Keeps(users, users'),
         login[l].held # None =>
           \/ u = login[l].held
           \/ login[l].held \in ClaimsOf[login[l].identity] /\ u = login[l].claim
  PROVE  IInv'
<1> DEFINE r == [login[l] EXCEPT !.pc = "done", !.owner = u]
<1>1. login[l] \in Login
  BY LoginFields DEF IInv
<1>2. /\ r \in Login /\ r.pc = "done" /\ r.owner = u /\ r.claim = login[l].claim
      /\ r.identity = login[l].identity /\ r.held = login[l].held
  BY <1>1, NoneIsNothing DEF Login, Pcs
<1>3. login' = [login EXCEPT ![l] = r]
  BY DEF RunAs, IInv, ULTypeOK
<1> HIDE DEF r
<1>4. Held(r, users')
  BY <1>2, HeldStays DEF Held
<1>5. QED
  BY <1>2, <1>3, <1>4, LoginStep

\* A step that takes the login to a user it is linked to: it is resolved, or
\* goes on to the user's profile.
LEMMA LinkedStep ==
  ASSUME IInv, NEW l \in Logins, login[l] # None, NEW u \in Ids,
         NEW pc \in {"profile", "done"},
         login' = [login EXCEPT ![l].pc = pc, ![l].owner = u, ![l].held = u],
         users' \in [Ids -> Row \cup {None}], Table(users'), Keeps(users, users'),
         Linked(users', u, login[l].identity)
  PROVE  IInv'
<1> DEFINE r == [login[l] EXCEPT !.pc = pc, !.owner = u, !.held = u]
<1>1. login[l] \in Login
  BY LoginFields DEF IInv
<1>2. /\ r \in Login /\ r.pc = pc /\ r.owner = u /\ r.held = u
      /\ r.identity = login[l].identity
  BY <1>1, NoneIsNothing DEF Login, Pcs
<1>3. login' = [login EXCEPT ![l] = r]
  BY DEF IInv, ULTypeOK
<1> HIDE DEF r
<1>4. Held(r, users')
  BY <1>2 DEF Held
<1>5. QED
  BY <1>2, <1>3, <1>4, LoginStep

\* A step that takes a login to the next way of finding its user.
LEMMA GotoStep ==
  ASSUME IInv, NEW l \in Logins, login[l] # None, NEW pc \in {"link", "create"},
         Goto(l, pc), UNCHANGED users, login[l].held = None
  PROVE  IInv'
<1> DEFINE r == [login[l] EXCEPT !.pc = pc]
<1>1. login[l] \in Login
  BY LoginFields DEF IInv
<1>2. r \in Login /\ r.held = None
  BY <1>1 DEF Login, Pcs
<1>3. login' = [login EXCEPT ![l] = r]
  BY DEF Goto, IInv, ULTypeOK
<1> HIDE DEF r
<1>4. Held(r, users')
  BY <1>2 DEF Held
<1>5. Keeps(users, users') /\ users' \in [Ids -> Row \cup {None}] /\ Table(users')
  BY DEF Keeps, IInv, ULTypeOK
<1>6. QED
  BY <1>2, <1>3, <1>4, <1>5, LoginStep

---------------------------------------------------------------------------
(* The actions. *)

\* Where the invariant leaves a login that is under way.
LEMMA UnderWay ==
  ASSUME IInv, NEW l \in Logins, login[l] # None
  PROVE  /\ users \in [Ids -> Row \cup {None}] /\ Table(users) /\ Keeps(users, users)
         /\ Held(login[l], users)
BY DEF IInv, LoginsOK, ULTypeOK, Keeps

\* An identity without a linked user is held by nobody.
LEMMA NotHeld ==
  ASSUME IInv, NEW l \in Logins, login[l] # None,
         LinkedTo(login[l].identity) = {} \/ login[l].pc \in {"link", "create"}
  PROVE  login[l].held = None
<1>1. login[l].held \in Ids \cup {None} /\ Held(login[l], users)
  BY LoginFields, UnderWay DEF IInv
<1>2. QED
  BY <1>1 DEF Held, LinkedTo, Linked

LEMMA FallBackStep ==
  ASSUME IInv, NEW l \in Logins, login[l] # None, FallBack(l), UNCHANGED users,
         login[l].held = None
  PROVE  IInv'
<1>1. RunAs(l, login[l].claim) /\ login[l].claim \in Ids
  BY LoginFields DEF FallBack, IInv
<1>2. users' \in [Ids -> Row \cup {None}] /\ Table(users') /\ Keeps(users, users')
  BY UnderWay
<1>3. QED
  BY <1>1, <1>2, ResolveStep

LEMMA BeginKeeps ==
  ASSUME IInv, NEW l \in Logins, NEW x \in Identities, NEW c \in ClaimsOf[x],
         NEW e \in Emails \cup {None}, NEW n \in BOOLEAN, Begin(l, x, c, e, n)
  PROVE  IInv'
<1>1. PICK h \in OneOf(LinkedTo(x)) :
        login' = [login EXCEPT ![l] =
                   [pc |-> "lookup", identity |-> x, claim |-> c, email |-> e,
                    named |-> n, held |-> h, owner |-> None]]
  BY DEF Begin
<1> DEFINE r == [pc |-> "lookup", identity |-> x, claim |-> c, email |-> e,
                 named |-> n, held |-> h, owner |-> None]
<1>2. h \in LinkedTo(x) \cup {None} /\ c \in Claims
  BY DEF OneOf, Claims
<1>3. r \in Login
  BY <1>2 DEF Login, Pcs, LinkedTo
<1>4. Held(r, users')
  BY <1>2 DEF Held, Begin, LinkedTo, Linked
<1>5. users' \in [Ids -> Row \cup {None}] /\ Table(users') /\ Keeps(users, users')
  BY DEF Begin, IInv, ULTypeOK, Keeps
<1>6. QED
  BY <1>1, <1>3, <1>4, <1>5, LoginStep

LEMMA LookupKeeps ==
  ASSUME IInv, NEW l \in Logins, FindLinked(l)
  PROVE  IInv'
<1>1. login[l] # None /\ UNCHANGED users
  BY DEF FindLinked, At
<1>2. users' \in [Ids -> Row \cup {None}] /\ Table(users') /\ Keeps(users, users')
  BY <1>1, UnderWay
<1>3. CASE LinkedTo(login[l].identity) = {} /\ TryEmail(l)
  BY <1>1, <1>3, NotHeld, FallBackStep, GotoStep DEF TryEmail
<1>4. ASSUME NEW u \in LinkedTo(login[l].identity), NEW pc \in {"profile", "done"},
             login' = [login EXCEPT ![l].pc = pc, ![l].owner = u, ![l].held = u]
      PROVE  IInv'
  <2>1. u \in Ids /\ Linked(users', u, login[l].identity)
    BY <1>1 DEF LinkedTo, Linked
  <2>2. QED
    BY <1>1, <1>2, <1>4, <2>1, LinkedStep
<1>5. QED
  BY <1>3, <1>4 DEF FindLinked, RunLinked

\* A row whose identity stays, and which keeps an email it has, keeps the table
\* sound.
LEMMA EditedTable ==
  ASSUME IInv, NEW u \in Ids, NEW row \in Row, users[u] # None,
         row.identity = users[u].identity,
         users[u].email # None => row.email # None,
         users' = [users EXCEPT ![u] = row]
  PROVE  users' \in [Ids -> Row \cup {None}] /\ Table(users') /\ Keeps(users, users')
<1>1. users \in [Ids -> Row \cup {None}] /\ Table(users)
  BY DEF IInv, ULTypeOK
<1>2. users' \in [Ids -> Row \cup {None}]
  BY <1>1
<1>3. \A v \in Ids : users'[v] = IF v = u THEN row ELSE users[v]
  BY <1>1
<1>4. row # None
  BY NoneIsNothing
<1>5. Table(users')
  BY <1>1, <1>3, <1>4 DEF Table
<1>6. QED
  BY <1>2, <1>3, <1>4, <1>5 DEF Keeps

LEMMA ProfileKeeps ==
  ASSUME IInv, NEW l \in Logins, Profile(l)
  PROVE  IInv'
<1> DEFINE u == login[l].owner
           e == login[l].email
<1>1. login[l] # None /\ login[l].pc = "profile"
  BY DEF Profile, At
<1>2. /\ u \in Ids /\ e \in Emails \cup {None} /\ login[l].claim \in Ids
      /\ login[l].identity \in Identities /\ login[l].named \in BOOLEAN
  BY <1>1, LoginFields DEF IInv
<1>3. /\ users \in [Ids -> Row \cup {None}] /\ Table(users) /\ Keeps(users, users)
      /\ Held(login[l], users)
  BY <1>1, UnderWay
<1>4. login[l].held # None => u = login[l].held
  BY <1>1, <1>3 DEF Held
<1>5. CASE RunAs(l, u) /\ UNCHANGED users
  <2>1. users' \in [Ids -> Row \cup {None}] /\ Table(users') /\ Keeps(users, users')
    BY <1>3, <1>5
  <2>2. QED
    BY <1>1, <1>2, <1>4, <1>5, <2>1, ResolveStep
\* A linked account has an email, so the user that cannot be given one was
\* created for a claim of the identity.
<1>6. CASE FallBack(l) /\ UNCHANGED users /\ users[u] # None /\ users[u].email = None
  <2>1. login[l].held # None => login[l].held \in ClaimsOf[login[l].identity]
    <3>1. SUFFICES ASSUME login[l].held # None
                   PROVE  u \in ClaimsOf[login[l].identity]
      BY <1>4
    <3>2. users[u].identity = login[l].identity
      BY <3>1, <1>3, <1>4 DEF Held, Linked
    <3>3. QED
      BY <3>2, <1>2, <1>3, <1>6, NoneIsNothing DEF Table
  <2>2. users' \in [Ids -> Row \cup {None}] /\ Table(users') /\ Keeps(users, users')
    BY <1>3, <1>6
  <2>3. RunAs(l, login[l].claim)
    BY <1>6 DEF FallBack
  <2>4. QED
    BY <1>1, <1>2, <2>1, <2>2, <2>3, ResolveStep
<1>7. CASE /\ users[u] # None /\ RunAs(l, u)
           /\ users' = [users EXCEPT ![u].email = IF @ = None THEN e ELSE @,
                                     ![u].named = @ \/ login[l].named]
  <2> DEFINE row == [users[u] EXCEPT !.email = IF @ = None THEN e ELSE @,
                                     !.named = @ \/ login[l].named]
  <2>1. users[u] \in Row
    BY <1>2, <1>3, <1>7
  <2>2. /\ row \in Row /\ row.identity = users[u].identity
        /\ users[u].email # None => row.email # None
    BY <2>1, <1>2 DEF Row
  <2>3. users' = [users EXCEPT ![u] = row]
    BY <1>2, <1>3, <1>7, <2>1 DEF Row
  <2> HIDE DEF row
  <2>4. users' \in [Ids -> Row \cup {None}] /\ Table(users') /\ Keeps(users, users')
    BY <2>2, <2>3, <1>2, <1>7, EditedTable
  <2>5. QED
    BY <1>1, <1>2, <1>4, <1>7, <2>4, ResolveStep
<1>8. QED
  BY <1>5, <1>6, <1>7 DEF Profile

LEMMA LinkKeeps ==
  ASSUME IInv, NEW l \in Logins, Link(l)
  PROVE  IInv'
<1> DEFINE x == login[l].identity
<1>1. login[l] # None /\ login[l].pc = "link"
  BY DEF Link, At
<1>2. login[l].held = None /\ x \in Identities
  BY <1>1, NotHeld, LoginFields DEF IInv
<1>3. users \in [Ids -> Row \cup {None}] /\ Table(users)
  BY <1>1, UnderWay
<1>4. CASE FallBack(l) /\ UNCHANGED users
  BY <1>1, <1>2, <1>4, FallBackStep
<1>5. CASE Goto(l, "create") /\ UNCHANGED users
  BY <1>1, <1>2, <1>5, GotoStep
<1>6. ASSUME NEW u \in Unlinked(login[l].email), LinkedTo(x) = {}, RunLinked(l, u),
             users' = [users EXCEPT ![u].identity = x]
      PROVE  IInv'
  <2>1. /\ u \in Ids /\ users[u] # None /\ users[u].identity = None
        /\ users[u].email # None
    BY DEF Unlinked, WithEmail
  <2>2. u \in Accounts
    BY <2>1, <1>3 DEF Table
  <2> DEFINE row == [users[u] EXCEPT !.identity = x]
  <2>3. row \in Row /\ row.identity = x /\ row.email # None /\ row # None
    BY <2>1, <1>2, <1>3, NoneIsNothing DEF Row
  <2>4. users' = [users EXCEPT ![u] = row]
    BY <1>3, <1>6, <2>1
  <2> HIDE DEF row
  <2>5. \A v \in Ids : users'[v] = IF v = u THEN row ELSE users[v]
    BY <1>3, <2>4
  <2>6. users' \in [Ids -> Row \cup {None}]
    BY <1>3, <2>3, <2>4
  <2>7. \A v \in Ids : users[v] # None => users[v].identity # x
    BY <1>6 DEF LinkedTo
  <2>8. Table(users')
    BY <1>2, <1>3, <2>2, <2>3, <2>5, <2>7, NoneIsNothing DEF Table
  <2>9. Keeps(users, users')
    BY <2>1, <2>5 DEF Keeps
  <2>10. Linked(users', u, x)
    BY <2>1, <2>3, <2>5 DEF Linked
  <2>11. login' = [login EXCEPT ![l].pc = "done", ![l].owner = u, ![l].held = u]
    BY <1>6 DEF RunLinked
  <2>12. QED
    BY <1>1, <2>1, <2>6, <2>8, <2>9, <2>10, <2>11, LinkedStep
<1>7. QED
  BY <1>4, <1>5, <1>6 DEF Link

LEMMA CreateKeeps ==
  ASSUME IInv, NEW l \in Logins, Create(l)
  PROVE  IInv'
<1> DEFINE x == login[l].identity
           u == login[l].claim
           row == [email |-> login[l].email, identity |-> x, named |-> login[l].named]
<1>1. login[l] # None /\ login[l].pc = "create" /\ RunAs(l, u)
  BY DEF Create, At, FallBack
<1>2. login[l].held = None /\ x \in Identities /\ u \in Ids /\ u \in ClaimsOf[x]
  BY <1>1, NotHeld, LoginFields DEF IInv
<1>3. users \in [Ids -> Row \cup {None}] /\ Table(users) /\ Keeps(users, users)
  BY <1>1, UnderWay
<1>4. CASE UNCHANGED users
  BY <1>1, <1>2, <1>3, <1>4, ResolveStep
<1>5. CASE /\ users[u] = None /\ LinkedTo(x) = {}
           /\ users' = [users EXCEPT ![u] = row]
  <2>1. row \in Row /\ row.identity = x /\ row # None
    BY <1>1, <1>2, LoginFields, NoneIsNothing DEF IInv, Row
  <2> HIDE DEF row
  <2>2. \A v \in Ids : users'[v] = IF v = u THEN row ELSE users[v]
    BY <1>3, <1>5
  <2>3. users' \in [Ids -> Row \cup {None}]
    BY <1>3, <1>5, <2>1
  <2>4. \A v \in Ids : users[v] # None => users[v].identity # x
    BY <1>5 DEF LinkedTo
  <2>5. Table(users')
    BY <1>2, <1>3, <2>1, <2>2, <2>4, NoneIsNothing DEF Table
  <2>6. Keeps(users, users')
    BY <1>5, <2>2 DEF Keeps
  <2>7. QED
    BY <1>1, <1>2, <2>3, <2>5, <2>6, ResolveStep
<1>6. QED
  BY <1>4, <1>5 DEF Create

LEMMA FailKeeps ==
  ASSUME IInv, NEW l \in Logins, Fail(l)
  PROVE  IInv'
<1> DEFINE r == [login[l] EXCEPT !.pc = "done", !.held = None,
                                 !.owner = login[l].claim]
<1>1. login[l] # None /\ UNCHANGED users
  BY DEF Fail
<1>2. login[l] \in Login /\ login[l].claim \in Ids
  BY <1>1, LoginFields DEF IInv
<1>3. r \in Login /\ r.held = None
  BY <1>2, NoneIsNothing DEF Login, Pcs
<1>4. login' = [login EXCEPT ![l] = r]
  BY DEF Fail, IInv, ULTypeOK
<1> HIDE DEF r
<1>5. Held(r, users')
  BY <1>3 DEF Held
<1>6. users' \in [Ids -> Row \cup {None}] /\ Table(users') /\ Keeps(users, users')
  BY <1>1, UnderWay
<1>7. QED
  BY <1>3, <1>4, <1>5, <1>6, LoginStep

LEMMA EndKeeps ==
  ASSUME IInv, NEW l \in Logins, End(l)
  PROVE  IInv'
<1>1. login[l] # None /\ UNCHANGED users /\ login' = [login EXCEPT ![l] = None]
  BY DEF End, At
<1>2. users' \in [Ids -> Row \cup {None}] /\ Table(users') /\ Keeps(users, users')
  BY <1>1, UnderWay
<1>3. QED
  BY <1>1, <1>2, LoginStep

LEMMA UserAddKeeps ==
  ASSUME IInv, NEW u \in Accounts, NEW e \in Emails \cup {None}, NEW n \in BOOLEAN,
         UserAdd(u, e, n)
  PROVE  IInv'
<1> DEFINE row == [email |-> e, identity |-> None, named |-> n]
<1>1. u \in Ids
  BY DEF Ids
<1>2. row \in Row /\ row # None /\ row.identity = None
  BY NoneIsNothing DEF Row
<1>3. users' = [users EXCEPT ![u] = row] /\ users[u] = None /\ UNCHANGED login
  BY DEF UserAdd
<1> HIDE DEF row
<1>4. users \in [Ids -> Row \cup {None}] /\ Table(users)
  BY DEF IInv, ULTypeOK
<1>5. \A v \in Ids : users'[v] = IF v = u THEN row ELSE users[v]
  BY <1>1, <1>3, <1>4
<1>6. Keeps(users, users')
  BY <1>3, <1>5 DEF Keeps
<1>7. users' \in [Ids -> Row \cup {None}]
  BY <1>2, <1>3, <1>4
<1>8. Table(users')
  BY <1>2, <1>4, <1>5 DEF Table
<1>9. LoginsOK'
  BY <1>3, <1>6, HeldStays DEF LoginsOK
<1>10. QED
  BY <1>3, <1>7, <1>8, <1>9 DEF IInv, ULTypeOK

\* A deleted user is held by no login any more.
LEMMA UserDeleteKeeps ==
  ASSUME IInv, NEW u \in Ids, UserDelete(u)
  PROVE  IInv'
<1>1. /\ users' = [users EXCEPT ![u] = None]
      /\ login' = [l \in Logins |->
                     IF login[l] # None /\ login[l].held = u
                     THEN [login[l] EXCEPT !.held = None] ELSE login[l]]
  BY DEF UserDelete
<1>2. /\ users \in [Ids -> Row \cup {None}] /\ Table(users)
      /\ login \in [Logins -> Login \cup {None}]
  BY DEF IInv, ULTypeOK
<1>3. \A v \in Ids : users'[v] = IF v = u THEN None ELSE users[v]
  BY <1>1, <1>2
<1>4. ASSUME NEW l \in Logins, login'[l] # None
      PROVE  login'[l] \in Login /\ Held(login'[l], users')
  <2>1. login[l] # None /\ login[l] \in Login /\ Held(login[l], users)
        /\ login[l].held \in Ids \cup {None}
    BY <1>1, <1>2, <1>4, UnderWay, LoginFields DEF IInv
  <2>2. CASE login[l].held = u
    <3>1. login'[l] = [login[l] EXCEPT !.held = None]
      BY <1>1, <2>1, <2>2
    <3>2. QED
      BY <2>1, <3>1 DEF Login, Held
  <2>3. CASE login[l].held # u
    <3>1. login'[l] = login[l]
      BY <1>1, <2>1, <2>3
    <3>2. QED
      BY <2>1, <2>3, <3>1, <1>3 DEF Held, Linked
  <2>4. QED
    BY <2>2, <2>3
<1>5. ULTypeOK'
  <2>1. users' \in [Ids -> Row \cup {None}]
    BY <1>1, <1>2
  <2>2. login' \in [Logins -> Login \cup {None}]
    BY <1>1, <1>4
  <2>3. QED
    BY <2>1, <2>2 DEF ULTypeOK
<1>6. Table(users')
  BY <1>2, <1>3 DEF Table
<1>7. QED
  BY <1>4, <1>5, <1>6 DEF IInv, LoginsOK

---------------------------------------------------------------------------
(* The theorems. *)

LEMMA Initially == ULInit => IInv
BY DEF ULInit, IInv, ULTypeOK, Table, LoginsOK

LEMMA Stutters == IInv /\ UNCHANGED ulvars => IInv'
BY DEF IInv, ulvars, ULTypeOK, Table, LoginsOK, Held, Linked

LEMMA Steps == IInv /\ [ULNext]_ulvars => IInv'
BY Stutters, BeginKeeps, LookupKeeps, ProfileKeeps, LinkKeeps, CreateKeeps, FailKeeps,
   EndKeeps, UserAddKeeps, UserDeleteKeeps DEF ULNext

THEOREM Invariance == ULSpec => []IInv
BY Initially, Steps, PTL DEF ULSpec

\* Every variable keeps its type (AuthMiddleware's login and the users table).
THEOREM TypeCorrect == ULSpec => []ULTypeOK
<1>1. IInv => ULTypeOK
  BY DEF IInv
<1>2. QED
  BY <1>1, Invariance, PTL

\* A login of a linked identity runs as the linked user, though _resolve_user
\* looks it up and fills in its profile in two transactions, or as another
\* claim of the identity the user was created for.
THEOREM LinkedResolve == ULSpec => []LinkedLoginsResolve
<1>1. IInv => LinkedLoginsResolve
  BY DEF IInv, LoginsOK, LinkedLoginsResolve, Held, Done, At
<1>2. QED
  BY <1>1, Invariance, PTL

\* A login that is resolved runs as its claim, as the user that is linked to its
\* identity, or as one deleted since; such a user is an account or has the name
\* of a claim of the identity.
LEMMA OwnerOfLogin ==
  ASSUME IInv, NEW l \in Logins, Done(l), login[l].owner # login[l].claim,
         login[l].held = None => login[l].owner = login[l].claim
  PROVE  /\ Linked(users, login[l].owner, login[l].identity)
         /\ login[l].owner \in ClaimsOf[login[l].identity] \cup Accounts
<1>1. /\ login[l] # None /\ login[l].pc = "done" /\ login[l].held # None
  BY DEF Done, At
<1>2. /\ login[l].identity \in Identities /\ login[l].owner \in Ids
      /\ Held(login[l], users) /\ Table(users)
  BY <1>1, LoginFields, UnderWay DEF IInv
<1>3. login[l].owner = login[l].held /\ Linked(users, login[l].held, login[l].identity)
  BY <1>1, <1>2 DEF Held
<1>4. QED
  BY <1>2, <1>3, NoneIsNothing DEF Linked, Table

\* Requests of two identities run as one owner only by the claim that one of
\* their tokens carries (_resolve_user's result, with the token's claim to fall
\* back on).
THEOREM OwnersStayApart == ULSpec => []OwnersDistinct
<1>1. IInv => OwnersDistinct
  <2>1. SUFFICES ASSUME IInv, NEW l \in Logins, NEW m \in Logins, Sharing(l, m)
                 PROVE  \E r, s \in {login[l], login[m]} :
                          /\ r.identity # s.identity
                          /\ r.owner = r.claim
                          /\ r.claim \in ClaimsOf[s.identity] \cup Accounts
    BY DEF OwnersDistinct
  <2>2. /\ Done(l) /\ Done(m) /\ login[l].identity # login[m].identity
        /\ login[l].owner = login[m].owner
        /\ login[l].held = None => login[l].owner = login[l].claim
        /\ login[m].held = None => login[m].owner = login[m].claim
        /\ login[l].claim \in ClaimsOf[login[l].identity]
        /\ login[m].claim \in ClaimsOf[login[m].identity]
    BY <2>1, LoginFields DEF Sharing, Done, At, IInv
  <2>3. CASE login[l].owner = login[l].claim
    <3>1. login[l].claim \in ClaimsOf[login[m].identity] \cup Accounts
      BY <2>1, <2>2, <2>3, OwnerOfLogin
    <3>2. QED
      BY <2>2, <2>3, <3>1
  <2>4. CASE login[m].owner = login[m].claim
    <3>1. login[m].claim \in ClaimsOf[login[l].identity] \cup Accounts
      BY <2>1, <2>2, <2>4, OwnerOfLogin
    <3>2. QED
      BY <2>2, <2>4, <3>1
  <2>5. CASE login[l].owner # login[l].claim /\ login[m].owner # login[m].claim
    <3>1. /\ Linked(users, login[l].owner, login[l].identity)
          /\ Linked(users, login[l].owner, login[m].identity)
      BY <2>1, <2>2, <2>5, OwnerOfLogin
    <3>2. QED
      BY <2>2, <3>1 DEF Linked
  <2>6. QED
    BY <2>3, <2>4, <2>5
<1>2. QED
  BY <1>1, Invariance, PTL

\* With claims that belong to one identity each and are no account's id (the
\* default claim, sub, of one provider), two identities never share an owner.
THEOREM SubjectsStayApart ==
  ASSUME \A x, y \in Identities : x # y => ClaimsOf[x] \cap (ClaimsOf[y] \cup Accounts) = {}
  PROVE  ULSpec => []NeverShared
<1>1. IInv /\ OwnersDistinct => NeverShared
  <2>1. SUFFICES ASSUME IInv, OwnersDistinct, NEW l \in Logins, NEW m \in Logins,
                        Sharing(l, m)
                 PROVE  FALSE
    BY DEF NeverShared
  <2>2. PICK r \in {login[l], login[m]}, s \in {login[l], login[m]} :
          /\ r.identity # s.identity
          /\ r.claim \in ClaimsOf[s.identity] \cup Accounts
    BY <2>1 DEF OwnersDistinct
  <2>3. /\ r.identity \in Identities /\ s.identity \in Identities
        /\ r.claim \in ClaimsOf[r.identity]
    BY <2>1, LoginFields DEF Sharing, Done, At, IInv
  <2>4. QED
    BY <2>2, <2>3
<1>2. QED
  BY <1>1, Invariance, OwnersStayApart, PTL

\* No step of a login or of the operator moves a linked user to another identity
\* (link_oauth_identity.sql updates only unlinked rows, create_user_auto.sql
\* leaves existing ones alone).
THEOREM LinksStay == ULSpec => LinksAreFinal
<1> DEFINE Final == \A u \in Ids : (users[u] # None /\ users[u].identity # None
                                    /\ users'[u] # None)
                                   => users'[u].identity = users[u].identity
<1>1. IInv /\ [ULNext]_ulvars => [Final]_ulvars
  <2>1. SUFFICES ASSUME IInv, ULNext, NEW u \in Ids, users[u] # None,
                        users[u].identity # None, users'[u] # None
                 PROVE  users'[u].identity = users[u].identity
    OBVIOUS
  <2>2. /\ users \in [Ids -> Row \cup {None}]
        /\ \A v \in Ids : users[v] # None => users[v] \in Row
    <3>1. users \in [Ids -> Row \cup {None}]
      BY <2>1 DEF IInv, ULTypeOK
    <3>2. QED
      BY <3>1
  <2>3. ASSUME NEW l \in Logins, Profile(l)
        PROVE  users'[u].identity = users[u].identity
    <3>1. CASE UNCHANGED users
      BY <3>1
    <3>2. CASE users' = [users EXCEPT ![login[l].owner].email =
                                        IF @ = None THEN login[l].email ELSE @,
                                      ![login[l].owner].named = @ \/ login[l].named]
      BY <3>2, <2>1, <2>2 DEF Row
    <3>3. QED
      BY <2>3, <3>1, <3>2 DEF Profile
  <2>4. ASSUME NEW l \in Logins, Link(l)
        PROVE  users'[u].identity = users[u].identity
    BY <2>1, <2>2, <2>4 DEF Link, Unlinked, WithEmail
  <2>5. ASSUME NEW l \in Logins, Create(l)
        PROVE  users'[u].identity = users[u].identity
    BY <2>1, <2>2, <2>5 DEF Create
  <2>6. ASSUME NEW v \in Accounts, NEW e \in Emails \cup {None}, NEW n \in BOOLEAN,
               UserAdd(v, e, n)
        PROVE  users'[u].identity = users[u].identity
    BY <2>1, <2>2, <2>6 DEF UserAdd
  <2>7. ASSUME NEW v \in Ids, UserDelete(v)
        PROVE  users'[u].identity = users[u].identity
    BY <2>1, <2>2, <2>7 DEF UserDelete
  <2>8. ASSUME UNCHANGED users PROVE users'[u].identity = users[u].identity
    BY <2>8
  <2>9. QED
    BY <2>1, <2>3, <2>4, <2>5, <2>6, <2>7, <2>8 DEF ULNext, Begin, FindLinked, Fail, End
<1>2. QED
  BY <1>1, Invariance, PTL DEF ULSpec, LinksAreFinal

===========================================================================
