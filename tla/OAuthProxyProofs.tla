--------------------------- MODULE OAuthProxyProofs ---------------------------
(***************************************************************************)
(* Proofs about OAuthProxy, for any addresses, rates, durations and caps.  *)
(* The limiters of the routes are independent, so the invariant is stated  *)
(* of one limiter L with the history of its route: p, when each address    *)
(* last got past the ban check; a, what was admitted; o, its last offence. *)
(***************************************************************************)
EXTENDS OAuthProxy, FiniteSetTheorems, WellFoundedInduction, TLAPS

\* The windows are in the order in which their addresses were last seen.
Ordered(seq, p) == \A i, j \in 1..Len(seq) : i < j => p[seq[i]] < p[seq[j]]

\* An address that is not in the OrderedDict has no hits.
Listed(L) == \A ip \in IPs : L.hits[ip] # {} => \E i \in 1..Len(L.order) : L.order[i] = ip

\* The other addresses seen after t.
Later(p, ip, t) == {y \in IPs \ {ip} : p[y] > t}

\* The other addresses seen after one of the requests in S.
After(p, ip, S) == {y \in IPs \ {ip} : \E t \in S : p[y] > t}

\* Every admitted request is still counted, or too old to count, or was evicted
\* when as many other addresses as there is room for had been seen after it.
Backed(L, p, a, n) ==
  \A ip \in IPs : \A t \in a[ip] :
    t \in L.hits[ip] \/ t + Window <= n \/ Cardinality(Later(p, ip, t)) >= MaxIPs

\* What is counted was admitted, or is too old to count.
Proper(L, a, n) ==
  \A ip \in IPs : \A t \in L.hits[ip] : t \in a[ip] \/ t + Window <= n

\* The clock is ahead of everything recorded.
Past(p, a, o, n) ==
  \A ip \in IPs : p[ip] < n /\ o[ip] < n /\ \A t \in a[ip] : t <= p[ip]

\* Finitely many addresses have been seen.
Few(p) == IsFiniteSet({y \in IPs : p[y] # 0})

\* A ban is that of the last offence; where there is none, it is over.
BansMatch(L, o, n) ==
  \A ip \in IPs :
    /\ L.bans[ip] # 0 => o[ip] # 0 /\ L.bans[ip] = o[ip] + BanDuration
    /\ L.bans[ip] = 0 => o[ip] = 0 \/ o[ip] + BanDuration <= n

\* WindowLimit and BanHolds, of one limiter.
Limits(p, a, max) ==
  \A ip \in IPs : Cardinality(a[ip]) > max =>
    Cardinality(After(p, ip, a[ip])) >= MaxIPs

Holds(a, o) ==
  \A ip \in IPs : \A t \in a[ip] :
    o[ip] # 0 => t < o[ip] \/ t >= o[ip] + BanDuration

Sound(L, p, a, o, n, max) ==
  /\ L \in Limiter /\ Len(L.order) <= MaxIPs
  /\ p \in [IPs -> Nat] /\ o \in [IPs -> Nat] /\ a \in [IPs -> SUBSET Nat]
  /\ Ordered(L.order, p) /\ Listed(L)
  /\ Backed(L, p, a, n) /\ Proper(L, a, n) /\ Past(p, a, o, n) /\ Few(p)
  /\ BansMatch(L, o, n) /\ Limits(p, a, max) /\ Holds(a, o)

-----------------------------------------------------------------------------
(* The OrderedDict.                                                        *)

\* w is seq, in its order, without x; at[i] is where its i-th element was.
Taken(seq, x, w) ==
  /\ w \in Seq(IPs)
  /\ (\E i \in 1..Len(seq) : seq[i] = x) => Len(w) = Len(seq) - 1
  /\ (\A i \in 1..Len(seq) : seq[i] # x) => w = seq
  /\ \E at \in [1..Len(w) -> 1..Len(seq)] :
       /\ \A i \in 1..Len(w) : w[i] = seq[at[i]] /\ seq[at[i]] # x
       /\ \A i, j \in 1..Len(w) : i < j => at[i] < at[j]
  /\ \A i \in 1..Len(seq) : seq[i] # x => \E j \in 1..Len(w) : w[j] = seq[i]

\* An address occurs once and is taken out.
LEMMA WithoutSeq ==
  ASSUME NEW seq \in Seq(IPs), NEW x \in IPs,
         \A i, j \in 1..Len(seq) : seq[i] = seq[j] => i = j
  PROVE  Taken(seq, x, Without(seq, x))
<1>0. Len(seq) \in Nat
  OBVIOUS
<1>1. CASE Positions(seq, x) = {}
  <2>1. Without(seq, x) = seq /\ \A i \in 1..Len(seq) : seq[i] # x
    BY <1>1 DEF Without, Positions
  <2>3. \E at \in [1..Len(seq) -> 1..Len(seq)] :
          /\ \A i \in 1..Len(seq) : seq[i] = seq[at[i]] /\ seq[at[i]] # x
          /\ \A i, j \in 1..Len(seq) : i < j => at[i] < at[j]
    <3> WITNESS [i \in 1..Len(seq) |-> i] \in [1..Len(seq) -> 1..Len(seq)]
    <3> QED BY <2>1
  <2> QED BY <1>0, <2>1, <2>3 DEF Taken
<1>2. CASE Positions(seq, x) # {}
  <2> DEFINE k == CHOOSE q \in Positions(seq, x) : TRUE
             w == Without(seq, x)
             at == [i \in 1..Len(w) |-> IF i < k THEN i ELSE i + 1]
  <2>1. k \in 1..Len(seq) /\ seq[k] = x
    BY <1>2 DEF Positions
  <2>2. w = [j \in 1..(Len(seq) - 1) |-> IF j < k THEN seq[j] ELSE seq[j + 1]]
    BY <1>2 DEF Without
  <2> HIDE DEF k, w
  <2>3. Len(seq) - 1 \in Nat
    BY <1>0, <2>1
  <2>4. w \in Seq(IPs) /\ Len(w) = Len(seq) - 1
    BY <1>0, <2>1, <2>2, <2>3
  <2>5. at \in [1..Len(w) -> 1..Len(seq)]
    BY <1>0, <2>1, <2>4
  <2>6. ASSUME NEW i \in 1..Len(w)
        PROVE  w[i] = seq[at[i]] /\ seq[at[i]] # x
    <3>1. w[i] = seq[at[i]] /\ at[i] # k /\ at[i] \in 1..Len(seq)
      BY <1>0, <2>1, <2>2, <2>4, <2>6
    <3> QED BY <2>1, <3>1
  <2>7. \A i, j \in 1..Len(w) : i < j => at[i] < at[j]
    BY <1>0, <2>1, <2>4
  <2>8. ASSUME NEW i \in 1..Len(seq), seq[i] # x
        PROVE  \E j \in 1..Len(w) : w[j] = seq[i]
    <3>1. i # k
      BY <2>1, <2>8
    <3>2. CASE i < k
      BY <1>0, <2>1, <2>2, <2>4, <3>2
    <3>3. CASE i > k
      <4>1. i - 1 \in 1..(Len(seq) - 1) /\ ~(i - 1 < k) /\ (i - 1) + 1 = i
        BY <1>0, <2>1, <3>3
      <4>2. w[i - 1] = seq[(i - 1) + 1]
        BY <2>2, <4>1
      <4> QED BY <2>4, <4>1, <4>2
    <3> QED BY <1>0, <2>1, <3>1, <3>2, <3>3
  <2> HIDE DEF at
  <2> QED BY <2>1, <2>4, <2>5, <2>6, <2>7, <2>8 DEF w, Taken
<1> QED BY <1>1, <1>2

\* The order after an address was seen at a time later than all before.
LEMMA TouchedOrder ==
  ASSUME NEW seq \in Seq(IPs), NEW ip \in IPs, NEW p \in [IPs -> Nat], NEW n \in Nat,
         \A y \in IPs : p[y] < n, Ordered(seq, p)
  PROVE  LET w == Append(Without(seq, ip), ip)
         IN  /\ w \in Seq(IPs) /\ Len(w) \in Nat \ {0}
             /\ Len(w) <= Len(seq) + 1
             /\ (\E i \in 1..Len(seq) : seq[i] = ip) => Len(w) = Len(seq)
             /\ w[Len(w)] = ip
             /\ Ordered(w, [p EXCEPT ![ip] = n])
             /\ \A i \in 1..Len(seq) : \E j \in 1..Len(w) : w[j] = seq[i]
<1> DEFINE u == Without(seq, ip)
           w == Append(u, ip)
           q == [p EXCEPT ![ip] = n]
<1>0. \A i, j \in 1..Len(seq) : seq[i] = seq[j] => i = j
  <2> SUFFICES ASSUME NEW i \in 1..Len(seq), NEW j \in 1..Len(seq), seq[i] = seq[j], i # j
               PROVE  FALSE
    OBVIOUS
  <2>1. i < j \/ j < i
    OBVIOUS
  <2>2. p[seq[i]] \in Nat /\ p[seq[j]] \in Nat
    OBVIOUS
  <2> QED BY <2>1, <2>2 DEF Ordered
<1> HIDE DEF u
<1>1. Taken(seq, ip, u)
  BY <1>0, WithoutSeq DEF u
<1>2. u \in Seq(IPs)
  BY <1>1 DEF Taken
<1>3. /\ (\E i \in 1..Len(seq) : seq[i] = ip) => Len(u) = Len(seq) - 1
      /\ (\A i \in 1..Len(seq) : seq[i] # ip) => Len(u) = Len(seq)
  BY <1>1 DEF Taken
<1>4. PICK at \in [1..Len(u) -> 1..Len(seq)] :
        /\ \A i \in 1..Len(u) : u[i] = seq[at[i]] /\ seq[at[i]] # ip
        /\ \A i, j \in 1..Len(u) : i < j => at[i] < at[j]
  BY <1>1 DEF Taken
<1>5. \A i \in 1..Len(seq) : seq[i] # ip => \E j \in 1..Len(u) : u[j] = seq[i]
  BY <1>1 DEF Taken
<1>6. /\ w \in Seq(IPs) /\ Len(w) = Len(u) + 1 /\ Len(u) \in Nat /\ w[Len(w)] = ip
      /\ \A i \in 1..Len(u) : w[i] = u[i]
  BY <1>2
<1> HIDE DEF w
<1>7. ASSUME NEW i \in 1..Len(u)
      PROVE  /\ at[i] \in 1..Len(seq) /\ w[i] = seq[at[i]]
             /\ w[i] \in IPs /\ q[w[i]] = p[w[i]] /\ p[w[i]] \in Nat /\ p[w[i]] < n
  <2>1. w[i] = seq[at[i]] /\ w[i] # ip /\ at[i] \in 1..Len(seq)
    BY <1>4, <1>6
  <2>2. w[i] \in IPs
    BY <2>1
  <2> QED BY <2>1, <2>2
<1>8. ASSUME NEW i \in 1..Len(w), NEW j \in 1..Len(w), i < j
      PROVE  q[w[i]] < q[w[j]]
  <2>1. i \in 1..Len(u)
    BY <1>6, <1>8
  <2>2. CASE j = Len(w)
    BY <1>6, <1>7, <2>1, <2>2
  <2>3. CASE j # Len(w)
    <3>1. j \in 1..Len(u)
      BY <1>6, <2>3
    <3>2. at[i] < at[j]
      BY <1>4, <1>8, <2>1, <3>1
    <3>3. p[seq[at[i]]] < p[seq[at[j]]]
      BY <1>7, <2>1, <3>1, <3>2 DEF Ordered
    <3>4. q[w[i]] = p[seq[at[i]]] /\ q[w[j]] = p[seq[at[j]]]
      BY <1>7, <2>1, <3>1
    <3> QED BY <3>3, <3>4
  <2> QED BY <2>2, <2>3
<1>9. Ordered(w, q)
  BY <1>8 DEF Ordered
<1>10. ASSUME NEW i \in 1..Len(seq)
      PROVE  \E j \in 1..Len(w) : w[j] = seq[i]
  <2>1. CASE seq[i] = ip
    BY <1>6, <2>1
  <2>2. CASE seq[i] # ip
    <3>1. PICK j \in 1..Len(u) : u[j] = seq[i]
      BY <1>5, <2>2
    <3>2. j \in 1..Len(w) /\ w[j] = seq[i]
      BY <1>6, <3>1
    <3> QED BY <3>2
  <2> QED BY <2>1, <2>2
<1>11. Len(w) <= Len(seq) + 1 /\ ((\E i \in 1..Len(seq) : seq[i] = ip) => Len(w) = Len(seq))
  <2>1. Len(seq) \in Nat
    OBVIOUS
  <2>2. CASE \E i \in 1..Len(seq) : seq[i] = ip
    BY <1>3, <1>6, <2>1, <2>2
  <2>3. CASE \A i \in 1..Len(seq) : seq[i] # ip
    BY <1>3, <1>6, <2>1, <2>3
  <2> QED BY <2>2, <2>3
<1>12. Len(w) \in Nat \ {0}
  BY <1>6
<1> QED BY <1>6, <1>9, <1>10, <1>11, <1>12 DEF u, w

-----------------------------------------------------------------------------
(* Counting addresses.                                                     *)

\* One more address seen leaves them finitely many.
LEMMA FewMore ==
  ASSUME NEW p \in [IPs -> Nat], NEW ip \in IPs, NEW n \in Nat, Few(p)
  PROVE  Few([p EXCEPT ![ip] = n])
<1> DEFINE S == {y \in IPs : p[y] # 0}
<1>1. IsFiniteSet(S \cup {ip})
  BY FS_AddElement DEF Few
<1>2. {y \in IPs : [p EXCEPT ![ip] = n][y] # 0} \in SUBSET (S \cup {ip})
  OBVIOUS
<1>3. IsFiniteSet({y \in IPs : [p EXCEPT ![ip] = n][y] # 0})
  BY <1>1, <1>2, FS_Subset
<1> QED BY <1>3 DEF Few

\* Among finitely many, a larger set of addresses counts for at least as much.
LEMMA SeenGrows ==
  ASSUME NEW q \in [IPs -> Nat], Few(q), NEW T \in SUBSET {y \in IPs : q[y] # 0},
         NEW S \in SUBSET T
  PROVE  /\ IsFiniteSet(T) /\ IsFiniteSet(S) /\ Cardinality(S) <= Cardinality(T)
         /\ Cardinality(S) \in Nat /\ Cardinality(T) \in Nat
<1>1. IsFiniteSet(T)
  BY FS_Subset DEF Few
<1>2. IsFiniteSet(S) /\ Cardinality(S) <= Cardinality(T)
  BY <1>1, FS_Subset
<1> QED BY <1>1, <1>2, FS_CardinalityType

\* What was seen after t stays seen after t.
LEMMA LaterGrows ==
  ASSUME NEW p \in [IPs -> Nat], NEW q \in [IPs -> Nat], Few(q), NEW ip \in IPs,
         \A y \in IPs : p[y] <= q[y], NEW t \in Nat,
         Cardinality(Later(p, ip, t)) >= MaxIPs
  PROVE  Cardinality(Later(q, ip, t)) >= MaxIPs
<1>1. Later(q, ip, t) \in SUBSET {y \in IPs : q[y] # 0}
  BY DEF Later
<1>2. Later(p, ip, t) \in SUBSET Later(q, ip, t)
  BY DEF Later
<1>3. /\ Cardinality(Later(p, ip, t)) <= Cardinality(Later(q, ip, t))
      /\ Cardinality(Later(p, ip, t)) \in Nat /\ Cardinality(Later(q, ip, t)) \in Nat
  BY <1>1, <1>2, SeenGrows
<1> QED BY <1>3, RateLimiterAssumption

\* Likewise for the addresses seen after one of the requests in S.
LEMMA LaterAfter ==
  ASSUME NEW q \in [IPs -> Nat], Few(q), NEW ip \in IPs,
         NEW S \in SUBSET Nat, NEW t \in S,
         Cardinality(Later(q, ip, t)) >= MaxIPs
  PROVE  Cardinality(After(q, ip, S)) >= MaxIPs
<1>1. After(q, ip, S) \in SUBSET {y \in IPs : q[y] # 0}
  BY DEF After
<1>2. Later(q, ip, t) \in SUBSET After(q, ip, S)
  BY DEF Later, After
<1>3. /\ Cardinality(Later(q, ip, t)) <= Cardinality(After(q, ip, S))
      /\ Cardinality(Later(q, ip, t)) \in Nat /\ Cardinality(After(q, ip, S)) \in Nat
  BY <1>1, <1>2, SeenGrows
<1> QED BY <1>3, RateLimiterAssumption

LEMMA AfterGrows ==
  ASSUME NEW p \in [IPs -> Nat], NEW q \in [IPs -> Nat], Few(q),
         \A y \in IPs : p[y] <= q[y], NEW ip \in IPs, NEW S \in SUBSET Nat,
         Cardinality(After(p, ip, S)) >= MaxIPs
  PROVE  Cardinality(After(q, ip, S)) >= MaxIPs
<1>1. After(q, ip, S) \in SUBSET {y \in IPs : q[y] # 0}
  BY DEF After
<1>2. After(p, ip, S) \in SUBSET After(q, ip, S)
  <2> SUFFICES ASSUME NEW y \in IPs \ {ip}, NEW u \in S, p[y] > u
               PROVE  q[y] > u
    BY DEF After
  <2> QED OBVIOUS
<1>3. /\ Cardinality(After(p, ip, S)) <= Cardinality(After(q, ip, S))
      /\ Cardinality(After(p, ip, S)) \in Nat /\ Cardinality(After(q, ip, S)) \in Nat
  BY <1>1, <1>2, SeenGrows
<1> QED BY <1>3, RateLimiterAssumption

\* When a full OrderedDict has taken in one more, the address at its head has
\* been followed by as many others as there is room for.
LEMMA HeadOvertaken ==
  ASSUME NEW w \in Seq(IPs), Len(w) = MaxIPs + 1, NEW q \in [IPs -> Nat], Few(q),
         Ordered(w, q), NEW t \in Nat, t <= q[w[1]]
  PROVE  Cardinality(Later(q, w[1], t)) >= MaxIPs
<1> DEFINE T == Later(q, w[1], t)
           f == [k \in 1..MaxIPs |-> w[k + 1]]
<1>0. MaxIPs \in Nat \ {0}
  BY RateLimiterAssumption
<1>1. \A k \in 1..Len(w) : w[k] \in IPs /\ q[w[k]] \in Nat
  OBVIOUS
<1>2. ASSUME NEW k \in 1..MaxIPs
      PROVE  f[k] \in T
  <2>1. k + 1 \in 1..Len(w) /\ 1 \in 1..Len(w) /\ 1 < k + 1
    BY <1>0
  <2>2. q[w[1]] < q[w[k + 1]]
    BY <2>1 DEF Ordered
  <2> QED BY <1>1, <2>1, <2>2 DEF Later
<1>3. ASSUME NEW j \in 1..MaxIPs, NEW k \in 1..MaxIPs, f[j] = f[k]
      PROVE  j = k
  <2>1. j + 1 \in 1..Len(w) /\ k + 1 \in 1..Len(w) /\ w[j + 1] = w[k + 1]
    BY <1>0, <1>3
  <2>2. ~(q[w[j + 1]] < q[w[k + 1]]) /\ ~(q[w[k + 1]] < q[w[j + 1]])
    BY <1>1, <2>1
  <2>3. ~(j + 1 < k + 1) /\ ~(k + 1 < j + 1)
    BY <2>1, <2>2 DEF Ordered
  <2> QED BY <1>0, <2>3
<1>4. T \in SUBSET {y \in IPs : q[y] # 0}
  BY DEF Later
<1>5. IsFiniteSet(T) /\ Cardinality(T) \in Nat
  BY <1>4, SeenGrows
<1> HIDE DEF T
<1>6. f \in Injection(1..MaxIPs, T)
  BY <1>2, <1>3 DEF Injection, IsInjective
<1>7. Cardinality(1..MaxIPs) <= Cardinality(T)
  BY <1>5, <1>6, FS_Injection
<1>8. Cardinality(1..MaxIPs) = MaxIPs
  BY <1>0, FS_Interval
<1> QED BY <1>0, <1>5, <1>7, <1>8 DEF T

-----------------------------------------------------------------------------
(* What the methods of a limiter preserve.                                 *)

\* Time passes.
LEMMA LaterSound ==
  ASSUME NEW L, NEW p, NEW a, NEW o, NEW n \in Nat, NEW max, Sound(L, p, a, o, n, max)
  PROVE  Sound(L, p, a, o, n + 1, max)
<1> USE RateLimiterAssumption
<1>0. /\ p \in [IPs -> Nat] /\ o \in [IPs -> Nat] /\ a \in [IPs -> SUBSET Nat]
      /\ L \in Limiter
  BY DEF Sound
<1>1. Backed(L, p, a, n + 1)
  BY <1>0 DEF Sound, Backed
<1>2. Proper(L, a, n + 1)
  BY <1>0 DEF Sound, Proper, Limiter
<1>3. Past(p, a, o, n + 1)
  BY <1>0 DEF Sound, Past
<1>4. BansMatch(L, o, n + 1)
  BY <1>0 DEF Sound, BansMatch
<1> QED BY <1>1, <1>2, <1>3, <1>4 DEF Sound

\* ban: the offence at n ends at the same time as the ban.
LEMMA BanSound ==
  ASSUME NEW L, NEW p, NEW a, NEW o, NEW n \in Nat \ {0}, NEW max, Sound(L, p, a, o, n, max),
         NEW ip \in IPs
  PROVE  Sound(Ban(L, ip, n), p, a, [o EXCEPT ![ip] = n], n + 1, max)
<1> DEFINE M == Ban(L, ip, n)
           o2 == [o EXCEPT ![ip] = n]
<1> USE RateLimiterAssumption
<1>0. /\ p \in [IPs -> Nat] /\ o \in [IPs -> Nat] /\ a \in [IPs -> SUBSET Nat]
      /\ L \in Limiter
  BY DEF Sound
<1>1. /\ M \in Limiter /\ M.order = L.order /\ M.hits = L.hits
      /\ M.bans = [L.bans EXCEPT ![ip] = n + BanDuration]
  <2>1. n + BanDuration \in Nat
    OBVIOUS
  <2>2. M \in Limiter
    BY <1>0, <2>1 DEF Ban, Limiter
  <2>3. M.order = L.order /\ M.hits = L.hits
    BY <1>0 DEF Ban, Limiter
  <2>4. M.bans = [L.bans EXCEPT ![ip] = n + BanDuration]
    BY <1>0 DEF Ban, Limiter
  <2> QED BY <2>2, <2>3, <2>4
<1>2. o2 \in [IPs -> Nat]
  BY <1>0
<1> HIDE DEF M
<1>3. Backed(M, p, a, n + 1)
  BY <1>0, <1>1 DEF Sound, Backed
<1>4. Proper(M, a, n + 1)
  BY <1>0, <1>1 DEF Sound, Proper, Limiter
<1>5. Past(p, a, o2, n + 1)
  BY <1>0 DEF Sound, Past
<1>6. BansMatch(M, o2, n + 1)
  <2> SUFFICES ASSUME NEW y \in IPs
               PROVE  /\ M.bans[y] # 0 => o2[y] # 0 /\ M.bans[y] = o2[y] + BanDuration
                      /\ M.bans[y] = 0 => o2[y] = 0 \/ o2[y] + BanDuration <= n + 1
    BY DEF BansMatch
  <2>1. L.bans \in [IPs -> Nat]
    BY <1>0 DEF Limiter
  <2>2. CASE y = ip
    BY <1>0, <1>1, <2>1, <2>2
  <2>3. CASE y # ip
    <3>1. M.bans[y] = L.bans[y] /\ o2[y] = o[y]
      BY <1>0, <1>1, <2>1, <2>3
    <3> QED BY <1>0, <2>1, <3>1 DEF Sound, BansMatch
  <2> QED BY <2>2, <2>3
<1>7. Holds(a, o2)
  <2> SUFFICES ASSUME NEW y \in IPs, NEW t \in a[y], o2[y] # 0
               PROVE  t < o2[y] \/ t >= o2[y] + BanDuration
    BY DEF Holds
  <2>1. CASE y = ip
    <3>1. t <= p[ip] /\ p[ip] < n /\ o2[y] = n
      BY <1>0, <2>1 DEF Sound, Past
    <3> QED BY <1>0, <2>1, <3>1
  <2>2. CASE y # ip
    <3>1. o2[y] = o[y]
      BY <1>0, <2>2
    <3> QED BY <3>1 DEF Sound, Holds
  <2> QED BY <2>1, <2>2
<1>8. Listed(M) /\ Ordered(M.order, p) /\ Len(M.order) <= MaxIPs
  BY <1>1 DEF Sound, Listed
<1> QED BY <1>0, <1>1, <1>2, <1>3, <1>4, <1>5, <1>6, <1>7, <1>8 DEF Sound, M

\* M is L, and q is p, after ip was seen at n and not found banned: its window is
\* ts, its ban if any was over, and it is the last in the order.
Seen(L, p, o, n, ip, ts, M, q) ==
  /\ M \in Limiter /\ q \in [IPs -> Nat] /\ Few(q)
  /\ \A y \in IPs : p[y] <= q[y] /\ q[y] < n + 1
  /\ M.hits = [L.hits EXCEPT ![ip] = ts]
  /\ Ordered(M.order, q) /\ Listed(M)
  /\ Len(M.order) \in Nat \ {0} /\ Len(M.order) <= MaxIPs + 1
  /\ L.hits[ip] # {} => Len(M.order) <= MaxIPs
  /\ M.order[Len(M.order)] = ip
  /\ BansMatch(M, o, n + 1)
  /\ o[ip] = 0 \/ o[ip] + BanDuration <= n

LEMMA TouchedSound ==
  ASSUME NEW L, NEW p, NEW a, NEW o, NEW n \in Nat \ {0}, NEW max, Sound(L, p, a, o, n, max),
         NEW ip \in IPs, ~Banned(L, ip, n), NEW ts \in SUBSET Nat
  PROVE  Seen(L, p, o, n, ip, ts, Touched(L, ip, ts), [p EXCEPT ![ip] = n])
<1> DEFINE M == Touched(L, ip, ts)
           q == [p EXCEPT ![ip] = n]
<1> USE RateLimiterAssumption
<1>0. /\ p \in [IPs -> Nat] /\ o \in [IPs -> Nat] /\ a \in [IPs -> SUBSET Nat]
      /\ L \in Limiter /\ Len(L.order) <= MaxIPs /\ Ordered(L.order, p) /\ Listed(L)
      /\ \A y \in IPs : p[y] < n
  BY DEF Sound, Past
<1>1. /\ L.order \in Seq(IPs) /\ L.bans \in [IPs -> Nat] /\ L.hits \in [IPs -> SUBSET Nat]
  BY <1>0 DEF Limiter
<1>2. /\ Append(Without(L.order, ip), ip) \in Seq(IPs)
      /\ Len(Append(Without(L.order, ip), ip)) \in Nat \ {0}
      /\ Len(Append(Without(L.order, ip), ip)) <= Len(L.order) + 1
      /\ (\E i \in 1..Len(L.order) : L.order[i] = ip)
         => Len(Append(Without(L.order, ip), ip)) = Len(L.order)
      /\ Append(Without(L.order, ip), ip)[Len(Append(Without(L.order, ip), ip))] = ip
      /\ Ordered(Append(Without(L.order, ip), ip), q)
      /\ \A i \in 1..Len(L.order) :
           \E j \in 1..Len(Append(Without(L.order, ip), ip)) :
             Append(Without(L.order, ip), ip)[j] = L.order[i]
  BY <1>0, <1>1, TouchedOrder
<1> DEFINE w == Append(Without(L.order, ip), ip)
<1>3. /\ M.hits = [L.hits EXCEPT ![ip] = ts] /\ M.order = w
      /\ M.bans = [L.bans EXCEPT ![ip] = 0] /\ M \in Limiter
  <2>1. M.hits = [L.hits EXCEPT ![ip] = ts]
    BY <1>0 DEF Touched, Limiter
  <2>2. M.order = w
    BY <1>0 DEF Touched, Limiter
  <2>3. M.bans = [L.bans EXCEPT ![ip] = 0]
    BY <1>0 DEF Touched, Limiter
  <2>4. w \in Seq(IPs) /\ [L.hits EXCEPT ![ip] = ts] \in [IPs -> SUBSET Nat]
        /\ [L.bans EXCEPT ![ip] = 0] \in [IPs -> Nat]
    BY <1>1, <1>2
  <2>5. M \in Limiter
    BY <1>0, <2>4 DEF Touched, Limiter
  <2> QED BY <2>1, <2>2, <2>3, <2>5
<1>4. /\ w \in Seq(IPs) /\ Len(w) \in Nat \ {0} /\ Len(w) <= Len(L.order) + 1
      /\ (\E i \in 1..Len(L.order) : L.order[i] = ip) => Len(w) = Len(L.order)
      /\ w[Len(w)] = ip /\ Ordered(w, q)
      /\ \A i \in 1..Len(L.order) : \E j \in 1..Len(w) : w[j] = L.order[i]
  BY <1>2
<1> HIDE DEF w, M
<1>5. M \in Limiter
  BY <1>3
<1>6. q \in [IPs -> Nat] /\ Few(q)
  BY <1>0, FewMore DEF Sound
<1>7. \A y \in IPs : p[y] <= q[y] /\ q[y] < n + 1
  BY <1>0
<1>8. Listed(M)
  <2> SUFFICES ASSUME NEW y \in IPs, M.hits[y] # {}
               PROVE  \E i \in 1..Len(w) : w[i] = y
    BY <1>3 DEF Listed
  <2>1. CASE y = ip
    BY <1>4, <2>1
  <2>2. CASE y # ip
    <3>1. L.hits[y] # {}
      BY <1>1, <1>3, <2>2
    <3>2. PICK i \in 1..Len(L.order) : L.order[i] = y
      BY <1>0, <3>1 DEF Listed
    <3> QED BY <1>4, <3>2
  <2> QED BY <2>1, <2>2
<1>9. L.hits[ip] # {} => Len(w) <= MaxIPs
  <2> SUFFICES ASSUME L.hits[ip] # {}
               PROVE  Len(w) <= MaxIPs
    OBVIOUS
  <2>1. \E i \in 1..Len(L.order) : L.order[i] = ip
    BY <1>0 DEF Listed
  <2> QED BY <1>0, <1>4, <2>1
<1>10. Len(w) <= MaxIPs + 1
  <2>1. Len(L.order) \in Nat
    BY <1>1
  <2> QED BY <1>0, <1>4, <2>1
<1>11. o[ip] = 0 \/ o[ip] + BanDuration <= n
  <2>1. L.bans[ip] <= n
    BY <1>1 DEF Banned
  <2> QED BY <1>0, <1>1, <2>1 DEF Sound, BansMatch
<1>12. BansMatch(M, o, n + 1)
  <2> SUFFICES ASSUME NEW y \in IPs
               PROVE  /\ M.bans[y] # 0 => o[y] # 0 /\ M.bans[y] = o[y] + BanDuration
                      /\ M.bans[y] = 0 => o[y] = 0 \/ o[y] + BanDuration <= n + 1
    BY DEF BansMatch
  <2>1. CASE y = ip
    <3>1. M.bans[y] = 0
      BY <1>1, <1>3, <2>1
    <3> QED BY <1>0, <1>11, <2>1, <3>1
  <2>2. CASE y # ip
    <3>1. M.bans[y] = L.bans[y]
      BY <1>1, <1>3, <2>2
    <3> QED BY <1>0, <1>1, <3>1 DEF Sound, BansMatch
  <2> QED BY <2>1, <2>2
<1>13. M.order = w /\ M.hits = [L.hits EXCEPT ![ip] = ts]
  BY <1>3
<1> HIDE DEF q
<1>14. /\ Len(M.order) \in Nat \ {0} /\ Len(M.order) <= MaxIPs + 1
       /\ L.hits[ip] # {} => Len(M.order) <= MaxIPs
       /\ M.order[Len(M.order)] = ip /\ Ordered(M.order, q)
  BY <1>4, <1>9, <1>10, <1>13
<1> QED BY <1>5, <1>6, <1>7, <1>8, <1>11, <1>12, <1>13, <1>14 DEF M, q, Seen

\* An address's admissions are finitely many, and so are its hits.
LEMMA Finite ==
  ASSUME NEW L, NEW p, NEW a, NEW o, NEW n \in Nat, NEW max, Sound(L, p, a, o, n, max),
         NEW ip \in IPs
  PROVE  /\ IsFiniteSet(a[ip]) /\ IsFiniteSet({t \in a[ip] : t + Window > n})
         /\ Recent(L, ip, n) \in SUBSET {t \in a[ip] : t + Window > n}
<1>0. /\ p \in [IPs -> Nat] /\ a \in [IPs -> SUBSET Nat] /\ L.hits \in [IPs -> SUBSET Nat]
  BY DEF Sound, Limiter
<1>1. \A t \in a[ip] : t <= p[ip]
  BY DEF Sound, Past
<1>2. IsFiniteSet(a[ip])
  BY <1>0, <1>1, FS_BoundedSetOfNaturals
<1>3. IsFiniteSet({t \in a[ip] : t + Window > n})
  BY <1>2, FS_Subset
<1>4. ASSUME NEW t \in Recent(L, ip, n)
      PROVE  t \in a[ip] /\ t + Window > n
  <2>1. t \in L.hits[ip] /\ t + Window > n /\ t \in Nat
    BY <1>0 DEF Recent
  <2> QED BY <2>1, RateLimiterAssumption DEF Sound, Proper
<1> QED BY <1>2, <1>3, <1>4

\* A full window is one of admitted requests.
LEMMA FullForCause ==
  ASSUME NEW L, NEW p, NEW a, NEW o, NEW n \in Nat, NEW max \in Nat,
         Sound(L, p, a, o, n, max), NEW ip \in IPs, Full(L, max, ip, n)
  PROVE  Cardinality({t \in a[ip] : t + Window > n}) >= max
<1> DEFINE S == {t \in a[ip] : t + Window > n}
<1>1. IsFiniteSet(S) /\ Recent(L, ip, n) \in SUBSET S
  BY Finite
<1>2. IsFiniteSet(Recent(L, ip, n)) /\ Cardinality(Recent(L, ip, n)) <= Cardinality(S)
  BY <1>1, FS_Subset
<1>3. Cardinality(S) \in Nat /\ Cardinality(Recent(L, ip, n)) \in Nat
  BY <1>1, <1>2, FS_CardinalityType
<1>4. Cardinality(Recent(L, ip, n)) >= max
  BY DEF Full
<1> QED BY <1>2, <1>3, <1>4

\* check refuses for the rate: what is still in the window is kept.
LEMMA FullSound ==
  ASSUME NEW L, NEW p, NEW a, NEW o, NEW n \in Nat \ {0}, NEW max \in Nat \ {0},
         Sound(L, p, a, o, n, max), NEW ip \in IPs, ~Banned(L, ip, n), Full(L, max, ip, n)
  PROVE  Sound(Touched(L, ip, Recent(L, ip, n)), [p EXCEPT ![ip] = n], a, o, n + 1, max)
<1> DEFINE M == Touched(L, ip, Recent(L, ip, n))
           q == [p EXCEPT ![ip] = n]
<1> USE RateLimiterAssumption
<1>0. /\ p \in [IPs -> Nat] /\ o \in [IPs -> Nat] /\ a \in [IPs -> SUBSET Nat]
      /\ L.hits \in [IPs -> SUBSET Nat]
  BY DEF Sound, Limiter
<1>1. Recent(L, ip, n) \in SUBSET Nat
  BY <1>0 DEF Recent
<1> HIDE DEF M, q
<1>a. Seen(L, p, o, n, ip, Recent(L, ip, n), M, q)
  BY <1>1, TouchedSound DEF M, q
<1>2. /\ M \in Limiter /\ q \in [IPs -> Nat] /\ Few(q)
      /\ \A y \in IPs : p[y] <= q[y] /\ q[y] < n + 1
      /\ M.hits = [L.hits EXCEPT ![ip] = Recent(L, ip, n)]
      /\ Ordered(M.order, q) /\ Listed(M)
      /\ L.hits[ip] # {} => Len(M.order) <= MaxIPs
      /\ BansMatch(M, o, n + 1)
  BY <1>a DEF Seen
<1>3. Len(M.order) <= MaxIPs
  <2>1. Recent(L, ip, n) # {}
    BY FS_EmptySet DEF Full
  <2>2. L.hits[ip] # {}
    BY <2>1 DEF Recent
  <2> QED BY <1>2, <2>2
<1>4. \A y \in IPs : \A t \in L.hits[y] : t \in M.hits[y] \/ t + Window <= n
  BY <1>0, <1>2 DEF Recent
<1>5. \A y \in IPs : M.hits[y] \subseteq L.hits[y]
  BY <1>0, <1>2 DEF Recent
<1>6. Backed(M, q, a, n + 1)
  <2> SUFFICES ASSUME NEW y \in IPs, NEW t \in a[y]
               PROVE  t \in M.hits[y] \/ t + Window <= n + 1
                      \/ Cardinality(Later(q, y, t)) >= MaxIPs
    BY DEF Backed
  <2>1. CASE t \in L.hits[y]
    BY <1>0, <1>4, <2>1
  <2>2. CASE t + Window <= n
    BY <1>0, <2>2
  <2>3. CASE Cardinality(Later(p, y, t)) >= MaxIPs
    BY <1>0, <1>2, <2>3, LaterGrows
  <2> QED BY <2>1, <2>2, <2>3 DEF Sound, Backed
<1>7. Proper(M, a, n + 1)
  BY <1>0, <1>5 DEF Sound, Proper
<1>8. Past(q, a, o, n + 1)
  BY <1>0, <1>2 DEF Sound, Past
<1>9. Limits(q, a, max)
  <2> SUFFICES ASSUME NEW y \in IPs, Cardinality(a[y]) > max
               PROVE  Cardinality(After(q, y, a[y])) >= MaxIPs
    BY DEF Limits
  <2>1. Cardinality(After(p, y, a[y])) >= MaxIPs /\ a[y] \in SUBSET Nat
    BY <1>0 DEF Sound, Limits
  <2> QED BY <1>0, <1>2, <2>1, AfterGrows
<1> QED BY <1>0, <1>2, <1>3, <1>6, <1>7, <1>8, <1>9 DEF Sound, M, q

\* C is M within the cap: what is gone is the window of another address than ip,
\* all of whose requests have as many others after them as there is room for.
Evicted(M, q, ip, ts, C) ==
  /\ C \in Limiter /\ Len(C.order) <= MaxIPs
  /\ Ordered(C.order, q) /\ Listed(C) /\ C.bans = M.bans /\ C.hits[ip] = ts
  /\ \A y \in IPs :
       \/ C.hits[y] = M.hits[y]
       \/ /\ y # ip /\ C.hits[y] = {}
          /\ \A t \in Nat : t <= q[y] => Cardinality(Later(q, y, t)) >= MaxIPs

LEMMA CappedEvicts ==
  ASSUME NEW L \in Limiter, NEW p \in [IPs -> Nat], NEW o, NEW n \in Nat, NEW ip \in IPs,
         NEW ts \in SUBSET Nat, NEW M, NEW q, Seen(L, p, o, n, ip, ts, M, q)
  PROVE  Evicted(M, q, ip, ts, Capped(M))
<1> USE RateLimiterAssumption
<1>1. /\ M \in Limiter /\ q \in [IPs -> Nat] /\ Few(q)
      /\ M.hits = [L.hits EXCEPT ![ip] = ts]
      /\ Ordered(M.order, q) /\ Listed(M)
      /\ Len(M.order) \in Nat \ {0} /\ Len(M.order) <= MaxIPs + 1
      /\ M.order[Len(M.order)] = ip
  BY DEF Seen
<1>2. /\ M.order \in Seq(IPs) /\ M.hits \in [IPs -> SUBSET Nat] /\ M.bans \in [IPs -> Nat]
      /\ L.hits \in [IPs -> SUBSET Nat]
  BY <1>1 DEF Limiter
<1>3. CASE Len(M.order) <= MaxIPs
  <2>1. Capped(M) = M
    BY <1>3 DEF Capped
  <2>2. M.hits[ip] = ts
    BY <1>1, <1>2
  <2> QED BY <1>1, <1>3, <2>1, <2>2 DEF Evicted
<1>4. CASE ~(Len(M.order) <= MaxIPs)
  <2> DEFINE w == M.order
             z == Head(w)
             C == Capped(M)
  <2>1. Len(w) = MaxIPs + 1 /\ w # <<>>
    BY <1>1, <1>2, <1>4
  <2>2. z = w[1] /\ z \in IPs /\ Tail(w) \in Seq(IPs)
        /\ Len(Tail(w)) = MaxIPs /\ \A i \in 1..MaxIPs : Tail(w)[i] = w[i + 1]
    BY <1>2, <2>1
  <2>3. C = [M EXCEPT !.hits[z] = {}, !.order = Tail(@)]
    BY <1>4 DEF Capped
  <2> HIDE DEF C, z
  <2>4. C.hits = [M.hits EXCEPT ![z] = {}]
    BY <1>1, <2>3 DEF Limiter
  <2>5. C.order = Tail(w)
    BY <1>1, <2>3 DEF Limiter
  <2>6. C.bans = M.bans
    BY <1>1, <2>3 DEF Limiter
  <2>7. C \in Limiter
    BY <1>1, <1>2, <2>2, <2>3 DEF Limiter
  <2>8. z # ip
    <3>1. 1 \in 1..Len(w) /\ Len(w) \in 1..Len(w) /\ 1 < Len(w)
      BY <2>1
    <3>2. q[w[1]] < q[w[Len(w)]]
      BY <1>1, <3>1 DEF Ordered
    <3>3. q[ip] \in Nat
      BY <1>1
    <3> QED BY <1>1, <2>2, <3>2, <3>3
  <2>9. Ordered(Tail(w), q)
    <3> SUFFICES ASSUME NEW i \in 1..MaxIPs, NEW j \in 1..MaxIPs, i < j
                 PROVE  q[Tail(w)[i]] < q[Tail(w)[j]]
      BY <2>2 DEF Ordered
    <3>1. i + 1 \in 1..Len(w) /\ j + 1 \in 1..Len(w) /\ i + 1 < j + 1
      BY <2>1
    <3>2. q[w[i + 1]] < q[w[j + 1]]
      BY <1>1, <3>1 DEF Ordered
    <3> QED BY <2>2, <3>2
  <2>10. Listed(C)
    <3> SUFFICES ASSUME NEW y \in IPs, C.hits[y] # {}
                 PROVE  \E i \in 1..Len(C.order) : C.order[i] = y
      BY DEF Listed
    <3>1. y # z /\ M.hits[y] # {}
      BY <1>2, <2>4
    <3>2. PICK i \in 1..Len(w) : w[i] = y
      BY <1>1, <3>1 DEF Listed
    <3>3. i - 1 \in 1..MaxIPs /\ (i - 1) + 1 = i
      BY <2>1, <2>2, <3>1, <3>2
    <3>4. Tail(w)[i - 1] = y
      BY <2>2, <3>2, <3>3
    <3> QED BY <2>2, <2>5, <3>3, <3>4
  <2>11. \A t \in Nat : t <= q[z] => Cardinality(Later(q, z, t)) >= MaxIPs
    BY <1>1, <1>2, <2>1, <2>2, HeadOvertaken
  <2>12. ASSUME NEW y \in IPs
         PROVE  \/ C.hits[y] = M.hits[y]
                \/ /\ y # ip /\ C.hits[y] = {}
                   /\ \A t \in Nat : t <= q[y] => Cardinality(Later(q, y, t)) >= MaxIPs
    <3>1. CASE y = z
      <4>1. C.hits[y] = {}
        BY <1>2, <2>4, <3>1
      <4> QED BY <2>8, <2>11, <3>1, <4>1
    <3>2. CASE y # z
      BY <1>2, <2>4, <3>2
    <3> QED BY <3>1, <3>2
  <2>13. C.hits[ip] = ts
    <3>1. M.hits[ip] = ts /\ C.hits[ip] = M.hits[ip]
      BY <1>1, <1>2, <2>2, <2>4, <2>8
    <3> QED BY <3>1
  <2>14. Len(C.order) <= MaxIPs
    BY <2>2, <2>5
  <2> QED BY <2>5, <2>6, <2>7, <2>9, <2>10, <2>12, <2>13, <2>14 DEF C, Evicted
<1> QED BY <1>3, <1>4

\* The history after an admission of ip at n.
AdmittedAt(a, ip, n) == [a EXCEPT ![ip] = {t \in a[ip] : t + Window > n} \cup {n}]

\* One more request is admitted: either everything recent was counted, or an
\* eviction came between.
LEMMA AdmitLimits ==
  ASSUME NEW L, NEW p, NEW a, NEW o, NEW n \in Nat \ {0}, NEW max \in Nat \ {0},
         Sound(L, p, a, o, n, max), NEW ip \in IPs, ~Full(L, max, ip, n),
         NEW q \in [IPs -> Nat], Few(q), \A y \in IPs : p[y] <= q[y]
  PROVE  Limits(q, AdmittedAt(a, ip, n), max)
<1> DEFINE S == {t \in a[ip] : t + Window > n}
           b == AdmittedAt(a, ip, n)
<1> USE RateLimiterAssumption
<1>0. /\ p \in [IPs -> Nat] /\ a \in [IPs -> SUBSET Nat] /\ L.hits \in [IPs -> SUBSET Nat]
  BY DEF Sound, Limiter
<1>1. /\ b[ip] = S \cup {n} /\ b[ip] \in SUBSET Nat
      /\ \A y \in IPs : y # ip => b[y] = a[y]
  BY <1>0 DEF AdmittedAt
<1> HIDE DEF b
<1> SUFFICES ASSUME NEW y \in IPs, Cardinality(b[y]) > max
             PROVE  Cardinality(After(q, y, b[y])) >= MaxIPs
  BY DEF Limits, b
<1>2. CASE y # ip
  <2>1. Cardinality(After(p, y, a[y])) >= MaxIPs /\ a[y] \in SUBSET Nat
    BY <1>0, <1>1, <1>2 DEF Sound, Limits
  <2>2. Cardinality(After(q, y, a[y])) >= MaxIPs
    BY <1>0, <2>1, AfterGrows
  <2> QED BY <1>1, <1>2, <2>2
<1>3. CASE y = ip
  <2>1. IsFiniteSet(S) /\ Recent(L, ip, n) \in SUBSET S
    BY Finite
  <2>2. IsFiniteSet(Recent(L, ip, n))
    BY <2>1, FS_Subset
  <2>3. Cardinality(S) \in Nat /\ Cardinality(Recent(L, ip, n)) \in Nat
    BY <2>1, <2>2, FS_CardinalityType
  <2>4. Cardinality(S \cup {n}) <= Cardinality(S) + 1
    BY <2>1, <2>3, FS_AddElement
  <2>5. Cardinality(Recent(L, ip, n)) < max
    BY <2>3 DEF Full
  <2>6. Cardinality(S \cup {n}) \in Nat
    BY <2>1, FS_AddElement, FS_CardinalityType
  <2>7. S # Recent(L, ip, n)
    <3> SUFFICES ASSUME S = Recent(L, ip, n)
                 PROVE  FALSE
      OBVIOUS
    <3>1. Cardinality(S) = Cardinality(Recent(L, ip, n))
      OBVIOUS
    <3>2. Cardinality(S \cup {n}) > max
      BY <1>1, <1>3
    <3> HIDE DEF S
    <3> QED BY <2>3, <2>4, <2>5, <2>6, <3>1, <3>2
  <2>8. PICK t \in S : t \notin Recent(L, ip, n)
    BY <2>1, <2>7
  <2>9. t \in a[ip] /\ t \in Nat /\ t + Window > n /\ t \notin L.hits[ip] /\ t \in b[ip]
    BY <1>0, <1>1, <2>8 DEF Recent
  <2>10. Cardinality(Later(p, ip, t)) >= MaxIPs
    BY <2>9 DEF Sound, Backed
  <2>11. Cardinality(Later(q, ip, t)) >= MaxIPs
    BY <1>0, <2>9, <2>10, LaterGrows
  <2> QED BY <1>1, <1>3, <2>9, <2>11, LaterAfter
<1> QED BY <1>2, <1>3

\* check admits.
LEMMA AdmitSound ==
  ASSUME NEW L, NEW p, NEW a, NEW o, NEW n \in Nat \ {0}, NEW max \in Nat \ {0},
         Sound(L, p, a, o, n, max), NEW ip \in IPs, ~Banned(L, ip, n), ~Full(L, max, ip, n)
  PROVE  Sound(Capped(Touched(L, ip, Recent(L, ip, n) \cup {n})), [p EXCEPT ![ip] = n],
               AdmittedAt(a, ip, n), o, n + 1, max)
<1> DEFINE ts == Recent(L, ip, n) \cup {n}
           M == Touched(L, ip, ts)
           C == Capped(M)
           q == [p EXCEPT ![ip] = n]
           b == AdmittedAt(a, ip, n)
<1> USE RateLimiterAssumption
<1>0. /\ p \in [IPs -> Nat] /\ o \in [IPs -> Nat] /\ a \in [IPs -> SUBSET Nat]
      /\ L.hits \in [IPs -> SUBSET Nat] /\ L \in Limiter
      /\ \A y \in IPs : p[y] < n /\ o[y] < n /\ \A t \in a[y] : t <= p[y]
  BY DEF Sound, Limiter, Past
<1>1. ts \in SUBSET Nat
  BY <1>0 DEF Recent
<1>2. /\ b[ip] = {t \in a[ip] : t + Window > n} \cup {n}
      /\ \A y \in IPs : y # ip => b[y] = a[y]
      /\ b \in [IPs -> SUBSET Nat]
  BY <1>0 DEF AdmittedAt
<1>3. Recent(L, ip, n) \in SUBSET {t \in a[ip] : t + Window > n}
  BY Finite
<1>4. q[ip] = n
  BY <1>0
<1> HIDE DEF ts, M, C, q, b
<1>5. Seen(L, p, o, n, ip, ts, M, q)
  BY <1>1, TouchedSound DEF M, q
<1>6. /\ q \in [IPs -> Nat] /\ Few(q)
      /\ \A y \in IPs : p[y] <= q[y] /\ q[y] < n + 1
      /\ M.hits = [L.hits EXCEPT ![ip] = ts]
      /\ BansMatch(M, o, n + 1)
      /\ o[ip] = 0 \/ o[ip] + BanDuration <= n
  BY <1>5 DEF Seen
<1>7. /\ C \in Limiter /\ Len(C.order) <= MaxIPs
      /\ Ordered(C.order, q) /\ Listed(C) /\ C.bans = M.bans /\ C.hits[ip] = ts
      /\ \A y \in IPs :
           \/ C.hits[y] = M.hits[y]
           \/ /\ y # ip /\ C.hits[y] = {}
              /\ \A t \in Nat : t <= q[y] => Cardinality(Later(q, y, t)) >= MaxIPs
  <2>1. Evicted(M, q, ip, ts, C)
    BY <1>0, <1>1, <1>5, CappedEvicts DEF C
  <2> QED BY <2>1 DEF Evicted
<1>8. \A y \in IPs : y # ip => M.hits[y] = L.hits[y]
  BY <1>0, <1>6
<1>9. Backed(C, q, b, n + 1)
  <2> SUFFICES ASSUME NEW y \in IPs, NEW t \in b[y]
               PROVE  t \in C.hits[y] \/ t + Window <= n + 1
                      \/ Cardinality(Later(q, y, t)) >= MaxIPs
    BY DEF Backed
  <2>0. t \in Nat
    BY <1>2
  <2>1. CASE y = ip /\ t = n
    BY <1>7, <2>1 DEF ts
  <2>2. CASE t \in a[y]
    <3>1. CASE t \in L.hits[y] /\ y = ip
      <4>1. t + Window > n => t \in ts
        BY <3>1 DEF ts, Recent
      <4> QED BY <1>7, <2>0, <3>1, <4>1
    <3>2. CASE t \in L.hits[y] /\ y # ip
      <4>1. t \in M.hits[y] /\ t <= q[y]
        BY <1>0, <1>6, <1>8, <2>0, <2>2, <3>2
      <4> QED BY <1>7, <2>0, <4>1
    <3>3. CASE t + Window <= n
      BY <2>0, <3>3
    <3>4. CASE Cardinality(Later(p, y, t)) >= MaxIPs
      BY <1>0, <1>6, <2>0, <3>4, LaterGrows
    <3> QED BY <2>2, <3>1, <3>2, <3>3, <3>4 DEF Sound, Backed
  <2> QED BY <1>2, <2>1, <2>2
<1>10. Proper(C, b, n + 1)
  <2> SUFFICES ASSUME NEW y \in IPs, NEW t \in C.hits[y]
               PROVE  t \in b[y] \/ t + Window <= n + 1
    BY DEF Proper
  <2>1. CASE y = ip
    BY <1>2, <1>3, <1>7, <2>1 DEF ts
  <2>2. CASE y # ip
    <3>1. t \in L.hits[y] /\ b[y] = a[y] /\ t \in Nat
      BY <1>0, <1>2, <1>7, <1>8, <2>2
    <3> QED BY <3>1 DEF Sound, Proper
  <2> QED BY <2>1, <2>2
<1>11. Past(q, b, o, n + 1)
  <2> SUFFICES ASSUME NEW y \in IPs
               PROVE  q[y] < n + 1 /\ o[y] < n + 1 /\ \A t \in b[y] : t <= q[y]
    BY DEF Past
  <2>1. q[y] < n + 1 /\ o[y] < n + 1
    BY <1>0, <1>6
  <2>2. ASSUME NEW t \in b[y]
        PROVE  t <= q[y]
    <3>1. CASE t \in a[y]
      <4>1. t \in Nat /\ t <= p[y] /\ p[y] <= q[y] /\ p[y] \in Nat /\ q[y] \in Nat
        BY <1>0, <1>6, <3>1
      <4> QED BY <4>1
    <3>2. CASE y = ip /\ t = n
      BY <1>4, <3>2
    <3> QED BY <1>2, <2>2, <3>1, <3>2
  <2> QED BY <2>1, <2>2
<1>12. Limits(q, b, max)
  BY <1>6, AdmitLimits DEF b
<1>13. Holds(b, o)
  <2> SUFFICES ASSUME NEW y \in IPs, NEW t \in b[y], o[y] # 0
               PROVE  t < o[y] \/ t >= o[y] + BanDuration
    BY DEF Holds
  <2>1. CASE t \in a[y]
    BY <2>1 DEF Sound, Holds
  <2>2. CASE y = ip /\ t = n
    BY <1>0, <1>6, <2>2
  <2> QED BY <1>2, <2>1, <2>2
<1>14. BansMatch(C, o, n + 1)
  BY <1>6, <1>7 DEF BansMatch
<1> QED BY <1>0, <1>2, <1>6, <1>7, <1>9, <1>10, <1>11, <1>12, <1>13, <1>14
        DEF Sound, C, M, q, b, ts

-----------------------------------------------------------------------------
(* The middleware.                                                         *)

\* Everything but the limiters and their histories.
Rest ==
  /\ endpoints \in Discovered
  /\ misses \in 0..WarnAfter
  /\ rawHits \in [Routes -> Nat]
  /\ completed \in Nat
  /\ waiting \in [Routes -> Nat]
  /\ reply \in [route : Routes \cup {"none"}, ip : IPs, status : Nat]
  /\ now \in Nat \ {0}

Histories ==
  /\ limiter \in [Routes -> Limiter]
  /\ admitted \in [Routes -> [IPs -> SUBSET Nat]]
  /\ passed \in [Routes -> [IPs -> Nat]]
  /\ offence \in [Routes -> [IPs -> Nat]]

RouteSound(r) == Sound(limiter[r], passed[r], admitted[r], offence[r], now, Rate[r])

IInv == Rest /\ Histories /\ \A r \in Routes : RouteSound(r)

\* _client_ip yields an address.
LEMMA ClientIPType ==
  ASSUME NEW req \in Requests
  PROVE  ClientIP(req) \in IPs /\ req.route \in Routes
<1> DEFINE given == {i \in DOMAIN req.headers : req.headers[i] # Absent}
<1>1. /\ req.headers \in Seq(IPs \cup {Absent}) /\ req.peer \in IPs \cup {Absent}
      /\ req.route \in Routes /\ Unknown \in IPs
  BY ProxyAssumption
<1>2. CASE given = {}
  BY <1>1, <1>2 DEF ClientIP
<1>3. CASE given # {}
  <2>1. given \subseteq Nat
    BY <1>1
  <2>2. \E i \in given : \A j \in given : ~(<<j, i>> \in OpToRel(<, Nat))
    BY <1>3, <2>1, WFMin, NatLessThanWellFounded
  <2>3. \E i \in given : \A j \in given : i <= j
    <3>1. PICK i \in given : \A j \in given : ~(<<j, i>> \in OpToRel(<, Nat))
      BY <2>2
    <3>2. ASSUME NEW j \in given
          PROVE  i <= j
      <4>1. ~(j < i)
        BY <2>1, <3>1 DEF OpToRel
      <4> QED BY <2>1, <4>1
    <3> QED BY <3>2
  <2> DEFINE first == CHOOSE i \in given : \A j \in given : i <= j
  <2>4. first \in given
    BY <2>3
  <2>5. ClientIP(req) = req.headers[first]
    BY <1>3 DEF ClientIP
  <2> HIDE DEF first
  <2>6. req.headers[first] \in IPs
    BY <1>1, <2>4
  <2> QED BY <1>1, <2>5, <2>6
<1> QED BY <1>2, <1>3

LEMMA InitIInv == Init => IInv
<1> SUFFICES ASSUME Init
             PROVE  IInv
  OBVIOUS
<1> USE RateLimiterAssumption, ProxyAssumption
<1>1. NewLimiter \in Limiter
  BY DEF NewLimiter, Limiter
<1>2. Rest
  BY DEF Init, Rest, Discovered, NoReply
<1>3. Histories
  BY <1>1 DEF Init, Histories
<1>4. ASSUME NEW r \in Routes
      PROVE  RouteSound(r)
  <2> DEFINE L == NewLimiter
             p == [ip \in IPs |-> 0]
             a == [ip \in IPs |-> {}]
  <2>1. L.order = <<>> /\ \A ip \in IPs : L.hits[ip] = {} /\ L.bans[ip] = 0
    BY DEF NewLimiter
  <2>2. Len(L.order) = 0
    BY <2>1
  <2>3. {y \in IPs : p[y] # 0} = {}
    OBVIOUS
  <2>4. Few(p)
    BY <2>3, FS_EmptySet DEF Few
  <2>5. Limits(p, a, Rate[r])
    BY FS_EmptySet DEF Limits
  <2>6. p \in [IPs -> Nat] /\ a \in [IPs -> SUBSET Nat]
    OBVIOUS
  <2>7. Ordered(L.order, p) /\ Listed(L) /\ Len(L.order) <= MaxIPs
    BY <2>1, <2>2 DEF Ordered, Listed
  <2>8. Backed(L, p, a, 1) /\ Proper(L, a, 1) /\ Past(p, a, p, 1)
    BY <2>1 DEF Backed, Proper, Past
  <2>9. BansMatch(L, p, 1) /\ Holds(a, p)
    BY <2>1 DEF BansMatch, Holds
  <2>10. /\ limiter[r] = L /\ passed[r] = p /\ admitted[r] = a /\ offence[r] = p /\ now = 1
    BY DEF Init
  <2> HIDE DEF L, p, a
  <2>11. L \in Limiter
    BY <1>1 DEF L
  <2> QED BY <2>4, <2>5, <2>6, <2>7, <2>8, <2>9, <2>10, <2>11 DEF RouteSound, Sound
<1> QED BY <1>2, <1>3, <1>4 DEF IInv

\* The steps that leave the limiters and their histories alone.
Aside ==
  /\ UNCHANGED <<limiter, admitted, passed, offence>>
  /\ now' \in {now, now + 1}

LEMMA StepKinds ==
  ASSUME [Next]_vars
  PROVE  \/ Aside
         \/ \E req \in Requests, method \in {"GET", "POST", "OPTIONS"}, clean \in BOOLEAN :
              Reject(req, method, clean) \/ Refuse(req, method, clean) \/ Admit(req, method, clean)
<1>1. \A r \in Routes : Preflight(r) \/ UpstreamFails(r) => Aside
  BY DEF Preflight, UpstreamFails, Aside, Advance
<1>2. \A r \in Routes, status \in {200, 400}, token \in BOOLEAN :
        UpstreamAnswers(r, status, token) => Aside
  BY DEF UpstreamAnswers, Aside
<1>3. Tick => Aside
  BY DEF Tick, Aside, Advance
<1>4. UNCHANGED vars => Aside
  BY DEF vars, Aside
<1> QED BY <1>1, <1>2, <1>3, <1>4 DEF Next

LEMMA RestStep ==
  ASSUME Rest, [Next]_vars
  PROVE  Rest'
<1> USE RateLimiterAssumption, ProxyAssumption
<1>1. ASSUME NEW req \in Requests, NEW method \in {"GET", "POST", "OPTIONS"}, NEW clean \in BOOLEAN,
             Reject(req, method, clean) \/ Refuse(req, method, clean)
      PROVE  Rest'
  <2>1. ClientIP(req) \in IPs /\ req.route \in Routes
    BY ClientIPType
  <2>2. CountMiss(req) /\ Advance /\ UNCHANGED <<endpoints, rawHits, completed, waiting>>
        /\ \E status \in {403, 429} : Respond(req.route, ClientIP(req), status)
    BY <1>1 DEF Reject, Refuse, PassLimiter
  <2>3. misses' \in 0..WarnAfter
    BY <2>2 DEF CountMiss, Rest
  <2>4. now' \in Nat \ {0}
    BY <2>2 DEF Advance, Rest
  <2>5. reply' \in [route : Routes \cup {"none"}, ip : IPs, status : Nat]
    BY <2>1, <2>2 DEF Respond
  <2> QED BY <2>2, <2>3, <2>4, <2>5 DEF Rest
<1>2. ASSUME NEW req \in Requests, NEW method \in {"GET", "POST", "OPTIONS"}, NEW clean \in BOOLEAN,
             Admit(req, method, clean)
      PROVE  Rest'
  <2>1. ClientIP(req) \in IPs /\ req.route \in Routes
    BY ClientIPType
  <2>2. CountMiss(req) /\ Advance /\ UNCHANGED <<endpoints, completed>>
        /\ rawHits' = [rawHits EXCEPT ![req.route] = rawHits[req.route] + 1]
        /\ \E status \in {302, 404, 0} : Respond(req.route, ClientIP(req), status)
    BY <1>2 DEF Admit, PassLimiter, Redirect, NotFound, Forward
  <2>3. misses' \in 0..WarnAfter
    BY <2>2 DEF CountMiss, Rest
  <2>4. now' \in Nat \ {0}
    BY <2>2 DEF Advance, Rest
  <2>5. reply' \in [route : Routes \cup {"none"}, ip : IPs, status : Nat]
    BY <2>1, <2>2 DEF Respond
  <2>6. rawHits' \in [Routes -> Nat]
    <3>1. \A r \in Routes : rawHits[r] + 1 \in Nat
      BY DEF Rest
    <3>2. rawHits' \in {[rawHits EXCEPT ![req.route] = n] : n \in Nat}
      BY <2>1, <2>2, <3>1
    <3> QED BY <2>1, <3>2 DEF Rest
  <2>7. waiting' \in [Routes -> Nat]
    <3>1. waiting' \in {waiting, [waiting EXCEPT ![req.route] = @ + 1]}
      BY <1>2 DEF Admit, Redirect, NotFound, Forward
    <3> QED BY <2>1, <3>1 DEF Rest
  <2> QED BY <2>2, <2>3, <2>4, <2>5, <2>6, <2>7 DEF Rest
<1>3. ASSUME NEW r \in Routes, Preflight(r)
      PROVE  Rest'
  BY <1>3 DEF Rest, Preflight, Advance, Respond
<1>4. ASSUME NEW r \in Routes,
             \/ UpstreamFails(r)
             \/ \E status \in {200, 400}, token \in BOOLEAN : UpstreamAnswers(r, status, token)
      PROVE  Rest'
  <2>1. /\ waiting[r] > 0 /\ waiting' = [waiting EXCEPT ![r] = @ - 1]
        /\ completed' \in {completed, completed + 1}
        /\ UNCHANGED <<endpoints, misses, rawHits, now>>
    BY <1>4 DEF UpstreamFails, UpstreamAnswers
  <2>2. \E status \in Nat : Respond(r, Unknown, status)
    BY <1>4 DEF UpstreamFails, UpstreamAnswers
  <2>3. waiting' \in [Routes -> Nat] /\ completed' \in Nat
    <3>1. \A s \in Routes : waiting[s] \in Nat
      BY DEF Rest
    <3>2. waiting[r] - 1 \in Nat
      BY <2>1, <3>1
    <3>3. completed' \in Nat
      BY <2>1 DEF Rest
    <3> QED BY <2>1, <3>2, <3>3 DEF Rest
  <2>4. reply' \in [route : Routes \cup {"none"}, ip : IPs, status : Nat]
    BY <1>4, <2>2 DEF Respond
  <2> QED BY <2>1, <2>3, <2>4 DEF Rest
<1>5. CASE Tick
  BY <1>5 DEF Rest, Tick, Advance, NoReply
<1>6. CASE UNCHANGED vars
  BY <1>6 DEF Rest, vars
<1> QED BY <1>1, <1>2, <1>3, <1>4, <1>5, <1>6 DEF Next

\* One limiter changes as its method says, the others wait.
LEMMA SoundStep ==
  ASSUME IInv, [Next]_vars
  PROVE  Histories' /\ \A r \in Routes : RouteSound(r)'
<1> USE RateLimiterAssumption, ProxyAssumption
<1>0. Histories /\ now \in Nat \ {0} /\ \A r \in Routes : RouteSound(r) /\ Rate[r] \in Nat \ {0}
  BY DEF IInv, Rest
<1>1. CASE Aside
  <2>1. Histories'
    BY <1>0, <1>1 DEF Aside, Histories
  <2>2. ASSUME NEW r \in Routes
        PROVE  RouteSound(r)'
    <3>1. Sound(limiter[r], passed[r], admitted[r], offence[r], now, Rate[r])
      BY <1>0 DEF RouteSound
    <3>2. Sound(limiter[r], passed[r], admitted[r], offence[r], now + 1, Rate[r])
      BY <1>0, <3>1, LaterSound
    <3>3. /\ limiter'[r] = limiter[r] /\ passed'[r] = passed[r]
          /\ admitted'[r] = admitted[r] /\ offence'[r] = offence[r]
      BY <1>1 DEF Aside
    <3> QED BY <1>1, <3>1, <3>2, <3>3 DEF Aside, RouteSound
  <2> QED BY <2>1, <2>2
<1>2. ASSUME NEW req \in Requests, NEW method \in {"GET", "POST", "OPTIONS"}, NEW clean \in BOOLEAN,
             \/ Reject(req, method, clean)
             \/ Refuse(req, method, clean)
             \/ Admit(req, method, clean)
      PROVE  Histories' /\ \A r \in Routes : RouteSound(r)'
  <2> DEFINE R == req.route
             ip == ClientIP(req)
  <2>1. ip \in IPs /\ R \in Routes
    BY ClientIPType
  <2> HIDE DEF R, ip
  <2> DEFINE L == limiter[R]
             p == passed[R]
             a == admitted[R]
             o == offence[R]
  <2>2. Sound(L, p, a, o, now, Rate[R]) /\ Sound(L, p, a, o, now + 1, Rate[R])
    BY <1>0, <2>1, LaterSound DEF RouteSound
  <2>3. now' = now + 1
    BY <1>2 DEF Reject, Refuse, Admit, PassLimiter, Advance
  <2>4. \E M, q, b, f :
          /\ limiter' = [limiter EXCEPT ![R] = M] /\ passed' = [passed EXCEPT ![R] = q]
          /\ admitted' = [admitted EXCEPT ![R] = b] /\ offence' = [offence EXCEPT ![R] = f]
          /\ Sound(M, q, b, f, now + 1, Rate[R])
    <3>1. CASE Reject(req, method, clean)
      <4>1. /\ limiter' = [limiter EXCEPT ![R] = Ban(L, ip, now)]
            /\ offence' = [offence EXCEPT ![R] = [o EXCEPT ![ip] = now]]
            /\ passed' = [passed EXCEPT ![R] = p] /\ admitted' = [admitted EXCEPT ![R] = a]
        BY <1>0, <2>1, <3>1 DEF Reject, Histories, R, ip
      <4>2. Sound(Ban(L, ip, now), p, a, [o EXCEPT ![ip] = now], now + 1, Rate[R])
        BY <1>0, <2>1, <2>2, BanSound
      <4> QED BY <4>1, <4>2
    <3>2. ASSUME PassLimiter(req, method, clean)
          PROVE  /\ limiter' = [limiter EXCEPT ![R] = Checked(L, Rate[R], ip, now)]
                 /\ passed' = [passed EXCEPT ![R] =
                                 [p EXCEPT ![ip] = IF Banned(L, ip, now) THEN @ ELSE now]]
      BY <1>0, <2>1, <3>2 DEF PassLimiter, Histories, R, ip
    <3>3. CASE Refuse(req, method, clean)
      <4>1. /\ limiter' = [limiter EXCEPT ![R] = Checked(L, Rate[R], ip, now)]
            /\ passed' = [passed EXCEPT ![R] =
                            [p EXCEPT ![ip] = IF Banned(L, ip, now) THEN @ ELSE now]]
            /\ admitted' = [admitted EXCEPT ![R] = a] /\ offence' = [offence EXCEPT ![R] = o]
            /\ Banned(L, ip, now) \/ Full(L, Rate[R], ip, now)
        BY <1>0, <2>1, <3>2, <3>3 DEF Refuse, Histories, Allows, R, ip
      <4>2. CASE Banned(L, ip, now)
        <5>1. Checked(L, Rate[R], ip, now) = L
          BY <4>2 DEF Checked
        <5>2. [p EXCEPT ![ip] = IF Banned(L, ip, now) THEN @ ELSE now] = p
          BY <1>0, <2>1, <4>2 DEF Histories
        <5> QED BY <2>2, <4>1, <5>1, <5>2
      <4>3. CASE ~Banned(L, ip, now)
        <5>1. Checked(L, Rate[R], ip, now) = Touched(L, ip, Recent(L, ip, now))
          BY <4>1, <4>3 DEF Checked
        <5>2. [p EXCEPT ![ip] = IF Banned(L, ip, now) THEN @ ELSE now] = [p EXCEPT ![ip] = now]
          BY <4>3
        <5>3. Sound(Touched(L, ip, Recent(L, ip, now)), [p EXCEPT ![ip] = now], a, o,
                    now + 1, Rate[R])
          BY <1>0, <2>1, <2>2, <4>1, <4>3, FullSound
        <5> QED BY <4>1, <5>1, <5>2, <5>3
      <4> QED BY <4>2, <4>3
    <3>4. CASE Admit(req, method, clean)
      <4>1. /\ limiter' = [limiter EXCEPT ![R] = Checked(L, Rate[R], ip, now)]
            /\ passed' = [passed EXCEPT ![R] =
                            [p EXCEPT ![ip] = IF Banned(L, ip, now) THEN @ ELSE now]]
        BY <3>2, <3>4 DEF Admit
      <4>2. /\ admitted' = [admitted EXCEPT ![R] = AdmittedAt(a, ip, now)]
            /\ offence' = [offence EXCEPT ![R] = o]
            /\ ~Banned(L, ip, now) /\ ~Full(L, Rate[R], ip, now)
        BY <1>0, <2>1, <3>4 DEF Admit, Histories, Allows, AdmittedAt, Fresh, R, ip
      <4>3. Checked(L, Rate[R], ip, now)
              = Capped(Touched(L, ip, Recent(L, ip, now) \cup {now}))
        BY <4>2 DEF Checked
      <4>4. [p EXCEPT ![ip] = IF Banned(L, ip, now) THEN @ ELSE now] = [p EXCEPT ![ip] = now]
        BY <4>2
      <4>5. Sound(Capped(Touched(L, ip, Recent(L, ip, now) \cup {now})), [p EXCEPT ![ip] = now],
                  AdmittedAt(a, ip, now), o, now + 1, Rate[R])
        BY <1>0, <2>1, <2>2, <4>2, AdmitSound
      <4> QED BY <4>1, <4>2, <4>3, <4>4, <4>5
    <3> QED BY <1>2, <3>1, <3>3, <3>4
  <2> HIDE DEF L, p, a, o
  <2>5. PICK M, q, b, f :
          /\ limiter' = [limiter EXCEPT ![R] = M] /\ passed' = [passed EXCEPT ![R] = q]
          /\ admitted' = [admitted EXCEPT ![R] = b] /\ offence' = [offence EXCEPT ![R] = f]
          /\ Sound(M, q, b, f, now + 1, Rate[R])
    BY <2>4
  <2>6. /\ M \in Limiter /\ q \in [IPs -> Nat] /\ b \in [IPs -> SUBSET Nat] /\ f \in [IPs -> Nat]
    BY <2>5 DEF Sound
  <2>7. Histories'
    BY <1>0, <2>1, <2>5, <2>6 DEF Histories
  <2>8. ASSUME NEW r \in Routes
        PROVE  RouteSound(r)'
    <3>1. CASE r = R
      BY <1>0, <2>3, <2>5, <3>1 DEF Histories, RouteSound
    <3>2. CASE r # R
      <4>1. /\ limiter'[r] = limiter[r] /\ passed'[r] = passed[r]
            /\ admitted'[r] = admitted[r] /\ offence'[r] = offence[r]
        BY <1>0, <2>5, <3>2 DEF Histories
      <4>2. Sound(limiter[r], passed[r], admitted[r], offence[r], now + 1, Rate[r])
        BY <1>0, LaterSound DEF RouteSound
      <4> QED BY <2>3, <4>1, <4>2 DEF RouteSound
    <3> QED BY <3>1, <3>2
  <2> QED BY <2>7, <2>8
<1> QED BY <1>1, <1>2, StepKinds

LEMMA NextIInv == IInv /\ [Next]_vars => IInv'
BY RestStep, SoundStep DEF IInv

LEMMA AlwaysIInv == Spec => []IInv
<1>1. IInv /\ [Next]_vars => IInv'
  BY NextIInv
<1> QED BY InitIInv, <1>1, PTL DEF Spec

-----------------------------------------------------------------------------
\* Every variable stays in its type and no limiter of a route ever keeps more
\* windows than _MAX_RATE_LIMIT_IPS (check's popitem).
THEOREM TypeCorrect == Spec => []TypeOK
<1>1. IInv => TypeOK
  BY DEF IInv, Rest, Histories, RouteSound, Sound, TypeOK
<1> QED BY AlwaysIInv, <1>1, PTL

\* More than max_requests of one address get past check within a window only if
\* its window was evicted in between, by as many other active addresses as the
\* OrderedDict of the route has room for.
THEOREM WindowsHold == Spec => []WindowLimit
<1>1. IInv => WindowLimit
  BY DEF IInv, RouteSound, Sound, Limits, After, WindowLimit
<1> QED BY AlwaysIInv, <1>1, PTL

\* Nothing of an address is admitted on a route from a bogus request until the
\* ban it earned is over: neither check nor an eviction lifts what ban recorded.
THEOREM BansHold == Spec => []BanHolds
<1>1. IInv => BanHolds
  BY DEF IInv, RouteSound, Sound, Holds, BanHolds
<1> QED BY AlwaysIInv, <1>1, PTL

\* The window counts no more than what was admitted, so a full window is cause.
LEMMA FullHasCause ==
  ASSUME IInv, NEW r \in Routes, NEW ip \in IPs, Full(limiter[r], Rate[r], ip, now)
  PROVE  Cardinality({t \in admitted[r][ip] : t + Window > now}) >= Rate[r]
<1> USE RateLimiterAssumption, ProxyAssumption
<1>1. Sound(limiter[r], passed[r], admitted[r], offence[r], now, Rate[r]) /\ now \in Nat \ {0}
  BY DEF IInv, RouteSound, Rest
<1> QED BY <1>1, FullForCause

\* check answers False, and the client gets 429, only for a ban in force of that
\* address or max_requests of it admitted within the window: refused requests,
\* other addresses and other routes do not count.
THEOREM RefusalsHaveCause == Spec => RefusedForCause
<1> USE RateLimiterAssumption, ProxyAssumption
<1> DEFINE Cause(r, ip) ==
      \/ offence[r][ip] # 0 /\ now < offence[r][ip] + BanDuration
      \/ Cardinality({t \in admitted[r][ip] : t + Window > now}) >= Rate[r]
<1>1. ASSUME IInv, [Next]_vars, now' # now, reply'.status = 429
      PROVE  Cause(reply'.route, reply'.ip)
  <2>1. PICK req \in Requests, method \in {"GET", "POST", "OPTIONS"}, clean \in BOOLEAN :
          Refuse(req, method, clean)
    <3>1. \A r \in Routes : ~Preflight(r) /\ ~UpstreamFails(r)
      BY <1>1 DEF Preflight, UpstreamFails, Respond
    <3>2. \A r \in Routes, status \in {200, 400}, token \in BOOLEAN :
            ~UpstreamAnswers(r, status, token)
      BY <1>1 DEF UpstreamAnswers
    <3>3. ~Tick
      BY <1>1 DEF Tick, NoReply
    <3>4. \A req \in Requests, method \in {"GET", "POST", "OPTIONS"}, clean \in BOOLEAN :
            ~Reject(req, method, clean) /\ ~Admit(req, method, clean)
      BY <1>1 DEF Reject, Admit, Redirect, NotFound, Forward, Respond
    <3>5. vars' # vars
      BY <1>1 DEF vars
    <3> QED BY <1>1, <3>1, <3>2, <3>3, <3>4, <3>5 DEF Next
  <2> DEFINE r == req.route
             ip == ClientIP(req)
  <2>2. r \in Routes /\ ip \in IPs
    BY ClientIPType
  <2>3. reply'.route = r /\ reply'.ip = ip
    BY <2>1 DEF Refuse, Respond
  <2>4. Banned(limiter[r], ip, now) \/ Full(limiter[r], Rate[r], ip, now)
    BY <2>1 DEF Refuse, Allows
  <2> HIDE DEF r, ip
  <2>5. ASSUME Banned(limiter[r], ip, now)
        PROVE  offence[r][ip] # 0 /\ now < offence[r][ip] + BanDuration
    <3>1. /\ BansMatch(limiter[r], offence[r], now) /\ now \in Nat
          /\ limiter[r] \in Limiter /\ offence[r] \in [IPs -> Nat]
      BY <1>1, <2>2 DEF IInv, RouteSound, Sound, Rest
    <3>2. limiter[r].bans[ip] \in Nat
      BY <2>2, <3>1 DEF Limiter
    <3>3. limiter[r].bans[ip] # 0 /\ now < limiter[r].bans[ip]
      BY <2>5, <3>1, <3>2 DEF Banned
    <3> QED BY <2>2, <3>1, <3>3 DEF BansMatch
  <2>6. ASSUME Full(limiter[r], Rate[r], ip, now)
        PROVE  Cardinality({t \in admitted[r][ip] : t + Window > now}) >= Rate[r]
    BY <1>1, <2>2, <2>6, FullHasCause
  <2> QED BY <2>3, <2>4, <2>5, <2>6
<1>2. IInv /\ [Next]_vars =>
        [(now' # now /\ reply'.status = 429) =>
           LET r == reply'.route  ip == reply'.ip IN
           \/ offence[r][ip] # 0 /\ now < offence[r][ip] + BanDuration
           \/ Cardinality({t \in admitted[r][ip] : t + Window > now}) >= Rate[r]]_vars
  BY <1>1
<1> QED BY AlwaysIInv, <1>2, PTL DEF Spec, RefusedForCause
=============================================================================
