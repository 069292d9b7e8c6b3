---------------------------- MODULE RateLimiter ----------------------------
(***************************************************************************)
(* RateLimiter of oauth_proxy.py, one object per OAuth route: a sliding    *)
(* window of admitted requests for each client address, an OrderedDict of  *)
(* the windows capped by evicting the one touched longest ago, and the     *)
(* temporary bans.  A limiter is a value; the operators give the limiter   *)
(* after a call of check or ban.                                           *)
(*                                                                         *)
(* time.monotonic() has nanosecond resolution and one event loop makes all *)
(* the calls, so no two calls read the same time: a window is a set.       *)
(***************************************************************************)
EXTENDS Naturals, Sequences, FiniteSets

CONSTANTS IPs,          \* client addresses
          Window,       \* window_seconds
          BanDuration,  \* ban_duration
          MaxIPs        \* _MAX_RATE_LIMIT_IPS

ASSUME RateLimiterAssumption ==
  /\ Window \in Nat \ {0} /\ BanDuration \in Nat \ {0} /\ MaxIPs \in Nat \ {0}

\* hits: _hits, the empty set for an address without an entry or with an empty
\* one; order: the keys of _hits, least recently touched first; bans: _bans, the
\* time each ban ends, 0 for an address without one.
Limiter == [hits : [IPs -> SUBSET Nat], order : Seq(IPs), bans : [IPs -> Nat]]

NewLimiter == [hits |-> [ip \in IPs |-> {}], order |-> <<>>, bans |-> [ip \in IPs |-> 0]]

Positions(seq, x) == {i \in 1..Len(seq) : seq[i] = x}

\* seq without x, which it holds at most once.
Without(seq, x) ==
  IF Positions(seq, x) = {} THEN seq
  ELSE LET i == CHOOSE p \in Positions(seq, x) : TRUE
       IN  [j \in 1..(Len(seq) - 1) |-> IF j < i THEN seq[j] ELSE seq[j + 1]]

\* Mistake: the ban includes the moment it ends.
BannedToTheEnd(L, ip, now) == L.bans[ip] # 0 /\ now <= L.bans[ip]

\* A ban in force at `now`: check answers False and changes nothing.
Banned(L, ip, now) == now < L.bans[ip]

\* The requests of ip still in the sliding window.
Recent(L, ip, now) == {t \in L.hits[ip] : t + Window > now}

\* The window of ip replaced and moved to the end; a ban that is over is dropped.
Touched(L, ip, ts) ==
  [L EXCEPT !.bans[ip] = 0, !.hits[ip] = ts,
            !.order = Append(Without(@, ip), ip)]

\* Mistake: the newest window is evicted.
CappedNewest(L) ==
  IF Len(L.order) <= MaxIPs THEN L
  ELSE [L EXCEPT !.hits[L.order[Len(L.order)]] = {},
                 !.order = SubSeq(@, 1, Len(@) - 1)]

\* Mistake: one window too many is kept.
CappedLate(L) ==
  IF Len(L.order) <= MaxIPs + 1 THEN L
  ELSE [L EXCEPT !.hits[Head(L.order)] = {}, !.order = Tail(@)]

\* popitem(last=False) when there are more windows than _MAX_RATE_LIMIT_IPS.
Capped(L) ==
  IF Len(L.order) <= MaxIPs THEN L
  ELSE [L EXCEPT !.hits[Head(L.order)] = {}, !.order = Tail(@)]

\* The window of ip is full: check answers False.
Full(L, max, ip, now) == Cardinality(Recent(L, ip, now)) >= max

Allows(L, max, ip, now) == ~Banned(L, ip, now) /\ ~Full(L, max, ip, now)

\* The limiter after check(ip).  A refused request counts as a touch, an
\* admitted one is added to the window.
Checked(L, max, ip, now) ==
  IF Banned(L, ip, now) THEN L
  ELSE IF Full(L, max, ip, now) THEN Touched(L, ip, Recent(L, ip, now))
  ELSE Capped(Touched(L, ip, Recent(L, ip, now) \cup {now}))

\* Mistake: a ban that is in force is not renewed.
BanOnce(L, ip, now) ==
  IF Banned(L, ip, now) THEN L ELSE [L EXCEPT !.bans[ip] = now + BanDuration]

\* The limiter after ban(ip).
Ban(L, ip, now) == [L EXCEPT !.bans[ip] = now + BanDuration]
=============================================================================
