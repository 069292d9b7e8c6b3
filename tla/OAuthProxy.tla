----------------------------- MODULE OAuthProxy -----------------------------
(***************************************************************************)
(* The OAuth proxy: an ASGI middleware that answers /authorize with a      *)
(* redirect and forwards POSTs to /token and /register to the identity     *)
(* provider.  Up to the call of the provider a request is handled without  *)
(* an await that yields, so admission is one step; forwarded requests wait *)
(* in threads and are answered in any order, or fail.                      *)
(*                                                                         *)
(* The endpoints are discovered once, before the server accepts requests.  *)
(* Requests for other paths pass through the middleware untouched and are  *)
(* left out.                                                               *)
(***************************************************************************)
EXTENDS RateLimiter

CONSTANTS Routes,    \* the OAuth routes, "authorize", "token" and "register"
          Rate,      \* rate_limits: max_requests of each route's limiter
          Absent,    \* a header that is missing or blank; no ASGI client
          Unknown,   \* the address "unknown"
          Requests,  \* the requests clients send: a route, the trusted headers, the peer
          WarnAfter, \* header misses before the warning: 5
          MaxTime    \* bound on the clock

ASSUME ProxyAssumption ==
  /\ Routes \subseteq {"authorize", "token", "register"}
  /\ Rate \in [Routes -> Nat \ {0}]
  /\ Unknown \in IPs /\ Absent \notin IPs
  /\ Requests \subseteq [route : Routes, headers : Seq(IPs \cup {Absent}),
                         peer : IPs \cup {Absent}]
  /\ WarnAfter \in Nat \ {0} /\ MaxTime \in Nat

VARIABLES endpoints,  \* the routes with an upstream URL; {}: proxy disabled
          limiter,    \* [Routes -> Limiter], _rate_limiters
          misses,     \* _ip_header_miss_count
          rawHits,    \* [Routes -> Nat], ProxyStats._raw_hits
          completed,  \* ProxyStats._completed_flows
          waiting,    \* [Routes -> Nat], the requests waiting for upstream
          reply,      \* the answer just given to a request the proxy intercepted
          now,        \* time.monotonic()
          admitted,   \* history: [Routes -> [IPs -> SUBSET Nat]]
          passed,     \* history: when a request last got past the ban check
          offence     \* history: when the latest bogus request was seen

vars == <<endpoints, limiter, misses, rawHits, completed, waiting, reply, now,
          admitted, passed, offence>>

\* Status 0: not answered yet.
NoReply == [route |-> "none", ip |-> Unknown, status |-> 0]

\* What discovery may yield: nothing (it failed, or a mandatory endpoint is
\* missing: the proxy is not installed), or the endpoints with or without one
\* for registration.
Discovered == {{}, Routes, Routes \ {"register"}}

Init ==
  /\ endpoints \in Discovered
  /\ limiter = [r \in Routes |-> NewLimiter]
  /\ misses = 0
  /\ rawHits = [r \in Routes |-> 0]
  /\ completed = 0
  /\ waiting = [r \in Routes |-> 0]
  /\ reply = NoReply
  /\ now = 1
  /\ admitted = [r \in Routes |-> [ip \in IPs |-> {}]]
  /\ passed = [r \in Routes |-> [ip \in IPs |-> 0]]
  /\ offence = [r \in Routes |-> [ip \in IPs |-> 0]]

-----------------------------------------------------------------------------
\* The first trusted header with a value, else the peer, else "unknown".
ClientIP(req) ==
  LET given == {i \in DOMAIN req.headers : req.headers[i] # Absent}
  IN  IF given # {} THEN req.headers[CHOOSE i \in given : \A j \in given : i <= j]
      ELSE IF req.peer # Absent THEN req.peer ELSE Unknown

\* _check_ip_header_fallback: the resolved address is the peer's (a header may
\* name it too), counted until the warning was given.
CountMiss(req) ==
  misses' = IF misses < WarnAfter /\ req.peer # Absent
               /\ ClientIP(req) = req.peer
            THEN misses + 1 ELSE misses

\* CORS preflight is answered for the two POST routes; on /authorize OPTIONS is
\* the wrong method, hence bogus.
IsPreflight(r, method) == method = "OPTIONS" /\ r \in {"token", "register"}

\* detect_bogus_request: a wrong method, a required parameter missing, or a
\* parameter matching the patterns; `clean` is the outcome of the last two.
IsBogus(r, method, clean) ==
  method # (IF r = "authorize" THEN "GET" ELSE "POST") \/ ~clean

\* Every call reads a later clock.
Advance == now < MaxTime /\ now' = now + 1

\* Of what was admitted, what shares a window with `now`.
Fresh(S) == {t \in S : t + Window > now}

Respond(r, ip, status) == reply' = [route |-> r, ip |-> ip, status |-> status]

Preflight(r) ==
  /\ endpoints # {} /\ IsPreflight(r, "OPTIONS") /\ Advance
  /\ Respond(r, Unknown, 204)
  /\ UNCHANGED <<endpoints, limiter, misses, rawHits, completed, waiting,
                 admitted, passed, offence>>

\* A bogus request bans its address on the route.
Reject(req, method, clean) ==
  LET r == req.route  ip == ClientIP(req) IN
  /\ endpoints # {} /\ ~IsPreflight(r, method) /\ IsBogus(r, method, clean) /\ Advance
  /\ CountMiss(req)
  /\ limiter' = [limiter EXCEPT ![r] = Ban(@, ip, now)]
  /\ offence' = [offence EXCEPT ![r][ip] = now]
  /\ Respond(r, ip, 403)
  /\ UNCHANGED <<endpoints, rawHits, completed, waiting, admitted, passed>>

\* What the limiter makes of a request that is not bogus.
PassLimiter(req, method, clean) ==
  LET r == req.route  ip == ClientIP(req) IN
  /\ endpoints # {} /\ ~IsPreflight(r, method) /\ ~IsBogus(r, method, clean) /\ Advance
  /\ CountMiss(req)
  /\ limiter' = [limiter EXCEPT ![r] = Checked(@, Rate[r], ip, now)]
  /\ passed' = [passed EXCEPT ![r][ip] = IF Banned(limiter[r], ip, now) THEN @ ELSE now]

\* Banned or over the rate: 429.
Refuse(req, method, clean) ==
  LET r == req.route  ip == ClientIP(req) IN
  /\ PassLimiter(req, method, clean)
  /\ ~Allows(limiter[r], Rate[r], ip, now)
  /\ Respond(r, ip, 429)
  /\ UNCHANGED <<endpoints, rawHits, completed, waiting, admitted, offence>>

\* _handle_authorize: the client is sent to the provider.
Redirect(r, ip) ==
  /\ r = "authorize"
  /\ Respond(r, ip, 302)
  /\ UNCHANGED waiting

\* The provider has no such endpoint.
NotFound(r, ip) ==
  /\ r # "authorize" /\ r \notin endpoints
  /\ Respond(r, ip, 404)
  /\ UNCHANGED waiting

\* _handle_proxy: a thread calls the provider.
Forward(r, ip) ==
  /\ r # "authorize" /\ r \in endpoints
  /\ waiting' = [waiting EXCEPT ![r] = @ + 1]
  /\ Respond(r, ip, 0)

\* Counted, then redirected, forwarded or not found.
Admit(req, method, clean) ==
  LET r == req.route  ip == ClientIP(req) IN
  /\ PassLimiter(req, method, clean)
  /\ Allows(limiter[r], Rate[r], ip, now)
  /\ rawHits' = [rawHits EXCEPT ![r] = @ + 1]
  /\ admitted' = [admitted EXCEPT ![r][ip] = Fresh(@) \cup {now}]
  /\ Redirect(r, ip) \/ NotFound(r, ip) \/ Forward(r, ip)
  /\ UNCHANGED <<endpoints, completed, offence>>

\* The thread returns: the provider's status is relayed, and a token exchange
\* that yielded an access token counts as a completed flow.
UpstreamAnswers(r, status, token) ==
  /\ waiting[r] > 0
  /\ waiting' = [waiting EXCEPT ![r] = @ - 1]
  /\ completed' = IF r = "token" /\ status = 200 /\ token
                  THEN completed + 1 ELSE completed
  /\ Respond(r, Unknown, status)
  /\ UNCHANGED <<endpoints, limiter, misses, rawHits, now, admitted, passed, offence>>

\* The call of the provider raised: 502.
UpstreamFails(r) ==
  /\ waiting[r] > 0
  /\ waiting' = [waiting EXCEPT ![r] = @ - 1]
  /\ Respond(r, Unknown, 502)
  /\ UNCHANGED <<endpoints, limiter, misses, rawHits, completed, now, admitted,
                 passed, offence>>

\* Time passes without a request.
Tick ==
  /\ Advance
  /\ reply' = NoReply
  /\ UNCHANGED <<endpoints, limiter, misses, rawHits, completed, waiting,
                 admitted, passed, offence>>

Next ==
  \/ \E req \in Requests, method \in {"GET", "POST", "OPTIONS"}, clean \in BOOLEAN :
       \/ Reject(req, method, clean)
       \/ Refuse(req, method, clean)
       \/ Admit(req, method, clean)
  \/ \E r \in Routes :
       \/ Preflight(r)
       \/ \E status \in {200, 400}, token \in BOOLEAN : UpstreamAnswers(r, status, token)
       \/ UpstreamFails(r)
  \/ Tick

Spec == Init /\ [][Next]_vars

-----------------------------------------------------------------------------
\* Every variable stays in its type, and no limiter holds more windows than
\* _MAX_RATE_LIMIT_IPS.
TypeOK ==
  /\ endpoints \in Discovered
  /\ limiter \in [Routes -> Limiter]
  /\ \A r \in Routes : Len(limiter[r].order) <= MaxIPs
  /\ misses \in 0..WarnAfter
  /\ rawHits \in [Routes -> Nat]
  /\ completed \in Nat
  /\ waiting \in [Routes -> Nat]
  /\ reply \in [route : Routes \cup {"none"}, ip : IPs, status : Nat]
  /\ now \in Nat \ {0}
  /\ admitted \in [Routes -> [IPs -> SUBSET Nat]]
  /\ passed \in [Routes -> [IPs -> Nat]]
  /\ offence \in [Routes -> [IPs -> Nat]]

\* An address gets more than max_requests past a route's limiter within one
\* window only if its window was evicted meanwhile, and that takes as many
\* other addresses as the limiter can hold, all of them active on the route
\* since the first of those requests (check, popitem in oauth_proxy.py).
WindowLimit ==
  \A r \in Routes, ip \in IPs :
    Cardinality(admitted[r][ip]) > Rate[r] =>
      Cardinality({y \in IPs \ {ip} : \E t \in admitted[r][ip] : passed[r][y] > t}) >= MaxIPs

\* After a bogus request nothing of that address is admitted on that route
\* until the ban it earned is over, whatever was sent in between.
BanHolds ==
  \A r \in Routes, ip \in IPs : \A t \in admitted[r][ip] :
    offence[r][ip] # 0 => t < offence[r][ip] \/ t >= offence[r][ip] + BanDuration

\* A request is answered 429 only for what its own address did on that route:
\* a ban still in force, or max_requests admitted within the window.  Refused
\* requests, other addresses and other routes never count against it.
RefusedForCause ==
  [][(now' # now /\ reply'.status = 429) =>
       LET r == reply'.route  ip == reply'.ip IN
       \/ offence[r][ip] # 0 /\ now < offence[r][ip] + BanDuration
       \/ Cardinality({t \in admitted[r][ip] : t + Window > now}) >= Rate[r]]_vars
=============================================================================
