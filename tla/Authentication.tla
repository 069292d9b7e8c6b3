--------------------------- MODULE Authentication ---------------------------
(***************************************************************************)
(* A request on its way through AuthMiddleware: its token is checked       *)
(* against the shared secret or by OAuthTokenValidator against the keys of *)
(* the identity provider, then the owner it stands for is admitted by the  *)
(* concurrency limiter (OwnerLimiter).                                     *)
(*                                                                         *)
(* validate runs in worker threads (asyncio.to_thread), so several of them *)
(* share the PyJWKClient, its cached keys and the time of the last refresh *)
(* while the provider rotates its keys.  The client itself is PyJWT's: it  *)
(* caches the key set, fetches it again for a key id it does not find, and *)
(* may forget it at any time.  A restarted process begins at AInit, with   *)
(* the provider's keys whatever they are by then.                          *)
(***************************************************************************)
EXTENDS OwnerLimiter

CONSTANTS Slots,      \* worker threads validating a token
          Keys,       \* signing keys the provider may come to use
          TTL,        \* _jwks_cache_ttl
          JwtSecret   \* whether AWARENESS_JWT_SECRET is set

ASSUME AuthenticationAssumption == TTL \in Nat /\ JwtSecret \in BOOLEAN

VARIABLES jwks,    \* whether _jwks_uri is where the provider publishes its keys
          life,    \* the provider's keys: published or not, withdrawn how long
          client,  \* _jwk_client's cached keys, time since _last_jwks_fetch
          slot     \* what each worker thread is doing

authVars == <<life, client, slot>>

\* What __init__ ends up with: the URI configured or discovered, or, when the
\* discovery failed, the default path, where there may be nothing.
Discovered == {TRUE, FALSE}

\* Times are told apart up to the first that exceeds the TTL.
Ages == 0..(TTL + 1)

Older(n) == IF n > TTL THEN n ELSE n + 1

\* "stamp": the thread has replaced the client and not yet noted the time.
Stages == {"refresh", "stamp", "lookup", "fetch", "store", "found", "refused"}

\* key: the token's key id.  due: `now` lies more than the TTL after the last
\* refresh.  mine: the client the thread fetches through is still in use.
\* got: the fetched keys.  History: late says that the key had been withdrawn
\* for more than the TTL when the request came; owed that the key has been
\* published since then and neither the provider nor the claims failed.
Flight == [at : Stages, key : Keys, due : BOOLEAN, mine : BOOLEAN,
           got : SUBSET Keys, late : BOOLEAN, owed : BOOLEAN]

Free == [at |-> "free"]

\* The life of a key: it lingers when it is withdrawn between the replacement
\* of the client and the note of the time, and counts as withdrawn from then on.
States == {"unused", "published", "lingering", "withdrawn"}

\* Every variable stays in its type.
ATypeOK ==
  /\ TypeOK
  /\ jwks \in Discovered
  /\ life \in [Keys -> [state : States, ago : Ages]]
  /\ client \in [keys : SUBSET Keys, age : Ages]
  /\ slot \in [Slots -> Flight \cup {Free}]

Published == {k \in Keys : life[k].state = "published"}

\* _last_jwks_fetch is 0.0 on a clock that may have begun at any time.
AInit ==
  /\ Init
  /\ jwks \in Discovered
  /\ life \in [Keys -> {[state |-> "unused", ago |-> 0],
                        [state |-> "published", ago |-> 0]}]
  /\ client \in [keys : {{}}, age : Ages]
  /\ slot = [s \in Slots |-> Free]

---------------------------------------------------------------------------
(* OAuthTokenValidator.validate, in a worker thread. *)

\* A token the shared secret does not verify reaches the validator, which
\* reads the clock and tests the age of its keys.
Validate(s, k) ==
  /\ slot[s] = Free
  /\ slot' = [slot EXCEPT ![s] =
                [at |-> IF client.age > TTL THEN "refresh" ELSE "lookup",
                 key |-> k, due |-> client.age > TTL, mine |-> FALSE, got |-> {},
                 late |-> life[k].state = "withdrawn" /\ life[k].ago > TTL,
                 owed |-> k \in Published]]
  /\ UNCHANGED <<life, client>>

\* _jwks_lock is free.
Unlocked == \A s \in Slots : slot[s].at # "stamp"

\* Mistake: the time is renewed, the client with its keys is kept.
RefreshKeeping(s) ==
  /\ slot[s].at = "refresh" /\ Unlocked
  /\ slot' = [slot EXCEPT ![s].at = IF slot[s].due THEN "stamp" ELSE "lookup"]
  /\ UNCHANGED <<life, client>>

\* Under _jwks_lock, with the time read before it was taken: if the keys are
\* still too old, the client is replaced, and whoever fetches through the old
\* one caches for nobody.  The new client is in use at once, at the old age.
Refresh(s) ==
  /\ slot[s].at = "refresh" /\ Unlocked
  /\ IF slot[s].due
     THEN /\ client' = [client EXCEPT !.keys = {}]
          /\ slot' = [t \in Slots |->
                        IF slot[t] = Free THEN Free
                        ELSE [slot[t] EXCEPT !.mine = FALSE,
                                !.at = IF t = s THEN "stamp" ELSE @]]
     ELSE /\ slot' = [slot EXCEPT ![s].at = "lookup"]
          /\ UNCHANGED client
  /\ UNCHANGED life

\* _last_jwks_fetch becomes the time, and its age answers those who wait for
\* the lock.  Reading the clock and writing the field are one step: who reads
\* the field in between finds it stale and waits.
Stamp(s) ==
  /\ slot[s].at = "stamp"
  /\ client' = [client EXCEPT !.age = 0]
  /\ slot' = [t \in Slots |->
                IF slot[t] = Free THEN Free
                ELSE [slot[t] EXCEPT !.due = FALSE,
                        !.at = IF t = s THEN "lookup" ELSE @]]
  /\ life' = [k \in Keys |->
                IF life[k].state = "lingering"
                THEN [state |-> "withdrawn", ago |-> 0] ELSE life[k]]

\* Mistake: a key id missing from cached keys is taken to be unknown.
LookupCached(s) ==
  /\ slot[s].at = "lookup"
  /\ slot' = [slot EXCEPT ![s].mine = TRUE,
                ![s].at = IF slot[s].key \in client.keys THEN "found"
                          ELSE IF client.keys = {} THEN "fetch" ELSE "refused"]
  /\ UNCHANGED <<life, client>>

\* get_signing_key_from_jwt on whichever client is in use by now, which may not
\* have its time yet: a key id that is not cached makes it fetch the keys.  A
\* client replaced between the read of _jwk_client and the look at its cache
\* answers as it would have before.
Lookup(s) ==
  /\ slot[s].at = "lookup"
  /\ slot' = [slot EXCEPT ![s].mine = TRUE,
                ![s].at = IF slot[s].key \in client.keys THEN "found" ELSE "fetch"]
  /\ UNCHANGED <<life, client>>

\* The provider answers a fetch with the keys it publishes at that moment.
Fetch(s) ==
  /\ slot[s].at = "fetch" /\ jwks
  /\ slot' = [slot EXCEPT ![s].at = "store", ![s].got = Published]
  /\ UNCHANGED <<life, client>>

\* What this thread's client caches, if it is still the one in use.
Cache(s, keys) ==
  client' = IF slot[s].mine THEN [client EXCEPT !.keys = keys] ELSE client

\* The provider does not answer: the client forgets its keys, and validate
\* raises.
FetchFails(s) ==
  /\ slot[s].at = "fetch"
  /\ slot' = [slot EXCEPT ![s].at = "refused", ![s].owed = FALSE]
  /\ Cache(s, {})
  /\ UNCHANGED life

\* The answer is cached and looked at.
Store(s) ==
  /\ slot[s].at = "store"
  /\ slot' = [slot EXCEPT
                ![s].at = IF slot[s].key \in slot[s].got THEN "found" ELSE "refused"]
  /\ Cache(s, slot[s].got)
  /\ UNCHANGED life

\* jwt.decode raises on the signature, issuer, audience or times, or the token
\* lacks the claim that names its owner.
ClaimsFail(s) ==
  /\ slot[s].at = "found"
  /\ slot' = [slot EXCEPT ![s].at = "refused", ![s].owed = FALSE]
  /\ UNCHANGED <<life, client>>

---------------------------------------------------------------------------
(* AuthMiddleware. *)

\* The owner is admitted, or at its limit and answered 429.
Pass(o) ==
  \/ Admit(o)
  \/ counter[o] >= MaxConcurrent /\ UNCHANGED vars

\* The token was valid; which owner it stands for is UserLinking's business.
Resolve(s) ==
  /\ slot[s].at = "found"
  /\ \E o \in Owners : Pass(o)
  /\ slot' = [slot EXCEPT ![s] = Free]
  /\ UNCHANGED <<life, client>>

\* Neither check accepted the token: 401.
Unauthorized(s) ==
  /\ slot[s].at = "refused"
  /\ slot' = [slot EXCEPT ![s] = Free]
  /\ UNCHANGED <<life, client>>

\* A token signed with the shared secret names its owner and needs no thread.
SelfSigned(o) ==
  /\ JwtSecret
  /\ Pass(o)
  /\ UNCHANGED authVars

---------------------------------------------------------------------------
(* The provider, the library and the clock. *)

Publish(k) ==
  /\ life[k].state = "unused"
  /\ life' = [life EXCEPT ![k].state = "published"]
  /\ UNCHANGED <<client, slot>>

Withdraw(k) ==
  /\ life[k].state = "published"
  /\ life' = [life EXCEPT ![k] =
                [state |-> IF Unlocked THEN "withdrawn" ELSE "lingering", ago |-> 0]]
  /\ slot' = [s \in Slots |->
                IF slot[s] # Free /\ slot[s].key = k
                THEN [slot[s] EXCEPT !.owed = FALSE] ELSE slot[s]]
  /\ UNCHANGED client

\* The client's own cache expires.
Forget ==
  /\ client.keys # {}
  /\ client' = [client EXCEPT !.keys = {}]
  /\ UNCHANGED <<life, slot>>

Tick ==
  /\ client' = [client EXCEPT !.age = Older(@)]
  /\ life' = [k \in Keys |->
                IF life[k].state = "withdrawn"
                THEN [life[k] EXCEPT !.ago = Older(@)] ELSE life[k]]
  /\ UNCHANGED slot

Environment ==
  \/ \E k \in Keys : Publish(k) \/ Withdraw(k)
  \/ Forget
  \/ Tick

Thread(s) ==
  \/ \E k \in Keys : Validate(s, k)
  \/ Refresh(s) \/ Stamp(s) \/ Lookup(s) \/ Fetch(s) \/ FetchFails(s) \/ Store(s)
  \/ ClaimsFail(s) \/ Unauthorized(s)

\* Discovery is not repeated.
ANext ==
  /\ \/ \E s \in Slots : Thread(s) /\ UNCHANGED vars
     \/ \E s \in Slots : Resolve(s)
     \/ \E o \in Owners : SelfSigned(o) \/ (Release(o) /\ UNCHANGED authVars)
     \/ Environment /\ UNCHANGED vars
  /\ UNCHANGED jwks

avars == <<vars, authVars, jwks>>

ASpec == AInit /\ [][ANext]_avars

---------------------------------------------------------------------------
\* Whatever the threads do to the shared client in between, a key stops being
\* accepted once it has been withdrawn for longer than the cache's lifetime: a
\* request that comes later than that is refused.  A key that was withdrawn
\* between a refresh's new client and its note of the time may already have
\* been fetched through that client; for such a key the lifetime counts from
\* the note.
WithdrawnKeysExpire ==
  \A s \in Slots : slot[s].at = "found" => ~slot[s].late

\* A request whose key the provider has published all along is refused only
\* because the provider did not answer or its claims do not hold: never because
\* of what other threads left in the cache, nor of a key the cache is too old
\* to know.
GoodTokensPass ==
  \A s \in Slots : slot[s].at = "refused" => ~slot[s].owed
=============================================================================
