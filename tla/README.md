# mcp-awareness: TLA+ models, checks and proofs

mcp-awareness is a Python server that gives AI agents a shared, persistent
memory over MCP: agents and edge processes report statuses and alerts, remember
notes, learn patterns, set reminders, and ask for a *briefing*. Several server
processes (nodes) share one Postgres database. This directory holds TLA+ models
of the parts of it whose correctness depends on the order of events, the TLC
runs that check them, and TLAPS proofs about them.

Paths below are relative to `src/mcp_awareness/` of the repository.

## 1. Inventory

### How the server runs

- A request passes the ASGI middleware chain (`middleware.py`,
  `session_registry.py`, `oauth_proxy.py`) and reaches FastMCP, which calls a
  tool of `tools.py`. Tools are `async` functions that call the synchronous
  store without an `await` in between, so inside one process **one tool call
  runs at a time**. Two tool calls interleave only if they run on two servers.
- Middleware does `await` (request bodies, FastMCP, `asyncio.to_thread`), so
  its requests interleave within one process too; the OAuth proxy awaits the
  identity provider in a thread.
- Background threads: the cleanup of expired entries (`postgres_store.py`
  `_do_cleanup`), the cleanup of sessions, two embedding workers, and the worker
  threads of `asyncio.to_thread` that validate tokens, resolve users and forward
  to the identity provider.
- Every store method is one or more transactions at READ COMMITTED. Where a
  method uses two (read, then write back), another server gets in between.

### Components

| Component | State | Operations | What is hard | Correct when |
|---|---|---|---|---|
| Session registry (`session_registry.py`) | `session_registry` and `session_redirects` tables; per node FastMCP's sessions, the touch debounce, the cleanup time | initialize, subsequent request, re-initialize, DELETE, touch, cleanup, restart | validation is read once and used after several awaits; nodes rotate, end and expire the same session; each write commits alone | an expired or ended session never comes back; no session or redirect changes owner |
| Authentication and concurrency limit (`middleware.py` `AuthMiddleware`) | `_owner_inflight`, an LRU dictionary | check the token, admit, release | eviction of an owner with requests in flight | the dictionary is bounded, no slot leaks |
| OIDC discovery and token validation (`oauth.py`) | `_jwk_client` with its cached keys, `_last_jwks_fetch` | discover (once), validate, refresh | worker threads share the client; the clock is read before the lock; the provider rotates keys meanwhile | a withdrawn key stops being accepted, a good token passes |
| User resolution (`middleware.py` `_resolve_user`, `cli.py`) | `users` | look up, update the profile, link by email, auto-provision; user add and delete | each step a transaction in a worker thread; unique indexes; failures fall back to the token's claim | a linked identity runs as its user; two identities share an owner only if a token says so |
| Entry store (`postgres_store.py`, `sql/`) | `entries`; cleanup thread | add, upsert by logical key, update, soft delete, restore, cleanup | read and write-back in two transactions; expiry moved to `_original_expires` and back; unique index on the logical key | an entry's lifetime and changelog are kept; nothing is purged early |
| Status and alert reports (`upsert_status`, `upsert_alert`) | status and alert entries | report_status, report_alert, delete, restore | delete and insert race; `FOR UPDATE` locks nothing while there is no row | a source stays listed; an alert has one entry |
| Briefing, filtering (`collator.py`) | none of its own | five reads, suppressions, patterns | the reads are separate transactions; order of suppressions; hour windows over midnight | nothing is hidden without a reason, no noise is surfaced |
| Intentions (`tools.py` remind, update_intention; `collator.py`) | intention entries and their state | remind, update, fire, surface | the briefing lists, then fires one by one; write-backs of other servers; failures half-way | what is due is fired and shown; what was handled is not revived |
| Schemas and records (`validation.py`, `schema.py`, `tools.py`) | schema and record entries | register_schema, create_record, update, delete with guard, restore, purge | resolving, validating, counting and writing are separate transactions; several tools write one logical key | the validated content of a record conforms to the version it pins; a deletion by id leaves no record behind that was there when it began |
| Embeddings (`embeddings.py`, `server.py`) | `embeddings`; per process the pool's queue | background embedding, backfill | two workers out of order; jobs lost at a crash; `LIMIT` before the staleness filter | an embedding is stale only for a cause, and backfills repair it |
| OAuth proxy (`oauth_proxy.py`) | per route: windows and bans of each address, counters | admit, refuse, ban, evict, forward | eviction at the cap, bans that overlap and end, refusals that count as touches | a window admits no more than the maximum, a ban holds, a 429 has a cause |
| Queries (`get_knowledge`, `get_alerts`, `search`, `get_related`; `helpers.py`) and the reads log | `reads` | pages by `limit` and `offset`, re-ranking by a hint, log_read, get_unread | the table moves between two pages; `limit + 1` rows are fetched and trimmed after the sort; the log is a transaction of its own that fails silently | a walk over the pages misses and repeats nothing that stayed where it was; what a call returned and logged is not reported as unread |
| Preferences | preference entries | upsert | as alerts | one entry per key and scope |
| Custom prompts (`server.py`) | FastMCP's registry, last sync | sync | debounce | follows the store |
| Actions log, statistics, language, CLI, transport | append-only rows or none | | | not modelled, see section 8 |

## 2. Modules

Each component has a module with its state, one action per operation and its
properties; an `MC` module where TLC needs constants that a `.cfg` cannot
write; and its proofs are in a `Proofs` module. `RetrievalProofs` has those of
`Queries` and `Embeddings`, which share `Recency`; `AuthenticationProofs` those of
`UserLinking` too, and `ReportsProofs` those of `Briefing`, since a login follows a
validated token and a briefing reads what reports write. Where two modules are
extended by one, the names of the second have a prefix (`ULInit`, `BNext`,
`QTypeOK`).

| Module | Models | Interacts with |
|---|---|---|
| `SessionLifecycle` | the abstract promise about one session id: fresh, held by one owner, dead for ever | |
| `SessionRegistry` | `SessionStore` and `SessionRegistryMiddleware` on several nodes | implements `SessionLifecycle` |
| `OwnerLimiter` | the per-owner in-flight counter | |
| `Authentication` | `AuthMiddleware.__call__` and `OAuthTokenValidator`: tokens, keys, 401 and 429 | extends `OwnerLimiter` and implements its specification; leaves the owner of a token to `UserLinking` |
| `EntryStore` | knowledge entries: add, upsert, update, delete, restore, cleanup | |
| `UserLinking` | `_try_oauth` / `_resolve_user`, `mcp-awareness-user add` and `delete` | |
| `Reports` | `report_status`, `report_alert`, the trash | |
| `Records` | schemas and records: register, create, update, delete with its guard | the upsert and the two transactions of `update_entry` as in `EntryStore`, here with types and pins |
| `Recency` | `ORDER BY COALESCE(updated, created) DESC`, `LIMIT`, `OFFSET` | |
| `Queries` | listings in pages, search, related entries, the reads log | extends `Recency`; its writers are the calls of `EntryStore`, as far as a listing tells them apart |
| `Embeddings` | the embedding pool and `backfill_embeddings` | extends `Recency`; follows the versions of the entries other tools write |
| `RateLimiter` | `RateLimiter` as a value with its methods | |
| `OAuthProxy` | `OAuthProxyMiddleware`, one limiter for each route | extends `RateLimiter` |
| `Briefing` | the first part of `generate_briefing` | reads what `Reports` keeps: one entry per alert, a status per listed source |
| `Intentions` | reminders and the second part of `generate_briefing` | the same soft deletes as `EntryStore` |

### How state and actions correspond to the code

**SessionRegistry.** `sessions` and `redirects` are the two tables; the time
left of a row stands for `expires_at`. `local` is what FastMCP of a node knows,
`touchWait` the `_touch_debounce` dictionary, `req` the requests under way with
the local variables they carry over awaits. Every store call is one transaction
and one action, in the order of `_handle_initialize`, `_handle_subsequent`,
`_reinitialize` and `_handle_terminate`; every call into FastMCP is an action too.
The store is synchronous, so between two awaits a handler holds its node's
event loop (`HoldsLoop`, `LoopFree`): requests of the same node wait, other
nodes and the cleanup threads do not. With `DbMayFail` each transaction may
raise, and the handler goes on as its `except` says. `Restart` empties the
memory of a node. A call is re-initialized after a 400 or 404 of FastMCP, which
answers so when the session is not in its memory, and, with `badcall` among the
`Methods`, to a request it would not take in any session.

**OwnerLimiter.** `counter` and `order` are the `OrderedDict`, `serving` is the
ground truth: the requests really in flight. The check, the increment and the
eviction have no await between them and are one action.

**Authentication.** A request whose token the shared secret verifies
(`SelfSigned`) needs no thread. Any other is validated in a worker thread, one of
`Slots`: `Validate` reads the clock and tests the age of the keys, with the time
read *before* the lock. Under `_jwks_lock`, `Refresh` replaces the client and
`Stamp` notes the time: two steps, between which other threads, which read
`_jwk_client` and `_last_jwks_fetch` without the lock, already use the new client
at its old age. `Lookup`, `Fetch` and `Store` are the look-up in the client that is
in use by then, `ClaimsFail`, `Resolve` and `Unauthorized` the outcomes. PyJWT's client is external: it caches
the key set, fetches it again for an unknown key id, and its own cache may run
out at any time (`Forget`). `jwks` is what discovery came to in the constructor;
it is never tried again. The provider publishes and withdraws keys (`Publish`,
`Withdraw`); a key withdrawn between `Refresh` and `Stamp` is "lingering" and counts
as withdrawn from the `Stamp`. Ages are told apart up to the first one beyond the TTL. The steps of
`OwnerLimiter` are taken inside `Resolve`, `SelfSigned` and `Release`, so that its
properties are checked and proved of the whole middleware.

**EntryStore.** A row carries `expires`, the saved expiry, the content, and the
changelog as the list of replaced values. `update_entry` is `UpdateRead` and
`UpdateWrite` (or `UpdateUnchanged`): two transactions. An upsert is a
conflicting `INSERT` that locks the row, then the merge and write in the same
transaction. `AddContext` is `add_context`, which expires by itself, and
`SetAutoCleanup` what `set_preference` does to the one preference the store reads.
The cleanup thread reads the clock and the opted-in owners in one step and deletes
in another. `overlapped` is history: the entries an update
wrote back over a change made since it read them (`Stale`).

**UserLinking.** A login goes through `lookup`, `profile`, `link` and `create`,
one transaction each (`FindLinked` for the first, `RunAs` for the outcome). The token itself names an
owner id too, the fallback: it is read from the claim `sub`, `email` or
`preferred_username`, so `ClaimsOf` gives each identity any set of claims, which
may change from token to token, be another identity's too, or be the id of a user
the operator added. `held` is history: the user that the identity was linked to when
the login began, or that the login found or linked (`RunLinked`). Both unique indexes (`canonical_email`, the OAuth pair) are in the
guards: a statement that would violate one raises, and the login falls back.

**Reports.** `upsert_status` is one transaction of two statements: the
`DELETE` fixes the rows it wants, waits for the locks of others and skips rows
that are gone by then; the `INSERT` commits. `upsert_alert` takes the advisory
lock, selects `FOR UPDATE` (which locks every active entry of the alert) and
writes. `reported`, `quiet` and `restored` are history variables.

**Briefing.** The five reads are five actions, and the tools of other servers
write in between. A suppression is a row with a rule: the alerts whose source,
metric and tags it matches, the level, `escalation_override`, and whether it is
the source's own or global. `Levels` are those an alert may have (of 0..2): the
tools accept warning and critical. A pattern's rule has the alerts its words match and
its `hour_range`. Tag and word matching is thereby a parameter. Of the status
only its effect is kept: a source that is not listed or stale passes the
briefing over (`PassOver`).

**Intentions.** `BriefingList` is `get_fired_intentions`, `FireRead` and
`FireWrite` are the two transactions of `update_intention_state` for each of
them, `Surface` is `get_intentions(state="fired")` and the list in the answer.
`update_intention` reads (`UpdateRead`) and writes back (`UpdateWrite`), and so
does `update_entry` (`EditRead`).

**Records.** One row per entry of the caller and of `_system`, with its type,
slot (source and logical key), for a record its pin (family and version) and, for
a schema, its body. A name is the sequence of its parts between colons, as far as
colons matter: `Compose` joins a family and a version to the logical key of their
schema, `Split` cuts a key at its last colon as `count_records_referencing` does.
So two pins may have one key, and splitting it gives back one of them at most.
Validation is abstract: a body is the set of contents it accepts. Every
transaction of a tool is an action: `CreateRecord` resolves and validates,
`StoreRecord` writes; `UpdateRead`, `UpdateResolve`, `UpdateReread`, `UpdateWrite`
are the four of `update_entry` on a record; `DeleteRead`, `DeleteCount`,
`DeleteTrash` the three of a deletion by id. A key with nothing after its last
colon fails an assertion of the count (the part `Empty`), and the deletion with it. `Remember` writes onto the same
logical keys without validation. Bulk deletions, `Restore` and `Purge` are single
statements. History: `registered` (key and body of every schema there was), `vetted` (the records
whose content passed validation for the version they pin), `arrived` (what became
active while a server is in a deletion).

**Embeddings.** A text is the number of the version it was composed from, a hash
the number of the version it was taken of. `Write` is every tool that writes an
entry and hands it to the pool; ids in `Silent` stand for preferences and
intentions, whose own tools do not, while `update_entry` does for them too. `queue` and `running` are the executor of each
process, `Restart` empties them. `backfill_embeddings` is followed from batch to
batch and store to store, since workers and other servers write in between.

**Recency, Queries.** The timestamps of the rows matter only for the order they
give (`newer`, a set of pairs). A page is the rows whose place is between `offset`
and `offset + limit`. `GetPage` is `get_knowledge` without a hint, or
`get_alerts`: the query, with `has_more` decided by the row too many; with a hint
(`GetRankedPage`) any `limit` of the `limit + 1` rows come first. `Search` and
`GetRelated` with `GetReferencing` find a set of active entries; how they rank is
open. `LogReads` is `_log_reads` with `log_read`'s one transaction, `Return` the
answer, after which the agent asks for the next page while `has_more`. A write puts
a row anywhere in the order (`WriteRow`), since it carries the time at which its
server began; what brings an entry into or out of a filter (a tag, a language) is
for the reader of that listing as if the entry was restored or trashed. `walk` is
what a reader has been given, with history: `touched` (entries written since it
began), `gap` and `overlap` (one left, or came into, the pages already read, or a
hint reordered a page that was not the last).

**RateLimiter, OAuthProxy.** A limiter is a value (`hits`, `order`, `bans`) and
its methods operators (`Checked`, `Ban`); `OAuthProxy` has one for each route. A
request goes from `Preflight` over `Reject` (bogus: 403 and a ban) and `Refuse`
(429) to `Admit`, which redirects, answers 404 or forwards; a forwarded one is
answered later (`UpstreamAnswers`, `UpstreamFails`). The address is the first
header present, or else the peer's, or else one address shared by all; a request
whose address is the peer's counts as a header miss. `admitted`, `passed` and
`offence` are history.

## 3. Runs

| Run | Instance | Question, and what it shows |
|---|---|---|
| `sessions_owners` | 2 nodes, 2 owners, 2 requests, 2 session ids, failing database, calls that FastMCP refuses (`badcall`) | `RedirectOwner`, `ValidatedOwner`: between the owner check and the end of a request, nothing makes it act on the session of another owner. `ImplementsLifecycle`: a dead id stays dead, a live one keeps its owner |
| `sessions_rotation` | 2 nodes, 1 owner, 3 ids, TTL 2, debounce 1, a database that answers, no DELETE, no refused calls | `ChainIntact`: the target of a redirect is live or redirected itself. `DebounceCoversTTL`: debounced touches keep an active session alive |
| `authentication` | 2 threads, 2 keys, TTL 1, 2 owners, room for 1 | `WithdrawnKeysExpire`: whatever the threads do to the shared client, a key withdrawn longer than the cache's lifetime is not accepted; for one withdrawn while a refresh is between its new client and its note of the time, the lifetime counts from the note. `GoodTokensPass`: a token with a published key is refused only for its claims or a provider that does not answer. `NeverOvercounts`, `ExactUnlessEvicted`: no sequence of admits, evictions and releases leaks a slot; the limit is exact for an owner never evicted |
| `entries_shared` | 2 servers, 2 entries, 1 logical key | `UpsertFindsRow`: after a conflict the second query finds exactly the row it conflicted with; `NeverPurgedEarly`: a cleanup with a stale clock purges no row that is not due; `LifetimeKept`, `ChangelogComplete`: trashing, restoring and editing give back the expiry, and every replaced value is logged, unless an update wrote back over another server's change |
| `users_linking` | 2 identities, one with a claim of its own, the other's tokens with that claim, another, or the id of the account; 2 concurrent logins, 1 account, 2 emails | `LinkedLoginsResolve`: a linked identity runs as its user though look-up and profile update are two transactions. `OwnersDistinct`: two identities share an owner only when a token names it, never through emails, links or auto-provisioning. `LinksAreFinal`: no login relinks a user |
| `reports` | 2 servers, 2 alert ids, 2 alert entries, 3 status entries | `SourceStaysListed`, `OneEntryPerAlert`, `ResolvedStaysResolved` |
| `records` | 2 servers, 3 entries, 3 pins on 2 logical keys; one key is that of two pins, registered by both owners, each for the other pin | `ContentConforms`: the validated content of a record was accepted by a schema registered under the version it pins. `OrphansOnlyNewcomers`: the records a deletion by id leaves without their schema became active while it ran, or pin a version with a colon |
| `queries` | 1 reader, 3 entries, one to a page | `WalkMissesNothing`, `WalkRepeatsNothing`: a walk to the end of a listing gives every entry that stayed in it unwritten, once, unless one left, or came into, the pages already read, or a hint reordered one. `ReadsTrackReturned`: what was logged is what is returned. `QTypeOK` includes the foreign key of the reads |
| `embeddings` | 2 servers, pool of 2, 2 entries (one of a silent kind), limit 2, 3 changes, 1 fault | `StaleForACause`: an embedding is stale only while a fresh one is under way, or after a loss or an overlap of two. `BackfillCatchesUp` (liveness): once changes pause, repeated backfills bring every active entry up to date for good |
| `oauth_proxy` | 3 routes, 3 addresses, room for 2 windows, rates 1 and 2, window 4, ban 2 | `WindowLimit`: more than the maximum within a window only after an eviction, which takes as many other addresses as there is room. `BanHolds`: nothing is admitted during a ban. `RefusedForCause`: a 429 is for what that address did on that route |
| `briefing` | 1 alert, 2 suppressions (own and global), 1 pattern, 3 hours | `HiddenForAReason`, `NoiseIsFiltered`, whatever is written between the reads |
| `intentions` | 2 servers, 2 intentions, list of 1, 1 failure | `BriefingSurfacesDue`, `FiresPending`, and the liveness property `DueIsFired` |

The type invariants of the session registry, `Authentication` (which includes
that of `OwnerLimiter`), `EntryStore`, `Queries`, `Records` and `OAuthProxy` are
checked by these runs; those of `Reports`, `Briefing`, `UserLinking`,
`Intentions` and `Embeddings` are proved. Seven more configurations are kept
to be run by hand: `LimiterCap.cfg` (`OwnerLimiter` alone, 3 owners and room for 2,
also `Bounded` and `AdmittedIsCounted`: holds), `EntryStoreSingle.cfg` (on
`MCEntryStore`, one server and two contents: holds), and `EntryStoreLifetime.cfg`,
`EntryStoreAbsent.cfg` (on `MCEntryStore`), `QueriesHint.cfg` (on `MCQueries`),
`UserLinkingClaims.cfg` (on `MCUserLinking`) and `RecordsColon.cfg` (on
`MCRecords`), which are violated, see section 6.

### Bounds, and why they are enough

- Two servers (nodes, threads, concurrent logins) are the smallest number that
  interleaves. No action looks at more than one other party; a third one adds
  only repetitions of what one other does. Where there is a proof, it removes
  the bound.
- Ids, logical keys, emails, signing keys: two of each let two rows differ and
  collide. Three session ids are needed for a rotation of a rotation, three
  status entries for two inserts while an old row is locked, three entries of
  `Records` for a schema, its rival or successor, and a record.
- Times are small: a TTL of 1 expires at the next tick, and every step may come
  before or after the tick. `sessions_rotation` has TTL 2 against a debounce of
  1, so that there are instants within and after the debounce; it leaves out
  refused calls, which the proofs of its two properties (`ChainsStayIntact`,
  `DebounceKeepsAlive`) include. `MaxTime`,
  `Retention` and `MaxEdits` of `EntryStore` leave room for an expiry, the
  retention after a deletion and one edit in between. `entries_shared` edits the
  source only, `EntryStoreSingle.cfg` the content too: the diff treats them alike. `MaxTime = 5` of
  `OAuthProxy` is one more than its window and allows two overlapping bans.
- The limiters have one owner or address more than room, so evictions happen,
  and more requests than one owner may have at once.
- `Embeddings`: three changes are a write, an edit and a deletion, or three
  versions spread over two entries; with one fault any job of any of them may be
  lost. `Limit` is the number of entries: with less, `BackfillCatchesUp` fails
  (section 6).
- Three hours hold a window over midnight (`<<2, 1>>`), one that ends with the
  day (`<<1, 3>>`), and an hour outside each.
- `Queries`: three entries on pages of one are three pages with an entry before,
  at and behind each edge; a reader never affects another one's walk, and the only
  thing readers share is `reads`, which only grows by their steps.
- `Records`: the keys are `f:v` and `f:v:w`; the pins (`f:v`, `w`) and (`f`, `v:w`)
  both compose to the second, which splits into the first of them. No name of the
  instance ends in a colon; that branch of `DeleteCount` deletes nothing, and the
  proof covers it.
- Suppression rules of `MCBriefing`: a global one up to critical and an own one
  up to warning, so that order and escalation both decide.
- `MaxFailures = 1` of `Intentions`: one failure can strike at every point of
  every call; more repeat the argument.
- Symmetry is used for interchangeable ids, threads, keys and servers, and never
  in a run with a liveness property.

Deadlock is checked except for `EntryStore`, `Records`, `Embeddings` and
`OAuthProxy`: their clocks, ids or changes are bounded, so a behaviour may use
them up and stop.

## 4. Fairness

Only `Intentions` and `Embeddings` have fairness, because only they state
liveness.

`Intentions`:

- a call that has begun proceeds (`WF` of `Proceed(s)` for every server): tools
  run synchronously to their end;
- some server lists due intentions again and again: `SF` of `BriefingList`, a
  strong one because a server is busy with other calls in between.
  `get_briefing` says "Call this at conversation start", and nothing else fires
  an intention;
- failures are bounded by `MaxFailures`, not excluded.

`DueIsFired` then says that an intention does not stay due for ever, although
another server's write-back may put it back to pending after it was fired.

`Embeddings`, for every server:

- the pool's workers take jobs and finish them (`WF` of `Take` and of `Embed`):
  `ThreadPoolExecutor` runs whatever was submitted;
- `backfill_embeddings` proceeds, and is called again (`WF` of `Backfill`): it is
  an assumption on the operator, since nothing in the code calls it; the tool
  exists to be called until nothing remains;
- failures and restarts are bounded by `MaxFaults`, and the changes of users by
  `MaxChanges`: the property is about what follows once they pause.

Nothing is assumed about users, edits or the clock. The other modules state
safety only and have none.

## 5. Proofs

All theorems hold for every number of servers, threads, rows, ids and requests,
and every value of the timing constants that satisfies the named assumptions of
the modules. A theorem that needs more says so in its `ASSUME`.

| Module | Theorems | Argument |
|---|---|---|
| `SessionRegistryProofs` | `TypeCorrect`, `RedirectsKeepOwner`, `RequestsStayWithOwner`, `RegistryImplementsLifecycle`, `DebounceKeepsAlive` (a database that answers), `ChainsStayIntact` (no DELETE, `TTL >= Grace`) | The invariant adds to the two owner properties where ids come from: an id in a row, a redirect, a node's memory or a request was issued (`IdsIssued`); one that a handler is about to register has no row yet (`FreshIds`); and one registered by a rotation gets the owner of the request (`NewOwner`). A redirect is then written between two sessions of the request's owner even though the row was read long before. The refinement is one lemma per action: it registers a fresh id for one owner or retires ids. For chains, a row that a rotation has just registered has its full lifetime left (`FullRows`) and so outlives the redirect written to it; what is invalidated was redirected before (`Redirected`) |
| `AuthenticationProofs` (limiter and tokens) | of the limiter `DictIsBounded`, `NoSlotLeaks`, `LimitIsExact`, `AdmissionIsCounted`; `ImplementsLimiter`, `ATypeCorrect`, `KeysExpire`, `GoodPass` | The four invariants of the limiter are together inductive: an entry counts at most what is in flight since it was made, and only eviction loses count. Every step of the middleware is a step of the limiter or leaves it alone, so they carry over. What is cached in the client in use, or fetched on its way there, was published after the last refresh or while it was under way, so its age bounds how long a key in it can have been withdrawn. Between `Refresh` and `Stamp` what is withdrawn only lingers, so that the new client holds nothing withdrawn when its age becomes 0; at most one thread is in between, since the lock is held (`OneHolder`). A request that came later than that is with a key that is in no cache, or its thread is still about to replace the client |
| `AuthenticationProofs` (users) | `TypeCorrect`, `LinkedResolve`, `OwnersStayApart`, `SubjectsStayApart`, `LinksStay` | Nothing is assumed of claims. `Table`: the unique indexes and which ids a linked row may have; `Held`: the user a login holds is still linked to its identity; `LoginsOK`: what a login knows at each point still holds. Two logins that hold the same user would be of one identity, so a shared owner is the claim of a token. `SubjectsStayApart`: with claims that are distinct for each identity and no account's id, two identities never share an owner |
| `OAuthProxyProofs` | `TypeCorrect`, `WindowsHold`, `BansHold`, `RefusalsHaveCause` | `Sound`, of each route's limiter and the history of what it let through: every admitted request is still counted, too old to count, or was evicted when as many other addresses as there is room for had been seen after it (`Backed`); what is counted was admitted (`Proper`); the `OrderedDict` is in the order of last sight (`Ordered`), so what is evicted was seen before all that stays; a ban is that of the last offence (`BansMatch`). What was admitted is finite because it lies before the clock, and so are the addresses seen so far (`Few`), though the set of addresses need not be |
| `EntryStoreProofs` | `TypeCorrect`, `UpsertAlwaysFindsRow`, `PurgesAreDue`, `LifetimesKept`, `ChangesLogged`; for one server `OneServerKeepsLifetime` | Purging needs `Lifespans` (a trashed row's expiry is its retention, the clock the cleanup read is not ahead of the clock); the upsert needs the unique index and `KeepsSlot`: the row lock of the conflicting insert keeps the row in its slot until the merge. `Kept` adds, for every entry no update wrote back over: its saved or current expiry is the one it was created with, and each replaced value is in its log (`RowKept`). An update writes whole columns back: if what it read still stands in them, the write is an edit of the row as it is, and otherwise it is `Stale` and marks the entry. With one server the entry an update holds is the one in the table, or purged (`UpdateKept`), so no entry is ever marked and the lifetime is kept without exception |
| `RecordsProofs` | `TypeCorrect`, `RecordsConform`, `DeletionsOrphanNewcomers`, `DeletionsSpareDependents` (no version has a colon) | `Known`: every schema row was registered; `Filled`: a record has content; `CallVetted`: what a call carries between its transactions is still true when it writes, since a record's pin never changes and a row once validated is tracked by `vetted`. For deletions `Counted`: from the count on, every record that references the schema arrived meanwhile. `SplitComposed`: splitting the key of a pin whose version has no colon gives the pin back, so the count finds every record with such a pin (`GuardedCounted`) |
| `ReportsProofs` (reports) | `TypeCorrect`, `SourcesStayListed`, `AlertsAreUpserted`, `ResolvedAlertsStay` | `OneUpsert`: the advisory lock admits one upsert per alert; `Selections`: the selected row is still the alert's, because it is locked, and if none was selected there still is none unless one was restored |
| `ReportsProofs` (briefing) | `AlertsHiddenForAReason`, `SurfacedIsNoNoise` | `BInv`: what each read put into the briefing is what is in the table, or was written since (`AlertsRead`, `NoiseRead`, `RulesRead`). A matching suppression that is not the first to match is preceded by one that is, since the rows before it are finitely many (`OneIsFirst`); and the modular arithmetic of an `hour_range` says what it means, over midnight too (`OpenIsWithin`) |
| `RetrievalProofs` (queries) | `QueriesTypeCorrect`, `WalksComplete`, `WalksRepeatNothing`, `ReadsLogged` | Of `Recency`: a row's place is the number of rows before it, so the places of a listing have no holes, and one row that is put, moved or removed shifts another across an edge only if it crosses that edge the other way (`EdgeMoves`). `QInv` is then per reader, at the offset and at the end of the page under way: unless `gap`, everything unwritten before the edge was returned (`NoGap`); unless `overlap`, everything unwritten that was returned is before it (`NoOverlap`). The page after the last full one is where the listing ends (`LastPage`) |
| `RetrievalProofs` (embeddings) | `EmbeddingsTypeCorrect`, `StaleOnlyForACause` | `EInv`: an entry that lost no job and had no two overlap is `Tracked`: a job of its current text is under way, or its embedding is current and no job of an older text is left to overwrite it. No job is of a text the entry never had (`ServerInv`), so the next version is newer than all that is under way |
| `IntentionsProofs` | `TypeCorrect`, `BriefingsSurface`, `FiresOnlyPending` | `Offers`: an intention that a briefing counted on and nobody wrote since is pending until the briefing fires it and fired afterwards; `Aims`: what a call is about to write exists |

The only properties of the runs left to TLC are the liveness properties `DueIsFired` and
`BackfillCatchesUp`, since liveness and `ENABLED` are out of the prover's reach.
No model needs a recursive definition. `Queries` assumes that its entries are
finite, since a row's place in a listing is a number; no other module assumes
that a set of rows, servers or requests is finite.

## 6. Disagreements met while modelling

Five have a configuration that shows the trace:

- **An edit erases the saved expiry** (`EntryStoreLifetime.cfg`).
  `update_entry` (`postgres_store.py:630`-`667`) reads an entry in one
  transaction and writes all of `data` back in another. If another server
  soft-deletes the entry in between, the write-back drops
  `data._original_expires`, and a later restore sets `expires` to NULL, though
  the docstring of `restore_by_id` (`postgres_store.py:887`) has it "Recovers the
  original expires value that was saved during soft-delete": an entry with an expiry never expires. With one server the
  property holds (`OneServerKeepsLifetime`); with more, `LifetimeKept` excepts the
  entries such an update wrote back.
- **Adding a field is acknowledged and lost** (`EntryStoreAbsent.cfg`).
  `update_entry` (`postgres_store.py:654`) and the merge of an upsert count a
  field as changed only if it had a value. An update that only adds `content` to a
  note without content answers with the modified entry and writes nothing.
- **A hint drops rows from a page** (`QueriesHint.cfg`). `get_knowledge` fetches
  `limit + 1` rows, sorts all of them by similarity (`tools.py:311`) and returns
  the first `limit`. The row that is cut off need not be the one the next page
  begins with: one entry is in neither page and another in both, though the
  docstring (`tools.py:220`) says "hint just reorders the results so the most
  relevant appear first". `WalkMissesNothing` and `WalkRepeatsNothing` except walks
  with such a page; without a hint, or on the last page, they hold.

- **A claim that is another user's id** (`UserLinkingClaims.cfg`).
  `docs/auth-setup.md:83` lets `AWARENESS_OAUTH_USER_CLAIM` be `email` or
  `preferred_username`, and a token whose identity is not linked runs as its claim
  (`middleware.py:354`, `:395`), also if an operator has added a user of that id who is
  linked to another identity by then. The owner id is taken for the user either
  way: the requests of both identities run as `alice`. Nothing checks a claim
  against the ids of linked users, so `OwnersDistinct` says what does hold, and
  `SubjectsStayApart` what a provider must guarantee for more.
- **A version with a colon** (`RecordsColon.cfg`). `register_schema`
  (`tools.py:572`) only refuses an empty version, and the guard of a deletion by
  id (`postgres_store.py:1408`) cuts the logical key at its *last* colon: the
  schema `f:v:w` of family `f` and version `v:w` is looked for as version `w` of
  family `f:v`. Its records are not counted and lose their schema, against
  `docs/schema-record-guide.md:444`-`447`. `OrphansOnlyNewcomers` excepts
  versions with a colon, and without them `DependentsKeepSchema` is proved
  (`DeletionsSpareDependents`). A version that ends in a colon fails the assertion
  there, and its schema cannot be deleted by id.

The others are described here, and each property above states what does hold:

- After two rotations within the grace period a client's id is behind two
  redirects, and `_handle_subsequent` follows one; the design document describes
  a single hop to the new session. `ChainIntact` states what does hold.
- The per-owner session limit is checked before the call into FastMCP and not
  at all by a re-initialization, so concurrent initializations exceed it.
- Two first logins of one identity in two threads: the second link updates no
  row and the request runs under the token's claim, though
  `docs/auth-setup.md` says that the first login links to the existing user.
- A key that the provider withdraws between the two assignments of a refresh
  (`oauth.py:131`, `:132`) may be fetched through the new client before the time is
  noted, and is then accepted for the lifetime after the note: longer than the TTL
  after its withdrawal by as long as a thread may be held up in between.
- The claim of a token may change. When the profile update of a linked identity is
  refused, since its email is another user's, the request runs as the claim of the
  token, which need not be the user's id (`LinkedLoginsResolve` says when it is).
- A briefing fires an intention that another server cancelled after the
  listing, though `update_intention` calls cancelling permanent.
- Of several matching suppressions the first decides: a newer or own
  warning-level one lets a critical alert through that an older or global one
  would suppress. `NoiseIsFiltered` states what does hold.
- Two simultaneous `report_status` calls leave two active statuses, since
  neither `DELETE` sees the other's insert ("Each source has one active
  status entry"). The next report removes both; readers use a latest one.
  `SourceStaysListed` states what does hold.
- Ways around validation (`ContentConforms` names them): a `create_record` that
  names another version lands on the record of that logical key, which keeps its
  old pin; a `remember` onto a record's key overwrites its content; an
  `update_entry` whose first read misses a record in the trash, restored since,
  writes unvalidated content. `docs/schema-record-guide.md:205` says of updates
  "You can't accidentally corrupt a record".
- Ways around the deletion guard: a record created or restored while the
  deletion runs; a schema that was in the trash when it was looked up and restored
  since; a deletion by source, type or tags, which is not guarded at all (a comment
  in `tools.py` refers to issue 288). The guide says at line 446 "you can't
  accidentally orphan a record".
- `backfill_embeddings` with a limit below the number of entries with an embedding
  looks for stale ones only among the most recently updated, however often it is
  called: `BackfillCatchesUp` fails with `Limit = 1`. Its docstring recommends
  calling it "periodically to catch up on stale embeddings".
- OIDC discovery happens once, in the constructor of the validator
  (`oauth.py:58`): if the provider is down at that moment, tokens whose keys are
  not at the default path are refused until a restart. `GoodTokensPass` counts
  that as a provider that does not answer.
- With a mount path, `server.py:468` advertises a metadata URL below it, which
  `WellKnownMiddleware` serves only at the root. The middleware is not modelled.

## 7. Plan

Done, in this order: the session registry with its abstract specification and
proofs, the concurrency limit, the entry store, user resolution, intentions,
reports, the briefing; then authentication as a refinement of the limiter, the
OAuth proxy, records, embeddings, and proofs for all of them but the last; then
queries and the reads log, proofs for them, for embeddings and for the briefing,
and those of the entry store for any number of servers.

Next:

1. Refinements beside those of the registry and the limiter: the entry store and
   the reports as implementations of an abstract table with one row per key.
2. A richer `Briefing`: several sources, so that own suppressions and statuses of
   one do not touch another.
3. The prompt sync, if it says something new.
4. The per-owner session limit as a property, once the code counts and registers
   in one step.

## 8. What is not modelled, and why

- Signatures, claims and the HTTP of discovery (`oauth.py`): cryptography and
  I/O, of which `Authentication` keeps the outcomes. `fetch_userinfo` only changes
  the email a login carries, and `UserLinking` leaves the email open.
- `upsert_preference`: the advisory lock and the row lock of `upsert_alert`, which
  is in `Reports`. What the store reads of preferences, `auto_cleanup`, is in
  `EntryStore` (`SetAutoCleanup`).
- The prompt sync of `server.py`: it replaces FastMCP's registry from one query,
  and its only state is the time of the last sync.
- Transport (`SecretPathMiddleware`, `HealthMiddleware`, `WellKnownMiddleware`,
  logging): route or log a request and keep no state.
- Of queries: how similarity ranks, the arguments of filters and `limit = 0` (a
  page of nothing that never ends); statistics, tags and activity, single
  `SELECT`s that change nothing. `get_deleted` orders by `deleted`, which the rows
  of a bulk delete share, so its pages have no fixed order to walk along.
  `include_history="only"` filters and pages in Python.
- The actions log: append-only, and nothing is decided by it. `acted_on` looks the
  entry up and inserts in two transactions; a purge in between makes the foreign
  key refuse the action. Of the reads log, timestamps and counts.
- Ties in `ORDER BY COALESCE(updated, created)` (`postgres_store.py:234`): rows
  are totally ordered in `Recency`. The code has no tie-break, so the order of rows
  with one timestamp, to the microsecond, may differ between two pages.
- Rates below 1 of the OAuth proxy, which `server.py:96`-`101` does not refuse:
  `RateLimiter` assumes at least 1. With 0 every request is answered 429.
- The level `info` of a briefing: only the server's own alerts about a language
  that is not supported have it.
- Language detection, wording of briefings, headers, formatting, vectors and
  what a text to embed is composed of: data without control.
- Migration, benchmarks, `set-password`, export: run by an operator without the server.
- Row-level security and owners in the entry modules: every statement carries
  `owner_id`; the models show one owner, and owners meet in `SessionRegistry`,
  `Authentication`, `UserLinking` and, with `_system`, `Records`.
- Goals, reasons and recurrence of intentions (recurrence is reserved in the
  code), `day_of_week` of patterns, several sources in one briefing.
- The cleanup of entries is in `EntryStore` and, as a purge, in `Reports`,
  `Records` and `Embeddings`; `Intentions` and `Briefing` keep trashed rows, as long as a
  restore is possible.
