----------------------------- MODULE Embeddings -----------------------------
(***************************************************************************)
(* Keeping one embedding per entry up to date with the entry's text.       *)
(*                                                                         *)
(* A tool that writes an entry hands its text to the embedding pool of its *)
(* server, which is neither persisted nor waited for; the pool's workers   *)
(* store what the provider answers over whatever is there, and drop a job  *)
(* at any failure.  backfill_embeddings repairs what is missing or stale.  *)
(* A server runs one tool call at a time, its workers run beside it, and   *)
(* several servers share the tables.                                       *)
(*                                                                         *)
(* A text is the number of the version of the entry it was composed from,  *)
(* its hash the same number, 0 for none.  What is followed is the entries  *)
(* of one owner and the embeddings of the configured model.                *)
(***************************************************************************)
EXTENDS Recency, Sequences

CONSTANTS Ids,         \* entry ids
          Silent,      \* ids of preferences and intentions: only update_entry embeds them
          Servers,     \* server processes
          PoolSize,    \* max_workers of the pool
          Limit,       \* the limit backfill_embeddings is called with
          MaxText,     \* bound on the versions of an entry
          MaxChanges,  \* bound on what users do to the entries
          MaxFaults    \* bound on failures and restarts

ASSUME EmbeddingsAssumption ==
  /\ Silent \subseteq Ids
  /\ PoolSize \in Nat \ {0} /\ Limit \in Nat \ {0}
  /\ MaxText \in Nat /\ MaxChanges \in Nat /\ MaxFaults \in Nat

VARIABLES state,    \* [Ids -> State], of the row in entries
          text,     \* [Ids -> 0..MaxText], composed from the row
          recent,   \* order of the rows by COALESCE(updated, created)
          emb,      \* [Ids -> 0..MaxText], text_hash of the row in embeddings
          queue,    \* [Servers -> Seq(Job)], of the embedding pool
          running,  \* [Servers -> SUBSET Job], one job for each busy worker
          call,     \* [Servers -> Call], the backfill each server is in
          changes,  \* what is left of MaxChanges
          faults,   \* what is left of MaxFaults
          excused   \* history: entries an embedding of which failed or was lost,
                    \* or was stored while an older one was under way

vars == <<state, text, recent, emb, queue, running, call, changes, faults, excused>>

State == {"none", "active", "trash", "purged"}
Job == [id : Ids, text : 1..MaxText]

\* backfill_embeddings: embedding a batch, then storing its vectors one by one
\* (in which order is left open); first what has no embedding, then what has a
\* stale one.
Call == [at : {"idle"}, todo : {{}}]
        \cup [at : {"embedNew", "storeNew", "embedStale", "storeStale"}, todo : SUBSET Job]
Idle == [at |-> "idle", todo |-> {}]

Init ==
  /\ state = [i \in Ids |-> "none"]
  /\ text = [i \in Ids |-> 0]
  /\ recent = {}
  /\ emb = [i \in Ids |-> 0]
  /\ queue = [s \in Servers |-> <<>>]
  /\ running = [s \in Servers |-> {}]
  /\ call = [s \in Servers |-> Idle]
  /\ changes = MaxChanges
  /\ faults = MaxFaults
  /\ excused = {}

-----------------------------------------------------------------------------
Exists(i) == state[i] \in {"active", "trash"}
Present == {i \in Ids : Exists(i)}
Elements(seq) == {seq[n] : n \in DOMAIN seq}
JobOf(i) == [id |-> i, text |-> text[i]]

\* The n ids of S that come first in the order of updates.
FirstOf(S, n) == Page(S, recent, 0, n)
JobsOf(S) == {JobOf(i) : i \in S}

\* get_entries_without_embeddings: filter, order, then LIMIT.
Missing(n) == FirstOf({i \in Ids : state[i] = "active" /\ emb[i] = 0}, n)

Embedded == {i \in Ids : state[i] = "active" /\ emb[i] # 0}

\* Mistake: a stale embedding is one of a later version.
StaleLater(n) == {i \in FirstOf(Embedded, n) : emb[i] > text[i]}

\* get_stale_embeddings: order and LIMIT first, then the hashes are compared.
Stale(n) == {i \in FirstOf(Embedded, n) : emb[i] # text[i]}

\* The embeddings of entry i on their way to the table.
UnderWay(i) ==
  {job \in UNION {Elements(queue[s]) \cup running[s] \cup call[s].todo : s \in Servers} :
     job.id = i}

Ready(s) == call[s] = Idle
Goto(s, at, todo) == call' = [call EXCEPT ![s] = [at |-> at, todo |-> todo]]
Fault == faults > 0 /\ faults' = faults - 1

\* History: these jobs are given up.
Lose(jobs) == excused' = excused \cup {i \in Ids : JobOf(i) \in jobs}

\* upsert_embedding: over whatever is there; the foreign key refuses the row of a
\* purged entry.
Upsert(job) ==
  /\ emb' = IF Exists(job.id) THEN [emb EXCEPT ![job.id] = job.text] ELSE emb
  /\ excused' = IF job # JobOf(job.id) THEN excused
                ELSE IF UnderWay(job.id) \subseteq {job} THEN excused \ {job.id}
                ELSE excused \cup {job.id}

-----------------------------------------------------------------------------
(* The tools that write entries, and the cleanup of the trash.             *)

Change == changes > 0 /\ changes' = changes - 1

\* Mistake: only new entries are handed to the pool.
SubmitNew(s, i) ==
  queue' = IF i \in Silent \/ text[i] # 0 THEN queue
           ELSE [queue EXCEPT ![s] = Append(@, [id |-> i, text |-> text[i] + 1])]

\* _generate_embedding, of the version about to be written; of an entry of a
\* silent kind only update_entry calls it.
Submit(s, i) ==
  \/ /\ i \notin Silent \/ text[i] # 0
     /\ queue' = [queue EXCEPT ![s] = Append(@, [id |-> i, text |-> text[i] + 1])]
  \/ i \in Silent /\ UNCHANGED queue

\* A new entry or a new text: it comes first in the order of updates.
Write(s, i) ==
  /\ Ready(s) /\ Change
  /\ state[i] \in {"none", "active"} /\ text[i] < MaxText
  /\ state' = [state EXCEPT ![i] = "active"]
  /\ text' = [text EXCEPT ![i] = @ + 1]
  /\ recent' = Placed(recent, i, {}, Present \ {i})
  /\ Submit(s, i)
  /\ UNCHANGED <<emb, running, call, faults, excused>>

\* delete_entry and restore_entry: nothing is embedded.
Move(s, i) ==
  /\ Ready(s) /\ Change
  /\ Exists(i)
  /\ state' = [state EXCEPT ![i] = IF @ = "active" THEN "trash" ELSE "active"]
  /\ UNCHANGED <<text, recent, emb, queue, running, call, faults, excused>>

\* The row is deleted, and with it (ON DELETE CASCADE) its embedding.
Purge(i) ==
  /\ Change
  /\ state[i] = "trash"
  /\ state' = [state EXCEPT ![i] = "purged"]
  /\ emb' = [emb EXCEPT ![i] = 0]
  /\ recent' = Without(recent, i)
  /\ UNCHANGED <<text, queue, running, call, faults, excused>>

-----------------------------------------------------------------------------
(* The embedding pool.                                                     *)

\* A worker takes the job submitted first.
Take(s) ==
  /\ queue[s] # <<>> /\ Cardinality(running[s]) < PoolSize
  /\ running' = [running EXCEPT ![s] = @ \cup {Head(queue[s])}]
  /\ queue' = [queue EXCEPT ![s] = Tail(@)]
  /\ UNCHANGED <<state, text, recent, emb, call, changes, faults, excused>>

\* _do_embed: the vector is computed and stored ...
Embed(s, job) ==
  /\ job \in running[s]
  /\ Upsert(job)
  /\ running' = [running EXCEPT ![s] = @ \ {job}]
  /\ UNCHANGED <<state, text, recent, queue, call, changes, faults>>

\* ... or the provider is not available, or something raises.
EmbedFails(s, job) ==
  /\ job \in running[s] /\ Fault
  /\ Lose({job})
  /\ running' = [running EXCEPT ![s] = @ \ {job}]
  /\ UNCHANGED <<state, text, recent, emb, queue, call, changes>>

-----------------------------------------------------------------------------
(* backfill_embeddings.                                                    *)

\* The provider is available; phase 1 reads its batch.
BackfillNew(s) ==
  /\ Ready(s)
  /\ Goto(s, "embedNew", JobsOf(Missing(Limit)))
  /\ UNCHANGED <<state, text, recent, emb, queue, running, changes, faults, excused>>

\* provider.embed of the whole batch.
BackfillEmbed(s) ==
  /\ call[s].at \in {"embedNew", "embedStale"}
  /\ Goto(s, IF call[s].at = "embedNew" THEN "storeNew" ELSE "storeStale", call[s].todo)
  /\ UNCHANGED <<state, text, recent, emb, queue, running, changes, faults, excused>>

\* It raises: the batch is given up, the call goes on.
BackfillEmbedFails(s) ==
  /\ call[s].at \in {"embedNew", "embedStale"} /\ Fault
  /\ Lose(call[s].todo)
  /\ Goto(s, IF call[s].at = "embedNew" THEN "storeNew" ELSE "storeStale", {})
  /\ UNCHANGED <<state, text, recent, emb, queue, running, changes>>

\* One vector is stored, in a transaction of its own ...
BackfillStore(s) ==
  /\ call[s].at \in {"storeNew", "storeStale"}
  /\ \E job \in call[s].todo : Upsert(job) /\ Goto(s, call[s].at, call[s].todo \ {job})
  /\ UNCHANGED <<state, text, recent, queue, running, changes, faults>>

\* ... or fails and is skipped.
BackfillStoreFails(s) ==
  /\ call[s].at \in {"storeNew", "storeStale"} /\ Fault
  /\ \E job \in call[s].todo : Lose({job}) /\ Goto(s, call[s].at, call[s].todo \ {job})
  /\ UNCHANGED <<state, text, recent, emb, queue, running, changes>>

\* Phase 2 reads its batch.
BackfillStale(s) ==
  /\ call[s].at = "storeNew" /\ call[s].todo = {}
  /\ Goto(s, "embedStale", JobsOf(Stale(Limit)))
  /\ UNCHANGED <<state, text, recent, emb, queue, running, changes, faults, excused>>

\* The answer, after a look whether anything is still without an embedding.
BackfillAnswer(s) ==
  /\ call[s].at = "storeStale" /\ call[s].todo = {}
  /\ Goto(s, "idle", {})
  /\ UNCHANGED <<state, text, recent, emb, queue, running, changes, faults, excused>>

Backfill(s) ==
  BackfillNew(s) \/ BackfillEmbed(s) \/ BackfillStore(s) \/ BackfillStale(s) \/ BackfillAnswer(s)

\* A server stops: its pool and its call are gone.
Restart(s) ==
  /\ Fault
  /\ Lose(Elements(queue[s]) \cup running[s] \cup call[s].todo)
  /\ queue' = [queue EXCEPT ![s] = <<>>]
  /\ running' = [running EXCEPT ![s] = {}]
  /\ Goto(s, "idle", {})
  /\ UNCHANGED <<state, text, recent, emb, changes>>

Next ==
  \/ \E s \in Servers :
       \/ \E i \in Ids : Write(s, i) \/ Move(s, i)
       \/ Take(s)
       \/ \E job \in running[s] : Embed(s, job) \/ EmbedFails(s, job)
       \/ Backfill(s) \/ BackfillEmbedFails(s) \/ BackfillStoreFails(s)
       \/ Restart(s)
  \/ \E i \in Ids : Purge(i)

\* Workers keep working, and backfill_embeddings is called again and again, on
\* every server.
Fairness ==
  \A s \in Servers :
    /\ WF_vars(Take(s))
    /\ WF_vars(\E job \in running[s] : Embed(s, job))
    /\ WF_vars(Backfill(s))

Spec == Init /\ [][Next]_vars /\ Fairness

-----------------------------------------------------------------------------
\* Every variable stays in its type; no pool has more busy workers than it may;
\* the entries that have a row are in one order, and only they have embeddings.
TypeOK ==
  /\ state \in [Ids -> State]
  /\ text \in [Ids -> 0..MaxText]
  /\ IsRecency(recent, Present)
  /\ emb \in [Ids -> 0..MaxText]
  /\ \A i \in Ids : emb[i] <= text[i] /\ (emb[i] # 0 => Exists(i))
  /\ queue \in [Servers -> Seq(Job)]
  /\ running \in [Servers -> SUBSET Job]
  /\ \A s \in Servers : Cardinality(running[s]) <= PoolSize
  /\ call \in [Servers -> Call]
  /\ changes \in 0..MaxChanges /\ faults \in 0..MaxFaults
  /\ excused \subseteq Ids

\* An entry whose embedding is missing or of an older text is on its way to a
\* fresh one, or lost it to a failure or a restart, or two embeddings of it
\* overlapped: workers of one or several servers, or a backfill, held an older
\* text while the current one was stored, and store it last.  Entries of the
\* kinds whose own tools do not embed may wait for a backfill.
StaleForACause ==
  \A i \in Ids \ Silent :
    (Exists(i) /\ emb[i] # text[i]) => i \in excused \/ JobOf(i) \in UnderWay(i)

\* Once users, failures and restarts pause, repeated backfills bring every active
\* entry's embedding up to date for good, also against jobs that still hold an
\* older text.  It needs a limit not below the number of entries with an
\* embedding: get_stale_embeddings cuts before it compares.
BackfillCatchesUp ==
  <>[](\A i \in Ids : state[i] = "active" => emb[i] = text[i])
=============================================================================
