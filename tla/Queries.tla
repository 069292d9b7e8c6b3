------------------------------ MODULE Queries ------------------------------
(* What an agent that reads the entries table gets to see, and what the reads *)
(* table records of it:                                                       *)
(*   - listings in pages (get_knowledge, get_alerts): each call is a query    *)
(*     with LIMIT limit + 1 OFFSET offset, latest written first, so a walk    *)
(*     over several pages sees a table that moves under it;                   *)
(*   - search and get_related, which find a set of active entries;            *)
(*   - _log_reads, in a transaction of its own between the query and the      *)
(*     answer, which fails silently; and get_unread.                          *)
(*                                                                            *)
(* The writers are any number of other calls on other servers (EntryStore),   *)
(* seen here only as far as a listing tells them apart: an entry is in the    *)
(* listing or not, at the place its timestamp gives it.  A write takes the    *)
(* time of its server's clock before it commits, so it may land anywhere in   *)
(* the order.  A bulk delete is the sequence of its rows: which rows a reader *)
(* has passed does not depend on their order.                                 *)
EXTENDS Recency

CONSTANTS
    Entries,    \* entry ids (make_id: never reused)
    Readers,    \* agents, each with at most one call under way
    PageSize    \* limit

ASSUME QueriesAssumption ==
    /\ IsFiniteSet(Entries)
    /\ PageSize \in Nat \ {0}

VARIABLES
    rows,     \* [Entries -> RowStates], the entries table
    newer,    \* order of the stored rows by COALESCE(updated, created)
    reads,    \* entries with a row in the reads table
    asked,    \* [Readers -> Asked], the tool call each reader waits for
    walk      \* [Readers -> Walk], the pages each reader has been given

table == <<rows, newer>>
qvars == <<rows, newer, reads, asked, walk>>

RowStates == {"none", "active", "trash", "purged"}

\* What a call holds between its steps: the entries it will return, and for a
\* listing whether it goes on after them.
Asked == [at : {"idle", "found", "logged", "unlogged", "related"},
          page : SUBSET Entries, listing : BOOLEAN, more : BOOLEAN]
NoCall == [at |-> "idle", page |-> {}, listing |-> FALSE, more |-> FALSE]

\* A walk: the offset of its next page.  And, as history: the entries written
\* since it began, the others it has returned, whether it may miss an entry (one
\* left the part already read, or a hint reordered a page that was not the last),
\* and whether it may repeat one (one came into the part already read, or ...).
Walk == [offset : Nat, touched : SUBSET Entries, seen : SUBSET Entries,
         gap : BOOLEAN, overlap : BOOLEAN]
NewWalk == [offset |-> 0, touched |-> {}, seen |-> {}, gap |-> FALSE, overlap |-> FALSE]

-----------------------------------------------------------------------------
Stored == {i \in Entries : rows[i] \in {"active", "trash"}}
Listed == {i \in Entries : rows[i] = "active"}

\* get_unread: active entries without a row in reads.
Unread == Listed \ reads

QInit ==
    /\ rows = [i \in Entries |-> "none"]
    /\ newer = {}
    /\ reads = {}
    /\ asked = [r \in Readers |-> NoCall]
    /\ walk = [r \in Readers |-> NewWalk]

-----------------------------------------------------------------------------
(* The readers. *)

Waits(r) == asked[r].at = "idle"

Finds(r, S, listing, more) ==
    /\ Waits(r)
    /\ asked' = [asked EXCEPT ![r] = [at |-> "found", page |-> S,
                                      listing |-> listing, more |-> more]]
    /\ UNCHANGED <<table, reads>>

\* The agent reads no further: its next listing starts at offset 0.
StopWalk(r) ==
    /\ Waits(r)
    /\ walk' = [walk EXCEPT ![r] = NewWalk]
    /\ UNCHANGED <<table, reads, asked>>

Fetched(o, n) == Page(Listed, newer, o, n)

\* A mistaken _paginate, of a query for limit rows.
HasMoreOfLimit(o) == Cardinality(Fetched(o, PageSize)) > PageSize

\* _paginate: one row more than the page shows that the listing goes on.
HasMore(o) == Fetched(o, PageSize + 1) # Fetched(o, PageSize)

\* A mistaken page, of all the rows fetched.
GetPageUntrimmed(r) ==
    /\ Finds(r, Fetched(walk[r].offset, PageSize + 1), TRUE, HasMore(walk[r].offset))
    /\ UNCHANGED walk

\* get_knowledge, get_alerts: the next page.
GetPage(r) ==
    /\ Finds(r, Fetched(walk[r].offset, PageSize), TRUE, HasMore(walk[r].offset))
    /\ UNCHANGED walk

\* A mistaken page, logged before it is re-ranked.
GetRankedPageLoggedFirst(r) ==
    LET o == walk[r].offset IN
    /\ Waits(r)
    /\ \E S \in SUBSET Fetched(o, PageSize + 1) :
          /\ Cardinality(S) = PageSize
          /\ asked' = [asked EXCEPT ![r] = [at |-> "logged", page |-> S,
                                            listing |-> TRUE, more |-> HasMore(o)]]
    /\ reads' = reads \cup Fetched(o, PageSize)
    /\ UNCHANGED <<table, walk>>

\* get_knowledge with a hint: the limit + 1 rows are sorted by similarity before
\* the first limit of them are taken.
GetRankedPage(r) ==
    LET o == walk[r].offset IN
    /\ \E S \in SUBSET Fetched(o, PageSize + 1) :
          /\ IF HasMore(o) THEN Cardinality(S) = PageSize ELSE S = Fetched(o, PageSize)
          /\ Finds(r, S, TRUE, HasMore(o))
    /\ walk' = [walk EXCEPT ![r].gap = @ \/ HasMore(o), ![r].overlap = @ \/ HasMore(o)]

\* search: at most limit active entries, whichever rank best.
Search(r) ==
    /\ \E S \in SUBSET Listed : Cardinality(S) <= PageSize /\ Finds(r, S, FALSE, FALSE)
    /\ UNCHANGED walk

\* get_related: the active entries an entry refers to, and in a second query the
\* ones that refer to it.
GetRelated(r) ==
    /\ Waits(r)
    /\ \E S \in SUBSET Listed :
          asked' = [asked EXCEPT ![r] = [NoCall EXCEPT !.at = "related", !.page = S]]
    /\ UNCHANGED <<table, reads, walk>>

GetReferencing(r) ==
    /\ asked[r].at = "related"
    /\ \E S \in SUBSET Listed :
          asked' = [asked EXCEPT ![r].at = "found", ![r].page = @ \cup S]
    /\ UNCHANGED <<table, reads, walk>>

\* log_read: one transaction for the whole page.  The foreign key refuses it
\* when an entry of the page has been purged; any failure is swallowed.
LogReads(r) ==
    /\ asked[r].at = "found"
    /\ \/ /\ asked[r].page \subseteq Stored
          /\ reads' = reads \cup asked[r].page
          /\ asked' = [asked EXCEPT ![r].at = "logged"]
       \/ /\ asked' = [asked EXCEPT ![r].at = "unlogged"]
          /\ UNCHANGED reads
    /\ UNCHANGED <<table, walk>>

\* The answer.  While has_more, the agent goes on at offset + limit.
Return(r) ==
    /\ asked[r].at \in {"logged", "unlogged"}
    /\ asked' = [asked EXCEPT ![r] = NoCall]
    /\ walk' = IF ~asked[r].listing THEN walk
               ELSE IF ~asked[r].more THEN [walk EXCEPT ![r] = NewWalk]
               ELSE [walk EXCEPT ![r].offset = @ + PageSize,
                                 ![r].seen = @ \cup (asked[r].page \ walk[r].touched)]
    /\ UNCHANGED <<table, reads>>

\* The server stops, get_read_counts fails or the answer is lost: the agent may
\* ask for the same page again.
NoAnswer(r) ==
    /\ ~Waits(r)
    /\ asked' = [asked EXCEPT ![r] = NoCall]
    /\ walk' = IF walk[r].offset = 0 THEN [walk EXCEPT ![r] = NewWalk] ELSE walk
    /\ UNCHANGED <<table, reads>>

-----------------------------------------------------------------------------
(* The writers. *)

\* Readers between the first query of a listing and the answer to the last.
Walking(r) == walk[r].offset > 0 \/ asked[r].listing

\* The offsets up to which a reader has been given the listing.
Edges(r) == {walk[r].offset} \cup
            IF asked[r].listing THEN {walk[r].offset + PageSize} ELSE {}

\* Entry i is in a listing before an offset.
Passed(S, order, i, offset) == i \in S /\ Place(S, order, i) < offset

\* Row i is put in a state and a place of the order, as the table and the readers'
\* walks see it.
PutRow(i, to, order) ==
    LET is == IF to = "active" THEN Listed \cup {i} ELSE Listed \ {i} IN
    /\ rows' = [rows EXCEPT ![i] = to]
    /\ newer' = order
    /\ walk' = [r \in Readers |->
          IF ~Walking(r) THEN walk[r]
          ELSE [walk[r] EXCEPT
                  !.touched = @ \cup {i},
                  !.seen = @ \ {i},
                  !.gap = @ \/ \E o \in Edges(r) :
                      Passed(Listed, newer, i, o) /\ ~Passed(is, order, i, o),
                  !.overlap = @ \/ \E o \in Edges(r) :
                      ~Passed(Listed, newer, i, o) /\ Passed(is, order, i, o)]]

\* remember, update_entry and every other write to an entry: its timestamp puts
\* it after the entries of N.  An update that read the entry before it was
\* trashed writes it in the trash.
WriteRow(i, N) ==
    /\ rows[i] # "purged"
    /\ N \subseteq Stored \ {i}
    /\ \A j \in N : Before(Stored, newer, j) \subseteq N \cup {i}
    /\ PutRow(i, IF i \in Stored THEN rows[i] ELSE "active",
              Placed(newer, i, N, Stored \ (N \cup {i})))
    /\ UNCHANGED <<reads, asked>>

\* delete_entry and restore_entry leave the timestamps alone.
MoveToTrash(i) ==
    /\ rows[i] = "active"
    /\ PutRow(i, "trash", newer)
    /\ UNCHANGED <<reads, asked>>

TakeFromTrash(i) ==
    /\ rows[i] = "trash"
    /\ PutRow(i, "active", newer)
    /\ UNCHANGED <<reads, asked>>

\* A mistaken purge, of a reads table without ON DELETE CASCADE.
PurgeRowKeepingReads(i) ==
    /\ i \in Stored
    /\ PutRow(i, "purged", Without(newer, i))
    /\ UNCHANGED <<reads, asked>>

\* _do_cleanup deletes a row, which takes its reads with it.
PurgeRow(i) ==
    /\ i \in Stored
    /\ PutRow(i, "purged", Without(newer, i))
    /\ reads' = reads \ {i}
    /\ UNCHANGED asked

QNext ==
    \/ \E r \in Readers :
          \/ StopWalk(r)
          \/ GetPage(r)
          \/ GetRankedPage(r)
          \/ Search(r)
          \/ GetRelated(r)
          \/ GetReferencing(r)
          \/ LogReads(r)
          \/ Return(r)
          \/ NoAnswer(r)
    \/ \E i \in Entries :
          \/ \E N \in SUBSET Entries : WriteRow(i, N)
          \/ MoveToTrash(i)
          \/ TakeFromTrash(i)
          \/ PurgeRow(i)

QSpec == QInit /\ [][QNext]_qvars

-----------------------------------------------------------------------------
\* Every variable stays in its type; the stored rows are in one order; the reads
\* logged are of stored entries (the foreign key of the reads table).
QTypeOK ==
    /\ rows \in [Entries -> RowStates]
    /\ IsRecency(newer, Stored)
    /\ reads \subseteq Stored
    /\ asked \in [Readers -> Asked]
    /\ walk \in [Readers -> Walk]

\* An agent that pages through a listing to its end is given every entry that was
\* in it all along and was not written meanwhile, unless an entry of the pages
\* already read was trashed or moved behind them, or a hint reordered a page.
\* Writes that move entries to the front, as updates do, hide nothing.
WalkMissesNothing ==
    \A r \in Readers :
        asked[r].listing /\ ~asked[r].more /\ ~walk[r].gap
        => Listed \ walk[r].touched \subseteq walk[r].seen \cup asked[r].page

\* ... and is given no such entry twice, unless an entry came into the pages
\* already read, or a hint reordered a page.
WalkRepeatsNothing ==
    \A r \in Readers :
        asked[r].listing /\ ~walk[r].overlap => asked[r].page \cap walk[r].seen = {}

\* When the reads of a call are logged, what the call returns is what is logged
\* ("Log reads after re-ranking so we track exactly what's returned",
\* get_knowledge): get_unread does not report an entry that the agent is given.
ReadsTrackReturned ==
    \A r \in Readers : asked[r].at = "logged" => asked[r].page \cap Unread = {}

\* A hint changes the order of a page only ("hint just reorders the results",
\* get_knowledge).
HintOnlyReorders ==
    [][\A r \in Readers :
          GetRankedPage(r) => asked'[r].page = Fetched(walk[r].offset, PageSize)]_qvars
=============================================================================
