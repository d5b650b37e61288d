------------------------------- MODULE CrawlPages -------------------------------
(***************************************************************************)
(* The pages dataset of the Common Crawl adapter,                          *)
(* src/internal/source/commoncrawl/pages.go.  It reads from the database   *)
(* the next index rows that have no page yet, has a pool of workers fetch  *)
(* them, emits the pages that were fetched in one batch, and moves its     *)
(* cursor to the last row before the first failure.  When no row is left   *)
(* behind the cursor, the cursor goes back to 0.                           *)
(*                                                                         *)
(* The pages that the database ignores because it has the same document    *)
(* already are those whose id is not in `paged`.                           *)
(***************************************************************************)
EXTENDS CrawlState

CONSTANTS
    Workers,    \* fetching goroutines
    Broken      \* ids of rows whose document can never be fetched

ASSUME WorkersAssumption == Workers # {}

VARIABLES
    paged,     \* ids that a row of commoncrawl_pages names
    targets,   \* ids to fetch in this run
    taken,     \* targets a worker has taken
    pool,      \* each worker: the id it fetches, 0 between two, or Done
    results,   \* ids that were fetched
    failures   \* ids that could not be

poolVars == <<targets, taken, pool, results, failures>>
pagesVars == <<paged, poolVars>>

Done == LastId(config) + 1
NoPool == [w \in Workers |-> Done]

PagesInit ==
    /\ paged = {} /\ targets = {} /\ taken = {} /\ pool = NoPool
    /\ results = {} /\ failures = {}

Least(S) == CHOOSE i \in S : \A j \in S : i <= j

(* A batch in ascending order. *)
InOrder(S) ==
    CHOOSE s \in [1..Cardinality(S) -> S] :
        \A i, j \in 1..Cardinality(S) : i < j => s[i] < s[j]

(* The rows that pages may fetch: those of another status or type, or       *)
(* without a place in a WARC file, are left out of the index here.          *)
Considered == {ids[r] : r \in DOMAIN ids}

-----------------------------------------------------------------------------
(* collectPages, up to the workers. *)

BeginPages ==
    /\ Goto("query")
    /\ results' = {} /\ failures' = {} /\ taken' = {} /\ targets' = {}
    /\ UNCHANGED <<sinkVars, sharedVars, st, paged, pool>>

(* pageTargets: what the database has at this moment.  Faulty variant: the  *)
(* cursor is taken for the next row to fetch.                               *)
MissingAfterNext == {i \in Considered : i > st.page + 1 /\ i \notin paged}
Missing == {i \in Considered : i > st.page /\ i \notin paged}
Targets == {i \in Missing : Cardinality({j \in Missing : j < i}) < config.pageBatch}

Query ==
    /\ step = "query" /\ Targets # {}
    /\ targets' = Targets
    /\ pool' = [w \in Workers |-> 0]
    /\ Goto("fetch")
    /\ UNCHANGED <<sinkVars, sharedVars, st, paged, taken, results, failures>>

(* No row is left: the cursor wraps around. *)
Wrap ==
    /\ step = "query" /\ Targets = {}
    /\ st' = [st EXCEPT !.page = 0]
    /\ \E err \in Queue!Errors : Queue!PutState(st', err) /\ DatasetReturns(err)
    /\ UNCHANGED <<sharedVars, pagesVars>>

QueryFails ==
    /\ step = "query"
    /\ (ctx = "cancelled" /\ UNCHANGED stops) \/ Fault("query")
    /\ DatasetReturns("query")
    /\ UNCHANGED <<sinkVars, config, ids, st, pagesVars>>

-----------------------------------------------------------------------------
(* The pool. *)

(* next.Add: a worker takes the next target. *)
Take(w) ==
    /\ step = "fetch" /\ pool[w] = 0 /\ targets \ taken # {}
    /\ pool' = [pool EXCEPT ![w] =
                   IF ctx = "cancelled" THEN Done ELSE Least(targets \ taken)]
    /\ taken' = taken \cup {Least(targets \ taken)}
    /\ UNCHANGED <<sinkVars, sharedVars, step, left, st, paged, targets, results, failures>>

Leave(w) ==
    /\ step = "fetch" /\ pool[w] = 0 /\ targets \ taken = {}
    /\ pool' = [pool EXCEPT ![w] = Done]
    /\ UNCHANGED <<sinkVars, sharedVars, step, left, st, paged, targets, taken, results, failures>>

Fetched(w) ==
    /\ step = "fetch" /\ pool[w] \in targets \ Broken
    /\ results' = results \cup {pool[w]}
    /\ pool' = [pool EXCEPT ![w] = 0]
    /\ UNCHANGED <<sinkVars, sharedVars, step, left, st, paged, targets, taken, failures>>

FetchFails(w) ==
    /\ step = "fetch" /\ pool[w] \in targets
    /\ \/ (pool[w] \in Broken \/ ctx = "cancelled") /\ UNCHANGED stops
       \/ Fault("fetch")
    /\ failures' = failures \cup {pool[w]}
    /\ pool' = [pool EXCEPT ![w] = 0]
    /\ UNCHANGED <<sinkVars, config, ids, step, left, st, paged, targets, taken, results>>

-----------------------------------------------------------------------------
(* collectPages, after wg.Wait. *)

AfterPool ==
    /\ IF ctx = "cancelled" THEN DatasetReturns("Canceled") ELSE Goto("emit")
    /\ UNCHANGED <<sinkVars, sharedVars, st, pagesVars>>
Wait == step = "fetch" /\ pool = NoPool /\ AfterPool

EmitPages ==
    /\ step = "emit"
    /\ LET order == InOrder(results)
           pages == [i \in DOMAIN order |-> Page(order[i])]
       IN  \E err \in Queue!Errors :
               /\ Queue!Emit(pages, err)
               /\ IF err = "nil" THEN Goto("advance") ELSE DatasetReturns(err)
    /\ UNCHANGED <<sharedVars, st, pagesVars>>

(* The cursor goes to the last target before the first failure.  Faulty     *)
(* variant: to the last one fetched.                                        *)
AdvanceToFetched ==
    IF results = {} THEN st.page ELSE CHOOSE i \in results : \A j \in results : j <= i
Contiguous == {i \in targets : \A j \in targets : j <= i => j \notin failures}
AdvanceTo ==
    IF Contiguous = {} THEN st.page
    ELSE CHOOSE i \in Contiguous : \A j \in Contiguous : j <= i

SaveCursor ==
    /\ step = "advance"
    /\ st' = [st EXCEPT !.page = AdvanceTo]
    /\ \E err \in Queue!Errors : Queue!PutState(st', err) /\ DatasetReturns(err)
    /\ UNCHANGED <<sharedVars, pagesVars>>

PagesStep ==
    \/ Query \/ Wrap \/ QueryFails
    \/ (\E w \in Workers : Take(w) \/ Leave(w) \/ Fetched(w) \/ FetchFails(w))
    \/ Wait \/ EmitPages \/ SaveCursor
=============================================================================
