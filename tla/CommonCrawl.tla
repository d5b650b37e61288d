------------------------------ MODULE CommonCrawl ------------------------------
(***************************************************************************)
(* The Common Crawl adapter over repeated runs: Collect of                 *)
(* src/internal/source/commoncrawl/commoncrawl.go picks a crawl and then   *)
(* collects the configured datasets one after the other.  The index        *)
(* dataset fills the table from which the pages dataset takes its work,    *)
(* in the same run or in a later one; both draw on one record limit and    *)
(* save the same state.                                                    *)
(***************************************************************************)
EXTENDS CrawlIndex, CrawlPages

VARIABLE newest   \* the crawl that runs work on: the newest, or the configured one

vars == <<sinkVars, sharedVars, step, left, st, indexVars, pagesVars, newest>>

Init ==
    /\ Queue!SinkInit
    /\ config \in Configs /\ newest = 1
    /\ stops = 0 /\ step = "off" /\ left = <<>> /\ st = Start /\ ids = <<>>
    /\ IndexInit /\ PagesInit

-----------------------------------------------------------------------------
(* Collect. *)

StartRun(resume) ==
    /\ Queue!StartRun
    /\ IF resume THEN UNCHANGED stops ELSE Trouble
    /\ step' = "resolve" /\ left' = config.datasets
    /\ st' = IF resume /\ saved # NoState THEN saved ELSE Start
    /\ UNCHANGED <<config, ids, indexVars, pagesVars, newest>>

(* Another crawl starts at its first shard; the cursor of the pages is      *)
(* kept.  Faulty variant: so is the one of the index.                       *)
SwitchedKept(c) == [st EXCEPT !.crawl = c]
Switched(c) ==
    IF st.crawl = c THEN st ELSE [crawl |-> c, shard |-> 0, line |-> 0, page |-> st.page]

CrawlList == [i \in 1..config.listed |-> <<0, 0, i>>]

(* The list of crawls is emitted before the newest crawl is used. *)
Resolve ==
    /\ step = "resolve"
    /\ \E err \in Queue!Errors :
          /\ Queue!Emit(CrawlList, err)
          /\ IF err = "nil" THEN st' = Switched(newest) /\ step' = "dataset"
                            ELSE step' = "return" /\ UNCHANGED st
    /\ UNCHANGED <<sharedVars, left, indexVars, pagesVars, newest>>

ResolveFails ==
    /\ step = "resolve"
    /\ (ctx = "cancelled" /\ UNCHANGED stops) \/ Fault("list")
    /\ step' = "return"
    /\ UNCHANGED <<sinkVars, config, ids, left, st, indexVars, pagesVars, newest>>

(* The loop over the datasets, which looks at the context first. *)
NextDataset ==
    /\ step = "dataset" /\ left # <<>> /\ ctx = "live"
    /\ \/ Head(left) = "index" /\ BeginIndex /\ UNCHANGED pagesVars
       \/ Head(left) = "pages" /\ BeginPages /\ UNCHANGED indexVars
    /\ UNCHANGED newest

DatasetsEnd ==
    /\ step = "dataset" /\ (left = <<>> \/ ctx = "cancelled")
    /\ step' = "return"
    /\ UNCHANGED <<sinkVars, sharedVars, left, st, indexVars, pagesVars, newest>>

Return ==
    /\ step = "return"
    /\ Queue!CollectReturns
    /\ step' = "off" /\ left' = <<>>
    /\ UNCHANGED <<sharedVars, st, indexVars, pagesVars, newest>>

-----------------------------------------------------------------------------
(* The database. *)

Before(q, r) ==
    \/ q[1] < r[1]
    \/ q[1] = r[1] /\ q[2] < r[2]
    \/ q[1] = r[1] /\ q[2] = r[2] /\ q[3] < r[3]

(* INTEGER PRIMARY KEY: the next id to each row that is not there yet.      *)
NewRows(recs) == (recs \cap IndexRows) \ DOMAIN ids
Numbered(recs) ==
    [r \in DOMAIN ids \cup NewRows(recs) |->
        IF r \in DOMAIN ids THEN ids[r]
        ELSE Cardinality(DOMAIN ids) + Cardinality({q \in NewRows(recs) : ~Before(r, q)})]

(* UNIQUE(url, digest): a page whose document is there already is ignored.  *)
RowOf(i) == CHOOSE r \in DOMAIN ids : ids[r] = i
Document(i) == {RowOf(i)} \cup UNION {t \in config.twins : RowOf(i) \in t}
Held(i) == \E j \in paged : Document(j) = Document(i)
NewPages(recs) ==
    LET offered == {i \in Ids : Page(i) \in recs /\ ~Held(i)}
    IN  {i \in offered : \A j \in offered : j < i => Document(j) # Document(i)}

Write ==
    /\ \E n \in 1..Len(backlog) :
          LET recs == Queue!RecsOf(SubSeq(backlog, 1, n)) IN
          /\ Queue!Commit(n)
          /\ ids' = Numbered(recs)
          /\ paged' = paged \cup NewPages(recs)
    /\ UNCHANGED <<phase, ctx, writer, emitted, config, stops, step, left, st,
                   indexVars, poolVars, newest>>

-----------------------------------------------------------------------------
(* The run around it, and the environment. *)

adapterVars == <<step, left, st, indexVars, pagesVars, newest>>

EndRun == Queue!EndRun /\ UNCHANGED <<sharedVars, adapterVars>>
WriteFails == Queue!WriteFails /\ Trouble /\ UNCHANGED <<config, ids, adapterVars>>
Interrupt == Queue!Interrupt /\ Trouble /\ UNCHANGED <<config, ids, adapterVars>>

Crash ==
    /\ Queue!Crash /\ Trouble
    /\ step' = "off" /\ left' = <<>> /\ pool' = NoPool
    /\ UNCHANGED <<config, ids, st, indexVars, paged, targets, taken, results, failures, newest>>

(* A new crawl is published, or configured. *)
NewCrawl ==
    /\ newest < config.lastCrawl
    /\ newest' = newest + 1
    /\ UNCHANGED <<sinkVars, sharedVars, step, left, st, indexVars, pagesVars>>

CollectStep ==
    \/ Resolve \/ ResolveFails \/ NextDataset \/ DatasetsEnd \/ Return
    \/ IndexStep /\ UNCHANGED <<pagesVars, newest>>
    \/ PagesStep /\ UNCHANGED <<indexVars, newest>>

Next ==
    \/ \E resume \in BOOLEAN : StartRun(resume)
    \/ CollectStep \/ EndRun \/ Write \/ WriteFails \/ Interrupt \/ Crash
    \/ NewCrawl

Spec == Init /\ [][Next]_vars

(* The collector is started again and again with --resume, and within a run *)
(* its goroutines go on.                                                    *)
FairSpec ==
    /\ Spec
    /\ SF_vars(StartRun(TRUE)) /\ WF_vars(CollectStep)
    /\ WF_vars(EndRun) /\ WF_vars(Write)

-----------------------------------------------------------------------------
(* Every variable holds a value of its type. *)
TypeOK ==
    /\ Queue!SinkType
    /\ config \in Configs /\ newest \in Crawls /\ stops \in 0..config.maxStops
    /\ step \in {"off", "resolve", "dataset", "loop", "open", "scan", "flush", "last", "broken",
                 "checkpoint", "abort", "mark", "save", "query", "fetch", "emit", "advance",
                 "return"}
    /\ left \in Seq({"index", "pages"}) /\ st \in StatesOf(config)
    /\ DOMAIN ids \subseteq IndexRows /\ \A r \in DOMAIN ids : ids[r] \in Ids
    /\ done \in 0..config.maxShards
    /\ skip \in 0..config.lastLine /\ lines \in 0..config.lastLine /\ flushed \in 0..config.lastLine
    /\ batch \in Seq(IndexRows) /\ Len(batch) <= config.batchCap
    /\ paged \subseteq Ids /\ targets \subseteq Ids /\ taken \subseteq targets
    /\ pool \in [Workers -> 0..Done]
    /\ results \subseteq targets /\ failures \subseteq targets

(* The rows of a shard: the lines that parse and that no stream cuts.  The  *)
(* row of a line that was cut is lost, see section 6 of the README.         *)
Wanted(c, s) ==
    {<<c, s, l>> : l \in {k \in 1..config.lastLine : <<s, k>> \notin config.malformed}}
        \ config.cut

(* "cannot ... skip them" (docs/configuration.md:121), but for a line that  *)
(* a broken stream has cut: every other line that parses and lies before    *)
(* the saved position is in the database, so that resuming leaves no hole;  *)
(* and every row that the pages cursor has passed has the page of its       *)
(* document.  Truncated, refused and lost batches, streams that break, also *)
(* within another line, and pages fetched in any order included, whichever  *)
(* dataset saved the state.                                                 *)
CursorsCovered ==
    saved # NoState =>
        /\ \A s \in Shard : s < saved.shard => Wanted(saved.crawl, s) \subseteq rows
        /\ \A r \in Wanted(saved.crawl, saved.shard) : r[3] <= saved.line => r \in rows
        /\ \A i \in Considered : i <= saved.page => Held(i)

(* A shard recorded as completed is in the database whole, but for lines    *)
(* that a broken stream has cut, though its lines may have come from        *)
(* several runs.                                                            *)
ShardRowMeansWhole ==
    \A c \in Crawls, s \in Shard : ShardRow(c, s) \in rows => Wanted(c, s) \subseteq rows

(* Again and again runs have got through the whole of the newest crawl,     *)
(* though each is cut by its limits, and some are stopped or fail; only the *)
(* lines that a broken stream has cut may be missing in the end.            *)
Ingested(c) == \A s \in Shard : Wanted(c, s) \cup {ShardRow(c, s)} \subseteq rows
IndexIngested == []<>(config.datasets[1] = "index" => Ingested(newest))

(* "it can be run repeatedly to work through the index"                     *)
(* (docs/configuration.md:125): again and again, every document of the      *)
(* index that can be fetched has been, although some runs are stopped or    *)
(* fail, and rows of documents that are there already come up in every      *)
(* pass.                                                                    *)
Fetches == \E n \in DOMAIN config.datasets : config.datasets[n] = "pages"
WorksThroughIndex == []<>(Fetches => \A i \in Considered \ Broken : Held(i))
=============================================================================
