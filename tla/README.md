# A TLA+ model of the MassD collector

MassD (`src/`, Go) collects public datasets into SQLite.  A *source adapter*
acquires and parses records, a bounded queue carries them to a single writer
goroutine, and the writer commits them in batches together with the adapter's
resume state.  This directory holds TLA+ modules for that system, the TLC
configurations that check them, and TLAPS proofs.

## 1. Inventory

| Component | State it keeps | Operations | Talks to | What makes it correct |
| --- | --- | --- | --- | --- |
| Run lifecycle, `internal/collect/runner.go` | the run's row in `_runs`, the context, the error of Collect | startRun, LoadState, Collect, close, the status switch, finishRun | database, pipeline, adapter | a run reported as completed or cancelled lost nothing; every run that returned is recorded |
| Pipeline, same file | channel of `QueueSize` messages, `done`, `writeErr`, `emitted`, counters | Emit, PutState, send, close, drain | adapter goroutines, writer goroutine | order kept, limit never exceeded, no Emit blocked for ever |
| Writer, `internal/db/writer.go` | record buffer, pending state, statement cache | Add, SetState, Flush | SQLite | records and the state that covers them become durable together |
| Saved state, `internal/collect/state.go`, `internal/source/source.go` | `_source_state` | LoadState, SaveState, ClearState, LastRuns | writer, adapters | a resumed run repeats work, never skips it |
| CLI, `cmd/collector` | context, signal handler, list of targets | run, migrate, status, sources | everything | first SIGINT ends runs cleanly, second one kills |
| Migrations, `internal/db/db.go` | `_migrations` | Open, Migrate, Checkpoint | SQLite | a crash or a second process never half-applies a schema |
| HTTP client, `internal/fetch` | semaphore, token buckets | Do (retries, backoff, Retry-After), acquire, release, limiter | remote hosts, adapters | slots never leak, retries bounded |
| GDELT adapter, `internal/source/gdelt` | `last_stamp` | discover, filter, prefetch, ingest | HTTP, pipeline | no file skipped on resume |
| RSS adapter, `internal/source/rss` | validators per feed | worker pool, conditional GET, checkpoints | HTTP, pipeline | no item lost behind a validator |
| GitHub adapter, `internal/source/github` | repository cursor, events ETag, details cursor | repositories, events, repo_details, rate limit | HTTP, database, pipeline | cursor never ahead of rows |
| Common Crawl adapter, `internal/source/commoncrawl` | crawl, shard, line, pages cursor | index shards, pages | HTTP, database, pipeline | line offset never ahead of rows, never moves back |
| Synthetic source, `internal/source/testsrc` | sequence number | batches, checkpoints | pipeline | every number of the sequence is produced |
| Parsers: `warc`, `htmlx`, `rss/parse.go`, `gdelt/parse.go` | none | pure functions | adapters | bounded output |
| Config, flags, registry, statistics | values read once | parse, merge | CLI | command line over file over default |
| Export, `scripts/export.py` | none | stream tables to JSONL | SQLite | `--limit`, incremental export |

Interaction in one paragraph: `cmdRun` starts the sources one after the other;
`Run` inserts the row of `_runs`, loads the saved state, starts the writer
goroutine and calls the adapter's `Collect` with an environment.  The adapter's
goroutines fetch through the shared HTTP client and hand batches and states to
the same queue.  The writer flushes a full batch, on a tick, and when the queue
is closed, rows and newest state in one transaction.  A first SIGINT cancels
the context everybody selects on, a second one ends the process.

The behaviours that are hard, most of them listed at their lines under `hazards`
in `PROJECT.json`: goroutines that share a queue and a budget; a writer that fails
while others are blocked on it; positions that must never pass what they stand
for although pages, files and feeds finish in any order; interrupts and crashes
between any two steps; resuming, repeatedly, from what was saved.

## 2. Modules

| Module | What it is | Built on |
| --- | --- | --- |
| `Ingest` | abstract specification: a log whose durable part changes by whole prefixes | |
| `Pipeline` | Run, queue, Emit, writer, database, over several runs | refines `Ingest` |
| `PipelineProofs` | theorems about `Pipeline` | extends `Pipeline` |
| `Writer` | the writer statement by statement, behind an adapter that uses one batch buffer again and again | |
| `Sink` | what an adapter sees of a run, on top of the log of `Ingest` | extends `Ingest` |
| `GdeltSource` | the GDELT adapter over several runs | instantiates `Sink` |
| `Prefetch` | the goroutines that download ahead in the GDELT adapter | |
| `Gdelt` | the loop of the GDELT adapter on the channel of its goroutines | extends `GdeltSource`, instantiates `Prefetch`, refines `GdeltSource` |
| `RssSource` | the RSS adapter over several runs | instantiates `Sink` |
| `CrawlState` | what the two datasets of the Common Crawl adapter share | instantiates `Sink` |
| `CrawlIndex` | its index dataset | extends `CrawlState` |
| `CrawlPages` | its pages dataset | extends `CrawlState` |
| `CommonCrawl` | the Common Crawl adapter over several runs | extends `CrawlIndex`, `CrawlPages` |
| `GithubSource` | the GitHub adapter with its three datasets over several runs | instantiates `Sink` |
| `FetchClient` | the HTTP client with its slots and token buckets | |
| `Collector` | processes of the program (`run`, `migrate`) on one database file | |
| `SinkLemmas` | lemmas about the log of `Sink`, for the proofs about the adapters | extends `Sink` |
| `GdeltProofs`, `RssProofs`, `GithubProofs`, `CrawlProofs` | theorems about the adapters, for GDELT with its goroutines | extend `Gdelt`, `RssSource`, `GithubSource`, `CommonCrawl`, instantiate `SinkLemmas` |
| `FetchClientProofs` | theorems about `FetchClient` | extends `FetchClient` |
| `DatabaseProofs` | theorems about what `internal/db` leaves in the file | extends `Collector` and `Writer` |

The `MC*` modules only define the constants of the runs.  The composition goes
through `Ingest`: `Pipeline` shows, with all interleavings, that the queue and
the writer are such a log (`ImplementsIngest`, proved), and the adapters run
against that log with `Emit` and `PutState` as single steps.  Their own
goroutines interleave in their own modules.  `Writer` opens the one step that a
flush is in `Pipeline`, and `Collector` has the whole process around a run, of
which it keeps only the rows, the batches and the commits.

### Pipeline

Every goroutine has a program counter: `phase` for Run, `pc[e]` for an emitter,
`wpc` for the writer.  `EmitBegin` is the part of `Emit` up to the `select`:
`Charged` is the atomic add, `Overdraws` and `Room` the test after it, `Admitted`
the truncation.  `Send`, `SendStopped` and `SendCancelled` are the branches of the
`select` in `send`; `EmitEnd` counts what was fetched and returns `ErrLimit`.
`Receive` is `SetState` and `Add`, `Tick` the ticker, `QueueClosed` the closed
channel; each leads to `FlushCommit` or `FlushFail`.  `FlushFail` sets `writeErr`
and starts the drain that follows.  `CloseQueue` and `FinishRun` are the end of
Run, with `FinalStatus` its status switch.  `Interrupt` is the first signal and
`Crash` the second one, or any other end of the process.

A record is the key that makes its row unique, in a table that ignores a second one
or (`Replaced`) in one that replaces the row.  A replaced row counts as inserted each
time, so the writer also counts the records of the second kind (`nrepl`), and
`Affected` is what `RowsAffected` adds up to.  A batch is a *set* of records,
since no property depends on the order inside one; how truncation chooses is
`\E kept \in Admitted(recs)`.  A state is the set of records it covers: the
adapter's contract (`source.go`) is to save a state only once Emit has returned
nil for what it covers, and `PutStateBegin` lets it save any such state.

### Sink and the adapters

`Sink` keeps of a run whether it is collecting or closing, whether the context
is cancelled, whether the writer has given up, and the budget.  An adapter
conjoins `Queue!Emit(batch, err)` or `Queue!PutState(state, err)` with its own
part of the step, for each `err` the sink may return at that moment.  The
local variables of `Collect` are lost when the run ends; `rows` and `saved` stay.

* `GdeltSource`: a file is a pair of a stamp and a dataset.  `Discover` is
  `discover` followed by `filterFiles` (`Selected`, `Capped`); `TakeJob`,
  `AlreadyCollected`, `IngestBatch`, `IngestLast`, `IngestBroken`, `GiveUp` and
  `SaveState` are the body of the loop, which here takes the first file that is
  left.  The server publishes files between any two steps.
* `Prefetch`: the feeder, one download goroutine per job and the relay, with the
  two channels as sequences.  A cancelled context makes every select and every
  download free to give up.  Each step has its guard as an operator of its own
  (`MayOffer`, `RelayMayEnd`); `Awake` says that one of them holds.
* `Gdelt`: the same loop with the next file, its error and the end of the range
  decided by `Prefetch`.  The goroutines outlive Collect until they end or the
  process does (`NewProcess`).  `ImplementsSource` says that each step is one of
  `GdeltSource` or a stutter, so that what is checked there holds here.
* `RssSource`: the feeder's read of the map and its offer of the job are two
  steps, and so are the gathering loop's receive and its write of the map;
  `Racing` says that both hold the map.  `EmitStopped` and `SendOnClosed` are the
  outcomes of an Emit once Run has closed the queue.
* `CrawlState`, `CrawlIndex`, `CrawlPages`, `CommonCrawl`: `config` holds the
  configuration of all runs, the size of the crawls and the lines inside of which a
  stream may break (`cut`).  `CommonCrawl` starts the
  run, goes through the datasets and gives an index row the id it gets in the
  database.  In `CrawlIndex` `ReadLine`, `PassLine`, `Flush`, `SaveCheckpoint`,
  `Rewind`, `Abort` and `EndOfShard` are the branches of `ingestShard`; `ReadFails` is a
  stream that breaks between two lines, `CutLine` one that breaks inside of a line, of
  which the scanner still hands out the first part; `Mark` and
  `SaveShard` those of `collectIndex`; `Resolve` is `resolveCrawl`.  Line 0 of a
  shard stands for its row in `commoncrawl_shards`.  In `CrawlPages` `Query` reads
  the database at that moment, so it sees what was flushed; `Take`, `Fetched` and
  `FetchFails` are steps of the workers; `EmitPages` computes the cursor of the
  first failure and emits one batch, of which the database ignores the pages whose
  url and digest it has (`twins`).
* `GithubSource`: `st` is the state that all datasets share; `Leave(err)` is what
  `Collect` does with the error of a dataset.  `GetRepositories` moves the cursor
  in memory before `EmitPage`, as the code does, and `GetEvents` sets the ETag with
  the first page.  `Query`, `Take`, `Answered`, `QueryFails` and `Wait` are the pool
  of `repoDetails`, in which a worker whose query fails leaves; `EmitChunk` and
  `SaveDetails` are the loop after it.  `Paused` is `respectRateLimit`.
* `FetchClient`: `TakeToken` and `Send` are `acquire`, the outcomes of an attempt
  are `Transient`, `Permanent` and `Success`, `Retry` is the end of a pause, and
  `Close` may be called twice.  Time is counted in tokens.

### Writer

The adapter fills its buffer (`Fill` writes over what an earlier batch left),
emits a copy of it (`CopiedBatch`) and saves states.  A flush is `Begin` (`Group` is
`group`), one `InsertChunk` per statement, and `CommitFlush` with the state; `Fail` is an
error of any of them, after which the transaction is rolled back and the writer
is done.  The transaction works on `work`, and `tables` changes with the commit.
`OneByOne` is the reference: the emitted records inserted one after the other.
`group` and the database's conflict clauses are recursive functions over sequences
(`Those`, `Order`, `RowsAfter`).

### Collector

A process opens the database, migrates, and for `run` goes through its targets:
the row of `_runs`, batches that are counted and committed, the final row, the
exit status.  Processes share the write lock and the ledger of migrations, which
each reads before it takes the lock.  `disk` is the part of `database` that a
power failure leaves, any prefix of the commits since the last one that is safe.
`Interrupt` is the first signal, `Kill` the second one or any other end.

## 3. Runs

| Run | Question | Outcome |
| --- | --- | --- |
| `pipeline` | two emitters, two runs, a queue of one, records of a table that ignores and of one that replaces, every database fault, interrupt and crash at any step, a limit of two records | state covered, nothing acknowledged is lost, the limit is exact, `ImplementsIngest`; a blocked Emit returns, an interrupted run ends, slow work is flushed |
| `gdelt` | two datasets, two stamps, both modes, windows, a limit, every fault | a recorded file is whole; the saved stamp is that of a recorded file; a clean run is complete |
| `gdelt_prefetch` | backfills of four of six files with the goroutines of prefetch, one interrupt or crash | the whole implements `GdeltSource`; files in order and none too early, downloads bounded, no goroutine left behind; resumes at the right file; everything published is collected, unless the stop has left the backfill stalled |
| `gdelt_backfill_gap` | two datasets share a stamp | **violated**, see section 6 |
| `writer` | three kinds of tables, batches from one buffer, groups and chunks, a failure at each statement | the database is what inserting one by one would have left, and the counters are exact |
| `fetch` | three workers, two slots, no rate, one bucket or one per host, retries and double Close | no slot leaks, the long-run rate holds, calls return |
| `commoncrawl` | the index alone on two crawls of two shards; the same on one crawl with two lines that a broken stream may cut; the index followed by the pages, two workers, a broken document, one that both crawls have | no saved position passes what is missing, but for the cut lines; the whole index but these is ingested; its pages are worked through |
| `github` | three datasets, two workers, two pages, three chunks, a repository that is gone, a limit, faults | no saved position covers what is missing, whichever dataset saves it; every repository gets its snapshot |
| `collector` | two processes, on a database that is new, old or up to date, interrupts, a kill, a power failure, a failing statement | the schema is whole, what survives is consistent, `running` is honest, and the exit status about the targets that were taken; an interrupted process ends |
| `rss` | two workers, two feeds, updates, faults | without a limit or a broken document no ETag hides an item; nobody waits for ever |
| `rss_race` | three feeds | **violated**, see section 6 |
| `rss_etag` | a record limit | **violated**, see section 6 |

Each module has a `TypeOK`.  Only that of `Pipeline` is an invariant of a run; those
of `FetchClient`, `Collector` and the four adapters are proved (for `RssSource` and
`Collector` in a stronger form, `Typed`), and the others say what their variables
hold.

### Bounds

* `pipeline`: one slot in the queue makes every send block in some behaviour;
  `BatchSize = 2` with batches of one and two records gives flushes below, at and
  above the batch size; a limit of two records is crossed by each emitter and by
  both at once, with room for one record of a batch or for none, and when there
  is room for one, either record of the batch may be the one that is kept.
  `MaxRuns = 2` is what resuming needs.  `MaxCalls = 3` counts the calls of both
  runs: three in the first one are what it takes to block an emitter on a queue
  whose writer has died, the first message taken, the second one in the queue;
  two and one are what it takes to resume behind a failed run.  Records of
  internal tables, which the limit does not count, do not occur in the run; the
  proofs have them.
* Adapters: `MaxStops` counts interrupts, crashes and (in the Common Crawl modules,
  `GithubSource`, and for the writer in `RssSource`) failures, and a start with
  `--resume=false` in the Common Crawl and GitHub modules.  The budget makes the
  fault a thing that can happen at each place and, with a second one, during the
  recovery of the first (`commoncrawl`, `github`), and lets liveness be stated for
  systems whose faults end.  It never restricts the adapter itself.
* `gdelt`: two stamps with two datasets is the least that has a border between
  files of a stamp and one between stamps; three rows in batches of two give a full
  and a partial batch.
* `gdelt_prefetch`: two slots per channel; four files per run of six published
  ones fill the channel of jobs and leave a file for the feeder, and make the cap
  bind, so that the next run has to go on behind it.  Six are also what it takes to
  stall behind the first one with a file that is not collected: without `Stalled`,
  TLC finds `EventuallyCollected` violated in this run.
* `commoncrawl`: four lines with checkpoints every three and batches of two: a
  position can be in front of, at, and behind each border.  In the second
  configuration the third line of the first shard, at the checkpoint and between two
  others, and the last one of the second shard may be cut.  The third
  configuration has the two datasets on two crawls of one shard with two lines; its
  `page_batch` of three is more than the rows that never get a page (section 6).
* `collector`: the first process runs two sources, so that one may fail before the
  other; the second one migrates, or runs one of them with `--reset`.  Two versions
  leave a database between them.  Two starts in all: a process that starts after
  the end of the other is a restart, one before it is concurrency.  One batch and
  one piece of trouble (a fault, a kill, a power failure) at any place; interrupts
  are not counted.
* `writer`: a batch of two written over one that is still in the queue or the
  buffer; three records fill the buffer, which gives one or several groups, two
  chunks for a table of two columns, one for a single column; a cache of
  two statements is emptied in the middle of a flush.
* `github`: three repositories in pages of two and chunks of one, so that a page is
  full or not, a worker may fail, and leave the last chunk unasked; repository 2
  is gone, between two that are not; two records per run, a page of repositories, leave
  nothing of the limit for the events or cut the snapshots (a limit below a page is
  another matter, see section 6).  A snapshot never becomes old: all runs lie within
  `refresh_after` of each other.
* `fetch`: two hosts, so that workers share a bucket or do not; `MaxCalls` is one because a worker
  that calls again is like a further worker; `MaxTicks` ends the count of time,
  not the tokens.

### Fairness

* `Pipeline` and the adapters: weak fairness of the steps of each goroutine,
  which the Go scheduler gives to a goroutine that can run; strong fairness of
  `Send`, because a channel serves its blocked senders first in, first out; the
  ticker fires.  Nothing is assumed about interrupts, faults, crashes or what the
  emitters do next, except that an adapter returns in the end once it was
  cancelled.
* "Again and again": the eventual-collection properties assume strong fairness
  of `StartRun(TRUE)`, that is, somebody (a timer, an operator) starts the
  collector repeatedly and not only with `--resume=false`.
* `Gdelt`: weak fairness of the loop and of each goroutine, strong fairness of the
  start of a run.  `Collector`: weak fairness of the steps of each process, and of the
  return of Collect once the context is cancelled, which is what `Pipeline` shows.
* `Prefetch`, `FetchClient`: a download ends, because each attempt has a timeout
  and attempts are bounded; callers close their bodies.  Waiting for a slot is
  first in, first out (strong fairness of `Send`); the limiter has no queue and
  gets weak fairness only.

## 4. Proofs

Each theorem holds for every value of the constants: any number of emitters,
feeds, files, workers, processes, migrations and runs, any sizes and limits, and
whatever `Faults` has in it.  What the runs of section 3 find in an instance,
the theorems below say of all of them.

| Module | Theorem | States |
| --- | --- | --- |
| `PipelineProofs` | `TypeCorrect` | `Spec => []TypeOK` |
| | `ResumeIsSafe` | `[]StateCovered`: the durable state covers durable rows only |
| | `ReportIsHonest` | `[]AckedIsDurable`: a run recorded as completed or cancelled lost nothing |
| | `Refinement` | `Spec => ImplementsIngest`: the pipeline implements the abstract log |
| | `RecordsColumnIsExact` | `[]RecordsColumn`: the count of a run that did not fail is the rows it added to tables that ignore duplicates, and each record it wrote to one that replaces |
| | `LimitIsKept` | `[]LimitIsExact`: emitters that charge the limit at once never pass it together |
| `FetchClientProofs` | `SlotsAreExact` | `[]SlotsExact`: no slot leaks, none is given back twice |
| | `RateIsKept` | `[]LongRunRate`: at most the burst and a request per tick, retries included |
| `DatabaseProofs` | `SchemaNeverHalf` | `[]SchemaIsWhole`: the schema is that of the recorded versions, which have no gap |
| | `NewestSchema` | `[]CollectsOnNewestSchema` |
| | `NothingRecordedIsLost` | `[]RecordsSurvive`: also in what a power failure leaves |
| | `NoStaleRunning` | `[]RunningIsLive` |
| | `ExitTellsTheTruth` | `[]ExitIsHonest`: an error exactly if a target that was taken has failed |
| | `WriterLikeOneByOne` | `WriterSpec => []LikeOneByOne`: groups, chunks and prepared statements leave what single insertions would |
| | `WriterCountersExact` | `[]CountersExact`: a committed record changed a row or counts once as a duplicate, and which it is |
| `GdeltProofs` | `FileRowsVouch` | `[]FileRowMeansWhole`: a file that is skipped as collected is whole |
| | `SavedStampIsSafe` | `[]SavedStampCollected` |
| | `SuccessIsComplete` | `[]CleanRunIsComplete` |
| | `Refinement` | `GSpec => ImplementsSource`: with goroutines and channels, the adapter implements `GdeltSource` |
| | `DataIsReady` | `[]NoEarlyRead`: a download is over before its job is read |
| | `DownloadsAreBounded` | `[]DownloadsBounded`: at most `Workers + 1` downloads at once |
| | `NobodyIsLeftBehind` | `[]NoneLeftBehind`: after Collect, the goroutines never wait for each other or for it |
| | `BackfillResumes` | `GSpec => []ResumesAtTheRightFile`, for a backfill of one dataset in which no file fails |
| `RssProofs` | `NoFeedIsPassedOver` | `[]EveryFeedGathered` |
| | `EtagsVouch` | `[]EtagCovered`, if no limit cuts a batch and no document is broken |
| `GithubProofs` | `CursorIsSafe` | `[]RepositoriesCovered`: whichever dataset saves the cursor |
| | `EtagIsSafe` | `[]EtagCovered` |
| | `DetailsAreComplete` | `[]DetailsCovered`: though chunks fail, and others are never asked for |
| `CrawlProofs` | `PositionsAreSafe` | `[]CursorsCovered`: no hole behind the saved line but for lines inside of which a stream may break, nor behind the saved page cursor |
| | `ShardRowsVouch` | `[]ShardRowMeansWhole`: though the lines come from several runs; but for the same lines |

`TypeCorrect` is a theorem of each of these modules.  Every invariant that a passing run
checks is among the properties above.

### Assumptions

They are the named `ASSUME`s of the modules, which TLC evaluates on every run:
sizes and bounds are numbers, positive where the code makes them so (a queue of
`QueueSize`, a `page_batch`); records, emitters and workers are finitely many; a
client has a host to talk to, and a pool of workers a worker, since the code starts
at least one; what a source is collected into, `NoState` (no row of
`_source_state`), is not itself a state.  `EtagsVouch` has two hypotheses,
`MaxRecords = 0` and no broken document: `rss_etag` shows that the first one is
needed, and section 6 says why the second is.  `BackfillResumes` has the hypothesis
`Backfill`: at most one dataset, only backfills, none of which starts later than the
first stamp, no limit, and no download or archive that fails.  The listing, the query
and the flushes may fail, and the cap and the upper end of the window are free.
`gdelt_prefetch` checks an instance of it, `gdelt_backfill_gap` shows that two datasets
are too many, and section 6 what a failed download or a broken archive does.
`config.cut` may be any set of lines.  Since nothing else depends on it, the theorems of
`CrawlProofs` say for each line that it is not lost unless a stream breaks inside of it.

### The pipeline

`StateCovered` is not inductive: it speaks of the database, and a flush copies
the buffer and the pending state there.  The invariant `IInv` adds, in named
parts, what makes the flush safe:

* `Lifecycle` and `WriterOrder`: which program counters go together, so that
  between runs nothing is on its way, and a writer that left without an error
  left through an empty, closed queue;
* `Coverage`: the pending state covers rows and buffer only; the state in
  message *k* covers what is ahead of or in message *k* (`Reached(k)`); what an
  adapter believes to be covered has reached the queue.  The conjuncts hold while
  the writer is alive: behind a dead one the rest is drained;
* `Durability`: what was acknowledged is durable or still on its way, and the
  newest acknowledged state is the newest on its way;
* `Buffered`: the buffer and the pending state are the fold of the messages
  taken since the last commit, which the refinement mapping
  (`backlog <- taken \o ch` while the writer is alive, empty after) needs.

Each part has a lemma for the step, with one case per action, on top of lemmas
about messages and prefixes (`ReachedSend`, `ReachedReceive`, `ReachedCommit`,
`LastStateAppend`).  The refinement maps `Send` to `Accept`, `FlushCommit` to
`Commit` of all taken messages, `FlushFail` and `Crash` to `Lose`, the reset before
a run to `Clear`, and everything else to a stutter.

The counts need more beside it: `RowsCounted` says, of tables that ignore, that the
rows the running run found and those it counted make up the rows there are, and, of tables that replace, that the
records received are counted or still in the buffer; and `Metered` that what is
fetched and what emitters hold between the charge and the end of the send is what
was charged within the limit, less what refused sends have lost.

### The client and the processes

`FetchClientProofs`: `sem` is the number of *holders*, the workers between `acquire`
and the first `Close` (`SlotsHeld`).  The tokens of a bucket, those used and those
in the hands of workers that wait for a slot are together at most the burst and
the ticks (`TokensBounded`): without the last ones the sum is not inductive, as a token
is taken before the slot is waited for.

`DatabaseProofs`: a process works on a ledger that it read before it had the
lock.  `Migrating` says what is left of that knowledge: what the process takes for
applied is an initial part of the versions and still recorded, and its open
transaction is that of the next one.  `Held` ties each process to the row of its run,
which nobody else has; `Progress` and `Honest` follow the targets and their outcomes;
`ContentOK` says of `database` and of `disk` alike that runs and states are covered by
batches, and what a process knows of the batches it has written.

### The writer

`LikeOneByOne` compares the database with a fold over the emitted records, and a flush
does not follow their order: it goes table by table, each in chunks.  The invariant
`Ledger` says at every statement what `work` is: each table that is done has the rows
after all records of the flush, the table in hand those after the chunks it has
inserted, and each other table those of before (`InTransaction`).  `Buffered` and `Queued` tie buffer,
queue and pending state to the emitted records that follow the committed ones, and
say that the adapter's buffer, used again, is not part of them.  For the counters the
invariant has the set of positions whose records are inserted so far: their number is
`inserted + duplicates`, and the duplicates are those of them with an earlier record of
the same key.

What the recursive functions compute is proved by induction over a length, from the fact
that a set of numbers has a least element (`LeastNumber`, `Induction`), which
`WellFoundedInduction` states without an operator parameter.  The lemmas are those a
reader would expect: what `Those` keeps of a concatenation, that the groups of `Order`
are the tables of a sequence without repetition, and that inserting two sequences one after the
other is inserting their concatenation, to any rows and with any conflict clause.

### The adapters

All adapters save a position and may be stopped between any two steps, so their
theorems have one argument.  `Sink` keeps the messages that are accepted and not
durable in `backlog`; a crash or a failed flush leaves any prefix of them.  An
invariant of the database must hold after *every* prefix: `SinkLemmas` calls a log
*sound* for a set `Good` of sets of records and a relation `Covers` of states and
sets of records, if each prefix leaves a good set and each state, when it becomes
durable, is covered by what is then durable.  `EmitKeeps`, `PutStateKeeps`,
`WriteKeeps` and `LoseKeeps` say what an adapter has to show so that its log stays
sound: that a batch it emits, cut at any place, leaves a good set (`EmitKeeps`), and
that a state it saves is covered by all that it has handed over so far
(`PutStateKeeps`).  Each adapter chooses the two, and its own invariant says where
its position stands against `All`, the records handed over:

* GDELT (`Whole`, `Stamped`): a set is good if a file's row comes with all rows of
  the file; between two batches of a file all earlier rows are in `All`.  For a
  backfill (`Passed`) a stamp is covered only by the rows of *all* files up to it:
  the selection leaves out no file below one it keeps (`SelectsInOrder`), so that each
  file before one that is left is left too or in `All` (`Behind`), and a file is given
  up only in a run that ends or behind a dead writer (`Unlimited`).
* RSS (`Vouching`): a state is covered if for each feed the items of its version are
  there.  An ETag goes from the map to the feeder, a worker, the results and back to
  the map; at each of these places the items are in `All`.  `Counted` says that each
  feed is still to be offered, with a worker, on its way to Collect, or gathered.
* GitHub (`NoGap`, `InHand`, `Asked`, `Emitted`): the cursor of the repositories is
  ahead of the rows from the answer of a page until it is emitted, and the
  dataset that fails there ends the run, so that nobody can save it.  The cursor of
  the details stops before the first chunk that failed or was not asked for;
  `NoGap` says that behind it only repositories without a need for a snapshot are
  between the targets, and `Chunking` that the chunks taken are the first ones.
* Common Crawl (`Whole`, `Covered`): a set is good if a shard's row comes with all its
  lines and a page with a numbered row; a state is covered if the lines behind its
  position are there, and for each row behind its page cursor a page of the row's
  document.  What is good and covered depends on the ids that the rows have, and a
  commit gives out new ones: `Numbering` says that they go on from the old ones
  (`NumberedIs`), so that the old promises still hold (`PromisesStay`), though the
  cursor counts ids.  `Scanned` relates the lines read, flushed and skipped to
  `All` and the batch, `NoGap` the cursor to the targets, and `Asked` the targets to
  what the workers have done.  The database ignores a page whose document it has, so
  that the cursor may pass rows that have none themselves; `OnePerDocument` says
  that one page of each document is kept.
* The goroutines of GDELT (`AheadInv`): what Collect still has to do is in the second
  channel, with the relay, in the first channel or with the feeder, each file once and
  in order (`Feeding`, `FilesInOrder`), so that each step of the composition is one of
  `GdeltSource` or a stutter.  A download runs only while its job is in the first
  channel or with the relay (`Downloads`), which bounds them.  What is in the first
  channel or with the relay has been started, and so finishes (`Awaited`), and
  Collect returns nil in a run that goes on only after the relay (`AfterRelay`); with a
  cancelled context no select blocks, so that someone is awake until all have ended.

Each inductive invariant also held in a run of TLC on a small instance, before it
was proved.

### Only model-checked

* Every liveness property: fairness and ENABLED are out of the prover's reach.  That
  `Awake` is the same as ENABLED of the goroutines can be read off `Prefetch`, where
  each step is its guard and assignments; TLC confirms it on an instance.
* `ResumesAtTheRightFile` outside `Backfill`, where it is false, and `MapHasOneUser`,
  which is false: see section 6.

## 5. What is left out, and why

* In `Pipeline`: the counters of errors and duplicates and the rows of `_errors`
  as such (an internal record stands for them); what happens inside a
  transaction, which is the subject of `Writer`.  In `Sink`, Emit is one step;
  `Pipeline` has its interleavings.
* In `Collector`: which records a batch has, and what the adapters do.
* In `FetchClient`: header values, the length of pauses, body limits.  An attempt
  ends with one of three outcomes.
* The link header, the GDELT, RSS and Atom parsers, WARC and HTML, and the Common
  Crawl index line: pure functions from bytes to a record or an error, without
  state.  What the adapters do with the error is modelled.
* Configuration and the merge of flags and file: read once, before anything else
  starts; the values are constants.  `status`, `sources` and `version` only print.
* `scripts/export.py`: one thread that reads a finished database.  The build
  definition of the continuous integration.

## 6. Where code and documents disagree

* `gdelt_backfill_gap`: "state advances one file at a time, so an interrupted
  backfill resumes at the right file" (`docs/configuration.md:78`).  The state is
  a stamp, which files of several datasets share: after the first of them it is
  saved (`gdelt.go:91`), and `filterFiles` (`gdelt.go:195`) drops the others in
  the next run.  With one dataset the property holds (`gdelt_prefetch`,
  `BackfillResumes`).
* `rss_race`: the comment at `rss.go:117` says that the map of feed states is
  only touched by the gathering goroutine; the feeder reads it at `rss.go:109`
  for each job.
* `rss_etag`: "Each transaction contains a batch of records *and* the state
  update that covers them" (`docs/architecture.md:74`); a feed whose batch was
  cut by `--max-records` has its new validators saved all the same, and the cut
  items are never offered again.  The same happens when the body does not parse;
  `rss` is checked without both and finds no third way.

Met while modelling and not stated by a run:

* `Collect` of RSS returns on a failed `SaveState` (`rss.go:124`) while workers
  run; one that then sends on the closed queue panics.  `SendOnClosed` is fired in `rss`.
* A GDELT file that fails to download is passed over, and the stamp of the next
  file hides it from later runs (`gdelt.go:76`, `gdelt.go:195`).
* A stream of the index that breaks inside of a line loses the row of that line.
  `bufio.Scanner` hands out the part before the break before it reports the error;
  `lines++` counts it (`commoncrawl.go:261`), it does not parse and is passed
  (`269-272`), the flush on the error path sets `flushed` to it (`242-250`, `292`),
  and `abort` saves that line, which the next run skips (`262`).  The shard is later
  marked as completed without the row.  `docs/configuration.md:121` says that resuming
  "cannot duplicate rows or skip them".  `CursorsCovered`, `ShardRowMeansWhole` and
  `IndexIngested` leave such lines out (`Wanted`); without that exception TLC finds
  `CursorsCovered` violated in the second configuration of `commoncrawl`.
* The `records` column counts each record written to a table that replaces, also when
  its row was there before (`writer.go:148-150`; `rss.go:183`, `gdelt.go:328`,
  `commoncrawl.go:149` and `191`): a second run over the same feeds may report records although it
  has added no rows.  `RecordsColumn` says what the column is.
* A backfill of GDELT with `max_files` can stall.  A file that is collected already is
  passed over without advancing the state (`gdelt.go:80-83`); when as many as
  `max_files` of them lie right behind the saved stamp, each run selects the same ones
  and no other.  They come to lie there when a run is stopped between the commit of a file's row
  and that of its stamp, once per file (so with `max_files` of 1 a single crash
  suffices), or when a run with `--resume=false` is cancelled during the query for a file it has:
  the query fails, the file is taken in again and its old stamp is saved.
  `EventuallyCollected` excepts this state by name (`Stalled`) and says that it is the only way
  and needs a stop.
* An interrupt that leaves out targets of `run` ends the program with the status 0
  unless another target failed (`main.go:269`): `ExitIsHonest` speaks of the targets
  that were taken.
* In `ingestShard` `flushed` starts at 0 (`commoncrawl.go:238`): a resumed shard
  that fails before its first flush loses its saved line and is read again.
* With `--max-records` below a batch of the index, below a page of repositories (100),
  or below the checkpoint of the synthetic source, a run makes no progress that the next
  one could resume from.
* Run returns without `finishRun` when `LoadState` fails (`runner.go:65`).
* The ETag of the GitHub event stream is that of page 1 and is saved with page 1
  (`github.go:304`, `github.go:340`).  A run that stops before page 2 leaves the
  later pages to a request that is answered with "not modified".  `EtagCovered` of
  `GithubSource` therefore speaks of page 1.
* After a failed SaveState, Collect of GDELT leaves its loop without cancelling
  the context (`gdelt.go:94`): feeder and relay wait until the process ends.
  `NoneLeftBehind` asks for them to end after a cancellation or the last file.
* A burst above the rate is possible in the client: tokens are taken before the
  slot is waited for (`client.go:250`).

* The pages dataset makes no progress when as many rows as a `page_batch` lie right
  behind the cursor and never get a page of their own: documents that cannot be
  parsed again and again, or pages the database ignores (`pages.go:105`).  With a
  `page_batch` of 2 in the second configuration, TLC finds `WorksThroughIndex`
  violated, where `docs/configuration.md:125` says that it "can be run repeatedly to
  work through the index".
* A truncated body of a page is stored as if it were whole: `Extract` always returns
  a document, so that the test at `pages.go:175` is never true.
* Two processes that migrate at once: the second one reads the ledger before the
  first one has committed (`db.go:164`), finds the version taken and fails, although
  the schema is then as it should be.  `SchemaIsWhole` and
  `CollectsOnNewestSchema` hold.
* An interrupt between `startRun` and `LoadState` leaves a row with the status
  `running` for good, where `docs/architecture.md:84` has `cancelled`.
* `PRAGMA synchronous(NORMAL)` with WAL (`db.go:71`) lets a power failure take back the
  last commits, with runs that were reported as completed; a prefix survives
  (`RecordsSurvive`).
* A failed flush has counted the rows it inserted before the failure
  (`writer.go:149`): the count of a run that failed may exceed its rows.
* The timeout of an attempt covers the reading of the body (`client.go:179`), and
  `Retry-After` is obeyed without an upper bound (`client.go:340`).
* `ErrLimit` is an error like any other to the loops of RSS and GDELT, which go on
  with their other feeds and files (`rss.go:90`, `gdelt.go:84`).
* The list of crawls is charged against the record limit (`commoncrawl.go:140`).
* `--limit 0` of the export writes a record (`scripts/export.py:135`).

## 7. Plan

Done, in this order: `Ingest` and `Pipeline` with their proofs, `Sink`,
`GdeltSource`, `Prefetch`, `FetchClient`, `CrawlIndex`, `CrawlPages`, `RssSource`,
`GithubSource`; then `Collector` with the migrations, `CommonCrawl` over both of its
datasets, `Gdelt` as the composition of the loop with its goroutines, and `Writer`.

Next:

1. The synthetic source: its checkpoints against the record limit.
2. The pages of GitHub events behind a saved ETag, as a run that shows the loss.
