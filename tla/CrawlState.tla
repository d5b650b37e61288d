------------------------------ MODULE CrawlState ------------------------------
(***************************************************************************)
(* What the two datasets of the Common Crawl adapter share,                *)
(* src/internal/source/commoncrawl/commoncrawl.go: the saved state, of     *)
(* which each dataset moves its own part, the limit and the context of the *)
(* run, and the tables of the database.  CrawlIndex.tla and CrawlPages.tla *)
(* have the steps of the datasets, CommonCrawl.tla puts them together.     *)
(*                                                                         *)
(* An index row is <<crawl, shard, line>>, and line 0 stands for the       *)
(* shard's row of commoncrawl_shards.  The rows of commoncrawl_crawls,     *)
(* which a run on the latest crawl emits first, are <<0, 0, i>>.  The page *)
(* of the index row with the id i is <<"page", i>>.                        *)
(***************************************************************************)
EXTENDS Naturals, Sequences, FiniteSets

CONSTANTS
    Configs,     \* configurations, one of which is used throughout
    MaxRecords, Faults, NoState

VARIABLES
    backlog, rows, saved, phase, ctx, writer, emitted,  \* of Sink
    config,   \* the configuration
    stops,    \* what went wrong so far: interrupts, crashes, failures
    step,     \* where Collect is
    left,     \* datasets to collect, the current one first
    st,       \* c.st
    ids       \* id of each row of commoncrawl_index

sinkVars == <<backlog, rows, saved, phase, ctx, writer, emitted>>
sharedVars == <<config, stops, ids>>

(* lastCrawl, lastLine and maxStops are bounds: crawls, numbered from 1,    *)
(* lines of a shard, and interrupts, crashes, failures and --resume=false.  *)
(* malformed are pairs <<shard, line>> that do not parse, twins are sets of *)
(* index rows that name the same document (url and digest).  cut are the    *)
(* lines inside of which a stream may break; any set is allowed, so what is *)
(* said of the other lines is said of each line that no stream has cut.     *)
ASSUME ConfigAssumption ==
    /\ \A c \in Configs :
          /\ c.datasets \in Seq({"index", "pages"})
          /\ c.lastCrawl \in Nat \ {0} /\ c.shardCount \in Nat /\ c.lastLine \in Nat
          /\ c.listed \in Nat                    \* rows of the crawl list; 0 for a fixed crawl
          /\ c.checkpoint \in Nat \ {0}          \* lines between checkpoints
          /\ c.batchCap \in Nat \ {0}            \* lines per Emit (1024)
          /\ c.maxShards \in Nat \ {0}           \* shards per run
          /\ c.pageBatch \in Nat \ {0}           \* index rows per run
          /\ \A t \in c.twins : IsFiniteSet(t)
          /\ c.maxStops \in Nat
    /\ MaxRecords \in Nat
    /\ NoState \notin [crawl : Nat, shard : Nat, line : Nat, page : Nat]

(* The values of one configuration. *)
LastId(c) == c.lastCrawl * c.shardCount * c.lastLine
RowsOf(c) == (1..c.lastCrawl) \X (0..(c.shardCount - 1)) \X (1..c.lastLine)
StatesOf(c) ==
    [crawl : 0..c.lastCrawl, shard : 0..c.shardCount, line : 0..c.lastLine, page : 0..LastId(c)]

Page(i) == <<"page", i>>
ShardRow(c, s) == <<c, s, 0>>
RecordsOf(c) ==
    RowsOf(c) \cup {ShardRow(n, s) : n \in 1..c.lastCrawl, s \in 0..(c.shardCount - 1)}
    \cup {<<0, 0, i>> : i \in 1..c.listed} \cup {Page(i) : i \in 1..LastId(c)}

State == UNION {StatesOf(c) : c \in Configs}
Record == UNION {RecordsOf(c) : c \in Configs}
Start == [crawl |-> 0, shard |-> 0, line |-> 0, page |-> 0]

Crawls == 1..config.lastCrawl
Shard == 0..(config.shardCount - 1)
Ids == 1..LastId(config)
IndexRows == RowsOf(config)

Queue == INSTANCE Sink

(* Something goes wrong. *)
Trouble == stops < config.maxStops /\ stops' = stops + 1
Fault(kind) == kind \in Faults /\ Trouble

(* A dataset returns: ErrLimit ends the run, another error is recorded and  *)
(* the next dataset is due.                                                 *)
DatasetReturns(err) ==
    /\ step' = IF err = "ErrLimit" THEN "return" ELSE "dataset"
    /\ left' = Tail(left)
Goto(s) == step' = s /\ UNCHANGED left
=============================================================================
