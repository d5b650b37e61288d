------------------------------- MODULE CrawlIndex -------------------------------
(***************************************************************************)
(* The index dataset of the Common Crawl adapter,                          *)
(* src/internal/source/commoncrawl/commoncrawl.go.  It streams the CDX     *)
(* shards of the crawl from the saved shard and line on: it skips the      *)
(* lines before the cursor, emits the rest in batches, saves the cursor    *)
(* every checkpoint lines, and when the shard is interrupted rewinds the   *)
(* cursor to the last line it flushed.                                     *)
(***************************************************************************)
EXTENDS CrawlState

VARIABLES
    done,     \* shards completed in this run
    skip,     \* line the shard is resumed after
    lines,    \* lines read
    batch,    \* rows not yet emitted
    flushed,  \* last line known to have reached the queue
    cause     \* the error that ends the shard

scanVars == <<skip, lines, batch, flushed, cause>>
indexVars == <<done, scanVars>>

IndexInit == done = 0 /\ skip = 0 /\ lines = 0 /\ batch = <<>> /\ flushed = 0 /\ cause = "nil"

-----------------------------------------------------------------------------
(* collectIndex: the loop over the shards. *)

BeginIndex ==
    /\ Goto("loop") /\ done' = 0
    /\ UNCHANGED <<sinkVars, sharedVars, st, scanVars>>

NextShard ==
    /\ step = "loop"
    /\ done < config.maxShards /\ ctx = "live" /\ st.shard < config.shardCount
    /\ Goto("open")
    /\ UNCHANGED <<sinkVars, sharedVars, st, indexVars>>

LoopEnds ==
    /\ step = "loop"
    /\ done = config.maxShards \/ ctx = "cancelled" \/ st.shard = config.shardCount
    /\ DatasetReturns(IF ctx = "cancelled" THEN "Canceled" ELSE "nil")
    /\ UNCHANGED <<sinkVars, sharedVars, st, indexVars>>

Open ==
    /\ step = "open"
    /\ skip' = st.line /\ lines' = 0 /\ batch' = <<>> /\ flushed' = 0 /\ cause' = "nil"
    /\ Goto("scan")
    /\ UNCHANGED <<sinkVars, sharedVars, st, done>>

OpenFails ==
    /\ step = "open"
    /\ (ctx = "cancelled" /\ UNCHANGED stops) \/ Fault("open")
    /\ DatasetReturns("open")
    /\ UNCHANGED <<sinkVars, config, ids, st, indexVars>>

-----------------------------------------------------------------------------
(* ingestShard: the scanner's loop. *)

AtCheckpoint(n) == n % config.checkpoint = 0
NextLine == <<st.shard, lines + 1>>

(* A line before the cursor, or one that does not parse. *)
PassLine ==
    /\ step = "scan" /\ lines < config.lastLine
    /\ \/ lines + 1 <= skip
       \/ ctx = "live" /\ NextLine \in config.malformed
    /\ lines' = lines + 1
    /\ UNCHANGED <<sinkVars, sharedVars, step, left, st, done, skip, batch, flushed, cause>>

(* A row for the batch, which is flushed when full or at a checkpoint. *)
ReadLine ==
    /\ step = "scan" /\ lines < config.lastLine
    /\ lines + 1 > skip /\ ctx = "live" /\ NextLine \notin config.malformed
    /\ lines' = lines + 1
    /\ batch' = Append(batch, <<st.crawl, st.shard, lines + 1>>)
    /\ Goto(IF Len(batch') = config.batchCap \/ AtCheckpoint(lines') THEN "flush" ELSE "scan")
    /\ UNCHANGED <<sinkVars, sharedVars, st, done, skip, flushed, cause>>

(* The context is checked before a line is used. *)
ReadCancelled ==
    /\ step = "scan" /\ lines < config.lastLine
    /\ lines + 1 > skip /\ ctx = "cancelled"
    /\ lines' = lines + 1 /\ cause' = "Canceled"
    /\ Goto("abort")
    /\ UNCHANGED <<sinkVars, sharedVars, st, done, skip, batch, flushed>>

(* The stream breaks between two lines: what was read is flushed on the way *)
(* out.                                                                     *)
ReadFails ==
    /\ step = "scan"
    /\ (ctx = "cancelled" /\ UNCHANGED stops) \/ Fault("read")
    /\ cause' = "read"
    /\ Goto("broken")
    /\ UNCHANGED <<sinkVars, config, ids, st, done, skip, lines, batch, flushed>>

(* The stream breaks inside a line: the scanner hands out the part it has,  *)
(* which counts as a line and is passed as one that does not parse.  (With  *)
(* a cancelled context that part is ReadCancelled, and before the cursor it *)
(* is PassLine, each as for a whole line.)                                  *)
CutLine ==
    /\ step = "scan" /\ lines < config.lastLine
    /\ lines + 1 > skip /\ ctx = "live"
    /\ <<st.crawl, st.shard, lines + 1>> \in config.cut
    /\ Fault("read")
    /\ lines' = lines + 1 /\ cause' = "read"
    /\ Goto("broken")
    /\ UNCHANGED <<sinkVars, config, ids, st, done, skip, batch, flushed>>

EndOfShard ==
    /\ step = "scan" /\ lines = config.lastLine
    /\ Goto("last")
    /\ UNCHANGED <<sinkVars, sharedVars, st, indexVars>>

(* How far a flush has got, given its error. *)
Flushed(err) == IF err = "nil" THEN lines ELSE flushed

(* flush, and where the four places that call it go on.  Faulty variant:    *)
(* an error of the last one is overlooked.                                  *)
AfterFlushLastIgnored(err) ==
    CASE step = "broken" -> "abort"
      [] step = "last" -> "mark"
      [] step = "flush" /\ err # "nil" -> "abort"
      [] step = "flush" /\ err = "nil" -> IF AtCheckpoint(lines) THEN "checkpoint" ELSE "scan"
AfterFlush(err) ==
    CASE step = "broken" -> "abort"
      [] step # "broken" /\ err # "nil" -> "abort"
      [] step = "last" /\ err = "nil" -> "mark"
      [] step = "flush" /\ err = "nil" -> IF AtCheckpoint(lines) THEN "checkpoint" ELSE "scan"

Flush ==
    /\ step \in {"flush", "last", "broken"}
    /\ \E err \in Queue!Errors :
          /\ Queue!Emit(batch, err)
          /\ flushed' = Flushed(err)
          /\ cause' = IF step = "broken" THEN cause ELSE err
          /\ Goto(AfterFlush(err))
    /\ batch' = <<>>
    /\ UNCHANGED <<sharedVars, st, done, skip, lines>>

SaveCheckpoint ==
    /\ step = "checkpoint"
    /\ st' = [st EXCEPT !.line = flushed]
    /\ \E err \in Queue!Errors :
          /\ Queue!PutState(st', err)
          /\ IF err = "nil" THEN Goto("scan") ELSE DatasetReturns(err)
    /\ UNCHANGED <<sharedVars, indexVars>>

(* The line that abort puts the cursor at.  Faulty variant: the last one    *)
(* read.                                                                    *)
RewindToRead == lines
Rewind == flushed

(* abort: the error of its SaveState is ignored. *)
Abort ==
    /\ step = "abort"
    /\ st' = [st EXCEPT !.line = Rewind]
    /\ \E err \in Queue!Errors : Queue!PutState(st', err)
    /\ DatasetReturns(cause)
    /\ UNCHANGED <<sharedVars, indexVars>>

(* The shard's own row, then the cursor at the next shard.  Faulty variant: *)
(* the cursor stays.                                                        *)
MarkedStays == [st EXCEPT !.line = config.lastLine]
Marked == [st EXCEPT !.shard = @ + 1, !.line = 0]
Mark ==
    /\ step = "mark"
    /\ \E err \in Queue!Errors :
          /\ Queue!Emit(<<ShardRow(st.crawl, st.shard)>>, err)
          /\ IF err = "nil" THEN st' = Marked /\ Goto("save")
                            ELSE UNCHANGED st /\ DatasetReturns(err)
    /\ UNCHANGED <<sharedVars, indexVars>>

SaveShard ==
    /\ step = "save"
    /\ \E err \in Queue!Errors :
          /\ Queue!PutState(st, err)
          /\ IF err = "nil" THEN Goto("loop") ELSE DatasetReturns(err)
    /\ done' = done + 1
    /\ UNCHANGED <<sharedVars, st, scanVars>>

IndexStep ==
    \/ NextShard \/ LoopEnds \/ Open \/ OpenFails
    \/ PassLine \/ ReadLine \/ ReadCancelled \/ ReadFails \/ CutLine \/ EndOfShard
    \/ Flush \/ SaveCheckpoint \/ Abort \/ Mark \/ SaveShard
=============================================================================
