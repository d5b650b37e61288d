----------------------------- MODULE MCCommonCrawl -----------------------------
(* Instances of CommonCrawl for TLC. *)
EXTENDS CommonCrawl

(* The index alone: two crawls of two shards with a malformed line, batches *)
(* that end off the checkpoints.                                            *)
IndexOnly ==
    [maxStops |-> 2, datasets |-> <<"index">>, lastCrawl |-> 2, shardCount |-> 2, lastLine |-> 4,
     listed |-> 1, checkpoint |-> 3, batchCap |-> 2, maxShards |-> 2,
     malformed |-> {<<0, 2>>}, cut |-> {}, pageBatch |-> 1, twins |-> {}]

(* The same, with a stream that may break inside of a line: that of a       *)
(* checkpoint, and the last one of a shard.                                 *)
IndexCut == [IndexOnly EXCEPT !.lastCrawl = 1, !.cut = {<<1, 0, 3>>, <<1, 1, 4>>}]

(* Both datasets, on two crawls that share a document.  With a pageBatch of *)
(* 2 WorksThroughIndex fails: see the README.                               *)
Both ==
    [maxStops |-> 2, datasets |-> <<"index", "pages">>, lastCrawl |-> 2, shardCount |-> 1, lastLine |-> 2,
     listed |-> 0, checkpoint |-> 2, batchCap |-> 2, maxShards |-> 1,
     malformed |-> {}, cut |-> {}, pageBatch |-> 3,
     twins |-> {{<<1, 0, 1>>, <<2, 0, 1>>}}]

Three == {IndexOnly, IndexCut, Both}
=============================================================================
