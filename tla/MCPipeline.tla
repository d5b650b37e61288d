----------------------------- MODULE MCPipeline -----------------------------
(* Values for checking Pipeline with TLC: batches that overlap, so that     *)
(* rows may be duplicates, and of which one may be truncated in two ways.   *)
(* One record is of a table that replaces.                                  *)
EXTENDS Pipeline

CONSTANTS d1, d2

MCRecord == {d1, d2}
MCReplaced == {d1}
MCBatches == {{d1}, {d1, d2}}
=============================================================================
