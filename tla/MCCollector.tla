------------------------------ MODULE MCCollector ------------------------------
(* Instances of Collector for TLC. *)
EXTENDS Collector, TLC

CONSTANTS daily, other

Migrate == [name |-> "migrate", targets |-> <<>>, reset |-> FALSE]
Run(targets, reset) == [name |-> "run", targets |-> targets, reset |-> reset]

(* A run of two sources, and beside it a migration or a run of one of them. *)
TwoProcesses ==
    (daily :> {Run(<<"rss", "test">>, FALSE)}) @@
    (other :> {Migrate, Run(<<"test">>, TRUE)})
=============================================================================
