-------------------------------- MODULE MCWriter --------------------------------
(* Instances of Writer for TLC: the feeds of the RSS adapter, replaced, its *)
(* items, ignored when they exist, and the rows of _errors.                 *)
EXTENDS Writer

Rec(t, k, v) == [table |-> t, key |-> k, val |-> v]
Mixed == {Rec("feeds", 1, 1), Rec("feeds", 1, 2), Rec("items", 1, 1), Rec("items", 2, 1), Rec("_errors", 0, 1)}
Verbs == [t \in {"feeds", "items", "_errors"} |->
            CASE t = "feeds" -> "replace" [] t = "items" -> "ignore" [] t = "_errors" -> "fail"]
Widths == [t \in {"feeds", "items", "_errors"} |->
            CASE t = "feeds" -> 2 [] t = "items" -> 1 [] t = "_errors" -> 3]
=============================================================================
