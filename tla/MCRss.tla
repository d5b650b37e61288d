--------------------------------- MODULE MCRss ---------------------------------
(* Instances of RssSource for TLC. *)
EXTENDS RssSource

=============================================================================
