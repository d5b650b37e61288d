-------------------------------- MODULE MCFetch --------------------------------
(* Instances of FetchClient for TLC. *)
EXTENDS FetchClient

=============================================================================
