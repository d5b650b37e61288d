-------------------------------- MODULE MCGdelt --------------------------------
(* Instances of GdeltSource for TLC. *)
EXTENDS GdeltSource

NoWindow == {<<0, MaxStamp>>}
SomeWindows == {<<0, MaxStamp>>, <<2, MaxStamp>>, <<0, 1>>}
=============================================================================
