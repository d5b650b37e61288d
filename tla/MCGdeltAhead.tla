----------------------------- MODULE MCGdeltAhead -----------------------------
(* Instances of Gdelt for TLC. *)
EXTENDS Gdelt

NoWindow == {<<0, MaxStamp>>}
=============================================================================
