----------------------------- MODULE MCMediaPlayer -----------------------------
(* Instances of MediaPlayer for TLC: two player threads, so that a second  *)
(* start() can be accepted, or one.  The players are interchangeable.      *)
EXTENDS MediaPlayer, TLC

PlayerSymmetry == Permutations(Players)
===============================================================================
