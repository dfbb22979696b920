---------------------------- MODULE MCVideoDecoder ----------------------------
(***************************************************************************)
(* Instances of VideoDecoder for TLC.                                      *)
(***************************************************************************)
EXTENDS VideoDecoder, TLC

Symmetry == Permutations(Dims)
===============================================================================
