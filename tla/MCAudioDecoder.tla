----------------------------- MODULE MCAudioDecoder -----------------------------
(* Instances of AudioDecoder for TLC: frames in the format AudioTrack      *)
(* wants and in one that has to be converted to a longer one.              *)
EXTENDS AudioDecoder, TLC

CONSTANTS s16, other

FrameBytes == s16 :> 2 @@ other :> 3
===============================================================================
