------------------------------ MODULE AudioStream ------------------------------
(***************************************************************************)
(* What the audio decoder promises AudioTrack, whose callback asks for     *)
(* sound in pieces of its own size: the bytes of a decoded frame are       *)
(* delivered once and in order, frame after frame; frames that cannot be   *)
(* decoded are left out whole; of the others some bytes may be kept back   *)
(* and come with a later frame, and what is lost is all that is kept, or   *)
(* what goes beyond Most; and once the decoder has answered a stop with    *)
(* silence it stays silent.  Module AudioDecoder implements it.            *)
(***************************************************************************)
EXTENDS Integers

CONSTANTS Frames,   \* the numbers of the film's frames
          Sizes,    \* how many bytes a frame may have
          Most      \* how many bytes can be delivered for one frame

VARIABLES frame,    \* the frame being delivered (0 before the first)
          left,     \* how many of its bytes are still to come
          kept,     \* how many bytes are kept back until later
          silent    \* a stop was answered

vars == <<frame, left, kept, silent>>

Init ==
    /\ frame = 0
    /\ left = 0
    /\ kept = 0
    /\ silent = FALSE

\* A later frame, once the present one is delivered.
Begin ==
    /\ left = 0
    /\ ~silent
    /\ frame' \in {f \in Frames : f > frame}
    /\ \E size \in Sizes, before \in {kept, 0} :
          \/ /\ left' \in 0..(before + size)
             /\ kept' = before + size - left'
          \/ /\ before + size >= Most
             /\ left' = Most
             /\ kept' = 0
    /\ UNCHANGED silent

Deliver ==
    /\ left' \in 0..(left - 1)
    /\ UNCHANGED <<frame, kept, silent>>

\* Between two frames, what is kept may be lost.
Drop ==
    /\ left = 0
    /\ kept' = 0
    /\ UNCHANGED <<frame, left, silent>>

Hush ==
    /\ left = 0
    /\ silent' = TRUE
    /\ UNCHANGED <<frame, left, kept>>

Next == Begin \/ Deliver \/ Drop \/ Hush

Spec == Init /\ [][Next]_vars
===============================================================================
