----------------------------- MODULE FrameChannel -----------------------------
(***************************************************************************)
(* What the video decoder promises the viewer, with the picture ring, its  *)
(* bitmaps, the SDL events and timers abstracted away: decoded pictures    *)
(* pass through a channel of bounded capacity, and each one is shown once, *)
(* in the order it was decoded and at the time stamp it was decoded with.  *)
(* Module VideoDecoder implements it.                                      *)
(***************************************************************************)
EXTENDS Integers, Sequences

CONSTANT Capacity

VARIABLES published,  \* how many pictures entered the channel
          channel,    \* the pictures waiting to be shown, oldest first
          screen,     \* the picture shown last (0 before the first)
          clock,      \* the time stamp it was shown for
          closed      \* the decoder has stopped

vars == <<published, channel, screen, clock, closed>>

Init ==
    /\ published = 0
    /\ channel = <<>>
    /\ screen = 0
    /\ clock = 0
    /\ closed \in BOOLEAN

(* Picture k is the k-th one decoded; its time stamp is named k too. *)
Publish ==
    /\ Len(channel) < Capacity
    /\ published' = published + 1
    /\ channel' = Append(channel, published')
    /\ UNCHANGED <<screen, clock, closed>>

Show ==
    /\ channel # <<>>
    /\ screen' = Head(channel)
    /\ clock' = Head(channel)
    /\ channel' = Tail(channel)
    /\ UNCHANGED <<published, closed>>

(* The decoder starts or stops; what is in the channel stays there. *)
Switch ==
    /\ closed' = ~closed
    /\ UNCHANGED <<published, channel, screen, clock>>

Next == Publish \/ Show \/ Switch

Spec == Init /\ [][Next]_vars

(* While the decoder runs, a waiting picture is eventually shown. *)
FairSpec == Spec /\ WF_vars(~closed /\ Show)
===============================================================================
