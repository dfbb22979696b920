----------------------------- MODULE OneShotTimers -----------------------------
(***************************************************************************)
(* What SDL's timers promise the decoder, with the timer thread, its lists *)
(* and its clock abstracted away: a timer that was set expires exactly     *)
(* once, never early and never late by more than MaxLate.  Module          *)
(* SDLTimers implements it; VideoDecoder and Session rely on it for their  *)
(* number of pending timers.                                               *)
(***************************************************************************)
EXTENDS Integers

CONSTANTS Intervals,  \* intervals timers are set to
          MaxLate     \* how late a timer may be

VARIABLES left,   \* left[id]: the time until the timer id is due
          next    \* the next timer's id

vars == <<left, next>>

Init ==
    /\ left = <<>>
    /\ next \in Nat

(* A timer is set; an id may be used up without one being set. *)
Set ==
    /\ next' = next + 1
    /\ \/ UNCHANGED left
       \/ \E interval \in Intervals :
             left' = [id \in DOMAIN left \cup {next} |->
                         IF id = next THEN interval ELSE left[id]]

Pass ==
    /\ \A id \in DOMAIN left : left[id] > -MaxLate
    /\ left' = [id \in DOMAIN left |-> left[id] - 1]
    /\ UNCHANGED next

Expire(id) ==
    /\ left[id] <= 0
    /\ left' = [i \in DOMAIN left \ {id} |-> left[i]]
    /\ UNCHANGED next

ExpireSome == \E id \in DOMAIN left : Expire(id)

Next == Set \/ Pass \/ ExpireSome

Spec == Init /\ [][Next]_vars

(* Every timer that is set expires: time passes, and is held up by no      *)
(* timer that is late for ever.                                            *)
FairSpec == Spec /\ WF_vars(Pass) /\ WF_vars(ExpireSome)
===============================================================================
