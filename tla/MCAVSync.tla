-------------------------------- MODULE MCAVSync --------------------------------
(* Instances of AVSync for TLC: one with the code's own figures, in        *)
(* milliseconds, for a film with a steady rate, and one with small figures *)
(* for films with repeated pictures, stalls and late timers.               *)
EXTENDS AVSync

HeadStarts == {-1000, -333, -41, 0, 40, 77, 1000}
SmallHeadStarts == {-12, -4, 0, 3, 9}
ClockGarbage == {-5, 3}
Wrong == {-50, 25}
===============================================================================
