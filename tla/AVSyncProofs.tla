------------------------------ MODULE AVSyncProofs ------------------------------
(***************************************************************************)
(* Theorems about AVSync, for all values of its constants.                 *)
(***************************************************************************)
EXTENDS AVSync, TLAPS

LEMMA LargerIsInt == ASSUME NEW a \in Int, NEW b \in Int
                     PROVE  /\ Larger(a, b) \in Int
                            /\ Larger(a, b) >= a
                            /\ Larger(a, b) >= b
                            /\ Larger(a, b) \in {a, b}
BY DEF Larger

-------------------------------------------------------------------------------
(* Types.  The ideal time and the delays must be known to be numbers before *)
(* anything can be said about them.                                        *)

Picture == [pts : Int, truth : Nat]

LEMMA LastsType ==
    ASSUME TypeOK, NEW pts \in Int
    PROVE  Lasts(pts) \in 0..(MAX_DELAY - 1)
BY DelaysAssumption DEF TypeOK, Lasts

LEMMA AdjustedType ==
    ASSUME NEW delay \in Nat, NEW ahead \in Int
    PROVE  Adjusted(delay, ahead) \in {0, delay, 2 * delay}
<1>1. /\ Larger(delay, AV_SYNC_THRESHOLD) \in Int
      /\ Magnitude(ahead) \in Int
  BY LargerIsInt, DelaysAssumption DEF Magnitude
<1> QED
  BY <1>1, DelaysAssumption DEF Adjusted

LEMMA FrameDelayType ==
    ASSUME NEW repeat \in Repeats
    PROVE  /\ (repeat * Period) \div 2 \in Nat
           /\ FrameDelay(repeat) = Period + (repeat * Period) \div 2
<1>1. repeat * Period \in Nat
  BY TimesAssumption
<1> QED
  BY <1>1, TimesAssumption DEF FrameDelay

LEMMA DurationType ==
    ASSUME TypeOK, NEW repeat \in Repeats
    PROVE  /\ Duration(repeat) \in Nat
           /\ ticks_per_frame = 1 => Duration(repeat) = FrameDelay(repeat)
<1>1. ticks_per_frame \in Nat /\ Period \in Nat /\ repeat \in Nat
  BY TimesAssumption DEF TypeOK
<1>2. PICK frame \in Nat : frame = ticks_per_frame * Period
  BY <1>1
<1>3. PICK extra \in Nat : extra = repeat * frame
  BY <1>1
<1>4. extra \div 2 \in Nat
  BY <1>3
<1>5. Duration(repeat) = frame + extra \div 2
  BY <1>2, <1>3 DEF Duration
<1>6. ticks_per_frame = 1 => frame = Period
  BY <1>1, <1>2
<1> QED
  BY <1>2, <1>3, <1>4, <1>5, <1>6 DEF FrameDelay

(* What the video thread does with a time stamp, right or wrong. *)
LEMMA DecodeFacts ==
    ASSUME TypeOK, Decode
    PROVE  \E given \in Int, repeat \in Repeats :
              /\ pictq' = Append(pictq, [pts |-> Stamp(given), truth |-> truth])
              /\ mVideoClock' = Stamp(given) + FrameDelay(repeat)
              /\ truth' = truth + Duration(repeat)
              /\ strays' \in 0..Strays
              /\ strays' = 0 => strays = 0 /\ given \in GivenRight
<1>1. PICK given \in GivenRight \cup GivenWrong, repeat \in Repeats :
         /\ IF given \in GivenRight
            THEN UNCHANGED strays
            ELSE strays < Strays /\ strays' = strays + 1
         /\ pictq' = Append(pictq, [pts |-> Stamp(given), truth |-> truth])
         /\ mVideoClock' = Stamp(given) + FrameDelay(repeat)
         /\ truth' = truth + Duration(repeat)
  BY DEF Decode
<1>2. given \in Int
  BY TimesAssumption DEF TypeOK, GivenRight, GivenWrong
<1>3. strays' \in 0..Strays /\ (strays' = 0 => strays = 0 /\ given \in GivenRight)
  BY <1>1, BoundsAssumption DEF TypeOK
<1> QED
  BY <1>1, <1>2, <1>3

LEMMA InitType == Init => TypeOK
BY TimesAssumption, DelaysAssumption, BoundsAssumption DEF Init, TypeOK

(* A refresh, in numbers: when it happens, and what it leaves behind.      *)
LEMMA RefreshFacts ==
    ASSUME TypeOK, Refresh
    PROVE  /\ now' \in Nat /\ now' >= alarm /\ now' <= alarm + Jitter
           /\ pictq \in Seq(Picture) /\ pictq # <<>> /\ Head(pictq) \in Picture
           /\ pictq' = Tail(pictq)
           /\ frame_last_delay' \in 0..(MAX_DELAY - 1)
           /\ diff' \in Int
           /\ frame_timer' \in {frame_timer, frame_timer + frame_last_delay',
                                frame_timer + 2 * frame_last_delay'}
           /\ frame_timer' \in Nat
           /\ alarm' \in Nat
           /\ alarm' >= frame_timer'
           /\ alarm' \in {frame_timer', now' + MIN_DELAY}
<1>1. /\ now' \in Nat /\ now' >= alarm /\ now' <= alarm + Jitter
  <2>1. PICK late \in 0..Jitter : now' = alarm + late
    BY DEF Refresh
  <2> QED
    BY <2>1, TimesAssumption DEF TypeOK
<1>2. /\ pictq \in Seq(Picture) /\ pictq # <<>> /\ Head(pictq) \in Picture
      /\ pictq' = Tail(pictq)
  <2>1. pictq \in Seq(Picture) /\ pictq # <<>>
    BY DEF TypeOK, Refresh, Picture
  <2>2. Head(pictq) \in Picture
    BY <2>1
  <2>3. pictq' = Tail(pictq)
    BY DEF Refresh
  <2> QED
    BY <2>1, <2>2, <2>3
<1>3. Head(pictq).pts \in Int
  BY <1>2 DEF Picture
<1>4. frame_last_delay' \in 0..(MAX_DELAY - 1)
  BY <1>3, LastsType DEF Refresh
<1>5. diff' \in Int
  BY <1>1, <1>3, TimesAssumption DEF Refresh, AudioClock, TypeOK
<1>6. frame_timer' = frame_timer + Adjusted(frame_last_delay', diff')
  BY DEF Refresh
<1>7. Adjusted(frame_last_delay', diff') \in {0, frame_last_delay', 2 * frame_last_delay'}
  BY <1>4, <1>5, AdjustedType, DelaysAssumption
<1>8. /\ frame_timer' \in {frame_timer, frame_timer + frame_last_delay',
                           frame_timer + 2 * frame_last_delay'}
      /\ frame_timer' \in Nat
  BY <1>4, <1>6, <1>7, DelaysAssumption DEF TypeOK
<1>9. PICK t \in Nat, f \in Nat : t = now' /\ f = frame_timer'
  BY <1>1, <1>8, Zenon
<1>10. PICK w : w = alarm' /\ w = t + (IF f - t >= MIN_DELAY THEN f - t ELSE MIN_DELAY)
  <2>1. alarm' = t + (IF f - t >= MIN_DELAY THEN f - t ELSE MIN_DELAY)
    BY <1>9 DEF Refresh, ActualDelay, Larger
  <2> QED
    BY <2>1, Zenon
<1>11. w \in Nat /\ w >= f /\ w \in {f, t + MIN_DELAY}
  BY <1>10, DelaysAssumption
<1>12. /\ alarm' \in Nat /\ alarm' >= frame_timer'
       /\ alarm' \in {frame_timer', now' + MIN_DELAY}
  BY <1>9, <1>10, <1>11, Zenon
<1> QED
  BY <1>1, <1>2, <1>4, <1>5, <1>8, <1>12

LEMMA NextType == TypeOK /\ [Next]_vars => TypeOK'
<1> SUFFICES ASSUME TypeOK, [Next]_vars PROVE TypeOK'
  OBVIOUS
<1>1. CASE Decode
  <2>1. PICK given \in Int, repeat \in Repeats :
           /\ pictq' = Append(pictq, [pts |-> Stamp(given), truth |-> truth])
           /\ mVideoClock' = Stamp(given) + FrameDelay(repeat)
           /\ truth' = truth + Duration(repeat)
           /\ strays' \in 0..Strays
    BY <1>1, DecodeFacts
  <2>2. Stamp(given) \in Int /\ truth \in Nat
    BY DEF Stamp, TypeOK
  <2>3. [pts |-> Stamp(given), truth |-> truth] \in [pts : Int, truth : Nat]
    BY <2>2
  <2>4. pictq' \in Seq([pts : Int, truth : Nat])
    BY <2>1, <2>3 DEF TypeOK
  <2>5. mVideoClock' \in Int /\ truth' \in Nat
    BY <2>1, <2>2, FrameDelayType, DurationType, TimesAssumption
  <2>6. decoded' \in 0..Film
    BY <1>1, BoundsAssumption DEF Decode, TypeOK
  <2>7. UNCHANGED <<ticks_per_frame, timingVars, now, alarm, skew, stalls>>
    BY <1>1 DEF Decode
  <2> QED
    BY <2>1, <2>4, <2>5, <2>6, <2>7 DEF TypeOK, timingVars
<1>2. CASE RefreshEmpty
  BY <1>2, TimesAssumption, BoundsAssumption
     DEF RefreshEmpty, TypeOK, timingVars, videoVars, filmVars
<1>3. CASE Refresh
  <2>1. /\ frame_last_delay' \in 0..(MAX_DELAY - 1) /\ diff' \in Int
        /\ frame_timer' \in Nat /\ alarm' \in Nat /\ now' \in Nat
        /\ pictq # <<>> /\ Head(pictq) \in Picture /\ pictq' = Tail(pictq)
    BY <1>3, RefreshFacts
  <2>2. pictq' \in Seq([pts : Int, truth : Nat])
    BY <2>1 DEF TypeOK
  <2>3. frame_last_pts' \in Int
    BY <1>3, <2>1 DEF Refresh, Picture
  <2>4. /\ shown' \in Nat
        /\ UNCHANGED <<videoVars, skew, stalls>>
    BY <1>3, <2>1, TimesAssumption DEF Refresh, TypeOK
  <2> QED
    BY <2>1, <2>2, <2>3, <2>4 DEF TypeOK, videoVars, filmVars
<1>4. CASE UNCHANGED vars
  BY <1>4 DEF TypeOK, vars, videoVars, filmVars, timingVars
<1>5. CASE Terminated
  BY <1>4, <1>5 DEF Terminated
<1> QED
  BY <1>1, <1>2, <1>3, <1>4, <1>5 DEF Next

(* Every variable keeps its type; in particular no delay that is believed  *)
(* is negative or reaches MAX_DELAY, whatever the time stamps are          *)
(* (video_refresh_timer 288-293).                                          *)
THEOREM TypeCorrect == Spec => []TypeOK
BY InitType, NextType, PTL DEF Spec

-------------------------------------------------------------------------------
(* The ideal time of the next picture is never before what the clock shows *)
(* by more than was just waited for, so the waiting time is bounded by one *)
(* believed duration, doubled.                                             *)

LEMMA InitSoon == Init => RefreshSoon
BY DelaysAssumption DEF Init, RefreshSoon, Larger

LEMMA RefreshNextSoon ==
    ASSUME TypeOK, RefreshSoon, Refresh
    PROVE  RefreshSoon'
<1>1. /\ alarm \in Nat /\ frame_timer \in Nat /\ frame_timer <= alarm
      /\ frame_last_delay' \in Nat
  BY RefreshFacts, DelaysAssumption DEF TypeOK, RefreshSoon
<1>2. /\ now' \in Nat /\ now' >= alarm
      /\ frame_timer' \in Nat /\ alarm' \in Nat /\ alarm' >= frame_timer'
  BY RefreshFacts
<1>3. PICK t \in Nat, f \in Nat, w \in Nat, d \in Nat :
         t = now' /\ f = frame_timer' /\ w = alarm' /\ d = frame_last_delay'
  BY <1>1, <1>2, Zenon
<1>4. /\ t >= alarm
      /\ f \in {frame_timer, frame_timer + d, frame_timer + 2 * d}
      /\ w \in {f, t + MIN_DELAY}
  BY <1>3, RefreshFacts
<1>5. w - t <= 2 * d \/ w - t = MIN_DELAY
  BY <1>1, <1>4, DelaysAssumption
<1>6. w - t <= Larger(2 * d, Larger(INITIAL_DELAY, MIN_DELAY))
  BY <1>5, DelaysAssumption DEF Larger
<1> QED
  BY <1>2, <1>3, <1>6 DEF RefreshSoon

LEMMA NextSoon == TypeOK /\ RefreshSoon /\ [Next]_vars => RefreshSoon'
<1> SUFFICES ASSUME TypeOK, RefreshSoon, [Next]_vars PROVE RefreshSoon'
  OBVIOUS
<1>1. CASE RefreshEmpty
  <2>1. /\ now' \in Nat /\ now' >= alarm
        /\ alarm' = now' + 1
        /\ UNCHANGED <<frame_timer, frame_last_delay>>
    <3>1. PICK late \in 0..Jitter : now' = alarm + late
      BY <1>1 DEF RefreshEmpty
    <3> QED
      BY <1>1, <3>1, TimesAssumption DEF RefreshEmpty, TypeOK, timingVars
  <2>2. frame_timer' <= alarm' /\ alarm' - now' <= 1
    <3>1. /\ alarm \in Nat /\ frame_timer \in Nat /\ frame_timer <= alarm
      BY DEF TypeOK, RefreshSoon
    <3>2. PICK t, w : t \in Nat /\ t = now' /\ w = alarm' /\ w = t + 1 /\ t >= alarm
      BY <2>1, Zenon
    <3>3. t \in Nat /\ w = t + 1 /\ t >= alarm
      BY <3>2, Zenon
    <3>4. frame_timer <= w /\ w - t <= 1
      BY <3>1, <3>3
    <3> QED
      BY <2>1, <3>2, <3>4, Zenon
  <2>3. Larger(2 * frame_last_delay', Larger(INITIAL_DELAY, MIN_DELAY)) >= 1
    BY <2>1, DelaysAssumption DEF TypeOK, Larger
  <2>4. /\ alarm' - now' \in Int
        /\ Larger(2 * frame_last_delay', Larger(INITIAL_DELAY, MIN_DELAY)) \in Int
    BY <2>1, DelaysAssumption DEF TypeOK, Larger
  <2> QED
    BY <2>2, <2>3, <2>4 DEF RefreshSoon
<1>2. CASE Refresh
  BY <1>2, RefreshNextSoon
<1>3. CASE UNCHANGED <<timingVars, now, alarm>>
  BY <1>3 DEF RefreshSoon, timingVars
<1> QED
  BY <1>1, <1>2, <1>3 DEF Next, Decode, Terminated, vars

(* However wild the time stamps and the sound are, the refresh timer is    *)
(* never set before the picture's ideal time nor further ahead than twice  *)
(* the last believed duration (video_refresh_timer 288-317).               *)
THEOREM RefreshBounded == Spec => []RefreshSoon
<1>1. Init => TypeOK /\ RefreshSoon
  BY InitType, InitSoon
<1>2. TypeOK /\ RefreshSoon /\ [Next]_vars => TypeOK' /\ RefreshSoon'
  BY NextType, NextSoon
<1> QED
  BY <1>1, <1>2, PTL DEF Spec

-------------------------------------------------------------------------------
(* Time stamps.  The film's place never returns to 0, which the code takes *)
(* for no time stamp, and from the first picture on the video clock is it, *)
(* if the film is the kind synchronize() takes it for.                     *)

Orderly == strays = 0 /\ ticks_per_frame = 1

ClockTrue ==
    /\ truth >= Start
    /\ Orderly /\ decoded > 0 => mVideoClock = truth

LEMMA DecodeRight ==
    ASSUME Start # 0, TypeOK, ClockTrue, Decode, strays' = 0, ticks_per_frame = 1
    PROVE  /\ strays = 0 /\ truth \in Nat /\ truth # 0
           /\ pictq' = Append(pictq, [pts |-> truth, truth |-> truth])
           /\ \E repeat \in Repeats : /\ mVideoClock' = truth + FrameDelay(repeat)
                                     /\ truth' = truth + FrameDelay(repeat)
<1>1. PICK given \in Int, repeat \in Repeats :
         /\ pictq' = Append(pictq, [pts |-> Stamp(given), truth |-> truth])
         /\ mVideoClock' = Stamp(given) + FrameDelay(repeat)
         /\ truth' = truth + Duration(repeat)
         /\ strays = 0 /\ given \in GivenRight
  BY DecodeFacts
<1>2. truth \in Nat /\ truth # 0
  BY TimesAssumption DEF TypeOK, ClockTrue
<1>3. Stamp(given) = truth
  BY <1>1, <1>2 DEF Stamp, GivenRight, ClockTrue, Orderly, TypeOK
<1> QED
  BY <1>1, <1>2, <1>3, DurationType

LEMMA NextStamps ==
    ASSUME Start # 0, TypeOK, ClockTrue, StampsTrue, [Next]_vars
    PROVE  ClockTrue' /\ StampsTrue'
<1>1. CASE Decode
  <2>1. ticks_per_frame' = ticks_per_frame
    BY <1>1 DEF Decode
  <2>2. truth' >= Start
    <3>1. PICK repeat \in Repeats : truth' = truth + Duration(repeat)
      BY <1>1, DecodeFacts
    <3>2. PICK lasts \in Nat : lasts = Duration(repeat)
      BY DurationType
    <3> QED
      BY <3>1, <3>2, TimesAssumption DEF TypeOK, ClockTrue
  <2>3. CASE strays' = 0 /\ ticks_per_frame = 1
    <3>1. /\ strays = 0 /\ truth \in Nat /\ truth # 0
          /\ pictq' = Append(pictq, [pts |-> truth, truth |-> truth])
          /\ mVideoClock' = truth'
      BY <1>1, <2>3, DecodeRight
    <3>2. PICK q, p : /\ q = pictq' /\ p = [pts |-> truth, truth |-> truth]
                      /\ q = Append(pictq, p)
      BY <3>1
    <3>3. p \in Picture /\ p.pts = p.truth
      BY <3>1, <3>2 DEF Picture
    <3>4. \A i \in 1..Len(pictq) : pictq[i].pts = pictq[i].truth
      BY <2>3, <3>1 DEF StampsTrue
    <3>5. \A i \in 1..Len(q) : q[i].pts = q[i].truth
      <4>1. pictq \in Seq(Picture)
        BY DEF TypeOK, Picture
      <4>2. /\ Len(pictq) \in Nat /\ Len(q) = Len(pictq) + 1
            /\ q[Len(pictq) + 1] = p
            /\ \A i \in 1..Len(pictq) : q[i] = pictq[i]
        BY <3>2, <4>1
      <4> QED
        BY <3>3, <3>4, <4>2
    <3> QED
      BY <2>2, <3>1, <3>2, <3>5 DEF ClockTrue, StampsTrue
  <2>4. CASE ~(strays' = 0 /\ ticks_per_frame = 1)
    BY <2>1, <2>2, <2>4 DEF ClockTrue, StampsTrue, Orderly
  <2> QED
    BY <2>3, <2>4
<1>2. CASE Refresh
  <2>1. pictq # <<>> /\ pictq' = Tail(pictq) /\ UNCHANGED videoVars
    BY <1>2 DEF Refresh
  <2>2. StampsTrue'
    <3>1. PICK q : q = pictq' /\ q = Tail(pictq)
      BY <2>1
    <3>2. /\ Len(q) = Len(pictq) - 1 /\ Len(pictq) \in Nat
          /\ \A i \in 1..Len(q) : q[i] = pictq[i + 1]
      BY <2>1, <3>1 DEF TypeOK
    <3>3. strays' = strays /\ ticks_per_frame' = ticks_per_frame
      BY <2>1 DEF videoVars, filmVars
    <3>4. ASSUME strays = 0, ticks_per_frame = 1
          PROVE  \A i \in 1..Len(q) : q[i].pts = q[i].truth
      BY <3>2, <3>4 DEF StampsTrue
    <3> QED
      BY <3>1, <3>3, <3>4 DEF StampsTrue
  <2> QED
    BY <2>1, <2>2 DEF ClockTrue, Orderly, videoVars, filmVars
<1>3. CASE UNCHANGED <<videoVars, pictq>>
  BY <1>3 DEF ClockTrue, Orderly, StampsTrue, videoVars, filmVars
<1> QED
  BY <1>1, <1>2, <1>3 DEF Next, RefreshEmpty, Terminated, vars

(* As long as no time stamp is wrong, every picture of a film whose        *)
(* codec's time_base is the duration of a picture is shown with its own    *)
(* place on the time axis that the codec defines, whichever time stamps are*)
(* missing after the first and however often pictures are repeated, unless *)
(* the first time stamp is 0 (synchronize 81-99).                          *)
THEOREM StampsCorrect ==
    ASSUME Start # 0
    PROVE  Spec => []StampsTrue
<1>1. Init => TypeOK /\ ClockTrue /\ StampsTrue
  <2>1. Init => ClockTrue /\ StampsTrue
    BY TimesAssumption DEF Init, ClockTrue, StampsTrue
  <2> QED
    BY <2>1, InitType
<1>2. TypeOK /\ ClockTrue /\ StampsTrue /\ [Next]_vars
      => TypeOK' /\ ClockTrue' /\ StampsTrue'
  BY NextType, NextStamps
<1> QED
  BY <1>1, <1>2, PTL DEF Spec

-------------------------------------------------------------------------------
(* A steady film: no picture is repeated and no time stamp is wrong, the   *)
(* codec's time_base is the duration of a picture, and a picture lasts     *)
(* longer than the shortest delay with the timer's lateness, but less than *)
(* the jumps that are not believed.  Its pictures are a Period apart.      *)

SteadyFilm ==
    /\ Start # 0
    /\ Ticks = {1} /\ Strays = 0
    /\ Repeats = {0}
    /\ MIN_DELAY + 2 * Jitter < Period
    /\ Period < MAX_DELAY
    /\ AV_SYNC_THRESHOLD <= Period
    /\ Period + Jitter < AV_NOSYNC_THRESHOLE

\* The time stamp of the picture after the last one shown.
Coming == IF pictq = <<>> THEN truth ELSE Head(pictq).pts

Spaced ==
    /\ shown > 0 => Coming = frame_last_pts + Period
    /\ \A i \in 1..Len(pictq) :
          (IF i = Len(pictq) THEN truth ELSE pictq[i + 1].pts) = pictq[i].pts + Period

LEMMA SteadyOrderly ==
    ASSUME SteadyFilm, TypeOK
    PROVE  strays = 0 /\ ticks_per_frame = 1
BY DEF SteadyFilm, TypeOK

\* Decode of a steady film.
LEMMA SteadyDecode ==
    ASSUME SteadyFilm, TypeOK, TypeOK', ClockTrue, Decode
    PROVE  /\ truth \in Nat
           /\ pictq' = Append(pictq, [pts |-> truth, truth |-> truth])
           /\ truth' = truth + Period
<1>1. strays' = 0
  BY DEF SteadyFilm, TypeOK
<1>2. PICK repeat \in Repeats : truth' = truth + FrameDelay(repeat)
  BY <1>1, SteadyOrderly, DecodeRight DEF SteadyFilm
<1>3. FrameDelay(repeat) = Period
  BY TimesAssumption DEF SteadyFilm, FrameDelay
<1> QED
  BY <1>1, <1>2, <1>3, SteadyOrderly, DecodeRight DEF SteadyFilm

LEMMA NextSpaced ==
    ASSUME SteadyFilm, TypeOK, TypeOK', ClockTrue, StampsTrue, Spaced, [Next]_vars
    PROVE  Spaced'
<1>1. CASE Decode
  <2>1. /\ truth \in Nat /\ Period \in Nat
        /\ pictq' = Append(pictq, [pts |-> truth, truth |-> truth])
        /\ truth' = truth + Period
    BY <1>1, SteadyDecode, TimesAssumption
  <2>5. PICK q, p, u : /\ q = pictq' /\ u = truth'
                       /\ p = [pts |-> truth, truth |-> truth]
                       /\ q = Append(pictq, p) /\ u = truth + Period
    BY <2>1
  <2>6. p \in Picture /\ p.pts = truth /\ pictq \in Seq(Picture)
    BY <2>1, <2>5 DEF Picture, TypeOK
  <2>7. Len(q) = Len(pictq) + 1 /\ q # <<>> /\ q[Len(q)] = p
        /\ \A i \in 1..Len(pictq) : q[i] = pictq[i]
    BY <2>5, <2>6
  <2>8. \A i \in 1..Len(q) :
           (IF i = Len(q) THEN u ELSE q[i + 1].pts) = q[i].pts + Period
    <3>1. TAKE i \in 1..Len(q)
    <3>2. CASE i = Len(q)
      BY <2>5, <2>6, <2>7, <3>2
    <3>3. CASE i # Len(q)
      <4>1. i \in 1..Len(pictq)
        BY <2>6, <2>7, <3>3
      <4>2. q[i + 1].pts = IF i = Len(pictq) THEN truth ELSE pictq[i + 1].pts
        BY <2>6, <2>7, <4>1
      <4> QED
        BY <2>7, <3>3, <4>1, <4>2 DEF Spaced
    <3> QED
      BY <3>2, <3>3
  <2>9. Head(q).pts = Coming
    BY <2>5, <2>6, <2>7 DEF Coming
  <2>10. Coming' = Coming
    BY <2>5, <2>7, <2>9 DEF Coming
  <2>11. UNCHANGED <<shown, frame_last_pts>>
    BY <1>1 DEF Decode, timingVars
  <2> QED
    BY <2>5, <2>8, <2>10, <2>11 DEF Spaced
<1>2. CASE Refresh
  <2>1. /\ pictq # <<>> /\ pictq \in Seq(Picture)
        /\ frame_last_pts' = Head(pictq).pts
        /\ truth' = truth
    BY <1>2 DEF Refresh, TypeOK, Picture, videoVars, filmVars
  <2>2. PICK q : q = pictq' /\ q = Tail(pictq)
    BY <1>2 DEF Refresh
  <2>3. Len(q) = Len(pictq) - 1 /\ Len(pictq) \in Nat \ {0}
        /\ \A i \in 1..Len(q) : q[i] = pictq[i + 1]
        /\ Head(pictq) = pictq[1]
    BY <2>1, <2>2
  <2>4. \A i \in 1..Len(q) :
           (IF i = Len(q) THEN truth ELSE q[i + 1].pts) = q[i].pts + Period
    <3>1. TAKE i \in 1..Len(q)
    <3>2. i + 1 \in 1..Len(pictq)
      BY <2>3
    <3>3. (IF i + 1 = Len(pictq) THEN truth ELSE pictq[i + 2].pts) = pictq[i + 1].pts + Period
      BY <3>2 DEF Spaced
    <3>4. i # Len(q) => q[i + 1] = pictq[i + 2]
      <4>1. (i + 1) + 1 = i + 2
        OBVIOUS
      <4>2. i # Len(q) => i + 1 \in 1..Len(q)
        BY <2>3
      <4>3. i # Len(q) => q[i + 1] = pictq[(i + 1) + 1]
        BY <2>3, <4>2
      <4> QED
        BY <4>1, <4>3
    <3> QED
      BY <2>3, <3>3, <3>4
  <2>5. (IF q = <<>> THEN truth ELSE Head(q).pts) = Head(pictq).pts + Period
    <3>1. (IF 1 = Len(pictq) THEN truth ELSE pictq[2].pts) = pictq[1].pts + Period
      BY <2>3 DEF Spaced
    <3>2. CASE Len(pictq) = 1
      <4>1. q = <<>>
        BY <2>1, <2>2, <2>3, <3>2
      <4> QED
        BY <2>3, <3>1, <3>2, <4>1
    <3>3. CASE Len(pictq) # 1
      <4>1. q # <<>> /\ Head(q) = pictq[2]
        <5>1. q \in Seq(Picture) /\ Len(q) >= 1
          BY <2>1, <2>2, <2>3, <3>3
        <5>2. 1 \in 1..Len(q) /\ q # <<>> /\ Head(q) = q[1] /\ 1 + 1 = 2
          BY <5>1
        <5>3. q[1] = pictq[1 + 1]
          BY <2>3, <5>2
        <5> QED
          BY <5>2, <5>3
      <4> QED
        BY <2>3, <3>1, <3>3, <4>1
    <3> QED
      BY <3>2, <3>3
  <2>6. Coming' = frame_last_pts' + Period
    BY <2>1, <2>2, <2>5 DEF Coming
  <2> QED
    BY <2>1, <2>2, <2>4, <2>6 DEF Spaced
<1>3. CASE UNCHANGED <<truth, pictq, shown, frame_last_pts>>
  BY <1>3 DEF Spaced, Coming
<1> QED
  BY <1>1, <1>2, <1>3
     DEF Next, RefreshEmpty, Terminated, vars, videoVars, filmVars, timingVars

(* One refresh in numbers: the timer set for a, the ideal time f, and the  *)
(* next picture p ahead of the sound there.                                *)
LEMMA StepArithmetic ==
    ASSUME SteadyFilm,
           NEW p \in -Period..(Period + Jitter),
           NEW f \in Nat, NEW a \in Nat, f <= a,
           a = f \/ (a - f <= MIN_DELAY + Jitter /\ p \in 0..(MIN_DELAY + 2 * Jitter)),
           NEW t \in Nat, t >= a, t <= a + Jitter,
           NEW d \in Int, d = p + f - t,
           NEW f2, f2 = f + Adjusted(Period, d),
           NEW w, w = t + ActualDelay(f2, t)
    PROVE  /\ Magnitude(d) <= Period + Jitter
           /\ p + Period - (f2 - f) \in -Period..(Period + Jitter)
           /\ \/ w = f2
              \/ /\ w - f2 <= MIN_DELAY + Jitter
                 /\ p + Period - (f2 - f) \in 0..(MIN_DELAY + 2 * Jitter)
<1> USE TimesAssumption, DelaysAssumption DEF SteadyFilm
<1>1. /\ d \in -(Period + Jitter)..(Period + Jitter)
      /\ Magnitude(d) <= Period + Jitter /\ Magnitude(d) < AV_NOSYNC_THRESHOLE
      /\ Magnitude(d) \in Int
  BY DEF Magnitude
<1>2. Larger(Period, AV_SYNC_THRESHOLD) = Period
  BY DEF Larger
<1>3. CASE d <= -Period
  <2>1. Adjusted(Period, d) = 0
    BY <1>1, <1>2, <1>3 DEF Adjusted
  <2>2. f2 = f /\ a = f
    BY <2>1, <1>3
  <2>3. w = t + MIN_DELAY
    BY <2>2 DEF ActualDelay, Larger
  <2> QED
    BY <1>1, <1>3, <2>2, <2>3
<1>4. CASE d > Period
  <2>1. Adjusted(Period, d) = 2 * Period
    BY <1>1, <1>2, <1>4 DEF Adjusted
  <2>2. f2 = f + 2 * Period /\ a = f
    BY <2>1, <1>4
  <2>3. w = f2
    BY <2>2 DEF ActualDelay, Larger
  <2> QED
    BY <1>1, <1>4, <2>2, <2>3
<1>5. CASE ~(d <= -Period) /\ ~(d > Period)
  <2>1. Adjusted(Period, d) = Period
    BY <1>1, <1>2, <1>5 DEF Adjusted
  <2>2. f2 = f + Period
    BY <2>1
  <2>3. w = f2 \/ (w = t + MIN_DELAY /\ f2 - t < MIN_DELAY)
    BY <2>2 DEF ActualDelay, Larger
  <2> QED
    BY <1>1, <1>5, <2>2, <2>3
<1> QED
  BY <1>3, <1>4, <1>5

LEMMA RefreshKeepsStep ==
    ASSUME SteadyFilm, TypeOK, RefreshSoon, Spaced, InStep, Refresh
    PROVE  InStep' /\ Magnitude(diff') <= Period + Jitter
<1>1. /\ pictq # <<>> /\ Head(pictq).pts = frame_last_pts + Period
      /\ shown > 0
  BY DEF Refresh, Spaced, Coming, InStep
<1>2. /\ Period \in Nat /\ Period > 0 /\ Start \in Nat /\ Jitter \in Nat
      /\ frame_last_pts \in Int /\ frame_timer \in Nat /\ alarm \in Nat
      /\ skew \in Int /\ shown \in Nat /\ frame_timer <= alarm
  BY TimesAssumption, DelaysAssumption DEF TypeOK, SteadyFilm, RefreshSoon
<1>3. Lasts(frame_last_pts + Period) = Period
  BY <1>2, DelaysAssumption DEF Lasts, SteadyFilm
<1>4. PICK t, d, f, w, l :
         /\ t = now' /\ d = diff' /\ f = frame_timer' /\ w = alarm' /\ l = frame_last_pts'
         /\ t \in Nat /\ t >= alarm /\ t <= alarm + Jitter
         /\ l = frame_last_pts + Period
         /\ d = l - AudioClock(t)
         /\ f = frame_timer + Adjusted(Period, d)
         /\ w = t + ActualDelay(f, t)
  <2>1. /\ now' \in Nat /\ now' >= alarm /\ now' <= alarm + Jitter
    BY RefreshFacts
  <2>2. /\ frame_last_pts' = frame_last_pts + Period
        /\ diff' = frame_last_pts' - AudioClock(now')
        /\ frame_timer' = frame_timer + Adjusted(Period, diff')
        /\ alarm' = now' + ActualDelay(frame_timer', now')
    BY <1>1, <1>3 DEF Refresh
  <2> QED
    BY <2>1, <2>2, Zenon
<1>5. /\ t \in Nat /\ t >= alarm /\ t <= alarm + Jitter
      /\ l = frame_last_pts + Period
      /\ d = l - AudioClock(t)
      /\ f = frame_timer + Adjusted(Period, d)
      /\ w = t + ActualDelay(f, t)
  BY <1>4, Zenon
<1>6. PICK p \in Int : p = Planned
  BY <1>2 DEF Planned, AudioClock
<1>7. /\ p \in -Period..(Period + Jitter)
      /\ \/ alarm = frame_timer
         \/ /\ alarm - frame_timer <= MIN_DELAY + Jitter
            /\ p \in 0..(MIN_DELAY + 2 * Jitter)
  BY <1>6 DEF InStep
<1>8. d \in Int /\ d = p + frame_timer - t
  BY <1>2, <1>5, <1>6 DEF Planned, AudioClock
<1>9. /\ Magnitude(d) <= Period + Jitter
      /\ p + Period - (f - frame_timer) \in -Period..(Period + Jitter)
      /\ \/ w = f
         \/ /\ w - f <= MIN_DELAY + Jitter
            /\ p + Period - (f - frame_timer) \in 0..(MIN_DELAY + 2 * Jitter)
  BY <1>2, <1>5, <1>7, <1>8, StepArithmetic
<1>10. f \in Int
  BY <1>2, <1>5, <1>8, AdjustedType
<1>11. PICK r : r = l + Period - AudioClock(f) /\ r = p + Period - (f - frame_timer)
  BY <1>2, <1>5, <1>6, <1>10 DEF Planned, AudioClock
<1>12. Planned' = r
  <2>1. Planned' = frame_last_pts' + Period - (Start + frame_timer' + skew')
    BY DEF Planned, AudioClock
  <2>2. skew' = skew
    BY DEF Refresh
  <2>3. Planned' = l + Period - (Start + f + skew)
    BY <1>4, <2>1, <2>2, Zenon
  <2> QED
    BY <1>11, <2>3 DEF AudioClock
<1>13. shown' > 0
  BY <1>2 DEF Refresh
<1>14. /\ r \in -Period..(Period + Jitter)
       /\ \/ w = f
          \/ w - f <= MIN_DELAY + Jitter /\ r \in 0..(MIN_DELAY + 2 * Jitter)
  BY <1>9, <1>11
<1>15. InStep'
  BY <1>4, <1>12, <1>13, <1>14, Zenon DEF InStep
<1> QED
  BY <1>4, <1>9, <1>15, Zenon

LEMMA NextKeepsStep ==
    ASSUME SteadyFilm, TypeOK, RefreshSoon, Spaced, [Next]_vars
    PROVE  InStep /\ stalls' = stalls =>
              /\ InStep'
              /\ shown' # shown => Magnitude(diff') <= Period + Jitter
<1> SUFFICES ASSUME InStep, stalls' = stalls
             PROVE  InStep' /\ (shown' # shown => Magnitude(diff') <= Period + Jitter)
  OBVIOUS
<1>1. CASE Refresh
  BY <1>1, RefreshKeepsStep
<1>2. CASE UNCHANGED <<timingVars, alarm, skew>>
  BY <1>2 DEF InStep, Planned, AudioClock, timingVars
<1>3. CASE RefreshEmpty
  BY <1>3, BoundsAssumption DEF RefreshEmpty, TypeOK
<1> QED
  BY <1>1, <1>2, <1>3 DEF Next, Decode, Terminated, vars

(* A steady film in step with its sound stays in step as long as the       *)
(* decoder keeps up, and shows each picture within its own duration of the *)
(* sound: the corrections of video_refresh_timer (296-317) do not swing,   *)
(* for any rate, lateness of the timer and thresholds in these relations.  *)
THEOREM StepKept ==
    ASSUME SteadyFilm
    PROVE  Spec => KeepsStep
<1>1. Init => TypeOK /\ RefreshSoon /\ ClockTrue /\ StampsTrue /\ Spaced
  <2>1. Init => ClockTrue /\ StampsTrue /\ Spaced
    BY TimesAssumption DEF Init, ClockTrue, StampsTrue, Spaced
  <2> QED
    BY <2>1, InitType, InitSoon
<1>2. /\ TypeOK /\ RefreshSoon /\ ClockTrue /\ StampsTrue /\ Spaced /\ [Next]_vars
      => TypeOK' /\ RefreshSoon' /\ ClockTrue' /\ StampsTrue' /\ Spaced'
  <2> SUFFICES ASSUME TypeOK, RefreshSoon, ClockTrue, StampsTrue, Spaced, [Next]_vars
               PROVE  TypeOK' /\ RefreshSoon' /\ ClockTrue' /\ StampsTrue' /\ Spaced'
    OBVIOUS
  <2>1. TypeOK' /\ RefreshSoon'
    BY NextType, NextSoon
  <2>2. ClockTrue' /\ StampsTrue' /\ Spaced'
    BY <2>1, NextStamps, NextSpaced DEF SteadyFilm
  <2> QED
    BY <2>1, <2>2
<1>3. TypeOK /\ RefreshSoon /\ Spaced /\ [Next]_vars
      => [InStep /\ stalls' = stalls =>
             /\ InStep'
             /\ shown' # shown => Magnitude(diff') <= Period + Jitter]_vars
  BY NextKeepsStep
<1> QED
  BY <1>1, <1>2, <1>3, PTL DEF Spec, KeepsStep

-------------------------------------------------------------------------------
(* Coming into step.  Planned p and the gap g between the ideal time and   *)
(* the timer say how far playback is out of step.  A refresh that hurries  *)
(* makes good at least Gain and may widen the gap by Lag; with the weights *)
(* of Distance every refresh out of step makes good Gain * Gain.           *)

Lag  == MIN_DELAY + Jitter
Gain == Period - Lag

InStepAt(p, g) ==
    /\ p \in -Period..(Period + Jitter)
    /\ g = 0 \/ (g <= Lag /\ p \in 0..(MIN_DELAY + 2 * Jitter))

\* One more refresh, while the ideal time lags behind the timer or will lag.
Extra(p, g) == IF g > 0 \/ p < 0 THEN Gain * Gain ELSE 0

Distance(p, g) ==
    (Gain + 2 * Lag) * Larger(0, g - p) + Gain * (2 * g + Larger(0, p - g))
        + Extra(p, g)

LEMMA GainType ==
    ASSUME SteadyFilm
    PROVE  /\ Lag \in Nat /\ Gain \in Nat /\ Gain > Jitter
           /\ Period = Gain + Lag /\ MIN_DELAY = Lag - Jitter
BY TimesAssumption, DelaysAssumption DEF SteadyFilm, Lag, Gain

LEMMA Product == \A a, b \in Nat : a * b \in Nat
OBVIOUS

(* Distance by cases: behind the sound, and ahead of it. *)
LEMMA DistanceIs ==
    ASSUME SteadyFilm, NEW p \in Int, NEW g \in Nat
    PROVE  /\ Distance(p, g) \in Nat
           /\ p <= g => Distance(p, g) = Gain * (g - p) + 2 * (Lag * (g - p)) + 2 * (Gain * g)
                            + Extra(p, g)
           /\ p >= g => Distance(p, g) = Gain * (g + p)
                            + Extra(p, g)
<1> USE GainType
<1>1. Gain * Gain \in Nat
  BY Product
<1>2. PICK x \in Nat : x = Extra(p, g)
  BY <1>1 DEF Extra
<1>3. CASE p <= g
  <2>1. PICK b \in Nat : b = g - p
    BY <1>3
  <2>2. Larger(0, g - p) = b /\ Larger(0, p - g) = 0
    BY <2>1 DEF Larger
  <2>3. Distance(p, g) = (Gain + 2 * Lag) * b + Gain * (2 * g + 0) + x
    BY <1>2, <2>2 DEF Distance
  <2>4. Gain * b \in Nat /\ Lag * b \in Nat /\ Gain * g \in Nat
    BY Product
  <2>5. Distance(p, g) = Gain * b + 2 * (Lag * b) + 2 * (Gain * g) + x
    BY <2>3
  <2>6. p >= g => p = g /\ b = 0 /\ g + p = 2 * g
    BY <1>3, <2>1
  <2>7. p >= g => Distance(p, g) = Gain * (g + p) + x
    BY <2>5, <2>6
  <2> QED
    BY <1>2, <2>1, <2>4, <2>5, <2>7
<1>4. CASE p > g
  <2>1. PICK a \in Nat : a = p - g
    BY <1>4
  <2>2. Larger(0, g - p) = 0 /\ Larger(0, p - g) = a
    BY <1>4, <2>1 DEF Larger
  <2>3. PICK n \in Nat : n = 2 * g + a
    OBVIOUS
  <2>4. n = g + p
    BY <1>4, <2>1, <2>3
  <2>5. Distance(p, g) = Gain * (g + p) + x
    <3>1. Distance(p, g) = (Gain + 2 * Lag) * 0 + Gain * n + x
      BY <1>2, <2>2, <2>3 DEF Distance
    <3>2. (Gain + 2 * Lag) * 0 = 0 /\ Gain * n \in Nat
      BY Product
    <3> QED
      BY <2>4, <3>1, <3>2
  <2>6. Gain * (g + p) \in Nat
    BY <2>3, <2>4, Product
  <2> QED
    BY <1>2, <1>4, <2>5, <2>6
<1> QED
  BY <1>3, <1>4

LEMMA DistanceType ==
    ASSUME SteadyFilm, NEW p \in Int, NEW g \in Nat
    PROVE  Distance(p, g) \in Nat
BY DistanceIs

LEMMA DistanceBehind ==
    ASSUME SteadyFilm, NEW p \in Int, NEW g \in Nat, NEW x \in Nat, x = g - p
    PROVE  Distance(p, g) = Gain * x + 2 * (Lag * x) + 2 * (Gain * g)
                               + Extra(p, g)
<1>1. p <= g
  OBVIOUS
<1> QED
  BY <1>1, DistanceIs

LEMMA DistanceAhead ==
    ASSUME SteadyFilm, NEW p \in Int, NEW g \in Nat, NEW a \in Nat, a = g + p, p >= g
    PROVE  Distance(p, g) = Gain * a + Extra(p, g)
BY DistanceIs

(* A refresh that hurries: the sound is ahead by a picture or more. *)
LEMMA ApproachLate ==
    ASSUME SteadyFilm, NEW p \in Int, NEW g \in Nat, NEW u \in 0..Jitter,
           p - g + u <= Jitter - Period,
           NEW h \in Nat, h = g + Lag - u
    PROVE  Distance(p + Period, h) + Gain * Gain <= Distance(p, g)
<1> USE GainType
<1>1. PICK x \in Nat : x = g - p
  BY TimesAssumption
<1>2. g > 0 \/ p < 0
  BY <1>1, TimesAssumption DEF SteadyFilm
<1>3. PICK y \in Nat : y = x - Gain - u /\ y = h - (p + Period)
  BY <1>1, TimesAssumption, DelaysAssumption DEF SteadyFilm
<1>4. PICK s \in Int : s = p + Period
  OBVIOUS
<1>5. Distance(p, g) = Gain * x + 2 * (Lag * x) + 2 * (Gain * g) + Gain * Gain
  BY <1>1, <1>2, DistanceBehind DEF Extra
<1>6. Distance(s, h) <= Gain * y + 2 * (Lag * y) + 2 * (Gain * h) + Gain * Gain
  <2>1. y = h - s
    BY <1>3, <1>4
  <2>2. Gain * Gain \in Nat
    BY Product
  <2>3. Distance(s, h) = Gain * y + 2 * (Lag * y) + 2 * (Gain * h)
                            + Extra(s, h)
    BY <2>1, DistanceBehind
  <2>4. Gain * y \in Nat /\ Lag * y \in Nat /\ Gain * h \in Nat
    BY Product
  <2> QED
    BY <2>2, <2>3, <2>4 DEF Extra
<1>7. /\ Gain * x = Gain * y + Gain * Gain + Gain * u
      /\ Lag * x = Lag * y + Lag * Gain + Lag * u
      /\ Gain * h = Gain * g + Lag * Gain - Gain * u
  <2>1. x = y + Gain + u /\ h = g + Lag - u
    BY <1>3
  <2> QED
    BY <2>1
<1>8. /\ Gain * Gain \in Nat /\ Gain * u \in Nat /\ Lag * u \in Nat /\ Lag * Gain \in Nat
      /\ Gain * y \in Nat /\ Lag * y \in Nat /\ Gain * g \in Nat
  BY TimesAssumption, Product
<1>9. Distance(s, h) + Gain * Gain <= Distance(p, g)
  <2>1. Distance(s, h) \in Nat
    BY <1>4, DistanceType
  <2> QED
    BY <1>5, <1>6, <1>7, <1>8, <2>1
<1> QED
  BY <1>4, <1>9

(* One that does neither, while the ideal time lags behind the clock. *)
LEMMA ApproachLagging ==
    ASSUME SteadyFilm, NEW p \in Int, NEW g \in Nat, NEW u \in 0..Jitter,
           NEW h \in Nat, h = g - Gain - u
    PROVE  Distance(p, h) + Gain * Gain <= Distance(p, g)
<1> USE GainType
<1>1. PICK n \in Nat : n = Gain + u /\ g = h + n /\ g > 0
  BY TimesAssumption
<1>2. /\ Gain * g = Gain * h + Gain * n
      /\ Gain * n = Gain * Gain + Gain * u
  <2>1. g = h + n /\ n = Gain + u
    BY <1>1
  <2> QED
    BY <2>1
<1>3. /\ Gain * Gain \in Nat /\ Gain * u \in Nat /\ Gain * h \in Nat /\ Lag * n \in Nat
  BY <1>1, TimesAssumption, Product
<1> Distance(p, h) \in Nat /\ Distance(p, g) \in Nat
  BY DistanceType
<1>4. CASE p >= g
  <2>1. PICK a \in Nat : a = g + p
    BY <1>4
  <2>2. PICK b \in Nat : b = h + p
    BY <1>1, <1>4
  <2>3. Distance(p, g) = Gain * a + Gain * Gain
    BY <1>1, <1>4, <2>1, DistanceAhead DEF Extra
  <2>4. Distance(p, h) <= Gain * b + Gain * Gain
    <3>1. p >= h
      BY <1>1, <1>4
    <3>2. Distance(p, h) = Gain * b + Extra(p, h)
      BY <2>2, <3>1, DistanceAhead
    <3>3. Gain * b \in Nat
      BY Product
    <3> QED
      BY <1>3, <3>2, <3>3 DEF Extra
  <2>5. Gain * a = Gain * b + Gain * n
    <3>1. a = b + n
      BY <1>1, <2>1, <2>2
    <3> QED
      BY <3>1
  <2> QED
    BY <1>2, <1>3, <2>3, <2>4, <2>5
<1>5. CASE p < g /\ p >= h
  <2>1. PICK x \in Nat : x = g - p
    BY <1>5
  <2>2. PICK b \in Nat : b = h + p /\ b <= 2 * h + n
    BY <1>1, <1>5
  <2>3. Distance(p, g) = Gain * x + 2 * (Lag * x) + 2 * (Gain * g) + Gain * Gain
    BY <1>1, <2>1, DistanceBehind DEF Extra
  <2>4. Distance(p, h) <= Gain * b + Gain * Gain
    <3>1. Distance(p, h) = Gain * b + Extra(p, h)
      BY <1>5, <2>2, DistanceAhead
    <3>2. Gain * b \in Nat
      BY Product
    <3> QED
      BY <1>3, <3>1, <3>2 DEF Extra
  <2>5. PICK c \in Nat : c = 2 * h + n - b
    BY <1>1, <2>2
  <2>6. 2 * (Gain * h) + Gain * n = Gain * b + Gain * c
    <3>1. 2 * h + n = b + c
      BY <1>1, <2>2, <2>5
    <3>2. Gain * (2 * h + n) = Gain * (b + c)
      BY <3>1
    <3> QED
      BY <1>1, <3>2
  <2>7. Gain * x \in Nat /\ Lag * x \in Nat /\ Gain * c \in Nat /\ Gain * b \in Nat
    BY Product
  <2> QED
    BY <1>2, <1>3, <2>3, <2>4, <2>6, <2>7
<1>6. CASE p < h
  <2>1. PICK x \in Nat : x = g - p
    BY <1>1, <1>6
  <2>2. PICK y \in Nat : y = h - p /\ x = y + n
    BY <1>1, <1>6, <2>1
  <2>3. Distance(p, g) = Gain * x + 2 * (Lag * x) + 2 * (Gain * g) + Gain * Gain
    BY <1>1, <2>1, DistanceBehind DEF Extra
  <2>4. Distance(p, h) <= Gain * y + 2 * (Lag * y) + 2 * (Gain * h) + Gain * Gain
    <3>1. Distance(p, h) = Gain * y + 2 * (Lag * y) + 2 * (Gain * h)
                             + Extra(p, h)
      BY <2>2, DistanceBehind
    <3>2. Gain * y \in Nat /\ Lag * y \in Nat
      BY Product
    <3> QED
      BY <1>3, <3>1, <3>2 DEF Extra
  <2>5. Gain * x = Gain * y + Gain * n /\ Lag * x = Lag * y + Lag * n
    <3>1. x = y + n
      BY <2>2
    <3> QED
      BY <3>1
  <2>6. Gain * y \in Nat /\ Lag * y \in Nat
    BY Product
  <2> QED
    BY <1>2, <1>3, <2>3, <2>4, <2>5, <2>6
<1> QED
  BY <1>4, <1>5, <1>6

(* One that brings the ideal time past the clock, and still out of step. *)
LEMMA ApproachLanding ==
    ASSUME SteadyFilm, NEW p \in Nat, NEW g \in Nat, g > 0
    PROVE  Distance(p, 0) + Gain * Gain <= Distance(p, g)
<1> USE GainType
<1> Distance(p, 0) \in Nat /\ Distance(p, g) \in Nat
  <2>1. p \in Int /\ 0 \in Nat
    OBVIOUS
  <2> QED
    BY <2>1, DistanceType
<1>1. Distance(p, 0) = Gain * p
  <2>1. PICK z \in Nat : z = 0 /\ p = z + p /\ p >= z /\ ~(p < 0)
    OBVIOUS
  <2>2. Distance(p, z) = Gain * p + Extra(p, z)
    BY <2>1, DistanceAhead
  <2> QED
    BY <2>1, <2>2, Product DEF Extra
<1>2. Gain * Gain \in Nat /\ Gain * p \in Nat /\ Gain * g \in Nat
  BY Product
<1>3. CASE p >= g
  <2>1. PICK a \in Nat : a = g + p
    OBVIOUS
  <2>2. Distance(p, g) = Gain * a + Gain * Gain
    BY <1>3, <2>1, DistanceAhead DEF Extra
  <2>3. Gain * a = Gain * g + Gain * p
    BY <2>1
  <2> QED
    BY <1>1, <1>2, <2>2, <2>3
<1>4. CASE p < g
  <2>1. PICK x \in Nat : x = g - p
    BY <1>4
  <2>2. Distance(p, g) = Gain * x + 2 * (Lag * x) + 2 * (Gain * g) + Gain * Gain
    BY <2>1, DistanceBehind DEF Extra
  <2>3. Gain * g = Gain * x + Gain * p
    <3>1. g = x + p
      BY <2>1
    <3> QED
      BY <3>1
  <2>4. Gain * x \in Nat /\ Lag * x \in Nat
    BY Product
  <2> QED
    BY <1>1, <1>2, <2>2, <2>3, <2>4
<1> QED
  BY <1>3, <1>4

(* One that waits: the video is ahead by more than a picture. *)
LEMMA ApproachEarly ==
    ASSUME SteadyFilm, NEW p \in Int, NEW g \in Nat, NEW u \in 0..Jitter,
           p > g + Period,
           NEW h \in Nat, h = 0 \/ h = g - (2 * Gain + Lag + u)
    PROVE  Distance(p - Period, h) + Gain * Gain <= Distance(p, g)
<1> USE GainType
<1>1. PICK q \in Int : q = p - Period /\ q >= 0
  OBVIOUS
<1>2. h <= g /\ q >= h /\ p >= g /\ p \in Nat
  <2>1. u \in Nat /\ h <= g
    BY TimesAssumption
  <2> QED
    BY <1>1, <2>1
<1>3. PICK a \in Nat, b \in Nat : a = g + p /\ b = h + q
  <2>1. g + p \in Nat /\ h + q \in Nat
    BY <1>2
  <2> QED
    BY <2>1, Zenon
<1> Distance(q, h) \in Nat /\ Distance(p, g) \in Nat
  BY DistanceType
<1>4. /\ Distance(p, g) = Gain * a + (IF g > 0 THEN Gain * Gain ELSE 0)
      /\ Distance(q, h) = Gain * b + (IF h > 0 THEN Gain * Gain ELSE 0)
  <2>1. Distance(p, g) = Gain * a + Extra(p, g)
    BY <1>2, <1>3, DistanceAhead
  <2>2. Distance(q, h) = Gain * b + Extra(q, h)
    BY <1>2, <1>3, DistanceAhead
  <2> QED
    BY <1>2, <1>3, <2>1, <2>2 DEF Extra
<1>5. PICK c \in Nat : a = b + Gain + c
  <2>1. a - b - Gain = (g - h) + Lag
    BY <1>1, <1>3
  <2>2. PICK c \in Nat : c = (g - h) + Lag
    BY <1>2
  <2> QED
    BY <2>1, <2>2
<1>6. Gain * a = Gain * b + Gain * Gain + Gain * c
  BY <1>5
<1>7. Gain * Gain \in Nat /\ Gain * b \in Nat /\ Gain * c \in Nat
  BY Product
<1>8. h > 0 => g > 0
  BY <1>2
<1>9. Distance(q, h) + Gain * Gain <= Distance(p, g)
  BY <1>4, <1>6, <1>7, <1>8
<1> QED
  BY <1>1, <1>9

(* A refresh out of step, in numbers: it comes into step, or makes good. *)
LEMMA ApproachArithmetic ==
    ASSUME SteadyFilm,
           NEW p \in Int, NEW g \in Nat, ~InStepAt(p, g),
           NEW late \in 0..Jitter,
           NEW d \in Int, d = p - g - late, Magnitude(d) < AV_NOSYNC_THRESHOLE,
           NEW q \in Int, q = p + Period - Adjusted(Period, d),
           NEW h \in Nat, h = Larger(0, g + late + MIN_DELAY - Adjusted(Period, d))
    PROVE  InStepAt(q, h) \/ Distance(q, h) + Gain * Gain <= Distance(p, g)
<1> USE GainType, TimesAssumption, DelaysAssumption
<1>1. Larger(Period, AV_SYNC_THRESHOLD) = Period
  BY DEF Larger, SteadyFilm
<1>2. PICK u \in 0..Jitter : u = Jitter - late
  OBVIOUS
<1>3. Magnitude(d) \in Int
  BY DEF Magnitude
<1>4. CASE d <= -Period
  <2>1. Adjusted(Period, d) = 0
    BY <1>1, <1>3, <1>4 DEF Adjusted
  <2>2. q = p + Period /\ h = g + Lag - u
    BY <1>2, <2>1 DEF Larger
  <2>3. p - g + u <= Jitter - Period
    BY <1>2, <1>4
  <2> QED
    BY <2>2, <2>3, ApproachLate
<1>5. CASE d > Period
  <2>1. Adjusted(Period, d) = 2 * Period
    BY <1>1, <1>3, <1>5 DEF Adjusted
  <2>2. q = p - Period /\ (h = 0 \/ h = g - (2 * Gain + Lag + u))
    BY <1>2, <2>1 DEF Larger
  <2>3. p > g + Period
    BY <1>5
  <2> QED
    BY <2>2, <2>3, ApproachEarly
<1>6. CASE ~(d <= -Period) /\ ~(d > Period)
  <2>1. Adjusted(Period, d) = Period
    BY <1>1, <1>3, <1>6 DEF Adjusted
  <2>2. q = p /\ (h = 0 \/ h = g - Gain - u)
    BY <1>2, <2>1 DEF Larger
  <2>3. CASE h = g - Gain - u
    BY <2>2, <2>3, ApproachLagging
  <2>4. CASE h = 0 /\ ~InStepAt(p, 0)
    <3>1. p \in Nat
      BY <1>6, <2>1, <2>4 DEF InStepAt, Larger
    <3>2. g > 0
      BY <1>6, <2>4 DEF InStepAt
    <3> QED
      BY <2>2, <2>4, <3>1, <3>2, ApproachLanding
  <2> QED
    BY <2>2, <2>3, <2>4
<1> QED
  BY <1>4, <1>5, <1>6

LEMMA Monotone == \A a, x, y \in Nat : x <= y => a * x <= a * y
<1> SUFFICES ASSUME NEW a \in Nat, NEW x \in Nat, NEW y \in Nat, x <= y
             PROVE  a * x <= a * y
  OBVIOUS
<1>1. PICK c \in Nat : y = x + c
  <2>1. y - x \in Nat /\ y = x + (y - x)
    OBVIOUS
  <2> QED
    BY <2>1
<1>2. a * y = a * x + a * c
  BY <1>1
<1>3. a * x \in Nat /\ a * c \in Nat
  BY Product
<1> QED
  BY <1>2, <1>3

(* The distance is at least what the next picture is ahead or behind. *)
LEMMA DistanceFar ==
    ASSUME SteadyFilm, NEW p \in Int, NEW g \in Nat,
           NEW m \in Nat, Gain * m > Distance(p, g)
    PROVE  Magnitude(p - g) < m
<1> USE GainType
<1> Gain * Gain \in Nat /\ Distance(p, g) \in Nat
  BY Product, DistanceType
<1>1. CASE p <= g
  <2>1. PICK x \in Nat : x = g - p
    BY <1>1
  <2>2. Distance(p, g) = Gain * x + 2 * (Lag * x) + 2 * (Gain * g)
                            + Extra(p, g)
    BY <2>1, DistanceBehind
  <2>3. Gain * x \in Nat /\ Lag * x \in Nat /\ Gain * g \in Nat /\ Gain * m \in Nat
    BY Product
  <2>4. ~(Gain * m <= Gain * x)
    BY <2>2, <2>3 DEF Extra
  <2>5. x < m
    BY <2>4, Monotone
  <2> QED
    BY <1>1, <2>1, <2>5 DEF Magnitude
<1>2. CASE p > g
  <2>1. PICK x \in Nat, a \in Nat : x = p - g /\ a = g + p /\ x <= a
    BY <1>2
  <2>2. Distance(p, g) = Gain * a + Extra(p, g)
    BY <1>2, <2>1, DistanceAhead
  <2>3. Gain * a \in Nat /\ Gain * x \in Nat /\ Gain * m \in Nat /\ Gain * x <= Gain * a
    BY <2>1, Product, Monotone
  <2>4. ~(Gain * m <= Gain * x)
    BY <2>2, <2>3 DEF Extra
  <2>5. x < m
    BY <2>4, Monotone
  <2> QED
    BY <1>2, <2>1, <2>5 DEF Magnitude
<1> QED
  BY <1>1, <1>2

-------------------------------------------------------------------------------
(* How far out of step playback can be after the first picture, when the   *)
(* sound is at most apart ahead or behind at the start.                    *)

\* How long the first picture lasts: a time stamp that far from 0 is a jump.
(* The first timer expires at Ready at the latest. *)
Ready == INITIAL_DELAY + Startup

First == IF Start < MAX_DELAY THEN Start ELSE INITIAL_DELAY

\* The longest that the second one may have to wait.
Second == Larger(2 * First, Ready + Lag)

Worst(apart) ==
    (Gain + 2 * Lag) * (apart + Period + Second) + 2 * (Gain * (Ready + Lag))
        + Gain * Gain

LEMMA ReadyType == Ready \in Nat
BY TimesAssumption, DelaysAssumption DEF Ready

LEMMA FirstType ==
    ASSUME SteadyFilm
    PROVE  /\ First \in Nat /\ Second \in Nat
           /\ Second >= 2 * First /\ Second >= Ready + Lag
BY GainType, ReadyType, TimesAssumption, DelaysAssumption DEF First, Second, Larger

LEMMA WorstIs ==
    ASSUME SteadyFilm, NEW apart \in Nat
    PROVE  /\ Worst(apart) \in Nat
           /\ \A n, o \in Nat :
                 n = apart + Period + Second /\ o = Ready + Lag
                 => Worst(apart) = Gain * n + 2 * (Lag * n) + 2 * (Gain * o) + Gain * Gain
<1> USE GainType, ReadyType, FirstType, TimesAssumption, DelaysAssumption
<1>1. \A n, o \in Nat :
         n = apart + Period + Second /\ o = Ready + Lag
         => Worst(apart) = Gain * n + 2 * (Lag * n) + 2 * (Gain * o) + Gain * Gain
  <2> SUFFICES ASSUME NEW n \in Nat, NEW o \in Nat,
                      n = apart + Period + Second, o = Ready + Lag
               PROVE  Worst(apart) = Gain * n + 2 * (Lag * n) + 2 * (Gain * o) + Gain * Gain
    OBVIOUS
  <2>1. Worst(apart) = (Gain + 2 * Lag) * n + 2 * (Gain * o) + Gain * Gain
    BY DEF Worst
  <2>2. (Gain + 2 * Lag) * n = Gain * n + 2 * (Lag * n)
    OBVIOUS
  <2> QED
    BY <2>1, <2>2
<1>2. PICK n \in Nat, o \in Nat : n = apart + Period + Second /\ o = Ready + Lag
  OBVIOUS
<1>3. /\ Gain * n \in Nat /\ Lag * n \in Nat /\ Gain * o \in Nat /\ Gain * Gain \in Nat
  BY Product
<1>4. Worst(apart) \in Nat
  <2>1. Worst(apart) = Gain * n + 2 * (Lag * n) + 2 * (Gain * o) + Gain * Gain
    BY <1>1, <1>2
  <2> QED
    BY <1>3, <2>1
<1> QED
  BY <1>1, <1>4

(* The first refresh, in numbers: the ideal time f of the second picture   *)
(* and the gap g to when its timer expires.                                *)
LEMMA FirstArithmetic ==
    ASSUME SteadyFilm, NEW apart \in Nat,
           NEW s \in -apart..apart, NEW late \in 0..Jitter,
           NEW start \in INITIAL_DELAY..Ready,
           NEW f \in {0, First, 2 * First},
           NEW g \in Nat, g = Larger(0, start + late + MIN_DELAY - f),
           NEW p \in Int, p = Period - f - s
    PROVE  Distance(p, g) <= Worst(apart)
<1> USE GainType, ReadyType, FirstType, TimesAssumption, DelaysAssumption
<1>1. PICK n \in Nat, o \in Nat : n = apart + Period + Second /\ o = Ready + Lag
  OBVIOUS
<1>2. Worst(apart) = Gain * n + 2 * (Lag * n) + 2 * (Gain * o) + Gain * Gain
  BY <1>1, WorstIs
<1>3. f \in Nat /\ f + g <= Second /\ g <= o
  BY <1>1 DEF Larger
<1>4. /\ Gain * Gain \in Nat /\ Gain * n \in Nat /\ Lag * n \in Nat /\ Gain * o \in Nat
      /\ Gain * g \in Nat
  BY Product
<1>5. CASE p <= g
  <2>1. PICK x \in Nat : x = g - p
    BY <1>5
  <2>2. x <= n
    BY <1>1, <1>3, <2>1
  <2> HIDE GainType, ReadyType, FirstType, TimesAssumption, DelaysAssumption
  <2>3. Distance(p, g) = Gain * x + 2 * (Lag * x) + 2 * (Gain * g)
                            + Extra(p, g)
    BY <2>1, DistanceBehind
  <2>4. Gain * x <= Gain * n /\ Lag * x <= Lag * n /\ Gain * g <= Gain * o
    BY <1>3, <2>2, GainType, Monotone
  <2>5. Gain * x \in Nat /\ Lag * x \in Nat
    BY GainType, Product
  <2> QED
    BY <1>2, <1>4, <2>3, <2>4, <2>5 DEF Extra
<1>6. CASE p > g
  <2>1. PICK a \in Nat : a = g + p
    BY <1>6
  <2>2. PICK m \in Nat : m = n + o
    OBVIOUS
  <2>3. a <= m
    BY <1>1, <1>3, <2>1, <2>2
  <2>4. p >= g
    BY <1>6
  <2> HIDE GainType, ReadyType, FirstType, TimesAssumption, DelaysAssumption
  <2>5. Distance(p, g) = Gain * a + Extra(p, g)
    BY <1>6, <2>1, <2>4, DistanceAhead
  <2>6. Gain * a <= Gain * m /\ Gain * m = Gain * n + Gain * o
    BY <2>2, <2>3, GainType, Monotone
  <2>7. Gain * a \in Nat
    BY GainType, Product
  <2> QED
    BY <1>2, <1>4, <2>5, <2>6, <2>7 DEF Extra
<1> QED
  BY <1>5, <1>6

-------------------------------------------------------------------------------
(* The refreshes of a film are such steps, from the first one on.          *)

Gap == alarm - frame_timer

LEMMA GapType ==
    ASSUME TypeOK, RefreshSoon
    PROVE  Gap \in Nat
BY DEF TypeOK, RefreshSoon, Gap

LEMMA InStepIs ==
    ASSUME TypeOK, RefreshSoon
    PROVE  InStep <=> shown > 0 /\ InStepAt(Planned, Gap)
BY TimesAssumption, DelaysAssumption DEF TypeOK, RefreshSoon, InStep, InStepAt, Gap, Lag

\* What a refresh that believes in a duration does to the two figures.
LEMMA RefreshNumbers ==
    ASSUME SteadyFilm, TypeOK, RefreshSoon, Refresh,
           NEW pts \in Int, pts = Head(pictq).pts,
           NEW delay \in Nat, delay = Lasts(pts)
    PROVE  \E late \in 0..Jitter, f \in Nat :
              /\ f = frame_timer + Adjusted(delay, pts - AudioClock(alarm + late))
              /\ frame_timer' = f
              /\ Planned' = pts + Period - AudioClock(f)
              /\ Gap' = Larger(0, alarm + late + MIN_DELAY - f)
              /\ shown' = shown + 1 /\ stalls' = stalls
<1>1. PICK late \in 0..Jitter : now' = alarm + late
  BY DEF Refresh
<1>2. /\ late \in Nat /\ alarm \in Nat /\ frame_timer \in Nat /\ skew \in Int
      /\ Start \in Nat /\ MIN_DELAY \in Nat
  BY TimesAssumption, DelaysAssumption DEF TypeOK
<1>3. PICK t \in Nat, d \in Int : t = alarm + late /\ d = pts - AudioClock(t)
  BY <1>2 DEF AudioClock
<1>4. PICK f : f = frame_timer + Adjusted(delay, d)
  OBVIOUS
<1>5. f \in Nat
  BY <1>2, <1>4, AdjustedType
<1>6. frame_timer' = f
  BY <1>1, <1>3, <1>4 DEF Refresh
<1>7. Planned' = pts + Period - AudioClock(f)
  <2>1. frame_last_pts' = pts /\ skew' = skew
    BY DEF Refresh
  <2> QED
    BY <1>6, <2>1 DEF Planned, AudioClock
<1>8. Gap' = Larger(0, t + MIN_DELAY - f)
  <2>1. PICK w \in Int : w = t + ActualDelay(f, t)
    BY <1>2, <1>5 DEF ActualDelay, Larger
  <2>2. alarm' = w
    BY <1>1, <1>3, <1>6, <2>1 DEF Refresh
  <2>3. w - f = Larger(0, t + MIN_DELAY - f)
    BY <1>2, <1>5, <2>1 DEF ActualDelay, Larger
  <2> QED
    BY <1>6, <2>2, <2>3 DEF Gap
<1>9. shown' = shown + 1 /\ stalls' = stalls
  BY DEF Refresh
<1> QED
  BY <1>3, <1>4, <1>5, <1>6, <1>7, <1>8, <1>9

(* Until the first picture is shown the timing is the constructor's, and   *)
(* that picture is the film's first.                                       *)
Opening ==
    /\ skew \in Skews
    /\ shown = 0 =>
          /\ Coming = Start
          /\ frame_last_pts = 0 /\ frame_last_delay = INITIAL_DELAY
          /\ frame_timer = 0
          /\ stalls = 0 => alarm \in INITIAL_DELAY..Ready

LEMMA NextOpening ==
    ASSUME SteadyFilm, TypeOK, TypeOK', ClockTrue, Opening, [Next]_vars
    PROVE  Opening'
<1>1. skew' = skew
  BY DEF Next, Decode, RefreshEmpty, Refresh, Terminated, vars
<1>2. CASE Decode
  <2>2. truth \in Nat /\ pictq' = Append(pictq, [pts |-> truth, truth |-> truth])
    BY <1>2, SteadyDecode
  <2>3. PICK q, p : /\ q = pictq' /\ q = Append(pictq, p)
                    /\ p = [pts |-> truth, truth |-> truth]
    BY <2>2
  <2>4. p \in Picture /\ p.pts = truth /\ pictq \in Seq(Picture)
    BY <2>2, <2>3 DEF Picture, TypeOK
  <2>5. q # <<>> /\ Head(q) = IF pictq = <<>> THEN p ELSE Head(pictq)
    BY <2>3, <2>4
  <2>6. Coming' = Coming
    BY <2>3, <2>4, <2>5 DEF Coming
  <2> QED
    BY <1>1, <1>2, <2>6 DEF Decode, Opening, timingVars
<1>3. CASE RefreshEmpty
  <2>1. /\ stalls' # 0
        /\ UNCHANGED <<truth, pictq, shown, frame_last_pts, frame_last_delay, frame_timer>>
    BY <1>3 DEF RefreshEmpty, TypeOK, timingVars, videoVars, filmVars
  <2> QED
    BY <1>1, <2>1 DEF Opening, Coming
<1>4. CASE Refresh
  <2>1. shown' # 0
    BY <1>4 DEF Refresh, TypeOK
  <2> QED
    BY <1>1, <2>1 DEF Opening
<1>5. CASE UNCHANGED vars
  BY <1>5 DEF vars, videoVars, filmVars, timingVars, Opening, Coming
<1> QED
  BY <1>2, <1>3, <1>4, <1>5 DEF Next, Terminated

(* As long as the decoder keeps up, each picture shown out of step has     *)
(* taken Gain * Gain off what there was to make good at the beginning.     *)
Converging(apart) ==
    stalls = 0 /\ shown > 0 =>
        \/ InStep
        \/ (shown - 1) * (Gain * Gain) + Distance(Planned, Gap) <= Worst(apart)

LEMMA FirstConverges ==
    ASSUME SteadyFilm, NEW apart \in Nat, Skews \subseteq -apart..apart,
           TypeOK, RefreshSoon, Opening, Refresh, shown = 0, stalls = 0
    PROVE  Converging(apart)'
<1>1. /\ Head(pictq).pts = Start /\ Start \in Nat /\ Start > 0
      /\ frame_timer = 0 /\ alarm \in INITIAL_DELAY..Ready
  BY TimesAssumption DEF Opening, Refresh, Coming, SteadyFilm
<1>2. Lasts(Start) = First /\ First \in Nat
  BY <1>1, FirstType, TimesAssumption, DelaysAssumption DEF Lasts, First, Opening
<1>3. PICK late \in 0..Jitter, f \in Nat :
         /\ f = frame_timer + Adjusted(First, Start - AudioClock(alarm + late))
         /\ Planned' = Start + Period - AudioClock(f)
         /\ Gap' = Larger(0, alarm + late + MIN_DELAY - f)
         /\ shown' = shown + 1
  <2>1. PICK pts \in Int, delay \in Nat : pts = Start /\ delay = First
    BY <1>1, <1>2
  <2>2. pts = Head(pictq).pts /\ delay = Lasts(pts)
    BY <1>1, <1>2, <2>1
  <2> QED
    BY <2>1, <2>2, RefreshNumbers
<1>4. PICK s \in -apart..apart : s = skew
  BY DEF Opening
<1>5. f \in {0, First, 2 * First}
  <2>1. Start - AudioClock(alarm + late) \in Int
    BY <1>1, <1>4, DelaysAssumption, TimesAssumption DEF AudioClock
  <2> QED
    BY <1>1, <1>2, <1>3, <2>1, AdjustedType
<1>6. PICK p \in Int, g \in Nat :
         /\ p = Planned' /\ p = Period - f - s
         /\ g = Gap' /\ g = Larger(0, alarm + late + MIN_DELAY - f)
  <2>1. Period - f - s \in Int /\ Larger(0, alarm + late + MIN_DELAY - f) \in Nat
    BY <1>1, ReadyType, DelaysAssumption, TimesAssumption DEF Larger
  <2>2. Planned' = Period - f - s
    BY <1>1, <1>3, <1>4, TimesAssumption DEF AudioClock
  <2>3. Gap' = Larger(0, alarm + late + MIN_DELAY - f)
    BY <1>1, <1>3
  <2> QED
    BY <2>1, <2>2, <2>3
<1>7. Distance(p, g) <= Worst(apart)
  BY <1>1, <1>5, <1>6, FirstArithmetic
<1>8. (shown' - 1) * (Gain * Gain) = 0
  <2>1. shown' - 1 = 0 /\ Gain * Gain \in Nat
    BY <1>3, GainType, Product
  <2> QED
    BY <2>1
<1>9. Distance(p, g) \in Nat
  BY DistanceType
<1>10. (shown' - 1) * (Gain * Gain) + Distance(p, g) <= Worst(apart)
  BY <1>7, <1>8, <1>9
<1> QED
  BY <1>6, <1>10 DEF Converging

LEMMA LaterConverges ==
    ASSUME SteadyFilm, NEW apart \in Nat,
           Gain * (AV_NOSYNC_THRESHOLE - Jitter) > Worst(apart),
           TypeOK, RefreshSoon, Spaced, Converging(apart), Refresh, shown > 0, stalls = 0
    PROVE  Converging(apart)'
<1>1. CASE InStep
  BY <1>1, RefreshKeepsStep DEF Converging
<1>2. CASE ~InStep
  <2>1. PICK pts \in Int : pts = frame_last_pts + Period /\ pts = Head(pictq).pts
    BY TimesAssumption DEF Refresh, Spaced, Coming, TypeOK
  <2>2. Lasts(pts) = Period /\ Period \in Nat
    BY <2>1, TimesAssumption, DelaysAssumption DEF Lasts, SteadyFilm, TypeOK
  <2>3. PICK late \in 0..Jitter, f \in Nat :
           /\ f = frame_timer + Adjusted(Period, pts - AudioClock(alarm + late))
           /\ frame_timer' = f
           /\ Planned' = pts + Period - AudioClock(f)
           /\ Gap' = Larger(0, alarm + late + MIN_DELAY - f)
           /\ shown' = shown + 1
    BY <2>1, <2>2, RefreshNumbers
  <2>4. PICK p \in Int, g \in Nat : p = Planned /\ g = Gap
    BY GapType, TimesAssumption DEF Planned, AudioClock, TypeOK
  <2>5. PICK d \in Int : d = p - g - late
    BY TimesAssumption
  <2>6. d = pts - AudioClock(alarm + late)
    BY <2>1, <2>4, <2>5, TimesAssumption DEF Planned, Gap, AudioClock, TypeOK
  <2>7. PICK a \in Int : a = Adjusted(Period, d)
    BY <2>2, AdjustedType
  <2>8. PICK q \in Int, h \in Nat :
           /\ q = Planned' /\ q = p + Period - a
           /\ h = Gap' /\ h = Larger(0, g + late + MIN_DELAY - a)
    <3>1. f = frame_timer + a
      BY <2>3, <2>6, <2>7
    <3>2. p + Period - a \in Int /\ Larger(0, g + late + MIN_DELAY - a) \in Nat
      BY DelaysAssumption, TimesAssumption DEF Larger
    <3>3. pts + Period - AudioClock(f) = p + Period - a
      BY <2>1, <2>4, <3>1, TimesAssumption DEF Planned, AudioClock, TypeOK
    <3>4. alarm + late + MIN_DELAY - f = g + late + MIN_DELAY - a
      BY <2>4, <3>1, DelaysAssumption, TimesAssumption DEF Gap, TypeOK
    <3> QED
      BY <2>3, <3>2, <3>3, <3>4
  <2>9. ~InStepAt(p, g)
    BY <1>2, <2>4, InStepIs
  <2>10. (shown - 1) * (Gain * Gain) + Distance(p, g) <= Worst(apart)
    BY <1>2, <2>4 DEF Converging
  <2>11. PICK k \in Nat : k = shown - 1
    BY DEF TypeOK
  <2>12. /\ Distance(p, g) \in Nat /\ Distance(q, h) \in Nat /\ Worst(apart) \in Nat
         /\ Gain * Gain \in Nat /\ k * (Gain * Gain) \in Nat
    BY <2>11, DistanceType, WorstIs, GainType, Product
  <2>13. Magnitude(d) < AV_NOSYNC_THRESHOLE
    <3>1. PICK m \in Nat : m = AV_NOSYNC_THRESHOLE - Jitter
      BY TimesAssumption, DelaysAssumption DEF SteadyFilm
    <3>2. Distance(p, g) <= Worst(apart)
      BY <2>10, <2>11, <2>12
    <3>3. Gain * m > Distance(p, g)
      BY <2>12, <3>1, <3>2, GainType, Product
    <3>4. Magnitude(p - g) < m
      BY <3>3, DistanceFar
    <3> QED
      BY <2>5, <3>1, <3>4, TimesAssumption, DelaysAssumption DEF Magnitude
  <2>14. InStepAt(q, h) \/ Distance(q, h) + Gain * Gain <= Distance(p, g)
    BY <2>5, <2>7, <2>8, <2>9, <2>13, ApproachArithmetic
  <2>15. CASE InStepAt(q, h)
    <3>1. shown' > 0
      BY <2>3 DEF TypeOK
    <3>2. PICK w \in Nat, v \in Nat : w = alarm' /\ v = frame_timer'
      <4>1. alarm' \in Nat /\ frame_timer' \in Nat
        BY RefreshFacts
      <4> QED
        BY <4>1, Zenon
    <3>3. h = w - v
      <4>1. Gap' = alarm' - frame_timer'
        BY DEF Gap
      <4> QED
        BY <2>8, <3>2, <4>1, Zenon
    <3>4. /\ q \in -Period..(Period + Jitter)
          /\ w = v \/ (w - v <= MIN_DELAY + Jitter /\ q \in 0..(MIN_DELAY + 2 * Jitter))
      BY <2>15, <3>3, TimesAssumption, DelaysAssumption DEF InStepAt, Lag
    <3>5. InStep'
      BY <2>8, <3>1, <3>2, <3>4 DEF InStep
    <3> QED
      BY <3>5 DEF Converging
  <2>16. CASE Distance(q, h) + Gain * Gain <= Distance(p, g)
    <3>1. shown' - 1 = k + 1
      BY <2>3, <2>11 DEF TypeOK
    <3>2. (k + 1) * (Gain * Gain) = k * (Gain * Gain) + Gain * Gain
      BY GainType
    <3>3. (k + 1) * (Gain * Gain) + Distance(q, h) <= Worst(apart)
      BY <2>10, <2>11, <2>12, <2>16, <3>2
    <3> QED
      BY <2>8, <3>1, <3>3 DEF Converging
  <2> QED
    BY <2>14, <2>15, <2>16
<1> QED
  BY <1>1, <1>2

LEMMA NextConverges ==
    ASSUME SteadyFilm, NEW apart \in Nat, Skews \subseteq -apart..apart,
           Gain * (AV_NOSYNC_THRESHOLE - Jitter) > Worst(apart),
           TypeOK, RefreshSoon, Spaced, Opening, Converging(apart), [Next]_vars
    PROVE  Converging(apart)'
<1>1. CASE Refresh
  <2>1. CASE stalls # 0
    BY <1>1, <2>1 DEF Refresh, Converging
  <2>2. CASE stalls = 0 /\ shown = 0
    BY <1>1, <2>2, FirstConverges
  <2>3. CASE stalls = 0 /\ shown > 0
    BY <1>1, <2>3, LaterConverges
  <2> QED
    BY <2>1, <2>2, <2>3 DEF TypeOK
<1>2. CASE UNCHANGED <<timingVars, alarm, skew, stalls>>
  BY <1>2 DEF Converging, InStep, Planned, Gap, AudioClock, timingVars
<1>3. CASE RefreshEmpty
  BY <1>3, BoundsAssumption DEF RefreshEmpty, TypeOK, Converging
<1> QED
  BY <1>1, <1>2, <1>3 DEF Next, Decode, Terminated, vars

-------------------------------------------------------------------------------
(* Pictures enough to make good what a sound that is at most apart ahead   *)
(* or behind can ask for.  The second condition keeps playback where the   *)
(* code still corrects it: a sound beyond AV_NOSYNC_THRESHOLE is given up. *)
Correctable(apart) ==
    /\ Skews \subseteq -apart..apart
    /\ Gain * (AV_NOSYNC_THRESHOLE - Jitter) > Worst(apart)

Enough(n, apart) == (n - 1) * (Gain * Gain) > Worst(apart)

LEMMA ConvergedInStep ==
    ASSUME SteadyFilm, NEW apart \in Nat, TypeOK, RefreshSoon, Converging(apart),
           stalls = 0, shown > 0, Enough(shown, apart)
    PROVE  InStep
<1> SUFFICES ASSUME ~InStep PROVE FALSE
  OBVIOUS
<1>1. PICK p \in Int, g \in Nat, k \in Int :
         p = Planned /\ g = Gap /\ k = (shown - 1) * (Gain * Gain)
  <2>1. Planned \in Int
    BY TimesAssumption DEF Planned, AudioClock, TypeOK
  <2>2. (shown - 1) * (Gain * Gain) \in Int
    BY GainType DEF TypeOK
  <2> QED
    BY <2>1, <2>2, GapType
<1>2. k + Distance(p, g) <= Worst(apart)
  BY <1>1 DEF Converging
<1>3. k > Worst(apart)
  BY <1>1 DEF Enough
<1>4. Distance(p, g) \in Nat /\ Worst(apart) \in Nat
  BY DistanceType, WorstIs
<1> QED
  BY <1>2, <1>3, <1>4

InStepOnceShown(apart) == stalls = 0 /\ shown > 0 /\ Enough(shown, apart) => InStep

(* While the decoder keeps up, a steady film has come into step with its   *)
(* sound once Enough pictures are shown, and is in step at every later     *)
(* one, however far ahead or behind the sound is when it starts: hurrying, *)
(* the timer that lags behind after it, and waiting end                    *)
(* (video_refresh_timer 288-317).                                          *)
THEOREM StepReached ==
    ASSUME SteadyFilm, NEW apart \in Nat, Correctable(apart)
    PROVE  Spec => []InStepOnceShown(apart)
<1> DEFINE Inv == /\ TypeOK /\ RefreshSoon /\ ClockTrue /\ StampsTrue /\ Spaced
                  /\ Opening /\ Converging(apart)
<1>1. Init => Inv
  <2>1. Init => ClockTrue /\ StampsTrue /\ Spaced /\ Opening /\ Converging(apart)
    <3> SUFFICES ASSUME Init
                 PROVE  ClockTrue /\ StampsTrue /\ Spaced /\ Opening /\ Converging(apart)
      OBVIOUS
    <3>1. ClockTrue /\ StampsTrue /\ Spaced /\ Converging(apart)
      BY TimesAssumption DEF Init, ClockTrue, StampsTrue, Spaced, Converging
    <3>2. alarm \in INITIAL_DELAY..Ready
      BY TimesAssumption, DelaysAssumption DEF Init, Ready
    <3>3. Opening
      BY <3>2 DEF Init, Opening, Coming
    <3> QED
      BY <3>1, <3>3
  <2> QED
    BY <2>1, InitType, InitSoon
<1>2. Inv /\ [Next]_vars => Inv'
  <2> SUFFICES ASSUME Inv, [Next]_vars PROVE Inv'
    OBVIOUS
  <2>1. TypeOK' /\ RefreshSoon'
    BY NextType, NextSoon
  <2>2. ClockTrue' /\ StampsTrue'
    BY NextStamps DEF SteadyFilm
  <2>3. Spaced'
    BY <2>1, NextSpaced
  <2>4. Opening'
    BY <2>1, NextOpening
  <2>5. Converging(apart)'
    BY NextConverges DEF Correctable
  <2> QED
    BY <2>1, <2>2, <2>3, <2>4, <2>5
<1>3. Inv => InStepOnceShown(apart)
  BY ConvergedInStep DEF InStepOnceShown
<1> QED
  BY <1>1, <1>2, <1>3, PTL DEF Spec

(* A film of Enough pictures whose decoder keeps up ends in step           *)
(* (video_refresh_timer 288-317).                                          *)
THEOREM ComesIntoStepCorrect ==
    ASSUME SteadyFilm, Stalls = 0,
           NEW apart \in Nat, Correctable(apart), Enough(Film, apart)
    PROVE  Spec => []ComesIntoStep
<1>1. Film > 0
  <2>1. Worst(apart) \in Nat /\ Gain * Gain \in Nat
    BY WorstIs, GainType, Product
  <2>2. CASE Film = 0
    <3>1. (0 - 1) * (Gain * Gain) <= 0
      BY <2>1
    <3> QED
      BY <2>1, <2>2, <3>1 DEF Enough
  <2> QED
    BY <2>2, BoundsAssumption
<1>2. TypeOK /\ InStepOnceShown(apart) => ComesIntoStep
  BY <1>1 DEF TypeOK, InStepOnceShown, ComesIntoStep
<1>3. Spec => []InStepOnceShown(apart)
  BY StepReached
<1> QED
  BY <1>2, <1>3, TypeCorrect, PTL
===============================================================================
