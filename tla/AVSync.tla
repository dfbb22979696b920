--------------------------------- MODULE AVSync ---------------------------------
(***************************************************************************)
(* How a DecoderVideo (jni/src/videodecoder.cpp) times its pictures:       *)
(*   - synchronize() gives every picture a time stamp, on the video thread,*)
(*   - video_refresh_timer() shows a picture and computes, from its time   *)
(*     stamp, the audio clock and the time of day, when to show the next.  *)
(* In between is the ring, of which FrameChannel says what matters here.   *)
(*                                                                         *)
(* Times are whole milliseconds (or coarser units), where the code has     *)
(* doubles in seconds.  The picture's own place on the film's time axis,   *)
(* truth, is what its time stamp should be; it follows what the codec says *)
(* of a picture's duration (libavcodec/avcodec.h 1161-1167, 1444-1451), not*)
(* what synchronize() makes of it.                                         *)
(***************************************************************************)
EXTENDS Integers, Sequences

CONSTANTS
    Start,              \* where the film's time axis begins
    Period,             \* av_q2d(mStream->codec->time_base)
    Repeats,            \* values of repeat_pict
    Ticks,              \* values of codec->ticks_per_frame
    Errors,             \* how far off a wrong time stamp may be
    Unset,              \* what mVideoClock may hold before it is set
    Startup,            \* the longest from the constructor to the first timer
    Skews,              \* how far the sound is ahead when playback begins
    Jitter,             \* how late a timer's event may be handled
    INITIAL_DELAY,      \* 40e-3: the first timer, and frame_last_delay
    MIN_DELAY,          \* 0.010
    MAX_DELAY,          \* 1.0
    AV_SYNC_THRESHOLD,
    AV_NOSYNC_THRESHOLE,
    N,                  \* VIDEO_PICTURE_QUEUE_SIZE
    Film,               \* bound: pictures in the film
    Strays,             \* bound: wrong time stamps
    Stalls              \* bound: refreshes that find the ring empty

ASSUME TimesAssumption ==
    /\ Start \in Nat /\ Period \in Nat
    /\ Repeats \subseteq Nat
    /\ Ticks \subseteq Nat \ {0}
    /\ Errors \subseteq Int
    /\ Unset \subseteq Int
    /\ Startup \in Nat
    /\ Skews \subseteq Int
    /\ Jitter \in Nat

ASSUME DelaysAssumption ==
    /\ MIN_DELAY \in Nat \ {0}
    /\ INITIAL_DELAY \in Nat
    /\ MAX_DELAY \in Nat /\ INITIAL_DELAY < MAX_DELAY
    /\ AV_SYNC_THRESHOLD \in Nat
    /\ AV_NOSYNC_THRESHOLE \in Nat

ASSUME BoundsAssumption ==
    N \in Nat \ {0} /\ Film \in Nat /\ Strays \in Nat /\ Stalls \in Nat

VARIABLES
    \* the film
    ticks_per_frame,
    truth,              \* where the next picture is on the film's time axis
    strays,             \* wrong time stamps so far
    \* the video thread
    decoded,            \* pictures decoded so far
    mVideoClock,
    pictq,              \* the pictures in the ring: time stamp and truth
    \* the event thread
    frame_last_pts, frame_last_delay, frame_timer,
    \* the world
    now,                \* the last time the event thread looked at the clock
    alarm,              \* when the timer expires
    skew,
    stalls,
    shown,              \* pictures shown so far
    diff                \* how far the last one was ahead of the sound

filmVars == <<ticks_per_frame, truth, strays>>
videoVars == <<filmVars, decoded, mVideoClock>>
timingVars == <<frame_last_pts, frame_last_delay, frame_timer, shown, diff>>
vars == <<videoVars, pictq, timingVars, now, alarm, skew, stalls>>

(* The constructor, at 0 on the clock, and schedule_refresh(40) of decode(),*)
(* when the decoder's threads have started.                                *)
Init ==
    /\ ticks_per_frame \in Ticks
    /\ truth = Start
    /\ strays = 0
    /\ decoded = 0
    /\ mVideoClock \in Unset
    /\ pictq = <<>>
    /\ frame_last_pts = 0
    /\ frame_last_delay = INITIAL_DELAY
    /\ frame_timer = 0
    /\ now \in 0..Startup
    /\ alarm = now + INITIAL_DELAY
    /\ skew \in Skews
    /\ stalls = 0
    /\ shown = 0
    /\ diff = 0

-------------------------------------------------------------------------------
(* The video thread.                                                       *)

\* Mutant: a repeated picture does not last longer.
FrameDelay_NoRepeat(repeat) == Period

\* frame_delay: a repeated picture lasts half a period longer per repetition.
FrameDelay(repeat) == Period + (repeat * Period) \div 2

(* synchronize(): a time stamp of 0 stands for none. *)
Stamp(pts) == IF pts # 0 THEN pts ELSE mVideoClock

\* extra_delay = repeat_pict / (2*fps), and a picture lasts so many ticks.
Duration(repeat) ==
    LET frame == ticks_per_frame * Period IN frame + (repeat * frame) \div 2

(* What process() takes for the next picture's time stamp: the right one;  *)
(* none, which it turns into 0, but for the first picture; or a wrong one, *)
(* as any best effort may be.                                              *)
GivenRight == IF decoded = 0 THEN {truth} ELSE {truth, 0}
GivenWrong == {truth + error : error \in Errors} \cup {0}

(* process(): a picture is complete and goes into the ring.                *)
Decode ==
    /\ decoded < Film
    /\ Len(pictq) < N
    /\ \E given \in GivenRight \cup GivenWrong, repeat \in Repeats :
          /\ IF given \in GivenRight
             THEN UNCHANGED strays
             ELSE strays < Strays /\ strays' = strays + 1
          /\ pictq' = Append(pictq, [pts |-> Stamp(given), truth |-> truth])
          /\ mVideoClock' = Stamp(given) + FrameDelay(repeat)
          /\ truth' = truth + Duration(repeat)
    /\ decoded' = decoded + 1
    /\ UNCHANGED <<ticks_per_frame, timingVars, now, alarm, skew, stalls>>

-------------------------------------------------------------------------------
(* The event thread.                                                       *)

Larger(a, b) == IF a >= b THEN a ELSE b
Magnitude(a) == IF a >= 0 THEN a ELSE -a

\* Mutant: a time stamp that jumps ahead is believed.
Lasts_AnyJump(pts) ==
    IF pts <= frame_last_pts THEN frame_last_delay ELSE pts - frame_last_pts

(* How long the picture lasts, if its predecessor was shown in time: time  *)
(* stamps that run backwards or jump are not believed.                     *)
Lasts(pts) ==
    LET delay == pts - frame_last_pts IN
    IF delay <= 0 \/ delay >= MAX_DELAY THEN frame_last_delay ELSE delay

\* getAudioClock(): the sound plays on at its own pace.
AudioClock(time) == Start + time + skew

\* Mutant: the video waits when it is late and hurries when it is early.
Adjusted_Reversed(delay, ahead) ==
    CASE Magnitude(ahead) >= AV_NOSYNC_THRESHOLE -> delay
      [] ahead <= -Larger(delay, AV_SYNC_THRESHOLD) -> 2 * delay
      [] ahead > Larger(delay, AV_SYNC_THRESHOLD) -> 0
      [] OTHER -> delay

(* Hurry if the sound is ahead by a picture, wait if it is behind, and do  *)
(* neither if the two have nothing to do with each other.                  *)
Adjusted(delay, ahead) ==
    CASE Magnitude(ahead) >= AV_NOSYNC_THRESHOLE -> delay
      [] ahead <= -Larger(delay, AV_SYNC_THRESHOLD) -> 0
      [] ahead > Larger(delay, AV_SYNC_THRESHOLD) -> 2 * delay
      [] OTHER -> delay

\* Mutant: the comparison with MIN_DELAY is the wrong way round.
ActualDelay_Swapped(timer, time) ==
    IF timer - time < MIN_DELAY THEN timer - time ELSE MIN_DELAY

(* actual_delay, from the ideal time of the next picture. *)
ActualDelay(timer, time) == Larger(timer - time, MIN_DELAY)

\* video_refresh_timer() with an empty ring: once more in a millisecond.
RefreshEmpty ==
    /\ pictq = <<>>
    /\ stalls < Stalls
    /\ stalls' = stalls + 1
    /\ \E late \in 0..Jitter : now' = alarm + late
    /\ alarm' = now' + 1
    /\ UNCHANGED <<videoVars, pictq, timingVars, skew>>

\* video_refresh_timer() with a picture.
Refresh ==
    /\ pictq # <<>>
    /\ \E late \in 0..Jitter : now' = alarm + late
    /\ LET pts == Head(pictq).pts
           delay == Lasts(pts)
       IN /\ frame_last_delay' = delay
          /\ frame_last_pts' = pts
          /\ diff' = pts - AudioClock(now')
          /\ frame_timer' = frame_timer + Adjusted(delay, diff')
    /\ alarm' = now' + ActualDelay(frame_timer', now')
    /\ pictq' = Tail(pictq)
    /\ shown' = shown + 1
    /\ UNCHANGED <<videoVars, skew, stalls>>

\* The film is over and the ring empty for as long as it is looked at.
Terminated ==
    /\ pictq = <<>>
    /\ decoded = Film
    /\ UNCHANGED vars

Next == Decode \/ RefreshEmpty \/ Refresh \/ Terminated

Spec == Init /\ [][Next]_vars
-------------------------------------------------------------------------------
TypeOK ==
    /\ ticks_per_frame \in Ticks
    /\ truth \in Nat
    /\ strays \in 0..Strays
    /\ decoded \in 0..Film
    /\ mVideoClock \in Int
    /\ pictq \in Seq([pts : Int, truth : Nat])
    /\ frame_last_pts \in Int
    /\ frame_last_delay \in 0..(MAX_DELAY - 1)
    /\ frame_timer \in Nat
    /\ now \in Nat
    /\ alarm \in Nat
    /\ skew \in Int
    /\ stalls \in 0..Stalls
    /\ shown \in Nat
    /\ diff \in Int

(* What synchronize() announces in its comments (86-97): a picture keeps   *)
(* the time stamp it was given, and one without gets the place where its   *)
(* predecessors, repetitions included, end.  It can be asked for only      *)
(* while all time stamps are right, and of a codec whose time_base is the  *)
(* duration of a picture: synchronize() does not look at ticks_per_frame.  *)
StampsTrue ==
    strays = 0 /\ ticks_per_frame = 1
        => \A i \in 1..Len(pictq) : pictq[i].pts = pictq[i].truth

(* The timer never expires before the picture's ideal time, and that time  *)
(* never runs away from the clock: whatever the time stamps and the sound  *)
(* do, the next refresh comes within twice the last believed duration      *)
(* (288-317).                                                              *)
RefreshSoon ==
    /\ frame_timer <= alarm
    /\ alarm - now <= Larger(2 * frame_last_delay, Larger(INITIAL_DELAY, MIN_DELAY))

(* How far the next picture will be ahead of the sound at its ideal time.  *)
Planned == frame_last_pts + Period - AudioClock(frame_timer)

(* In step: the next picture is due within its own duration of the sound,  *)
(* and after hurrying less than a picture's duration has to be made good.  *)
InStep ==
    /\ shown > 0
    /\ Planned \in -Period..(Period + Jitter)
    /\ \/ alarm = frame_timer
       \/ /\ alarm - frame_timer <= MIN_DELAY + Jitter
          /\ Planned \in 0..(MIN_DELAY + 2 * Jitter)

(* Playback that is in step stays in step while the decoder keeps up, and  *)
(* every picture of it is shown within its duration of the sound: hurrying *)
(* and waiting do not make it swing (296-309).                             *)
KeepsStep ==
    [][InStep /\ stalls' = stalls =>
          /\ InStep'
          /\ shown' # shown => Magnitude(diff') <= Period + Jitter]_vars

(* Whatever the sound's head start or delay, playback comes into step.     *)
ComesIntoStep == shown = Film => InStep

===============================================================================
