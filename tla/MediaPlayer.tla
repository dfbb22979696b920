------------------------------ MODULE MediaPlayer ------------------------------
(***************************************************************************)
(* One native MediaPlayer object (jni/src/mediaplayer.cpp) and the threads *)
(* that share it:                                                          *)
(*   - the UI thread: the activity opens the file, the surface's callbacks *)
(*     prepare, start and suspend (MovieView.java),                        *)
(*   - a player thread for every start(): decodeMovie(),                   *)
(*   - the two threads of the decoders it creates, and the video decoder's *)
(*     event thread, which nobody joins,                                   *)
(*   - AudioTrack's thread, which calls DecoderAudio::cbf.                 *)
(*                                                                         *)
(* A decoder is reduced to what the others see of it: the packets in its   *)
(* queue, the abort flag (PacketFifo) and where its threads are            *)
(* (VideoDecoder).  Player thread p creates decoders <<"audio", p>> and    *)
(* <<"video", p>>.                                                         *)
(*                                                                         *)
(* Following a null, unset or dangling pointer may end the process: crashed*)
(* says through what.  Where it may also go unnoticed the model has both.  *)
(***************************************************************************)
EXTENDS Integers

CONSTANTS
    Players,               \* player threads: one per start() accepted
    NULL,                  \* the null pointer, and no thread
    Wild,                  \* what a pointer nobody has set may hold
    MAX_PLAYER_QUEUE_SIZE,
    Film                   \* bound: packets in the file

ASSUME PlayersAssumption == NULL \notin Players /\ Wild \notin Players /\ NULL # Wild
ASSUME BoundsAssumption == MAX_PLAYER_QUEUE_SIZE \in Nat /\ Film \in Nat

Kinds == {"audio", "video"}
Decoders == Kinds \X Players

VARIABLES
    crashed,        \* "no", or what the process died of
    \* MediaPlayer
    mCurrentState,
    input,          \* pFormatCtx: "none", "open" or "closed"
    left,           \* packets av_read_frame has not delivered yet
    mDecoder,       \* mDecoderAudio and mDecoderVideo
    mPlayerThread,  \* the thread started last
    ppc,            \* ppc[p]: where player thread p is
    \* the pointer to AudioTrack: "null", "registered", "set", "on" or
    \* "deleted", and the track's user pointer
    track, trackUser,
    \* the decoders, by kind and creator
    object,         \* object[d]: "none", "alive" or "deleted"
    thread,         \* thread[d]: its own thread
    mRunning, packets, aborted,
    events,         \* events[p]: the event thread of <<"video", p>>
    \* the UI thread: where it is, the decoder it stops, and whether the
    \* suspend found a session that was under way (see Settled)
    upc, ukind, utarget, settled

playerVars  == <<mCurrentState, input, left, mDecoder, mPlayerThread>>
trackVars   == <<track, trackUser>>
decoderVars == <<object, thread, mRunning, packets, aborted, events>>
uiVars      == <<upc, ukind, utarget, settled>>
vars == <<crashed, playerVars, ppc, trackVars, decoderVars, uiVars>>

States == {"ERROR", "PREPARED", "DECODED", "STARTED", "STOPPED",
           "PLAYBACK_COMPLETE"}

(* The constructor sets neither the state nor the pointers. *)
Init ==
    /\ crashed = "no"
    /\ mCurrentState \in States
    /\ input = "none"
    /\ left = Film
    /\ mDecoder \in [Kinds -> {NULL, Wild}]
    /\ mPlayerThread = NULL
    /\ ppc = [p \in Players |-> "none"]
    /\ track = "null"
    /\ trackUser = NULL
    /\ object = [d \in Decoders |-> "none"]
    /\ thread = [d \in Decoders |-> "none"]
    /\ mRunning = [d \in Decoders |-> FALSE]
    /\ packets = [d \in Decoders |-> 0]
    /\ aborted = [d \in Decoders |-> FALSE]
    /\ events = [p \in Players |-> "none"]
    /\ upc = "created"
    /\ ukind = "audio"
    /\ utarget = NULL
    /\ settled = FALSE

Crash(cause) ==
    /\ crashed' = cause
    /\ UNCHANGED <<playerVars, ppc, trackVars, decoderVars, uiVars>>

Usable(k) == mDecoder[k] \in Players /\ object[<<k, mDecoder[k]>>] = "alive"

-------------------------------------------------------------------------------
(* The UI thread: opening, preparing, starting.                            *)

(* GPlayerActivity.onCreate: setDataSource().  If the file cannot be opened*)
(* it goes on with the null context.                                       *)
SetDataSource ==
    /\ upc = "created"
    /\ \/ /\ input' = "open"
          /\ upc' = "opened"
          /\ UNCHANGED <<crashed, mCurrentState, left, mDecoder, mPlayerThread,
                         ppc, trackVars, decoderVars, ukind, utarget, settled>>
       \/ Crash("openFailed")

(* surfaceCreated: setVideoSurface() registers the surface and a track, or *)
(* fails, which nobody looks at; prepare() needs a format context, and both*)
(* streams.                                                                *)
SurfaceCreated ==
    /\ upc \in {"opened", "suspended"}
    /\ IF input = "open"
       THEN /\ track' \in {"registered", "null"}
            /\ mCurrentState' \in {"PREPARED", "ERROR"}
            /\ upc' = "prepared"
            /\ UNCHANGED <<crashed, input, left, mDecoder, mPlayerThread, ppc,
                           trackUser, decoderVars, ukind, utarget, settled>>
       ELSE Crash("noInput")

StartAccepted == mCurrentState = "PREPARED"

(* surfaceChanged: start(), a new player thread.  It is called once after  *)
(* surfaceCreated and then whenever the surface changes.                   *)
SurfaceChanged ==
    /\ upc \in {"prepared", "surface"}
    /\ upc' = "surface"
    /\ \/ /\ StartAccepted
          /\ \E p \in Players :
                /\ ppc[p] = "none"
                /\ ppc' = [ppc EXCEPT ![p] = "newAudio"]
                /\ mPlayerThread' = p
       \/ /\ ~StartAccepted
          /\ UNCHANGED <<ppc, mPlayerThread>>
    /\ UNCHANGED <<crashed, mCurrentState, input, left, mDecoder, trackVars,
                   decoderVars, ukind, utarget, settled>>

(* The media controller asks for the position: getAudioClock() follows     *)
(* mDecoderAudio, whether or not a player thread has set it.               *)
GetCurrentPosition ==
    /\ upc = "surface"
    /\ ~Usable("audio")
    /\ Crash("noClock")

-------------------------------------------------------------------------------
(* A player thread: decodeMovie().                                         *)

Go(p, from, to) ==
    /\ ppc[p] = from
    /\ ppc' = [ppc EXCEPT ![p] = to]

(* new DecoderAudio, new DecoderVideo: mRunning stays unset. *)
NewDecoder(p, k) ==
    /\ \/ k = "audio" /\ Go(p, "newAudio", "setTrack")
       \/ k = "video" /\ Go(p, "newVideo", "runVideo")
    /\ mDecoder' = [mDecoder EXCEPT ![k] = p]
    /\ object' = [object EXCEPT ![<<k, p>>] = "alive"]
    /\ \E b \in BOOLEAN : mRunning' = [mRunning EXCEPT ![<<k, p>>] = b]
    /\ UNCHANGED <<crashed, mCurrentState, input, left, mPlayerThread, trackVars,
                   thread, packets, aborted, events, uiVars>>

(* AndroidAudioTrack_set and _start: a failure, as without a track, ends   *)
(* the thread.  A track can be set once only.                              *)
SetTrack(p) ==
    /\ \/ /\ Go(p, "setTrack", "startTrack")
          /\ track = "registered"
          /\ track' = "set"
          /\ trackUser' = mDecoder["audio"]
       \/ Go(p, "startTrack", "runAudio") /\ track' = "on" /\ UNCHANGED trackUser
       \/ Go(p, "setTrack", "done") /\ UNCHANGED trackVars
    /\ track # "deleted"
    /\ UNCHANGED <<crashed, playerVars, decoderVars, uiVars>>

(* The pointer stays when the track is deleted. *)
TrackGone(p) ==
    /\ ppc[p] \in {"setTrack", "startTrack"}
    /\ track = "deleted"
    /\ Crash("deletedTrack")

(* startAsync(): the decoder's thread is created. *)
RunDecoder(p, k) ==
    /\ \/ k = "audio" /\ Go(p, "runAudio", "newVideo")
       \/ k = "video" /\ Go(p, "runVideo", "started")
    /\ Usable(k)
    /\ thread' = [thread EXCEPT ![<<k, mDecoder[k]>>] = "new"]
    /\ UNCHANGED <<crashed, playerVars, trackVars, object, mRunning, packets,
                   aborted, events, uiVars>>

\* Mutant: STARTED is never written.
Started_Silent(p) ==
    /\ Go(p, "started", "loop")
    /\ UNCHANGED mCurrentState

(* mCurrentState = MEDIA_PLAYER_STARTED, whatever it was meanwhile. *)
Started(p) ==
    /\ Go(p, "started", "loop")
    /\ mCurrentState' = "STARTED"

\* Mutant: the loop is not left at the end of the film.
LoopHead_NoEnd(p) ==
    /\ IF mCurrentState \in {"STOPPED", "ERROR"}
       THEN Go(p, "loop", "waitAudio")
       ELSE Go(p, "loop", "fullAudio")
    /\ UNCHANGED mCurrentState

LoopHead(p) ==
    /\ IF mCurrentState \in {"DECODED", "STOPPED", "ERROR"}
       THEN Go(p, "loop", "waitAudio")
       ELSE Go(p, "loop", "fullAudio")
    /\ UNCHANGED mCurrentState

QueueFull(k) == packets[<<k, mDecoder[k]>>] > MAX_PLAYER_QUEUE_SIZE

\* Mutant: nothing keeps the player thread from reading on.
Pressure_None(p) ==
    /\ Go(p, "fullAudio", "read")
    /\ UNCHANGED mCurrentState

\* Mutant: having found room, the loop says STARTED again.
Pressure_Restarts(p) ==
    /\ \/ Go(p, "fullAudio", IF QueueFull("audio") THEN "fullVideo" ELSE "read")
       \/ Go(p, "fullVideo", IF QueueFull("video") THEN "loop" ELSE "read")
    /\ mCurrentState' = IF ppc'[p] = "read" THEN "STARTED" ELSE mCurrentState

(* Both queues are over the limit: usleep, and once more. *)
Pressure(p) ==
    /\ \/ Usable("audio")
          /\ Go(p, "fullAudio", IF QueueFull("audio") THEN "fullVideo" ELSE "read")
       \/ Usable("video")
          /\ Go(p, "fullVideo", IF QueueFull("video") THEN "loop" ELSE "read")
    /\ UNCHANGED mCurrentState

(* av_read_frame fails: the film, or what can be read of it, is over. *)
FilmEnds(p) ==
    /\ input = "open"
    /\ Go(p, "read", "loop")
    /\ mCurrentState' = "DECODED"

(* Thread::wait(): joins the thread if mRunning is, or may be, set. *)
Waited(d) == mRunning[d] => thread[d] \in {"none", "done"}

(* mDecoderAudio->wait(). *)
WaitAudio(p) ==
    /\ Usable("audio")
    /\ Waited(<<"audio", mDecoder["audio"]>>)
    /\ Go(p, "waitAudio", "complete")
    /\ UNCHANGED mCurrentState

Complete(p) ==
    /\ Go(p, "complete", "done")
    /\ mCurrentState' = "PLAYBACK_COMPLETE"

PlayerControl(p) ==
    /\ \/ Started(p) \/ LoopHead(p) \/ Pressure(p) \/ FilmEnds(p)
       \/ WaitAudio(p) \/ Complete(p)
    /\ UNCHANGED <<crashed, input, left, mDecoder, mPlayerThread, trackVars,
                   decoderVars, uiVars>>

(* av_read_frame delivers a packet of one of the streams, or of another one*)
(* that is dropped.                                                        *)
ReadPacket(p) ==
    /\ input = "open"
    /\ left > 0
    /\ left' = left - 1
    /\ \E next \in {"putAudio", "putVideo", "loop"} : Go(p, "read", next)
    /\ UNCHANGED <<crashed, mCurrentState, input, mDecoder, mPlayerThread,
                   trackVars, decoderVars, uiVars>>

(* enqueue(), whose put() may fail. *)
Enqueue(p, k) ==
    /\ \/ k = "audio" /\ Go(p, "putAudio", "loop")
       \/ k = "video" /\ Go(p, "putVideo", "loop")
    /\ Usable(k)
    /\ LET d == <<k, mDecoder[k]>> IN
       \E more \in {0, 1} : packets' = [packets EXCEPT ![d] = @ + more]
    /\ UNCHANGED <<crashed, playerVars, trackVars, object, thread, mRunning,
                   aborted, events, uiVars>>

(* A player thread that goes on after the decoders were deleted and the    *)
(* input closed.                                                           *)
Needs(p) ==
    CASE ppc[p] \in {"runAudio", "fullAudio", "putAudio", "waitAudio"} -> {"audio"}
      [] ppc[p] \in {"runVideo", "fullVideo", "putVideo"} -> {"video"}
      [] OTHER -> {}

Dangling(p) ==
    /\ \/ \E k \in Needs(p) : ~Usable(k)
       \/ ppc[p] = "read" /\ input = "closed"
    /\ Crash("deletedDecoder")

PlayerStep(p) ==
    \/ \E k \in Kinds : NewDecoder(p, k) \/ RunDecoder(p, k) \/ Enqueue(p, k)
    \/ SetTrack(p)
    \/ TrackGone(p)
    \/ PlayerControl(p)
    \/ ReadPacket(p)
    \/ Dangling(p)

-------------------------------------------------------------------------------
(* The decoders' threads, and AudioTrack's.                                *)

Leaves(d) ==
    /\ thread' = [thread EXCEPT ![d] = "leaving"]
    /\ mRunning' = [mRunning EXCEPT ![d] = FALSE]
    /\ UNCHANGED <<packets, events>>

(* startThread(): the audio thread has nothing to do; the video thread     *)
(* creates the event thread, unless it fails to prepare.                   *)
Begin(d) ==
    /\ thread[d] = "new"
    /\ mRunning' = [mRunning EXCEPT ![d] = TRUE]
    /\ \/ /\ thread' = [thread EXCEPT ![d] = "leaving"]
          /\ UNCHANGED events
       \/ /\ d[1] = "video"
          /\ thread' = [thread EXCEPT ![d] = "live"]
          /\ events' = [events EXCEPT ![d[2]] = "on"]
    /\ UNCHANGED packets

(* The video thread gets -1 or a packet out of its queue. *)
Consume(d) ==
    /\ thread[d] = "live"
    /\ \/ aborted[d] /\ Leaves(d)
       \/ /\ ~aborted[d]
          /\ packets[d] > 0
          /\ packets' = [packets EXCEPT ![d] = @ - 1]
          /\ UNCHANGED <<thread, mRunning, events>>

(* startThread() after handleRun(): mRunning = false. *)
End(d) ==
    /\ thread[d] = "leaving"
    /\ thread' = [thread EXCEPT ![d] = "done"]
    /\ mRunning' = [mRunning EXCEPT ![d] = FALSE]
    /\ UNCHANGED <<packets, events>>

Heard == <<"audio", trackUser>>

\* Mutant: an empty queue does not hold the callback up.
CallbackTakes_Any == TRUE

CallbackTakes == packets[Heard] > 0

(* DecoderAudio::cbf: it sleeps in get() while the queue is empty. *)
Callback ==
    /\ track = "on"
    /\ \/ /\ aborted[Heard]
          /\ mRunning' = [mRunning EXCEPT ![Heard] = FALSE]
          /\ UNCHANGED packets
       \/ /\ ~aborted[Heard]
          /\ CallbackTakes
          /\ packets' = [packets EXCEPT ![Heard] = @ - 1]
          /\ UNCHANGED mRunning
    /\ UNCHANGED <<crashed, playerVars, ppc, trackVars, object, thread, aborted,
                   events, uiVars>>

(* Of a deleted decoder a thread that is leaving still writes mRunning,    *)
(* into freed memory: it may go unnoticed or be the end.  One that is      *)
(* further up uses its queue.                                              *)
DecoderStep(d) ==
    \/ /\ \/ object[d] = "alive" /\ (Begin(d) \/ Consume(d))
          \/ End(d)
       /\ UNCHANGED <<crashed, playerVars, ppc, trackVars, object, aborted, uiVars>>
    \/ /\ object[d] = "deleted"
       /\ thread[d] = "leaving"
       /\ Crash("lateWrite")
    \/ /\ object[d] = "deleted"
       /\ thread[d] \in {"new", "live"}
       /\ Crash("deletedDecoder")

(* The event thread looks at mRunning before each event, sleeps in         *)
(* SDL_WaitEvent and uses the decoder in its handlers (module Session).    *)
(* What it reads of a deleted decoder may let it go on or not.             *)
EventStep(p) ==
    /\ events[p] = "on"
    /\ \/ /\ object[<<"video", p>>] = "deleted" \/ ~mRunning[<<"video", p>>]
          /\ events' = [events EXCEPT ![p] = "done"]
          /\ UNCHANGED <<crashed, playerVars, ppc, trackVars, object, thread,
                         mRunning, packets, aborted, uiVars>>
       \/ /\ object[<<"video", p>>] = "deleted"
          /\ Crash("lateEvents")

-------------------------------------------------------------------------------
(* The UI thread: suspend().                                               *)

(* A session that is under way: one player thread in its loop or beyond,   *)
(* both decoders its own, and their threads begun.                         *)
Settled ==
    /\ mPlayerThread # NULL
    /\ ppc[mPlayerThread] \notin {"none", "newAudio", "setTrack", "startTrack",
                                  "runAudio", "newVideo", "runVideo", "started"}
    /\ \A p \in Players \ {mPlayerThread} : ppc[p] \in {"none", "done"}
    /\ \A k \in Kinds : /\ mDecoder[k] = mPlayerThread
                        /\ thread[<<k, mPlayerThread>>] \notin {"none", "new"}

(* surfaceDestroyed *)
Suspend ==
    /\ upc = "surface"
    /\ mCurrentState' = "STOPPED"
    /\ settled' = Settled
    /\ upc' = "stop"
    /\ ukind' = "audio"
    /\ UNCHANGED <<crashed, input, left, mDecoder, mPlayerThread, ppc, trackVars,
                   decoderVars, utarget>>

\* After the audio decoder the video decoder, after it the player thread.
NextStop ==
    IF ukind = "audio" THEN upc' = "stop" /\ ukind' = "video"
    ELSE upc' = "joinPlayer" /\ UNCHANGED ukind

\* Mutant: stop() does not abort the queue.
AbortQueue_None(d) == UNCHANGED aborted

AbortQueue(d) == aborted' = [aborted EXCEPT ![d] = TRUE]

(* if(mDecoder != NULL) mDecoder->stop(): abort, then wait(). *)
Stop ==
    /\ upc = "stop"
    /\ CASE mDecoder[ukind] = NULL ->
               /\ NextStop
               /\ UNCHANGED <<crashed, aborted, utarget>>
         [] mDecoder[ukind] = Wild ->
               /\ crashed' = "wildPointer"
               /\ UNCHANGED <<aborted, upc, ukind, utarget>>
         [] OTHER ->
               /\ AbortQueue(<<ukind, mDecoder[ukind]>>)
               /\ upc' = "wait"
               /\ utarget' = mDecoder[ukind]
               /\ UNCHANGED <<crashed, ukind>>
    /\ UNCHANGED <<playerVars, ppc, trackVars, object, thread, mRunning, packets,
                   events, settled>>

\* Mutant: stop() does not wait for the thread.
Wait_NoJoin == upc = "wait" /\ NextStop

Wait == upc = "wait" /\ Waited(<<ukind, utarget>>) /\ NextStop

\* Mutant: the player thread is not joined.
JoinPlayer_Skip == upc = "joinPlayer" /\ upc' = "release" /\ UNCHANGED ukind

(* pthread_join of a thread that never was returns an error. *)
JoinPlayer ==
    /\ upc = "joinPlayer"
    /\ mPlayerThread # NULL => ppc[mPlayerThread] = "done"
    /\ upc' = "release"
    /\ UNCHANGED ukind

SuspendWaits ==
    /\ Wait \/ JoinPlayer
    /\ UNCHANGED <<crashed, playerVars, ppc, trackVars, decoderVars, utarget,
                   settled>>

(* AndroidAudioTrack_stop, _unregister: the first does nothing without a   *)
(* track, the second follows the null pointer.                             *)
NoTrack ==
    /\ upc = "release"
    /\ track = "null"
    /\ Crash("noTrack")

(* Deleting the track waits for its callback, which may sleep in get().    *)
Release ==
    /\ upc = "release"
    /\ track # "null"
    /\ track = "on" => aborted[Heard] \/ packets[Heard] > 0
    /\ track' = "deleted"
    /\ upc' = "delete"
    /\ UNCHANGED <<crashed, playerVars, ppc, trackUser, decoderVars, ukind,
                   utarget, settled>>

(* delete mDecoderAudio, delete mDecoderVideo, avformat_close_input: the   *)
(* destructors clear mRunning, the pointers stay.                          *)
Delete ==
    /\ upc = "delete"
    /\ LET gone == {d \in Decoders : d[2] = mDecoder[d[1]]} IN
       /\ object' = [d \in Decoders |-> IF d \in gone THEN "deleted" ELSE object[d]]
       /\ mRunning' = [d \in Decoders |-> d \notin gone /\ mRunning[d]]
    /\ input' = "closed"
    /\ upc' = "suspended"
    /\ UNCHANGED <<crashed, mCurrentState, left, mDecoder, mPlayerThread, ppc,
                   trackVars, thread, packets, aborted, events, ukind, utarget,
                   settled>>

Suspending == Stop \/ SuspendWaits \/ NoTrack \/ Release \/ Delete

-------------------------------------------------------------------------------
Next ==
    /\ crashed = "no"
    /\ \/ SetDataSource
       \/ SurfaceCreated
       \/ SurfaceChanged
       \/ GetCurrentPosition
       \/ Suspend
       \/ Suspending
       \/ Callback
       \/ \E d \in Decoders : DecoderStep(d)
       \/ \E p \in Players : PlayerStep(p) \/ EventStep(p)

Spec == Init /\ [][Next]_vars

(* Every thread that can run eventually runs, and a suspend that has begun *)
(* is carried through.  The activity and the surface need not do anything, *)
(* nor the event threads.                                                  *)
FairSpec ==
    /\ Spec
    /\ \A p \in Players : WF_vars(crashed = "no" /\ PlayerStep(p))
    /\ \A d \in Decoders : WF_vars(crashed = "no" /\ DecoderStep(d))
    /\ WF_vars(crashed = "no" /\ Callback)
    /\ WF_vars(crashed = "no" /\ Suspending)

-------------------------------------------------------------------------------
PlayerPcs == {"none", "newAudio", "setTrack", "startTrack", "runAudio",
              "newVideo", "runVideo", "started", "loop", "fullAudio",
              "fullVideo", "read", "putAudio", "putVideo", "waitAudio",
              "complete", "done"}

(* Types; no queue holds less than nothing. *)
TypeOK ==
    /\ crashed \in {"no", "openFailed", "noInput", "noClock", "deletedTrack",
                   "deletedDecoder", "wildPointer", "noTrack", "lateWrite",
                   "lateEvents"}
    /\ mCurrentState \in States
    /\ input \in {"none", "open", "closed"}
    /\ left \in 0..Film
    /\ mDecoder \in [Kinds -> Players \cup {NULL, Wild}]
    /\ mPlayerThread \in Players \cup {NULL}
    /\ ppc \in [Players -> PlayerPcs]
    /\ track \in {"null", "registered", "set", "on", "deleted"}
    /\ trackUser \in Players \cup {NULL}
    /\ object \in [Decoders -> {"none", "alive", "deleted"}]
    /\ thread \in [Decoders -> {"none", "new", "live", "leaving", "done"}]
    /\ mRunning \in [Decoders -> BOOLEAN]
    /\ packets \in [Decoders -> Nat]
    /\ aborted \in [Decoders -> BOOLEAN]
    /\ events \in [Players -> {"none", "on", "done"}]
    /\ upc \in {"created", "opened", "prepared", "surface", "stop", "wait",
               "joinPlayer", "release", "delete", "suspended"}
    /\ ukind \in Kinds
    /\ utarget \in Players \cup {NULL}
    /\ settled \in BOOLEAN

InLoop(p) == ppc[p] \in {"loop", "fullAudio", "fullVideo", "read", "putAudio",
                         "putVideo"}

(* Of what a suspend of a session that is under way deletes, the player    *)
(* thread and the callback touch nothing any more, and the decoders' own   *)
(* threads only mRunning, which startThread() clears once more on its way  *)
(* out (thread.cpp 55): wait() does not join a thread that has cleared it. *)
(* Only the event thread, which nobody joins, may still use the whole      *)
(* object.  Both are faults of the code, and the only ones such a suspend  *)
(* leads to until a surface comes again.  (When the session is not settled *)
(* there are more: section 5 of the README.)                               *)
OnlyLateUse == settled => crashed \in {"no", "noInput", "lateWrite", "lateEvents"}

(* When such a suspend deletes the decoders, their queues were aborted and *)
(* their threads have nothing left to do but startThread's last write of   *)
(* mRunning, no player thread runs, and no callback can come any more; it  *)
(* returns with both of them deleted.  (mediaplayer.cpp 343-358)           *)
JoinedBeforeDelete ==
    settled =>
       /\ \A d \in Decoders :
             object[d] = "deleted" =>
                /\ aborted[d]
                /\ thread[d] \in {"leaving", "done"}
                /\ track = "deleted"
                /\ \A p \in Players : ppc[p] \in {"none", "done"}
       /\ upc = "suspended" =>
             \A k \in Kinds : object[<<k, mDecoder[k]>>] = "deleted"

EndsLoop == mCurrentState \in {"STOPPED", "ERROR", "DECODED"}

Suspends == upc \in {"stop", "wait", "joinPlayer", "release", "delete"}

\* A player thread that has its loop, or what is left of it, before it.
Ahead(p) == ppc[p] \notin {"none", "waitAudio", "complete", "done"}

(* While any suspend is under way, of whatever session, a player thread    *)
(* that has not seen the stop (342, 150-152) misses it for two reasons     *)
(* only: a thread that was still starting up writes STARTED (149), or      *)
(* another one, there since start() was called twice, PLAYBACK_COMPLETE    *)
(* (181).  What a thread in its loop writes never hides the stop from it.  *)
OnlyStartHidesStop ==
    [][\A q \in Players :
          Suspends /\ Ahead(q) /\ EndsLoop /\ ~EndsLoop'
             => \/ \E p \in Players : ppc[p] = "started"
                \/ \E p \in Players \ {q} : ppc[p] = "complete"]_vars

(* Back-pressure: the queues the player threads feed are never both over   *)
(* the limit by more than the packet each of them is bringing (153-169).   *)
Over(k) == mDecoder[k] \in Players
              /\ packets[<<k, mDecoder[k]>>] > MAX_PLAYER_QUEUE_SIZE + 1

QueuesBounded ==
    (\A p, q \in Players : InLoop(p) /\ InLoop(q) => p = q)
       => ~(Over("audio") /\ Over("video"))

(* No player thread is started beside one that is reading the file: start()*)
(* tells them by mCurrentState alone, which three threads write.           *)
NoStartBesideLoop ==
    [][mPlayerThread' # mPlayerThread => \A p \in Players : ~InLoop(p)]_vars

(* A suspend of a session that is under way returns, whatever the player   *)
(* thread, the decoders and the callback are waiting for.                  *)
SuspendReturns == (settled /\ upc = "stop") ~> (upc = "suspended")

(* A session that is under way comes to an end by itself: the player       *)
(* thread neither waits for room for ever nor reads on after the film.     *)
PlaybackEnds ==
    (Settled /\ upc = "surface")
       ~> (mPlayerThread # NULL /\ ppc[mPlayerThread] = "done")
===============================================================================
