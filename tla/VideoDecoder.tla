----------------------------- MODULE VideoDecoder -----------------------------
(***************************************************************************)
(* One DecoderVideo object (jni/src/videodecoder.cpp on top of decoder.cpp *)
(* and thread.cpp), from startAsync() to its deletion.  Four threads meet  *)
(* in it:                                                                  *)
(*   - the video thread decodes packets and puts pictures in a ring,       *)
(*   - the event thread allocates bitmaps, shows pictures and frees slots, *)
(*   - the SDL timer thread turns timers into REFRESH events,              *)
(*   - the thread that stops the decoder and then deletes it.              *)
(* A critical section is one step; so is a stretch of code that touches    *)
(* nothing another thread uses.  A condition wait is a state of its own.   *)
(*                                                                         *)
(* Picture k is the k-th one scaled into the ring; its time stamp is named *)
(* k as well.  The packet queue is reduced to what PacketFifo promises its *)
(* one consumer: a number of packets and the abort flag.  The model ends   *)
(* with the deletion.                                                      *)
(***************************************************************************)
EXTENDS Integers, Sequences

CONSTANTS
    N,           \* VIDEO_PICTURE_QUEUE_SIZE
    Dims,        \* picture sizes the stream may have
    NoBmp,       \* the bitmap of a slot that has none
    EventCap,    \* how many events the SDL queue holds (MAXEVENTS - 1)
    MaxPackets,  \* bound: packets in the queue
    MaxFrames    \* bound: pictures decoded

ASSUME NAssumption == N \in Nat \ {0}
ASSUME DimsAssumption == NoBmp \notin Dims
ASSUME EventCapAssumption == EventCap \in Nat /\ EventCap >= 2
ASSUME BoundsAssumption == MaxPackets \in Nat /\ MaxFrames \in Nat

VARIABLES
    \* Thread, IDecoder and its PacketQueue
    mRunning, packets, mAbortRequest,
    \* the video thread: where it is, the codec's picture size, and the
    \* number of pictures it has scaled into the ring
    vpc, dim, made,
    \* the ring
    pictq_size, pictq_windex, pictq_rindex,
    bmp,        \* bmp[i]: the size of slot i's bitmap, or NoBmp
    allocated,  \* allocated[i]: the ALLOC handshake's flag
    image,      \* image[i]: the picture scaled into slot i
    pts,        \* pts[i]: the time stamp stored in slot i
    room,       \* room[i]: slot i's bitmap has the memory for its pixels
    whole,      \* whole[i]: sws_scale wrote all of image[i], as it was decoded
    img_convert_ctx,  \* the size the one converter was made for
    \* the event thread: where it is, the slot of the ALLOC event it
    \* handles, video_current_pts, and what it last showed
    epc, eslot, video_current_pts, shown, shownPts,
    \* SDL: pending one-shot timers, and the event queue
    timers, events,
    \* the thread that stops and deletes the decoder
    upc

decoderVars == <<mRunning, packets, mAbortRequest>>
videoVars   == <<vpc, dim, made>>
bitmapVars  == <<bmp, room, whole, img_convert_ctx>>
slotVars    == <<bitmapVars, allocated, image, pts>>
ringVars    == <<pictq_size, pictq_windex, pictq_rindex>>
eventVars   == <<epc, eslot, video_current_pts, shown, shownPts>>
sdlVars     == <<timers, events>>
vars == <<decoderVars, videoVars, slotVars, ringVars, eventVars, sdlVars, upc>>

Slots == 0..(N - 1)

(* SDL_USEREVENT + 1 with the slot in user.data1, and SDL_USEREVENT + 2. *)
ALLOC_EVENT(i) == [type |-> "alloc", slot |-> i]
REFRESH_EVENT  == [type |-> "refresh", slot |-> 0]
Events == {ALLOC_EVENT(i) : i \in Slots} \cup {REFRESH_EVENT}

Init ==
    /\ mRunning \in BOOLEAN       \* Thread's constructor leaves it unset
    /\ packets = 0
    /\ mAbortRequest = FALSE
    /\ vpc = "created"
    /\ dim \in Dims
    /\ img_convert_ctx = dim
    /\ made = 0
    /\ pictq_size = 0
    /\ pictq_windex = 0
    /\ pictq_rindex = 0
    /\ bmp = [i \in Slots |-> NoBmp]
    /\ allocated = [i \in Slots |-> FALSE]
    /\ image = [i \in Slots |-> 0]
    /\ pts = [i \in Slots |-> 0]
    /\ room = [i \in Slots |-> FALSE]
    /\ whole = [i \in Slots |-> FALSE]
    /\ epc = "none"
    /\ eslot = 0
    /\ video_current_pts = 0
    /\ shown = 0
    /\ shownPts = 0
    /\ timers = 0
    /\ events = <<>>
    /\ upc = "playing"

-------------------------------------------------------------------------------
(* Helpers.                                                                *)

Alive == upc # "deleted"

(* SDL_AddEvent drops the event when the queue is full; nobody looks at    *)
(* what SDL_PushEvent returns.                                             *)
Pushed(e) == IF Len(events) < EventCap THEN Append(events, e) ELSE events

\* Mutant: the index is not reset at the end of the ring.
Following_NoWrap(i) == i + 1

\* if (++index == VIDEO_PICTURE_QUEUE_SIZE) index = 0
Following(i) == IF i + 1 = N THEN 0 ELSE i + 1

\* Mutant: the event thread forgets pthread_cond_signal.
AfterSignal_Lost(p) == p

(* pthread_cond_signal(&pictq_cond): only the video thread waits on it.    *)
AfterSignal(p) ==
    CASE p = "slotSleep"  -> "slot"
      [] p = "allocSleep" -> "alloc"
      [] OTHER            -> p

-------------------------------------------------------------------------------
(* The demuxing thread: enqueue(), whose packet put() may refuse.          *)
Enqueue ==
    /\ Alive
    /\ packets < MaxPackets
    /\ packets' = packets + 1
    /\ UNCHANGED <<mRunning, mAbortRequest, videoVars, slotVars, ringVars,
                   eventVars, sdlVars, upc>>

-------------------------------------------------------------------------------
(* The video thread.                                                       *)

\* startThread(): the thread begins.
Begin ==
    /\ vpc = "created"
    /\ vpc' = "prepare"
    /\ mRunning' = TRUE
    /\ UNCHANGED <<packets, mAbortRequest, dim, made>>

\* prepare(): avcodec_alloc_frame may fail, and then handleRun() returns.
Prepare ==
    /\ vpc = "prepare"
    /\ vpc' \in {"spawn", "exit"}
    /\ UNCHANGED <<decoderVars, dim, made>>

VideoSetup ==
    /\ Begin \/ Prepare
    /\ UNCHANGED <<slotVars, ringVars, eventVars, sdlVars>>

\* decode(): SDL_Init and SDL_CreateThread.
Spawn ==
    /\ vpc = "spawn"
    /\ vpc' = "arm"
    /\ epc' = "loop"
    /\ UNCHANGED <<decoderVars, dim, made, slotVars, ringVars, eslot,
                   video_current_pts, shown, shownPts, sdlVars>>

\* decode(): schedule_refresh(40).
Arm ==
    /\ vpc = "arm"
    /\ vpc' = "loop"
    /\ timers' = timers + 1
    /\ UNCHANGED <<decoderVars, dim, made, slotVars, ringVars,
                   eventVars, events>>

\* while(mRunning).
LoopHead ==
    /\ vpc = "loop"
    /\ vpc' = IF mRunning THEN "get" ELSE "exit"
    /\ UNCHANGED <<decoderVars, dim, made>>

\* mQueue->get() returned -1.
GetAborted ==
    /\ vpc = "get"
    /\ mAbortRequest
    /\ mRunning' = FALSE
    /\ vpc' = "exit"
    /\ UNCHANGED <<packets, mAbortRequest, dim, made>>

(* get() delivered a packet and process() decodes it: the codec may meet a *)
(* new picture size; a picture is completed, or not.                       *)
GetPacket ==
    /\ vpc = "get"
    /\ ~mAbortRequest
    /\ packets > 0
    /\ packets' = packets - 1
    /\ \/ vpc' = "loop" /\ UNCHANGED dim
       \/ vpc' = "slot" /\ made < MaxFrames /\ dim' \in Dims
    /\ UNCHANGED <<mRunning, mAbortRequest, made>>

\* Mutant: the ring is taken for full one picture too late.
RingFull_Late == pictq_size > N

RingFull == pictq_size >= N

(* queue_picture(): wait for a free slot.  If the decoder no longer runs,  *)
(* it returns -1, process() fails and decode() gives up.                   *)
WaitForSlot ==
    /\ vpc = "slot"
    /\ vpc' = IF ~mRunning THEN "exit"
              ELSE IF RingFull THEN "slotSleep" ELSE "check"
    /\ UNCHANGED <<decoderVars, dim, made>>

VideoLoop ==
    /\ LoopHead \/ GetAborted \/ GetPacket \/ WaitForSlot
    /\ UNCHANGED <<slotVars, ringVars, eventVars, sdlVars>>

\* Mutant: a bitmap of another size is kept.
BitmapFits_AnySize(i) == bmp[i] # NoBmp

BitmapFits(i) == bmp[i] = dim

\* Mutant: vp->allocated keeps the 1 of an earlier handshake.
AllocatedWhenAsking_Stale == allocated

AllocatedWhenAsking == [allocated EXCEPT ![pictq_windex] = FALSE]

\* queue_picture(): ask the event thread for a bitmap if there is none that fits.
CheckBitmap ==
    /\ vpc = "check"
    /\ IF BitmapFits(pictq_windex)
       THEN /\ vpc' = "scale"
            /\ UNCHANGED <<allocated, events>>
       ELSE /\ vpc' = "alloc"
            /\ allocated' = AllocatedWhenAsking
            /\ events' = Pushed(ALLOC_EVENT(pictq_windex))
    /\ UNCHANGED <<decoderVars, dim, made, bitmapVars, image, pts, ringVars,
                   eventVars, timers>>

\* queue_picture(): while(!vp->allocated && mRunning) wait.
WaitForBitmap ==
    /\ vpc = "alloc"
    /\ vpc' = IF ~allocated[pictq_windex] /\ mRunning THEN "allocSleep" ELSE "scale"
    /\ UNCHANGED <<decoderVars, dim, made, slotVars, ringVars,
                   eventVars, sdlVars>>

\* The converter has one size for both ends; it looks for the pixels' memory.
Converts(i) == room[i] /\ dim = img_convert_ctx /\ bmp[i] = img_convert_ctx

(* queue_picture(): if(vp->bmp) sws_scale, else the picture is dropped.    *)
(* The picture takes its turn whatever sws_scale made of it; what one of   *)
(* another size than the converter's does to the memory behind the bitmap  *)
(* is not modelled.                                                        *)
Scale ==
    /\ vpc = "scale"
    /\ IF bmp[pictq_windex] = NoBmp
       THEN /\ vpc' = "loop"
            /\ UNCHANGED <<image, whole, made>>
       ELSE /\ vpc' = "stamp"
            /\ made' = made + 1
            /\ image' = [image EXCEPT ![pictq_windex] = made']
            /\ whole' = [whole EXCEPT ![pictq_windex] = Converts(pictq_windex)]
    /\ UNCHANGED <<decoderVars, dim, bmp, room, img_convert_ctx, allocated,
                   pts, ringVars, eventVars, sdlVars>>

\* Mutant: the time stamp is stored after the index has moved.
Stamp_AfterMove ==
    /\ vpc = "stamp"
    /\ vpc' = "publish"
    /\ pts' = [pts EXCEPT ![Following(pictq_windex)] = made]
    /\ pictq_windex' = Following(pictq_windex)
    /\ UNCHANGED <<decoderVars, dim, made, bitmapVars, allocated, image,
                   pictq_size, pictq_rindex, eventVars, sdlVars>>

\* queue_picture(): vp->pts = pts, and the write index moves.
Stamp ==
    /\ vpc = "stamp"
    /\ vpc' = "publish"
    /\ pts' = [pts EXCEPT ![pictq_windex] = made]
    /\ pictq_windex' = Following(pictq_windex)
    /\ UNCHANGED <<decoderVars, dim, made, bitmapVars, allocated, image,
                   pictq_size, pictq_rindex, eventVars, sdlVars>>

\* queue_picture(): pictq_size++; then av_free_packet and the next round.
Publish ==
    /\ vpc = "publish"
    /\ vpc' = "loop"
    /\ pictq_size' = pictq_size + 1
    /\ UNCHANGED <<decoderVars, dim, made, slotVars, pictq_windex,
                   pictq_rindex, eventVars, sdlVars>>

\* startThread(): handleRun() has returned.
Finish ==
    /\ vpc = "exit"
    /\ vpc' = "done"
    /\ mRunning' = FALSE
    /\ UNCHANGED <<packets, mAbortRequest, dim, made, slotVars,
                   ringVars, eventVars, sdlVars>>

VideoStep ==
    /\ Alive
    /\ \/ VideoSetup \/ Spawn \/ Arm \/ VideoLoop \/ CheckBitmap
       \/ WaitForBitmap \/ Scale \/ Stamp \/ Publish \/ Finish
    /\ UNCHANGED upc

(* pthread_cond_wait may return without a signal. *)
SpuriousWake ==
    /\ Alive
    /\ vpc \in {"slotSleep", "allocSleep"}
    /\ vpc' = AfterSignal(vpc)
    /\ UNCHANGED <<decoderVars, dim, made, slotVars, ringVars,
                   eventVars, sdlVars, upc>>

-------------------------------------------------------------------------------
(* The event thread, startEventThread().                                   *)

EventLoop ==
    /\ epc = "loop"
    /\ epc' = IF mRunning THEN "wait" ELSE "done"
    /\ UNCHANGED <<eslot, video_current_pts, shown, shownPts, slotVars,
                   ringVars, sdlVars, vpc>>

\* SDL_WaitEvent, and the switch on event.type.
TakeEvent ==
    /\ epc = "wait"
    /\ events # <<>>
    /\ epc' = Head(events).type
    /\ eslot' = Head(events).slot
    /\ events' = Tail(events)
    /\ UNCHANGED <<video_current_pts, shown, shownPts, slotVars, ringVars,
                   timers, vpc>>

(* alloc_picture(), before the lock: a bitmap of the codec's size, whose   *)
(* memory may be refused.  If there is no memory for the AVFrame either,   *)
(* avpicture_fill writes through NULL and the program ends there.          *)
AllocBitmap ==
    /\ epc = "alloc"
    /\ epc' = "allocDone"
    /\ bmp' = [bmp EXCEPT ![eslot] = dim]
    /\ \E granted \in BOOLEAN : room' = [room EXCEPT ![eslot] = granted]
    /\ UNCHANGED <<eslot, video_current_pts, shown, shownPts, whole,
                   img_convert_ctx, allocated, image, pts, ringVars, sdlVars, vpc>>

\* alloc_picture(), under the lock.
AllocDone ==
    /\ epc = "allocDone"
    /\ epc' = "loop"
    /\ allocated' = [allocated EXCEPT ![eslot] = TRUE]
    /\ vpc' = AfterSignal(vpc)
    /\ UNCHANGED <<eslot, video_current_pts, shown, shownPts, bitmapVars,
                   image, pts, ringVars, sdlVars>>

\* Mutant: an empty ring does not schedule the next refresh.
TimersAfterRefresh_OnlyIfShown ==
    IF pictq_size > 0 THEN timers + 1 ELSE timers

\* every branch of video_refresh_timer() calls schedule_refresh()
TimersAfterRefresh == timers + 1

(* video_refresh_timer() up to videoDisplay(): the ring's size is read     *)
(* without the lock; the next refresh is scheduled before the picture is   *)
(* shown.                                                                  *)
Refresh ==
    /\ epc = "refresh"
    /\ timers' = TimersAfterRefresh
    /\ IF mRunning /\ pictq_size # 0
       THEN /\ epc' = "display"
            /\ video_current_pts' = pts[pictq_rindex]
       ELSE /\ epc' = "loop"
            /\ UNCHANGED video_current_pts
    /\ UNCHANGED <<eslot, shown, shownPts, slotVars, ringVars, events, vpc>>

\* videoDisplay(): onDecode(vp->bmp) if there is one.
Display ==
    /\ epc = "display"
    /\ epc' = "advance"
    /\ IF bmp[pictq_rindex] = NoBmp
       THEN UNCHANGED <<shown, shownPts>>
       ELSE shown' = image[pictq_rindex] /\ shownPts' = video_current_pts
    /\ UNCHANGED <<eslot, video_current_pts, slotVars, ringVars, sdlVars, vpc>>

Advance ==
    /\ epc = "advance"
    /\ epc' = "consume"
    /\ pictq_rindex' = Following(pictq_rindex)
    /\ UNCHANGED <<eslot, video_current_pts, shown, shownPts, slotVars,
                   pictq_size, pictq_windex, sdlVars, vpc>>

\* pictq_size--, and the signal.
Consume ==
    /\ epc = "consume"
    /\ epc' = "loop"
    /\ pictq_size' = pictq_size - 1
    /\ vpc' = AfterSignal(vpc)
    /\ UNCHANGED <<eslot, video_current_pts, shown, shownPts, slotVars,
                   pictq_windex, pictq_rindex, sdlVars>>

EventStep ==
    /\ Alive
    /\ \/ EventLoop \/ TakeEvent \/ AllocBitmap \/ AllocDone \/ Refresh
       \/ Display \/ Advance \/ Consume
    /\ UNCHANGED <<decoderVars, dim, made, upc>>

-------------------------------------------------------------------------------
(* SDL's timer thread calls sdl_refresh_timer_cb, which pushes the event   *)
(* and returns 0: the timer is not repeated.                               *)
TimerFires ==
    /\ Alive
    /\ timers > 0
    /\ timers' = timers - 1
    /\ events' = Pushed(REFRESH_EVENT)
    /\ UNCHANGED <<decoderVars, videoVars, slotVars, ringVars, eventVars, upc>>

-------------------------------------------------------------------------------
(* The thread that stops the decoder, IDecoder::stop(), and deletes it.    *)

Stop ==
    /\ upc = "playing"
    /\ upc' = "wait"
    /\ mAbortRequest' = TRUE
    /\ UNCHANGED mRunning

\* Mutant: nobody is ever joined.
Wait_NoJoin ==
    /\ upc = "wait"
    /\ upc' = "stopped"
    /\ UNCHANGED <<mAbortRequest, mRunning>>

\* Thread::wait(): a thread that does not run is not joined.
Wait ==
    /\ upc = "wait"
    /\ upc' = IF mRunning THEN "join" ELSE "stopped"
    /\ UNCHANGED <<mAbortRequest, mRunning>>

Join ==
    /\ upc = "join"
    /\ vpc = "done"
    /\ upc' = "stopped"
    /\ UNCHANGED <<mAbortRequest, mRunning>>

\* ~DecoderVideo(): the bitmaps go first, nobody waits for the event thread.
Delete ==
    /\ upc = "stopped"
    /\ upc' = "deleted"
    /\ mRunning' = FALSE
    /\ bmp' = [i \in Slots |-> NoBmp]
    /\ vpc' = AfterSignal(vpc)
    /\ UNCHANGED <<packets, mAbortRequest, dim, made, room, whole,
                   img_convert_ctx, allocated, image, pts, ringVars,
                   eventVars, sdlVars>>

Stopping ==
    /\ Wait \/ Join
    /\ UNCHANGED <<packets, videoVars, slotVars, ringVars, eventVars, sdlVars>>

StopCall ==
    /\ Stop
    /\ UNCHANGED <<packets, videoVars, slotVars, ringVars, eventVars, sdlVars>>

\* The object is gone and the model ends.
Terminated == ~Alive /\ UNCHANGED vars

Next ==
    \/ Enqueue
    \/ VideoStep
    \/ SpuriousWake
    \/ EventStep
    \/ TimerFires
    \/ StopCall
    \/ Stopping
    \/ Delete
    \/ Terminated

Spec == Init /\ [][Next]_vars

(* Every thread that can run eventually runs, a timer eventually expires,  *)
(* and a stop that has begun is carried through.  Nobody has to call stop, *)
(* enqueue a packet or delete the decoder.                                 *)
FairSpec ==
    /\ Spec
    /\ WF_vars(VideoStep)
    /\ WF_vars(EventStep)
    /\ WF_vars(TimerFires)
    /\ WF_vars(Stopping)

-------------------------------------------------------------------------------
VideoPcs == {"created", "prepare", "spawn", "arm", "loop", "get", "slot",
             "slotSleep", "check", "alloc", "allocSleep", "scale", "stamp",
             "publish", "exit", "done"}
EventPcs == {"none", "loop", "wait", "alloc", "allocDone", "refresh",
             "display", "advance", "consume", "done"}

TypeOK ==
    /\ mRunning \in BOOLEAN
    /\ packets \in Nat
    /\ mAbortRequest \in BOOLEAN
    /\ vpc \in VideoPcs
    /\ dim \in Dims
    /\ made \in Nat
    /\ pictq_size \in Int
    /\ pictq_windex \in Slots
    /\ pictq_rindex \in Slots
    /\ bmp \in [Slots -> Dims \cup {NoBmp}]
    /\ allocated \in [Slots -> BOOLEAN]
    /\ image \in [Slots -> Nat]
    /\ pts \in [Slots -> Nat]
    /\ room \in [Slots -> BOOLEAN]
    /\ whole \in [Slots -> BOOLEAN]
    /\ img_convert_ctx \in Dims
    /\ epc \in EventPcs
    /\ eslot \in Slots
    /\ video_current_pts \in Nat
    /\ shown \in Nat
    /\ shownPts \in Nat
    /\ timers \in Nat
    /\ events \in Seq(Events)
    /\ upc \in {"playing", "wait", "join", "stopped", "deleted"}

-------------------------------------------------------------------------------
(* The ring.                                                               *)

If(condition) == IF condition THEN 1 ELSE 0

(* The j-th slot from slot i on, and from the read index on. *)
SlotFrom(i, j) == IF i + j >= N THEN i + j - N ELSE i + j
Slot(j) == SlotFrom(pictq_rindex, j)

(* Slots whose picture is counted by pictq_size and not yet left behind by *)
(* the read index, and slots holding a picture, the one being entered      *)
(* included.                                                               *)
Queued == pictq_size - If(epc = "consume")
Filled == Queued + If(vpc \in {"stamp", "publish"})

(* The oldest picture that has a slot. *)
First == IF epc = "advance" THEN shown ELSE shown + 1

(* The two indices, moved by two threads outside the lock, and the size,   *)
(* changed under it, describe the same ring: it never holds more than N    *)
(* pictures nor fewer than none (queue_picture 229-234,                    *)
(* video_refresh_timer 320-326).                                           *)
RingAgrees ==
    /\ 0 <= Queued
    /\ Queued + If(vpc = "publish") <= N
    /\ pictq_windex = Slot(Queued + If(vpc = "publish"))
    /\ epc \in {"display", "advance"} => Queued > 0

(* Slot i's picture has a bitmap and is whole, unless that bitmap has no   *)
(* memory or a size the converter was not made for.                        *)
InBitmap(i) ==
    /\ bmp[i] # NoBmp
    /\ whole[i] <=> room[i] /\ bmp[i] = img_convert_ctx

(* From the read index on, the slots hold consecutive pictures up to the   *)
(* newest one, each in a bitmap and with its own time stamp: no slot is    *)
(* reused before its picture was shown.                                    *)
PicturesInRing ==
    /\ made + 1 = First + Filled
    /\ \A j \in 0..(Filled - 1) : image[Slot(j)] = First + j
    /\ \A j \in 0..(Queued + If(vpc = "publish") - 1) : pts[Slot(j)] = First + j
    /\ epc = "display" => video_current_pts = First
    /\ Alive => \A j \in 0..(Filled - 1) : InBitmap(Slot(j))

(* While the video thread looks at a slot's bitmap or writes its picture   *)
(* or time stamp, the event thread neither shows that slot nor replaces    *)
(* its bitmap; none of these accesses shares a lock with the other side    *)
(* (193-231 against 266-275 and 333-347).                                  *)
SlotExclusive ==
    /\ vpc \in {"check", "scale", "stamp"} /\ epc \in {"display", "advance"}
          => pictq_windex # pictq_rindex
    /\ epc \in {"alloc", "allocDone"} /\ Alive
          => vpc \in {"alloc", "allocSleep"} /\ eslot = pictq_windex

(* The bitmap a picture goes into was allocated for the size the picture   *)
(* has, though the event thread read that size without a lock, after the   *)
(* video thread had compared it, and the slot's last answer may be of any  *)
(* age (queue_picture 195-208, alloc_picture 339-348).  It says nothing of *)
(* the converter, which keeps the size it was made for (48-52): a picture  *)
(* of another size is not whole, see InBitmap.                             *)
BitmapCurrent == vpc = "scale" /\ Alive => bmp[pictq_windex] = dim

-------------------------------------------------------------------------------
(* The event loop.                                                         *)

Queues(e) == \E i \in 1..Len(events) : events[i] = e

Armed == epc # "none" /\ vpc # "arm"

(* Once the decoder is armed exactly one refresh is on its way, as a       *)
(* timer, as an event or in the hands of the event thread: the chain of    *)
(* one-shot timers neither breaks nor splits (154, 254-264, 277-331).      *)
OneRefresh ==
    /\ timers + If(Queues(REFRESH_EVENT)) + If(epc = "refresh") = If(Armed)
    /\ \A i, j \in 1..Len(events) :
          events[i] = REFRESH_EVENT /\ events[j] = REFRESH_EVENT => i = j

(* A video thread waiting for its bitmap has asked for it, once: the event *)
(* is queued or being handled.  Nobody else's ALLOC event is ever around,  *)
(* and the bitmap asked for is the one of the slot being written.          *)
Asking == vpc \in {"alloc", "allocSleep"} /\ ~allocated[pictq_windex]

AllocHandshake ==
    Alive =>
       /\ \A i \in 1..Len(events) :
             events[i].type = "alloc" => Asking /\ events[i].slot = pictq_windex
       /\ \A i, j \in 1..Len(events) :
             events[i].type = "alloc" /\ events[j].type = "alloc" => i = j
       /\ Asking => (Queues(ALLOC_EVENT(pictq_windex))
                        <=> epc \notin {"alloc", "allocDone"})

(* The video thread sleeps on pictq_cond only while what it waits for is   *)
(* not there: neither of the two signals is missed.                        *)
SleepsForCause ==
    Alive =>
       /\ vpc = "slotSleep" => RingFull
       /\ vpc = "allocSleep" => ~allocated[pictq_windex]

-------------------------------------------------------------------------------
(* Stopping.                                                               *)

(* wait() skips the join when mRunning is false, so the object may be      *)
(* deleted under a video thread that has not begun, or begins just then.   *)
(* It is never deleted while that thread is in the ring, asleep or in the  *)
(* handshake, though: the abort comes first.                               *)
InRing == vpc \in {"slot", "slotSleep", "check", "alloc", "allocSleep",
                   "scale", "stamp", "publish"}

DeletedOutsideRing == ~Alive => ~InRing

(* What decoder.cpp:45-46 takes a result of 0 for: the video thread has    *)
(* ended when stop() returns.                                              *)
StopJoins == upc = "stopped" => vpc = "done"

(* A stopped decoder: stop() returns, whatever the video thread waits for. *)
StopReturns == (upc = "wait") ~> (upc \in {"stopped", "deleted"})

(* Pictures appear one by one in the order they were decoded, each shown   *)
(* for its own time stamp.                                                 *)
ShownInOrder ==
    [][shown' # shown => shown' = shown + 1 /\ shownPts' = shown']_vars

-------------------------------------------------------------------------------
(* The promise: FrameChannel.  A picture enters it when pictq_size counts  *)
(* it and leaves it when it is shown.                                      *)
Passed == If(epc = "advance")   \* shown, its slot still at the read index

Channel == INSTANCE FrameChannel
    WITH Capacity <- N,
         published <- made - If(vpc \in {"stamp", "publish"}),
         channel <- [j \in 1..(Queued - Passed) |-> image[Slot(j - 1 + Passed)]],
         screen <- shown,
         clock <- shownPts,
         closed <- ~mRunning

ImplementsChannel == Channel!Spec

(* ... and while the decoder runs, every picture that entered is shown. *)
ImplementsFairChannel == Channel!FairSpec

-------------------------------------------------------------------------------
(* What module Session takes one decoder for.  Its address is 0.           *)
PhaseOf(u) ==
    CASE u = "wait"    -> "stopping"
      [] u = "deleted" -> "over"
      [] OTHER         -> u

\* Session has no wakeups without a signal: a sleeper is about to look.
VpcOf(p) ==
    CASE p = "slotSleep"                    -> "slot"
      [] p = "allocSleep"                   -> "alloc"
      [] p \in {"scale", "stamp", "publish"} -> "publish"
      [] OTHER                              -> p

EpcOf(p) ==
    CASE p = "allocDone"             -> "alloc"
      [] p \in {"display", "advance"} -> "consume"
      [] OTHER                       -> p

EventOf(e) ==
    IF e = REFRESH_EVENT THEN [type |-> "refresh", data1 |-> -1]
    ELSE [type |-> "alloc", data1 |-> 0]

EventsOf(s) == [i \in 1..Len(s) |-> EventOf(s[i])]

\* The decoder whose ALLOC event is in hand.
AskedOf(p) == IF p \in {"alloc", "allocDone"} THEN 0 ELSE -1

\* The slot being filled has a bitmap that fits.
HasBitmap ==
    \/ vpc \in {"stamp", "publish"}
    \/ bmp[pictq_windex] = dim /\ epc # "allocDone"

\* The last request for a bitmap has been answered.
HasAnswer == ~Asking /\ \E i \in Slots : allocated[i]

OneSession == INSTANCE Session
    WITH K <- 1, Addrs <- {0}, NULL <- -1, Shortfall <- 0,
         phase <- [k \in {1} |-> PhaseOf(upc)],
         at <- [k \in {1} |-> 0],
         mRunning <- [a \in {0} |-> mRunning],
         pictq_size <- [a \in {0} |-> pictq_size],
         bmp <- [a \in {0} |-> HasBitmap],
         allocated <- [a \in {0} |-> HasAnswer],
         mAbortRequest <- [k \in {1} |-> mAbortRequest],
         vpc <- [k \in {1} |-> VpcOf(vpc)],
         epc <- [k \in {1} |-> EpcOf(epc)],
         asked <- [k \in {1} |-> AskedOf(epc)],
         events <- EventsOf(events),
         orderly <- TRUE

(* A step of the decoder is one of Session's or none that Session sees,    *)
(* but for a stop before the video thread has begun, which Session leaves  *)
(* to MediaPlayer: what the decoder hands to SDL, and when, is what        *)
(* Session says of it (IDecoder::stop, queue_picture, startEventThread).   *)
StepsOfSession ==
    [][~(vpc = "created" /\ StopCall) => OneSession!Next]_(OneSession!vars)
===============================================================================
