# Verification project for GPlayer

GPlayer is an Android video player: a Java activity drives a native
`MediaPlayer` object over JNI; the native side reads a file with ffmpeg, decodes
it on several threads, draws through the platform's surface and plays sound
through the platform's `AudioTrack`. Everything that is hard about it happens in
about 1500 lines of C++ under `src/jni/src`, in the way four to six threads share
a few objects. This directory holds TLA+ models of that code, TLC configurations
that check them on small instances, and TLAPS proofs of the properties that
matter for every instance.

In this file `src/` stands for the root of the repository.

## 1. Inventory

### 1.1 Parts of the system

| Part | Code | State it keeps | Operations |
|---|---|---|---|
| PacketQueue | `jni/src/packetqueue.cpp` | singly linked list (`mFirst`, `mLast`, `next`), `mNbPackets`, `mSize`, `mAbortRequest`; one mutex, one condition variable | `put`, `get` (blocking or polling), `size`, `abort`, `flush` |
| Thread, IDecoder | `jni/src/thread.cpp`, `decoder.cpp` | `mRunning`, `mThread`; the queue and the stream | `startAsync`, `wait`, `stop`, `enqueue`, `packets`, `handleRun` |
| DecoderVideo | `jni/src/videodecoder.cpp` | the ring `pictq[2]` with `pictq_size/windex/rindex` under `pictq_mutex`/`pictq_cond`; per slot a bitmap, `allocated` and `pts`; the clocks for synchronisation | `decode` (video thread), `queue_picture`, `startEventThread` (event thread), `alloc_picture`, `video_refresh_timer`, `videoDisplay`, `schedule_refresh`, destructor |
| DecoderAudio | `jni/src/audiodecoder.cpp` | `audio_pkt`, `audio_pkt_temp`, `audio_buf` and its index and size, `audio_clock` | `prepare`, `decode` (returns at once), `cbf` and `audio_decode_frame` on AudioTrack's thread |
| MediaPlayer | `jni/src/mediaplayer.cpp`, `jni/jni/com_lingavin_gplayer_mediaplayer.cpp`, `MediaPlayer.java`, `MovieView.java` | `mCurrentState`, the format context, the two decoders, `mPlayerThread` | `setDataSource`, `setVideoSurface`, `prepare`, `start`, `decodeMovie` (player thread), `suspend`, `isPlaying`, `getDuration`, `getCurrentPosition` |
| Surface output, AudioTrack binding | `jni/src/surface.cpp`, `audiotrack.cpp` | handles of the platform's libraries | register, set, start, stop, lock, unlock |
| File browser | `BaseBrowserActivity.java`, `presentation/*.java` | directory and listing | list, sort, open, go up |
| SDL's timers | `jni/SDL/src/timer/SDL_timer.c` | the pending list and the free list under a spin lock, the sorted list of the timer thread, the map from ids to structures, a semaphore | `SDL_AddTimer`, `SDL_RemoveTimer`, `SDL_TimerThread` |
| SDL's event queue | `jni/SDL/src/events/SDL_events.c` | a ring of 128 places | `SDL_PushEvent`, `SDL_WaitEvent` |
| Vendored | the rest of `jni/SDL`, `jni/ffmpeg`, `library`, `jni/prebuilt` | - | used through the parts above |
| Legacy player | `jni/src/player.c` | - | not compiled: `jni/src/Android.mk` does not list it |

### 1.2 How they interact

* The UI thread calls `MediaPlayer` from the surface's callbacks: created
  (`setDisplay`, `prepare`), changed (`start`), destroyed (`suspend`).
* `start` creates the **player thread**. It creates both decoders, starts the
  AudioTrack and the decoders' threads, and copies packets into the two queues
  until the file ends or `mCurrentState` changes.
* The **video thread** takes packets out of its queue (`get`, blocking), decodes,
  and puts pictures in the ring (`queue_picture`). It creates the **event thread**.
* The event thread sits in `SDL_WaitEvent`. An ALLOC event asks it for a bitmap
  for a slot, a REFRESH event to show the slot at the read index. Every refresh
  arms a one-shot SDL timer, and **SDL's timer thread** pushes the next REFRESH.
* **AudioTrack's thread** calls `cbf`, which decodes sound on that thread and
  blocks in `get` when there are no packets. The audio thread that
  `startAsync` creates does nothing: `decode` returns at once.
* `suspend`, on the UI thread, writes the state, aborts both queues, joins,
  and deletes the decoders.
* What a session leaves behind, the next one finds: SDL is never shut down, so that a
  timer or a REFRESH event is always on its way; the event thread is not joined, and
  has a pointer to the deleted decoder, whose memory the next one may get.

### 1.3 Which behaviours are hard

* The ring's indices are moved outside the lock, each by its own thread, and the
  size inside it; `video_refresh_timer` reads the size without the lock; the
  bitmaps, the pictures and the time stamps are never locked at all.
* Two waiting conditions share one condition variable and `pthread_cond_signal`.
* The refresh chain keeps itself alive: a handler that forgets to arm the timer
  freezes the picture for good, one that arms it twice doubles the rate.
* SDL drops an event when its queue is full and nobody looks at the result.
* `wait()` joins only when it reads `mRunning`, which several threads write.
* `suspend` races with everything: a thread asleep in `get`, on the full ring, in
  the ALLOC handshake; the event thread, which nobody joins; a player thread that
  has not yet written `STARTED`.
* The one converter, the packets' time stamps and the codec's `time_base` are taken at their word: the picture's size may
  change, a time stamp may be rounded or wrong, a picture may last two ticks.
* Sessions share the SDL queue, and perhaps an address, with the remains of earlier ones: a
  REFRESH nobody here asked for, an event thread of another object, a second refresh chain.
* SDL's timers pass their structures between two callers and the timer thread over lists
  that share one link field, three of them outside the lock; the clock they compare wraps.

`PROJECT.json` lists each hazard with its line and the properties that cover it,
or the reason why none does yet.

### 1.4 What makes each part correct

* PacketQueue: the list is exactly the packets put and not taken, in order; no
  packet is stranded while its consumer sleeps; `abort` gets the consumer out.
* DecoderVideo: the ring is a bounded channel that shows each picture once, in
  order, at its time stamp; no slot is touched from two sides; a picture goes
  into a bitmap allocated for its size; exactly one refresh is under way; a stop returns.
* MediaPlayer: `suspend` ends the session; packets go only to living decoders;
  the queues are bounded; one player thread per session.
* DecoderAudio: the callback returns the bytes of the packets in order, and is
  out of `get` after an abort; the clock is as near to what is played as time stamps are.
* SDL's timers: a timer that was set expires exactly once, not early and not late; each
  structure is in one place; the reuse of one never cancels a timer.
* Sessions in a row: no request for a bitmap outlives its decoder, each session adds exactly one refresh
  chain, a suspend returns in every session, the event thread left behind ends.

## 2. Modules

| Module | Models | Role |
|---|---|---|
| `PacketFifo` | what `PacketQueue` promises its clients | abstract specification |
| `PacketQueue` | `packetqueue.cpp` | detailed specification, implements `PacketFifo` |
| `MCPacketQueue` | | TLC instances |
| `PacketQueueProofs` | | theorems |
| `FrameChannel` | what `DecoderVideo` promises the viewer | abstract specification |
| `VideoDecoder` | `videodecoder.cpp`, `decoder.cpp`, `thread.cpp`, and SDL's queue and timers as used there | detailed specification, implements `FrameChannel` |
| `MCVideoDecoder` | | TLC instances |
| `VideoDecoderProofs` | | theorems |
| `MediaPlayer` | `mediaplayer.cpp`, the calls of `MovieView.java`, and the decoders as far as the player sees them | detailed specification |
| `MCMediaPlayer` | | TLC instances |
| `MediaPlayerProofs` | | theorems |
| `AVSync` | the time stamps and delays of `videodecoder.cpp` | detailed specification, with time |
| `MCAVSync` | | TLC instances |
| `AVSyncProofs` | | theorems |
| `AudioStream` | what `DecoderAudio` promises AudioTrack | abstract specification |
| `AudioDecoder` | `audiodecoder.cpp` | detailed specification, implements `AudioStream` |
| `MCAudioDecoder` | | TLC instances |
| `AudioDecoderProofs` | | theorems |
| `OneShotTimers` | what SDL's timers promise | abstract specification |
| `SDLTimers` | `SDL_timer.c` | detailed specification, implements `OneShotTimers` |
| `SDLTimersProofs` | | theorems |
| `SDLTimersRefinement` | | theorem: `SDLTimers` implements `OneShotTimers` |
| `Session` | sessions in a row: `DecoderVideo` with its threads, SDL's queue, and memory that is used again | composition; for one session `VideoDecoder` implements its steps |
| `SessionProofs` | | theorems |

`SDLTimers` and `Session` have their TLC instance in their `.cfg` alone; the other detailed modules have an MC module.

### 2.1 PacketQueue

The state is the class's: `mFirst`, `mLast`, `mNbPackets`, `mSize`,
`mAbortRequest`, the links `next` and the contents `pkt` of the nodes, which are
addresses out of a finite set that `av_malloc` picks from and `av_free` returns.
Per consumer there is a program counter: idle, ready (about to take or retake the
mutex) or asleep in `pthread_cond_wait`. A critical section is one step, so a
blocking `get` is `Call`, then any number of `GetWait` and wake-ups, then
`GetAborted`, `GetPacket` or `GetEmpty`. `pthread_cond_signal` wakes any one
sleeper; a spurious wake-up is an action. `chain` and `leaked` are ghosts: the
nodes in the list, and the nodes a `flush` dropped. `flush` reads
`pkt->next` of the node it has just freed (`packetqueue.cpp:48-52`). That memory may
still hold the link or hold something else; the model lets the loop end early after any number
of nodes, and then the others are leaked. (What it does not model is a link
into memory that the allocator gave away.) `put` failing in `av_dup_packet` or `av_malloc`
returns before the lock and changes nothing, a stuttering step.

### 2.2 VideoDecoder

One decoder object from `startAsync` to its deletion. Four threads:

* the **video thread** (`vpc`): `Begin` is `startThread` setting `mRunning`;
  `Prepare`, `Spawn`, `Arm` are `prepare()` and the head of `decode()`;
  `LoopHead`, `GetAborted`, `GetPacket` its loop; `WaitForSlot`, `CheckBitmap`,
  `WaitForBitmap`, `Scale`, `Stamp`, `Publish` are `queue_picture()`; `Finish`
  is the return to `startThread`;
* the **event thread** (`epc`): `EventLoop`, `TakeEvent`, `AllocBitmap`,
  `AllocDone`, `Refresh`, `Display`, `Advance`, `Consume`;
* SDL's **timer thread**: `TimerFires`;
* the **stopping thread** (`upc`): `Stop`, `Wait`, `Join`, `Delete`.

Steps are cut where the code meets shared state: one step per critical section,
and one per stretch between two of them that touches shared fields (the bitmap
test, the scaling, the time stamp and write index, the display, the read index).
`pictq_windex` and `vp->pts` share a step (`Stamp`): the only other
thread looks at neither before `pictq_size` counts the slot, which is what
`SlotExclusive` and `PicturesInRing` check. Abstractions:

* the packet queue is a number and an abort flag, which is what `PacketFifo`
  promises a sole consumer: `get` returns -1 if aborted, a packet if there is one;
* picture *k* is the *k*-th one scaled; its time stamp is named *k* too, so "shown
  at its own time stamp" is the equality of two numbers. How long the refresh
  waits is left to the timer, which fires at any time;
* the codec's size changes to any member of `Dims` with any picture, `prepare` can fail, a packet may complete no picture;
* `alloc_picture` allocates for the codec's present size, and its `av_malloc` may fail (`room`); the converter is made once, for the size the
  codec had when the decoder was made (`img_convert_ctx`, never written again). `Converts` says when `sws_scale` writes the whole picture: both sizes are the
  converter's and the memory is there. `whole` remembers it of each slot, and nothing claims that it always is so. What a converter of another size does to
  the memory behind a bitmap is not followed, nor does the model go on after `avcodec_alloc_frame` failed in `alloc_picture`, where
  `avpicture_fill` writes through the null pointer;
* `AfterSignal` is `pthread_cond_signal(&pictq_cond)`, on which only the video
  thread waits; `SpuriousWake` is separate;
* the SDL queue holds `EventCap` events and drops what does not fit. SDL's own
  figure is 127 (`SDL_events.c`, MAXEVENTS 128); 2 is the weakest assumption under
  which nothing is lost, and that is what is checked and proved.

The model ends with the deletion: what threads do with the dead object's memory is
not described. It says *where* they are when it dies (`DeletedOutsideRing`).

`vpc`, `upc` and the event thread's `epc` are steps of code, not variables of it. `image` is a
ghost for the pixels, `made`, `shown` and `shownPts` count and remember.

### 2.3 MediaPlayer

One native object and everything that shares it:

* the **UI thread** (`upc`): `SetDataSource` is `onCreate`; `SurfaceCreated` is
  `setVideoSurface` and `prepare`; `SurfaceChanged`, called once after it and then any
  number of times, is `start`; `GetCurrentPosition` the media controller; `Suspend`, `Stop`, `Wait`,
  `JoinPlayer`, `Release`, `Delete` are `suspend()` line by line;
* the **player threads** (`ppc`), one per accepted `start`: `NewDecoder`, `SetTrack`,
  `RunDecoder`, `Started`, `LoopHead`, `Pressure`, `FilmEnds`, `ReadPacket`, `Enqueue`, `WaitAudio`,
  `Complete` are `decodeMovie()` in order;
* the **decoders' threads** (`thread`): `Begin`, `Consume`, `Leaves`, `End`; the audio thread has
  nothing to do between its beginning and its end;
* the video decoders' **event threads** (`events`): `EventStep` is the loop of `startEventThread`, which ends when it finds `mRunning` false. It uses the whole object
  meanwhile (in full in `Session`), here only whether it is still there;
* **AudioTrack's thread**: `Callback`.

The decoder is cut down to what `PacketFifo` and `VideoDecoder` say of it: a number of
packets, the abort flag, `mRunning`, and where its thread is. A decoder is named by its kind and the player
thread that created it, so that `mDecoder` (the pointers `mDecoderAudio` and
`mDecoderVideo`) can point to one whose creator is another thread. Pointers nobody has set
hold `NULL` or `Wild`; `mRunning` of a new decoder holds either value.
Following a null, unset or dangling pointer sets `crashed` to what was followed, and
the model stops; reading the position through an unset pointer is such a step, and so is
releasing a track that was never registered (`NoTrack`; `setVideoSurface` may fail, and nobody looks). Where the access may also go unnoticed
the model has both outcomes: a thread that leaves a deleted decoder writes `mRunning` once more (`thread.cpp:55`), and the event thread of a
deleted decoder reads freed memory, which may let it go on or end. `Film` bounds the packets `av_read_frame` delivers.

`Settled` is a ghost predicate: one player thread, in its loop or beyond it, has created
both decoders, and their threads have begun. `settled` remembers whether that was so when
`suspend` was called.

### 2.4 AVSync

What `VideoDecoder` leaves to chance: *when* a picture is shown. The ring is a sequence of at most
`N` pictures, as `FrameChannel` allows. `Decode` is `process()` with `synchronize()`: the container
gives a time stamp or none, and `mVideoClock` fills in. `Refresh` is `video_refresh_timer()` from its
first line to its last: `Lasts` is the duration it believes in (288-294), `Adjusted` the correction
against the audio clock (300-308), `ActualDelay` the wait (311-315). `RefreshEmpty` is its first
branch. `now` is the time of day when it last ran, `alarm` when the timer it set expires; a timer is never
early and at most `Jitter` late, and the handler itself takes no time.

Times are integers; the run with the code's own figures counts milliseconds. The sound plays at its own pace, a constant
`skew` away from the picture: `audio_clock` in steps of one packet is left to `AudioDecoder`. `truth` is a ghost: where
a picture belongs on the film's time axis. It does not follow `synchronize()`, but what the codec's interface says of a picture's duration (`libavcodec/avcodec.h`, 1161-1167 and
1444-1451): `ticks_per_frame` times `time_base`, and half of that more per repetition (`Duration`). `synchronize()` leaves `ticks_per_frame` out.
The container gives the first picture's time stamp, and of the others some (`GivenRight`); up to `Strays` times a stamp may also be wrong by any member of
`Errors`, or the first one missing (`GivenWrong`): `process()` takes whatever the best effort is. Between the constructor, which reads the clock into `frame_timer`, and the first timer, up to `Startup` passes.

### 2.5 AudioDecoder

One decoder and the four threads that share it. AudioTrack's thread runs `cbf()`: `MoreData` enters
it, `Refill` and `Copy` are its loop, `Silence` its answer to a -1. Inside `audio_decode_frame()`,
`NoMemory`, `DecodeError`, `DecodeNothing`, `ResampleError`, `Divide`, `DecodeFrame` are the ways through its inner loop,
`TakePacket` and `GetRefused` its outer one. `Prepare` is the audio thread's whole life, `Enqueue` the player thread,
`Stop` the UI thread. Nothing makes the callback wait for `Prepare`, and it does not in the model.

* A packet is a sequence of frame numbers; all frames last one unit, `Bytes` of their format says how many bytes
  they yield after conversion. A packet has a time stamp or none; one it has is off by at most `Rounding` (`Near`), as in a container that counts in milliseconds. A
  time stamp that has nothing to do with the packet's place is not modelled: `audiodecoder.cpp:150-152` sets the clock to it without looking. A format stands for sample format, rate and channel layout together. `held`, `frame`, `silent` and
  `exact` are ghosts.
* `audio_pkt_temp` is the frames left. `new_packet` and `flush_complete` matter only for packets without data, which the player
  thread never enqueues. A `prepare()` that clears the packet while it is copied or decoded has lost its rest, as when it comes just after; torn values
  are not modelled, nor is `prepare()` in two halves.
* The memory of a new decoder is zero: with `audio_buf2` in it the object takes more than 700 kB, which an
  allocator maps fresh. The constructor sets nothing but the clock, so on other platforms `mFrame`, `swr_ctx` and the buffer's index start with any value.
* A resampler made before `prepare()` has set the target cannot be initialised: `swr_init()` gives up before it has set anything. The frame it was made for is dropped
  with its packet, but `swr_ctx` stays, and a following frame in the format of the last good one is converted with it: `swresample.c:347` divides by zero (`Divide`). One
  whose `swr_init()` failed later converts all the same (`DecodeFrame`).
* A resampler may hold back up to `Delay` bytes of what it is given (`delayed`) and give them out with a later frame; `swr_free()` drops them (`Resampler`). A frame
  that fills `audio_buf2` (`Full` bytes) makes the code call `swr_init()` again, and what did not fit is lost with what was held (`Converted`).
* `mRunning`, which an aborted `get()` clears, is in `MediaPlayer` (`Callback`).

`AudioStream` counts the bytes of the frame that is being delivered and those kept back. The mapping makes `left` the part of the buffer not yet copied, or nothing
while the buffer holds silence.

### 2.6 SDLTimers

`SDL_timer.c` as GPlayer uses it: one-shot timers, set by the video thread (`Arm`) and by the event thread (every refresh), and
never cancelled. A client's call of `SDL_AddTimer` is `Obtain` (a structure from the free list, or from `malloc`), `RemoveTimer` (the
map entry of a structure that was used before), `Fill`, `Map`, `Push` and `Post`; the timer thread is `Maintain` (splice and free list, under
the spin lock), `Sort`, `Dispatch`, `Reckon`, `Wake`. A chain of `next` links is the sequence of its structures, so that
"in one list, once" is a statement about sequences. `malloc` may fail for a new structure (nothing happens) and for the
map entry (the id is used up).

`Tick` is the clock, counted modulo `Word` (2^32 in SDL; `Before` is the signed comparison). What can run is kept waiting at most
`Slack` ticks by the scheduler, and a thread that is in `SDL_AddTimer` at most `CallSlack`; `MaxLate`, the lateness of a timer, follows from them.
`left` is a ghost: the true time left to each timer that is set, with which `SDLTimers` maps to `OneShotTimers`.
That module is what justifies the plain number of pending timers in `VideoDecoder` and `Session`, and the bounded lateness in `AVSync`.

### 2.7 Session

What the models of one session stop at. Session *k* is a `MediaPlayer` and its `DecoderVideo`: `New`, `Start`, `Stop`, `Wait`, `Join`,
`Delete` are its phases, `vpc[k]` its video thread, `epc[k]` its event thread. The fields of the object are functions of its
*address*, `at[k]`, and `Start` takes any address no living decoder has: an event thread of a session that is over goes on with
`mRunning[at[k]]`, whatever that memory says by now. `Delete` leaves either value in it (the allocator may
scribble), and so may `Start`. One queue of events and one number of timers serve all sessions. An ALLOC event carries the address of the decoder
that asked; `AllocPicture` answers in *that* decoder but signals the condition variable of the one whose thread it is, as the code does.

Of the ring only its size is kept; of the bitmaps whether the slot to be filled has one that fits, which may change whenever a picture comes out of the
codec or the ring moves on (`AnyBitmap`); the packet queue always has a packet. `VideoDecoder` has these in full, and
says so: its `OneSession` is `Session` with one session at one address, and `StepsOfSession` that each step of the detailed decoder is one of `Session`'s or one
`Session` does not see (scaling, showing, moving an index, a spurious wake-up). The phases after `Start` are those of the stopping
thread; `stamp` and `publish` are one place for `Session`, as are `display` and `consume`; a sleeper whose condition `Session` would test again at once
counts as awake. Left out is only a stop before the video thread has begun, as in `Session` itself. `Session` takes other steps, too: it is the more
general of the two.

`orderly` is a ghost: whenever a session began, the threads of all earlier ones had ended. GPlayer does nothing to make it so; it usually
holds because a film is chosen by hand, and a REFRESH comes at least every two seconds. Without it TLC
finds `RequestsLive` violated within 24 steps: `wait()` does not join a video thread that has left its loop, so the thread's last write, `mRunning = false`,
can come when the next decoder has the same address; that one's video thread takes it for a stop and leaves the handshake, with its request still in the
queue. An event thread revived by a new decoder's `mRunning` at its old address can also take an event that is not its own, answer it on the wrong condition variable, and
leave `suspend` hanging for good. That is why the properties that need it say so.

## 3. Runs

| Run | Checks |
|---|---|
| `queue` | one consumer, fair: `TypeOK`, `ListWellFormed`, `NoLostWakeup`, `ImplementsFairFifo` |
| `video` | all threads, fair: `TypeOK`, six safety invariants, `StopReturns`, `ImplementsFairChannel`, no deadlock |
| `video_stop_joins` | a finding |
| `player_safe` | two player threads, no fairness: `TypeOK`, `OnlyLateUse`, `JoinedBeforeDelete`, `OnlyStartHidesStop`, `NoStartBesideLoop` |
| `player_live` | one player thread, fair, a longer film: `QueuesBounded`, `SuspendReturns`, `PlaybackEnds` |
| `sync_any` | small figures, every irregularity: `TypeOK`, `StampsTrue`, `RefreshSoon` |
| `sync_step` | the code's figures, 25 pictures a second: `ComesIntoStep`, `KeepsStep` |
| `sync_start` | a finding |
| `audio_all` | all threads, fair: `TypeOK`, `ClockTrue`, `ClockForward`, `ImplementsStream`, `CallbackReturns` |
| `audio_silence` | a finding |
| `sdl_timers` | two clients and the timer thread, a clock that wraps, fair: `TypeOK`, `OnePlace`, `MapExact`, `ImplementsTimers`, no deadlock |
| `sessions` | two sessions in a row, fair: `TypeOK`, `RefreshesAddUp`, `RequestsLive`, `SuspendReturns`, `EventThreadLeaves`, no deadlock |

**What the queue run shows.** Whatever the interleaving of puts, gets, aborts and
flushes, the pointers describe one list in order; each waiting packet has an awake
consumer as long as anybody sleeps; the consumer gets every answer the FIFO has for it, and is
freed by `abort`. With two consumers the last one is not true (only one is
signalled), and the run has one, as every queue of the player has. The theorems about the list, the wake-ups and the
FIFO cover any number.

**What the video run shows.** With two slots and sizes that change all the time
the ring is a channel: a slot is neither overwritten before it is shown nor shown
before it is written, although the only lock protects a counter. The handshake
never meets a request or an answer of an earlier one. The refresh chain neither
breaks nor splits. A stop returns wherever the video thread happens to be.

**What the player runs show.** When the session is settled, `suspend` aborts before it joins, the player thread is past its last use
of what it deletes, the callback is out of `get` before the track goes, and it returns whatever the threads were waiting for. The decoders' own threads are
not all past theirs: one that has cleared `mRunning` on its way out is not joined and clears it once more, in freed memory, and the event thread is not waited for at all.
`OnlyLateUse` says that these two are all, `JoinedBeforeDelete` that both queues were aborted and nothing but that write is left to the threads `wait()` is for. In whatever session,
a player thread that has not seen the stop misses it for two reasons only (`OnlyStartHidesStop`): a thread that is starting up writes `STARTED` over it, or one of two player threads
writes `PLAYBACK_COMPLETE`, which the other one does not take for a stop. A player thread that is reading is never doubled. The smaller of the two queues is bounded by the limit plus the
packet on its way, and back-pressure never stops playback. `OnlyLateUse`, `JoinedBeforeDelete` and the return of `suspend` are about settled sessions, because none of them holds when `suspend` (or a
second `start`) meets a session that is still starting: section 5 lists what the code then does.

**What the sync runs show.** A picture without a time stamp gets the right one, repetitions counted, as long as the film does not
begin at 0, no time stamp was wrong, and the codec's `time_base` is the duration of a picture (`ticks_per_frame` is 1). Whatever the time stamps and however the sound behaves, the next refresh is neither before the picture's ideal time nor more than twice
the last believed duration away. With the code's thresholds, playback that starts up to a second out of step catches up within
the film, and from then on every picture is within its own duration of the sound: hurrying and waiting do not alternate.

**What the audio runs show.** The decoder may lose frames (errors, and whatever it takes before `prepare()` has run), but the ones it
returns are delivered once and in order for all sizes of requests, a frame begun only when the last one is played; what a resampler holds back comes with a later frame or is lost as a whole.
The clock that times the video is as near to the truth as the time stamps from one of these to the next loss: their errors do not add up. It does run back, when a stamp is earlier than
the clock had got, but by no more than two errors (`ClockForward`); with exact stamps (`Rounding = 0`) it never does. A stop gets AudioTrack's thread out, and it stays silent.

**What the timers run shows.** However the two clients and the timer thread interleave, the structures stay in one place each, a
reused structure takes its own old entry out of the map and no other, and a timer that was set is called exactly
once, neither early nor more than `MaxLate` late, also when the clock wraps between setting and calling.

**What the sessions run shows.** A session hands on one refresh and nothing else: no request, no sleeper. The next one
works with an event or a timer it did not ask for (the *k*-th session runs with *k* refresh chains,
which overlap in time but stay *k*: `RefreshesAddUp` holds however badly the sessions overlap), its suspend returns, and
the event thread nobody joins is woken by the refresh it has itself set and ends, as long as its memory still says "not running". The
assumption `EventCap > K` is essential: SDL's queue holds 127 events, so after 127 sessions in one process an ALLOC event
finds no room, and the video thread waits for its answer for ever. If sessions overlap, a session that was stopped may leave its request, too: with three
sessions and `EventCap = 4` TLC finds, within 39 steps, two refreshes and two requests in the queue when the third timer fires, and `RefreshesAddUp` violated; with
`EventCap = 5` (one address, 4.5 million states) it holds. `ChainsAddUp` proves it for `EventCap >= 2 * K - 1`, which is the run's 3 for two sessions and 5 for three.

**Findings.** `SilenceHasBuffer`: the comment at `audiodecoder.cpp:172` promises silence after an error, but if
no frame was decoded yet there is no buffer, and the zeroes go through a null pointer. `StampsTrue`: `synchronize()` takes a given time stamp of 0 for none, against its own comments
(`videodecoder.cpp:86`, `:89`), and uses the clock nobody has set. `StopJoins`: `decoder.cpp:45-46` takes a result of 0 from `wait()` as
"the thread has ended", but `wait()` also returns 0 when the new thread has not
yet run `startThread`.

**Bounds.** Three list nodes distinguish empty, one, head/tail and a middle node;
two packets of different size make swapped contents or sizes visible. `N = 2` is the code's own
`VIDEO_PICTURE_QUEUE_SIZE`. Two picture sizes suffice for "fits or not". Four
pictures let both indices wrap twice. `MaxPackets` 1 or 2: the video thread
only distinguishes none from some. `MaxFrames` ends the stream: after it, packets yield
no more pictures, as at the end of a file. Symmetry is used in `video_stop_joins` (over picture sizes) and `player_safe` (over
player threads) only, which check no liveness.

For the player, two threads are what two `start`s before `STARTED` take; a third would only repeat
the second. `MAX_PLAYER_QUEUE_SIZE = 1` (the code has 10) makes "over the limit" differ from "not empty"; six packets fill both queues over the
limit, with one to spare each, which is why `player_live` has a longer film and one thread.
For the synchronisation, 120 pictures are enough to make up for a second at 40 ms a picture; the head starts are odd and even, small
and large. `sync_any` has small figures in the code's proportions instead (the threshold below the period, the jump bound above twice the period) so that
all combinations of repetitions, missing stamps and stalls fit; head starts of up to 12 pass `AV_NOSYNC_THRESHOLE` on both sides.
Two ticks a picture make the difference between the truth and `synchronize()`'s reckoning; the wrong stamps of `sync_any` (50 early or 25 late) go backwards and jump past `MAX_DELAY`.
For the audio decoder, five frames make packets of one, two and three; time stamps off by 1 either way let the clock run back by 2; with `Full = 3` and `Delay = 1` a frame can fill the buffer, or leave a byte behind; requests of 1 and 3 bytes against frames of 2 and 3 and
silences of 2 meet every alignment; two formats are "needs conversion" or not.
For the timers, two structures and two timers are enough for a reuse beside a timer that is set and for an order of two; the
timer thread may be held up for 2 ticks, longer than the shortest interval, so that its loop can outlast the wait it computes, and
`Word = 17` is just above twice the largest difference compared, so that every comparison meets the wrap. Clients are
not held up (`CallSlack = 0`): the run has all interleavings of their steps with the timer thread's, but within one tick.
For the sessions, two of them and two addresses give both "the same memory again" and "other memory"; a ring of one place is
full and empty with one picture each way; `EventCap = 3` is the smallest that `EventCapAssumption` admits. `Shortfall` bounds how far a
zombie event thread may push the ring's size below zero; in orderly sessions it never gets there, which is what `TypeCorrect` proves.
`audio_all` turns the deadlock check off because the model ends when the callback has crashed. Both player runs turn the deadlock check off: after a crash nothing moves, and a suspend of an unsettled
session may really hang.

**Fairness.** In `PacketQueue`, a consumer that is awake eventually gets the mutex.
In `VideoDecoder`, weak fairness of the video thread, of the event thread, of timers, and of
a stop that has begun (its remaining steps are `wait()` and the join): each is a thread
that the OS schedules, or an SDL timer with a finite delay. Nothing forces
anybody to enqueue, to stop, or to delete, and in `MediaPlayer` nothing forces a call of the UI thread, but every thread and
a `suspend` that has begun go on when they can, and spurious wake-ups are not assumed to happen. In `AudioDecoder`, the callback runs on. In `SDLTimers`, the timer thread runs, a
call of `SDL_AddTimer` returns and time passes. In `Session`, each session's threads run, timers fire (`OneShotTimers`) and a suspend that has begun is
carried through; nobody has to begin or end a session, and `Terminated` lets overlapping sessions stand still, because they may really hang. `FrameChannel`'s fairness
is a result, not an assumption: a waiting picture is eventually shown while the decoder runs.

## 4. Proofs

tlapm checks every theorem below for all values of the constants that satisfy
the named assumptions (`N >= 1`, at least two places in the event queue, any
finite set of consumers, any nodes, packets and sizes). No theorem uses the bounds of the runs.

**PacketQueueProofs.** `TypeCorrect`, `ListCorrect`, `WakeupsKept`,
`AbortReachesSole`, `FifoImplemented` (the last is the safety part of `ImplementsFairFifo`). `ListWellFormed` is inductive given the
types: `Put` and `GetPacket` change one end of the chain each. For the
wake-ups the invariant counts: a put adds one packet and, if anybody sleeps, one
ready consumer; a get that takes a packet uses one up; a get that finds none has
nothing to lose.

**VideoDecoderProofs.** One inductive invariant, `DecoderInv`, in layers, each of which is
preserved given the ones before it:

1. `TypeOK`;
2. `ControlInv`: `mRunning` is set while the video thread works, an aborted queue
   keeps the video thread out of the ring once the stop has returned, the event thread and
   the first timer start in order. `DeletionSafe` follows;
3. `RingInv`: `RingAgrees`, and `RoomReserved`: once the video thread has seen room
   there is room until it publishes, because the other thread only makes more.
   `RingCorrect` follows;
4. `EventsInv`: `OneRefresh`, `AllocHandshake`, `AskedFor`. They need each other: the
   queue holds at most one event of each kind, hence never overflows, hence no
   request and no refresh is lost. `RefreshChain`, `HandshakeCorrect`;
5. `BitmapInv`: from the answer to the scaling the slot's bitmap is of the picture's size. `BitmapIsCurrent`, which says nothing of the converter;
6. `PicturesInRing`. `PicturesCorrect`; with 3 and 4, `SlotsExclusive`; with the fact that only
   `Display` changes the screen, `OrderCorrect`.

`SignalsKept` proves `SleepsForCause` (which no run repeats, like `RingAgrees`: the run's liveness and refinement go further). `ChannelImplemented` is the safety part of
`ImplementsFairChannel`, and `OrderCorrect` a reading of it: under
`DecoderInv` everything the mapping yields is a function of the picture shown and the number
waiting, `Publish` adds one to the second, `Display` moves one from the second to the
first, and every other step leaves both alone or flips `mRunning`.

`SessionImplemented` proves `StepsOfSession` (which no run repeats). It takes `DecoderInv` and one thing more, `AsksForCause`: while a request is open the slot
has no bitmap that fits, so that `AllocBitmap`, which writes the bitmap before it takes the lock, changes nothing `Session` sees before `AllocDone`.
The layers each have their part: `ControlInv` keeps `mRunning` set in the handshake and the ring empty of writers at `Delete`, `EventsInv` makes the ALLOC event
in hand the one that was asked for, `BitmapInv` lets `Scale` find a fitting bitmap or none, `RingAgrees` keeps `Consume` above zero. So the
abstraction that `SessionProofs` reasons with is not one more reading of the code beside the detailed one.

**AVSyncProofs.** `TypeCorrect` and `RefreshBounded` hold with no assumption on time stamps or sound: what is believed stays below
`MAX_DELAY`, and the ideal time moves by at most twice that. `StampsCorrect` needs a film that does not begin at 0, and the
invariant that the video clock is the truth from the first picture on, while no time stamp was wrong and a tick is a picture: only then are `FrameDelay` and `Duration` the same. `StepKept` is about a `SteadyFilm`: no repetitions, and the relations
between period, lateness and thresholds that make the correction a stable one
(the shortest delay with twice the lateness is below the period, the period below the jump bound, the sound's threshold not above the period). Its invariant says that
consecutive time stamps are one period apart (`Spaced`); `StepArithmetic` then covers the three corrections.
`StepReached` is about a steady film whose sound starts up to `apart` ahead of the pictures or behind them: it is in step from the time on that `Enough` pictures
were shown, if the decoder kept up. `Distance` measures how far it is from that, by how late or early the next picture is planned and by how far the ideal time lags behind the timer.
Hurrying makes the first better and the second worse (by at most `Lag` for at least `Gain`); the weights make up for it, so that each refresh out of step
takes `Gain * Gain` off the measure: one that hurries (`ApproachLate`), one that catches up with the clock or neither hurries nor waits (`ApproachLagging`,
`ApproachLanding`), one that waits (`ApproachEarly`). The invariant `Converging` says that the pictures shown have paid for it, starting from `Worst(apart)` after the first. `Correctable`
is needed because from `AV_NOSYNC_THRESHOLE` (10 s) on the code corrects nothing: no difference on the way may reach it, which holds for up to about five seconds of `apart` with the code's
figures. For a second and 25 pictures a second 81 pictures are `Enough`; the run's film has 120; `ComesIntoStepCorrect` is the run's property for every rate, lateness and
thresholds in the stated relations.

**AudioDecoderProofs.** `TypeCorrect`, `ClockCorrect`, `ClockNeverBack`, `StreamImplemented`. The invariant `RowInv` says that the frames
enqueued form one row: each packet ends where the next begins, the packet in hand ends where the queue begins (`HandInRow`), the clock and
the last frame are behind the next one (`Behind`), and exactly one behind it while nothing is lost (`Exact`). Taking a packet, returning a frame,
losing one and `prepare()` all move `NextFrame` forward, and nothing else touches the row. The clock is within `Rounding` of a place on that row, so that a time stamp sets it back by at most two errors. The refinement needs two more facts: a frame
is decoded only into an empty buffer (`EmptyInv`), and nothing is in hand once a stop was answered (`SilentInv`).

**MediaPlayerProofs.** The invariant `Inv` has four parts. `TypeInv` adds to the types that the decoder AudioTrack's thread
follows was created by a player thread (`TypeCorrect`). `LoopInv`: while a player thread reads, the state is not `PREPARED`, hence no `start` is accepted
(`StartsCorrect`). `MemInv`: decoders are deleted by the end of a suspend only, `mDecoder` points to what was created, and a thread that runs in a
living decoder has its `mRunning` set (so that `wait` joins it). `SuspendInv` is about a suspend that found the session settled, and follows `suspend()` line by line:
which decoder is aborted and joined at which line, that both are the one player thread's, and
that the threads of both are past everything but the last write of `mRunning` when they are deleted. `LateUses` and `DeletionJoined` follow. `StopHiddenByStart` needs no more than `TypeInv`: of the steps of a player thread, `Started` and `Complete` are the
only ones that write a state which does not end the loop, and those of the UI thread between the stop and the return write none. `QueuesCorrect` has an invariant of its own, `BoundInv`
(a packet is on its way only while one queue is within the limit), and needs a session that was started once: a second player thread feeds the same decoders
and adds a packet of its own.

**SDLTimersProofs.** `TypeInv` adds to the types that a caller holds a structure from `Obtain` to `Push` and that the timer thread has sorted all timers
before it dispatches (`TypeCorrect`). `PlaceInv` says that the five lists have no repetition and no common element (`ListsApart`), that nothing in a caller's
hands is listed or held twice (`HandsApart`), and that the heap is the rest (`HeapExact`). Each step moves one structure, or one list as a whole, from one place
to another, for which the lemmas about `\o`, `Tail`, `Append` and `InsertAt` say what the elements are (`StructsKept`). `MapInv`: entries and structures correspond, ids in
use are apart and below `nextID`, what is set is not canceled and what is done with is (`MapCorrect`).

**SDLTimersRefinement.** `TimersImplemented` is the safety part of `ImplementsTimers`: no timer is early, lost, or called twice, and none is later than `MaxLate`. `MaxLate` is in no
guard of the timer thread; it follows from how long the scheduler may hold up a client (`CallSlack`) and one pass of the thread (`Slack`). The library knows nothing
of `%`, so the module starts with what remainders do, up to `ComparedFrom`: two readings of the clock compare as the times they stand for, if these are less than half of `Word` apart. The invariant
`TimeInv` has four parts. `LeftInv`: the timers with a time left are those set and not yet called, and `scheduled` is `now` plus that time, modulo `Word`. `LookInv`: the reading
the thread goes by is as old as its pass. `SortedInv`: the list is in the order of the times left, which `Place` and `InsertAt` keep. `LateInv`: how late a timer can be where it is;
the delicate part is the list of pending timers, where a timer either has its client still with it (`Fresh`) or the semaphore was posted and the thread takes it over in this pass
or the next (`Taken`): a post that was lost, or a wait longer than what is left to the first timer, would break it.

**SessionProofs.** As long as sessions are orderly: `Ordered` puts all earlier sessions, threads included, behind the one that has begun, so that one session is active (`Alone`).
`Stages` ties its phase, its video thread and its event thread together; `Running` and `Room` are what `VideoDecoder` proves of one decoder, here
of the decoder at an address that may have had another before. `ReqInv`: one request at most, in the queue or in hand, and a video thread that
waits for it (`RequestsCorrect`). `RefreshesAddUp` itself is inductive given these: the queue holds at most one refresh per session and one request
(`QueueLength`), which fits because `EventCap > K`, so that nothing is dropped (`ChainsCorrect`). `TypeCorrect` needs `orderly`, too: with three sessions
that overlap the ring can be over-filled.
`ChainsAddUp` does without `orderly`. What remains of `Stages` is `Placed`, and `Follow`: only one session has not been aborted. There may be many requests then, but
a session *owes* one (`Owes`) while its video thread waits for a bitmap that is not there, or has gone on without it because its decoder does not run
or was aborted; after that it asks for no other. So there are at most as many requests as debts (`RequestsOwed`): asking makes a debt,
an answer pays at most the debt of the one session that plays, and no other step pays any, also when it writes into memory that several sessions share. The first session has none
before it to overlap with and leaves nothing (`FirstAlone`, `SecondOwes`). Hence, of two sessions or more, at most *K* - 1 requests and, when a timer
fires, *K* - 1 refreshes are in the queue, and `2 * K - 1` places are enough (`LooseRoom`).

**Model-checked only.** Liveness (`CallbackReturns`, `StopReturns`, `SuspendReturns` of both modules,
`PlaybackEnds`, `EventThreadLeaves`, and the fairness in `ImplementsFairFifo`, `ImplementsFairChannel` and `ImplementsTimers`), which needs `ENABLED`. `RefreshesAddUp` for sessions that overlap and a queue of fewer than `2 * K - 1` places, where it may fail.

## 5. Assumptions and omissions

* Single reads and writes of shared fields are sequentially consistent. The code has
  no barriers outside its mutexes; what a weaker memory order could add is not modelled.
* Leaks are not tracked: `mFrame`, which every stopped session leaves behind (`videodecoder.cpp:160` returns before `:174` frees it), and lost packets.
* The event thread is created (`SDL_CreateThread`'s result is ignored in the code), and the decoder's timers are set: in `VideoDecoder` and `Session` `SDL_AddTimer` does
  not fail. `SDLTimers` has the failures; one of them ends the refresh chain for good, as `schedule_refresh` does not look at the result.
* Timers that repeat, that are cancelled by their owner, and `SDL_TimerQuit` are left out: nobody uses them. Timer ids do not wrap.
* The clock is not set. SDL's Android configuration does not define `HAVE_CLOCK_GETTIME`, so that `SDL_GetTicks` reads the time of day: a clock
  set back by an hour makes the next refresh an hour late. With such a step in `Tick` no bound on the lateness holds.
* No foreign SDL events: the library is used for nothing else.
* `AllocBitmap` reads the codec's size (`dim`) without the lock; the video thread
  stands still in the handshake meanwhile.
* A `suspend` of a settled session has two faults that `OnlyLateUse` names: the last write of `mRunning` by a thread that was not joined, and the event thread,
  which goes on with the deleted decoder until it sees `mRunning` false there. `MediaPlayer` ends with the access or goes on as if nothing had happened; `Session` has what the event thread then does.
* `OnlyLateUse`, `JoinedBeforeDelete` and `SuspendReturns` are about settled sessions, because for the others the code has these
  faults, all of them behaviours of the model: a `suspend` before `decodeMovie` has written
  `STARTED` is overwritten by it (`OnlyStartHidesStop` says that nothing else does so while there is one player thread), and the join waits for the film, or for ever once both aborted queues are full; a second
  `surfaceChanged` in that time creates a second player thread that replaces the decoders, and the callback stays asleep on a queue
  nobody aborts; a `suspend` or a request for the position before the decoders exist follows unset pointers, also when the track could not be
  set, and a track that could not even be registered is released through a null pointer; a new surface after a `suspend`, and a file that cannot be opened, follow a null format context. No text in the repository
  denies any of these, so they are hazards in `PROJECT.json` and not findings.
* `Session`'s sessions follow each other: a `MediaPlayer` is made when the last one's `suspend` has returned, and its `suspend` finds the video thread begun (`VideoDecoder` and
  `MediaPlayer` have the other case). Of a deleted decoder's memory it follows `mRunning` and `pictq_size`; that the mutex and the condition
  variable of a deleted decoder still do what they did is assumed. The static `sPlayer`, through which the decoders read the audio clock and
  draw, may be read by the event thread while it changes; that is not modelled.
* `AVSync` has constant skew and exact integers; the drift of a real sound card and rounding are not modelled. For a codec that counts two ticks a picture (H.264, MPEG-2) `synchronize()`
  takes a picture for half as long as it is, so that one without a time stamp comes too early. The model has that; `StampsTrue` is about the other codecs.
* Audio time stamps are within `Rounding` of the truth. A stream whose stamps jump sets the audio clock wherever they say, backwards too.
* `VideoDecoder` does not follow what the converter, made for the first size, does with a picture of another one (it reads and writes as many lines as it was made for), nor
  a picture for whose pixels there was no memory. A bitmap's memory is sized for RGB565, two bytes a pixel, and filled for the codec's own pixel format: the model assumes one that takes no more.
* The browser is not modelled: it lists a directory and starts an activity, on the UI thread alone, and shares nothing with the player. `MediaPlayer` has the callback without its buffers: that a stop before the first frame crashes it
  is `AudioDecoder`'s finding, and `OnlyLateUse` does not speak of it.
* Surface and AudioTrack bindings are `dlopen` wrappers around platform code. Vendored
  libraries are modelled only where a modelled part uses them.

## 6. Plan

Done: the packet queue, the video decoder and its timing, the audio decoder, the player that composes them, SDL's timers below them
and the sequence of sessions above them, each with its theorems. Next:

1. `SDL_events.c` in full (its ring, its lock, and the polling loop of `SDL_WaitEvent`) behind the sequence `VideoDecoder` and `Session` use.
2. A failing `SDL_AddTimer` or `SDL_CreateThread` in `VideoDecoder`, with the properties relative to "nothing failed".
3. The decoder as `MediaPlayer` sees it (`Begin`, `Consume`, `End`) as a step mapping from `VideoDecoder`, like `OneSession`; `MediaPlayer` decides in `Begin` whether
   `prepare()` will fail and would first have to give that a step of its own.
