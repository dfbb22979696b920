----------------------------- MODULE AudioDecoder -----------------------------
(***************************************************************************)
(* A DecoderAudio (jni/src/audiodecoder.cpp), from its construction to the *)
(* end of its session, and the threads that share it:                      *)
(*   - AudioTrack's thread calls cbf(), which decodes there and then,      *)
(*   - the audio thread runs prepare() and ends (decode() does nothing),   *)
(*   - the player thread enqueues packets,                                 *)
(*   - the UI thread aborts the queue.                                     *)
(* AudioTrack is started before the audio thread, so nothing makes the     *)
(* callback wait for prepare().                                            *)
(*                                                                         *)
(* The film's sound is a row of frames, each one unit of time long; frame  *)
(* f lasts from f - 1 to f.  A packet holds some of them, and its time     *)
(* stamp may be off by Rounding, as that of a container that counts in     *)
(* milliseconds is.  Everything in a new decoder's memory is zero (see     *)
(* README).                                                                *)
(***************************************************************************)
EXTENDS Integers, Sequences

CONSTANTS
    Formats,        \* what the codec may decode to
    Default,        \* audio_tgt_fmt, _freq and _channel_layout together
    Bytes,          \* how many bytes a frame of each format yields
    SILENCE,        \* 1024
    Requests,       \* how many bytes AudioTrack may ask for
    PacketFrames,   \* how many frames a packet may hold
    Rounding,       \* how far off a packet's time stamp may be
    Full,           \* sizeof(audio_buf2)
    Delay,          \* the most bytes that a resampler holds back
    NULL,           \* no buffer, no format, no time stamp
    Film,           \* bound: frames in the film
    QueueLimit      \* bound: packets in the queue

ASSUME FormatAssumption ==
    /\ Default \in Formats
    /\ NULL \notin Formats
    /\ Bytes \in [Formats -> Nat]

ASSUME SizeAssumption ==
    /\ SILENCE \in Nat \ {0}
    /\ Requests \subseteq Nat \ {0}
    /\ PacketFrames \subseteq Nat \ {0}
    /\ Rounding \in Nat
    /\ Full \in Nat \ {0} /\ Delay \in Nat

ASSUME BoundAssumption == Film \in Nat /\ QueueLimit \in Nat \ {0}

Buffers == {"frame data", "audio_buf2"}
ASSUME NullAssumption == NULL \notin Buffers /\ NULL \notin Int

VARIABLES
    \* shared
    queue,              \* mQueue: packets in order
    aborted,            \* mAbortRequest of mQueue
    prepared,           \* prepare() has run: the audio_tgt_ fields are set
    audio_pkt_temp,     \* the frames left of the packet in hand
    audio_src,          \* audio_src_fmt, _freq and _channel_layout together
    audio_clock,
    \* AudioTrack's thread
    cpc,                \* where the callback is
    len,                \* bytes it still has to fill
    mFrame,             \* is the frame allocated?
    swr_ctx,            \* NULL, or whether swr_init succeeded
    delayed,            \* bytes that the resampler holds back
    audio_buf, audio_buf_index, audio_buf_size,
    \* ghosts
    sent,               \* frames the player thread has enqueued
    held,               \* the frame in audio_buf, 0 if none or silence
    frame,              \* the last frame decoded
    silent,             \* an aborted get() was answered with silence
    exact               \* no frame was lost since the last time stamp

bufferVars == <<audio_buf, audio_buf_index, audio_buf_size>>
decodeVars == <<mFrame, swr_ctx, delayed>>
ghostVars == <<held, frame, silent>>
vars == <<queue, aborted, prepared, audio_pkt_temp, audio_src, audio_clock,
          cpc, len, decodeVars, bufferVars, sent, ghostVars, exact>>

(* The constructor. *)
Init ==
    /\ queue = <<>>
    /\ aborted = FALSE
    /\ prepared = FALSE
    /\ audio_pkt_temp = <<>>
    /\ audio_src = NULL
    /\ audio_clock = 0
    /\ cpc = "idle"
    /\ len = 0
    /\ mFrame = FALSE
    /\ swr_ctx = NULL
    /\ delayed = 0
    /\ audio_buf = NULL
    /\ audio_buf_index = 0
    /\ audio_buf_size = 0
    /\ sent = 0
    /\ held = 0
    /\ frame = 0
    /\ silent = FALSE
    /\ exact = FALSE

-------------------------------------------------------------------------------
(* The other threads. *)

Near(place) == (place - Rounding)..(place + Rounding)

\* enqueue() on the player thread.
Enqueue ==
    /\ Len(queue) < QueueLimit
    /\ \E n \in PacketFrames, pts \in Near(sent) \cup {NULL} :
          /\ sent + n <= Film
          /\ queue' = Append(queue, [frames |-> [i \in 1..n |-> sent + i], pts |-> pts])
          /\ sent' = sent + n
    /\ UNCHANGED <<aborted, prepared, audio_pkt_temp, audio_src, audio_clock,
                   cpc, len, decodeVars, bufferVars, ghostVars, exact>>

\* prepare() on the audio thread, at any time: it clears the packet in hand.
Prepare ==
    /\ ~prepared
    /\ prepared' = TRUE
    /\ audio_pkt_temp' = <<>>
    /\ audio_src' = Default
    /\ exact' = (exact /\ audio_pkt_temp = <<>>)
    /\ UNCHANGED <<queue, aborted, audio_clock, cpc, len, decodeVars, bufferVars,
                   sent, ghostVars>>

\* IDecoder::stop() on the UI thread.
Stop ==
    /\ ~aborted
    /\ aborted' = TRUE
    /\ UNCHANGED <<queue, prepared, audio_pkt_temp, audio_src, audio_clock, cpc, len,
                   decodeVars, bufferVars, sent, ghostVars, exact>>

otherVars == <<queue, aborted, prepared, sent>>

-------------------------------------------------------------------------------
(* cbf(). *)

\* EVENT_MORE_DATA; other events do nothing.
MoreData ==
    /\ cpc = "idle"
    /\ cpc' = "fill"
    /\ len' \in Requests
    /\ UNCHANGED <<otherVars, audio_pkt_temp, audio_src, audio_clock, decodeVars,
                   bufferVars, ghostVars, exact>>

\* Mutant: a buffer is emptied when one byte of it is left.
Emptied_Early == audio_buf_index + 1 >= audio_buf_size

Emptied == audio_buf_index >= audio_buf_size

\* The buffer is played: audio_decode_frame() is called.
Refill ==
    /\ cpc = "fill"
    /\ Emptied
    /\ cpc' = "decode"
    /\ UNCHANGED <<otherVars, audio_pkt_temp, audio_src, audio_clock, len, decodeVars,
                   bufferVars, ghostVars, exact>>

\* Mutant: the request alone decides.
Len1_Asked == len

\* How much is copied: as far as the buffer and the request both reach.
Len1 ==
    IF audio_buf_size - audio_buf_index > len THEN len
    ELSE audio_buf_size - audio_buf_index

Copy ==
    /\ cpc = "fill"
    /\ ~Emptied
    /\ len' = len - Len1
    /\ audio_buf_index' = audio_buf_index + Len1
    /\ cpc' = IF len' > 0 THEN "fill" ELSE "idle"
    /\ UNCHANGED <<otherVars, audio_pkt_temp, audio_src, audio_clock, decodeVars,
                   audio_buf, audio_buf_size, ghostVars, exact>>

(* audio_decode_frame() returned -1: SILENCE zeroes into whatever buffer   *)
(* there was last.                                                         *)
Silence ==
    /\ cpc' = IF audio_buf = NULL THEN "crashed" ELSE "fill"
    /\ audio_buf_size' = SILENCE
    /\ audio_buf_index' = 0
    /\ held' = 0
    /\ UNCHANGED audio_buf

-------------------------------------------------------------------------------
(* audio_decode_frame(). *)

Decoding == cpc = "decode" /\ audio_pkt_temp # <<>>

NoMemory ==
    /\ Decoding
    /\ ~mFrame
    /\ Silence
    /\ UNCHANGED <<otherVars, audio_pkt_temp, audio_src, audio_clock, len, decodeVars,
                   frame, silent, exact>>

\* avcodec_decode_audio4() fails: the rest of the packet is dropped.
DecodeError ==
    /\ Decoding
    /\ mFrame' = TRUE
    /\ audio_pkt_temp' = <<>>
    /\ exact' = FALSE
    /\ UNCHANGED <<otherVars, audio_src, audio_clock, cpc, len, swr_ctx, delayed, bufferVars,
                   ghostVars>>

\* It gives no frame: the loop goes on with the rest.
DecodeNothing ==
    /\ Decoding
    /\ mFrame' = TRUE
    /\ audio_pkt_temp' = Tail(audio_pkt_temp)
    /\ exact' = FALSE
    /\ UNCHANGED <<otherVars, audio_src, audio_clock, cpc, len, swr_ctx, delayed, bufferVars,
                   ghostVars>>

(* The frame's format against the one the resampler was made for: a new    *)
(* one is made if they differ, which fails as long as the target is unset. *)
(* What the old one held back goes with it.                                *)
Resampler(fmt) ==
    IF fmt = audio_src
    THEN {[swr |-> swr_ctx, src |-> audio_src, delayed |-> delayed]}
    ELSE [swr : {NULL, "failed"}, src : {audio_src}, delayed : {0}]
         \cup [swr : IF prepared THEN {"ready"} ELSE {}, src : {fmt}, delayed : {0}]

\* No resampler could be made, or swr_convert() fails: break.
ResampleError ==
    /\ Decoding
    /\ \E fmt \in Formats : \E new \in Resampler(fmt) :
          /\ new.src # fmt \/ new.swr # NULL
          /\ swr_ctx' = new.swr
          /\ audio_src' = new.src
          /\ delayed' = new.delayed
    /\ mFrame' = TRUE
    /\ audio_pkt_temp' = <<>>
    /\ exact' = FALSE
    /\ UNCHANGED <<otherVars, audio_clock, cpc, len, bufferVars, ghostVars>>

(* A frame in the format of the last resampler that could be made, after   *)
(* one that could not: swr_convert() gets the latter, and if swr_init()    *)
(* gave up early, as it does for an unset target, divides by 0             *)
(* (libswresample/swresample.c 347); after a late failure it converts.     *)
Divide ==
    /\ Decoding
    /\ swr_ctx = "failed" /\ audio_src \in Formats
    /\ cpc' = "divided"
    /\ mFrame' = TRUE
    /\ UNCHANGED <<otherVars, audio_pkt_temp, audio_src, audio_clock, len, swr_ctx, delayed,
                   bufferVars, ghostVars, exact>>

(* What swr_convert() makes of all that is due: it may hold something back,*)
(* and when it fills audio_buf2 swr_init() throws away the rest.           *)
Converted(due) ==
    {out \in [size : 0..(Full - 1), delayed : 0..Delay] : out.size + out.delayed = due}
    \cup [size : IF due >= Full THEN {Full} ELSE {}, delayed : {0}]

\* Mutant: the clock is not moved for a frame.
ClockAfter_Still == audio_clock

\* audio_clock += data_size / bytes per second, by one frame.
ClockAfter == audio_clock + 1

\* A frame is decoded, converted if need be, and returned to cbf().
DecodeFrame ==
    /\ Decoding
    /\ \E fmt \in Formats : \E new \in Resampler(fmt) :
          /\ new.src = fmt
          /\ swr_ctx' = new.swr
          /\ audio_src' = new.src
          /\ \/ /\ new.swr = NULL
                /\ audio_buf' = "frame data"
                /\ audio_buf_size' = Bytes[fmt]
                /\ delayed' = new.delayed
             \/ /\ new.swr # NULL
                /\ audio_buf' = "audio_buf2"
                /\ \E out \in Converted(new.delayed + Bytes[fmt]) :
                      audio_buf_size' = out.size /\ delayed' = out.delayed
    /\ audio_buf_index' = 0
    /\ mFrame' = TRUE
    /\ audio_clock' = ClockAfter
    /\ held' = Head(audio_pkt_temp)
    /\ frame' = Head(audio_pkt_temp)
    /\ audio_pkt_temp' = Tail(audio_pkt_temp)
    /\ cpc' = "fill"
    /\ UNCHANGED <<otherVars, len, silent, exact>>

\* Mutant: a missing time stamp is taken for 0.
ClockFrom_Zero(pts) == IF pts # NULL THEN pts ELSE 0

\* A packet's time stamp sets the clock.
ClockFrom(pts) == IF pts # NULL THEN pts ELSE audio_clock

\* Mutant: get() looks at the abort flag only when a packet is there.
GetAborted_IfPacket == aborted /\ queue # <<>>

GetAborted == aborted

\* The packet is used up; get() has another one.
TakePacket ==
    /\ cpc = "decode" /\ audio_pkt_temp = <<>>
    /\ ~GetAborted
    /\ queue # <<>>
    /\ audio_pkt_temp' = Head(queue).frames
    /\ audio_clock' = ClockFrom(Head(queue).pts)
    /\ exact' = (exact \/ Head(queue).pts # NULL)
    /\ queue' = Tail(queue)
    /\ UNCHANGED <<aborted, prepared, sent, audio_src, cpc, len, decodeVars, bufferVars,
                   ghostVars>>

\* get() is aborted, before it waits or while it does.
GetRefused ==
    /\ cpc = "decode" /\ audio_pkt_temp = <<>>
    /\ GetAborted
    /\ Silence
    /\ silent' = TRUE
    /\ UNCHANGED <<otherVars, audio_pkt_temp, audio_src, audio_clock, len, decodeVars,
                   frame, exact>>

Callback ==
    \/ Refill \/ Copy
    \/ NoMemory \/ DecodeError \/ DecodeNothing \/ ResampleError \/ Divide \/ DecodeFrame
    \/ TakePacket \/ GetRefused

Next == Enqueue \/ Prepare \/ Stop \/ MoreData \/ Callback

Spec == Init /\ [][Next]_vars

(* AudioTrack's thread runs on. *)
FairSpec == Spec /\ WF_vars(Callback)
-------------------------------------------------------------------------------
TypeOK ==
    /\ queue \in Seq([frames : Seq(1..Film), pts : Int \cup {NULL}])
    /\ aborted \in BOOLEAN
    /\ prepared \in BOOLEAN
    /\ audio_pkt_temp \in Seq(1..Film)
    /\ audio_src \in Formats \cup {NULL}
    /\ audio_clock \in Int
    /\ cpc \in {"idle", "fill", "decode", "crashed", "divided"}
    /\ len \in Nat
    /\ mFrame \in BOOLEAN
    /\ swr_ctx \in {NULL, "failed", "ready"}
    /\ delayed \in 0..Delay
    /\ swr_ctx = NULL => delayed = 0
    /\ audio_buf \in Buffers \cup {NULL}
    /\ audio_buf_size \in Nat
    /\ audio_buf_index \in 0..audio_buf_size
    /\ sent \in 0..Film
    /\ held \in 0..Film
    /\ frame \in 0..Film
    /\ silent \in BOOLEAN
    /\ exact \in BOOLEAN

(* Once a time stamp has come, and until something is lost, the clock says *)
(* where the next frame begins, which is where the one being played ends,  *)
(* however many frames a packet holds and as near as time stamps are to the*)
(* truth: their errors do not add up (audio_decode_frame 63, 133-136,      *)
(* 150-152).                                                               *)
ClockTrue ==
    exact => audio_clock \in Near(IF audio_pkt_temp = <<>> THEN frame
                                  ELSE Head(audio_pkt_temp) - 1)

(* The clock, by which the video is timed, is set to whatever a packet's   *)
(* time stamp says.  As long as none is off by more than Rounding it runs  *)
(* back by no more than two such errors: lost frames leave it behind, and  *)
(* a time stamp catches up (133-136, 150-152).                             *)
ClockForward == [][audio_clock' >= audio_clock - 2 * Rounding]_audio_clock

(* A frame begins only when the last one is played, what the resampler     *)
(* holds back is heard with a later frame or goes with the resampler, and  *)
(* nothing is heard after the silence that answers a stop (cbf 167-187,    *)
(* audio_decode_frame 98-131).                                             *)
Left == IF held = 0 THEN 0 ELSE audio_buf_size - audio_buf_index
Stream == INSTANCE AudioStream
             WITH Frames <- 1..Film, Sizes <- {Bytes[fmt] : fmt \in Formats}, Most <- Full,
                  left <- Left, kept <- delayed
ImplementsStream == Stream!Spec

(* After a stop AudioTrack's thread comes out of the callback, wherever it *)
(* was, unless the program ends there: an empty queue does not hold it     *)
(* (stop 43, audio_decode_frame 144-147).                                  *)
CallbackReturns == aborted ~> cpc \in {"idle", "crashed", "divided"}

(* "error, output silent" (cbf 172): there is a buffer to be silent in.    *)
SilenceHasBuffer == cpc # "crashed"
===============================================================================
