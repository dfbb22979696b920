--------------------------- MODULE AudioDecoderProofs ---------------------------
(***************************************************************************)
(* Theorems about AudioDecoder, for all values of its constants.           *)
(***************************************************************************)
EXTENDS AudioDecoder, TLAPS

(* The invariant.  The frames that are enqueued form one row: packet after *)
(* packet in the queue, and before them what is left of the packet in hand.*)

\* The frames f are consecutive and end just before the frame next.
RowUpTo(f, next) ==
    /\ Len(f) > 0
    /\ \A i \in 1..Len(f) : f[i] = next - Len(f) + i - 1

\* The first frame after packet i of the queue.
After(i) == IF i = Len(queue) THEN sent + 1 ELSE queue[i + 1].frames[1]

\* The first frame after the packet in hand.
Upcoming == IF queue = <<>> THEN sent + 1 ELSE queue[1].frames[1]

\* The next frame to be decoded, unless it is lost.
NextFrame == IF audio_pkt_temp = <<>> THEN Upcoming ELSE audio_pkt_temp[1]

QueueInRow ==
    \A i \in 1..Len(queue) :
        /\ RowUpTo(queue[i].frames, After(i))
        /\ queue[i].pts \in Near(queue[i].frames[1] - 1) \cup {NULL}

HandInRow == audio_pkt_temp # <<>> => RowUpTo(audio_pkt_temp, Upcoming)

\* Frames are decoded in order, and the clock is not ahead of them by more
\* than the error of a time stamp.
Behind == frame < NextFrame /\ audio_clock <= NextFrame - 1 + Rounding

Exact ==
    exact => /\ audio_clock \in Near(NextFrame - 1)
             /\ audio_pkt_temp = <<>> => frame = NextFrame - 1

RowInv == QueueInRow /\ HandInRow /\ Behind /\ Exact

\* Once a stop is answered nothing is in hand, and nothing will be.
SilentInv == silent => aborted /\ audio_pkt_temp = <<>> /\ held = 0

\* audio_decode_frame() is only called for an empty buffer.
EmptyInv == cpc = "decode" => audio_buf_index = audio_buf_size

-------------------------------------------------------------------------------
(* Types. *)

Packet == [frames : Seq(1..Film), pts : Int \cup {NULL}]

LEMMA HeadTail == ASSUME NEW S, NEW s \in Seq(S), s # <<>>
                  PROVE  Head(s) \in S /\ Tail(s) \in Seq(S)
OBVIOUS

LEMMA AppendType == ASSUME NEW S, NEW s \in Seq(S), NEW e \in S
                    PROVE  Append(s, e) \in Seq(S)
OBVIOUS

LEMMA FirstType == ASSUME NEW S, NEW s \in Seq(S), Len(s) > 0 PROVE s[1] \in S
<1>1. 1 \in 1..Len(s)
  OBVIOUS
<1>2. \A i \in 1..Len(s) : s[i] \in S
  OBVIOUS
<1> QED
  BY <1>1, <1>2

LEMMA LengthFacts == ASSUME NEW S, NEW s \in Seq(S)
                     PROVE  Len(s) \in Nat /\ (s = <<>> <=> Len(s) = 0)
OBVIOUS

LEMMA AppendFacts == ASSUME NEW S, NEW s \in Seq(S), NEW e \in S
                     PROVE  /\ Len(Append(s, e)) = Len(s) + 1
                            /\ Append(s, e)[Len(s) + 1] = e
                            /\ \A i \in 1..Len(s) : Append(s, e)[i] = s[i]
                            /\ Append(s, e) # <<>>
OBVIOUS

LEMMA EmptyType == ASSUME NEW S PROVE <<>> \in Seq(S)
OBVIOUS

\* The parts of TypeOK that are used by themselves.
LEMMA Types == TypeOK => /\ queue \in Seq(Packet) /\ audio_pkt_temp \in Seq(1..Film)
                         /\ sent \in 0..Film /\ frame \in 0..Film /\ held \in 0..Film
                         /\ audio_clock \in Int /\ exact \in BOOLEAN
                         /\ audio_buf_size \in Nat /\ audio_buf_index \in 0..audio_buf_size
                         /\ delayed \in 0..Delay /\ (swr_ctx = NULL => delayed = 0)
                         /\ Film \in Nat
BY BoundAssumption, Zenon DEF TypeOK, Packet

LEMMA InitType == Init => TypeOK
<1> SUFFICES ASSUME Init PROVE TypeOK
  OBVIOUS
<1>1. queue \in Seq(Packet) /\ audio_pkt_temp \in Seq(1..Film)
  BY EmptyType DEF Init
<1>2. 0 \in 0..0 /\ 0 \in 0..Film /\ 0 \in Nat /\ 0 \in Int /\ 0 \in 0..Delay
  BY BoundAssumption, SizeAssumption
<1> QED
  BY <1>1, <1>2 DEF Init, TypeOK, Packet

\* The packet that Enqueue appends.
LEMMA PacketType ==
    ASSUME TypeOK, NEW n \in PacketFrames, NEW pts \in Near(sent) \cup {NULL}, sent + n <= Film
    PROVE  /\ n \in Nat \ {0}
           /\ [i \in 1..n |-> sent + i] \in Seq(1..Film)
           /\ [frames |-> [i \in 1..n |-> sent + i], pts |-> pts] \in Packet
<1>1. n \in Nat \ {0} /\ sent \in 0..Film /\ Film \in Nat
  BY SizeAssumption, BoundAssumption DEF TypeOK
<1>2. [i \in 1..n |-> sent + i] \in [1..n -> 1..Film]
  BY <1>1
<1>3. [i \in 1..n |-> sent + i] \in Seq(1..Film)
  BY <1>1, <1>2
<1>4. pts \in Int \cup {NULL}
  BY <1>1, SizeAssumption DEF Near
<1> QED
  BY <1>1, <1>3, <1>4 DEF Packet

LEMMA EnqueueType == TypeOK /\ Enqueue => TypeOK'
<1> SUFFICES ASSUME TypeOK, Enqueue PROVE TypeOK'
  OBVIOUS
<1>1. PICK n \in PacketFrames, pts \in Near(sent) \cup {NULL} :
         /\ sent + n <= Film
         /\ queue' = Append(queue, [frames |-> [i \in 1..n |-> sent + i], pts |-> pts])
         /\ sent' = sent + n
  BY DEF Enqueue
<1>2. queue' \in Seq(Packet)
  BY <1>1, PacketType, AppendType, Types
<1>3. sent' \in 0..Film
  <2>1. n \in Nat /\ sent \in Nat
    BY SizeAssumption, BoundAssumption DEF TypeOK
  <2> QED
    BY <1>1, <2>1, Types
<1>4. UNCHANGED <<aborted, prepared, audio_pkt_temp, audio_src, audio_clock,
                  cpc, len, decodeVars, bufferVars, ghostVars, exact>>
  BY DEF Enqueue
<1> QED
  BY <1>2, <1>3, <1>4 DEF TypeOK, Packet, decodeVars, bufferVars, ghostVars

LEMMA SilenceType ==
    ASSUME TypeOK, Silence
    PROVE  /\ cpc' \in {"crashed", "fill"}
           /\ audio_buf_size' \in Nat
           /\ audio_buf_index' \in 0..audio_buf_size'
           /\ held' = 0
           /\ audio_buf' = audio_buf
BY SizeAssumption DEF Silence

LEMMA ResamplerType ==
    ASSUME TypeOK, NEW fmt \in Formats, NEW new \in Resampler(fmt)
    PROVE  /\ new.swr \in {NULL, "failed", "ready"} /\ new.src \in Formats \cup {NULL}
           /\ new.delayed \in 0..Delay /\ (new.swr = NULL => new.delayed = 0)
           /\ new.delayed \in {delayed, 0}
<1>1. 0 \in 0..Delay
  BY SizeAssumption
<1> QED
  BY <1>1 DEF TypeOK, Resampler

\* What is due is what was held back, if it still is, and the frame.
LEMMA FrameReturned ==
    ASSUME TypeOK, DecodeFrame
    PROVE  /\ swr_ctx' \in {NULL, "failed", "ready"}
           /\ audio_src' \in Formats \cup {NULL}
           /\ audio_buf' \in Buffers
           /\ audio_buf_size' \in Nat
           /\ audio_buf_index' = 0
           /\ delayed' \in 0..Delay /\ (swr_ctx' = NULL => delayed' = 0)
           /\ \E size \in {Bytes[fmt] : fmt \in Formats}, before \in {delayed, 0} :
                 \/ audio_buf_size' + delayed' = before + size
                 \/ before + size >= Full /\ audio_buf_size' = Full /\ delayed' = 0
<1>1. PICK fmt \in Formats : \E new \in Resampler(fmt) :
         /\ swr_ctx' = new.swr
         /\ audio_src' = new.src
         /\ \/ /\ new.swr = NULL
               /\ audio_buf' = "frame data"
               /\ audio_buf_size' = Bytes[fmt]
               /\ delayed' = new.delayed
            \/ /\ new.swr # NULL
               /\ audio_buf' = "audio_buf2"
               /\ \E out \in Converted(new.delayed + Bytes[fmt]) :
                     audio_buf_size' = out.size /\ delayed' = out.delayed
  BY DEF DecodeFrame
<1>2. PICK new \in Resampler(fmt) :
         /\ swr_ctx' = new.swr
         /\ audio_src' = new.src
         /\ \/ /\ new.swr = NULL
               /\ audio_buf' = "frame data"
               /\ audio_buf_size' = Bytes[fmt]
               /\ delayed' = new.delayed
            \/ /\ new.swr # NULL
               /\ audio_buf' = "audio_buf2"
               /\ \E out \in Converted(new.delayed + Bytes[fmt]) :
                     audio_buf_size' = out.size /\ delayed' = out.delayed
  BY <1>1
<1>3. /\ new.swr \in {NULL, "failed", "ready"} /\ new.src \in Formats \cup {NULL}
      /\ new.delayed \in 0..Delay /\ (new.swr = NULL => new.delayed = 0)
      /\ new.delayed \in {delayed, 0}
  BY ResamplerType
<1>4. PICK size \in Nat : size = Bytes[fmt]
  BY FormatAssumption
<1>5. PICK before \in Nat : before = new.delayed
  BY <1>3, SizeAssumption
<1>6. audio_buf_index' = 0
  BY DEF DecodeFrame
<1>7. CASE new.swr = NULL
  <2>1. audio_buf' = "frame data" /\ audio_buf_size' = size /\ delayed' = 0 /\ before = 0
    BY <1>2, <1>3, <1>4, <1>5, <1>7
  <2>2. audio_buf_size' + delayed' = before + size
    <3>1. size + 0 = 0 + size
      OBVIOUS
    <3> QED
      BY <2>1, <3>1, Zenon
  <2> QED
    BY <1>2, <1>3, <1>4, <1>5, <1>6, <2>1, <2>2, SizeAssumption DEF Buffers
<1>8. CASE new.swr # NULL
  <2>1. PICK out \in Converted(before + size) :
           /\ audio_buf' = "audio_buf2"
           /\ audio_buf_size' = out.size /\ delayed' = out.delayed
    BY <1>2, <1>4, <1>5, <1>8
  <2>2. /\ out.size \in Nat /\ out.delayed \in 0..Delay
        /\ \/ out.size + out.delayed = before + size
           \/ before + size >= Full /\ out.size = Full /\ out.delayed = 0
    BY SizeAssumption DEF Converted
  <2> QED
    BY <1>2, <1>3, <1>4, <1>5, <1>6, <1>8, <2>1, <2>2 DEF Buffers
<1> QED
  BY <1>7, <1>8

LEMMA CopyFacts ==
    ASSUME TypeOK, Copy
    PROVE  Len1 \in Nat /\ Len1 <= len /\ audio_buf_index + Len1 <= audio_buf_size
BY DEF TypeOK, Copy, Emptied, Len1

LEMMA NextType == TypeOK /\ [Next]_vars => TypeOK'
<1> SUFFICES ASSUME TypeOK, [Next]_vars PROVE TypeOK'
  OBVIOUS
<1> USE DEF decodeVars, bufferVars, ghostVars, otherVars
<1>1. CASE Enqueue
  BY <1>1, EnqueueType
<1>2. CASE Prepare
  BY <1>2, FormatAssumption DEF TypeOK, Prepare
<1>3. CASE Stop
  BY <1>3 DEF TypeOK, Stop
<1>4. CASE MoreData
  BY <1>4, SizeAssumption DEF TypeOK, MoreData
<1>5. CASE Refill
  BY <1>5 DEF TypeOK, Refill
<1>6. CASE Copy
  <2>1. Len1 \in Nat /\ Len1 <= len /\ audio_buf_index + Len1 <= audio_buf_size
    BY <1>6, CopyFacts
  <2>2. len' \in Nat /\ audio_buf_index' \in 0..audio_buf_size
    BY <1>6, <2>1 DEF TypeOK, Copy
  <2> QED
    BY <1>6, <2>2 DEF TypeOK, Copy
<1>7. CASE NoMemory
  BY <1>7, SilenceType, BoundAssumption DEF TypeOK, NoMemory
<1>8. CASE DecodeError
  BY <1>8, EmptyType, Zenon DEF TypeOK, DecodeError
<1>9. CASE DecodeNothing
  <2>1. Tail(audio_pkt_temp) \in Seq(1..Film)
    BY <1>9, HeadTail, Types DEF DecodeNothing, Decoding
  <2> QED
    BY <1>9, <2>1, Zenon DEF TypeOK, DecodeNothing
<1>10. CASE ResampleError
  <2>1. /\ swr_ctx' \in {NULL, "failed", "ready"} /\ audio_src' \in Formats \cup {NULL}
        /\ delayed' \in 0..Delay /\ (swr_ctx' = NULL => delayed' = 0)
    BY <1>10, ResamplerType DEF ResampleError
  <2>2. audio_pkt_temp' \in Seq(1..Film) /\ mFrame' \in BOOLEAN /\ exact' \in BOOLEAN
    BY <1>10, EmptyType DEF ResampleError
  <2>3. UNCHANGED <<otherVars, audio_clock, cpc, len, bufferVars, ghostVars>>
    BY <1>10 DEF ResampleError
  <2> QED
    BY <2>1, <2>2, <2>3, Zenon DEF TypeOK
<1>11. CASE DecodeFrame
  <2>1. /\ swr_ctx' \in {NULL, "failed", "ready"} /\ audio_src' \in Formats \cup {NULL}
        /\ audio_buf' \in Buffers /\ audio_buf_size' \in Nat /\ audio_buf_index' = 0
        /\ delayed' \in 0..Delay /\ (swr_ctx' = NULL => delayed' = 0)
    BY <1>11, FrameReturned
  <2>3. Head(audio_pkt_temp) \in 1..Film /\ Tail(audio_pkt_temp) \in Seq(1..Film)
    BY <1>11, HeadTail, Types DEF DecodeFrame, Decoding
  <2>4. audio_clock' \in Int /\ held' \in 0..Film /\ frame' \in 0..Film
    <3>1. audio_clock \in Int /\ audio_clock' = audio_clock + 1
      BY <1>11, Types DEF DecodeFrame, ClockAfter
    <3>2. held' = Head(audio_pkt_temp) /\ frame' = Head(audio_pkt_temp)
      BY <1>11 DEF DecodeFrame
    <3>3. 1..Film \subseteq 0..Film
      BY BoundAssumption
    <3> QED
      BY <2>3, <3>1, <3>2, <3>3
  <2>5. /\ cpc' = "fill" /\ mFrame' = TRUE /\ audio_pkt_temp' = Tail(audio_pkt_temp)
        /\ UNCHANGED <<otherVars, len, silent, exact>>
    BY <1>11 DEF DecodeFrame
  <2>6. audio_buf_index' \in 0..audio_buf_size'
    BY <2>1
  <2> QED
    BY <2>1, <2>3, <2>4, <2>5, <2>6 DEF TypeOK
<1>12. CASE TakePacket
  <2>1. Head(queue) \in Packet /\ Tail(queue) \in Seq(Packet)
    BY <1>12, HeadTail, Types DEF TakePacket
  <2>2. audio_clock' \in Int
    BY <1>12, <2>1, Types DEF TakePacket, ClockFrom, Packet
  <2>3. exact' \in BOOLEAN
    BY <1>12 DEF TakePacket
  <2> QED
    BY <1>12, <2>1, <2>2, <2>3 DEF TypeOK, TakePacket, Packet
<1>13. CASE GetRefused
  BY <1>13, SilenceType, BoundAssumption DEF TypeOK, GetRefused
<1>14. CASE UNCHANGED vars
  BY <1>14 DEF TypeOK, vars
<1>15. CASE Divide
  BY <1>15 DEF TypeOK, Divide
<1> QED
  BY <1>15, <1>1, <1>2, <1>3, <1>4, <1>5, <1>6, <1>7, <1>8, <1>9, <1>10, <1>11, <1>12,
     <1>13, <1>14 DEF Next, Callback

(* The buffer's index stays within the buffer and every variable keeps its *)
(* type, whatever the interleaving with prepare() (audiodecoder.cpp        *)
(* 30-188).                                                                *)
THEOREM TypeCorrect == Spec => []TypeOK
BY InitType, NextType, PTL DEF Spec

-------------------------------------------------------------------------------
(* The row of frames. *)

LEMMA RowFacts ==
    ASSUME NEW f \in Seq(1..Film), NEW next \in Nat, RowUpTo(f, next)
    PROVE  /\ f # <<>> /\ f[1] \in Nat /\ Head(f) = f[1] /\ f[1] < next
           /\ Tail(f) = <<>> => f[1] = next - 1
           /\ Tail(f) # <<>> => RowUpTo(Tail(f), next) /\ Tail(f)[1] = f[1] + 1
<1>1. PICK n \in Nat : n = Len(f) /\ n > 0
  BY DEF RowUpTo
<1>2. \A i \in 1..n : f[i] = next - n + i - 1
  BY <1>1 DEF RowUpTo
<1>3. f # <<>> /\ Head(f) = f[1] /\ f[1] = next - n
  <2>1. 1 \in 1..n /\ next - n + 1 - 1 = next - n
    BY <1>1
  <2> QED
    BY <1>1, <1>2, <2>1
<1>4. f[1] \in Nat
  <2>1. f[1] \in 1..Film
    BY <1>1, FirstType
  <2> QED
    BY <2>1, BoundAssumption
<1>5. /\ Len(Tail(f)) = n - 1
      /\ \A i \in 1..(n - 1) : Tail(f)[i] = f[i + 1]
      /\ Tail(f) \in Seq(1..Film)
  BY <1>1, <1>3
<1>6. /\ Tail(f) = <<>> => n = 1
      /\ Tail(f) # <<>> => n > 1
  BY <1>1, <1>5
<1>7. \A i \in 1..(n - 1) : Tail(f)[i] = next - (n - 1) + i - 1
  <2>1. TAKE i \in 1..(n - 1)
  <2>2. i \in Nat /\ i + 1 \in 1..n
    BY <1>1
  <2>3. f[i + 1] = next - n + (i + 1) - 1
    BY <1>2, <2>2
  <2>4. next - n + (i + 1) - 1 = next - (n - 1) + i - 1
    BY <1>1, <2>2
  <2> QED
    BY <1>5, <2>3, <2>4
<1>8. Tail(f) # <<>> => RowUpTo(Tail(f), next)
  BY <1>1, <1>5, <1>6, <1>7 DEF RowUpTo
<1>9. Tail(f) # <<>> => Tail(f)[1] = f[1] + 1
  <2>1. n > 1 => 1 \in 1..(n - 1)
    BY <1>1
  <2>2. n > 1 => Tail(f)[1] = next - (n - 1) + 1 - 1
    BY <1>7, <2>1
  <2> QED
    BY <1>1, <1>3, <1>6, <2>2
<1> QED
  BY <1>1, <1>3, <1>4, <1>6, <1>8, <1>9

LEMMA NumbersType ==
    ASSUME TypeOK, QueueInRow, HandInRow
    PROVE  /\ Upcoming \in Nat /\ NextFrame \in Nat /\ NextFrame <= Upcoming
           /\ queue # <<>> => /\ queue[1] \in Packet /\ Head(queue) = queue[1]
                              /\ RowUpTo(queue[1].frames, After(1)) /\ After(1) \in Nat
<1>1. queue \in Seq(Packet) /\ sent \in Nat
  BY Types
<1>2. \A i \in 1..Len(queue) : queue[i] \in Packet /\ queue[i].frames \in Seq(1..Film)
                               /\ queue[i].frames[1] \in Nat
  <2>1. TAKE i \in 1..Len(queue)
  <2>2. queue[i] \in Packet
    BY <1>1
  <2>3. queue[i].frames \in Seq(1..Film)
    BY <2>2 DEF Packet
  <2>4. Len(queue[i].frames) > 0
    BY DEF QueueInRow, RowUpTo
  <2>5. queue[i].frames[1] \in 1..Film
    <3>1. PICK f \in Seq(1..Film) : f = queue[i].frames /\ Len(f) > 0
      BY <2>3, <2>4
    <3>2. f[1] \in 1..Film
      BY <3>1, FirstType
    <3> QED
      BY <3>1, <3>2
  <2> QED
    BY <2>2, <2>3, <2>5
<1>3. queue # <<>> => Len(queue) \in Nat /\ 1 \in 1..Len(queue) /\ Head(queue) = queue[1]
  BY <1>1
<1>4. Upcoming \in Nat
  BY <1>1, <1>2, <1>3 DEF Upcoming
<1>5. queue # <<>> => RowUpTo(queue[1].frames, After(1))
  BY <1>3 DEF QueueInRow
<1>6. queue # <<>> => After(1) \in Nat
  <2>1. ASSUME NEW n \in Nat, 1 \in 1..n, n # 1 PROVE 1 + 1 \in 1..n
    BY <2>1
  <2>2. queue # <<>> /\ 1 # Len(queue) => 1 + 1 \in 1..Len(queue)
    BY <1>3, <2>1
  <2> QED
    BY <1>1, <1>2, <2>2 DEF After
<1>7. audio_pkt_temp # <<>> => audio_pkt_temp[1] \in Nat /\ audio_pkt_temp[1] < Upcoming
  BY <1>4, RowFacts, Types DEF HandInRow
<1>8. NextFrame \in Nat /\ NextFrame <= Upcoming
  BY <1>4, <1>7 DEF NextFrame
<1> QED
  BY <1>2, <1>3, <1>4, <1>5, <1>6, <1>8

(* What is left of the packet shrinks from the front, or is dropped.       *)
LEMMA HandShrinks ==
    ASSUME TypeOK, QueueInRow, HandInRow, audio_pkt_temp # <<>>,
           NEW p, p \in {<<>>, Tail(audio_pkt_temp)},
           audio_pkt_temp' = p, UNCHANGED <<queue, sent>>
    PROVE  /\ HandInRow'
           /\ NextFrame' \in Nat /\ NextFrame' >= NextFrame + 1
           /\ p = Tail(audio_pkt_temp) => NextFrame' = NextFrame + 1
<1>1. audio_pkt_temp \in Seq(1..Film) /\ Upcoming \in Nat
      /\ RowUpTo(audio_pkt_temp, Upcoming)
  BY NumbersType, Types DEF HandInRow
<1>2. /\ audio_pkt_temp[1] \in Nat /\ audio_pkt_temp[1] < Upcoming
      /\ Tail(audio_pkt_temp) = <<>> => audio_pkt_temp[1] = Upcoming - 1
      /\ Tail(audio_pkt_temp) # <<>> =>
            /\ RowUpTo(Tail(audio_pkt_temp), Upcoming)
            /\ Tail(audio_pkt_temp)[1] = audio_pkt_temp[1] + 1
  BY <1>1, RowFacts
<1>3. Upcoming' = Upcoming
  BY DEF Upcoming
<1>4. HandInRow'
  BY <1>2, <1>3 DEF HandInRow
<1>5. NextFrame = audio_pkt_temp[1]
  BY DEF NextFrame
<1>6. PICK n : n = NextFrame' /\ n = IF p = <<>> THEN Upcoming ELSE p[1]
  BY <1>3 DEF NextFrame
<1>7. n \in Nat /\ n >= audio_pkt_temp[1] + 1
      /\ (p = Tail(audio_pkt_temp) => n = audio_pkt_temp[1] + 1)
  <2>1. CASE p = <<>>
    BY <1>1, <1>2, <1>6, <2>1
  <2>2. CASE p # <<>>
    <3>1. p = Tail(audio_pkt_temp) /\ n = p[1]
      BY <1>6, <2>2
    <3> QED
      BY <1>2, <2>2, <3>1
  <2> QED
    BY <2>1, <2>2
<1> QED
  BY <1>4, <1>5, <1>6, <1>7

LEMMA EnqueueRow ==
    ASSUME TypeOK, RowInv, Enqueue
    PROVE  RowInv'
<1>1. PICK n \in PacketFrames, pts \in Near(sent) \cup {NULL} :
         /\ sent + n <= Film
         /\ queue' = Append(queue, [frames |-> [i \in 1..n |-> sent + i], pts |-> pts])
         /\ sent' = sent + n
  BY DEF Enqueue
<1>2. n \in Nat \ {0} /\ sent \in Nat /\ queue \in Seq(Packet)
  BY SizeAssumption, BoundAssumption, Types DEF TypeOK
<1>3. PICK q, e, f :
         /\ q = queue' /\ f = [i \in 1..n |-> sent + i]
         /\ e = [frames |-> f, pts |-> pts]
         /\ q = Append(queue, e) /\ e \in Packet /\ f \in Seq(1..Film)
  BY <1>1, PacketType
<1>4. RowUpTo(f, sent + n + 1) /\ f[1] = sent + 1
  <2>1. Len(f) = n /\ \A i \in 1..n : f[i] = sent + i
    BY <1>2, <1>3
  <2>2. \A i \in 1..n : sent + i = sent + n + 1 - n + i - 1
    BY <1>2
  <2>3. 1 \in 1..n
    BY <1>2
  <2> QED
    BY <1>2, <2>1, <2>2, <2>3 DEF RowUpTo
<1>5. e.frames = f /\ e.pts \in Near(f[1] - 1) \cup {NULL}
  BY <1>2, <1>3, <1>4
<1>6. PICK l \in Nat : l = Len(queue) /\ Len(q) = l + 1 /\ q[l + 1] = e
                       /\ q # <<>> /\ \A i \in 1..l : q[i] = queue[i]
  <2>1. Len(queue) \in Nat
    BY <1>2, LengthFacts
  <2>2. e \in Packet /\ q = Append(queue, e)
    BY <1>3
  <2>3. /\ Len(q) = Len(queue) + 1 /\ q[Len(queue) + 1] = e
        /\ q # <<>> /\ \A i \in 1..Len(queue) : q[i] = queue[i]
    BY <1>2, <2>2, AppendFacts
  <2> QED
    BY <2>1, <2>3
<1>7. Upcoming' = Upcoming
  <2>1. CASE queue = <<>>
    <3>1. l = 0
      BY <1>6, <2>1
    <3>2. q # <<>> /\ q[1] = e
      BY <1>6, <3>1
    <3> QED
      BY <1>3, <1>4, <1>5, <2>1, <3>2 DEF Upcoming
  <2>2. CASE queue # <<>>
    <3>1. l # 0
      BY <1>2, <1>6, <2>2, LengthFacts
    <3>2. 1 \in 1..l
      BY <3>1
    <3> QED
      BY <1>3, <1>6, <2>2, <3>2 DEF Upcoming
  <2> QED
    BY <2>1, <2>2
<1>8. QueueInRow'
  <2>1. ASSUME NEW i \in 1..(l + 1)
        PROVE  /\ RowUpTo(q[i].frames, IF i = l + 1 THEN sent + n + 1 ELSE q[i + 1].frames[1])
               /\ q[i].pts \in Near(q[i].frames[1] - 1) \cup {NULL}
    <3>1. CASE i = l + 1
      BY <1>4, <1>5, <1>6, <3>1
    <3>2. CASE i # l + 1
      <4>1. i \in 1..l /\ q[i] = queue[i]
        BY <1>6, <3>2
      <4>2. RowUpTo(q[i].frames, After(i)) /\ q[i].pts \in Near(q[i].frames[1] - 1) \cup {NULL}
        BY <1>6, <4>1 DEF QueueInRow, RowInv
      <4>3. q[i + 1].frames[1] = After(i)
        <5>1. CASE i = l
          BY <1>4, <1>5, <1>6, <5>1 DEF After
        <5>2. CASE i # l
          <6>1. i + 1 \in 1..l
            BY <4>1, <5>2
          <6> QED
            BY <1>6, <5>2, <6>1 DEF After
        <5> QED
          BY <5>1, <5>2
      <4> QED
        BY <3>2, <4>2, <4>3
    <3> QED
      BY <3>1, <3>2
  <2>2. sent' + 1 = sent + n + 1
    BY <1>1, <1>2
  <2> QED
    BY <1>3, <1>6, <2>1, <2>2 DEF QueueInRow, After
<1>9. UNCHANGED <<audio_pkt_temp, audio_clock, frame, exact>>
  BY DEF Enqueue, ghostVars
<1>10. NextFrame' = NextFrame
  BY <1>7, <1>9 DEF NextFrame
<1> QED
  BY <1>7, <1>8, <1>9, <1>10 DEF RowInv, HandInRow, Behind, Exact

LEMMA TakePacketRow ==
    ASSUME TypeOK, RowInv, TakePacket
    PROVE  RowInv' /\ audio_clock' >= audio_clock - 2 * Rounding
<1>1. /\ queue \in Seq(Packet) /\ queue # <<>> /\ audio_pkt_temp = <<>>
      /\ frame \in Nat /\ audio_clock \in Int /\ sent \in Nat
      /\ Head(queue) = queue[1] /\ queue[1] \in Packet
      /\ RowUpTo(queue[1].frames, After(1)) /\ After(1) \in Nat /\ Upcoming \in Nat
  BY NumbersType, Types DEF TakePacket, RowInv
<1>2. PICK q, f, c, x :
         /\ q = queue' /\ q = Tail(queue)
         /\ f = audio_pkt_temp' /\ f = queue[1].frames /\ f \in Seq(1..Film)
         /\ c = audio_clock' /\ c = ClockFrom(queue[1].pts)
         /\ x = exact' /\ x = (exact \/ queue[1].pts # NULL)
         /\ UNCHANGED <<frame, sent>>
  BY <1>1 DEF TakePacket, Packet, ghostVars
<1>3. /\ f # <<>> /\ f[1] \in Nat /\ f[1] = Upcoming /\ NextFrame = Upcoming
      /\ RowUpTo(f, After(1))
  BY <1>1, <1>2, RowFacts DEF Upcoming, NextFrame
<1>4. NextFrame' = f[1]
  BY <1>2, <1>3 DEF NextFrame
<1>5. PICK l \in Nat : l = Len(queue) /\ l > 0 /\ Len(q) = l - 1
                       /\ \A i \in 1..(l - 1) : q[i] = queue[i + 1]
  BY <1>1, <1>2
<1>6. Upcoming' = After(1)
  <2>1. CASE l = 1
    <3>1. q = <<>>
      BY <1>1, <1>2, <1>5, <2>1
    <3> QED
      BY <1>2, <1>5, <2>1, <3>1 DEF Upcoming, After
  <2>2. CASE l # 1
    <3>1. 1 \in 1..(l - 1) /\ q # <<>>
      <4>1. l \in Nat /\ l > 1 /\ Len(q) = l - 1
        BY <1>5, <2>2
      <4>2. q # <<>>
        BY <4>1
      <4> QED
        BY <4>1, <4>2
    <3>2. q[1] = queue[1 + 1]
      BY <1>5, <3>1
    <3> QED
      BY <1>2, <1>5, <2>2, <3>1, <3>2 DEF Upcoming, After
  <2> QED
    BY <2>1, <2>2
<1>7. HandInRow'
  BY <1>2, <1>3, <1>6 DEF HandInRow
<1>8. QueueInRow'
  <2>1. ASSUME NEW i \in 1..(l - 1)
        PROVE  /\ RowUpTo(q[i].frames, IF i = l - 1 THEN sent + 1 ELSE q[i + 1].frames[1])
               /\ q[i].pts \in Near(q[i].frames[1] - 1) \cup {NULL}
    <3>1. i \in Nat /\ i + 1 \in 1..l /\ q[i] = queue[i + 1]
      BY <1>5
    <3>2. RowUpTo(q[i].frames, After(i + 1)) /\ q[i].pts \in Near(q[i].frames[1] - 1) \cup {NULL}
      BY <1>5, <3>1 DEF QueueInRow, RowInv
    <3>3. CASE i = l - 1
      BY <1>5, <3>1, <3>2, <3>3 DEF After
    <3>4. CASE i # l - 1
      <4>1. i + 1 \in 1..(l - 1) /\ i + 1 # l
        BY <1>5, <3>4
      <4>2. q[i + 1] = queue[(i + 1) + 1]
        BY <1>5, <4>1
      <4> QED
        BY <1>5, <3>2, <3>4, <4>1, <4>2 DEF After
    <3> QED
      BY <3>3, <3>4
  <2> QED
    BY <1>2, <1>5, <2>1 DEF QueueInRow, After
<1>9. queue[1].pts \in Near(f[1] - 1) \cup {NULL}
  <2>1. 1 \in 1..Len(queue)
    BY <1>5
  <2> QED
    BY <1>2, <2>1 DEF QueueInRow, RowInv
<1>10. /\ frame < f[1] /\ audio_clock <= f[1] - 1 + Rounding
       /\ exact => audio_clock \in Near(f[1] - 1)
  BY <1>3 DEF RowInv, Behind, Exact
<1>11. /\ c <= f[1] - 1 + Rounding /\ c >= audio_clock - 2 * Rounding
       /\ x => c \in Near(f[1] - 1)
  <2>1. CASE queue[1].pts = NULL
    <3>1. c = audio_clock /\ (x => exact)
      BY <1>2, <2>1 DEF ClockFrom
    <3> QED
      BY <1>1, <1>3, <1>10, <3>1, SizeAssumption
  <2>2. CASE queue[1].pts # NULL
    <3>1. c \in Near(f[1] - 1)
      BY <1>2, <1>9, <2>2 DEF ClockFrom
    <3> QED
      BY <1>1, <1>3, <1>10, <3>1, SizeAssumption DEF Near
  <2> QED
    BY <2>1, <2>2
<1>12. Behind' /\ Exact'
  BY <1>2, <1>3, <1>4, <1>10, <1>11 DEF Behind, Exact
<1> QED
  BY <1>2, <1>7, <1>8, <1>11, <1>12 DEF RowInv

\* A frame is returned, yields nothing, or is dropped with its packet.
LEMMA DecodeRow ==
    ASSUME TypeOK, RowInv, DecodeFrame \/ DecodeError \/ DecodeNothing \/ ResampleError
    PROVE  RowInv' /\ audio_clock' >= audio_clock - 2 * Rounding
<1>1. audio_pkt_temp # <<>> /\ UNCHANGED <<queue, sent>>
  BY DEF DecodeFrame, DecodeError, DecodeNothing, ResampleError, Decoding, otherVars
<1>2. PICK p : p = audio_pkt_temp' /\ p \in {<<>>, Tail(audio_pkt_temp)}
                /\ (DecodeFrame => p = Tail(audio_pkt_temp))
  BY DEF DecodeFrame, DecodeError, DecodeNothing, ResampleError
<1>3. /\ HandInRow'
      /\ NextFrame' \in Nat /\ NextFrame' >= NextFrame + 1
      /\ p = Tail(audio_pkt_temp) => NextFrame' = NextFrame + 1
  BY <1>1, <1>2, HandShrinks DEF RowInv
<1>4. PICK n \in Nat : n = NextFrame' /\ n >= NextFrame + 1
                       /\ (DecodeFrame => n = NextFrame + 1)
  BY <1>2, <1>3
<1>5. QueueInRow'
  BY <1>1 DEF QueueInRow, After, RowInv
<1>6. /\ NextFrame \in Nat /\ frame \in Nat /\ audio_clock \in Int
      /\ NextFrame = Head(audio_pkt_temp)
      /\ frame < NextFrame /\ audio_clock <= NextFrame - 1 + Rounding
      /\ exact => audio_clock \in Near(NextFrame - 1)
  <2>1. Head(audio_pkt_temp) = audio_pkt_temp[1]
    BY <1>1, Types
  <2> QED
    BY <1>1, <2>1, NumbersType, Types DEF RowInv, Behind, Exact, NextFrame
<1>7. CASE DecodeFrame
  <2>1. frame' = NextFrame /\ audio_clock' = audio_clock + 1 /\ exact' = exact
    BY <1>6, <1>7 DEF DecodeFrame, ClockAfter
  <2>2. n = NextFrame + 1
    BY <1>4, <1>7
  <2>3. PICK f, c : f = frame' /\ c = audio_clock' /\ f = NextFrame /\ c = audio_clock + 1
    BY <2>1
  <2>4. /\ f < n /\ c <= n - 1 + Rounding /\ f = n - 1 /\ c >= audio_clock - 2 * Rounding
        /\ exact => c \in Near(n - 1)
    <3>1. PICK m \in Nat : m = NextFrame
      BY <1>6
    <3>2. /\ audio_clock \in Int /\ audio_clock <= m - 1 + Rounding
          /\ exact => audio_clock \in Near(m - 1)
          /\ f = m /\ c = audio_clock + 1 /\ n = m + 1
      BY <1>6, <2>2, <2>3, <3>1, Zenon
    <3> QED
      BY <3>2, SizeAssumption DEF Near
  <2>5. Behind' /\ Exact' /\ audio_clock' >= audio_clock - 2 * Rounding
    BY <1>4, <2>1, <2>3, <2>4 DEF Behind, Exact
  <2> QED
    BY <1>3, <1>5, <2>5 DEF RowInv
<1>8. CASE DecodeError \/ DecodeNothing \/ ResampleError
  <2>1. exact' = FALSE /\ UNCHANGED <<frame, audio_clock>>
    BY <1>8 DEF DecodeError, DecodeNothing, ResampleError, ghostVars
  <2>2. frame < n /\ audio_clock <= n - 1 + Rounding
    <3>1. PICK k \in Nat : k = NextFrame
      BY <1>6
    <3>2. /\ frame \in Nat /\ audio_clock \in Int /\ n >= k + 1
          /\ frame < k /\ audio_clock <= k - 1 + Rounding
      BY <1>4, <1>6, <3>1, Zenon
    <3> QED
      BY <3>2, SizeAssumption
  <2>3. Behind' /\ Exact'
    BY <1>4, <2>1, <2>2 DEF Behind, Exact
  <2> QED
    BY <1>3, <1>5, <1>6, <2>1, <2>3, SizeAssumption DEF RowInv
<1> QED
  BY <1>7, <1>8

LEMMA PrepareRow ==
    ASSUME TypeOK, RowInv, Prepare
    PROVE  RowInv' /\ audio_clock' = audio_clock
<1>1. /\ UNCHANGED <<queue, sent, frame, audio_clock>>
      /\ audio_pkt_temp' = <<>>
      /\ exact' = (exact /\ audio_pkt_temp = <<>>)
  BY DEF Prepare, ghostVars
<1>2. NextFrame' = Upcoming
  BY <1>1 DEF NextFrame, Upcoming
<1>3. QueueInRow' /\ HandInRow'
  BY <1>1 DEF QueueInRow, After, HandInRow, RowInv
<1>4. /\ Upcoming \in Nat /\ NextFrame \in Nat /\ NextFrame <= Upcoming
      /\ frame \in Nat /\ audio_clock \in Int
  BY NumbersType, Types DEF RowInv
<1>5. frame < Upcoming /\ audio_clock <= Upcoming - 1 + Rounding
  BY <1>4, SizeAssumption DEF RowInv, Behind
<1>6. Behind'
  BY <1>1, <1>2, <1>5 DEF Behind
<1>7. Exact'
  BY <1>1, <1>2 DEF Exact, RowInv, NextFrame
<1> QED
  BY <1>1, <1>3, <1>6, <1>7 DEF RowInv

rowVars == <<queue, sent, audio_pkt_temp, frame, audio_clock, exact>>

LEMMA NextRow ==
    ASSUME TypeOK, RowInv, [Next]_vars
    PROVE  RowInv' /\ audio_clock' >= audio_clock - 2 * Rounding
<1>1. audio_clock \in Int
  BY Types
<1>2. CASE Enqueue
  <2>1. audio_clock' = audio_clock
    BY <1>2 DEF Enqueue
  <2> QED
    BY <1>1, <1>2, <2>1, EnqueueRow, SizeAssumption
<1>3. CASE Prepare
  BY <1>1, <1>3, PrepareRow, SizeAssumption
<1>4. CASE DecodeFrame \/ DecodeError \/ DecodeNothing \/ ResampleError
  BY <1>4, DecodeRow
<1>5. CASE TakePacket
  BY <1>5, TakePacketRow
<1>6. CASE UNCHANGED rowVars
  BY <1>1, <1>6, SizeAssumption DEF rowVars, RowInv, QueueInRow, HandInRow, Behind, Exact, RowUpTo,
                    After, Upcoming, NextFrame
<1>7. CASE \/ Stop \/ MoreData \/ Refill \/ Copy \/ NoMemory \/ Divide \/ GetRefused
           \/ UNCHANGED vars
  <2>1. UNCHANGED rowVars
    BY <1>7 DEF Stop, MoreData, Refill, Copy, NoMemory, Divide, GetRefused, Silence, vars,
                otherVars, decodeVars, bufferVars, ghostVars, rowVars
  <2> QED
    BY <1>6, <2>1
<1> QED
  BY <1>2, <1>3, <1>4, <1>5, <1>7 DEF Next, Callback

LEMMA InitRow == Init => RowInv
<1> SUFFICES ASSUME Init PROVE RowInv
  OBVIOUS
<1>1. Upcoming = 1 /\ NextFrame = 1
  BY DEF Init, Upcoming, NextFrame
<1>2. QueueInRow
  BY DEF Init, QueueInRow
<1> QED
  BY <1>1, <1>2, SizeAssumption DEF Init, RowInv, HandInRow, Behind, Exact

LEMMA RowClockTrue ==
    ASSUME TypeOK, RowInv
    PROVE  ClockTrue
<1>1. audio_pkt_temp # <<>> => Head(audio_pkt_temp) = audio_pkt_temp[1]
  BY Types
<1> QED
  BY <1>1 DEF ClockTrue, RowInv, Exact, NextFrame

(* From a time stamp to the next loss the audio clock is as near to the    *)
(* place where the next frame begins as time stamps are to theirs, for any *)
(* packets, formats and interleavings (audio_decode_frame 133-136,         *)
(* 150-152).                                                               *)
THEOREM ClockCorrect == Spec => []ClockTrue
<1>1. Init => TypeOK /\ RowInv
  BY InitType, InitRow
<1>2. TypeOK /\ RowInv /\ [Next]_vars => TypeOK' /\ RowInv'
  BY NextType, NextRow
<1>3. TypeOK /\ RowInv => ClockTrue
  BY RowClockTrue
<1> QED
  BY <1>1, <1>2, <1>3, PTL DEF Spec

(* As long as no time stamp is further off than Rounding the audio clock   *)
(* never runs back by more than two such errors, whatever is lost and      *)
(* whichever packets have time stamps (audio_decode_frame 133-136,         *)
(* 150-152).                                                               *)
THEOREM ClockNeverBack == Spec => ClockForward
<1>1. Init => TypeOK /\ RowInv
  BY InitType, InitRow
<1>2. TypeOK /\ RowInv /\ [Next]_vars => TypeOK' /\ RowInv'
  BY NextType, NextRow
<1>3. TypeOK /\ RowInv /\ [Next]_vars => [audio_clock' >= audio_clock - 2 * Rounding]_audio_clock
  BY NextRow
<1> QED
  BY <1>1, <1>2, <1>3, PTL DEF Spec, ClockForward

-------------------------------------------------------------------------------
(* The stream.  A frame can only be decoded when the buffer is empty, and  *)
(* never after a stop was answered, because nothing is taken then.         *)

LEMMA NextBuffer ==
    ASSUME TypeOK, SilentInv, EmptyInv, [Next]_vars
    PROVE  SilentInv' /\ EmptyInv'
<1> USE DEF otherVars, decodeVars, bufferVars, ghostVars
<1>1. CASE UNCHANGED <<aborted, audio_pkt_temp, held, silent, cpc, audio_buf_index, audio_buf_size>>
  BY <1>1 DEF SilentInv, EmptyInv
<1>2. CASE Enqueue
  BY <1>1, <1>2 DEF Enqueue
<1>3. CASE Prepare
  BY <1>3 DEF Prepare, SilentInv, EmptyInv
<1>4. CASE Stop
  BY <1>4 DEF Stop, SilentInv, EmptyInv
<1>5. CASE MoreData
  BY <1>5 DEF MoreData, SilentInv, EmptyInv
<1>6. CASE Refill
  <2>1. audio_buf_index = audio_buf_size
    BY <1>6, Types DEF Refill, Emptied
  <2> QED
    BY <1>6, <2>1 DEF Refill, SilentInv, EmptyInv
<1>7. CASE Copy
  <2>1. cpc' # "decode"
    BY <1>7 DEF Copy
  <2> QED
    BY <1>7, <2>1 DEF Copy, SilentInv, EmptyInv
<1>8. CASE NoMemory \/ GetRefused
  <2>1. /\ cpc' # "decode" /\ held' = 0 /\ UNCHANGED <<aborted, audio_pkt_temp>>
        /\ silent' => silent \/ (aborted /\ audio_pkt_temp = <<>>)
    BY <1>8 DEF NoMemory, GetRefused, Silence, GetAborted
  <2> QED
    BY <2>1 DEF SilentInv, EmptyInv
<1>13. CASE Divide
  <2>1. cpc' = "divided" /\ UNCHANGED <<aborted, audio_pkt_temp, held, silent>>
    BY <1>13 DEF Divide
  <2> QED
    BY <2>1 DEF SilentInv, EmptyInv
<1>9. CASE DecodeError \/ DecodeNothing \/ ResampleError
  <2>1. ~silent /\ UNCHANGED <<silent, cpc, audio_buf_index, audio_buf_size>>
    BY <1>9 DEF DecodeError, DecodeNothing, ResampleError, Decoding, SilentInv
  <2> QED
    BY <2>1 DEF SilentInv, EmptyInv
<1>10. CASE DecodeFrame
  <2>1. ~silent /\ silent' = silent /\ cpc' = "fill"
    BY <1>10 DEF DecodeFrame, Decoding, SilentInv
  <2> QED
    BY <2>1 DEF SilentInv, EmptyInv
<1>11. CASE TakePacket
  <2>1. ~silent /\ UNCHANGED <<silent, cpc, audio_buf_index, audio_buf_size>>
    BY <1>11 DEF TakePacket, GetAborted, SilentInv
  <2> QED
    BY <2>1 DEF SilentInv, EmptyInv
<1>12. CASE UNCHANGED vars
  BY <1>1, <1>12 DEF vars
<1> QED
  BY <1>2, <1>3, <1>4, <1>5, <1>6, <1>7, <1>8, <1>9, <1>10, <1>11, <1>12,
     <1>13 DEF Next, Callback

StreamInv == TypeOK /\ RowInv /\ SilentInv /\ EmptyInv

LEMMA LeftType ==
    ASSUME StreamInv
    PROVE  Left \in Nat /\ (cpc = "decode" => Left = 0)
<1>1. audio_buf_size \in Nat /\ audio_buf_index \in 0..audio_buf_size
  BY Types DEF StreamInv
<1> QED
  BY <1>1 DEF Left, StreamInv, EmptyInv

LEMMA Parts ==
    ASSUME NEW l \in Nat, NEW k \in Nat, NEW before \in Nat, NEW size \in Nat,
           l + k = before + size
    PROVE  l \in 0..(before + size) /\ k = before + size - l
OBVIOUS

LEMMA StreamStep ==
    ASSUME StreamInv, [Next]_vars
    PROVE  [Stream!Next]_(Stream!vars)
<1> USE DEF otherVars, decodeVars, bufferVars, ghostVars
<1>1. CASE UNCHANGED <<frame, silent, held, delayed, audio_buf_size, audio_buf_index>>
  BY <1>1 DEF Stream!vars, Left
<1>2. CASE Copy
  <2>1. CASE held = 0
    BY <1>2, <2>1 DEF Copy, Stream!vars, Left
  <2>2. CASE held # 0
    <3>1. PICK b \in Nat, i \in Nat, k \in Nat :
             /\ b = audio_buf_size /\ i = audio_buf_index /\ k = Len1
             /\ i + k <= b
      BY <1>2, CopyFacts, Types DEF StreamInv
    <3>2. audio_buf_index' = i + k /\ UNCHANGED <<frame, silent, held, delayed, audio_buf_size>>
      BY <1>2, <3>1 DEF Copy
    <3>3. Left = b - i
      BY <2>2, <3>1 DEF Left
    <3>4. Left' = b - (i + k)
      BY <2>2, <3>1, <3>2 DEF Left
    <3>5. k = 0 \/ b - (i + k) \in 0..((b - i) - 1)
      BY <3>1
    <3>6. CASE k = 0
      BY <3>2, <3>3, <3>4, <3>6 DEF Stream!vars
    <3>7. CASE b - (i + k) \in 0..((b - i) - 1)
      BY <3>2, <3>3, <3>4, <3>7 DEF Stream!Next, Stream!Deliver
    <3> QED
      BY <3>5, <3>6, <3>7
  <2> QED
    BY <2>1, <2>2
<1>3. CASE NoMemory
  <2>1. cpc = "decode" /\ held' = 0 /\ UNCHANGED <<frame, silent, delayed>>
    BY <1>3 DEF NoMemory, Decoding, Silence
  <2>2. Left = 0 /\ Left' = 0
    BY <2>1, LeftType DEF Left
  <2> QED
    BY <2>1, <2>2 DEF Stream!vars
<1>4. CASE GetRefused
  <2>1. cpc = "decode" /\ held' = 0 /\ frame' = frame /\ silent' = TRUE /\ delayed' = delayed
    BY <1>4 DEF GetRefused, Silence
  <2>2. Left = 0 /\ Left' = 0
    BY <2>1, LeftType DEF Left
  <2> QED
    BY <2>1, <2>2 DEF Stream!Next, Stream!Hush
<1>5. CASE DecodeFrame
  <2>1. /\ cpc = "decode" /\ audio_pkt_temp # <<>> /\ silent' = silent
        /\ held' = Head(audio_pkt_temp) /\ frame' = Head(audio_pkt_temp)
    BY <1>5 DEF DecodeFrame, Decoding
  <2>2. Head(audio_pkt_temp) \in 1..Film /\ Head(audio_pkt_temp) = audio_pkt_temp[1]
    BY <2>1, HeadTail, Types DEF StreamInv
  <2>3. frame < Head(audio_pkt_temp)
    BY <2>1, <2>2 DEF StreamInv, RowInv, Behind, NextFrame
  <2>4. ~silent
    BY <2>1 DEF StreamInv, SilentInv
  <2>5. Left = 0
    BY <2>1, LeftType
  <2>6. Left' = audio_buf_size'
    <3>1. PICK b \in Nat : b = audio_buf_size'
      BY <1>5, FrameReturned DEF StreamInv
    <3>2. held' # 0 /\ audio_buf_index' = 0
      BY <1>5, <2>1, <2>2, FrameReturned DEF StreamInv
    <3>3. Left' = b - 0
      BY <3>1, <3>2, Zenon DEF Left
    <3>4. b - 0 = b
      OBVIOUS
    <3> QED
      BY <3>1, <3>3, <3>4, Zenon
  <2>8. PICK size \in {Bytes[fmt] : fmt \in Formats}, before \in {delayed, 0} :
           \/ audio_buf_size' + delayed' = before + size
           \/ before + size >= Full /\ audio_buf_size' = Full /\ delayed' = 0
    BY <1>5, FrameReturned DEF StreamInv
  <2>9. PICK l \in Nat, k \in Nat : l = Left' /\ k = delayed'
    <3>1. audio_buf_size' \in Nat /\ delayed' \in Nat
      BY <1>5, FrameReturned, SizeAssumption DEF StreamInv
    <3> QED
      BY <2>6, <3>1
  <2>10. size \in Nat /\ before \in Nat
    BY FormatAssumption, SizeAssumption, Types DEF StreamInv
  <2>11. \/ l \in 0..(before + size) /\ k = before + size - l
         \/ before + size >= Full /\ l = Full /\ k = 0
    <3>1. \/ l + k = before + size
          \/ before + size >= Full /\ l = Full /\ k = 0
      BY <2>6, <2>8, <2>9, Zenon
    <3>2. ASSUME l + k = before + size
          PROVE  l \in 0..(before + size) /\ k = before + size - l
      BY <2>10, <3>2, Parts
    <3> QED
      BY <3>1, <3>2, Zenon
  <2>12. \/ Left' \in 0..(before + size) /\ delayed' = before + size - Left'
         \/ before + size >= Full /\ Left' = Full /\ delayed' = 0
    BY <2>9, <2>11
  <2>7. frame' \in {f \in 1..Film : f > frame}
    <3>1. frame \in Nat /\ Film \in Nat
      BY Types DEF StreamInv
    <3> QED
      BY <2>1, <2>2, <2>3, <3>1
  <2> QED
    BY <2>1, <2>4, <2>5, <2>7, <2>12 DEF Stream!Next, Stream!Begin
<1>6. CASE Enqueue \/ Prepare \/ Stop \/ MoreData \/ Refill \/ DecodeError \/ DecodeNothing
           \/ Divide \/ TakePacket \/ UNCHANGED vars
  <2>1. UNCHANGED <<frame, silent, held, delayed, audio_buf_size, audio_buf_index>>
    BY <1>6 DEF Enqueue, Prepare, Stop, MoreData, Refill, DecodeError, DecodeNothing,
                Divide, TakePacket, vars
  <2> QED
    BY <1>1, <2>1
<1>7. CASE ResampleError
  <2>1. /\ cpc = "decode" /\ UNCHANGED <<frame, silent, held, audio_buf_size, audio_buf_index>>
        /\ delayed' \in {delayed, 0}
    BY <1>7, ResamplerType DEF ResampleError, Decoding, StreamInv
  <2>2. Left = 0 /\ Left' = Left
    BY <2>1, LeftType DEF Left
  <2> QED
    BY <2>1, <2>2 DEF Stream!Next, Stream!Drop, Stream!vars
<1> QED
  BY <1>2, <1>3, <1>4, <1>5, <1>6, <1>7 DEF Next, Callback

(* The decoder implements the byte stream of AudioStream: what a frame is  *)
(* converted to is delivered once and in order, whatever sizes AudioTrack  *)
(* asks for and frames have, nothing is lost of it but with the resampler  *)
(* that holds it or beyond a full audio_buf2, and nothing follows the      *)
(* silence that answers a stop (cbf 156-188, audio_decode_frame 98-131).   *)
THEOREM StreamImplemented == Spec => ImplementsStream
<1>1. Init => StreamInv
  <2>1. Init => SilentInv /\ EmptyInv
    BY DEF Init, SilentInv, EmptyInv
  <2> QED
    BY <2>1, InitType, InitRow DEF StreamInv
<1>2. StreamInv /\ [Next]_vars => StreamInv'
  BY NextType, NextRow, NextBuffer DEF StreamInv
<1>3. Init => Stream!Init
  BY DEF Init, Stream!Init, Left
<1>4. StreamInv /\ [Next]_vars => [Stream!Next]_(Stream!vars)
  BY StreamStep
<1> QED
  BY <1>1, <1>2, <1>3, <1>4, PTL DEF Spec, ImplementsStream, Stream!Spec
===============================================================================
