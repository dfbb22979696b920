-------------------------- MODULE VideoDecoderProofs --------------------------
(***************************************************************************)
(* Theorems about VideoDecoder, for every ring size, every set of picture  *)
(* sizes and every bound.                                                  *)
(***************************************************************************)
EXTENDS VideoDecoder, SequenceTheorems, TLAPS

USE NAssumption, EventCapAssumption

-------------------------------------------------------------------------------
(* Types.                                                                  *)

LEMMA InitTypeOK == Init => TypeOK
<1> SUFFICES ASSUME Init
             PROVE  TypeOK
  OBVIOUS
<1>1. /\ mRunning \in BOOLEAN /\ mAbortRequest \in BOOLEAN
      /\ dim \in Dims /\ img_convert_ctx \in Dims
      /\ vpc \in VideoPcs /\ epc \in EventPcs
      /\ upc \in {"playing", "wait", "join", "stopped", "deleted"}
  BY Zenon DEF Init, VideoPcs, EventPcs
<1>2. /\ packets \in Nat /\ made \in Nat /\ pictq_size \in Int
      /\ pictq_windex \in Slots /\ pictq_rindex \in Slots
      /\ eslot \in Slots /\ video_current_pts \in Nat
      /\ shown \in Nat /\ shownPts \in Nat /\ timers \in Nat
  BY DEF Init, Slots
<1>3. /\ bmp \in [Slots -> Dims \cup {NoBmp}]
      /\ allocated \in [Slots -> BOOLEAN]
      /\ image \in [Slots -> Nat]
      /\ pts \in [Slots -> Nat]
      /\ room \in [Slots -> BOOLEAN] /\ whole \in [Slots -> BOOLEAN]
  BY DEF Init
<1>4. events \in Seq(Events)
  BY DEF Init
<1> QED
  BY <1>1, <1>2, <1>3, <1>4, Zenon DEF TypeOK

LEMMA FollowingType == ASSUME NEW i \in Slots PROVE Following(i) \in Slots
BY DEF Following, Slots

LEMMA AfterSignalType == ASSUME NEW p \in VideoPcs PROVE AfterSignal(p) \in VideoPcs
BY DEF AfterSignal, VideoPcs

LEMMA PushedType ==
    ASSUME events \in Seq(Events), NEW e \in Events
    PROVE  Pushed(e) \in Seq(Events)
BY DEF Pushed

LEMMA EventTypes ==
    /\ \A i \in Slots : ALLOC_EVENT(i) \in Events
    /\ REFRESH_EVENT \in Events
    /\ \A e \in Events : e.type \in {"alloc", "refresh"} /\ e.slot \in Slots
BY DEF Events, ALLOC_EVENT, REFRESH_EVENT, Slots

LEMMA HeadType ==
    ASSUME TypeOK, TakeEvent
    PROVE  Head(events) \in Events /\ Head(events).type \in {"alloc", "refresh"}
<1>1. Head(events) \in Events
  BY DEF TakeEvent, TypeOK
<1> QED
  BY <1>1, EventTypes

LEMMA VideoTypeOK ==
    ASSUME TypeOK, VideoStep
    PROVE  TypeOK'
<1>1. CASE VideoSetup
  BY <1>1 DEF VideoStep, VideoSetup, Begin, Prepare, TypeOK, VideoPcs,
     slotVars, bitmapVars, ringVars, eventVars, sdlVars, decoderVars
<1>2. CASE Spawn
  BY <1>2 DEF VideoStep, Spawn, TypeOK, VideoPcs, EventPcs,
     slotVars, bitmapVars, ringVars, sdlVars, decoderVars
<1>3. CASE Arm
  BY <1>3 DEF VideoStep, Arm, TypeOK, VideoPcs,
     slotVars, bitmapVars, ringVars, eventVars, decoderVars
<1>4. CASE VideoLoop
  <2> USE DEF VideoStep, VideoLoop, TypeOK, VideoPcs, slotVars, bitmapVars, ringVars,
              eventVars, sdlVars, decoderVars
  <2>1. CASE LoopHead
    BY <1>4, <2>1 DEF LoopHead
  <2>2. CASE GetAborted
    BY <1>4, <2>2 DEF GetAborted
  <2>3. CASE GetPacket
    BY <1>4, <2>3 DEF GetPacket
  <2>4. CASE WaitForSlot
    BY <1>4, <2>4 DEF WaitForSlot
  <2> QED
    BY <1>4, <2>1, <2>2, <2>3, <2>4
<1>5. CASE CheckBitmap
  <2>1. allocated' \in [Slots -> BOOLEAN]
    BY <1>5 DEF CheckBitmap, AllocatedWhenAsking, TypeOK
  <2>2. events' \in Seq(Events)
    BY <1>5, PushedType, EventTypes DEF CheckBitmap, TypeOK
  <2>3. vpc' \in VideoPcs
    BY <1>5 DEF CheckBitmap, VideoPcs
  <2> QED
    BY <1>5, <2>1, <2>2, <2>3 DEF VideoStep, CheckBitmap, TypeOK,
       bitmapVars, ringVars, eventVars, decoderVars
<1>6. CASE WaitForBitmap
  BY <1>6 DEF VideoStep, WaitForBitmap, TypeOK, VideoPcs,
     slotVars, bitmapVars, ringVars, eventVars, sdlVars, decoderVars
<1>7. CASE Scale
  <2>1. /\ image' \in [Slots -> Nat] /\ made' \in Nat
        /\ vpc' \in VideoPcs
    BY <1>7 DEF Scale, TypeOK, VideoPcs
  <2>2. whole' \in [Slots -> BOOLEAN]
    BY <1>7 DEF Scale, TypeOK, Converts
  <2> QED
    BY <1>7, <2>1, <2>2 DEF VideoStep, Scale, TypeOK,
       ringVars, eventVars, sdlVars, decoderVars
<1>8. CASE Stamp
  <2>1. Following(pictq_windex) \in Slots
    BY FollowingType DEF TypeOK
  <2> QED
    BY <1>8, <2>1 DEF VideoStep, Stamp, TypeOK, VideoPcs,
       bitmapVars, eventVars, sdlVars, decoderVars
<1>9. CASE Publish
  BY <1>9 DEF VideoStep, Publish, TypeOK, VideoPcs,
     slotVars, bitmapVars, eventVars, sdlVars, decoderVars
<1>10. CASE Finish
  BY <1>10 DEF VideoStep, Finish, TypeOK, VideoPcs,
     slotVars, bitmapVars, ringVars, eventVars, sdlVars
<1> QED
  BY <1>1, <1>2, <1>3, <1>4, <1>5, <1>6, <1>7, <1>8, <1>9, <1>10
     DEF VideoStep

LEMMA EventTypeOK ==
    ASSUME TypeOK, EventStep
    PROVE  TypeOK'
<1> USE DEF EventStep, decoderVars
<1>1. CASE EventLoop
  BY <1>1 DEF EventLoop, TypeOK, EventPcs, slotVars, bitmapVars, ringVars, sdlVars
<1>2. CASE TakeEvent
  <2>1. Head(events) \in Events /\ Tail(events) \in Seq(Events)
    BY <1>2 DEF TakeEvent, TypeOK
  <2>2. epc' \in EventPcs /\ eslot' \in Slots /\ events' \in Seq(Events)
    BY <1>2, <2>1, EventTypes DEF TakeEvent, EventPcs
  <2> QED
    BY <1>2, <2>2 DEF TakeEvent, TypeOK, slotVars, bitmapVars, ringVars
<1>3. CASE AllocBitmap
  BY <1>3 DEF AllocBitmap, TypeOK, EventPcs, ringVars, sdlVars
<1>4. CASE AllocDone
  BY <1>4, AfterSignalType DEF AllocDone, TypeOK, EventPcs, bitmapVars, ringVars,
     sdlVars
<1>5. CASE Refresh
  BY <1>5 DEF Refresh, TimersAfterRefresh, TypeOK, EventPcs, slotVars, bitmapVars, ringVars
<1>6. CASE Display
  BY <1>6 DEF Display, TypeOK, EventPcs, slotVars, bitmapVars, ringVars, sdlVars
<1>7. CASE Advance
  BY <1>7, FollowingType DEF Advance, TypeOK, EventPcs, slotVars, bitmapVars, sdlVars
<1>8. CASE Consume
  BY <1>8, AfterSignalType DEF Consume, TypeOK, EventPcs, slotVars, bitmapVars, sdlVars
<1> QED
  BY <1>1, <1>2, <1>3, <1>4, <1>5, <1>6, <1>7, <1>8

LEMMA NextTypeOK == TypeOK /\ [Next]_vars => TypeOK'
<1> SUFFICES ASSUME TypeOK, [Next]_vars
             PROVE  TypeOK'
  OBVIOUS
<1> USE DEF decoderVars, videoVars, slotVars, bitmapVars, ringVars, eventVars, sdlVars
<1>1. CASE Enqueue
  BY <1>1 DEF Enqueue, TypeOK
<1>2. CASE VideoStep
  BY <1>2, VideoTypeOK
<1>3. CASE SpuriousWake
  BY <1>3, AfterSignalType DEF SpuriousWake, TypeOK
<1>4. CASE EventStep
  BY <1>4, EventTypeOK
<1>5. CASE TimerFires
  <2>1. events' \in Seq(Events)
    BY <1>5, PushedType, EventTypes DEF TimerFires, TypeOK
  <2> QED
    BY <1>5, <2>1 DEF TimerFires, TypeOK
<1>6. CASE StopCall
  BY <1>6 DEF StopCall, Stop, TypeOK
<1>7. CASE Stopping
  BY <1>7 DEF Stopping, Wait, Join, TypeOK
<1>8. CASE Delete
  BY <1>8, AfterSignalType DEF Delete, TypeOK
<1>9. CASE UNCHANGED vars
  BY <1>9 DEF vars, TypeOK
<1> QED
  BY <1>1, <1>2, <1>3, <1>4, <1>5, <1>6, <1>7, <1>8, <1>9
     DEF Next, Terminated

(* The decoder's variables keep their types in every behaviour: the two    *)
(* ring indices stay inside the ring, and only known events are queued.    *)
THEOREM TypeCorrect == Spec => []TypeOK
BY InitTypeOK, NextTypeOK, PTL DEF Spec

-------------------------------------------------------------------------------
(* Who runs.                                                               *)

(* The branches of the video thread that look at mRunning find it set: only*)
(* the thread itself clears it, on its way out.                            *)
RunningWhileWorking ==
    Alive /\ vpc \notin {"created", "exit", "done"} => mRunning

(* Abort first, then wait: once stop() has returned the video thread is out*)
(* of the ring, and the aborted queue keeps it out.                        *)
StopOrder ==
    /\ upc # "playing" => mAbortRequest
    /\ upc \in {"stopped", "deleted"} => ~InRing

(* The event thread is created by the video thread.                        *)
SpawnOrder == vpc \in {"created", "prepare", "spawn"} => epc = "none"

ArmOrder == vpc \notin {"created", "prepare", "spawn", "exit", "done"} => epc # "none"

ControlInv == RunningWhileWorking /\ StopOrder /\ SpawnOrder /\ ArmOrder

LEMMA InitControl == Init => ControlInv
BY DEF Init, ControlInv, RunningWhileWorking, StopOrder, SpawnOrder,
       ArmOrder, InRing

LEMMA NextControl ==
    ASSUME TypeOK, ControlInv, [Next]_vars
    PROVE  ControlInv'
<1> USE DEF ControlInv, RunningWhileWorking, StopOrder, SpawnOrder, ArmOrder,
            InRing, Alive, eventVars
<1>1. CASE Enqueue
  BY <1>1 DEF Enqueue, videoVars
<1>2. CASE VideoStep
  <2> USE <1>2 DEF VideoStep
  <2>1. CASE VideoSetup
    BY <2>1 DEF VideoSetup, Begin, Prepare, decoderVars
  <2>2. CASE Spawn
    BY <2>2 DEF Spawn, decoderVars
  <2>3. CASE Arm
    BY <2>3 DEF Arm, decoderVars
  <2>4. CASE VideoLoop
    <3>1. CASE LoopHead
      BY <2>4, <3>1 DEF VideoLoop, LoopHead, decoderVars
    <3>2. CASE GetAborted
      BY <2>4, <3>2 DEF VideoLoop, GetAborted
    <3>3. CASE GetPacket
      BY <2>4, <3>3 DEF VideoLoop, GetPacket, TypeOK
    <3>4. CASE WaitForSlot
      BY <2>4, <3>4 DEF VideoLoop, WaitForSlot, decoderVars
    <3> QED
      BY <2>4, <3>1, <3>2, <3>3, <3>4 DEF VideoLoop
  <2>5. CASE CheckBitmap
    BY <2>5 DEF CheckBitmap, decoderVars
  <2>6. CASE WaitForBitmap
    BY <2>6 DEF WaitForBitmap, decoderVars
  <2>7. CASE Scale
    BY <2>7 DEF Scale, decoderVars
  <2>8. CASE Stamp
    BY <2>8 DEF Stamp, decoderVars
  <2>9. CASE Publish
    BY <2>9 DEF Publish, decoderVars
  <2>10. CASE Finish
    BY <2>10 DEF Finish
  <2> QED
    BY <2>1, <2>2, <2>3, <2>4, <2>5, <2>6, <2>7, <2>8, <2>9, <2>10
<1>3. ASSUME vpc' = AfterSignal(vpc) \/ vpc' = vpc,
             UNCHANGED <<mRunning, mAbortRequest, upc>>,
             epc = "none" <=> epc' = "none"
      PROVE  ControlInv'
  BY <1>3 DEF AfterSignal
<1>4. CASE SpuriousWake
  BY <1>3, <1>4 DEF SpuriousWake, decoderVars
<1>5. CASE EventStep
  <2>1. CASE TakeEvent
    BY <1>3, <1>5, <2>1, HeadType DEF EventStep, TakeEvent, decoderVars
  <2> QED
    BY <1>3, <1>5, <2>1 DEF EventStep, EventLoop, AllocBitmap, AllocDone,
       Refresh, Display, Advance, Consume, decoderVars
<1>6. CASE TimerFires
  BY <1>3, <1>6 DEF TimerFires, decoderVars, videoVars
<1>7. CASE StopCall
  BY <1>7 DEF StopCall, Stop, videoVars
<1>8. CASE Stopping
  BY <1>8 DEF Stopping, Wait, Join, videoVars
<1>9. CASE Delete
  BY <1>9 DEF Delete, AfterSignal
<1>10. CASE UNCHANGED vars
  BY <1>3, <1>10 DEF vars, decoderVars, videoVars
<1> QED
  BY <1>1, <1>2, <1>4, <1>5, <1>6, <1>7, <1>8, <1>9, <1>10
     DEF Next, Terminated

(* Although wait() may skip the join, the decoder is never deleted while   *)
(* the video thread is in the ring or in the bitmap handshake.             *)
THEOREM DeletionSafe == Spec => []DeletedOutsideRing
<1>1. Init => TypeOK /\ ControlInv
  BY InitTypeOK, InitControl
<1>2. (TypeOK /\ ControlInv) /\ [Next]_vars => (TypeOK /\ ControlInv)'
  BY NextTypeOK, NextControl
<1>3. TypeOK /\ ControlInv => DeletedOutsideRing
  BY DEF TypeOK, ControlInv, StopOrder, DeletedOutsideRing, Alive
<1> QED
  BY <1>1, <1>2, <1>3, PTL DEF Spec

-------------------------------------------------------------------------------
(* The indices of the ring.                                                *)

(* Once the video thread has seen room in the ring, there is room until it *)
(* has published: only the event thread changes the size meanwhile, and it *)
(* lowers it.                                                              *)
RoomReserved ==
    vpc \in {"check", "alloc", "allocSleep", "scale", "stamp", "publish"}
        => pictq_size < N

RingInv == RoomReserved /\ RingAgrees

LEMMA FollowingSlotFrom ==
    ASSUME NEW i \in Slots, NEW j \in 0..(N - 1)
    PROVE  Following(SlotFrom(i, j)) = SlotFrom(i, j + 1)
BY DEF Following, SlotFrom, Slots

LEMMA SlotFromFollowing ==
    ASSUME NEW i \in Slots, NEW j \in 1..N
    PROVE  SlotFrom(Following(i), j - 1) = SlotFrom(i, j)
BY DEF Following, SlotFrom, Slots

LEMMA SlotFromInjective ==
    ASSUME NEW i \in Slots, NEW j \in 0..(N - 1), NEW k \in 0..(N - 1),
           SlotFrom(i, j) = SlotFrom(i, k)
    PROVE  j = k
BY DEF SlotFrom, Slots

LEMMA SlotFromType ==
    ASSUME NEW i \in Slots, NEW j \in 0..N
    PROVE  SlotFrom(i, j) \in Slots
BY DEF SlotFrom, Slots

LEMMA InitRing == Init => RingInv
BY DEF Init, RingInv, RoomReserved, RingAgrees, Queued, Slot, SlotFrom, If

(* The steps that leave the ring's three variables alone. *)
LEMMA RingKept ==
    ASSUME TypeOK, RingInv, UNCHANGED ringVars,
           epc' = "consume" <=> epc = "consume",
           vpc' = "publish" <=> vpc = "publish",
           epc' \in {"display", "advance"} => epc \in {"display", "advance"},
           vpc' \in {"check", "alloc", "allocSleep", "scale", "stamp", "publish"}
               => vpc \in {"check", "alloc", "allocSleep", "scale", "stamp", "publish"}
    PROVE  RingInv'
BY DEF RingInv, RoomReserved, RingAgrees, Queued, Slot, SlotFrom, If, ringVars, TypeOK

LEMMA VideoRing ==
    ASSUME TypeOK, ControlInv, RingInv, VideoStep
    PROVE  RingInv'
<1> USE DEF VideoStep
<1> USE DEF ringVars, eventVars
<1>1. CASE VideoSetup
  BY <1>1, RingKept DEF VideoSetup, Begin, Prepare
<1>2. CASE Spawn
  <2>1. epc = "none" /\ epc' = "loop"
    BY <1>2 DEF Spawn, ControlInv, SpawnOrder
  <2> QED
    BY <1>2, <2>1, RingKept DEF Spawn
<1>3. CASE Arm
  BY <1>3, RingKept DEF Arm
<1>4. CASE VideoLoop
  <2>1. CASE LoopHead
    BY <1>4, <2>1, RingKept DEF VideoLoop, LoopHead
  <2>2. CASE GetAborted
    BY <1>4, <2>2, RingKept DEF VideoLoop, GetAborted
  <2>3. CASE GetPacket
    BY <1>4, <2>3, RingKept DEF VideoLoop, GetPacket
  <2>4. CASE WaitForSlot
    BY <1>4, <2>4 DEF VideoLoop, WaitForSlot, RingFull, RingInv, RoomReserved,
       RingAgrees, Queued, Slot, SlotFrom, If, TypeOK
  <2> QED
    BY <1>4, <2>1, <2>2, <2>3, <2>4 DEF VideoLoop
<1>5. CASE CheckBitmap
  BY <1>5, RingKept DEF CheckBitmap
<1>6. CASE WaitForBitmap
  BY <1>6, RingKept DEF WaitForBitmap
<1>7. CASE Scale
  BY <1>7, RingKept DEF Scale
<1>8. CASE Stamp
  <2>1. Queued \in 0..(N - 1) /\ pictq_windex = Slot(Queued)
    BY <1>8 DEF Stamp, RingInv, RoomReserved, RingAgrees, Queued, If, TypeOK
  <2>2. Queued' = Queued /\ pictq_rindex' = pictq_rindex
    BY <1>8 DEF Stamp, Queued
  <2>3. pictq_windex' = SlotFrom(pictq_rindex', Queued' + 1)
    BY <1>8, <2>1, <2>2, FollowingSlotFrom DEF Stamp, Slot, TypeOK
  <2>4. If(vpc' = "publish") = 1 /\ RoomReserved'
    BY <1>8 DEF Stamp, If, RingInv, RoomReserved
  <2> QED
    <3>1. epc' \in {"display", "advance"} => Queued' > 0
      BY <1>8, <2>2 DEF Stamp, RingInv, RingAgrees
    <3> QED
      BY <2>1, <2>2, <2>3, <2>4, <3>1 DEF RingInv, RingAgrees, Slot
<1>9. CASE Publish
  BY <1>9 DEF Publish, RingInv, RoomReserved, RingAgrees, Queued, Slot, SlotFrom, If,
     TypeOK
<1>10. CASE Finish
  BY <1>10, RingKept DEF Finish
<1> QED
  BY <1>1, <1>2, <1>3, <1>4, <1>5, <1>6, <1>7, <1>8, <1>9, <1>10

LEMMA EventRing ==
    ASSUME TypeOK, RingInv, EventStep
    PROVE  RingInv'
<1> USE DEF EventStep, ringVars
<1>1. CASE EventLoop
  BY <1>1, RingKept DEF EventLoop
<1>2. CASE TakeEvent
  <2>1. Head(events).type \in {"alloc", "refresh"}
    BY <1>2, HeadType
  <2> QED
    BY <1>2, <2>1, RingKept DEF TakeEvent
<1>3. CASE AllocBitmap
  BY <1>3, RingKept DEF AllocBitmap
<1>4. CASE AllocDone
  BY <1>4, RingKept DEF AllocDone, AfterSignal
<1>5. CASE Refresh
  BY <1>5 DEF Refresh, RingInv, RoomReserved, RingAgrees, Queued, Slot, SlotFrom, If,
     TypeOK
<1>6. CASE Display
  BY <1>6, RingKept DEF Display
<1>7. CASE Advance
  <2> DEFINE more == If(vpc = "publish")
  <2>1. /\ Queued \in 1..N /\ more \in 0..1 /\ Queued + more \in 1..N
        /\ pictq_windex = SlotFrom(pictq_rindex, Queued + more)
    BY <1>7 DEF Advance, RingInv, RingAgrees, Queued, Slot, If, TypeOK
  <2>2. Queued' = Queued - 1 /\ vpc' = vpc
    BY <1>7 DEF Advance, Queued, If, TypeOK
  <2>3. pictq_windex' = SlotFrom(pictq_rindex', Queued + more - 1)
    BY <1>7, <2>1, SlotFromFollowing DEF Advance, TypeOK
  <2>4. Queued + more - 1 = Queued' + more
    BY <2>1, <2>2
  <2>5. RoomReserved'
    BY <1>7 DEF Advance, RingInv, RoomReserved
  <2>6. epc' = "consume"
    BY <1>7 DEF Advance
  <2> QED
    BY <2>1, <2>2, <2>3, <2>4, <2>5, <2>6 DEF RingInv, RingAgrees, Slot
<1>8. CASE Consume
  <2>1. /\ (vpc = "publish") = (vpc' = "publish")
        /\ vpc' \in {"check", "alloc", "allocSleep", "scale", "stamp", "publish"}
             => vpc \in {"check", "alloc", "allocSleep", "scale", "stamp", "publish"}
    BY <1>8 DEF Consume, AfterSignal
  <2>2. Queued' = Queued
    BY <1>8 DEF Consume, Queued, If, TypeOK
  <2>3. If(vpc' = "publish") = If(vpc = "publish")
    BY <2>1 DEF If
  <2>4. RoomReserved'
    BY <1>8, <2>1 DEF Consume, RingInv, RoomReserved, TypeOK
  <2>5. /\ epc' = "loop"
        /\ pictq_windex' = pictq_windex /\ pictq_rindex' = pictq_rindex
    BY <1>8 DEF Consume
  <2> QED
    BY <2>2, <2>3, <2>4, <2>5 DEF RingInv, RingAgrees, Slot
<1> QED
  BY <1>1, <1>2, <1>3, <1>4, <1>5, <1>6, <1>7, <1>8

LEMMA NextRing ==
    ASSUME TypeOK, ControlInv, RingInv, [Next]_vars
    PROVE  RingInv'
<1> USE DEF ringVars, eventVars, videoVars
<1>1. CASE VideoStep
  BY <1>1, VideoRing
<1>2. CASE EventStep
  BY <1>2, EventRing
<1>3. CASE Enqueue \/ TimerFires
  BY <1>3, RingKept DEF Enqueue, TimerFires
<1>4. CASE SpuriousWake
  BY <1>4, RingKept DEF SpuriousWake, AfterSignal
<1>5. CASE StopCall \/ Stopping
  BY <1>5, RingKept DEF StopCall, Stopping
<1>6. CASE Delete
  BY <1>6, RingKept DEF Delete, AfterSignal
<1>7. CASE UNCHANGED vars
  BY <1>7, RingKept DEF vars
<1> QED
  BY <1>1, <1>2, <1>3, <1>4, <1>5, <1>6, <1>7 DEF Next, Terminated

(* For every ring size the indices and the size, each changed by its own   *)
(* thread, describe one ring of at most N pictures.                        *)
THEOREM RingCorrect == Spec => []RingAgrees
<1>1. Init => TypeOK /\ ControlInv /\ RingInv
  BY InitTypeOK, InitControl, InitRing
<1>2. (TypeOK /\ ControlInv /\ RingInv) /\ [Next]_vars
         => (TypeOK /\ ControlInv /\ RingInv)'
  BY NextTypeOK, NextControl, NextRing
<1>3. TypeOK /\ ControlInv /\ RingInv => RingAgrees
  BY DEF RingInv
<1> QED
  BY <1>1, <1>2, <1>3, PTL DEF Spec

-------------------------------------------------------------------------------
(* The event queue: one refresh chain, one bitmap request.                 *)

(* What the event thread allocates a bitmap for is what was asked for. *)
AskedFor ==
    Alive /\ epc \in {"alloc", "allocDone"} => Asking /\ eslot = pictq_windex

EventsInv == OneRefresh /\ AllocHandshake /\ AskedFor

Quiet == {"loop", "wait", "display", "advance", "consume", "done"}

LEMMA InitEvents == Init => EventsInv
<1> SUFFICES ASSUME Init
             PROVE  EventsInv
  OBVIOUS
<1>1. Len(events) = 0 /\ 1..Len(events) = {}
  BY DEF Init
<1> QED
  BY <1>1 DEF Init, EventsInv, OneRefresh, AllocHandshake, AskedFor, Asking,
     Queues, Armed, If

(* The steps that neither queue nor take an event. *)
LEMMA EventsKept ==
    ASSUME EventsInv, UNCHANGED <<events, timers, eslot, upc>>,
           epc' = epc \/ (epc \in Quiet /\ epc' \in Quiet),
           Armed' <=> Armed, Asking' <=> Asking,
           Asking => pictq_windex' = pictq_windex
    PROVE  EventsInv'
<1> USE DEF EventsInv, Quiet
<1>1. Queues(REFRESH_EVENT)' <=> Queues(REFRESH_EVENT)
  BY DEF Queues
<1>2. OneRefresh'
  <2>1. (epc' = "refresh") <=> (epc = "refresh")
    OBVIOUS
  <2> QED
    BY <1>1, <2>1 DEF OneRefresh, If
<1>3. AskedFor'
  BY DEF AskedFor, Alive
<1>4. AllocHandshake'
  BY DEF AllocHandshake, Queues, Alive
<1> QED
  BY <1>2, <1>3, <1>4

(* Two events are never of the same kind, so the queue holds at most two   *)
(* and a push never overflows it.                                          *)
LEMMA EventKinds ==
    ASSUME TypeOK
    PROVE  \A i \in 1..Len(events) :
              \/ events[i] = REFRESH_EVENT /\ events[i].type = "refresh"
              \/ /\ events[i].type = "alloc"
                 /\ events[i] = ALLOC_EVENT(events[i].slot)
BY DEF TypeOK, Events, ALLOC_EVENT, REFRESH_EVENT

LEMMA KindsDiffer ==
    \A i : ALLOC_EVENT(i) # REFRESH_EVENT /\ ALLOC_EVENT(i).type = "alloc"
           /\ ALLOC_EVENT(i).slot = i
BY DEF ALLOC_EVENT, REFRESH_EVENT

LEMMA PushFits ==
    ASSUME TypeOK, EventsInv, Alive,
           ~Asking \/ ~Queues(REFRESH_EVENT)
    PROVE  Len(events) <= 1
<1>1. SUFFICES ASSUME Len(events) > 1
               PROVE  FALSE
  BY DEF TypeOK
<1>2. 1 \in 1..Len(events) /\ 2 \in 1..Len(events)
  BY <1>1 DEF TypeOK
<1>3. CASE ~Asking
  BY <1>2, <1>3, EventKinds DEF EventsInv, AllocHandshake, OneRefresh
<1>4. CASE ~Queues(REFRESH_EVENT)
  BY <1>2, <1>4, EventKinds DEF EventsInv, AllocHandshake, Queues
<1> QED
  BY <1>3, <1>4

LEMMA CheckBitmapEvents ==
    ASSUME TypeOK, EventsInv, VideoStep, CheckBitmap
    PROVE  EventsInv'
<1>0. Alive /\ vpc = "check" /\ ~Asking /\ UNCHANGED <<timers, epc, eslot, upc, pictq_windex>>
  BY DEF VideoStep, CheckBitmap, Asking, eventVars, ringVars
<1>1. CASE BitmapFits(pictq_windex)
  <2>1. vpc' = "scale" /\ events' = events
    BY <1>1 DEF CheckBitmap
  <2> QED
    BY <1>0, <2>1, EventsKept DEF Asking, Armed
<1>2. CASE ~BitmapFits(pictq_windex)
  <2> DEFINE L == Len(events)
  <2>1. L <= 1 /\ L \in Nat
    BY <1>0, PushFits DEF TypeOK
  <2>2. events' = Append(events, ALLOC_EVENT(pictq_windex))
    BY <1>2, <2>1 DEF CheckBitmap, Pushed
  <2>3. /\ Len(events') = L + 1
        /\ events'[L + 1] = ALLOC_EVENT(pictq_windex)
        /\ \A i \in 1..L : events'[i] = events[i]
    BY <2>1, <2>2 DEF TypeOK
  <2>4. vpc' = "alloc" /\ Asking'
    BY <1>0, <1>2 DEF CheckBitmap, AllocatedWhenAsking, Asking, TypeOK
  <2>5. \A i \in 1..L : events[i].type # "alloc"
    BY <1>0 DEF EventsInv, AllocHandshake
  <2>6. Queues(REFRESH_EVENT)' <=> Queues(REFRESH_EVENT)
    BY <2>1, <2>3, KindsDiffer DEF Queues
  <2>7. OneRefresh'
    <3>1. Armed' <=> Armed
      BY <1>0, <2>4 DEF Armed
    <3>2. timers' + If(Queues(REFRESH_EVENT)') + If(epc' = "refresh") = If(Armed')
      BY <1>0, <2>6, <3>1 DEF EventsInv, OneRefresh, If
    <3>3. \A i, j \in 1..Len(events') :
             events'[i] = REFRESH_EVENT /\ events'[j] = REFRESH_EVENT => i = j
      BY <2>1, <2>3, KindsDiffer DEF EventsInv, OneRefresh
    <3> QED
      BY <3>2, <3>3 DEF OneRefresh, REFRESH_EVENT
  <2>8. AskedFor'
    BY <1>0, <2>4 DEF EventsInv, AskedFor, Alive
  <2>9. AllocHandshake'
    <3>1. epc' \notin {"alloc", "allocDone"}
      BY <1>0 DEF EventsInv, AskedFor
    <3>2. \A i \in 1..Len(events') : events'[i].type = "alloc" => i = L + 1
      BY <2>1, <2>3, <2>5
    <3>3. events'[L + 1].slot = pictq_windex'
      BY <1>0, <2>3, KindsDiffer
    <3>4. \E i \in 1..Len(events') : events'[i] = ALLOC_EVENT(pictq_windex')
      BY <1>0, <2>1, <2>3
    <3> QED
      BY <2>4, <3>1, <3>2, <3>3, <3>4 DEF AllocHandshake, Queues, ALLOC_EVENT
  <2> QED
    BY <2>7, <2>8, <2>9 DEF EventsInv
<1> QED
  BY <1>1, <1>2

LEMMA TimerEvents ==
    ASSUME TypeOK, EventsInv, TimerFires
    PROVE  EventsInv'
<1> DEFINE L == Len(events)
<1>0. /\ Alive /\ timers > 0 /\ timers' = timers - 1 /\ timers \in Nat
      /\ UNCHANGED <<epc, eslot, upc, vpc, pictq_windex, allocated>>
  BY DEF TimerFires, eventVars, videoVars, ringVars, slotVars, bitmapVars, TypeOK
<1>1. ~Queues(REFRESH_EVENT) /\ epc # "refresh" /\ timers = 1 /\ Armed
  BY <1>0 DEF EventsInv, OneRefresh, If
<1>2. L <= 1 /\ L \in Nat
  BY <1>0, <1>1, PushFits DEF TypeOK
<1>3. events' = Append(events, REFRESH_EVENT)
  BY <1>2 DEF TimerFires, Pushed
<1>4. /\ Len(events') = L + 1
      /\ events'[L + 1] = REFRESH_EVENT
      /\ \A i \in 1..L : events'[i] = events[i]
  BY <1>2, <1>3, EventTypes DEF TypeOK
<1>5. OneRefresh'
  <2>1. Queues(REFRESH_EVENT)'
    BY <1>2, <1>4 DEF Queues, REFRESH_EVENT
  <2>2. Armed'
    BY <1>0, <1>1 DEF Armed
  <2>3. timers' + If(Queues(REFRESH_EVENT)') + If(epc' = "refresh") = If(Armed')
    BY <1>0, <1>1, <2>1, <2>2 DEF If
  <2>4. \A i \in 1..L : events'[i] # REFRESH_EVENT
    BY <1>1, <1>4 DEF Queues
  <2> QED
    BY <1>2, <1>4, <2>3, <2>4 DEF OneRefresh, REFRESH_EVENT
<1>6. AskedFor'
  BY <1>0 DEF EventsInv, AskedFor, Asking, Alive
<1>7. AllocHandshake'
  <2>1. Asking' <=> Asking
    BY <1>0 DEF Asking
  <2>2. \A i \in 1..Len(events') : events'[i].type = "alloc" => i \in 1..L
    BY <1>2, <1>4 DEF REFRESH_EVENT
  <2>3. Queues(ALLOC_EVENT(pictq_windex))' <=> Queues(ALLOC_EVENT(pictq_windex))
    BY <1>0, <1>2, <1>4, KindsDiffer DEF Queues, ALLOC_EVENT
  <2> QED
    BY <1>0, <1>4, <2>1, <2>2, <2>3 DEF EventsInv, AllocHandshake, Alive
<1> QED
  BY <1>5, <1>6, <1>7 DEF EventsInv

LEMMA TakeEventEvents ==
    ASSUME TypeOK, ControlInv, EventsInv, EventStep, TakeEvent
    PROVE  EventsInv'
<1> DEFINE L == Len(events)
<1>0. /\ Alive /\ epc = "wait"
      /\ UNCHANGED <<timers, vpc, upc, pictq_windex, allocated>>
      /\ Alive' /\ (Asking' <=> Asking) /\ Armed /\ Armed'
  <2>1. Head(events).type # "none"
    BY HeadType
  <2>2. vpc # "arm"
    <3>1. 1 \in 1..Len(events)
      BY DEF TakeEvent, TypeOK
    <3>2. vpc = "arm" => ~Asking /\ ~Armed
      BY DEF Asking, Armed
    <3>3. ~Armed => ~Queues(REFRESH_EVENT)
      BY DEF EventsInv, OneRefresh, If, TypeOK
    <3> QED
      BY <3>1, <3>2, <3>3, EventKinds
         DEF EventsInv, AllocHandshake, EventStep, Queues
  <2> QED
    BY <2>1, <2>2
       DEF EventStep, TakeEvent, ringVars, slotVars, bitmapVars, Alive, Asking, Armed
<1>1. L \in Nat /\ L > 0 /\ Head(events) = events[1] /\ 1 \in 1..L
  BY DEF TakeEvent, TypeOK
<1>2. /\ Len(events') = L - 1
      /\ \A i \in 1..(L - 1) : events'[i] = events[i + 1] /\ i + 1 \in 1..L
  BY <1>1 DEF TakeEvent, TypeOK
<1>3. epc' = events[1].type /\ eslot' = events[1].slot
  BY <1>1 DEF TakeEvent
<1>4. \A i \in 2..L : i - 1 \in 1..(L - 1) /\ events'[i - 1] = events[i]
  BY <1>1, <1>2
<1>5. \A i, j \in 1..(L - 1) :
         /\ events'[i] = REFRESH_EVENT /\ events'[j] = REFRESH_EVENT => i = j
         /\ events'[i].type = "alloc" /\ events'[j].type = "alloc" => i = j
  <2>1. \A i, j \in 1..L :
           /\ events[i] = REFRESH_EVENT /\ events[j] = REFRESH_EVENT => i = j
           /\ events[i].type = "alloc" /\ events[j].type = "alloc" => i = j
    BY <1>0 DEF EventsInv, OneRefresh, AllocHandshake
  <2> TAKE i, j \in 1..(L - 1)
  <2>2. /\ events'[i] = events[i + 1] /\ i + 1 \in 1..L
        /\ events'[j] = events[j + 1] /\ j + 1 \in 1..L
    BY <1>2
  <2>3. i + 1 = j + 1 => i = j
    BY <1>1
  <2> QED
    BY <2>1, <2>2, <2>3
<1>6. \A i \in 1..(L - 1) :
         events'[i].type = "alloc" => Asking' /\ events'[i].slot = pictq_windex'
  BY <1>0, <1>2 DEF EventsInv, AllocHandshake
<1>7. CASE events[1] = REFRESH_EVENT
  <2>1. epc' = "refresh"
    BY <1>3, <1>7 DEF REFRESH_EVENT
  <2>2. ~Queues(REFRESH_EVENT)'
    BY <1>1, <1>2, <1>7 DEF EventsInv, OneRefresh, Queues, REFRESH_EVENT
  <2>3. Queues(REFRESH_EVENT)
    BY <1>1, <1>7 DEF Queues
  <2>4. OneRefresh'
    <3>1. timers' + If(Queues(REFRESH_EVENT)') + If(epc' = "refresh") = If(Armed')
      BY <1>0, <2>1, <2>2, <2>3 DEF EventsInv, OneRefresh, If, TypeOK
    <3> QED
      BY <1>2, <1>5, <3>1 DEF OneRefresh, REFRESH_EVENT
  <2>5. AskedFor'
    BY <2>1 DEF AskedFor
  <2>6. Queues(ALLOC_EVENT(pictq_windex))' <=> Queues(ALLOC_EVENT(pictq_windex))
    BY <1>0, <1>1, <1>2, <1>4, <1>7, KindsDiffer DEF Queues, ALLOC_EVENT
  <2>7. AllocHandshake'
    BY <1>0, <1>2, <1>5, <1>6, <2>1, <2>6 DEF EventsInv, AllocHandshake
  <2> QED
    BY <2>4, <2>5, <2>7 DEF EventsInv
<1>8. CASE events[1].type = "alloc"
  <2>1. epc' = "alloc" /\ eslot' = pictq_windex' /\ Asking'
    BY <1>0, <1>1, <1>3, <1>8 DEF EventsInv, AllocHandshake
  <2>2. \A i \in 1..(L - 1) : events'[i].type # "alloc"
    BY <1>0, <1>1, <1>2, <1>8 DEF EventsInv, AllocHandshake
  <2>3. Queues(REFRESH_EVENT)' <=> Queues(REFRESH_EVENT)
    <3>1. events[1] # REFRESH_EVENT
      BY <1>8 DEF REFRESH_EVENT
    <3> QED
      BY <1>1, <1>2, <1>4, <3>1 DEF Queues, REFRESH_EVENT
  <2>4. OneRefresh'
    <3>1. timers' + If(Queues(REFRESH_EVENT)') + If(epc' = "refresh") = If(Armed')
      BY <1>0, <2>1, <2>3 DEF EventsInv, OneRefresh, If
    <3> QED
      BY <1>2, <1>5, <3>1 DEF OneRefresh, REFRESH_EVENT
  <2>5. AskedFor'
    BY <2>1 DEF AskedFor
  <2>6. ~Queues(ALLOC_EVENT(pictq_windex))'
    BY <1>2, <2>2, KindsDiffer DEF Queues, ALLOC_EVENT
  <2>7. AllocHandshake'
    BY <1>0, <1>2, <1>5, <1>6, <2>1, <2>6 DEF AllocHandshake
  <2> QED
    BY <2>4, <2>5, <2>7 DEF EventsInv
<1> QED
  BY <1>1, <1>7, <1>8, EventKinds

LEMMA AllocDoneEvents ==
    ASSUME TypeOK, EventsInv, EventStep, AllocDone
    PROVE  EventsInv'
<1>0. /\ Alive /\ epc = "allocDone" /\ epc' = "loop" /\ Asking
      /\ eslot = pictq_windex /\ UNCHANGED <<timers, events, pictq_windex, upc>>
  BY DEF EventStep, AllocDone, EventsInv, AskedFor, sdlVars, ringVars
<1>1. ~Asking'
  BY <1>0 DEF AllocDone, Asking, TypeOK
<1>2. Armed' <=> Armed
  BY <1>0 DEF AllocDone, AfterSignal, Armed, Asking
<1>3. \A i \in 1..Len(events) : events[i].type # "alloc"
  BY <1>0, EventKinds DEF EventsInv, AllocHandshake, Queues
<1>4. OneRefresh'
  BY <1>0, <1>2 DEF EventsInv, OneRefresh, Queues, If
<1>5. AllocHandshake'
  BY <1>0, <1>1, <1>3 DEF AllocHandshake
<1>6. AskedFor'
  BY <1>0 DEF AskedFor
<1> QED
  BY <1>4, <1>5, <1>6 DEF EventsInv

LEMMA RefreshEvents ==
    ASSUME TypeOK, EventsInv, EventStep, Refresh
    PROVE  EventsInv'
<1>0. /\ epc = "refresh" /\ epc' \in {"loop", "display"}
      /\ timers' = timers + 1 /\ timers \in Nat
      /\ UNCHANGED <<events, vpc, upc, pictq_windex, allocated>>
  BY DEF EventStep, Refresh, TimersAfterRefresh, ringVars, slotVars, bitmapVars, TypeOK
<1>1. (Asking' <=> Asking) /\ (Armed' <=> Armed) /\ (Alive' <=> Alive)
  BY <1>0 DEF Asking, Armed, Alive
<1>2. OneRefresh'
  <2>1. timers' + If(Queues(REFRESH_EVENT)') + If(epc' = "refresh") = If(Armed')
    BY <1>0, <1>1 DEF EventsInv, OneRefresh, Queues, If
  <2> QED
    BY <1>0, <2>1 DEF EventsInv, OneRefresh
<1>3. AllocHandshake'
  BY <1>0, <1>1 DEF EventsInv, AllocHandshake, Queues
<1>4. AskedFor'
  BY <1>0 DEF AskedFor
<1> QED
  BY <1>2, <1>3, <1>4 DEF EventsInv

LEMMA VideoEvents ==
    ASSUME TypeOK, ControlInv, EventsInv, VideoStep
    PROVE  EventsInv'
<1> USE DEF VideoStep, eventVars, sdlVars, ringVars, slotVars, bitmapVars
<1>1. CASE VideoSetup
  <2>1. epc = "none"
    BY <1>1 DEF VideoSetup, Begin, Prepare, ControlInv, SpawnOrder
  <2>2. (Asking' <=> Asking) /\ (Armed' <=> Armed)
    BY <1>1, <2>1 DEF VideoSetup, Begin, Prepare, Asking, Armed
  <2> QED
    BY <1>1, <2>2, EventsKept DEF VideoSetup, Begin, Prepare
<1>2. CASE Spawn
  <2>1. epc = "none" /\ epc' = "loop" /\ ~Asking /\ ~Asking' /\ ~Armed /\ ~Armed'
    BY <1>2 DEF Spawn, ControlInv, SpawnOrder, Asking, Armed
  <2>2. UNCHANGED <<events, timers, upc>>
    BY <1>2 DEF Spawn
  <2>3. OneRefresh'
    BY <2>1, <2>2 DEF EventsInv, OneRefresh, Queues, If
  <2>4. AllocHandshake' /\ AskedFor'
    BY <2>1, <2>2 DEF EventsInv, AllocHandshake, AskedFor, Alive
  <2> QED
    BY <2>3, <2>4 DEF EventsInv
<1>3. CASE Arm
  <2>1. ~Asking /\ ~Asking' /\ ~Armed /\ UNCHANGED <<events, epc, upc, eslot>>
    BY <1>3 DEF Arm, Asking, Armed
  <2>2. timers \in Nat /\ timers' = timers + 1
    BY <1>3 DEF Arm, TypeOK
  <2>3. epc # "none" /\ Armed'
    BY <1>3 DEF Arm, ControlInv, ArmOrder, Armed
  <2>4. OneRefresh'
    <3>1. timers' + If(Queues(REFRESH_EVENT)') + If(epc' = "refresh") = If(Armed')
      BY <2>1, <2>2, <2>3 DEF EventsInv, OneRefresh, Queues, If
    <3> QED
      BY <2>1, <3>1 DEF EventsInv, OneRefresh
  <2>5. AllocHandshake' /\ AskedFor'
    BY <2>1 DEF EventsInv, AllocHandshake, AskedFor, Alive
  <2> QED
    BY <2>4, <2>5 DEF EventsInv
<1>4. CASE VideoLoop
  <2>1. (Asking' <=> Asking) /\ (Armed' <=> Armed)
    BY <1>4 DEF VideoLoop, LoopHead, GetAborted, GetPacket, WaitForSlot,
                Asking, Armed
  <2> QED
    BY <1>4, <2>1, EventsKept DEF VideoLoop
<1>5. CASE CheckBitmap
  BY <1>5, CheckBitmapEvents
<1>6. CASE WaitForBitmap
  <2>1. (Asking' <=> Asking) /\ (Armed' <=> Armed)
    BY <1>6 DEF WaitForBitmap, ControlInv, RunningWhileWorking, Asking, Armed
  <2> QED
    BY <1>6, <2>1, EventsKept DEF WaitForBitmap
<1>7. CASE Scale \/ Stamp \/ Publish \/ Finish
  <2>1. ~Asking /\ ~Asking' /\ (Armed' <=> Armed)
    BY <1>7 DEF Scale, Stamp, Publish, Finish, Asking, Armed
  <2> QED
    BY <1>7, <2>1, EventsKept DEF Scale, Stamp, Publish, Finish
<1> QED
  BY <1>1, <1>2, <1>3, <1>4, <1>5, <1>6, <1>7

LEMMA EventEvents ==
    ASSUME TypeOK, ControlInv, EventsInv, EventStep
    PROVE  EventsInv'
<1> USE DEF EventStep, sdlVars, ringVars, slotVars, bitmapVars
<1>1. CASE EventLoop
  BY <1>1, EventsKept DEF EventLoop, Quiet, Asking, Armed
<1>2. CASE TakeEvent
  BY <1>2, TakeEventEvents
<1>3. CASE AllocBitmap
  <2>1. UNCHANGED <<events, timers, eslot, upc, allocated, pictq_windex, vpc>>
    BY <1>3 DEF AllocBitmap
  <2>2. epc = "alloc" /\ epc' = "allocDone"
    BY <1>3 DEF AllocBitmap
  <2>3. (Asking' <=> Asking) /\ (Armed' <=> Armed) /\ (Alive' <=> Alive)
    BY <2>1, <2>2 DEF Asking, Armed, Alive
  <2>4. OneRefresh'
    BY <2>1, <2>2, <2>3 DEF EventsInv, OneRefresh, Queues, If
  <2>5. AllocHandshake' /\ AskedFor'
    BY <2>1, <2>2, <2>3 DEF EventsInv, AllocHandshake, AskedFor, Queues
  <2> QED
    BY <2>4, <2>5 DEF EventsInv
<1>4. CASE AllocDone
  BY <1>4, AllocDoneEvents
<1>5. CASE Refresh
  BY <1>5, RefreshEvents
<1>6. CASE Display
  BY <1>6, EventsKept DEF Display, Quiet, Asking, Armed
<1>7. CASE Advance
  BY <1>7, EventsKept DEF Advance, Quiet, Asking, Armed
<1>8. CASE Consume
  <2>1. (Asking' <=> Asking) /\ (Armed' <=> Armed)
    BY <1>8 DEF Consume, AfterSignal, Asking, Armed
  <2> QED
    BY <1>8, <2>1, EventsKept DEF Consume, Quiet
<1> QED
  BY <1>1, <1>2, <1>3, <1>4, <1>5, <1>6, <1>7, <1>8

LEMMA NextEvents ==
    ASSUME TypeOK, ControlInv, EventsInv, [Next]_vars
    PROVE  EventsInv'
<1> USE DEF eventVars, sdlVars, ringVars, slotVars, bitmapVars, videoVars
<1>1. CASE VideoStep
  BY <1>1, VideoEvents
<1>2. CASE EventStep
  BY <1>2, EventEvents
<1>3. CASE TimerFires
  BY <1>3, TimerEvents
<1>4. CASE Enqueue
  BY <1>4, EventsKept DEF Enqueue, Asking, Armed
<1>5. CASE SpuriousWake
  <2>1. (Asking' <=> Asking) /\ (Armed' <=> Armed)
    BY <1>5 DEF SpuriousWake, AfterSignal, Asking, Armed
  <2> QED
    BY <1>5, <2>1, EventsKept DEF SpuriousWake
<1>6. CASE StopCall \/ Stopping \/ Delete
  <2>1. (Asking' <=> Asking) /\ (Armed' <=> Armed)
    BY <1>6 DEF StopCall, Stopping, Delete, AfterSignal, Asking, Armed
  <2>2. UNCHANGED <<events, timers, epc, eslot, pictq_windex>>
    BY <1>6 DEF StopCall, Stopping, Delete
  <2>3. Alive
    BY <1>6 DEF StopCall, Stop, Stopping, Wait, Join, Delete, Alive
  <2>4. OneRefresh'
    BY <2>1, <2>2 DEF EventsInv, OneRefresh, Queues, If
  <2>5. AllocHandshake' /\ AskedFor'
    BY <2>1, <2>2, <2>3 DEF EventsInv, AllocHandshake, AskedFor, Queues
  <2> QED
    BY <2>4, <2>5 DEF EventsInv
<1>7. CASE UNCHANGED vars
  BY <1>7, EventsKept DEF vars, Asking, Armed
<1> QED
  BY <1>1, <1>2, <1>3, <1>4, <1>5, <1>6, <1>7 DEF Next, Terminated

LEMMA InitTypeControlEvents == Init => TypeOK /\ ControlInv /\ EventsInv
BY InitTypeOK, InitControl, InitEvents

LEMMA NextTypeControlEvents ==
    (TypeOK /\ ControlInv /\ EventsInv) /\ [Next]_vars
        => (TypeOK /\ ControlInv /\ EventsInv)'
BY NextTypeOK, NextControl, NextEvents

(* The chain of one-shot timers neither breaks nor splits, for every queue *)
(* capacity of at least two: no refresh is ever dropped.                   *)
THEOREM RefreshChain == Spec => []OneRefresh
<1>1. TypeOK /\ ControlInv /\ EventsInv => OneRefresh
  BY DEF EventsInv
<1> QED
  BY InitTypeControlEvents, NextTypeControlEvents, <1>1, PTL DEF Spec

(* A video thread waiting for its bitmap has exactly one request under way,*)
(* and no stale request or answer of an earlier handshake is ever around.  *)
THEOREM HandshakeCorrect == Spec => []AllocHandshake
<1>1. TypeOK /\ ControlInv /\ EventsInv => AllocHandshake
  BY DEF EventsInv
<1> QED
  BY InitTypeControlEvents, NextTypeControlEvents, <1>1, PTL DEF Spec

-------------------------------------------------------------------------------
(* Bitmaps.                                                                *)

(* From the moment the event thread has allocated the bitmap asked for,    *)
(* it fits, and stays so until the picture is scaled.                      *)
BitmapInv ==
    Alive =>
       /\ vpc = "scale" => bmp[pictq_windex] = dim
       /\ vpc \in {"alloc", "allocSleep"} /\ allocated[pictq_windex]
             => bmp[pictq_windex] = dim
       /\ epc = "allocDone" => bmp[eslot] = dim

LEMMA InitBitmap == Init => BitmapInv
BY DEF Init, BitmapInv

LEMMA BitmapKept ==
    ASSUME BitmapInv, UNCHANGED <<bitmapVars, allocated, eslot, dim, upc, pictq_windex>>,
           epc' = "allocDone" => epc = "allocDone",
           vpc' = "scale" => vpc = "scale",
           vpc' \in {"alloc", "allocSleep"} => vpc \in {"alloc", "allocSleep"}
    PROVE  BitmapInv'
BY DEF BitmapInv, Alive, bitmapVars

LEMMA NextBitmap ==
    ASSUME TypeOK, ControlInv, EventsInv, BitmapInv, [Next]_vars
    PROVE  BitmapInv'
<1> USE DEF eventVars, sdlVars, ringVars, slotVars, bitmapVars, videoVars
<1>1. CASE VideoStep
  <2> USE <1>1 DEF VideoStep
  <2>1. CASE VideoSetup
    BY <2>1, BitmapKept DEF VideoSetup, Begin, Prepare
  <2>2. CASE Spawn
    BY <2>2, BitmapKept DEF Spawn
  <2>3. CASE Arm
    BY <2>3, BitmapKept DEF Arm
  <2>4. CASE VideoLoop
    <3>1. CASE LoopHead \/ GetAborted \/ WaitForSlot
      BY <2>4, <3>1, BitmapKept DEF VideoLoop, LoopHead, GetAborted, WaitForSlot
    <3>2. CASE GetPacket
      <4>1. Alive => epc # "allocDone"
        BY <3>2 DEF GetPacket, EventsInv, AskedFor, Asking
      <4> QED
        BY <2>4, <3>2, <4>1 DEF VideoLoop, GetPacket, BitmapInv, Alive
    <3> QED
      BY <2>4, <3>1, <3>2 DEF VideoLoop
  <2>5. CASE CheckBitmap
    <3>1. Alive => epc # "allocDone"
      BY <2>5 DEF CheckBitmap, EventsInv, AskedFor, Asking
    <3> QED
      BY <2>5, <3>1 DEF CheckBitmap, AllocatedWhenAsking, BitmapFits,
         BitmapInv, Alive, TypeOK
  <2>6. CASE WaitForBitmap
    BY <2>6 DEF WaitForBitmap, ControlInv, RunningWhileWorking, BitmapInv, Alive
  <2>7. CASE Scale
    BY <2>7 DEF Scale, BitmapInv, Alive
  <2>8. CASE Stamp
    BY <2>8 DEF Stamp, BitmapInv, Alive, bitmapVars
  <2>9. CASE Publish
    BY <2>9, BitmapKept DEF Publish
  <2>10. CASE Finish
    BY <2>10, BitmapKept DEF Finish
  <2> QED
    BY <2>1, <2>2, <2>3, <2>4, <2>5, <2>6, <2>7, <2>8, <2>9, <2>10
<1>2. CASE EventStep
  <2> USE <1>2 DEF EventStep
  <2>1. CASE EventLoop \/ Refresh \/ Display \/ Advance
    BY <2>1, BitmapKept DEF EventLoop, Refresh, Display, Advance
  <2>2. CASE TakeEvent
    BY <2>2, HeadType DEF TakeEvent, BitmapInv, Alive
  <2>3. CASE AllocBitmap
    <3>1. /\ epc = "alloc" /\ Asking /\ eslot = pictq_windex
          /\ UNCHANGED <<allocated, eslot, dim, upc, pictq_windex, vpc>>
      BY <2>3 DEF AllocBitmap, EventsInv, AskedFor
    <3>2. bmp'[eslot] = dim
      BY <2>3 DEF AllocBitmap, TypeOK
    <3> QED
      BY <3>1, <3>2 DEF BitmapInv, Asking
  <2>4. CASE AllocDone
    <3>1. /\ epc = "allocDone" /\ epc' = "loop" /\ Asking /\ eslot = pictq_windex
          /\ UNCHANGED <<bitmapVars, dim, upc, pictq_windex>>
      BY <2>4 DEF AllocDone, EventsInv, AskedFor
    <3>2. bmp[pictq_windex] = dim
      BY <2>4, <3>1 DEF BitmapInv
    <3> QED
      BY <3>1, <3>2 DEF BitmapInv
  <2>5. CASE Consume
    BY <2>5, BitmapKept DEF Consume, AfterSignal
  <2> QED
    BY <2>1, <2>2, <2>3, <2>4, <2>5
<1>3. CASE Enqueue \/ TimerFires
  BY <1>3, BitmapKept DEF Enqueue, TimerFires
<1>4. CASE SpuriousWake
  BY <1>4, BitmapKept DEF SpuriousWake, AfterSignal
<1>5. CASE StopCall \/ Stopping
  <2>1. Alive
    BY <1>5 DEF StopCall, Stop, Stopping, Wait, Join, Alive
  <2> QED
    BY <1>5, <2>1 DEF StopCall, Stopping, BitmapInv
<1>6. CASE Delete
  BY <1>6 DEF Delete, BitmapInv, Alive
<1>7. CASE UNCHANGED vars
  BY <1>7, BitmapKept DEF vars
<1> QED
  BY <1>1, <1>2, <1>3, <1>4, <1>5, <1>6, <1>7 DEF Next, Terminated

-------------------------------------------------------------------------------
(* Pictures.                                                               *)

LEMMA SlotFacts ==
    ASSUME TypeOK
    PROVE  /\ Slot(0) = pictq_rindex
           /\ \A j \in 0..N : Slot(j) \in Slots
           /\ \A j, k \in 0..(N - 1) : Slot(j) = Slot(k) => j = k
<1>1. pictq_rindex \in Slots
  BY DEF TypeOK
<1>2. Slot(0) = pictq_rindex
  BY <1>1 DEF Slot, SlotFrom, Slots
<1> QED
  BY <1>1, <1>2, SlotFromType, SlotFromInjective DEF Slot

(* Where the video thread writes while it has room. *)
LEMMA WriteSlot ==
    ASSUME TypeOK, RingInv,
           vpc \in {"check", "alloc", "allocSleep", "scale", "stamp"}
    PROVE  /\ Queued \in 0..(N - 1)
           /\ pictq_windex = Slot(Queued)
           /\ \A j \in 0..(Queued - 1) : Slot(j) # pictq_windex
<1>1. Queued \in 0..(N - 1) /\ pictq_windex = Slot(Queued)
  BY DEF RingInv, RoomReserved, RingAgrees, Queued, If, TypeOK
<1>2. \A j \in 0..(Queued - 1) : j \in 0..(N - 1) /\ j # Queued
  BY <1>1
<1> QED
  BY <1>1, <1>2, SlotFacts

LEMMA ExclusiveSlots ==
    ASSUME TypeOK, RingInv, EventsInv
    PROVE  SlotExclusive
<1>1. ASSUME vpc \in {"check", "scale", "stamp"}, epc \in {"display", "advance"}
      PROVE  pictq_windex # pictq_rindex
  <2>1. Queued > 0 /\ 0 \in 0..(Queued - 1)
    BY <1>1, WriteSlot DEF RingInv, RingAgrees
  <2> QED
    BY <1>1, <2>1, WriteSlot, SlotFacts
<1>2. epc \in {"alloc", "allocDone"} /\ Alive
         => vpc \in {"alloc", "allocSleep"} /\ eslot = pictq_windex
  BY DEF EventsInv, AskedFor, Asking
<1> QED
  BY <1>1, <1>2 DEF SlotExclusive

LEMMA InitPictures == Init => PicturesInRing
<1> SUFFICES ASSUME Init
             PROVE  PicturesInRing
  OBVIOUS
<1>1. /\ Filled = 0 /\ Queued = 0 /\ First = 1 /\ made = 0
      /\ epc # "display" /\ If(vpc = "publish") = 0
  BY DEF Init, Filled, Queued, First, If
<1>2. 0..(Filled - 1) = {} /\ 0..(Queued + If(vpc = "publish") - 1) = {}
  BY <1>1
<1> QED
  BY <1>1, <1>2 DEF PicturesInRing

LEMMA PicturesKept ==
    ASSUME PicturesInRing,
           UNCHANGED <<made, image, pts, bitmapVars, upc, pictq_rindex, pictq_size,
                       shown, video_current_pts>>,
           epc' = "consume" <=> epc = "consume",
           epc' = "advance" <=> epc = "advance",
           epc' = "display" => epc = "display",
           vpc' = "publish" <=> vpc = "publish",
           vpc' = "stamp" <=> vpc = "stamp"
    PROVE  PicturesInRing'
<1> USE DEF bitmapVars, InBitmap
<1>1. Queued' = Queued /\ First' = First
  BY DEF Queued, First, If
<1>2. Filled' = Filled
  BY <1>1 DEF Filled, If
<1>3. If(vpc' = "publish") = If(vpc = "publish") /\ (Alive' <=> Alive)
  BY DEF If, Alive
<1>4. \A j : Slot(j)' = Slot(j)
  BY DEF Slot
<1> QED
  BY <1>1, <1>2, <1>3, <1>4 DEF PicturesInRing

(* A picture is scaled into the first slot that holds none. *)
LEMMA ScalePictures ==
    ASSUME TypeOK, RingInv, BitmapInv, PicturesInRing, VideoStep, Scale
    PROVE  PicturesInRing'
<1> USE DEF ringVars, eventVars, bitmapVars, InBitmap
<1>1. /\ Queued \in 0..(N - 1) /\ pictq_windex = Slot(Queued)
      /\ \A j \in 0..(Queued - 1) : Slot(j) # pictq_windex
      /\ pictq_windex \in Slots
  BY WriteSlot DEF Scale, TypeOK
<1>2. CASE bmp[pictq_windex] = NoBmp
  BY <1>2, PicturesKept DEF Scale, VideoStep
<1>3. CASE bmp[pictq_windex] # NoBmp
  <2>1. /\ vpc = "scale" /\ vpc' = "stamp" /\ made' = made + 1
        /\ image' = [image EXCEPT ![pictq_windex] = made + 1]
        /\ whole' = [whole EXCEPT ![pictq_windex] = Converts(pictq_windex)]
        /\ UNCHANGED <<bmp, room, img_convert_ctx, dim, pts, epc, shown,
                       video_current_pts, upc, pictq_size, pictq_rindex>>
    BY <1>3 DEF Scale, VideoStep
  <2>2. /\ Queued' = Queued /\ First' = First
        /\ Filled = Queued /\ Filled' = Queued + 1
        /\ If(vpc' = "publish") = 0 /\ If(vpc = "publish") = 0
        /\ \A j : Slot(j)' = Slot(j)
    BY <1>1, <2>1 DEF Queued, First, Filled, If, Slot
  <2>3. made + 1 = First + Queued
    BY <2>2 DEF PicturesInRing
  <2>4. First \in Int /\ made \in Nat
    BY DEF First, TypeOK
  <2>5. \A j \in 0..Queued : image'[Slot(j)] = First + j
    <3> TAKE j \in 0..Queued
    <3>1. CASE j = Queued
      BY <1>1, <2>1, <2>3, <3>1 DEF TypeOK
    <3>2. CASE j # Queued
      <4>1. j \in 0..(Queued - 1) /\ j \in 0..N
        BY <1>1, <3>2
      <4>2. Slot(j) \in Slots /\ Slot(j) # pictq_windex
        BY <1>1, <4>1, SlotFacts
      <4> QED
        BY <2>1, <2>2, <4>1, <4>2 DEF PicturesInRing, TypeOK
    <3> QED
      BY <3>1, <3>2
  <2>6. Alive => \A j \in 0..Queued :
                    /\ bmp[Slot(j)] # NoBmp
                    /\ whole'[Slot(j)] <=> /\ room[Slot(j)]
                                           /\ bmp[Slot(j)] = img_convert_ctx
    <3> SUFFICES ASSUME Alive, NEW j \in 0..Queued
                 PROVE  /\ bmp[Slot(j)] # NoBmp
                        /\ whole'[Slot(j)] <=> /\ room[Slot(j)]
                                               /\ bmp[Slot(j)] = img_convert_ctx
      OBVIOUS
    <3>1. CASE j = Queued
      <4>1. bmp[pictq_windex] = dim
        BY <2>1 DEF BitmapInv
      <4>2. whole'[pictq_windex] = Converts(pictq_windex)
        BY <1>1, <2>1 DEF TypeOK
      <4> QED
        BY <1>1, <1>3, <3>1, <4>1, <4>2 DEF Converts
    <3>2. CASE j # Queued
      <4>1. j \in 0..(Queued - 1) /\ j \in 0..N
        BY <1>1, <3>2
      <4>2. Slot(j) \in Slots /\ Slot(j) # pictq_windex
        BY <1>1, <4>1, SlotFacts
      <4>3. whole'[Slot(j)] = whole[Slot(j)]
        BY <2>1, <4>2 DEF TypeOK
      <4> QED
        BY <2>2, <4>1, <4>3 DEF PicturesInRing
    <3> QED
      BY <3>1, <3>2
  <2>7. made' + 1 = First' + Filled'
    BY <1>1, <2>1, <2>2, <2>3, <2>4
  <2>8. /\ 0..(Filled' - 1) = 0..Queued
        /\ Queued' + If(vpc' = "publish") - 1 = Queued + If(vpc = "publish") - 1
        /\ Alive' <=> Alive
    BY <1>1, <2>1, <2>2 DEF Alive
  <2> QED
    BY <2>1, <2>2, <2>5, <2>6, <2>7, <2>8 DEF PicturesInRing
<1> QED
  BY <1>2, <1>3

(* The picture's time stamp is stored before its slot counts as published. *)
LEMMA StampPictures ==
    ASSUME TypeOK, RingInv, PicturesInRing, VideoStep, Stamp
    PROVE  PicturesInRing'
<1> USE DEF ringVars, eventVars, bitmapVars, InBitmap
<1>1. /\ Queued \in 0..(N - 1) /\ pictq_windex = Slot(Queued)
      /\ \A j \in 0..(Queued - 1) : Slot(j) # pictq_windex
      /\ pictq_windex \in Slots
  BY WriteSlot DEF Stamp, TypeOK
<1>2. /\ vpc = "stamp" /\ vpc' = "publish"
      /\ pts' = [pts EXCEPT ![pictq_windex] = made]
      /\ UNCHANGED <<made, bitmapVars, image, epc, shown, video_current_pts, upc,
                     pictq_size, pictq_rindex>>
  BY DEF Stamp, VideoStep
<1>3. /\ Queued' = Queued /\ First' = First
      /\ Filled = Queued + 1 /\ Filled' = Queued + 1
      /\ If(vpc' = "publish") = 1 /\ If(vpc = "publish") = 0
      /\ \A j : Slot(j)' = Slot(j)
  BY <1>1, <1>2 DEF Queued, First, Filled, If, Slot
<1>4. First \in Int /\ made \in Nat
  BY DEF First, TypeOK
<1>5. made = First + Queued
  BY <1>1, <1>3, <1>4 DEF PicturesInRing
<1>6. \A j \in 0..Queued : pts'[Slot(j)] = First + j
  <2> TAKE j \in 0..Queued
  <2>1. CASE j = Queued
    BY <1>1, <1>2, <1>5, <2>1 DEF TypeOK
  <2>2. CASE j # Queued
    <3>1. j \in 0..(Queued - 1) /\ j \in 0..N /\ j \in 0..(Queued + 0 - 1)
      BY <1>1, <2>2
    <3>2. Slot(j) \in Slots /\ Slot(j) # pictq_windex
      BY <1>1, <3>1, SlotFacts
    <3> QED
      BY <1>2, <1>3, <3>1, <3>2 DEF PicturesInRing, TypeOK
  <2> QED
    BY <2>1, <2>2
<1>7. 0..(Queued' + If(vpc' = "publish") - 1) = 0..Queued
  BY <1>1, <1>3
<1>8. Alive' <=> Alive
  BY <1>2 DEF Alive
<1>9. made' + 1 = First' + Filled' /\ (epc' = "display" => video_current_pts' = First')
  BY <1>2, <1>3 DEF PicturesInRing
<1>10. \A j \in 0..(Filled' - 1) : image'[Slot(j)'] = First' + j
  BY <1>2, <1>3 DEF PicturesInRing
<1>11. Alive' => \A j \in 0..(Filled' - 1) : InBitmap(Slot(j))'
  BY <1>2, <1>3, <1>8 DEF PicturesInRing
<1>12. \A j \in 0..(Queued' + If(vpc' = "publish") - 1) : pts'[Slot(j)'] = First' + j
  BY <1>3, <1>6, <1>7
<1> QED
  BY <1>9, <1>10, <1>11, <1>12 DEF PicturesInRing

(* The size follows the indices: neither end's count changes anything. *)
LEMMA CountPictures ==
    ASSUME TypeOK, PicturesInRing,
           UNCHANGED <<made, image, pts, bitmapVars, upc, pictq_rindex, shown,
                       video_current_pts, First, Filled>>,
           pictq_size' \in Int,
           Queued' + If(vpc' = "publish") = Queued + If(vpc = "publish"),
           epc' = "display" => epc = "display"
    PROVE  PicturesInRing'
<1> USE DEF bitmapVars, InBitmap
<1>1. Alive' <=> Alive
  BY DEF Alive
<1>2. \A j : Slot(j)' = Slot(j)
  BY DEF Slot
<1>3. First' = First /\ Filled' = Filled
  OBVIOUS
<1>4. made' + 1 = First' + Filled' /\ (epc' = "display" => video_current_pts' = First')
  BY <1>3 DEF PicturesInRing
<1>5. \A j \in 0..(Filled' - 1) :
         image'[Slot(j)'] = First' + j /\ (Alive' => InBitmap(Slot(j))')
  BY <1>1, <1>2, <1>3 DEF PicturesInRing
<1>6. Queued \in Int /\ Queued' \in Int
  BY DEF Queued, If, TypeOK
<1>7. \A j \in 0..(Queued' + If(vpc' = "publish") - 1) : pts'[Slot(j)'] = First' + j
  <2>1. Queued' + If(vpc' = "publish") = Queued + If(vpc = "publish")
    OBVIOUS
  <2>2. If(vpc' = "publish") \in Int /\ If(vpc = "publish") \in Int
    BY DEF If
  <2>3. 0..(Queued' + If(vpc' = "publish") - 1) = 0..(Queued + If(vpc = "publish") - 1)
    BY <1>6, <2>1, <2>2
  <2>4. \A j \in 0..(Queued + If(vpc = "publish") - 1) : pts[Slot(j)] = First + j
    BY DEF PicturesInRing
  <2> QED
    BY <1>2, <1>3, <2>3, <2>4
<1> QED
  BY <1>4, <1>5, <1>7 DEF PicturesInRing

LEMMA VideoPictures ==
    ASSUME TypeOK, ControlInv, RingInv, BitmapInv, PicturesInRing, VideoStep
    PROVE  PicturesInRing'
<1> USE DEF VideoStep, ringVars, eventVars, slotVars, bitmapVars
<1>1. CASE VideoSetup
  BY <1>1, PicturesKept DEF VideoSetup, Begin, Prepare
<1>2. CASE Spawn
  <2>1. epc = "none" /\ epc' = "loop"
    BY <1>2 DEF Spawn, ControlInv, SpawnOrder
  <2> QED
    BY <1>2, <2>1, PicturesKept DEF Spawn
<1>3. CASE Arm
  BY <1>3, PicturesKept DEF Arm
<1>4. CASE VideoLoop
  BY <1>4, PicturesKept DEF VideoLoop, LoopHead, GetAborted, GetPacket, WaitForSlot
<1>5. CASE CheckBitmap
  BY <1>5, PicturesKept DEF CheckBitmap
<1>6. CASE WaitForBitmap
  BY <1>6, PicturesKept DEF WaitForBitmap
<1>7. CASE Scale
  BY <1>7, ScalePictures
<1>8. CASE Stamp
  BY <1>8, StampPictures
<1>9. CASE Publish
  BY <1>9, CountPictures DEF Publish, Queued, Filled, First, If, TypeOK
<1>10. CASE Finish
  BY <1>10, PicturesKept DEF Finish
<1> QED
  BY <1>1, <1>2, <1>3, <1>4, <1>5, <1>6, <1>7, <1>8, <1>9, <1>10

(* The oldest picture, at the read index. *)
LEMMA HeadPicture ==
    ASSUME TypeOK, PicturesInRing, Queued > 0, Alive
    PROVE  /\ image[pictq_rindex] = First
           /\ pts[pictq_rindex] = First
           /\ bmp[pictq_rindex] # NoBmp
<1> USE DEF bitmapVars, InBitmap
<1>1. Queued \in Int /\ First \in Int
  BY DEF Queued, First, If, TypeOK
<1>2. 0 \in 0..(Filled - 1) /\ 0 \in 0..(Queued + If(vpc = "publish") - 1)
  BY <1>1 DEF Filled, If
<1>3. Slot(0) = pictq_rindex
  BY SlotFacts
<1> QED
  BY <1>1, <1>2, <1>3 DEF PicturesInRing

(* A new bitmap never replaces one that holds a picture. *)
LEMMA AllocPictures ==
    ASSUME TypeOK, RingInv, EventsInv, PicturesInRing, EventStep, AllocBitmap
    PROVE  PicturesInRing'
<1> USE DEF ringVars, decoderVars, bitmapVars, InBitmap
<1>1. Alive /\ Asking /\ eslot = pictq_windex
  BY DEF EventStep, AllocBitmap, EventsInv, AskedFor
<1>2. /\ Queued \in 0..(N - 1)
      /\ \A j \in 0..(Queued - 1) : Slot(j) # pictq_windex
  BY <1>1, WriteSlot DEF Asking
<1>3. /\ UNCHANGED <<made, image, pts, upc, vpc, pictq_rindex, pictq_size,
                     shown, video_current_pts>>
      /\ epc = "alloc" /\ epc' = "allocDone"
  BY DEF EventStep, AllocBitmap
<1>4. /\ \A i \in Slots : i # pictq_windex
            => bmp'[i] = bmp[i] /\ room'[i] = room[i]
      /\ UNCHANGED <<whole, img_convert_ctx>>
  BY <1>1 DEF AllocBitmap, TypeOK
<1>5. /\ Queued' = Queued /\ First' = First /\ Filled = Queued /\ Filled' = Queued
      /\ \A j : Slot(j)' = Slot(j)
  BY <1>1, <1>2, <1>3 DEF Queued, First, Filled, If, Slot, Asking
<1>6. \A j \in 0..(Filled - 1) :
         bmp'[Slot(j)] = bmp[Slot(j)] /\ room'[Slot(j)] = room[Slot(j)]
  <2> TAKE j \in 0..(Filled - 1)
  <2>1. j \in 0..(Queued - 1) /\ j \in 0..N
    BY <1>2, <1>5
  <2> QED
    BY <1>2, <1>4, <2>1, SlotFacts
<1>7. Alive' <=> Alive
  BY <1>3 DEF Alive
<1> QED
  BY <1>3, <1>4, <1>5, <1>6, <1>7 DEF PicturesInRing

(* The read index leaves the picture that was shown behind. *)
LEMMA AdvancePictures ==
    ASSUME TypeOK, RingInv, PicturesInRing, EventStep, Advance
    PROVE  PicturesInRing'
<1> USE DEF decoderVars, slotVars, bitmapVars, InBitmap
<1>1. /\ epc = "advance" /\ epc' = "consume"
      /\ pictq_rindex' = Following(pictq_rindex)
      /\ UNCHANGED <<made, image, pts, bitmapVars, upc, vpc, pictq_size, shown>>
  BY DEF EventStep, Advance
<1>2. /\ Queued' = Queued - 1 /\ Filled' = Filled - 1 /\ First' = First + 1
      /\ Queued \in 1..N /\ Filled \in Queued..(Queued + 1)
      /\ Queued + If(vpc = "publish") \in 1..N
      /\ First \in Int /\ made \in Int
      /\ If(vpc = "publish") \in {0, 1}
  BY <1>1 DEF Queued, Filled, First, If, TypeOK, RingInv, RingAgrees
<1>3. Filled <= N
  BY <1>2, WriteSlot DEF Filled, If
<1>4. \A j \in 0..(N - 1) : Slot(j)' = Slot(j + 1)
  <2> TAKE j \in 0..(N - 1)
  <2>1. j + 1 \in 1..N /\ (j + 1) - 1 = j /\ pictq_rindex \in Slots
    BY DEF TypeOK
  <2> QED
    BY <1>1, <2>1, SlotFromFollowing DEF Slot
<1>5. made' + 1 = First' + Filled'
  BY <1>1, <1>2 DEF PicturesInRing
<1>6. \A j \in 0..(Filled' - 1) : image'[Slot(j)'] = First' + j
  <2> TAKE j \in 0..(Filled' - 1)
  <2>1. j \in 0..(N - 1) /\ j + 1 \in 0..(Filled - 1) /\ j \in Int
    BY <1>2, <1>3
  <2>2. image[Slot(j + 1)] = First + (j + 1)
    BY <2>1 DEF PicturesInRing
  <2> QED
    BY <1>1, <1>2, <1>4, <2>1, <2>2
<1>7. \A j \in 0..(Queued' + If(vpc' = "publish") - 1) : pts'[Slot(j)'] = First' + j
  <2> TAKE j \in 0..(Queued' + If(vpc' = "publish") - 1)
  <2>1. /\ j \in 0..(N - 1) /\ j \in Int
        /\ j + 1 \in 0..(Queued + If(vpc = "publish") - 1)
    BY <1>1, <1>2
  <2>2. pts[Slot(j + 1)] = First + (j + 1)
    BY <2>1 DEF PicturesInRing
  <2> QED
    BY <1>1, <1>2, <1>4, <2>1, <2>2
<1>8. Alive' => \A j \in 0..(Filled' - 1) : InBitmap(Slot(j))'
  <2> SUFFICES ASSUME Alive', NEW j \in 0..(Filled' - 1)
               PROVE  InBitmap(Slot(j))'
    OBVIOUS
  <2>1. j \in 0..(N - 1) /\ j + 1 \in 0..(Filled - 1)
    BY <1>2, <1>3
  <2>2. Alive
    BY <1>1 DEF Alive
  <2> QED
    BY <1>1, <1>4, <2>1, <2>2 DEF PicturesInRing
<1> QED
  BY <1>1, <1>5, <1>6, <1>7, <1>8 DEF PicturesInRing

LEMMA EventPictures ==
    ASSUME TypeOK, RingInv, EventsInv, PicturesInRing, EventStep
    PROVE  PicturesInRing'
<1> USE DEF EventStep, ringVars, decoderVars, slotVars, bitmapVars, InBitmap
<1>1. CASE EventLoop
  BY <1>1, PicturesKept DEF EventLoop
<1>2. CASE TakeEvent
  BY <1>2, HeadType, PicturesKept DEF TakeEvent
<1>3. CASE AllocBitmap
  BY <1>3, AllocPictures
<1>4. CASE AllocDone
  BY <1>4, PicturesKept DEF AllocDone, AfterSignal
<1>5. CASE Refresh
  <2>1. CASE mRunning /\ pictq_size # 0
    <3>1. /\ epc = "refresh" /\ epc' = "display"
          /\ video_current_pts' = pts[pictq_rindex]
          /\ UNCHANGED <<made, image, pts, bitmapVars, upc, vpc, pictq_rindex,
                         pictq_size, shown>>
      BY <1>5, <2>1 DEF Refresh
    <3>2. Queued > 0
      BY <2>1, <3>1 DEF Queued, If, TypeOK, RingInv, RingAgrees
    <3>3. pts[pictq_rindex] = First
      BY <3>2, HeadPicture
    <3>4. Queued' = Queued /\ First' = First /\ Filled' = Filled
      BY <3>1 DEF Queued, First, Filled, If
    <3>5. (\A j : Slot(j)' = Slot(j)) /\ (Alive' <=> Alive)
      BY <3>1 DEF Slot, Alive
    <3> QED
      BY <3>1, <3>3, <3>4, <3>5 DEF PicturesInRing
  <2>2. CASE ~(mRunning /\ pictq_size # 0)
    BY <1>5, <2>2, PicturesKept DEF Refresh
  <2> QED
    BY <2>1, <2>2
<1>6. CASE Display
  <2>1. Queued > 0
    BY <1>6 DEF Display, RingInv, RingAgrees
  <2>2. /\ epc = "display" /\ epc' = "advance"
        /\ shown' = First
        /\ UNCHANGED <<made, image, pts, bitmapVars, upc, vpc, pictq_rindex,
                       pictq_size, video_current_pts>>
    BY <1>6, <2>1, HeadPicture DEF Display
  <2>3. Queued' = Queued /\ First' = First /\ Filled' = Filled
    BY <2>2 DEF Queued, First, Filled, If
  <2>4. (\A j : Slot(j)' = Slot(j)) /\ (Alive' <=> Alive)
    BY <2>2 DEF Slot, Alive
  <2> QED
    BY <2>2, <2>3, <2>4 DEF PicturesInRing
<1>7. CASE Advance
  BY <1>7, AdvancePictures
<1>8. CASE Consume
  <2>1. /\ epc = "consume" /\ epc' = "loop" /\ pictq_size' = pictq_size - 1
        /\ vpc' = AfterSignal(vpc)
        /\ UNCHANGED <<made, image, pts, bitmapVars, upc, pictq_rindex, shown,
                       video_current_pts>>
    BY <1>8 DEF Consume
  <2>2. (vpc' = "publish" <=> vpc = "publish") /\ (vpc' = "stamp" <=> vpc = "stamp")
    BY <2>1 DEF AfterSignal
  <2>3. Queued' = Queued /\ First' = First
    BY <2>1 DEF Queued, First, If, TypeOK
  <2>4. Filled' = Filled /\ If(vpc' = "publish") = If(vpc = "publish")
    BY <2>2, <2>3 DEF Filled, If
  <2> QED
    BY <2>1, <2>3, <2>4, CountPictures DEF TypeOK
<1> QED
  BY <1>1, <1>2, <1>3, <1>4, <1>5, <1>6, <1>7, <1>8

LEMMA NextPictures ==
    ASSUME TypeOK, ControlInv, RingInv, EventsInv, BitmapInv, PicturesInRing,
           [Next]_vars
    PROVE  PicturesInRing'
<1> USE DEF ringVars, eventVars, videoVars, slotVars, bitmapVars, InBitmap
<1>1. CASE VideoStep
  BY <1>1, VideoPictures
<1>2. CASE EventStep
  BY <1>2, EventPictures
<1>3. CASE Enqueue \/ TimerFires
  BY <1>3, PicturesKept DEF Enqueue, TimerFires
<1>4. CASE SpuriousWake
  BY <1>4, PicturesKept DEF SpuriousWake, AfterSignal
<1>5. CASE StopCall \/ Stopping
  <2>1. Alive /\ Alive'
    BY <1>5 DEF StopCall, Stop, Stopping, Wait, Join, Alive
  <2>2. Queued' = Queued /\ First' = First /\ Filled' = Filled
    BY <1>5 DEF StopCall, Stopping, Queued, First, Filled, If
  <2>3. \A j : Slot(j)' = Slot(j)
    BY <1>5 DEF StopCall, Stopping, Slot
  <2> QED
    BY <1>5, <2>1, <2>2, <2>3 DEF StopCall, Stopping, PicturesInRing
<1>6. CASE Delete
  <2>1. ~Alive' /\ (vpc' = "publish" <=> vpc = "publish")
        /\ (vpc' = "stamp" <=> vpc = "stamp")
    BY <1>6 DEF Delete, Alive, AfterSignal
  <2>2. Queued' = Queued /\ First' = First
    BY <1>6 DEF Delete, Queued, First, If
  <2>3. Filled' = Filled /\ If(vpc' = "publish") = If(vpc = "publish")
    BY <2>1, <2>2 DEF Filled, If
  <2>4. \A j : Slot(j)' = Slot(j)
    BY <1>6 DEF Delete, Slot
  <2> QED
    BY <1>6, <2>1, <2>2, <2>3, <2>4 DEF Delete, PicturesInRing
<1>7. CASE UNCHANGED vars
  BY <1>7, PicturesKept DEF vars
<1> QED
  BY <1>1, <1>2, <1>3, <1>4, <1>5, <1>6, <1>7 DEF Next, Terminated

-------------------------------------------------------------------------------
(* The invariant of the whole decoder, and what follows from it.           *)

DecoderInv ==
    TypeOK /\ ControlInv /\ RingInv /\ EventsInv /\ BitmapInv /\ PicturesInRing

LEMMA InitDecoder == Init => DecoderInv
BY InitTypeOK, InitControl, InitRing, InitEvents, InitBitmap, InitPictures
   DEF DecoderInv

LEMMA NextDecoder == DecoderInv /\ [Next]_vars => DecoderInv'
BY NextTypeOK, NextControl, NextRing, NextEvents, NextBitmap, NextPictures
   DEF DecoderInv

LEMMA DecoderInvariant == Spec => []DecoderInv
BY InitDecoder, NextDecoder, PTL DEF Spec

(* For every ring size no slot is reused before its picture was shown, and *)
(* each picture is in the ring with its own time stamp and a bitmap.       *)
THEOREM PicturesCorrect == Spec => []PicturesInRing
<1>1. DecoderInv => PicturesInRing
  BY DEF DecoderInv
<1> QED
  BY <1>1, DecoderInvariant, PTL

(* The two threads never work on one slot at a time, although no lock keeps*)
(* them apart.                                                             *)
THEOREM SlotsExclusive == Spec => []SlotExclusive
<1>1. DecoderInv => SlotExclusive
  BY ExclusiveSlots DEF DecoderInv
<1> QED
  BY <1>1, DecoderInvariant, PTL

(* Whatever sizes the stream changes to, a picture goes into a bitmap that *)
(* was allocated for its own size.                                         *)
THEOREM BitmapIsCurrent == Spec => []BitmapCurrent
<1>1. DecoderInv => BitmapCurrent
  BY DEF DecoderInv, BitmapInv, BitmapCurrent
<1> QED
  BY <1>1, DecoderInvariant, PTL

(* A picture is shown by Display alone, and it is the next one.            *)
LEMMA ShowsNext ==
    ASSUME DecoderInv, [Next]_vars, shown' # shown
    PROVE  /\ EventStep /\ Display
           /\ shown' = shown + 1 /\ shownPts' = shown'
<1> USE DEF DecoderInv, eventVars
<1>1. EventStep
  <2>1. ~VideoStep
    BY DEF VideoStep, VideoSetup, Begin, Prepare, Spawn, Arm, VideoLoop, LoopHead,
           GetAborted, GetPacket, WaitForSlot, CheckBitmap, WaitForBitmap, Scale,
           Stamp, Publish, Finish
  <2>2. ~(Enqueue \/ TimerFires \/ SpuriousWake \/ StopCall \/ Stopping \/ Delete)
    BY DEF Enqueue, TimerFires, SpuriousWake, StopCall, Stopping, Delete
  <2> QED
    BY <2>1, <2>2 DEF Next, Terminated, vars
<1>2. Display
  BY <1>1 DEF EventStep, EventLoop, TakeEvent, AllocBitmap, AllocDone, Refresh,
              Advance, Consume
<1>3. Queued > 0
  BY <1>2 DEF Display, RingInv, RingAgrees
<1>4. image[pictq_rindex] = First /\ First = shown + 1
  BY <1>1, <1>2, <1>3, HeadPicture DEF EventStep, Display, First
<1>5. video_current_pts = First
  BY <1>2 DEF Display, PicturesInRing
<1> QED
  BY <1>1, <1>2, <1>4, <1>5 DEF Display

(* Pictures are shown one by one, in the order they were decoded, each for *)
(* its own time stamp.                                                     *)
THEOREM OrderCorrect == Spec => ShownInOrder
<1>1. DecoderInv /\ [Next]_vars
         => [shown' # shown => shown' = shown + 1 /\ shownPts' = shown']_vars
  BY ShowsNext
<1> QED
  BY <1>1, DecoderInvariant, PTL DEF Spec, ShownInOrder

-------------------------------------------------------------------------------
(* Sleeping.                                                               *)

LEMMA NextSleeps ==
    ASSUME TypeOK, EventsInv, SleepsForCause, [Next]_vars
    PROVE  SleepsForCause'
<1> USE DEF SleepsForCause, RingFull, Alive, ringVars, slotVars, bitmapVars, videoVars
<1>1. CASE VideoStep
  <2> USE <1>1 DEF VideoStep
  <2>1. CASE VideoSetup \/ Spawn \/ Arm \/ CheckBitmap \/ Scale \/ Stamp
             \/ Publish \/ Finish
    BY <2>1 DEF VideoSetup, Begin, Prepare, Spawn, Arm, CheckBitmap, Scale, Stamp,
                Publish, Finish
  <2>2. CASE VideoLoop
    BY <2>2 DEF VideoLoop, LoopHead, GetAborted, GetPacket, WaitForSlot
  <2>3. CASE WaitForBitmap
    BY <2>3 DEF WaitForBitmap
  <2> QED
    BY <2>1, <2>2, <2>3
<1>2. CASE EventStep
  <2> USE <1>2 DEF EventStep
  <2>1. CASE EventLoop \/ TakeEvent \/ AllocBitmap \/ Refresh \/ Display \/ Advance
    BY <2>1 DEF EventLoop, TakeEvent, AllocBitmap, Refresh, Display, Advance
  <2>2. CASE AllocDone
    BY <2>2 DEF AllocDone, AfterSignal
  <2>3. CASE Consume
    BY <2>3 DEF Consume, AfterSignal
  <2> QED
    BY <2>1, <2>2, <2>3
<1>3. CASE Enqueue \/ TimerFires \/ StopCall \/ Stopping
  BY <1>3 DEF Enqueue, TimerFires, StopCall, Stop, Stopping, Wait, Join
<1>4. CASE SpuriousWake
  BY <1>4 DEF SpuriousWake, AfterSignal
<1>5. CASE Delete
  BY <1>5 DEF Delete
<1>6. CASE UNCHANGED vars
  BY <1>6 DEF vars
<1> QED
  BY <1>1, <1>2, <1>3, <1>4, <1>5, <1>6 DEF Next, Terminated

(* The video thread never sleeps on pictq_cond with its condition true: no *)
(* signal is lost.                                                         *)
THEOREM SignalsKept == Spec => []SleepsForCause
<1>1. Init => DecoderInv /\ SleepsForCause
  BY InitDecoder DEF Init, SleepsForCause
<1>2. (DecoderInv /\ SleepsForCause) /\ [Next]_vars
         => (DecoderInv /\ SleepsForCause)'
  BY NextDecoder, NextSleeps DEF DecoderInv
<1> QED
  BY <1>1, <1>2, PTL DEF Spec

-------------------------------------------------------------------------------
(* The decoder implements FrameChannel.                                    *)

(* Pictures published and not yet shown. *)
Waiting == Queued - Passed

(* The w pictures that follow picture s. *)
Run(s, w) == [j \in 1..w |-> s + j]

LEMMA RunGrows ==
    ASSUME NEW s \in Nat, NEW w \in Nat
    PROVE  Len(Run(s, w)) = w /\ Append(Run(s, w), s + w + 1) = Run(s, w + 1)
<1>1. Run(s, w) \in Seq(Nat) /\ Len(Run(s, w)) = w
  BY DEF Run
<1> QED
  BY <1>1 DEF Run

LEMMA RunShrinks ==
    ASSUME NEW s \in Nat, NEW w \in Nat, w > 0
    PROVE  /\ Run(s, w) # <<>>
           /\ Head(Run(s, w)) = s + 1
           /\ Tail(Run(s, w)) = Run(s + 1, w - 1)
<1>1. Run(s, w) \in Seq(Nat) /\ Len(Run(s, w)) = w
  BY DEF Run
<1>2. Run(s + 1, w - 1) \in Seq(Nat) /\ Len(Run(s + 1, w - 1)) = w - 1
  BY DEF Run
<1>3. Run(s, w) # <<>> /\ Head(Run(s, w)) = s + 1
  BY <1>1 DEF Run
<1>4. /\ Tail(Run(s, w)) \in Seq(Nat) /\ Len(Tail(Run(s, w))) = w - 1
      /\ \A j \in 1..(w - 1) : Tail(Run(s, w))[j] = Run(s, w)[j + 1]
  BY <1>1, <1>3, HeadTailProperties
<1>5. \A j \in 1..(w - 1) : Run(s, w)[j + 1] = Run(s + 1, w - 1)[j]
  BY DEF Run
<1> QED
  BY <1>2, <1>3, <1>4, <1>5, SeqEqual

(* What the refinement mapping yields: all of it is determined by what is  *)
(* shown and how many pictures wait.                                       *)
LEMMA MappedChannel ==
    ASSUME DecoderInv
    PROVE  /\ Waiting \in Nat
           /\ made - If(vpc \in {"stamp", "publish"}) = shown + Waiting
           /\ [j \in 1..(Queued - Passed) |-> image[Slot(j - 1 + Passed)]]
                 = Run(shown, Waiting)
<1> USE DEF DecoderInv
<1>1. /\ Queued \in Nat /\ Passed \in {0, 1} /\ Waiting \in Nat
      /\ First = shown + 1 - Passed /\ shown \in Nat /\ made \in Nat
  BY DEF Waiting, Passed, First, Queued, If, TypeOK, RingInv, RingAgrees
<1>2. made - If(vpc \in {"stamp", "publish"}) = shown + Waiting
  BY <1>1 DEF PicturesInRing, Filled, Waiting, If
<1>3. ASSUME NEW j \in 1..(Queued - Passed)
      PROVE  image[Slot(j - 1 + Passed)] = shown + j
  <2>1. j - 1 + Passed \in 0..(Filled - 1)
    BY <1>1 DEF Filled, If
  <2>2. image[Slot(j - 1 + Passed)] = First + (j - 1 + Passed)
    BY <2>1 DEF PicturesInRing
  <2> QED
    BY <1>1, <2>2
<1> QED
  BY <1>1, <1>2, <1>3 DEF Run, Waiting

LEMMA MappedChannelNext ==
    DecoderInv' =>
       (/\ Waiting \in Nat
        /\ made - If(vpc \in {"stamp", "publish"}) = shown + Waiting
        /\ [j \in 1..(Queued - Passed) |-> image[Slot(j - 1 + Passed)]]
              = Run(shown, Waiting))'
BY MappedChannel, PTL

(* Only two steps move pictures. *)
LEMMA PublishMoves ==
    ASSUME DecoderInv, VideoStep, Publish
    PROVE  /\ Waiting < N /\ Waiting' = Waiting + 1
           /\ UNCHANGED <<shown, shownPts, mRunning>>
BY DEF DecoderInv, VideoStep, Publish, eventVars, decoderVars, Waiting, Passed,
       Queued, If, TypeOK, RingInv, RingAgrees

LEMMA DisplayMoves ==
    ASSUME DecoderInv, EventStep, Display
    PROVE  /\ Waiting > 0 /\ Waiting' = Waiting - 1
           /\ shown' = shown + 1 /\ shownPts' = shown' /\ mRunning' = mRunning
<1> USE DEF DecoderInv, EventStep, Display
<1>1. Queued > 0
  BY DEF RingInv, RingAgrees
<1>2. image[pictq_rindex] = First /\ First = shown + 1 /\ bmp[pictq_rindex] # NoBmp
  BY <1>1, HeadPicture DEF First
<1>3. video_current_pts = First
  BY DEF PicturesInRing
<1>4. Waiting > 0 /\ Waiting' = Waiting - 1 /\ mRunning' = mRunning
  BY <1>1 DEF Waiting, Passed, Queued, If, TypeOK, ringVars, decoderVars
<1> QED
  BY <1>2, <1>3, <1>4

LEMMA OthersKeep ==
    ASSUME DecoderInv, [Next]_vars,
           ~(VideoStep /\ Publish), ~(EventStep /\ Display)
    PROVE  UNCHANGED <<shown, shownPts, Waiting>>
<1> USE DEF DecoderInv, eventVars, ringVars
<1>1. SUFFICES /\ UNCHANGED <<shown, shownPts>>
               /\ \/ Queued' = Queued /\ Passed' = Passed
                  \/ Queued' = Queued - 1 /\ Passed = 1 /\ Passed' = 0
  BY DEF Waiting, Queued, Passed, If, TypeOK
<1>2. CASE VideoStep
  <2>1. UNCHANGED <<shown, shownPts, pictq_size>>
        /\ (epc' = epc \/ (epc = "none" /\ epc' = "loop"))
    BY <1>2 DEF VideoStep, VideoSetup, Begin, Prepare, Spawn, Arm, VideoLoop,
       LoopHead, GetAborted, GetPacket, WaitForSlot, CheckBitmap, WaitForBitmap,
       Scale, Stamp, Finish, ControlInv, SpawnOrder
  <2> QED
    BY <2>1 DEF Queued, Passed, If
<1>3. CASE EventStep
  <2> USE <1>3 DEF EventStep
  <2>1. CASE EventLoop \/ AllocBitmap \/ AllocDone \/ Refresh
    BY <2>1 DEF EventLoop, AllocBitmap, AllocDone, Refresh, Queued, Passed, If
  <2>2. CASE TakeEvent
    BY <2>2, HeadType DEF TakeEvent, Queued, Passed, If
  <2>3. CASE Advance
    BY <2>3 DEF Advance, Queued, Passed, If, TypeOK
  <2>4. CASE Consume
    BY <2>4 DEF Consume, Queued, Passed, If, TypeOK
  <2> QED
    BY <2>1, <2>2, <2>3, <2>4
<1>4. CASE Enqueue \/ TimerFires \/ SpuriousWake \/ StopCall \/ Stopping \/ Delete
  BY <1>4 DEF Enqueue, TimerFires, SpuriousWake, StopCall, Stopping, Delete,
              Queued, Passed, If
<1>5. CASE UNCHANGED vars
  BY <1>5 DEF vars, Queued, Passed, If
<1> QED
  BY <1>2, <1>3, <1>4, <1>5 DEF Next, Terminated

LEMMA InitChannel == Init => Channel!Init
<1> SUFFICES ASSUME Init
             PROVE  Channel!Init
  OBVIOUS
<1>1. DecoderInv /\ Waiting = 0 /\ shown = 0 /\ shownPts = 0
  BY InitDecoder DEF Init, Waiting, Queued, Passed, If
<1>2. Run(0, 0) = <<>>
  BY DEF Run
<1>3. /\ made - If(vpc \in {"stamp", "publish"}) = 0
      /\ [j \in 1..(Queued - Passed) |-> image[Slot(j - 1 + Passed)]] = <<>>
  <2>1. Run(shown, Waiting) = <<>> /\ shown + Waiting = 0
    BY <1>1, <1>2
  <2> QED
    BY <1>1, <2>1, MappedChannel, Zenon
<1>4. (~mRunning) \in BOOLEAN
  BY DEF Init
<1> QED
  BY <1>1, <1>3, <1>4 DEF Channel!Init

LEMMA NextChannel ==
    DecoderInv /\ DecoderInv' /\ [Next]_vars => [Channel!Next]_(Channel!vars)
<1> SUFFICES ASSUME DecoderInv, DecoderInv', [Next]_vars
             PROVE  [Channel!Next]_(Channel!vars)
  OBVIOUS
<1> DEFINE published == made - If(vpc \in {"stamp", "publish"})
           channel == [j \in 1..(Queued - Passed) |-> image[Slot(j - 1 + Passed)]]
<1>1. /\ Waiting \in Nat /\ shown \in Nat
      /\ published = shown + Waiting
      /\ channel = Run(shown, Waiting)
  BY MappedChannel DEF DecoderInv, TypeOK
<1>2. /\ published' = shown' + Waiting'
      /\ channel' = Run(shown', Waiting')
  BY MappedChannelNext
<1>3. mRunning \in BOOLEAN /\ mRunning' \in BOOLEAN
  BY DEF DecoderInv, TypeOK
<1>4. CASE VideoStep /\ Publish
  <2>1. /\ Waiting < N /\ Waiting' = Waiting + 1
        /\ UNCHANGED <<shown, shownPts, mRunning>>
    BY <1>4, PublishMoves
  <2>2. Len(channel) < N
    BY <1>1, <2>1, RunGrows
  <2>3. published' = published + 1 /\ published' = shown + Waiting + 1
    BY <1>1, <1>2, <2>1
  <2>4. channel' = Append(channel, published')
    <3>1. Append(Run(shown, Waiting), shown + Waiting + 1) = Run(shown, Waiting + 1)
      BY <1>1, RunGrows
    <3>2. channel' = Run(shown, Waiting + 1)
      BY <1>2, <2>1
    <3> HIDE DEF channel, published
    <3> QED
      BY <1>1, <2>3, <3>1, <3>2
  <2>5. Channel!Publish
    BY <2>1, <2>2, <2>3, <2>4 DEF Channel!Publish
  <2> QED
    BY <2>5 DEF Channel!Next
<1>5. CASE EventStep /\ Display
  <2>1. /\ Waiting > 0 /\ Waiting' = Waiting - 1
        /\ shown' = shown + 1 /\ shownPts' = shown' /\ mRunning' = mRunning
    BY <1>5, DisplayMoves
  <2>2. channel # <<>> /\ Head(channel) = shown + 1 /\ channel' = Tail(channel)
    <3>1. /\ Run(shown, Waiting) # <<>>
          /\ Head(Run(shown, Waiting)) = shown + 1
          /\ Tail(Run(shown, Waiting)) = Run(shown + 1, Waiting - 1)
      BY <1>1, <2>1, RunShrinks
    <3>2. channel' = Run(shown + 1, Waiting - 1)
      BY <1>2, <2>1
    <3> HIDE DEF channel
    <3> QED
      BY <1>1, <3>1, <3>2
  <2>3. published' = published
    BY <1>1, <1>2, <2>1
  <2>4. Channel!Show
    BY <2>1, <2>2, <2>3 DEF Channel!Show
  <2> QED
    BY <2>4 DEF Channel!Next
<1>6. CASE ~(VideoStep /\ Publish) /\ ~(EventStep /\ Display)
  <2>1. UNCHANGED <<shown, shownPts, Waiting>>
    BY <1>6, OthersKeep
  <2>2. published' = published /\ channel' = channel
    BY <1>1, <1>2, <2>1
  <2>3. CASE mRunning' = mRunning
    BY <2>1, <2>2, <2>3 DEF Channel!vars
  <2>4. CASE mRunning' # mRunning
    <3>1. Channel!Switch
      BY <1>3, <2>1, <2>2, <2>4 DEF Channel!Switch
    <3> QED
      BY <3>1 DEF Channel!Next
  <2> QED
    BY <2>3, <2>4
<1> QED
  BY <1>4, <1>5, <1>6

(* Whatever the interleaving of the four threads, the viewer sees a channel*)
(* of capacity N: every picture published is shown at most once, in order, *)
(* at its own time stamp.                                                  *)
THEOREM ChannelImplemented == Spec => ImplementsChannel
BY InitChannel, NextChannel, DecoderInvariant, PTL
   DEF Spec, ImplementsChannel, Channel!Spec

-------------------------------------------------------------------------------
(* The decoder takes the steps of module Session.                          *)

(* A bitmap is asked for when there is none that fits, and there is none   *)
(* until the event thread allocates one.                                   *)
AsksForCause ==
    Alive /\ Asking /\ epc # "allocDone" => bmp[pictq_windex] # dim

SessionInv == DecoderInv /\ AsksForCause

LEMMA NextCause ==
    ASSUME DecoderInv, AsksForCause, [Next]_vars
    PROVE  AsksForCause'
<1> USE DEF AsksForCause, Asking, Alive, ringVars, slotVars, bitmapVars, videoVars, eventVars
<1>1. CASE VideoStep
  <2> USE <1>1 DEF VideoStep
  <2>1. CASE VideoSetup \/ Spawn \/ Arm \/ VideoLoop \/ Scale \/ Stamp \/ Publish
             \/ Finish
    BY <2>1 DEF VideoSetup, Begin, Prepare, Spawn, Arm, VideoLoop, LoopHead,
       GetAborted, GetPacket, WaitForSlot, Scale, Stamp, Publish, Finish
  <2>2. CASE CheckBitmap
    BY <2>2 DEF CheckBitmap, BitmapFits
  <2>3. CASE WaitForBitmap
    BY <2>3 DEF WaitForBitmap
  <2> QED
    BY <2>1, <2>2, <2>3
<1>2. CASE EventStep
  <2> USE <1>2 DEF EventStep
  <2>1. CASE EventLoop \/ TakeEvent \/ Refresh \/ Display \/ Advance
    BY <2>1, HeadType DEF DecoderInv, EventLoop, TakeEvent, Refresh, Display, Advance
  <2>2. CASE AllocBitmap
    BY <2>2 DEF AllocBitmap
  <2>3. CASE AllocDone
    BY <2>3 DEF AllocDone, DecoderInv, EventsInv, AskedFor, TypeOK, AfterSignal
  <2>4. CASE Consume
    BY <2>4 DEF Consume, AfterSignal
  <2> QED
    BY <2>1, <2>2, <2>3, <2>4
<1>3. CASE Enqueue \/ TimerFires \/ StopCall \/ Stopping
  BY <1>3 DEF Enqueue, TimerFires, StopCall, Stop, Stopping, Wait, Join
<1>4. CASE SpuriousWake
  BY <1>4 DEF SpuriousWake, AfterSignal
<1>5. CASE Delete
  BY <1>5 DEF Delete
<1>6. CASE UNCHANGED vars
  BY <1>6 DEF vars
<1> QED
  BY <1>1, <1>2, <1>3, <1>4, <1>5, <1>6 DEF Next, Terminated

LEMMA SessionInvariant == Spec => []SessionInv
<1>1. Init => SessionInv
  BY InitDecoder DEF Init, SessionInv, AsksForCause, Asking
<1>2. SessionInv /\ [Next]_vars => SessionInv'
  BY NextDecoder, NextCause DEF SessionInv
<1> QED
  BY <1>1, <1>2, PTL DEF Spec

(* The queue as Session sees it.                                           *)
SeenEvents == {EventOf(e) : e \in Events}

LEMMA EventsOfAppend ==
    ASSUME NEW s \in Seq(Events), NEW e \in Events
    PROVE  EventsOf(Append(s, e)) = Append(EventsOf(s), EventOf(e))
<1>1. /\ EventsOf(s) \in Seq(SeenEvents) /\ Len(EventsOf(s)) = Len(s)
      /\ EventOf(e) \in SeenEvents
  BY DEF EventsOf, SeenEvents
<1>2. Append(s, e) \in Seq(Events) /\ Len(Append(s, e)) = Len(s) + 1
      /\ \A i \in 1..(Len(s) + 1) :
            Append(s, e)[i] = IF i = Len(s) + 1 THEN e ELSE s[i]
  BY AppendProperties
<1>3. /\ Append(EventsOf(s), EventOf(e)) \in Seq(SeenEvents)
      /\ Len(Append(EventsOf(s), EventOf(e))) = Len(s) + 1
      /\ \A i \in 1..(Len(s) + 1) :
            Append(EventsOf(s), EventOf(e))[i]
                = IF i = Len(s) + 1 THEN EventOf(e) ELSE EventsOf(s)[i]
  BY <1>1, AppendProperties
<1>4. /\ EventsOf(Append(s, e)) \in Seq(SeenEvents)
      /\ Len(EventsOf(Append(s, e))) = Len(s) + 1
      /\ \A i \in 1..(Len(s) + 1) :
            EventsOf(Append(s, e))[i] = EventOf(Append(s, e)[i])
  BY <1>2 DEF EventsOf, SeenEvents
<1>5. \A i \in 1..(Len(s) + 1) :
         EventsOf(Append(s, e))[i] = Append(EventsOf(s), EventOf(e))[i]
  <2>1. \A i \in 1..Len(s) : EventsOf(s)[i] = EventOf(s[i])
    BY DEF EventsOf
  <2> QED
    BY <1>2, <1>3, <1>4, <2>1
<1> QED
  BY <1>3, <1>4, <1>5, SeqEqual

LEMMA EventsOfTail ==
    ASSUME NEW s \in Seq(Events), s # <<>>
    PROVE  /\ EventsOf(s) # <<>>
           /\ Head(EventsOf(s)) = EventOf(Head(s))
           /\ EventsOf(Tail(s)) = Tail(EventsOf(s))
<1>1. EventsOf(s) \in Seq(SeenEvents) /\ Len(EventsOf(s)) = Len(s)
  BY DEF EventsOf, SeenEvents
<1>2. Len(s) > 0 /\ 1 \in 1..Len(s)
  BY EmptySeq
<1>3. EventsOf(s) # <<>> /\ Head(EventsOf(s)) = EventOf(Head(s))
  BY <1>1, <1>2 DEF EventsOf
<1>4. /\ Tail(s) \in Seq(Events) /\ Len(Tail(s)) = Len(s) - 1
      /\ \A i \in 1..(Len(s) - 1) : Tail(s)[i] = s[i + 1]
  BY HeadTailProperties
<1>5. /\ Tail(EventsOf(s)) \in Seq(SeenEvents)
      /\ Len(Tail(EventsOf(s))) = Len(s) - 1
      /\ \A i \in 1..(Len(s) - 1) : Tail(EventsOf(s))[i] = EventsOf(s)[i + 1]
  BY <1>1, <1>3, HeadTailProperties
<1>6. /\ EventsOf(Tail(s)) \in Seq(SeenEvents)
      /\ Len(EventsOf(Tail(s))) = Len(s) - 1
      /\ \A i \in 1..(Len(s) - 1) : EventsOf(Tail(s))[i] = EventOf(s[i + 1])
  BY <1>4 DEF EventsOf, SeenEvents
<1>7. \A i \in 1..(Len(s) - 1) : EventsOf(s)[i + 1] = EventOf(s[i + 1])
  BY <1>2 DEF EventsOf
<1> QED
  BY <1>3, <1>5, <1>6, <1>7, SeqEqual

LEMMA SeenPush ==
    ASSUME events \in Seq(Events), NEW e \in Events, events' = Pushed(e)
    PROVE  EventsOf(events)' = OneSession!Pushed(EventOf(e))
<1>1. Len(EventsOf(events)) = Len(events)
  BY DEF EventsOf
<1>2. EventsOf(events)' = EventsOf(events')
  BY DEF EventsOf
<1> QED
  BY <1>1, <1>2, EventsOfAppend DEF Pushed, OneSession!Pushed

LEMMA SeenKept ==
    ASSUME UNCHANGED <<bmp, allocated, dim, pictq_windex>>,
           epc' = "allocDone" <=> epc = "allocDone",
           vpc' \in {"stamp", "publish"} <=> vpc \in {"stamp", "publish"},
           vpc' \in {"alloc", "allocSleep"} <=> vpc \in {"alloc", "allocSleep"}
    PROVE  UNCHANGED <<HasBitmap, HasAnswer>>
BY DEF HasBitmap, HasAnswer, Asking

LEMMA OneVideoStep ==
    ASSUME VideoStep,
           \/ OneSession!Begin(1) \/ OneSession!Prepare(1) \/ OneSession!Spawn(1)
           \/ OneSession!Arm(1) \/ OneSession!LoopHead(1) \/ OneSession!Get(1)
           \/ OneSession!WaitForSlot(1) \/ OneSession!CheckBitmap(1)
           \/ OneSession!WaitForBitmap(1) \/ OneSession!Publish(1)
           \/ OneSession!Finish(1),
           mAbortRequest' = mAbortRequest
    PROVE  OneSession!Next
<1>1. upc' = upc /\ 1 \in OneSession!Sessions
  BY DEF VideoStep, OneSession!Sessions
<1>2. UNCHANGED OneSession!uiVars
  BY <1>1 DEF OneSession!uiVars
<1>3. OneSession!VideoStep(1)
  BY <1>2 DEF OneSession!VideoStep
<1> QED
  BY <1>1, <1>3 DEF OneSession!Next

LEMMA SeenVideoSetup ==
    ASSUME SessionInv, VideoStep, VideoSetup \/ Spawn \/ Arm
    PROVE  OneSession!Next
<1> USE DEF VideoStep, slotVars, bitmapVars, ringVars, eventVars, sdlVars, decoderVars,
            OneSession!Moves, OneSession!heapVars, OneSession!eventVars,
            OneSession!sdlVars
<1>1. vpc' # vpc /\ mAbortRequest' = mAbortRequest /\ events' = events
  BY DEF VideoSetup, Begin, Prepare, Spawn, Arm
<1>2. UNCHANGED <<HasBitmap, HasAnswer>>
  BY SeenKept DEF VideoSetup, Begin, Prepare, Spawn, Arm, SessionInv, DecoderInv,
     ControlInv, SpawnOrder
<1>3. CASE Begin
  <2>1. VpcOf(vpc) = "created" /\ VpcOf(vpc') = "prepare" /\ epc' = epc
    BY <1>3 DEF Begin, VideoSetup, VpcOf, Spawn, Arm
  <2>2. OneSession!Begin(1)
    BY <1>1, <1>2, <1>3, <2>1 DEF Begin, VideoSetup, Spawn, Arm, OneSession!Begin
  <2> QED
    BY <1>1, <2>2, OneVideoStep
<1>4. CASE Prepare
  <2>1. VpcOf(vpc) = "prepare" /\ VpcOf(vpc') \in {"spawn", "exit"} /\ epc' = epc
    BY <1>4 DEF Prepare, VideoSetup, VpcOf, Spawn, Arm
  <2>2. OneSession!Prepare(1)
    BY <1>1, <1>2, <1>4, <2>1 DEF Prepare, VideoSetup, Spawn, Arm, OneSession!Prepare
  <2> QED
    BY <1>1, <2>2, OneVideoStep
<1>5. CASE Spawn
  <2>1. /\ VpcOf(vpc) = "spawn" /\ VpcOf(vpc') = "arm"
        /\ EpcOf(epc') = "loop" /\ AskedOf(epc') = AskedOf(epc)
    BY <1>5 DEF Spawn, VpcOf, EpcOf, AskedOf, SessionInv, DecoderInv, ControlInv, SpawnOrder
  <2>2. OneSession!Spawn(1)
    BY <1>1, <1>2, <1>5, <2>1 DEF Spawn, OneSession!Spawn
  <2> QED
    BY <1>1, <2>2, OneVideoStep
<1>6. CASE Arm
  <2>1. VpcOf(vpc) = "arm" /\ VpcOf(vpc') = "loop" /\ epc' = epc
    BY <1>6 DEF Arm, VpcOf
  <2>2. OneSession!Arm(1)
    BY <1>1, <1>2, <1>6, <2>1 DEF Arm, OneSession!Arm
  <2> QED
    BY <1>1, <2>2, OneVideoStep
<1> QED
  BY <1>3, <1>4, <1>5, <1>6 DEF VideoSetup

LEMMA SeenVideoLoop ==
    ASSUME SessionInv, VideoStep, VideoLoop
    PROVE  OneSession!Next \/ UNCHANGED OneSession!vars
<1> USE DEF VideoStep, VideoLoop, slotVars, bitmapVars, ringVars, eventVars, sdlVars,
            decoderVars, OneSession!Moves, OneSession!heapVars,
            OneSession!eventVars, OneSession!sdlVars
<1>1. /\ UNCHANGED <<mAbortRequest, upc, pictq_size, epc, timers, events, allocated>>
      /\ UNCHANGED HasAnswer
  BY DEF LoopHead, GetAborted, GetPacket, WaitForSlot, HasAnswer, Asking
<1>2. CASE LoopHead
  <2>1. /\ VpcOf(vpc) = "loop" /\ VpcOf(vpc') = IF mRunning THEN "get" ELSE "exit"
        /\ mRunning' = mRunning
    BY <1>2 DEF LoopHead, VpcOf
  <2>2. HasBitmap' = HasBitmap
    BY <1>2, SeenKept DEF LoopHead
  <2>3. OneSession!LoopHead(1)
    BY <1>1, <2>1, <2>2 DEF OneSession!LoopHead
  <2> QED
    BY <1>1, <2>3, OneVideoStep
<1>3. CASE GetAborted
  <2>1. /\ VpcOf(vpc) = "get" /\ VpcOf(vpc') = "exit"
        /\ mAbortRequest /\ mRunning' = FALSE
    BY <1>3 DEF GetAborted, VpcOf
  <2>2. HasBitmap' = HasBitmap
    BY <1>3, SeenKept DEF GetAborted
  <2>3. OneSession!Get(1)
    BY <1>1, <2>1, <2>2 DEF OneSession!Get
  <2> QED
    BY <1>1, <2>3, OneVideoStep
<1>4. CASE GetPacket
  <2>1. VpcOf(vpc) = "get" /\ ~mAbortRequest /\ mRunning' = mRunning
    BY <1>4 DEF GetPacket, VpcOf
  <2>2. CASE vpc' = "loop" /\ UNCHANGED dim
    <3>1. HasBitmap' = HasBitmap
      BY <1>4, <2>2, SeenKept DEF GetPacket
    <3>2. VpcOf(vpc') = "loop"
      BY <2>2 DEF VpcOf
    <3>3. OneSession!Get(1)
      BY <1>1, <2>1, <3>1, <3>2 DEF OneSession!Get
    <3> QED
      BY <1>1, <3>3, OneVideoStep
  <2>3. CASE vpc' = "slot"
    <3>1. HasBitmap' \in BOOLEAN
      BY DEF HasBitmap
    <3>2. VpcOf(vpc') = "slot"
      BY <2>3 DEF VpcOf
    <3>3. OneSession!Get(1)
      BY <1>1, <2>1, <3>1, <3>2 DEF OneSession!Get, OneSession!AnyBitmap
    <3> QED
      BY <1>1, <3>3, OneVideoStep
  <2> QED
    BY <1>4, <2>2, <2>3 DEF GetPacket
<1>5. CASE WaitForSlot
  <2>1. /\ VpcOf(vpc) = "slot" /\ mRunning' = mRunning
        /\ VpcOf(vpc') = IF ~mRunning THEN "exit"
                         ELSE IF RingFull THEN "slot" ELSE "check"
    BY <1>5 DEF WaitForSlot, VpcOf
  <2>2. HasBitmap' = HasBitmap
    BY <1>5, SeenKept DEF WaitForSlot
  <2>3. CASE mRunning /\ RingFull
    BY <1>1, <2>1, <2>2, <2>3 DEF OneSession!vars, OneSession!uiVars, OneSession!videoVars
  <2>4. CASE ~mRunning \/ ~RingFull
    <3>1. OneSession!WaitForSlot(1)
      BY <1>1, <2>1, <2>2, <2>4 DEF OneSession!WaitForSlot, OneSession!Full, RingFull
    <3> QED
      BY <1>1, <3>1, OneVideoStep
  <2> QED
    BY <2>3, <2>4
<1> QED
  BY <1>2, <1>3, <1>4, <1>5

LEMMA SeenQueuePicture ==
    ASSUME SessionInv, VideoStep, CheckBitmap \/ WaitForBitmap
    PROVE  OneSession!Next \/ UNCHANGED OneSession!vars
<1> USE DEF VideoStep, slotVars, bitmapVars, ringVars, eventVars, sdlVars,
            decoderVars, OneSession!Moves, OneSession!heapVars,
            OneSession!eventVars, OneSession!sdlVars
<1>1. /\ UNCHANGED <<mRunning, mAbortRequest, upc, pictq_size, epc, timers, bmp,
                     dim, pictq_windex>>
      /\ pictq_windex \in Slots /\ allocated \in [Slots -> BOOLEAN]
      /\ events \in Seq(Events)
  BY DEF CheckBitmap, WaitForBitmap, SessionInv, DecoderInv, TypeOK
<1>2. HasBitmap' = HasBitmap
  BY <1>1 DEF HasBitmap, CheckBitmap, WaitForBitmap
<1>3. CASE CheckBitmap
  <2>1. VpcOf(vpc) = "check" /\ epc # "allocDone" /\ ~Asking
    BY <1>3 DEF CheckBitmap, VpcOf, SessionInv, DecoderInv, EventsInv, AskedFor, Asking
  <2>2. HasBitmap <=> BitmapFits(pictq_windex)
    BY <1>3, <2>1 DEF CheckBitmap, HasBitmap, BitmapFits
  <2>3. CASE BitmapFits(pictq_windex)
    <3>1. vpc' = "scale" /\ UNCHANGED <<allocated, events>>
      BY <1>3, <2>3 DEF CheckBitmap
    <3>2. VpcOf(vpc') = "publish" /\ HasAnswer' = HasAnswer
      BY <1>1, <2>1, <3>1 DEF VpcOf, HasAnswer, Asking
    <3>3. OneSession!CheckBitmap(1)
      BY <1>1, <1>2, <2>1, <2>2, <2>3, <3>1, <3>2 DEF OneSession!CheckBitmap
    <3> QED
      BY <1>1, <3>3, OneVideoStep
  <2>4. CASE ~BitmapFits(pictq_windex)
    <3>1. /\ vpc' = "alloc" /\ allocated' = [allocated EXCEPT ![pictq_windex] = FALSE]
          /\ events' = Pushed(ALLOC_EVENT(pictq_windex))
      BY <1>3, <2>4 DEF CheckBitmap, AllocatedWhenAsking
    <3>2. VpcOf(vpc') = "alloc" /\ HasAnswer' = FALSE
      BY <1>1, <3>1 DEF VpcOf, HasAnswer, Asking
    <3>3. EventsOf(events)' = OneSession!Pushed(EventOf(ALLOC_EVENT(pictq_windex)))
      BY <1>1, <3>1, EventTypes, SeenPush
    <3>4. EventOf(ALLOC_EVENT(pictq_windex)) = OneSession!ALLOC_EVENT(0)
      BY KindsDiffer DEF EventOf, OneSession!ALLOC_EVENT
    <3>5. OneSession!CheckBitmap(1)
      BY <1>1, <1>2, <2>1, <2>2, <2>4, <3>2, <3>3, <3>4 DEF OneSession!CheckBitmap
    <3> QED
      BY <1>1, <3>5, OneVideoStep
  <2> QED
    BY <2>3, <2>4
<1>4. CASE WaitForBitmap
  <2>1. VpcOf(vpc) = "alloc" /\ mRunning /\ UNCHANGED <<allocated, events>>
    BY <1>4 DEF WaitForBitmap, VpcOf, SessionInv, DecoderInv, ControlInv,
       RunningWhileWorking
  <2>2. HasAnswer' = HasAnswer /\ (HasAnswer <=> allocated[pictq_windex])
    BY <1>1, <1>4, <2>1 DEF WaitForBitmap, HasAnswer, Asking
  <2>3. CASE allocated[pictq_windex]
    <3>1. VpcOf(vpc') = "publish"
      BY <1>4, <2>3 DEF WaitForBitmap, VpcOf
    <3>2. OneSession!WaitForBitmap(1)
      BY <1>1, <1>2, <2>1, <2>2, <2>3, <3>1
         DEF OneSession!WaitForBitmap, OneSession!Answered
    <3> QED
      BY <1>1, <3>2, OneVideoStep
  <2>4. CASE ~allocated[pictq_windex]
    <3>1. VpcOf(vpc') = "alloc"
      BY <1>4, <2>1, <2>4 DEF WaitForBitmap, VpcOf
    <3> QED
      BY <1>1, <1>2, <2>1, <2>2, <3>1
         DEF OneSession!vars, OneSession!uiVars, OneSession!videoVars
  <2> QED
    BY <2>3, <2>4
<1> QED
  BY <1>3, <1>4

LEMMA SeenFilling ==
    ASSUME SessionInv, VideoStep, Scale \/ Stamp \/ Publish \/ Finish
    PROVE  OneSession!Next \/ UNCHANGED OneSession!vars
<1> USE DEF VideoStep, slotVars, bitmapVars, ringVars, eventVars, sdlVars,
            decoderVars, OneSession!Moves, OneSession!heapVars,
            OneSession!eventVars, OneSession!sdlVars
<1>1. UNCHANGED <<mAbortRequest, upc, epc, timers, events, allocated, HasAnswer>>
  BY DEF Scale, Stamp, Publish, Finish, HasAnswer, Asking
<1>2. vpc \notin {"alloc", "allocSleep"} /\ epc \notin {"alloc", "allocDone"}
  BY DEF Scale, Stamp, Publish, Finish, SessionInv, DecoderInv, EventsInv, AskedFor,
         Asking
<1>3. CASE Scale
  <2>1. /\ VpcOf(vpc) = "publish" /\ UNCHANGED <<mRunning, pictq_size>>
        /\ bmp[pictq_windex] = dim /\ dim # NoBmp
    BY <1>3, DimsAssumption DEF Scale, VpcOf, SessionInv, DecoderInv, BitmapInv, TypeOK
  <2>2. CASE bmp[pictq_windex] = NoBmp
    <3>1. VpcOf(vpc') = "loop" /\ ~HasBitmap /\ ~HasBitmap'
      BY <1>3, <2>1, <2>2 DEF Scale, VpcOf, HasBitmap
    <3>2. OneSession!Publish(1)
      BY <1>1, <2>1, <3>1 DEF OneSession!Publish, HasBitmap
    <3> QED
      BY <1>1, <3>2, OneVideoStep
  <2>3. CASE bmp[pictq_windex] # NoBmp
    <3>1. VpcOf(vpc') = "publish" /\ HasBitmap /\ HasBitmap'
      BY <1>2, <1>3, <2>1, <2>3 DEF Scale, VpcOf, HasBitmap
    <3> QED
      BY <1>1, <2>1, <3>1
         DEF OneSession!vars, OneSession!uiVars, OneSession!videoVars, HasBitmap
  <2> QED
    BY <2>2, <2>3
<1>4. CASE Stamp
  <2>1. /\ VpcOf(vpc) = "publish" /\ VpcOf(vpc') = "publish"
        /\ UNCHANGED <<mRunning, pictq_size>> /\ HasBitmap /\ HasBitmap'
    BY <1>4 DEF Stamp, VpcOf, HasBitmap
  <2> QED
    BY <1>1, <2>1
       DEF OneSession!vars, OneSession!uiVars, OneSession!videoVars, HasBitmap
<1>5. CASE Publish
  <2>1. /\ VpcOf(vpc) = "publish" /\ VpcOf(vpc') = "loop"
        /\ mRunning' = mRunning /\ pictq_size' = pictq_size + 1
        /\ HasBitmap /\ HasBitmap' \in BOOLEAN
    BY <1>5 DEF Publish, VpcOf, HasBitmap
  <2>2. OneSession!Publish(1)
    BY <1>1, <2>1 DEF OneSession!Publish, OneSession!AnyBitmap
  <2> QED
    BY <1>1, <2>2, OneVideoStep
<1>6. CASE Finish
  <2>1. /\ VpcOf(vpc) = "exit" /\ VpcOf(vpc') = "done"
        /\ mRunning' = FALSE /\ UNCHANGED pictq_size
        /\ HasBitmap' = HasBitmap
    BY <1>6, SeenKept DEF Finish, VpcOf
  <2>2. OneSession!Finish(1)
    BY <1>1, <2>1 DEF OneSession!Finish
  <2> QED
    BY <1>1, <2>2, OneVideoStep
<1> QED
  BY <1>3, <1>4, <1>5, <1>6

(* Who sleeps is about to look again anyway. *)
LEMMA SeenSignal ==
    /\ VpcOf(AfterSignal(vpc)) = VpcOf(vpc)
    /\ OneSession!Signalled(0) = [k \in {1} |-> VpcOf(vpc)]
<1>1. VpcOf(vpc) \notin {"slotSleep", "allocSleep"} /\ VpcOf(AfterSignal(vpc)) = VpcOf(vpc)
  BY DEF VpcOf, AfterSignal
<1>2. OneSession!Sessions = {1}
  BY DEF OneSession!Sessions
<1> QED
  BY <1>1, <1>2 DEF OneSession!Signalled

LEMMA OneEventStep ==
    ASSUME UNCHANGED <<mAbortRequest, upc>>,
           \/ OneSession!EventLoop(1) \/ OneSession!TakeEvent(1)
           \/ OneSession!AllocPicture(1) \/ OneSession!Refresh(1)
           \/ OneSession!Consume(1)
    PROVE  OneSession!Next
<1>1. 1 \in OneSession!Sessions
  BY DEF OneSession!Sessions
<1>2. OneSession!EventStep(1)
  BY DEF OneSession!EventStep, OneSession!uiVars
<1> QED
  BY <1>1, <1>2 DEF OneSession!Next

LEMMA SeenTake ==
    ASSUME SessionInv, EventStep, TakeEvent
    PROVE  OneSession!Next
<1> USE DEF EventStep, slotVars, bitmapVars, ringVars, decoderVars, OneSession!Moves,
            OneSession!heapVars, OneSession!eventVars, OneSession!sdlVars
<1>1. /\ UNCHANGED <<mRunning, mAbortRequest, upc, vpc, pictq_size, timers>>
      /\ EpcOf(epc) = "wait" /\ events # <<>> /\ events \in Seq(Events)
  BY DEF TakeEvent, EpcOf, SessionInv, DecoderInv, TypeOK
<1>2. Head(events) \in Events /\ epc' = Head(events).type
      /\ Head(events).type \in {"alloc", "refresh"}
  BY HeadType DEF TakeEvent, SessionInv, DecoderInv
<1>3. UNCHANGED <<HasBitmap, HasAnswer>>
  BY <1>2, SeenKept DEF TakeEvent
<1>4. /\ EventsOf(events) # <<>>
      /\ Head(EventsOf(events)) = EventOf(Head(events))
      /\ EventsOf(events)' = Tail(EventsOf(events))
  <2>1. EventsOf(events)' = EventsOf(Tail(events))
    BY DEF TakeEvent, EventsOf
  <2> QED
    BY <1>1, <2>1, EventsOfTail
<1>5. /\ EpcOf(epc') = EventOf(Head(events)).type
      /\ AskedOf(epc') = EventOf(Head(events)).data1
  <2>1. \/ Head(events) = REFRESH_EVENT /\ epc' = "refresh"
        \/ Head(events) # REFRESH_EVENT /\ epc' = "alloc"
    BY <1>2 DEF Events, ALLOC_EVENT, REFRESH_EVENT
  <2> QED
    BY <2>1 DEF EpcOf, AskedOf, EventOf
<1>6. OneSession!TakeEvent(1)
  BY <1>1, <1>3, <1>4, <1>5 DEF OneSession!TakeEvent
<1> QED
  BY <1>1, <1>6, OneEventStep

LEMMA SeenAlloc ==
    ASSUME SessionInv, EventStep, AllocBitmap \/ AllocDone
    PROVE  OneSession!Next \/ UNCHANGED OneSession!vars
<1> USE DEF EventStep, slotVars, bitmapVars, ringVars, sdlVars, decoderVars, OneSession!Moves,
            OneSession!heapVars, OneSession!eventVars, OneSession!sdlVars
<1>1. /\ UNCHANGED <<mRunning, mAbortRequest, upc, pictq_size, timers, events,
                     dim, pictq_windex>>
      /\ allocated \in [Slots -> BOOLEAN] /\ eslot \in Slots
      /\ EpcOf(epc) = "alloc" /\ AskedOf(epc) = 0
  BY DEF AllocBitmap, AllocDone, EpcOf, AskedOf, SessionInv, DecoderInv, TypeOK
<1>2. Alive /\ Asking /\ eslot = pictq_windex
  BY DEF AllocBitmap, AllocDone, SessionInv, DecoderInv, EventsInv, AskedFor
<1>3. CASE AllocBitmap
  <2>1. EpcOf(epc') = "alloc" /\ AskedOf(epc') = 0 /\ vpc' = vpc
    BY <1>3 DEF AllocBitmap, EpcOf, AskedOf
  <2>2. ~HasBitmap
    BY <1>2, <1>3 DEF AllocBitmap, HasBitmap, Asking, SessionInv, AsksForCause
  <2>3. ~HasBitmap'
    BY <1>2, <1>3, <2>1 DEF AllocBitmap, HasBitmap, Asking
  <2>4. HasBitmap' = HasBitmap
    BY <2>2, <2>3 DEF HasBitmap
  <2>5. HasAnswer' = HasAnswer
    BY <1>1, <1>3, <2>1 DEF AllocBitmap, HasAnswer, Asking
  <2> QED
    BY <1>1, <2>1, <2>4, <2>5
       DEF OneSession!vars, OneSession!uiVars, OneSession!videoVars
<1>4. CASE AllocDone
  <2>1. EpcOf(epc') = "loop" /\ AskedOf(epc') = -1 /\ vpc' = AfterSignal(vpc)
        /\ allocated' = [allocated EXCEPT ![eslot] = TRUE]
    BY <1>4 DEF AllocDone, EpcOf, AskedOf
  <2>2. HasAnswer' = TRUE
    BY <1>1, <1>2, <2>1 DEF HasAnswer, Asking
  <2>3. HasBitmap' = TRUE
    <3>1. bmp[pictq_windex] = dim
      BY <1>2, <1>4 DEF AllocDone, SessionInv, DecoderInv, BitmapInv
    <3> QED
      BY <1>1, <1>4, <3>1 DEF AllocDone, HasBitmap
  <2>4. OneSession!AllocPicture(1)
    BY <1>1, <2>1, <2>2, <2>3, SeenSignal DEF OneSession!AllocPicture
  <2> QED
    BY <1>1, <2>4, OneEventStep
<1> QED
  BY <1>3, <1>4

LEMMA SeenShow ==
    ASSUME SessionInv, EventStep,
           EventLoop \/ Refresh \/ Display \/ Advance \/ Consume
    PROVE  OneSession!Next \/ UNCHANGED OneSession!vars
<1> USE DEF EventStep, slotVars, bitmapVars, ringVars, sdlVars, decoderVars, OneSession!Moves,
            OneSession!heapVars, OneSession!eventVars, OneSession!sdlVars
<1>1. /\ UNCHANGED <<mRunning, mAbortRequest, upc, events>>
      /\ AskedOf(epc) = -1 /\ AskedOf(epc') = -1
  BY DEF EventLoop, Refresh, Display, Advance, Consume, AskedOf
<1>2. VpcOf(vpc') = VpcOf(vpc)
  BY SeenSignal DEF EventLoop, Refresh, Display, Advance, Consume
<1>3. UNCHANGED <<HasBitmap, HasAnswer>>
  <2>1. \/ vpc' = vpc
        \/ vpc' = AfterSignal(vpc)
    BY DEF EventLoop, Refresh, Display, Advance, Consume
  <2> QED
    BY <2>1, SeenKept DEF EventLoop, Refresh, Display, Advance, Consume, AfterSignal
<1>4. CASE EventLoop
  <2>1. /\ EpcOf(epc) = "loop" /\ EpcOf(epc') = IF mRunning THEN "wait" ELSE "done"
        /\ UNCHANGED <<pictq_size, timers>>
    BY <1>4 DEF EventLoop, EpcOf
  <2>2. OneSession!EventLoop(1)
    BY <1>1, <1>2, <1>3, <2>1 DEF OneSession!EventLoop, OneSession!GoesOn
  <2> QED
    BY <1>1, <2>2, OneEventStep
<1>5. CASE Refresh
  <2>1. /\ EpcOf(epc) = "refresh"
        /\ EpcOf(epc') = IF mRunning /\ pictq_size # 0 THEN "consume" ELSE "loop"
        /\ pictq_size' = pictq_size /\ timers' = timers + 1
    BY <1>5 DEF Refresh, EpcOf, TimersAfterRefresh
  <2>2. OneSession!Refresh(1)
    BY <1>1, <1>2, <1>3, <2>1
       DEF OneSession!Refresh, OneSession!Shows, OneSession!TimersAfterRefresh
  <2> QED
    BY <1>1, <2>2, OneEventStep
<1>6. CASE Display \/ Advance
  <2>1. /\ EpcOf(epc) = "consume" /\ EpcOf(epc') = "consume"
        /\ UNCHANGED <<pictq_size, timers>>
    BY <1>6 DEF Display, Advance, EpcOf
  <2> QED
    BY <1>1, <1>2, <1>3, <2>1
       DEF OneSession!vars, OneSession!uiVars, OneSession!videoVars
<1>7. CASE Consume
  <2>1. /\ EpcOf(epc) = "consume" /\ EpcOf(epc') = "loop"
        /\ pictq_size' = pictq_size - 1 /\ timers' = timers
    BY <1>7 DEF Consume, EpcOf
  <2>2. pictq_size > 0
    BY <1>7 DEF Consume, SessionInv, DecoderInv, TypeOK, RingInv, RingAgrees, Queued, If
  <2>3. OneSession!Consume(1)
    BY <1>1, <1>2, <1>3, <2>1, <2>2, SeenSignal DEF OneSession!Consume
  <2> QED
    BY <1>1, <2>3, OneEventStep
<1> QED
  BY <1>4, <1>5, <1>6, <1>7

(* Stopping, and the threads that only hand something over.                *)
LEMMA SeenStop ==
    ASSUME SessionInv, StopCall \/ Stopping, vpc = "created" => ~StopCall
    PROVE  OneSession!Next
<1> USE DEF slotVars, bitmapVars, ringVars, eventVars, sdlVars, videoVars, OneSession!Moves,
            OneSession!heapVars, OneSession!eventVars, OneSession!sdlVars
<1>1. /\ UNCHANGED <<mRunning, vpc, epc, pictq_size, timers, events>>
      /\ UNCHANGED <<HasBitmap, HasAnswer>>
  BY SeenKept DEF StopCall, Stop, Stopping, Wait, Join
<1>2. 1 \in OneSession!Sessions
  BY DEF OneSession!Sessions
<1>3. CASE StopCall
  <2>1. /\ PhaseOf(upc) = "playing" /\ PhaseOf(upc') = "stopping"
        /\ mAbortRequest' = TRUE /\ VpcOf(vpc) # "created"
    BY <1>3 DEF StopCall, Stop, PhaseOf, VpcOf
  <2>2. OneSession!SuspendCall(1)
    BY <1>1, <2>1 DEF OneSession!SuspendCall, OneSession!Stop
  <2> QED
    BY <1>2, <2>2 DEF OneSession!Next
<1>4. CASE Stopping
  <2>1. mAbortRequest' = mAbortRequest
    BY <1>4 DEF Stopping, Wait, Join
  <2>2. CASE Wait
    <3>1. /\ PhaseOf(upc) = "stopping"
          /\ PhaseOf(upc') = IF mRunning THEN "join" ELSE "stopped"
      BY <2>2 DEF Wait, PhaseOf
    <3>2. OneSession!Wait(1)
      BY <1>1, <2>1, <3>1 DEF OneSession!Wait, OneSession!AfterWait, OneSession!videoVars
    <3> QED
      BY <1>1, <1>2, <3>2 DEF OneSession!Next, OneSession!Suspending
  <2>3. CASE Join
    <3>1. PhaseOf(upc) = "join" /\ PhaseOf(upc') = "stopped" /\ VpcOf(vpc) = "done"
      BY <2>3 DEF Join, PhaseOf, VpcOf
    <3>2. OneSession!Join(1)
      BY <1>1, <2>1, <3>1 DEF OneSession!Join, OneSession!videoVars
    <3> QED
      BY <1>1, <1>2, <3>2 DEF OneSession!Next, OneSession!Suspending
  <2> QED
    BY <1>4, <2>2, <2>3 DEF Stopping
<1> QED
  BY <1>3, <1>4

LEMMA SeenDelete ==
    ASSUME SessionInv, Delete
    PROVE  OneSession!Next
<1> USE DEF ringVars, eventVars, sdlVars, OneSession!Moves, OneSession!heapVars,
            OneSession!eventVars, OneSession!sdlVars
<1>1. /\ UNCHANGED <<mAbortRequest, epc, pictq_size, timers, events, allocated,
                     pictq_windex, dim>>
      /\ mRunning' = FALSE /\ bmp' = [i \in Slots |-> NoBmp]
      /\ pictq_windex \in Slots /\ dim # NoBmp
  BY DimsAssumption DEF Delete, SessionInv, DecoderInv, TypeOK
<1>2. ~InRing /\ vpc' = vpc
  BY DEF Delete, SessionInv, DecoderInv, ControlInv, StopOrder, InRing, AfterSignal
<1>3. HasBitmap' = FALSE /\ HasAnswer' = HasAnswer
  BY <1>1, <1>2 DEF HasBitmap, HasAnswer, Asking, InRing
<1>4. PhaseOf(upc) = "stopped" /\ PhaseOf(upc') = "over"
  BY DEF Delete, PhaseOf
<1>5. OneSession!Delete(1)
  BY <1>1, <1>2, <1>3, <1>4, SeenSignal DEF OneSession!Delete
<1>6. 1 \in OneSession!Sessions
  BY DEF OneSession!Sessions
<1> QED
  BY <1>1, <1>5, <1>6 DEF OneSession!Next, OneSession!Suspending

LEMMA SeenTimer ==
    ASSUME SessionInv, TimerFires
    PROVE  OneSession!Next
<1> USE DEF TimerFires, decoderVars, videoVars, slotVars, bitmapVars, ringVars, eventVars
<1>1. UNCHANGED <<HasBitmap, HasAnswer>>
  BY SeenKept
<1>2. EventsOf(events)' = OneSession!Pushed(EventOf(REFRESH_EVENT))
  BY EventTypes, SeenPush DEF SessionInv, DecoderInv, TypeOK
<1>3. EventOf(REFRESH_EVENT) = OneSession!REFRESH_EVENT
  BY DEF EventOf, OneSession!REFRESH_EVENT
<1>4. OneSession!TimerFires
  BY <1>1, <1>2, <1>3 DEF OneSession!TimerFires, OneSession!uiVars,
     OneSession!heapVars, OneSession!videoVars, OneSession!eventVars
<1> QED
  BY <1>4 DEF OneSession!Next

LEMMA Unseen ==
    ASSUME Enqueue \/ SpuriousWake \/ UNCHANGED vars
    PROVE  UNCHANGED OneSession!vars
<1> USE DEF decoderVars, videoVars, slotVars, bitmapVars, ringVars, eventVars, sdlVars
<1>1. /\ UNCHANGED <<mRunning, mAbortRequest, upc, epc, pictq_size, timers, events>>
      /\ vpc' = vpc \/ vpc' = AfterSignal(vpc)
  BY DEF Enqueue, SpuriousWake, vars
<1>2. UNCHANGED <<HasBitmap, HasAnswer>>
  BY <1>1, SeenKept DEF Enqueue, SpuriousWake, vars, AfterSignal
<1>3. VpcOf(vpc') = VpcOf(vpc)
  BY <1>1, SeenSignal
<1> QED
  BY <1>1, <1>2, <1>3 DEF OneSession!vars, OneSession!uiVars, OneSession!heapVars,
     OneSession!videoVars, OneSession!eventVars, OneSession!sdlVars

(* All that the decoder does to its fields and to SDL's queue and timers,  *)
(* module Session says of it: what is proved of a sequence of sessions     *)
(* holds of sessions with this decoder.                                    *)
THEOREM SessionImplemented == Spec => StepsOfSession
<1>1. SessionInv /\ [Next]_vars
        => [~(vpc = "created" /\ StopCall) => OneSession!Next]_(OneSession!vars)
  <2> SUFFICES ASSUME SessionInv, [Next]_vars, ~(vpc = "created" /\ StopCall)
               PROVE  OneSession!Next \/ UNCHANGED OneSession!vars
    OBVIOUS
  <2>1. CASE VideoStep
    BY <2>1, SeenVideoSetup, SeenVideoLoop, SeenQueuePicture, SeenFilling DEF VideoStep
  <2>2. CASE EventStep
    BY <2>2, SeenTake, SeenAlloc, SeenShow DEF EventStep
  <2>3. CASE StopCall \/ Stopping
    BY <2>3, SeenStop
  <2>4. CASE Delete
    BY <2>4, SeenDelete
  <2>5. CASE TimerFires
    BY <2>5, SeenTimer
  <2>6. CASE Enqueue \/ SpuriousWake \/ UNCHANGED vars
    BY <2>6, Unseen
  <2> QED
    BY <2>1, <2>2, <2>3, <2>4, <2>5, <2>6 DEF Next, Terminated
<1> QED
  BY <1>1, SessionInvariant, PTL DEF Spec, StepsOfSession
===============================================================================
