----------------------------- MODULE SessionProofs -----------------------------
(***************************************************************************)
(* Theorems about Session, for any number of sessions, addresses and slots *)
(* of the ring.  The first ones hold as long as each session begins when   *)
(* the threads of those before it are gone (orderly): one session is       *)
(* active at a time, so that what it finds in SDL's queue is all that is   *)
(* in its way.  The last one, ChainsAddUp, is about sessions that overlap. *)
(***************************************************************************)
EXTENDS Session, FiniteSetTheorems, SequenceTheorems, TLAPS

-------------------------------------------------------------------------------
(* Counting the refreshes in a queue.                                      *)

Queued(q) == {i \in 1..Len(q) : q[i] = REFRESH_EVENT}

LEMMA QueuedFinite ==
    ASSUME NEW S, NEW q \in Seq(S)
    PROVE  IsFiniteSet(Queued(q)) /\ Cardinality(Queued(q)) \in Nat
<1>1. IsFiniteSet(1..Len(q))
  BY FS_Interval
<1>2. Queued(q) \in SUBSET (1..Len(q))
  BY DEF Queued
<1> QED
  BY <1>1, <1>2, FS_Subset, FS_CardinalityType

LEMMA AppendQueued ==
    ASSUME NEW q \in Seq(Events), NEW e \in Events
    PROVE  Cardinality(Queued(Append(q, e)))
              = IF e = REFRESH_EVENT THEN Cardinality(Queued(q)) + 1
                ELSE Cardinality(Queued(q))
<1>1. /\ Len(Append(q, e)) = Len(q) + 1 /\ Len(q) \in Nat
      /\ \A i \in 1..Len(q) : Append(q, e)[i] = q[i]
      /\ Append(q, e)[Len(q) + 1] = e
  OBVIOUS
<1>2. 1..(Len(q) + 1) = (1..Len(q)) \cup {Len(q) + 1}
  BY <1>1
<1>3. Queued(Append(q, e)) = IF e = REFRESH_EVENT THEN Queued(q) \cup {Len(q) + 1}
                             ELSE Queued(q)
  BY <1>1, <1>2 DEF Queued
<1>4. Len(q) + 1 \notin Queued(q)
  BY <1>1 DEF Queued
<1> QED
  BY <1>3, <1>4, QueuedFinite, FS_AddElement

LEMMA TailQueued ==
    ASSUME NEW q \in Seq(Events), q # <<>>
    PROVE  Cardinality(Queued(q))
              = IF Head(q) = REFRESH_EVENT THEN Cardinality(Queued(Tail(q))) + 1
                ELSE Cardinality(Queued(Tail(q)))
<1> DEFINE Rest == {i \in 2..Len(q) : q[i] = REFRESH_EVENT}
           f == [i \in Queued(Tail(q)) |-> i + 1]
<1>1. /\ Tail(q) \in Seq(Events) /\ Len(q) = Len(Tail(q)) + 1 /\ Len(Tail(q)) \in Nat
      /\ \A i \in 1..Len(Tail(q)) : Tail(q)[i] = q[i + 1]
      /\ Head(q) = q[1]
  OBVIOUS
<1>2. f \in Bijection(Queued(Tail(q)), Rest)
  <2>1. \A i \in Queued(Tail(q)) : i \in Nat /\ i + 1 \in Rest
    BY <1>1 DEF Queued
  <2>2. \A j \in Rest : j - 1 \in Queued(Tail(q)) /\ (j - 1) + 1 = j
    BY <1>1 DEF Queued
  <2>3. f \in [Queued(Tail(q)) -> Rest]
    BY <2>1
  <2>4. \A i, j \in Queued(Tail(q)) : f[i] = f[j] => i = j
    BY <2>1
  <2>5. \A j \in Rest : \E i \in Queued(Tail(q)) : f[i] = j
    BY <2>2
  <2> HIDE DEF f, Rest
  <2> QED
    BY <2>3, <2>4, <2>5 DEF Bijection, Injection, Surjection, IsInjective
<1>3. IsFiniteSet(Rest) /\ Cardinality(Rest) = Cardinality(Queued(Tail(q)))
  <2>1. IsFiniteSet(Queued(Tail(q)))
    BY <1>1, QueuedFinite
  <2>2. ExistsBijection(Queued(Tail(q)), Rest)
    BY <1>2 DEF ExistsBijection
  <2> HIDE DEF Rest
  <2> QED
    BY <2>1, <2>2, FS_Bijection
<1>4. Queued(q) = IF Head(q) = REFRESH_EVENT THEN Rest \cup {1} ELSE Rest
  BY <1>1 DEF Queued
<1>5. 1 \notin Rest
  OBVIOUS
<1> HIDE DEF Rest
<1> QED
  BY <1>3, <1>4, <1>5, FS_AddElement

(* Sets of sessions are finite.                                            *)
LEMMA SessionSets ==
    ASSUME NEW S, S \subseteq Sessions
    PROVE  /\ IsFiniteSet(S) /\ Cardinality(S) \in Nat
           /\ Cardinality(S) <= K
<1>1. IsFiniteSet(Sessions) /\ Cardinality(Sessions) = K
  BY KAssumption, FS_Interval DEF Sessions
<1> QED
  BY <1>1, FS_Subset, FS_CardinalityType

-------------------------------------------------------------------------------
(* The invariant.  Basic is TypeOK without the ring's bounds.              *)

Basic ==
    /\ phase \in [Sessions -> {"none", "made", "playing", "stopping", "join",
                               "stopped", "over"}]
    /\ at \in [Sessions -> Addrs \cup {NULL}]
    /\ mRunning \in [Addrs -> BOOLEAN]
    /\ pictq_size \in [Addrs -> Int]
    /\ bmp \in [Addrs -> BOOLEAN]
    /\ allocated \in [Addrs -> BOOLEAN]
    /\ mAbortRequest \in [Sessions -> BOOLEAN]
    /\ vpc \in [Sessions -> {"none", "created", "prepare", "spawn", "arm", "loop",
                             "get", "slot", "slotSleep", "check", "alloc",
                             "allocSleep", "publish", "exit", "done"}]
    /\ epc \in [Sessions -> {"none", "loop", "wait", "alloc", "refresh",
                             "consume", "done"}]
    /\ asked \in [Sessions -> Addrs \cup {NULL}]
    /\ timers \in Nat
    /\ events \in Seq(Events) /\ Len(events) <= EventCap
    /\ orderly \in BOOLEAN

(* A session that has begun has all earlier ones behind it, threads and    *)
(* all.                                                                    *)
Ordered ==
    \A j, k \in Sessions : j < k /\ phase[k] # "none" => phase[j] = "over" /\ Gone(j)

(* How far the threads of a session are, by its phase and by each other.   *)
Filling == {"check", "alloc", "allocSleep", "publish"}
Looping == {"loop", "get", "slot", "slotSleep"} \cup Filling
Busy    == {"prepare", "spawn", "arm"} \cup Looping

Placed ==
    \A k \in Sessions :
       /\ phase[k] \in {"none", "made"} => vpc[k] = "none" /\ epc[k] = "none"
       /\ phase[k] \notin {"none", "made"} => at[k] \in Addrs /\ vpc[k] # "none"
       /\ phase[k] \notin {"none", "made", "playing"} => vpc[k] # "created"
       /\ vpc[k] \in {"created", "prepare", "spawn"} => epc[k] = "none"
       /\ vpc[k] \in {"arm"} \cup Looping => epc[k] # "none"

Joined ==
    \A k \in Sessions : phase[k] \in {"stopped", "over"} => vpc[k] \in {"exit", "done"}

Stages == Placed /\ Joined

(* While the video thread decodes, its decoder runs; and there is room for *)
(* the picture it has begun.                                               *)
Running == \A k \in Sessions : vpc[k] \in Busy => mRunning[at[k]]

Room ==
    /\ \A a \in Addrs : pictq_size[a] \in -Shortfall..N
    /\ \A k \in Sessions : vpc[k] \in Filling => pictq_size[at[k]] < N

StageInv == Basic /\ Ordered /\ Stages /\ Running /\ Room

LEMMA StagesPlaced ==
    ASSUME StageInv
    PROVE  Basic /\ Placed
BY DEF StageInv, Stages

(* A session with a decoder or a thread is the only one.                   *)
Active(k) == phase[k] \notin {"none", "over"} \/ ~Gone(k)

LEMMA Alone ==
    ASSUME StageInv, NEW k \in Sessions, Active(k), NEW j \in Sessions, j # k
    PROVE  /\ Gone(j)
           /\ phase[j] \in {"none", "over"}
           /\ j > k => phase[j] = "none"
<1>1. j \in Int /\ k \in Int
  BY DEF Sessions
<1>2. phase[k] # "none"
  BY DEF StageInv, Stages, Placed, Joined, Active, Gone
<1>3. CASE j < k
  BY <1>1, <1>2, <1>3 DEF StageInv, Ordered
<1>4. CASE k < j
  <2>1. phase[j] = "none"
    BY <1>4 DEF StageInv, Ordered, Active
  <2> QED
    BY <1>1, <1>4, <2>1 DEF StageInv, Stages, Placed, Joined, Gone
<1> QED
  BY <1>1, <1>3, <1>4

LEMMA EventsOf == REFRESH_EVENT \in Events /\ \A a \in Addrs : ALLOC_EVENT(a) \in Events
BY DEF Events

LEMMA PushedType ==
    ASSUME events \in Seq(Events), Len(events) <= EventCap, NEW e \in Events
    PROVE  Pushed(e) \in Seq(Events) /\ Len(Pushed(e)) <= EventCap
BY EventCapAssumption DEF Pushed

LEMMA SignalledType ==
    ASSUME Basic, NEW a
    PROVE  /\ Signalled(a) \in [Sessions -> {"none", "created", "prepare", "spawn",
                                 "arm", "loop", "get", "slot", "slotSleep", "check",
                                 "alloc", "allocSleep", "publish", "exit", "done"}]
           /\ \A k \in Sessions :
                 Signalled(a)[k] = IF at[k] = a /\ vpc[k] = "slotSleep" THEN "slot"
                                   ELSE IF at[k] = a /\ vpc[k] = "allocSleep" THEN "alloc"
                                   ELSE vpc[k]
<1>1. \A k \in Sessions :
         Signalled(a)[k] = IF at[k] = a /\ vpc[k] = "slotSleep" THEN "slot"
                           ELSE IF at[k] = a /\ vpc[k] = "allocSleep" THEN "alloc"
                           ELSE vpc[k]
  BY DEF Signalled
<1>2. \A k \in Sessions : Signalled(a)[k] \in
         {"none", "created", "prepare", "spawn",
                                 "arm", "loop", "get", "slot", "slotSleep", "check",
                                 "alloc", "allocSleep", "publish", "exit", "done"}
  BY <1>1 DEF Basic
<1> QED
  BY <1>1, <1>2 DEF Signalled

LEMMA BasicInit == Init => Basic
BY EventCapAssumption, KAssumption DEF Init, Basic

LEMMA BasicUI ==
    ASSUME Basic, NEW k \in Sessions, Begun(k) \/ SuspendCall(k) \/ Suspending(k)
    PROVE  Basic'
<1> USE DEF Moves, heapVars, videoVars, eventVars, sdlVars, uiVars
<1>1. CASE New(k)
  <2>1. orderly' \in BOOLEAN
    BY <1>1, Zenon DEF New, Basic
  <2> QED
    BY <1>1, <2>1 DEF New, Basic
<1>2. CASE Start(k)
  <2>1. PICK a \in Addrs, r \in BOOLEAN :
           /\ at' = [at EXCEPT ![k] = a]
           /\ mRunning' = [mRunning EXCEPT ![a] = r]
           /\ pictq_size' = [pictq_size EXCEPT ![a] = 0]
           /\ bmp' = [bmp EXCEPT ![a] = FALSE]
           /\ allocated' = [allocated EXCEPT ![a] = FALSE]
    BY <1>2 DEF Start
  <2> QED
    BY <1>2, <2>1 DEF Start, Basic
<1>3. CASE SuspendCall(k)
  BY <1>3 DEF SuspendCall, Stop, Basic
<1>4. CASE Suspending(k) /\ Wait(k)
  BY <1>4 DEF Suspending, Wait, AfterWait, Basic
<1>5. CASE Suspending(k) /\ Join(k)
  BY <1>5 DEF Suspending, Join, Basic
<1>6. CASE Suspending(k) /\ Delete(k)
  <2>1. PICK r \in BOOLEAN : mRunning' = [mRunning EXCEPT ![at[k]] = r]
    BY <1>6 DEF Delete
  <2>2. vpc' \in [Sessions -> {"none", "created", "prepare", "spawn", "arm", "loop",
                             "get", "slot", "slotSleep", "check", "alloc",
                             "allocSleep", "publish", "exit", "done"}]
    BY <1>6, SignalledType DEF Delete
  <2> QED
    BY <1>6, <2>1, <2>2 DEF Suspending, Delete, Basic
<1> QED
  BY <1>1, <1>2, <1>3, <1>4, <1>5, <1>6 DEF Begun, Suspending

LEMMA AnyBitmapType ==
    ASSUME Basic, NEW k \in Sessions, AnyBitmap(k) \/ UNCHANGED bmp
    PROVE  bmp' \in [Addrs -> BOOLEAN]
<1>1. CASE AnyBitmap(k)
  <2>1. PICK b \in BOOLEAN : bmp' = [bmp EXCEPT ![at[k]] = b]
    BY <1>1 DEF AnyBitmap
  <2> QED
    BY <2>1 DEF Basic
<1> QED
  BY <1>1 DEF Basic

LEMMA BasicVideo ==
    ASSUME Basic, Placed, NEW k \in Sessions, VideoStep(k)
    PROVE  Basic'
<1> USE DEF VideoStep, Moves, heapVars, videoVars, eventVars, sdlVars, uiVars
<1>1. CASE Begin(k)
  BY <1>1 DEF Begin, Basic
<1>2. CASE Prepare(k)
  BY <1>2 DEF Prepare, Basic
<1>3. CASE Spawn(k)
  BY <1>3 DEF Spawn, Basic
<1>4. CASE Arm(k)
  BY <1>4 DEF Arm, Basic
<1>5. CASE LoopHead(k)
  BY <1>5 DEF LoopHead, Basic
<1>6. CASE Get(k)
  <2>1. bmp' \in [Addrs -> BOOLEAN]
    BY <1>6, AnyBitmapType DEF Get
  <2>2. /\ mRunning' = mRunning \/ mRunning' = [mRunning EXCEPT ![at[k]] = FALSE]
        /\ \E to \in {"exit", "loop", "slot"} : vpc' = [vpc EXCEPT ![k] = to]
        /\ UNCHANGED <<phase, at, pictq_size, allocated, mAbortRequest, epc, asked, timers,
                       events, orderly>>
    BY <1>6 DEF Get
  <2> HIDE DEF VideoStep, Moves
  <2> QED
    BY <2>1, <2>2 DEF Basic
<1>7. CASE WaitForSlot(k)
  BY <1>7 DEF WaitForSlot, Basic
<1>8. CASE CheckBitmap(k)
  <2>1. events' \in Seq(Events) /\ Len(events') <= EventCap
    <3>1. CASE events' = events
      BY <3>1 DEF Basic
    <3>2. CASE events' = Pushed(ALLOC_EVENT(at[k]))
      <4>1. at[k] \in Addrs
        BY <1>8 DEF CheckBitmap, Placed
      <4>2. ALLOC_EVENT(at[k]) \in Events
        BY <4>1, EventsOf
      <4> QED
        BY <3>2, <4>2, PushedType DEF Basic
    <3> QED
      BY <1>8, <3>1, <3>2 DEF CheckBitmap
  <2>2. vpc' \in [Sessions -> {"none", "created", "prepare", "spawn", "arm", "loop",
                             "get", "slot", "slotSleep", "check", "alloc",
                             "allocSleep", "publish", "exit", "done"}]
    BY <1>8 DEF CheckBitmap, Basic
  <2>3. allocated' \in [Addrs -> BOOLEAN]
    BY <1>8 DEF CheckBitmap, Basic
  <2>4. UNCHANGED <<phase, at, mRunning, pictq_size, bmp, mAbortRequest, epc, asked, timers, orderly>>
    BY <1>8 DEF CheckBitmap
  <2> HIDE DEF VideoStep, Moves
  <2> QED
    BY <2>1, <2>2, <2>3, <2>4 DEF Basic
<1>9. CASE WaitForBitmap(k)
  BY <1>9 DEF WaitForBitmap, Basic
<1>10. CASE Publish(k)
  <2>1. at[k] \in Addrs /\ pictq_size[at[k]] \in Int
    BY <1>10 DEF Publish, Placed, Basic
  <2>2. pictq_size' \in [Addrs -> Int]
    BY <1>10, <2>1 DEF Publish, Basic
  <2>3. bmp' \in [Addrs -> BOOLEAN]
    BY <1>10, AnyBitmapType DEF Publish
  <2>4. /\ vpc' = [vpc EXCEPT ![k] = "loop"]
        /\ UNCHANGED <<phase, at, mRunning, allocated, mAbortRequest, epc, asked, timers,
                       events, orderly>>
    BY <1>10 DEF Publish
  <2> HIDE DEF VideoStep, Moves
  <2> QED
    BY <2>2, <2>3, <2>4 DEF Basic
<1>11. CASE Finish(k)
  BY <1>11 DEF Finish, Basic
<1> QED
  BY <1>1, <1>2, <1>3, <1>4, <1>5, <1>6, <1>7, <1>8, <1>9, <1>10, <1>11

LEMMA BasicEvent ==
    ASSUME Basic, Placed, NEW k \in Sessions, EventStep(k)
    PROVE  Basic'
<1> USE DEF EventStep, Moves, heapVars, videoVars, eventVars, sdlVars, uiVars
<1>1. CASE EventLoop(k)
  BY <1>1 DEF EventLoop, Basic
<1>2. CASE TakeEvent(k)
  <2>1. /\ Head(events) \in Events /\ Tail(events) \in Seq(Events)
        /\ Len(Tail(events)) <= EventCap
    BY <1>2, EventCapAssumption DEF TakeEvent, Basic
  <2>2. Head(events).type \in {"alloc", "refresh"} /\ Head(events).data1 \in Addrs \cup {NULL}
    BY <2>1 DEF Events, ALLOC_EVENT, REFRESH_EVENT
  <2> QED
    BY <1>2, <2>1, <2>2 DEF TakeEvent, Basic
<1>3. CASE AllocPicture(k)
  <2>1. bmp' = [bmp EXCEPT ![asked[k]] = TRUE]
    BY <1>3 DEF AllocPicture
  <2>2. vpc' \in [Sessions -> {"none", "created", "prepare", "spawn", "arm", "loop",
                             "get", "slot", "slotSleep", "check", "alloc",
                             "allocSleep", "publish", "exit", "done"}]
    BY <1>3, SignalledType DEF AllocPicture
  <2> QED
    BY <1>3, <2>1, <2>2 DEF AllocPicture, Basic
<1>4. CASE Refresh(k)
  BY <1>4 DEF Refresh, TimersAfterRefresh, Basic
<1>5. CASE Consume(k)
  <2>1. vpc' \in [Sessions -> {"none", "created", "prepare", "spawn", "arm", "loop",
                             "get", "slot", "slotSleep", "check", "alloc",
                             "allocSleep", "publish", "exit", "done"}]
    BY <1>5, SignalledType DEF Consume
  <2>2. at[k] \in Addrs /\ pictq_size[at[k]] \in Int
    BY <1>5 DEF Consume, Placed, Basic
  <2>3. pictq_size' \in [Addrs -> Int]
    BY <1>5, <2>2 DEF Consume, Basic
  <2> QED
    BY <1>5, <2>1, <2>3 DEF Consume, Basic
<1> QED
  BY <1>1, <1>2, <1>3, <1>4, <1>5

LEMMA BasicTimer ==
    ASSUME Basic, TimerFires
    PROVE  Basic'
<1>1. events' \in Seq(Events) /\ Len(events') <= EventCap
  BY PushedType, EventsOf DEF TimerFires, Basic
<1> QED
  BY <1>1 DEF TimerFires, Basic, uiVars, heapVars, videoVars, eventVars

-------------------------------------------------------------------------------
(* Where the threads are.                                                  *)

LEMMA StartStage ==
    ASSUME StageInv, NEW k \in Sessions, Start(k)
    PROVE  (Ordered /\ Stages /\ Running /\ Room)'
<1>1. PICK a \in Addrs, r \in BOOLEAN :
         /\ at' = [at EXCEPT ![k] = a]
         /\ mRunning' = [mRunning EXCEPT ![a] = r]
         /\ pictq_size' = [pictq_size EXCEPT ![a] = 0]
  BY DEF Start
<1>2. /\ phase[k] = "made" /\ phase' = [phase EXCEPT ![k] = "playing"]
      /\ vpc' = [vpc EXCEPT ![k] = "created"] /\ epc' = epc
  BY DEF Start, Moves, eventVars
<1>3. \A j \in Sessions : j # k => Gone(j) /\ phase[j] \in {"none", "over"} /\ (j > k => phase[j] = "none")
  BY <1>2, Alone DEF Active
<1>4. vpc[k] = "none" /\ epc[k] = "none"
  BY <1>2 DEF StageInv, Stages, Placed, Joined
<1>5. Ordered'
  BY <1>2, <1>3 DEF StageInv, Basic, Ordered, Gone, Sessions
<1>6. Stages'
  BY <1>1, <1>2, <1>3, <1>4 DEF StageInv, Basic, Stages, Placed, Joined, Gone, Looping, Filling
<1>7. Running'
  BY <1>1, <1>2, <1>3 DEF StageInv, Basic, Running, Gone, Busy, Looping, Filling
<1>8. Room'
  BY <1>1, <1>2, <1>3, NAssumption, KAssumption DEF StageInv, Basic, Room, Gone, Filling
<1> QED
  BY <1>5, <1>6, <1>7, <1>8

LEMMA NewStage ==
    ASSUME StageInv, NEW k \in Sessions, New(k), orderly'
    PROVE  (Ordered /\ Stages /\ Running /\ Room)'
<1>1. /\ phase[k] = "none" /\ phase' = [phase EXCEPT ![k] = "made"]
      /\ UNCHANGED <<at, vpc, epc, mRunning, pictq_size>>
  BY DEF New, Moves, heapVars, videoVars, eventVars
<1>2. \A j \in Sessions : j < k => phase[j] = "over" /\ Gone(j)
  <2>1. \A j \in 1..(k - 1) : phase[j] = "over"
    BY DEF New
  <2>2. \A j \in 1..(k - 1) : Gone(j)
    BY Zenon DEF New
  <2>3. \A j \in Sessions : j < k => j \in 1..(k - 1)
    BY DEF Sessions
  <2> QED
    BY <2>1, <2>2, <2>3
<1>3. \A j \in Sessions : k < j => phase[j] = "none"
  BY <1>1 DEF StageInv, Ordered
<1>4. Ordered'
  BY <1>1, <1>2, <1>3 DEF StageInv, Basic, Ordered, Gone, Sessions
<1>5. Stages'
  BY <1>1 DEF StageInv, Basic, Stages, Placed, Joined
<1> QED
  BY <1>1, <1>4, <1>5 DEF StageInv, Running, Room

LEMMA SuspendStage ==
    ASSUME StageInv, NEW k \in Sessions, SuspendCall(k) \/ Suspending(k)
    PROVE  (Ordered /\ Stages /\ Running /\ Room)'
<1> USE DEF Moves, heapVars, videoVars, eventVars, uiVars
<1>1. /\ at' = at /\ epc' = epc /\ pictq_size' = pictq_size
      /\ \E p \in {"stopping", "join", "stopped", "over"} : phase' = [phase EXCEPT ![k] = p]
      /\ phase[k] \notin {"none", "made", "over"}
  BY DEF SuspendCall, Stop, Suspending, Wait, Join, Delete, AfterWait
<1>2. \A j \in Sessions : j # k => Gone(j) /\ phase[j] \in {"none", "over"} /\ (j > k => phase[j] = "none")
  BY <1>1, Alone DEF Active
<1>3. vpc' = vpc
  <2>1. CASE Suspending(k) /\ Delete(k)
    <3>1. \A j \in Sessions : vpc[j] \notin {"slotSleep", "allocSleep"}
      BY <1>2, <2>1 DEF Delete, StageInv, Stages, Placed, Joined, Gone
    <3>2. \A j \in Sessions : Signalled(at[k])[j] = vpc[j]
      BY <3>1, SignalledType DEF StageInv
    <3>3. Signalled(at[k]) = vpc
      BY <3>2, SignalledType DEF StageInv, Basic
    <3> QED
      BY <2>1, <3>3 DEF Delete
  <2> QED
    BY <2>1 DEF SuspendCall, Stop, Suspending, Wait, Join
<1>4. Ordered'
  BY <1>1, <1>2, <1>3 DEF StageInv, Basic, Ordered, Gone, Sessions
<1>5. Stages'
  <2>1. vpc[k] # "none" /\ at[k] \in Addrs
    BY <1>1 DEF StageInv, Stages, Placed, Joined
  <2>2. phase'[k] \notin {"none", "made", "playing"} => vpc[k] # "created"
    BY <1>1 DEF SuspendCall, Stop, Suspending, Wait, Join, Delete, StageInv, Stages, Placed, Joined, Basic
  <2>3. phase'[k] \in {"stopped", "over"} => vpc[k] \in {"exit", "done"}
    <3>1. CASE Suspending(k) /\ Wait(k)
      <4>1. phase[k] = "stopping" /\ phase' = [phase EXCEPT ![k] = AfterWait(k)]
        BY <3>1 DEF Wait
      <4>2. vpc[k] \notin {"none", "created"}
        BY <2>1, <4>1 DEF StageInv, Stages, Placed, Joined
      <4>3. ~mRunning[at[k]] => vpc[k] \notin Busy
        BY DEF StageInv, Running
      <4> QED
        BY <4>1, <4>2, <4>3 DEF AfterWait, StageInv, Basic, Busy, Looping, Filling
    <3> QED
      BY <1>1, <3>1 DEF SuspendCall, Stop, Suspending, Join, Delete, StageInv, Stages, Placed, Joined, Basic
  <2> QED
    BY <1>1, <1>3, <2>1, <2>2, <2>3 DEF StageInv, Basic, Stages, Placed, Joined
<1>6. Running'
  <2>1. CASE Suspending(k) /\ Delete(k)
    <3>1. \A j \in Sessions : vpc[j] \notin Busy
      BY <1>2, <2>1 DEF Delete, StageInv, Stages, Placed, Joined, Gone, Busy, Looping, Filling
    <3> QED
      BY <1>3, <3>1 DEF Running
  <2>2. CASE mRunning' = mRunning
    BY <1>1, <1>3, <2>2 DEF StageInv, Running
  <2> QED
    BY <2>1, <2>2 DEF SuspendCall, Stop, Suspending, Wait, Join
<1>7. Room'
  BY <1>1, <1>3 DEF StageInv, Room
<1> QED
  BY <1>4, <1>5, <1>6, <1>7

LEMMA VideoStage ==
    ASSUME StageInv, NEW k \in Sessions, VideoStep(k)
    PROVE  (Ordered /\ Stages /\ Running /\ Room)'
<1> USE DEF Moves, heapVars, videoVars, eventVars, uiVars
<1>1. phase' = phase /\ at' = at
  BY DEF VideoStep
<1>2. /\ vpc[k] \notin {"none", "done"}
      /\ \E to : vpc' = [vpc EXCEPT ![k] = to]
      /\ epc' = IF vpc[k] = "spawn" THEN [epc EXCEPT ![k] = "loop"] ELSE epc
  BY DEF VideoStep, Begin, Prepare, Spawn, Arm, LoopHead, Get, WaitForSlot,
         CheckBitmap, WaitForBitmap, Publish, Finish
<1>3. \A j \in Sessions : j # k => Gone(j) /\ (j > k => phase[j] = "none")
  BY <1>2, Alone DEF Active, Gone
<1>4. phase[k] \notin {"none", "made"} /\ at[k] \in Addrs
  BY <1>2 DEF StageInv, Stages, Placed, Joined
<1>5. Ordered'
  BY <1>1, <1>2, <1>3 DEF StageInv, Basic, Ordered, Gone, Sessions
<1>6. vpc'[k] # "none" /\ vpc'[k] # "created"
  BY DEF StageInv, Basic, VideoStep, Begin, Prepare, Spawn, Arm, LoopHead, Get, WaitForSlot,
         CheckBitmap, WaitForBitmap, Publish, Finish
<1>7. vpc[k] \in {"exit", "done"} => vpc'[k] \in {"exit", "done"}
  BY DEF StageInv, Basic, VideoStep, Begin, Prepare, Spawn, Arm, LoopHead, Get, WaitForSlot,
         CheckBitmap, WaitForBitmap, Publish, Finish
<1>8. /\ vpc'[k] \in {"prepare", "spawn"} => vpc[k] \in {"created", "prepare"}
      /\ vpc'[k] \in {"arm"} \cup Looping => vpc[k] \in {"spawn", "arm"} \cup Looping
      /\ vpc'[k] \in Busy => vpc[k] \in {"created"} \cup Busy
  BY DEF StageInv, Basic, VideoStep, Begin, Prepare, Spawn, Arm, LoopHead, Get, WaitForSlot,
         CheckBitmap, WaitForBitmap, Publish, Finish, Busy, Looping, Filling
<1>9. Stages'
  <2>1. \A j \in Sessions : j # k => vpc'[j] = vpc[j] /\ epc'[j] = epc[j]
    BY <1>2 DEF StageInv, Basic
  <2>2. vpc'[k] \in {"created", "prepare", "spawn"} => epc'[k] = "none"
    BY <1>2, <1>6, <1>8 DEF StageInv, Stages, Placed, Joined
  <2>3. vpc'[k] \in {"arm"} \cup Looping => epc'[k] # "none"
    BY <1>2, <1>8 DEF StageInv, Basic, Stages, Placed, Joined
  <2>4. phase[k] \in {"stopped", "over"} => vpc'[k] \in {"exit", "done"}
    BY <1>7 DEF StageInv, Stages, Placed, Joined
  <2> QED
    BY <1>1, <1>4, <1>6, <2>1, <2>2, <2>3, <2>4 DEF StageInv, Stages, Placed, Joined
<1>10. Running'
  <2>1. vpc'[k] \in Busy => mRunning'[at[k]]
    <3>1. CASE vpc'[k] \in Busy /\ vpc[k] = "created"
      BY <1>4, <3>1 DEF StageInv, Basic, VideoStep, Begin, Prepare, Spawn, Arm, LoopHead, Get,
         WaitForSlot, CheckBitmap, WaitForBitmap, Publish, Finish
    <3>2. CASE vpc'[k] \in Busy /\ vpc[k] \in Busy
      <4>1. mRunning[at[k]]
        BY <3>2 DEF StageInv, Running
      <4>2. mRunning' = mRunning
        <5>1. CASE Get(k)
          BY <3>2, <5>1 DEF Get, StageInv, Basic, Busy, Looping, Filling
        <5>2. CASE ~Get(k)
          BY <3>2, <5>2 DEF StageInv, Basic, VideoStep, Begin, Prepare, Spawn, Arm, LoopHead,
             WaitForSlot, CheckBitmap, WaitForBitmap, Publish, Finish, Busy, Looping, Filling
        <5> QED
          BY <5>1, <5>2
      <4> QED
        BY <4>1, <4>2
    <3> QED
      BY <1>8, <3>1, <3>2
  <2>2. \A j \in Sessions : j # k => vpc'[j] \notin Busy
    BY <1>2, <1>3 DEF StageInv, Basic, Gone, Busy, Looping, Filling
  <2> QED
    BY <1>1, <2>1, <2>2 DEF Running
<1>11. Room'
  <2>1. CASE Publish(k)
    <3>1. vpc[k] = "publish" /\ pictq_size[at[k]] < N
      BY <2>1 DEF Publish, StageInv, Room, Filling
    <3>2. \A a \in Addrs : pictq_size'[a] \in -Shortfall..N
      <4>1. pictq_size' \in {pictq_size, [pictq_size EXCEPT ![at[k]] = @ + 1]}
        BY <2>1 DEF Publish
      <4> QED
        BY <1>4, <3>1, <4>1, NAssumption, KAssumption DEF StageInv, Basic, Room
    <3>3. \A j \in Sessions : vpc'[j] \notin Filling
      BY <1>3, <2>1 DEF Publish, StageInv, Basic, Gone, Filling
    <3> QED
      BY <3>2, <3>3 DEF Room
  <2>2. CASE WaitForSlot(k)
    <3>1. pictq_size' = pictq_size
      BY <2>2 DEF VideoStep, WaitForSlot
    <3>2. vpc'[k] \in Filling => pictq_size[at[k]] < N
      BY <1>4, <2>2, NAssumption DEF WaitForSlot, Full, StageInv, Basic, Filling
    <3>3. \A j \in Sessions : j # k => vpc'[j] \notin Filling
      BY <1>2, <1>3 DEF StageInv, Basic, Gone, Filling
    <3> QED
      BY <1>1, <3>1, <3>2, <3>3 DEF StageInv, Room
  <2>3. CASE ~Publish(k) /\ ~WaitForSlot(k)
    <3>1. pictq_size' = pictq_size
      BY <2>3 DEF VideoStep, Begin, Prepare, Spawn, Arm, LoopHead, Get, CheckBitmap,
                  WaitForBitmap, Finish
    <3>2. vpc'[k] \in Filling => vpc[k] \in Filling
      BY <2>3 DEF VideoStep, Begin, Prepare, Spawn, Arm, LoopHead, Get, CheckBitmap,
                  WaitForBitmap, Finish, StageInv, Basic, Filling
    <3>3. \A j \in Sessions : j # k => vpc'[j] \notin Filling
      BY <1>2, <1>3 DEF StageInv, Basic, Gone, Filling
    <3> QED
      BY <1>1, <3>1, <3>2, <3>3 DEF StageInv, Room
  <2> QED
    BY <2>1, <2>2, <2>3
<1> QED
  BY <1>5, <1>9, <1>10, <1>11

LEMMA EventStage ==
    ASSUME StageInv, NEW k \in Sessions, EventStep(k)
    PROVE  (Ordered /\ Stages /\ Running /\ Room)'
<1> USE DEF Moves, heapVars, videoVars, eventVars, uiVars
<1>1. phase' = phase /\ at' = at
  BY DEF EventStep
<1>2. /\ epc[k] \notin {"none", "done"}
      /\ \E to : to # "none" /\ epc' = [epc EXCEPT ![k] = to]
  <2>1. CASE TakeEvent(k)
    <3>1. Head(events) \in Events
      BY <2>1 DEF TakeEvent, StageInv, Basic
    <3>2. Head(events).type # "none"
      BY <3>1 DEF Events, ALLOC_EVENT, REFRESH_EVENT
    <3> QED
      BY <2>1, <3>2 DEF TakeEvent
  <2> QED
    BY <2>1 DEF EventStep, EventLoop, AllocPicture, Refresh, Consume
<1>3. \A j \in Sessions : j # k => Gone(j) /\ (j > k => phase[j] = "none")
  BY <1>2, Alone DEF Active, Gone
<1>4. phase[k] \notin {"none", "made"} /\ at[k] \in Addrs
  BY <1>2 DEF StageInv, Stages, Placed, Joined
<1>5. mRunning' = mRunning
  BY DEF EventStep, EventLoop, TakeEvent, AllocPicture, Refresh, Consume
<1>6. /\ \A j \in Sessions : j # k => vpc'[j] = vpc[j]
      /\ vpc'[k] = vpc[k] \/ (vpc[k] = "slotSleep" /\ vpc'[k] = "slot")
                          \/ (vpc[k] = "allocSleep" /\ vpc'[k] = "alloc")
  <2>1. CASE vpc' = Signalled(at[k])
    <3>1. \A j \in Sessions : vpc'[j] =
                          IF at[j] = at[k] /\ vpc[j] = "slotSleep" THEN "slot"
                          ELSE IF at[j] = at[k] /\ vpc[j] = "allocSleep" THEN "alloc"
                          ELSE vpc[j]
      BY <2>1, SignalledType DEF StageInv
    <3>2. \A j \in Sessions : j # k => vpc[j] \in {"none", "done"}
      BY <1>3 DEF Gone
    <3> QED
      BY <3>1, <3>2
  <2>2. CASE vpc' = vpc
    BY <2>2 DEF StageInv, Basic
  <2> QED
    BY <2>1, <2>2 DEF EventStep, EventLoop, TakeEvent, AllocPicture, Refresh, Consume
<1>7. Ordered'
  BY <1>1, <1>2, <1>3, <1>6 DEF StageInv, Basic, Ordered, Gone, Sessions
<1>8. Stages'
  <2>1. vpc[k] \notin {"created", "prepare", "spawn"}
    BY <1>2 DEF StageInv, Stages, Placed, Joined
  <2>2. epc'[k] # "none" /\ \A j \in Sessions : j # k => epc'[j] = epc[j]
    BY <1>2 DEF StageInv, Basic
  <2>3. vpc'[k] \notin {"none", "created", "prepare", "spawn"}
    BY <1>4, <1>6, <2>1 DEF StageInv, Stages, Placed, Joined
  <2>4. phase[k] \in {"stopped", "over"} => vpc'[k] \in {"exit", "done"}
    BY <1>6 DEF StageInv, Stages, Placed, Joined
  <2> QED
    BY <1>1, <1>4, <1>6, <2>2, <2>3, <2>4 DEF StageInv, Stages, Placed, Joined
<1>9. Running'
  BY <1>1, <1>5, <1>6 DEF StageInv, Running, Busy, Looping, Filling
<1>10. Room'
  <2>1. \A j \in Sessions : vpc'[j] \in Filling => vpc[j] \in Filling
    BY <1>6 DEF Filling
  <2>2. CASE pictq_size' = pictq_size
    BY <1>1, <2>1, <2>2 DEF StageInv, Room
  <2>3. CASE Consume(k)
    <3>1. /\ pictq_size[at[k]] > -Shortfall
          /\ pictq_size' = [pictq_size EXCEPT ![at[k]] = @ - 1]
      BY <2>3 DEF Consume
    <3>2. \A a \in Addrs : pictq_size'[a] \in -Shortfall..N /\ pictq_size'[a] <= pictq_size[a]
      BY <1>4, <3>1, NAssumption, KAssumption DEF StageInv, Basic, Room
    <3>3. \A j \in Sessions : vpc'[j] \in Filling => at[j] \in Addrs
      BY <2>1 DEF StageInv, Stages, Placed, Joined, Filling
    <3> QED
      BY <1>1, <2>1, <3>2, <3>3, NAssumption DEF StageInv, Basic, Room
  <2> QED
    BY <2>2, <2>3 DEF EventStep, EventLoop, TakeEvent, AllocPicture, Refresh
<1> QED
  BY <1>7, <1>8, <1>9, <1>10

LEMMA StageStep ==
    ASSUME StageInv, [Next]_vars, orderly'
    PROVE  StageInv'
<1>1. CASE TimerFires
  BY <1>1, BasicTimer
  DEF TimerFires, StageInv, Ordered, Stages, Placed, Joined, Running, Room, Gone,
      uiVars, heapVars, videoVars, eventVars
<1>2. CASE UNCHANGED vars
  BY <1>2
  DEF vars, StageInv, Basic, Ordered, Stages, Placed, Joined, Running, Room, Gone,
      uiVars, heapVars, videoVars, eventVars, sdlVars
<1>3. ASSUME NEW k \in Sessions, Begun(k)
      PROVE  StageInv'
  BY <1>3, BasicUI, NewStage, StartStage DEF StageInv, Begun
<1>4. ASSUME NEW k \in Sessions, SuspendCall(k) \/ Suspending(k)
      PROVE  StageInv'
  BY <1>4, BasicUI, SuspendStage DEF StageInv
<1>5. ASSUME NEW k \in Sessions, VideoStep(k)
      PROVE  StageInv'
  BY <1>5, StagesPlaced, BasicVideo, VideoStage DEF StageInv
<1>6. ASSUME NEW k \in Sessions, EventStep(k)
      PROVE  StageInv'
  BY <1>6, StagesPlaced, BasicEvent, EventStage DEF StageInv
<1> QED
  BY <1>1, <1>2, <1>3, <1>4, <1>5, <1>6 DEF Next, Terminated

-------------------------------------------------------------------------------
(* Requests for a bitmap.                                                  *)

Asks(i) == events[i] # REFRESH_EVENT

Owner(a) ==
    \E k \in Sessions : at[k] = a /\ vpc[k] \in {"alloc", "allocSleep"} /\ ~allocated[a]

(* There is one request at most, in the queue or in hand, and a video      *)
(* thread that waits for it.                                               *)
ReqInv ==
    /\ \A i \in 1..Len(events) : Asks(i) => Owner(events[i].data1)
    /\ \A i, j \in 1..Len(events) : Asks(i) /\ Asks(j) => i = j
    /\ \A k \in Sessions : epc[k] = "alloc" => asked[k] # NULL
    /\ \A k \in Sessions : asked[k] # NULL =>
          /\ epc[k] = "alloc"
          /\ Owner(asked[k])
          /\ \A i \in 1..Len(events) : ~Asks(i)

NoRequests ==
    /\ \A i \in 1..Len(events) : ~Asks(i)
    /\ \A k \in Sessions : asked[k] = NULL /\ epc[k] # "alloc"

LEMMA NobodyAsks ==
    ASSUME ReqInv, \A a : ~Owner(a)
    PROVE  NoRequests
BY DEF ReqInv, NoRequests

LEMMA NoRequestsSuffices == NoRequests => ReqInv
BY DEF NoRequests, ReqInv

LEMMA PushedEntries ==
    ASSUME StageInv, NEW e \in Events
    PROVE  \A i \in 1..Len(Pushed(e)) :
              \/ i \in 1..Len(events) /\ Pushed(e)[i] = events[i]
              \/ i = Len(events) + 1 /\ Pushed(e)[i] = e
BY DEF Pushed, StageInv, Basic

(* A step that leaves the requests alone, and no video thread waiting for  *)
(* one goes on.                                                            *)
LEMMA RequestsFrame ==
    ASSUME ReqInv, UNCHANGED <<events, asked>>,
           \A k \in Sessions : epc[k] = "alloc" <=> epc'[k] = "alloc",
           \A a : Owner(a) => Owner(a)'
    PROVE  ReqInv'
BY DEF ReqInv, Asks

LEMMA SuspendRequests ==
    ASSUME StageInv, ReqInv, NEW k \in Sessions,
           New(k) \/ SuspendCall(k) \/ Suspending(k)
    PROVE  ReqInv'
<1>1. UNCHANGED <<events, asked, epc, at, allocated>>
  BY DEF New, SuspendCall, Stop, Suspending, Wait, Join, Delete, heapVars, videoVars,
         eventVars, sdlVars
<1>2. \A j \in Sessions : vpc[j] \in {"alloc", "allocSleep"} => vpc'[j] \in {"alloc", "allocSleep"}
  <2>1. CASE vpc' = Signalled(at[k])
    BY <2>1, SignalledType DEF StageInv
  <2> QED
    BY <2>1 DEF New, SuspendCall, Stop, Suspending, Wait, Join, Delete, heapVars, videoVars
<1> QED
  BY <1>1, <1>2, RequestsFrame DEF Owner

LEMMA StartRequests ==
    ASSUME StageInv, ReqInv, NEW k \in Sessions, Start(k)
    PROVE  ReqInv'
<1>1. vpc[k] = "none" /\ phase[k] = "made"
  BY DEF Start, Moves, StageInv, Stages, Placed, Joined
<1>2. \A j \in Sessions : vpc[j] \notin {"alloc", "allocSleep"}
  BY <1>1, Alone DEF Active, Gone
<1>3. NoRequests
  BY <1>2, NobodyAsks DEF Owner
<1>4. UNCHANGED <<events, asked, epc>>
  BY DEF Start, eventVars, sdlVars
<1>5. NoRequests'
  BY <1>3, <1>4 DEF NoRequests, Asks
<1> QED
  BY <1>5, NoRequestsSuffices, Zenon DEF NoRequests, ReqInv

LEMMA VideoRequests ==
    ASSUME StageInv, ReqInv, NEW k \in Sessions, VideoStep(k)
    PROVE  ReqInv'
<1> USE DEF Moves, heapVars, eventVars, sdlVars
<1>1. /\ at' = at /\ asked' = asked
      /\ vpc[k] \notin {"none", "done"}
      /\ \E to : vpc' = [vpc EXCEPT ![k] = to]
  BY DEF VideoStep, Begin, Prepare, Spawn, Arm, LoopHead, Get, WaitForSlot,
         CheckBitmap, WaitForBitmap, Publish, Finish, uiVars
<1>2. \A j \in Sessions : j # k => Gone(j)
  BY <1>1, Alone DEF Active, Gone
<1>3. \A j \in Sessions : epc[j] = "alloc" <=> epc'[j] = "alloc"
  BY DEF VideoStep, Begin, Prepare, Spawn, Arm, LoopHead, Get, WaitForSlot,
         CheckBitmap, WaitForBitmap, Publish, Finish, StageInv, Basic, Stages, Placed, Joined
<1>4. at[k] \in Addrs
  BY <1>1 DEF StageInv, Stages, Placed, Joined
<1>5. ASSUME \A a : ~Owner(a), events' = events
      PROVE  ReqInv'
  <2>1. NoRequests
    BY <1>5, NobodyAsks
  <2>2. NoRequests'
    BY <1>1, <1>3, <1>5, <2>1 DEF NoRequests, Asks
  <2> QED
    BY <2>2 DEF NoRequests, ReqInv
<1>6. CASE WaitForBitmap(k)
  <2>1. /\ vpc[k] = "alloc" /\ UNCHANGED <<events, allocated>>
        /\ vpc' = [vpc EXCEPT ![k] = IF Answered(k) THEN "publish" ELSE "allocSleep"]
    BY <1>6 DEF WaitForBitmap
  <2>2. mRunning[at[k]]
    BY <2>1 DEF StageInv, Running, Busy, Looping, Filling
  <2>3. CASE Answered(k)
    <3>1. allocated[at[k]]
      BY <2>2, <2>3 DEF Answered
    <3>2. \A a : ~Owner(a)
      BY <1>2, <3>1 DEF Owner, Gone
    <3> QED
      BY <1>5, <2>1, <3>2
  <2>4. CASE ~Answered(k)
    <3>1. \A j \in Sessions : vpc[j] \in {"alloc", "allocSleep"} => vpc'[j] \in {"alloc", "allocSleep"}
      BY <2>1, <2>4 DEF StageInv, Basic
    <3>2. \A a : Owner(a) => Owner(a)'
      BY <1>1, <2>1, <3>1 DEF Owner
    <3> QED
      BY <1>1, <1>3, <2>1, <3>2, RequestsFrame
  <2> QED
    BY <2>3, <2>4
<1>7. CASE CheckBitmap(k)
  <2>1. vpc[k] = "check"
    BY <1>7 DEF CheckBitmap
  <2>2. \A a : ~Owner(a)
    BY <1>2, <2>1 DEF Owner, Gone
  <2>3. CASE events' = events
    BY <1>5, <2>2, <2>3
  <2>4. CASE /\ events' = Pushed(ALLOC_EVENT(at[k]))
             /\ vpc' = [vpc EXCEPT ![k] = "alloc"]
             /\ allocated' = [allocated EXCEPT ![at[k]] = FALSE]
    <3>1. NoRequests
      BY <2>2, NobodyAsks
    <3>2. Owner(at[k])'
      BY <1>1, <1>4, <2>4 DEF Owner, StageInv, Basic
    <3>3. \A i \in 1..Len(events') :
             \/ i \in 1..Len(events) /\ events'[i] = events[i]
             \/ i = Len(events) + 1 /\ events'[i] = ALLOC_EVENT(at[k])
      BY <1>4, <2>4, PushedEntries, EventsOf
    <3>4. ALLOC_EVENT(at[k]).data1 = at[k]
      BY DEF ALLOC_EVENT
    <3>5. \A i \in 1..Len(events') :
             Asks(i)' => i = Len(events) + 1 /\ events'[i].data1 = at[k]
      BY <3>1, <3>3, <3>4 DEF NoRequests, Asks
    <3>6. \A i \in 1..Len(events') : Asks(i)' => Owner(events[i].data1)'
      BY <1>1, <3>2, <3>5 DEF Owner
    <3>7. \A j \in Sessions : asked'[j] = NULL /\ epc'[j] # "alloc"
      BY <1>1, <1>3, <3>1 DEF NoRequests
    <3> QED
      BY <3>5, <3>6, <3>7 DEF ReqInv
  <2> QED
    BY <1>7, <2>3, <2>4 DEF CheckBitmap
<1>8. CASE ~WaitForBitmap(k) /\ ~CheckBitmap(k)
  <2>1. vpc[k] \notin {"alloc", "allocSleep"} /\ events' = events
    BY <1>8 DEF VideoStep, Begin, Prepare, Spawn, Arm, LoopHead, Get, WaitForSlot,
                Publish, Finish
  <2>2. \A a : ~Owner(a)
    BY <1>2, <2>1 DEF Owner, Gone
  <2> QED
    BY <1>5, <2>1, <2>2
<1> QED
  BY <1>6, <1>7, <1>8

LEMMA EventRequests ==
    ASSUME StageInv, ReqInv, NEW k \in Sessions, EventStep(k)
    PROVE  ReqInv'
<1> USE DEF Moves, heapVars, eventVars, sdlVars
<1>1. at' = at
  BY DEF EventStep, uiVars
<1>2. epc[k] \notin {"none", "done"}
  BY DEF EventStep, EventLoop, TakeEvent, AllocPicture, Refresh, Consume
<1>3. \A j \in Sessions : j # k => Gone(j)
  BY <1>2, Alone DEF Active, Gone
<1>4. \A j \in Sessions : vpc[j] \in {"alloc", "allocSleep"} => vpc'[j] \in {"alloc", "allocSleep"}
  <2>1. CASE vpc' = Signalled(at[k])
    BY <2>1, SignalledType DEF StageInv
  <2> QED
    BY <2>1 DEF EventStep, EventLoop, TakeEvent, AllocPicture, Refresh, Consume
<1>5. CASE TakeEvent(k)
  <2> DEFINE h == Head(events)
  <2>1. /\ events # <<>> /\ events' = Tail(events) /\ h \in Events
        /\ epc' = [epc EXCEPT ![k] = h.type]
        /\ asked' = [asked EXCEPT ![k] = h.data1]
        /\ allocated' = allocated
    BY <1>5 DEF TakeEvent, StageInv, Basic
  <2>2. /\ Len(events) \in Nat /\ 1 \in 1..Len(events) /\ h = events[1]
        /\ \A i \in 1..Len(events') : i + 1 \in 1..Len(events) /\ events'[i] = events[i + 1]
    BY <2>1 DEF StageInv, Basic
  <2>3. \A j \in Sessions : j # k => epc[j] # "alloc" /\ asked[j] = NULL
    BY <1>3 DEF ReqInv, Gone
  <2>4. \A j \in Sessions : j # k => epc'[j] # "alloc" /\ asked'[j] = NULL
    BY <2>1, <2>3 DEF StageInv, Basic
  <2>5. \A a : Owner(a) => Owner(a)'
    BY <1>1, <1>4, <2>1 DEF Owner
  <2> HIDE DEF h
  <2>6. CASE h = REFRESH_EVENT
    <3>1. epc'[k] = "refresh" /\ asked'[k] = NULL
      BY <2>1, <2>6 DEF REFRESH_EVENT, StageInv, Basic
    <3>2. \A i \in 1..Len(events') : Asks(i)' => Owner(events[i].data1)'
      <4> SUFFICES ASSUME NEW i \in 1..Len(events'), Asks(i)'
                   PROVE  Owner(events[i].data1)'
        OBVIOUS
      <4>1. Asks(i + 1) /\ i + 1 \in 1..Len(events) /\ events'[i] = events[i + 1]
        BY <2>2 DEF Asks
      <4>2. PICK x : x = events[i + 1].data1
        OBVIOUS
      <4>3. Owner(x)
        BY <4>1, <4>2 DEF ReqInv
      <4>4. Owner(x)'
        BY <2>5, <4>3
      <4> QED
        BY <4>1, <4>2, <4>4 DEF Owner
    <3>3. \A i, j \in 1..Len(events') : Asks(i)' /\ Asks(j)' => i = j
      <4> SUFFICES ASSUME NEW i \in 1..Len(events'), NEW j \in 1..Len(events'),
                          Asks(i)', Asks(j)'
                   PROVE  i = j
        OBVIOUS
      <4>1. /\ Asks(i + 1) /\ i + 1 \in 1..Len(events)
            /\ Asks(j + 1) /\ j + 1 \in 1..Len(events)
        BY <2>2 DEF Asks
      <4>2. i + 1 = j + 1
        BY <4>1 DEF ReqInv
      <4> QED
        BY <4>2
    <3> QED
      BY <2>4, <3>1, <3>2, <3>3 DEF ReqInv
  <2>7. CASE h # REFRESH_EVENT
    <3>1. PICK a \in Addrs : h = ALLOC_EVENT(a)
      BY <2>1, <2>7 DEF Events
    <3>2. h.type = "alloc" /\ h.data1 = a /\ a # NULL
      BY <3>1, NullAssumption DEF ALLOC_EVENT
    <3>3. epc'[k] = "alloc" /\ asked'[k] = a
      BY <2>1, <3>2 DEF StageInv, Basic
    <3>4. Asks(1) /\ Owner(a)
      BY <2>2, <2>7, <3>2 DEF Asks, ReqInv
    <3>5. \A i \in 1..Len(events') : ~Asks(i)'
      <4> SUFFICES ASSUME NEW i \in 1..Len(events'), Asks(i)'
                   PROVE  FALSE
        OBVIOUS
      <4>1. Asks(i + 1) /\ i + 1 \in 1..Len(events)
        BY <2>2 DEF Asks
      <4>2. i + 1 = 1
        BY <2>2, <3>4, <4>1 DEF ReqInv
      <4> QED
        BY <4>2
    <3>6. Owner(a)'
      BY <2>5, <3>4
    <3> QED
      BY <2>4, <3>2, <3>3, <3>5, <3>6 DEF ReqInv
  <2> QED
    BY <2>6, <2>7
<1>6. CASE AllocPicture(k)
  <2>1. /\ epc[k] = "alloc" /\ epc' = [epc EXCEPT ![k] = "loop"]
        /\ asked' = [asked EXCEPT ![k] = NULL] /\ events' = events
    BY <1>6 DEF AllocPicture
  <2>2. \A i \in 1..Len(events) : ~Asks(i)
    BY <2>1 DEF ReqInv
  <2>3. \A j \in Sessions : j # k => epc[j] # "alloc" /\ asked[j] = NULL
    BY <1>3 DEF ReqInv, Gone
  <2>4. \A j \in Sessions : epc'[j] # "alloc" /\ asked'[j] = NULL
    BY <2>1, <2>3 DEF StageInv, Basic
  <2>5. \A i \in 1..Len(events') : ~Asks(i)'
    BY <2>1, <2>2 DEF Asks
  <2> QED
    BY <2>4, <2>5 DEF ReqInv
<1>7. CASE EventLoop(k) \/ Refresh(k) \/ Consume(k)
  <2>1. /\ UNCHANGED <<events, asked, allocated>>
        /\ epc[k] # "alloc"
        /\ \E to \in {"wait", "done", "consume", "loop"} : epc' = [epc EXCEPT ![k] = to]
    BY <1>7 DEF EventLoop, Refresh, Consume
  <2>2. \A j \in Sessions : epc[j] = "alloc" <=> epc'[j] = "alloc"
    BY <2>1 DEF StageInv, Basic
  <2>3. \A a : Owner(a) => Owner(a)'
    BY <1>1, <1>4, <2>1 DEF Owner
  <2> QED
    BY <2>1, <2>2, <2>3, RequestsFrame
<1> QED
  BY <1>5, <1>6, <1>7 DEF EventStep

LEMMA TimerRequests ==
    ASSUME StageInv, ReqInv, TimerFires
    PROVE  ReqInv'
<1>1. /\ UNCHANGED <<asked, epc, at, vpc, allocated>>
      /\ events' = Pushed(REFRESH_EVENT)
  BY DEF TimerFires, uiVars, heapVars, videoVars, eventVars
<1>2. \A i \in 1..Len(events') :
         \/ i \in 1..Len(events) /\ events'[i] = events[i]
         \/ i = Len(events) + 1 /\ events'[i] = REFRESH_EVENT
  BY <1>1, PushedEntries, EventsOf
<1>3. \A i \in 1..Len(events') : Asks(i)' =>
         Asks(i) /\ i \in 1..Len(events) /\ events'[i] = events[i]
  BY <1>2 DEF Asks
<1>4. \A a : Owner(a)' <=> Owner(a)
  BY <1>1 DEF Owner
<1>5. \A i \in 1..Len(events') : Asks(i)' => Owner(events[i].data1)'
  BY <1>1, <1>3 DEF ReqInv, Owner
<1>6. \A i, j \in 1..Len(events') : Asks(i)' /\ Asks(j)' => i = j
  BY <1>3 DEF ReqInv
<1>7. \A j \in Sessions : asked'[j] # NULL => \A i \in 1..Len(events') : ~Asks(i)'
  BY <1>1, <1>3 DEF ReqInv
<1> QED
  BY <1>1, <1>4, <1>5, <1>6, <1>7 DEF ReqInv

LEMMA RequestsStep ==
    ASSUME StageInv, ReqInv, [Next]_vars
    PROVE  ReqInv'
<1>1. CASE UNCHANGED vars
  BY <1>1 DEF vars, uiVars, heapVars, videoVars, eventVars, sdlVars, ReqInv, Asks, Owner
<1> QED
  BY <1>1, SuspendRequests, StartRequests, VideoRequests, EventRequests, TimerRequests
  DEF Next, Terminated, Begun

LEMMA RequestsImply ==
    ASSUME StageInv, ReqInv
    PROVE  RequestsLive
<1>1. ASSUME NEW a \in Addrs, ALLOC_EVENT(a) \in Requests
      PROVE  Owner(a)
  <2>1. CASE \E i \in 1..Len(events) : events[i] = ALLOC_EVENT(a)
    <3>1. PICK i \in 1..Len(events) : events[i] = ALLOC_EVENT(a)
      BY <2>1
    <3>2. Asks(i) /\ events[i].data1 = a
      BY <3>1 DEF Asks, ALLOC_EVENT, REFRESH_EVENT
    <3> QED
      BY <3>2 DEF ReqInv
  <2>2. CASE \E k \in Sessions : ALLOC_EVENT(asked[k]) = ALLOC_EVENT(a)
    <3>1. PICK k \in Sessions : asked[k] = a
      BY <2>2 DEF ALLOC_EVENT
    <3> QED
      BY <3>1, NullAssumption DEF ReqInv
  <2> QED
    BY <1>1, <2>1, <2>2 DEF Requests
<1>2. \A k \in Sessions : vpc[k] \in {"alloc", "allocSleep"} => HasDecoder(k)
  BY DEF StageInv, Basic, Stages, Placed, Joined, HasDecoder
<1> QED
  BY <1>1, <1>2 DEF RequestsLive, Owner

-------------------------------------------------------------------------------
(* The refresh chains.                                                     *)

Handed == {k \in Sessions : epc[k] = "refresh"}
Arms   == {k \in Sessions : Armed(k)}

LEMMA Counts ==
    ASSUME Basic, Placed
    PROVE  /\ Cardinality(Queued(events)) \in Nat
           /\ IsFiniteSet(Handed) /\ Cardinality(Handed) \in Nat
           /\ IsFiniteSet(Arms) /\ Cardinality(Arms) \in 0..K
           /\ timers \in Nat
<1>1. Handed \subseteq Sessions /\ Arms \subseteq Sessions
  BY DEF Handed, Arms
<1> QED
  BY <1>1, SessionSets, QueuedFinite, KAssumption DEF Basic

LEMMA SumIs ==
    RefreshesAddUp
       <=> timers + Cardinality(Queued(events)) + Cardinality(Handed) = Cardinality(Arms)
BY DEF RefreshesAddUp, Queued, Handed, Arms

(* The queue holds the refreshes, and one request.                         *)
LEMMA QueueLength ==
    ASSUME StageInv, ReqInv
    PROVE  /\ Len(events) <= Cardinality(Queued(events)) + 1
           /\ NoRequests => Len(events) = Cardinality(Queued(events))
<1>1. Len(events) \in Nat /\ events \in Seq(Events)
  BY DEF StageInv, Basic
<1>2. IsFiniteSet(1..Len(events)) /\ Cardinality(1..Len(events)) = Len(events)
  BY <1>1, FS_Interval
<1>3. IsFiniteSet(Queued(events)) /\ Cardinality(Queued(events)) \in Nat
  BY <1>1, QueuedFinite
<1>4. CASE \A i \in 1..Len(events) : ~Asks(i)
  <2>1. Queued(events) = 1..Len(events)
    BY <1>4 DEF Queued, Asks
  <2> QED
    BY <1>1, <1>2, <2>1
<1>5. CASE \E i \in 1..Len(events) : Asks(i)
  <2>1. PICK i \in 1..Len(events) : Asks(i)
    BY <1>5
  <2>2. \A j \in 1..Len(events) : j # i => ~Asks(j)
    BY <2>1 DEF ReqInv
  <2>3. 1..Len(events) = Queued(events) \cup {i}
    BY <2>1, <2>2 DEF Queued, Asks
  <2>4. Cardinality(Queued(events) \cup {i}) = Cardinality(Queued(events)) + 1
    <3>1. i \notin Queued(events)
      BY <2>1 DEF Queued, Asks
    <3> QED
      BY <1>3, <3>1, FS_AddElement
  <2>5. ~NoRequests
    BY <2>1 DEF NoRequests
  <2>6. Len(events) = Cardinality(Queued(events)) + 1
    BY <1>2, <2>3, <2>4
  <2> QED
    BY <1>1, <1>3, <2>5, <2>6
<1> QED
  BY <1>4, <1>5

(* A step that moves no refresh.                                           *)
LEMMA SumFrame ==
    ASSUME RefreshesAddUp, timers' = timers,
           Cardinality(Queued(events))' = Cardinality(Queued(events)),
           \A k \in Sessions : epc'[k] = "refresh" <=> epc[k] = "refresh",
           \A k \in Sessions : Armed(k)' <=> Armed(k)
    PROVE  RefreshesAddUp'
<1>1. Handed' = Handed /\ Arms' = Arms
  BY DEF Handed, Arms
<1> QED
  BY <1>1, SumIs DEF RefreshesAddUp, Queued, Handed, Arms

LEMMA SumSuspend ==
    ASSUME Basic, Placed, RefreshesAddUp, NEW k \in Sessions,
           Begun(k) \/ SuspendCall(k) \/ Suspending(k)
    PROVE  RefreshesAddUp'
<1>1. UNCHANGED <<timers, events, epc>>
  BY DEF Begun, New, Start, SuspendCall, Stop, Suspending, Wait, Join, Delete, eventVars, sdlVars
<1>2. \A j \in Sessions : vpc'[j] = "arm" <=> vpc[j] = "arm"
  <2>1. CASE vpc' = Signalled(at[k])
    BY <2>1, SignalledType
  <2>2. CASE Start(k)
    BY <2>2 DEF Start, Moves, Basic, Placed
  <2> QED
    BY <2>1, <2>2 DEF Begun, New, SuspendCall, Stop, Suspending, Wait, Join, Delete,
                      heapVars, videoVars
<1> QED
  BY <1>1, <1>2, SumFrame DEF Armed, Queued

LEMMA SumVideo ==
    ASSUME Basic, Placed, RefreshesAddUp, NEW k \in Sessions, VideoStep(k)
    PROVE  RefreshesAddUp'
<1> USE DEF Moves, heapVars, eventVars, sdlVars
<1>1. CASE Arm(k)
  <2>1. /\ vpc[k] = "arm" /\ vpc' = [vpc EXCEPT ![k] = "loop"]
        /\ timers' = timers + 1 /\ events' = events /\ epc' = epc
    BY <1>1 DEF Arm
  <2>2. epc[k] # "none"
    BY <2>1 DEF Placed
  <2>3. Arms' = Arms \cup {k} /\ k \notin Arms
    BY <2>1, <2>2 DEF Arms, Armed, Basic
  <2>4. Cardinality(Arms') = Cardinality(Arms) + 1
    BY <2>3, Counts, FS_AddElement
  <2>5. Handed' = Handed
    BY <2>1 DEF Handed
  <2>6. Queued(events') = Queued(events)
    BY <2>1
  <2>7. timers' + Cardinality(Queued(events')) + Cardinality(Handed') = Cardinality(Arms')
    BY <2>1, <2>4, <2>5, <2>6, Counts, SumIs
  <2> QED
    BY <2>7 DEF RefreshesAddUp, Queued, Handed, Arms
<1>2. CASE Spawn(k)
  <2>1. /\ vpc[k] = "spawn" /\ vpc' = [vpc EXCEPT ![k] = "arm"]
        /\ epc' = [epc EXCEPT ![k] = "loop"] /\ UNCHANGED <<timers, events>>
    BY <1>2 DEF Spawn
  <2>2. epc[k] = "none"
    BY <2>1 DEF Placed
  <2>3. \A j \in Sessions : Armed(j)' <=> Armed(j)
    BY <2>1, <2>2 DEF Armed, Basic
  <2>4. \A j \in Sessions : epc'[j] = "refresh" <=> epc[j] = "refresh"
    BY <2>1, <2>2 DEF Basic
  <2> QED
    BY <2>1, <2>3, <2>4, SumFrame
<1>3. CASE CheckBitmap(k)
  <2>1. /\ vpc[k] = "check" /\ UNCHANGED <<timers, epc>>
        /\ vpc' = [vpc EXCEPT ![k] = "publish"] \/ vpc' = [vpc EXCEPT ![k] = "alloc"]
    BY <1>3 DEF CheckBitmap
  <2>2. \A j \in Sessions : Armed(j)' <=> Armed(j)
    BY <2>1 DEF Armed, Basic
  <2>3. CASE events' = events
    BY <2>1, <2>2, <2>3, SumFrame
  <2>4. CASE events' = Pushed(ALLOC_EVENT(at[k]))
    <3>1. ALLOC_EVENT(at[k]) \in Events /\ ALLOC_EVENT(at[k]) # REFRESH_EVENT
      <4>1. at[k] \in Addrs
        BY <2>1 DEF Placed
      <4> QED
        BY <4>1, EventsOf DEF ALLOC_EVENT, REFRESH_EVENT
    <3>2. Pushed(ALLOC_EVENT(at[k])) \in {events, Append(events, ALLOC_EVENT(at[k]))}
      BY DEF Pushed
    <3>3. Cardinality(Queued(Append(events, ALLOC_EVENT(at[k])))) = Cardinality(Queued(events))
      BY <3>1, AppendQueued DEF Basic
    <3>4. Cardinality(Queued(events')) = Cardinality(Queued(events))
      BY <2>4, <3>2, <3>3
    <3>5. Cardinality(Queued(events))' = Cardinality(Queued(events))
      BY <3>4 DEF Queued
    <3> QED
      BY <2>1, <2>2, <3>5, SumFrame
  <2> QED
    BY <1>3, <2>3, <2>4 DEF CheckBitmap
<1>4. CASE ~Arm(k) /\ ~Spawn(k) /\ ~CheckBitmap(k)
  <2>1. /\ UNCHANGED <<timers, events, epc>>
        /\ \E to : to # "arm" /\ vpc' = [vpc EXCEPT ![k] = to]
        /\ vpc[k] # "arm"
    BY <1>4 DEF VideoStep, Begin, Prepare, LoopHead, Get, WaitForSlot, WaitForBitmap,
                Publish, Finish
  <2>2. \A j \in Sessions : Armed(j)' <=> Armed(j)
    BY <2>1 DEF Armed, Basic
  <2> QED
    BY <2>1, <2>2, SumFrame
<1> QED
  BY <1>1, <1>2, <1>3, <1>4

LEMMA SumEvent ==
    ASSUME Basic, Placed, RefreshesAddUp, NEW k \in Sessions, EventStep(k)
    PROVE  RefreshesAddUp'
<1> USE DEF Moves, heapVars, eventVars, sdlVars
<1>1. \A j \in Sessions : vpc'[j] = "arm" <=> vpc[j] = "arm"
  <2>1. CASE vpc' = Signalled(at[k])
    BY <2>1, SignalledType
  <2> QED
    BY <2>1 DEF EventStep, EventLoop, TakeEvent, AllocPicture, Refresh, Consume
<1>2. ASSUME NEW to, to # "none", epc[k] # "none", epc' = [epc EXCEPT ![k] = to]
      PROVE  \A j \in Sessions : Armed(j)' <=> Armed(j)
  BY <1>1, <1>2 DEF Armed, Basic
<1>3. CASE TakeEvent(k)
  <2>1. /\ events # <<>> /\ events' = Tail(events) /\ timers' = timers
        /\ epc[k] = "wait" /\ epc' = [epc EXCEPT ![k] = Head(events).type]
        /\ Head(events) \in Events /\ events \in Seq(Events)
    BY <1>3 DEF TakeEvent, Basic
  <2>2. Cardinality(Queued(events)) = IF Head(events) = REFRESH_EVENT
                                      THEN Cardinality(Queued(events')) + 1
                                      ELSE Cardinality(Queued(events'))
    BY <2>1, TailQueued
  <2>3. Cardinality(Queued(events')) \in Nat
    <3>1. events' \in Seq(Events)
      BY <2>1
    <3> QED
      BY <3>1, QueuedFinite
  <2>4. CASE Head(events) = REFRESH_EVENT
    <3>1. epc' = [epc EXCEPT ![k] = "refresh"]
      <4>1. REFRESH_EVENT.type = "refresh"
        BY DEF REFRESH_EVENT
      <4> QED
        BY <2>1, <2>4, <4>1
    <3>2. Handed' = Handed \cup {k} /\ k \notin Handed
      BY <2>1, <3>1 DEF Handed, Basic
    <3>3. Cardinality(Handed') = Cardinality(Handed) + 1
      BY <3>2, Counts, FS_AddElement
    <3>4. Arms' = Arms
      BY <1>2, <2>1, <3>1 DEF Arms
    <3>5. timers' + Cardinality(Queued(events')) + Cardinality(Handed') = Cardinality(Arms')
      BY <2>1, <2>2, <2>3, <2>4, <3>3, <3>4, Counts, SumIs
    <3> QED
      BY <3>5 DEF RefreshesAddUp, Queued, Handed, Arms
  <2>5. CASE Head(events) # REFRESH_EVENT
    <3>1. epc' = [epc EXCEPT ![k] = "alloc"]
      <4>1. PICK a \in Addrs : Head(events) = ALLOC_EVENT(a)
        BY <2>1, <2>5 DEF Events
      <4>2. ALLOC_EVENT(a).type = "alloc"
        BY DEF ALLOC_EVENT
      <4> QED
        BY <2>1, <4>1, <4>2
    <3>2. \A j \in Sessions : epc'[j] = "refresh" <=> epc[j] = "refresh"
      BY <2>1, <3>1 DEF Basic
    <3>3. \A j \in Sessions : Armed(j)' <=> Armed(j)
      BY <1>2, <2>1, <3>1
    <3>4. Cardinality(Queued(events))' = Cardinality(Queued(events))
      BY <2>2, <2>5 DEF Queued
    <3> QED
      BY <2>1, <3>2, <3>3, <3>4, SumFrame
  <2> QED
    BY <2>4, <2>5
<1>4. CASE Refresh(k)
  <2>1. /\ epc[k] = "refresh" /\ timers' = timers + 1 /\ events' = events
        /\ \E to \in {"consume", "loop"} : epc' = [epc EXCEPT ![k] = to]
    BY <1>4 DEF Refresh, TimersAfterRefresh
  <2>2. Handed = Handed' \cup {k} /\ k \notin Handed'
    BY <2>1 DEF Handed, Basic
  <2>3. Cardinality(Handed) = Cardinality(Handed') + 1 /\ Cardinality(Handed') \in Nat
    <3>1. IsFiniteSet(Handed') /\ Cardinality(Handed') \in Nat
      BY SessionSets DEF Handed
    <3> QED
      BY <2>2, <3>1, FS_AddElement
  <2>4. Arms' = Arms
    BY <1>2, <2>1 DEF Arms
  <2>5. Queued(events') = Queued(events)
    BY <2>1
  <2>6. timers' + Cardinality(Queued(events')) + Cardinality(Handed') = Cardinality(Arms')
    BY <2>1, <2>3, <2>4, <2>5, Counts, SumIs
  <2> QED
    BY <2>6 DEF RefreshesAddUp, Queued, Handed, Arms
<1>5. CASE EventLoop(k) \/ AllocPicture(k) \/ Consume(k)
  <2>1. /\ UNCHANGED <<timers, events>>
        /\ epc[k] \in {"loop", "alloc", "consume"}
        /\ \E to \in {"wait", "done", "loop"} : epc' = [epc EXCEPT ![k] = to]
    BY <1>5 DEF EventLoop, AllocPicture, Consume
  <2>2. \A j \in Sessions : epc'[j] = "refresh" <=> epc[j] = "refresh"
    BY <2>1 DEF Basic
  <2>3. \A j \in Sessions : Armed(j)' <=> Armed(j)
    BY <1>2, <2>1
  <2> QED
    BY <2>1, <2>2, <2>3, SumFrame
<1> QED
  BY <1>3, <1>4, <1>5 DEF EventStep

(* A timer that fires finds room.                                          *)
LEMMA SumTimer ==
    ASSUME Basic, Placed, RefreshesAddUp, TimerFires, Len(events) < EventCap
    PROVE  RefreshesAddUp'
<1>1. /\ timers > 0 /\ timers' = timers - 1 /\ events' = Pushed(REFRESH_EVENT)
      /\ UNCHANGED <<epc, vpc>>
  BY DEF TimerFires, eventVars, videoVars
<1>2. timers + Cardinality(Queued(events)) + Cardinality(Handed) = Cardinality(Arms)
  BY SumIs
<1>3. events' = Append(events, REFRESH_EVENT)
  BY <1>1 DEF Pushed
<1>4. Cardinality(Queued(events')) = Cardinality(Queued(events)) + 1
  BY <1>3, EventsOf, AppendQueued DEF Basic
<1>5. Handed' = Handed /\ Arms' = Arms
  BY <1>1 DEF Handed, Arms, Armed
<1>6. timers' + Cardinality(Queued(events')) + Cardinality(Handed') = Cardinality(Arms')
  BY <1>1, <1>2, <1>4, <1>5, Counts
<1> QED
  BY <1>6 DEF RefreshesAddUp, Queued, Handed, Arms

(* The queue has room for the refresh: that is where the number of         *)
(* sessions is bounded.                                                    *)
LEMMA RoomForRefresh ==
    ASSUME StageInv, ReqInv, RefreshesAddUp, timers > 0
    PROVE  Len(events) < EventCap
<1>1. timers + Cardinality(Queued(events)) + Cardinality(Handed) = Cardinality(Arms)
  BY SumIs
<1> QED
  BY <1>1, StagesPlaced, Counts, QueueLength, EventCapAssumption, KAssumption
  DEF StageInv, Basic

LEMMA SumStep ==
    ASSUME StageInv, ReqInv, RefreshesAddUp, [Next]_vars
    PROVE  RefreshesAddUp'
<1>1. CASE UNCHANGED vars
  BY <1>1, SumFrame DEF vars, eventVars, videoVars, sdlVars, Armed, Queued
<1> QED
  BY <1>1, StagesPlaced, SumSuspend, SumVideo, SumEvent, SumTimer, RoomForRefresh
  DEF Next, Terminated, TimerFires

-------------------------------------------------------------------------------
(* The theorems.                                                           *)

Inv == orderly => StageInv /\ ReqInv /\ RefreshesAddUp

LEMMA InvInit == Init => Inv
<1> SUFFICES ASSUME Init
             PROVE  Inv
  OBVIOUS
<1>1. StageInv
  BY BasicInit, NAssumption, KAssumption
  DEF Init, StageInv, Ordered, Stages, Placed, Joined, Running, Room, Busy, Looping, Filling
<1>2. NoRequests
  BY DEF Init, NoRequests, Asks
<1>3. RefreshesAddUp
  <2>1. Queued(events) = {} /\ Handed = {} /\ Arms = {} /\ timers = 0
    BY DEF Init, Queued, Handed, Arms, Armed
  <2> QED
    BY <2>1, FS_EmptySet, SumIs
<1> QED
  BY <1>1, <1>2, <1>3, NoRequestsSuffices DEF Inv

(* What was not orderly once stays so.                                     *)
LEMMA InvStep == Inv /\ [Next]_vars => Inv'
<1> SUFFICES ASSUME Inv, [Next]_vars, orderly'
             PROVE  (StageInv /\ ReqInv /\ RefreshesAddUp)'
  BY DEF Inv
<1>1. orderly
  <2>1. CASE \E k \in Sessions : New(k)
    BY <2>1, Zenon DEF New
  <2>2. CASE orderly' = orderly
    BY <2>2
  <2> QED
    BY <2>1, <2>2
    DEF Next, TimerFires, Terminated, Begun, Start, SuspendCall, Suspending, VideoStep,
        EventStep, vars
<1> QED
  BY <1>1, StageStep, RequestsStep, SumStep DEF Inv

LEMMA BasicTypes ==
    ASSUME StageInv
    PROVE  TypeOK
BY DEF StageInv, Basic, Room, TypeOK

(* In orderly sessions every variable keeps its type, however many         *)
(* sessions there are: the ring is never over-filled.                      *)
THEOREM TypeCorrect == Spec => [](orderly => TypeOK)
<1>1. Inv => (orderly => TypeOK)
  BY BasicTypes DEF Inv
<1> QED
  BY <1>1, InvInit, InvStep, PTL DEF Spec

(* No request for a bitmap outlives its decoder, in any number of orderly  *)
(* sessions.                                                               *)
THEOREM RequestsCorrect == Spec => []RequestsLive
<1>1. Inv => RequestsLive
  BY RequestsImply DEF Inv, RequestsLive
<1> QED
  BY <1>1, InvInit, InvStep, PTL DEF Spec

(* As long as the queue holds one event more than there are sessions, none *)
(* is ever dropped: each session has one refresh chain, for ever.          *)
THEOREM ChainsCorrect == Spec => [](orderly => RefreshesAddUp)
<1>1. Inv => (orderly => RefreshesAddUp)
  BY DEF Inv
<1> QED
  BY <1>1, InvInit, InvStep, PTL DEF Spec

-------------------------------------------------------------------------------
(* Sessions that overlap.  The threads of a session that is over may then  *)
(* run in the memory of the next one's decoder, but suspend() has aborted  *)
(* its packet queue, and only one session at a time is not aborted.        *)

Follow ==
    /\ \A k \in Sessions :
          mAbortRequest[k] <=> phase[k] \notin {"none", "made", "playing"}
    /\ \A j, k \in Sessions : j < k /\ phase[k] # "none" => phase[j] = "over"

LooseInv == Basic /\ Placed /\ Follow

LEMMA OnePlaying ==
    ASSUME LooseInv, NEW j \in Sessions, NEW k \in Sessions,
           phase[j] \notin {"none", "over"}, phase[k] \notin {"none", "over"}
    PROVE  j = k
<1>1. j \in Int /\ k \in Int
  BY DEF Sessions
<1> QED
  BY <1>1 DEF LooseInv, Follow

LEMMA LooseNew ==
    ASSUME LooseInv, NEW k \in Sessions, New(k)
    PROVE  (Placed /\ Follow)'
<1>1. /\ phase[k] = "none" /\ phase' = [phase EXCEPT ![k] = "made"]
      /\ UNCHANGED <<at, vpc, epc, mAbortRequest>>
  BY DEF New, Moves, heapVars, videoVars, eventVars
<1>2. \A j \in Sessions : j < k => phase[j] = "over"
  <2>1. \A j \in 1..(k - 1) : phase[j] = "over"
    BY DEF New
  <2>2. \A j \in Sessions : j < k => j \in 1..(k - 1)
    BY DEF Sessions
  <2> QED
    BY <2>1, <2>2
<1>3. \A j \in Sessions : k < j => phase[j] = "none"
  BY <1>1 DEF LooseInv, Follow
<1>4. \A j \in Sessions : phase'[j] = IF j = k THEN "made" ELSE phase[j]
  BY <1>1 DEF LooseInv, Basic
<1>5. Placed'
  BY <1>1, <1>4 DEF LooseInv, Placed
<1>6. \A j, i \in Sessions : j < i /\ phase'[i] # "none" => phase'[j] = "over"
  BY <1>1, <1>2, <1>3, <1>4 DEF LooseInv, Follow, Sessions
<1>7. \A j \in Sessions : mAbortRequest'[j] <=> phase'[j] \notin {"none", "made", "playing"}
  BY <1>1, <1>4 DEF LooseInv, Follow
<1> QED
  BY <1>5, <1>6, <1>7 DEF Follow

(* From the start of a session to its end the others are where they were.  *)
LEMMA LooseMove ==
    ASSUME LooseInv, NEW k \in Sessions, NEW p,
           phase' = [phase EXCEPT ![k] = p],
           phase[k] # "none", p # "none", phase[k] # "over",
           \A j \in Sessions : j # k => mAbortRequest'[j] = mAbortRequest[j],
           mAbortRequest'[k] <=> p \notin {"none", "made", "playing"}
    PROVE  Follow'
<1>1. \A j \in Sessions : phase'[j] = IF j = k THEN p ELSE phase[j]
  BY DEF LooseInv, Basic
<1>2. \A j \in Sessions : mAbortRequest'[j] <=> phase'[j] \notin {"none", "made", "playing"}
  BY <1>1 DEF LooseInv, Follow
<1>3. \A j, i \in Sessions : j < i /\ phase'[i] # "none" => phase'[j] = "over"
  <2> SUFFICES ASSUME NEW j \in Sessions, NEW i \in Sessions, j < i, phase'[i] # "none"
               PROVE  phase'[j] = "over"
    OBVIOUS
  <2>1. phase[i] # "none"
    BY <1>1
  <2>2. phase[j] = "over"
    BY <2>1 DEF LooseInv, Follow
  <2> QED
    BY <1>1, <2>2
<1> QED
  BY <1>2, <1>3 DEF Follow

LEMMA LooseStart ==
    ASSUME LooseInv, NEW k \in Sessions, Start(k)
    PROVE  (Placed /\ Follow)'
<1>1. PICK a \in Addrs : at' = [at EXCEPT ![k] = a]
  BY DEF Start
<1>2. /\ phase[k] = "made" /\ phase' = [phase EXCEPT ![k] = "playing"]
      /\ vpc' = [vpc EXCEPT ![k] = "created"] /\ epc' = epc
      /\ mAbortRequest' = mAbortRequest
  BY DEF Start, Moves, eventVars
<1>3. vpc[k] = "none" /\ epc[k] = "none"
  BY <1>2 DEF LooseInv, Placed
<1>4. \A j \in Sessions : j # k => /\ phase'[j] = phase[j] /\ vpc'[j] = vpc[j]
                                   /\ at'[j] = at[j]
  BY <1>1, <1>2 DEF LooseInv, Basic
<1>5. phase'[k] = "playing" /\ vpc'[k] = "created" /\ at'[k] = a
  BY <1>1, <1>2 DEF LooseInv, Basic
<1>6. Placed'
  BY <1>2, <1>3, <1>4, <1>5 DEF LooseInv, Placed, Looping, Filling
<1>7. mAbortRequest'[k] <=> "playing" \notin {"none", "made", "playing"}
  BY <1>2 DEF LooseInv, Follow
<1>8. Follow'
  BY <1>2, <1>7, LooseMove
<1> QED
  BY <1>6, <1>8

LEMMA LooseSuspend ==
    ASSUME LooseInv, NEW k \in Sessions, SuspendCall(k) \/ Suspending(k)
    PROVE  (Placed /\ Follow)'
<1> USE DEF Moves, heapVars, videoVars, eventVars
<1>1. /\ at' = at /\ epc' = epc
      /\ phase[k] \notin {"none", "made", "over"}
  BY DEF SuspendCall, Stop, Suspending, Wait, Join, Delete
<1>2. PICK p \in {"stopping", "join", "stopped", "over"} : phase' = [phase EXCEPT ![k] = p]
  BY DEF SuspendCall, Stop, Suspending, Wait, Join, Delete, AfterWait
<1>3. \A j \in Sessions : phase'[j] = IF j = k THEN p ELSE phase[j]
  BY <1>2 DEF LooseInv, Basic
<1>4. \A j \in Sessions : \/ vpc'[j] = vpc[j]
                          \/ vpc[j] \in Looping /\ vpc'[j] \in Looping
  <2>1. CASE vpc' = Signalled(at[k])
    BY <2>1, SignalledType DEF LooseInv, Looping, Filling
  <2>2. CASE vpc' = vpc
    BY <2>2
  <2> QED
    BY <2>1, <2>2 DEF SuspendCall, Stop, Suspending, Wait, Join, Delete
<1>5. vpc[k] # "created"
  BY DEF SuspendCall, Stop, Suspending, Wait, Join, Delete, LooseInv, Placed
<1>6. Placed'
  <2> SUFFICES ASSUME NEW j \in Sessions
               PROVE  /\ phase'[j] \in {"none", "made"} => vpc'[j] = "none" /\ epc[j] = "none"
                      /\ phase'[j] \notin {"none", "made"} => at[j] \in Addrs /\ vpc'[j] # "none"
                      /\ phase'[j] \notin {"none", "made", "playing"} => vpc'[j] # "created"
                      /\ vpc'[j] \in {"created", "prepare", "spawn"} => epc[j] = "none"
                      /\ vpc'[j] \in {"arm"} \cup Looping => epc[j] # "none"
    BY <1>1 DEF Placed
  <2>1. "none" \notin Looping /\ "created" \notin Looping /\ "prepare" \notin Looping
        /\ "spawn" \notin Looping
    BY DEF Looping, Filling
  <2> QED
    BY <1>1, <1>2, <1>3, <1>4, <1>5, <2>1 DEF LooseInv, Placed
<1>7. \A j \in Sessions : j # k => mAbortRequest'[j] = mAbortRequest[j]
  BY DEF SuspendCall, Stop, Suspending, Wait, Join, Delete, LooseInv, Basic
<1>8. mAbortRequest'[k]
  BY <1>1 DEF SuspendCall, Stop, Suspending, Wait, Join, Delete, LooseInv, Basic, Follow
<1>9. Follow'
  BY <1>1, <1>2, <1>7, <1>8, LooseMove
<1> QED
  BY <1>6, <1>9

LEMMA LooseVideo ==
    ASSUME LooseInv, NEW k \in Sessions, VideoStep(k)
    PROVE  (Placed /\ Follow)'
<1> USE DEF Moves, heapVars, videoVars, eventVars
<1>1. phase' = phase /\ at' = at /\ mAbortRequest' = mAbortRequest
  BY DEF VideoStep, uiVars
<1>2. /\ vpc[k] \notin {"none", "done"}
      /\ \E to : vpc' = [vpc EXCEPT ![k] = to]
      /\ epc' = IF vpc[k] = "spawn" THEN [epc EXCEPT ![k] = "loop"] ELSE epc
  BY DEF VideoStep, Begin, Prepare, Spawn, Arm, LoopHead, Get, WaitForSlot,
         CheckBitmap, WaitForBitmap, Publish, Finish
<1>3. /\ vpc'[k] # "none" /\ vpc'[k] # "created"
      /\ vpc'[k] \in {"prepare", "spawn"} => vpc[k] \in {"created", "prepare"}
      /\ vpc'[k] \in {"arm"} \cup Looping => vpc[k] \in {"spawn", "arm"} \cup Looping
  BY DEF LooseInv, Basic, VideoStep, Begin, Prepare, Spawn, Arm, LoopHead, Get, WaitForSlot,
         CheckBitmap, WaitForBitmap, Publish, Finish, Looping, Filling
<1>4. \A j \in Sessions : j # k => vpc'[j] = vpc[j] /\ epc'[j] = epc[j]
  BY <1>2 DEF LooseInv, Basic
<1>5. vpc'[k] \in {"created", "prepare", "spawn"} => epc'[k] = "none"
  BY <1>2, <1>3 DEF LooseInv, Placed
<1>6. vpc'[k] \in {"arm"} \cup Looping => epc'[k] # "none"
  BY <1>2, <1>3 DEF LooseInv, Basic, Placed
<1>7. phase[k] \notin {"none", "made"} /\ at[k] \in Addrs
  BY <1>2 DEF LooseInv, Placed
<1>8. Placed'
  BY <1>1, <1>3, <1>4, <1>5, <1>6, <1>7 DEF LooseInv, Placed
<1> QED
  BY <1>1, <1>8 DEF LooseInv, Follow

LEMMA LooseEvent ==
    ASSUME LooseInv, NEW k \in Sessions, EventStep(k)
    PROVE  (Placed /\ Follow)'
<1> USE DEF Moves, heapVars, videoVars, eventVars
<1>1. phase' = phase /\ at' = at /\ mAbortRequest' = mAbortRequest
  BY DEF EventStep, uiVars
<1>2. /\ epc[k] # "none"
      /\ \E to : to # "none" /\ epc' = [epc EXCEPT ![k] = to]
  <2>1. CASE TakeEvent(k)
    <3>1. Head(events) \in Events
      BY <2>1 DEF TakeEvent, LooseInv, Basic
    <3>2. Head(events).type # "none"
      BY <3>1 DEF Events, ALLOC_EVENT, REFRESH_EVENT
    <3> QED
      BY <2>1, <3>2 DEF TakeEvent
  <2> QED
    BY <2>1 DEF EventStep, EventLoop, AllocPicture, Refresh, Consume
<1>3. \A j \in Sessions : epc'[j] = "none" <=> epc[j] = "none"
  BY <1>2 DEF LooseInv, Basic
<1>4. \A j \in Sessions : \/ vpc'[j] = vpc[j]
                          \/ vpc[j] \in Looping /\ vpc'[j] \in Looping
  <2>1. CASE vpc' = Signalled(at[k])
    BY <2>1, SignalledType DEF LooseInv, Looping, Filling
  <2>2. CASE vpc' = vpc
    BY <2>2
  <2> QED
    BY <2>1, <2>2 DEF EventStep, EventLoop, TakeEvent, AllocPicture, Refresh, Consume
<1>5. "none" \notin Looping /\ "created" \notin Looping /\ "prepare" \notin Looping
        /\ "spawn" \notin Looping
  BY DEF Looping, Filling
<1>6. Placed'
  BY <1>1, <1>3, <1>4, <1>5 DEF LooseInv, Placed
<1> QED
  BY <1>1, <1>6 DEF LooseInv, Follow

LEMMA LooseInit == Init => LooseInv
BY BasicInit DEF Init, LooseInv, Placed, Follow, Looping, Filling

LEMMA LooseStep ==
    ASSUME LooseInv, [Next]_vars
    PROVE  LooseInv'
<1>1. CASE TimerFires
  BY <1>1, BasicTimer
  DEF TimerFires, LooseInv, Placed, Follow, uiVars, heapVars, videoVars, eventVars
<1>2. CASE UNCHANGED vars
  BY <1>2
  DEF vars, LooseInv, Basic, Placed, Follow, uiVars, heapVars, videoVars, eventVars, sdlVars
<1>3. ASSUME NEW k \in Sessions, Begun(k) \/ SuspendCall(k) \/ Suspending(k)
      PROVE  LooseInv'
  BY <1>3, BasicUI, LooseNew, LooseStart, LooseSuspend DEF LooseInv, Begun
<1>4. ASSUME NEW k \in Sessions, VideoStep(k)
      PROVE  LooseInv'
  BY <1>4, BasicVideo, LooseVideo DEF LooseInv
<1>5. ASSUME NEW k \in Sessions, EventStep(k)
      PROVE  LooseInv'
  BY <1>5, BasicEvent, LooseEvent DEF LooseInv
<1> QED
  BY <1>1, <1>2, <1>3, <1>4, <1>5 DEF Next, Terminated

(* A session owes a request while its video thread waits for a bitmap that *)
(* is not there yet; and when it has gone on without one, because its      *)
(* decoder does not run any more or was stopped: then there is no next     *)
(* request.  So the requests that are left behind do not pile up.          *)
Past == {"alloc", "allocSleep", "publish", "loop", "exit", "done"}

Owes(k) ==
    \/ vpc[k] \in {"alloc", "allocSleep"} /\ ~allocated[at[k]]
    \/ vpc[k] \in Past /\ ~mRunning[at[k]]
    \/ vpc[k] \in Past \cup {"get"} /\ mAbortRequest[k]

(* The first session has none before it to overlap with: what it owes does *)
(* not count any more when the second begins.                              *)
AlreadyAnother == \E j \in Sessions : j > 1 /\ phase[j] # "none"

Owing   == {k \in Sessions : Owes(k) /\ (AlreadyAnother => k > 1)}
Holding == {k \in Sessions : epc[k] = "alloc"}

RequestsOwed ==
    Len(events) - Cardinality(Queued(events)) + Cardinality(Holding) <= Cardinality(Owing)

LEMMA OwedCounts ==
    ASSUME Basic
    PROVE  /\ Len(events) \in Nat /\ Cardinality(Queued(events)) \in Nat
           /\ IsFiniteSet(Holding) /\ Cardinality(Holding) \in Nat
           /\ IsFiniteSet(Owing) /\ Cardinality(Owing) \in Nat
<1>1. Holding \subseteq Sessions /\ Owing \subseteq Sessions
  BY DEF Holding, Owing
<1>2. events \in Seq(Events)
  BY DEF Basic
<1> QED
  BY <1>1, <1>2, SessionSets, QueuedFinite

(* More can be owing at any time.                                          *)
LEMMA OwedGrows ==
    ASSUME Basic, RequestsOwed, Holding' = Holding, events' = events,
           AlreadyAnother' => AlreadyAnother,
           \A j \in Sessions : Owes(j) => Owes(j)'
    PROVE  RequestsOwed'
<1>1. Owing \subseteq Owing'
  BY DEF Owing
<1>2. Cardinality(Owing) <= Cardinality(Owing')
  <2>1. IsFiniteSet(Owing')
    BY SessionSets DEF Owing
  <2> QED
    BY <1>1, <2>1, FS_Subset
<1>3. Queued(events') = Queued(events)
  OBVIOUS
<1>4. Cardinality(Owing') \in Nat
  BY SessionSets DEF Owing
<1>5. Len(events') - Cardinality(Queued(events')) + Cardinality(Holding') <= Cardinality(Owing')
  BY <1>2, <1>3, <1>4, OwedCounts DEF RequestsOwed
<1> QED
  BY <1>5 DEF RequestsOwed, Queued

(* Who owes one without having been stopped is the session that plays.     *)
LEMMA OweOrAborted ==
    ASSUME LooseInv, NEW j \in Sessions, vpc[j] # "none", ~mAbortRequest[j]
    PROVE  phase[j] = "playing"
BY DEF LooseInv, Follow, Placed

LEMMA OwesAborted ==
    ASSUME NEW k \in Sessions, mAbortRequest[k], vpc[k] \in Past \cup {"get"}
    PROVE  Owes(k)
BY DEF Owes

LEMMA OwedUI ==
    ASSUME LooseInv, RequestsOwed, NEW k \in Sessions,
           Begun(k) \/ SuspendCall(k) \/ Suspending(k),
           AlreadyAnother' => AlreadyAnother
    PROVE  RequestsOwed'
<1> USE DEF Moves, heapVars, videoVars, eventVars, sdlVars
<1>1. UNCHANGED <<events, epc>>
  BY DEF Begun, New, Start, SuspendCall, Stop, Suspending, Wait, Join, Delete
<1>2. Holding' = Holding
  BY <1>1 DEF Holding
<1>3. CASE New(k) \/ SuspendCall(k) \/ (Suspending(k) /\ ~Delete(k))
  <2>1. /\ UNCHANGED <<at, mRunning, allocated, vpc>>
        /\ \A j \in Sessions : mAbortRequest[j] => mAbortRequest'[j]
    BY <1>3 DEF New, SuspendCall, Stop, Suspending, Wait, Join, LooseInv, Basic
  <2>2. \A j \in Sessions : Owes(j) => Owes(j)'
    BY <2>1 DEF Owes
  <2> QED
    BY <1>1, <1>2, <2>2, OwedGrows DEF LooseInv
<1>4. CASE Start(k)
  <2>1. phase[k] = "made" /\ mAbortRequest' = mAbortRequest /\ vpc' = [vpc EXCEPT ![k] = "created"]
    BY <1>4 DEF Start
  <2>2. vpc[k] = "none"
    BY <2>1 DEF LooseInv, Placed
  <2>3. ASSUME NEW j \in Sessions, Owes(j)
        PROVE  Owes(j)'
    <3>1. vpc[j] \in Past \cup {"get"} /\ vpc[j] # "none" /\ j # k
      BY <2>2, <2>3 DEF Owes, Past
    <3>2. mAbortRequest[j]
      BY <2>1, <3>1, OweOrAborted, OnePlaying
    <3>3. vpc'[j] = vpc[j]
      BY <2>1, <3>1 DEF LooseInv, Basic
    <3> QED
      BY <2>1, <3>1, <3>2, <3>3 DEF Owes
  <2> QED
    BY <1>1, <1>2, <2>3, OwedGrows DEF LooseInv
<1>5. CASE Delete(k)
  <2>1. phase[k] = "stopped" /\ mAbortRequest' = mAbortRequest /\ vpc' = Signalled(at[k])
    BY <1>5 DEF Delete
  <2>2. ASSUME NEW j \in Sessions, Owes(j)
        PROVE  Owes(j)'
    <3>1. vpc[j] \in Past \cup {"get"} /\ vpc[j] # "none"
      BY <2>2 DEF Owes, Past
    <3>2. mAbortRequest[j]
      BY <2>1, <3>1, OweOrAborted, OnePlaying
    <3>3. vpc'[j] \in Past \cup {"get"}
      BY <2>1, <3>1, SignalledType DEF LooseInv, Past
    <3> QED
      BY <2>1, <3>2, <3>3 DEF Owes
  <2> QED
    BY <1>1, <1>2, <2>2, OwedGrows DEF LooseInv
<1> QED
  BY <1>3, <1>4, <1>5 DEF Begun, Suspending

(* The video thread pays nothing back by itself.                           *)
LEMMA VideoOwes ==
    ASSUME LooseInv, NEW k \in Sessions, VideoStep(k), NEW j \in Sessions, Owes(j)
    PROVE  Owes(j)'
<1> USE DEF Moves, heapVars, eventVars, sdlVars, LooseInv
<1>1. at' = at /\ mAbortRequest' = mAbortRequest
  BY DEF VideoStep, uiVars
<1>2. /\ vpc[k] \notin {"none", "done"}
      /\ \E to : vpc' = [vpc EXCEPT ![k] = to]
  BY DEF VideoStep, Begin, Prepare, Spawn, Arm, LoopHead, Get, WaitForSlot,
         CheckBitmap, WaitForBitmap, Publish, Finish
<1>3. at[k] \in Addrs
  BY <1>2 DEF Placed
<1>4. vpc[j] \in Past \cup {"get"} /\ vpc[j] # "none"
  BY DEF Owes, Past
<1>5. at[j] \in Addrs
  BY <1>4 DEF Placed
<1>6. CASE j # k /\ mAbortRequest[j]
  BY <1>1, <1>2, <1>4, <1>6 DEF Owes, Basic
<1>7. CASE j # k /\ ~mAbortRequest[j]
  <2>1. phase[j] = "playing"
    BY <1>4, <1>7, OweOrAborted
  <2>2. vpc[k] # "created"
    <3>1. ASSUME vpc[k] = "created"
          PROVE  FALSE
      <4>1. phase[k] = "playing"
        BY <3>1 DEF Placed, Basic
      <4> QED
        BY <1>7, <2>1, <4>1, OnePlaying
    <3> QED
      BY <3>1
  <2>3. \A a \in Addrs : mRunning'[a] => mRunning[a]
    BY <1>3, <2>2 DEF Basic, VideoStep, Begin, Prepare, Spawn, Arm, LoopHead, Get, WaitForSlot,
         CheckBitmap, WaitForBitmap, Publish, Finish
  <2>4. \A a \in Addrs : allocated'[a] => allocated[a]
    BY <1>3 DEF Basic, VideoStep, Begin, Prepare, Spawn, Arm, LoopHead, Get, WaitForSlot,
         CheckBitmap, WaitForBitmap, Publish, Finish
  <2> QED
    BY <1>1, <1>2, <1>5, <1>7, <2>3, <2>4 DEF Owes, Basic
<1>8. CASE j = k
  <2>1. CASE LoopHead(k) \/ Get(k)
    BY <1>1, <1>3, <1>8, <2>1 DEF LoopHead, Get, Owes, Past, Basic
  <2>2. CASE WaitForBitmap(k)
    BY <1>1, <1>8, <2>2 DEF WaitForBitmap, Answered, Owes, Past, Basic
  <2>3. CASE Publish(k) \/ Finish(k)
    BY <1>1, <1>3, <1>8, <2>3 DEF Publish, Finish, Owes, Past, Basic
  <2> QED
    BY <1>4, <1>8, <2>1, <2>2, <2>3 DEF VideoStep, Begin, Prepare, Spawn, Arm, WaitForSlot,
       CheckBitmap, Past
<1> QED
  BY <1>6, <1>7, <1>8

(* The first session, while it is the only one, is orderly; when another   *)
(* begins, its video thread does not ask any more.                         *)
FirstAlone ==
    IF AlreadyAnother THEN \A j \in Sessions : j = 1 => vpc[j] \in {"exit", "done"}
    ELSE orderly

LEMMA OwedVideo ==
    ASSUME LooseInv, FirstAlone, RequestsOwed, NEW k \in Sessions, VideoStep(k)
    PROVE  RequestsOwed'
<1> USE DEF Moves, heapVars, eventVars, sdlVars
<1>1. \A j \in Sessions : Owes(j) => Owes(j)'
  BY VideoOwes
<1>2. Holding' = Holding
  BY DEF VideoStep, Begin, Prepare, Spawn, Arm, LoopHead, Get, WaitForSlot,
         CheckBitmap, WaitForBitmap, Publish, Finish, Holding, LooseInv, Basic, Placed
<1>0. phase' = phase
  BY DEF VideoStep, uiVars
<1>3. CASE events' = events
  BY <1>0, <1>1, <1>2, <1>3, OwedGrows DEF LooseInv, AlreadyAnother
<1>4. CASE /\ vpc[k] = "check" /\ vpc' = [vpc EXCEPT ![k] = "alloc"]
           /\ allocated' = [allocated EXCEPT ![at[k]] = FALSE]
           /\ events' = Pushed(ALLOC_EVENT(at[k]))
           /\ events' # events
  <2>1. at[k] \in Addrs
    BY <1>4 DEF LooseInv, Placed
  <2>2. events' = Append(events, ALLOC_EVENT(at[k])) /\ events \in Seq(Events)
    BY <1>4 DEF Pushed, LooseInv, Basic
  <2>3. ALLOC_EVENT(at[k]) \in Events /\ ALLOC_EVENT(at[k]) # REFRESH_EVENT
    BY <2>1, EventsOf DEF ALLOC_EVENT, REFRESH_EVENT
  <2>4. Cardinality(Queued(events')) = Cardinality(Queued(events))
    BY <2>2, <2>3, AppendQueued
  <2>5. Len(events') = Len(events) + 1
    BY <2>2
  <2>6. k \notin Owing
    BY <1>4 DEF Owing, Owes, Past
  <2>7. k \in Owing'
    <3>1. vpc'[k] = "alloc" /\ at' = at /\ ~allocated'[at[k]]
      BY <1>4, <2>1 DEF LooseInv, Basic, VideoStep, uiVars
    <3>2. AlreadyAnother' => k > 1
      <4>1. k = 1 => ~AlreadyAnother
        BY <1>4 DEF FirstAlone
      <4> QED
        BY <1>0, <4>1 DEF AlreadyAnother, Sessions
    <3> QED
      BY <3>1, <3>2 DEF Owing, Owes
  <2>8. Owing \cup {k} \subseteq Owing'
    BY <1>0, <1>1, <2>7 DEF Owing, AlreadyAnother
  <2>9. Cardinality(Owing \cup {k}) = Cardinality(Owing) + 1
    BY <2>6, OwedCounts, FS_AddElement DEF LooseInv
  <2>10. Cardinality(Owing \cup {k}) <= Cardinality(Owing') /\ Cardinality(Owing') \in Nat
    <3>1. IsFiniteSet(Owing') /\ Cardinality(Owing') \in Nat
      BY SessionSets DEF Owing
    <3> QED
      BY <2>8, <3>1, FS_Subset
  <2>11. Len(events') - Cardinality(Queued(events')) + Cardinality(Holding') <= Cardinality(Owing')
    BY <1>2, <2>4, <2>5, <2>9, <2>10, OwedCounts DEF RequestsOwed, LooseInv
  <2> QED
    BY <2>11 DEF RequestsOwed, Queued
<1> QED
  BY <1>3, <1>4 DEF VideoStep, Begin, Prepare, Spawn, Arm, LoopHead, Get, WaitForSlot,
         CheckBitmap, WaitForBitmap, Publish, Finish

(* A request that is answered is one less in hand; it takes at most the    *)
(* debt of the session that plays.                                         *)
LEMMA OwedAnswer ==
    ASSUME LooseInv, RequestsOwed, NEW k \in Sessions, AllocPicture(k),
           UNCHANGED <<phase, at, mAbortRequest>>
    PROVE  RequestsOwed'
<1> DEFINE Playing == {j \in Sessions : phase[j] = "playing"}
<1>1. /\ epc[k] = "alloc" /\ epc' = [epc EXCEPT ![k] = "loop"]
      /\ UNCHANGED <<events, mRunning>> /\ vpc' = Signalled(at[k])
  BY DEF AllocPicture, Moves, sdlVars
<1>2. Holding = Holding' \cup {k} /\ k \notin Holding'
  BY <1>1 DEF Holding, LooseInv, Basic
<1>3. Cardinality(Holding) = Cardinality(Holding') + 1 /\ Cardinality(Holding') \in Nat
  <2>1. IsFiniteSet(Holding') /\ Cardinality(Holding') \in Nat
    BY SessionSets DEF Holding
  <2> QED
    BY <1>2, <2>1, FS_AddElement
<1>4. ASSUME NEW j \in Sessions, Owes(j), j \notin Playing
      PROVE  Owes(j)'
  <2>1. vpc[j] \in Past \cup {"get"} /\ vpc[j] # "none"
    BY <1>4 DEF Owes, Past
  <2>2. mAbortRequest[j]
    BY <1>4, <2>1, OweOrAborted
  <2>3. vpc'[j] \in Past \cup {"get"}
    BY <1>1, <2>1, SignalledType DEF LooseInv, Past
  <2> QED
    BY <2>2, <2>3 DEF Owes
<1>5. \E m : Owing \subseteq Owing' \cup {m}
  <2>1. CASE Playing = {}
    BY <1>4, <2>1 DEF Owing, AlreadyAnother
  <2>2. CASE \E m : m \in Playing
    <3>1. PICK m : m \in Playing
      BY <2>2
    <3>2. \A j \in Playing : j = m
      BY <3>1, OnePlaying
    <3> QED
      BY <1>4, <3>2 DEF Owing, AlreadyAnother
  <2> QED
    BY <2>1, <2>2
<1>6. Cardinality(Owing) <= Cardinality(Owing') + 1 /\ Cardinality(Owing') \in Nat
  <2>1. PICK m : Owing \subseteq Owing' \cup {m}
    BY <1>5
  <2>2. IsFiniteSet(Owing') /\ Cardinality(Owing') \in Nat
    BY SessionSets DEF Owing
  <2>3. /\ IsFiniteSet(Owing' \cup {m})
        /\ Cardinality(Owing' \cup {m}) \in {Cardinality(Owing'), Cardinality(Owing') + 1}
    BY <2>2, FS_AddElement
  <2>4. Cardinality(Owing) <= Cardinality(Owing' \cup {m}) /\ Cardinality(Owing) \in Nat
    BY <2>1, <2>3, FS_Subset, OwedCounts DEF LooseInv
  <2> QED
    BY <2>2, <2>3, <2>4
<1>7. Queued(events') = Queued(events) /\ Len(events') = Len(events)
  BY <1>1
<1>8. Len(events') - Cardinality(Queued(events')) + Cardinality(Holding') <= Cardinality(Owing')
  BY <1>3, <1>6, <1>7, OwedCounts DEF RequestsOwed, LooseInv
<1> QED
  BY <1>8 DEF RequestsOwed, Queued

LEMMA OwedEvent ==
    ASSUME LooseInv, RequestsOwed, NEW k \in Sessions, EventStep(k)
    PROVE  RequestsOwed'
<1> USE DEF Moves, heapVars, eventVars, sdlVars
<1>1. phase' = phase /\ at' = at /\ mAbortRequest' = mAbortRequest
  BY DEF EventStep, uiVars
<1>2. CASE AllocPicture(k)
  BY <1>1, <1>2, OwedAnswer
<1>3. CASE ~AllocPicture(k)
  <2>1. /\ UNCHANGED <<mRunning, allocated>>
        /\ vpc' = vpc \/ vpc' = Signalled(at[k])
    BY <1>3 DEF EventStep, EventLoop, TakeEvent, Refresh, Consume
  <2>2. ASSUME NEW j \in Sessions, Owes(j)
        PROVE  Owes(j)'
    <3>1. /\ vpc[j] \in {"alloc", "allocSleep"} => vpc'[j] \in {"alloc", "allocSleep"}
          /\ vpc[j] \in Past => vpc'[j] \in Past
          /\ vpc[j] \in Past \cup {"get"} => vpc'[j] \in Past \cup {"get"}
      BY <2>1, SignalledType DEF LooseInv, Past
    <3> QED
      BY <1>1, <2>1, <2>2, <3>1 DEF Owes
  <2>3. CASE EventLoop(k) \/ Refresh(k) \/ Consume(k)
    <3>1. /\ events' = events /\ epc[k] # "alloc"
          /\ \E to \in {"wait", "done", "consume", "loop"} : epc' = [epc EXCEPT ![k] = to]
      BY <2>3 DEF EventLoop, Refresh, Consume
    <3>2. Holding' = Holding
      BY <3>1 DEF Holding, LooseInv, Basic
    <3> QED
      BY <1>1, <2>2, <3>1, <3>2, OwedGrows DEF LooseInv, AlreadyAnother
  <2>4. CASE TakeEvent(k)
    <3>1. /\ events # <<>> /\ events' = Tail(events) /\ epc[k] = "wait"
          /\ epc' = [epc EXCEPT ![k] = Head(events).type]
          /\ Head(events) \in Events /\ events \in Seq(Events)
      BY <2>4 DEF TakeEvent, LooseInv, Basic
    <3>2. /\ Cardinality(Queued(events)) = IF Head(events) = REFRESH_EVENT
                                           THEN Cardinality(Queued(events')) + 1
                                           ELSE Cardinality(Queued(events'))
          /\ Len(events') = Len(events) - 1 /\ events' \in Seq(Events)
      BY <3>1, TailQueued
    <3>3. Cardinality(Queued(events')) \in Nat
      BY <3>2, QueuedFinite
    <3>4. Cardinality(Holding') = IF Head(events) = REFRESH_EVENT THEN Cardinality(Holding)
                                  ELSE Cardinality(Holding) + 1
      <4>1. CASE Head(events) = REFRESH_EVENT
        <5>1. epc' = [epc EXCEPT ![k] = "refresh"]
          <6>1. REFRESH_EVENT.type = "refresh"
            BY DEF REFRESH_EVENT
          <6> QED
            BY <3>1, <4>1, <6>1
        <5>2. Holding' = Holding
          BY <3>1, <5>1 DEF Holding, LooseInv, Basic
        <5> QED
          BY <4>1, <5>2
      <4>2. CASE Head(events) # REFRESH_EVENT
        <5>1. epc' = [epc EXCEPT ![k] = "alloc"]
          <6>1. PICK a \in Addrs : Head(events) = ALLOC_EVENT(a)
            BY <3>1, <4>2 DEF Events
          <6>2. ALLOC_EVENT(a).type = "alloc"
            BY DEF ALLOC_EVENT
          <6> QED
            BY <3>1, <6>1, <6>2
        <5>2. Holding' = Holding \cup {k} /\ k \notin Holding
          BY <3>1, <5>1 DEF Holding, LooseInv, Basic
        <5> QED
          BY <4>2, <5>2, OwedCounts, FS_AddElement DEF LooseInv
      <4> QED
        BY <4>1, <4>2
    <3>5. Cardinality(Owing) <= Cardinality(Owing') /\ Cardinality(Owing') \in Nat
      <4>1. IsFiniteSet(Owing') /\ Cardinality(Owing') \in Nat
        BY SessionSets DEF Owing
      <4>2. Owing \subseteq Owing'
        BY <1>1, <2>2 DEF Owing, AlreadyAnother
      <4> QED
        BY <4>1, <4>2, FS_Subset
    <3>6. Len(events') - Cardinality(Queued(events')) + Cardinality(Holding')
             <= Cardinality(Owing')
      BY <3>2, <3>3, <3>4, <3>5, OwedCounts DEF RequestsOwed, LooseInv
    <3> QED
      BY <3>6 DEF RequestsOwed, Queued
  <2> QED
    BY <1>3, <2>3, <2>4 DEF EventStep
<1> QED
  BY <1>2, <1>3

LEMMA OwedTimer ==
    ASSUME LooseInv, RequestsOwed, TimerFires
    PROVE  RequestsOwed'
<1>1. /\ UNCHANGED <<epc, vpc, phase, at, mRunning, allocated, mAbortRequest>>
      /\ events' = Pushed(REFRESH_EVENT)
  BY DEF TimerFires, uiVars, heapVars, videoVars, eventVars
<1>2. CASE events' = events
  BY <1>1, <1>2, OwedGrows DEF LooseInv, Owes, Holding, AlreadyAnother
<1>3. CASE events' = Append(events, REFRESH_EVENT)
  <2>1. events \in Seq(Events)
    BY DEF LooseInv, Basic
  <2>2. Cardinality(Queued(events')) = Cardinality(Queued(events)) + 1
    BY <1>3, <2>1, EventsOf, AppendQueued
  <2>3. Len(events') = Len(events) + 1
    BY <1>3, <2>1
  <2>4. Holding' = Holding /\ Owing' = Owing
    BY <1>1 DEF Holding, Owing, Owes, AlreadyAnother
  <2>5. Len(events') - Cardinality(Queued(events')) + Cardinality(Holding') <= Cardinality(Owing')
    BY <2>2, <2>3, <2>4, OwedCounts DEF RequestsOwed, LooseInv
  <2> QED
    BY <2>5 DEF RequestsOwed, Queued
<1> QED
  BY <1>1, <1>2, <1>3 DEF Pushed

(* When the second session begins no request is left.                      *)
LEMMA SecondOwes ==
    ASSUME Inv, LooseInv, FirstAlone, RequestsOwed, NEW k \in Sessions, New(k),
           AlreadyAnother', ~AlreadyAnother
    PROVE  RequestsOwed' /\ FirstAlone'
<1>1. /\ phase[k] = "none" /\ phase' = [phase EXCEPT ![k] = "made"]
      /\ UNCHANGED <<events, epc, vpc>>
  BY DEF New, Moves, videoVars, eventVars, sdlVars
<1>2. StageInv /\ ReqInv
  BY Zenon DEF FirstAlone, Inv
<1>3. \A j \in Sessions : j > 1 => phase[j] = "none"
  BY DEF AlreadyAnother
<1>4. \A j \in Sessions : j # 1 => j > 1
  BY DEF Sessions
<1>5. \A j \in Sessions : j = 1 => phase[j] = "over"
  <2>1. k > 1
    BY <1>1, <1>3, <1>4 DEF AlreadyAnother, LooseInv, Basic
  <2>2. 1 \in 1..(k - 1)
    BY <2>1 DEF Sessions
  <2> QED
    BY <2>2 DEF New
<1>6. \A j \in Sessions : vpc[j] \in {"none", "exit", "done"}
  BY <1>2, <1>3, <1>4, <1>5 DEF StageInv, Stages, Placed, Joined
<1>7. NoRequests
  BY <1>2, <1>6, NobodyAsks DEF Owner
<1>8. Len(events) = Cardinality(Queued(events))
  BY <1>2, <1>7, QueueLength
<1>9. Holding' = {}
  BY <1>1, <1>7 DEF Holding, NoRequests
<1>10. Cardinality(Owing') \in Nat
  BY SessionSets DEF Owing
<1>11. Len(events') - Cardinality(Queued(events')) + Cardinality(Holding') <= Cardinality(Owing')
  BY <1>1, <1>8, <1>9, <1>10, OwedCounts, FS_EmptySet DEF LooseInv
<1>12. \A j \in Sessions : j = 1 => vpc'[j] \in {"exit", "done"}
  BY <1>1, <1>2, <1>5 DEF StageInv, Stages, Joined
<1> QED
  BY <1>11, <1>12 DEF RequestsOwed, Queued, FirstAlone

(* No other step begins a second session.                                  *)
LEMMA AnotherFrame ==
    ASSUME LooseInv, [Next]_vars, AlreadyAnother', ~AlreadyAnother
    PROVE  \E k \in Sessions : New(k)
<1>1. \A j \in Sessions : j > 1 => phase[j] = "none"
  BY DEF AlreadyAnother
<1>2. PICK j \in Sessions : j > 1 /\ phase'[j] # "none"
  BY DEF AlreadyAnother
<1>3. phase'[j] # phase[j]
  BY <1>1, <1>2
<1>4. PICK k \in Sessions : Begun(k) \/ SuspendCall(k) \/ Suspending(k)
  BY <1>3 DEF Next, TimerFires, Terminated, VideoStep, EventStep, vars, uiVars
<1>5. ASSUME ~New(k)
      PROVE  FALSE
  <2>1. phase[k] # "none" /\ \E p : phase' = [phase EXCEPT ![k] = p]
    BY <1>4, <1>5 DEF Begun, Start, SuspendCall, Stop, Suspending, Wait, Join, Delete, Moves
  <2> QED
    BY <1>1, <1>2, <2>1 DEF LooseInv, Basic
<1> QED
  BY <1>5

LEMMA FirstStep ==
    ASSUME LooseInv, FirstAlone, [Next]_vars, AlreadyAnother' <=> AlreadyAnother
    PROVE  FirstAlone'
<1>1. CASE AlreadyAnother
  <2>1. ASSUME NEW j \in Sessions, vpc[j] \in {"exit", "done"}, phase[j] \notin {"none", "made"}
        PROVE  vpc'[j] \in {"exit", "done"}
    <3>1. ASSUME NEW k \in Sessions, VideoStep(k)
          PROVE  vpc'[j] \in {"exit", "done"}
      BY <2>1, <3>1 DEF VideoStep, Begin, Prepare, Spawn, Arm, LoopHead, Get, WaitForSlot,
         CheckBitmap, WaitForBitmap, Publish, Finish, Moves, LooseInv, Basic
    <3>2. CASE \E a : vpc' = Signalled(a)
      BY <2>1, <3>2, SignalledType DEF LooseInv
    <3>3. CASE vpc' = vpc
      BY <2>1, <3>3
    <3>4. ASSUME NEW k \in Sessions, Start(k)
          PROVE  vpc'[j] \in {"exit", "done"}
      BY <2>1, <3>4 DEF Start, Moves, LooseInv, Basic
    <3>5. ASSUME NEW k \in Sessions, EventStep(k)
          PROVE  vpc' = vpc \/ \E a : vpc' = Signalled(a)
      BY <3>5 DEF EventStep, EventLoop, TakeEvent, AllocPicture, Refresh, Consume
    <3>6. ASSUME NEW k \in Sessions, New(k) \/ SuspendCall(k) \/ Suspending(k)
          PROVE  vpc' = vpc \/ \E a : vpc' = Signalled(a)
      BY <3>6 DEF New, SuspendCall, Stop, Suspending, Wait, Join, Delete, videoVars
    <3>7. TimerFires \/ Terminated \/ UNCHANGED vars => vpc' = vpc
      BY DEF TimerFires, Terminated, vars, videoVars
    <3> QED
      BY <3>1, <3>2, <3>3, <3>4, <3>5, <3>6, <3>7 DEF Next, Begun
  <2>2. \A j \in Sessions : j = 1 => vpc[j] \in {"exit", "done"} /\ phase[j] \notin {"none", "made"}
    BY <1>1 DEF FirstAlone, LooseInv, Placed
  <2> QED
    BY <1>1, <2>1, <2>2 DEF FirstAlone
<1>2. CASE ~AlreadyAnother
  <2>1. orderly
    BY <1>2, Zenon DEF FirstAlone
  <2>2. ASSUME NEW k \in Sessions, New(k)
        PROVE  orderly'
    <3>1. k = 1
      <4>1. phase'[k] = "made"
        BY <2>2 DEF New, Moves, LooseInv, Basic
      <4>2. ~(k > 1)
        BY <1>2, <4>1 DEF AlreadyAnother
      <4> QED
        BY <4>2 DEF Sessions
    <3>2. 1..(k - 1) = {}
      BY <3>1
    <3> QED
      BY <2>1, <2>2, <3>2, Zenon DEF New
  <2>3. orderly' = orderly => orderly'
    BY <2>1, Zenon
  <2>4. (\E k \in Sessions : New(k)) \/ orderly' = orderly
    BY DEF Next, TimerFires, Terminated, Begun, Start, SuspendCall, Suspending, VideoStep,
           EventStep, vars
  <2>5. orderly'
    BY <2>2, <2>3, <2>4, Zenon
  <2> QED
    BY <1>2, <2>5, Zenon DEF FirstAlone
<1> QED
  BY <1>1, <1>2

LEMMA OwedStep ==
    ASSUME Inv, LooseInv, FirstAlone, RequestsOwed, [Next]_vars
    PROVE  RequestsOwed' /\ FirstAlone'
<1>1. CASE AlreadyAnother' /\ ~AlreadyAnother
  BY <1>1, AnotherFrame, SecondOwes
<1>2. ASSUME AlreadyAnother' => AlreadyAnother
      PROVE  RequestsOwed'
  <2>1. CASE UNCHANGED vars
    <3>1. Holding' = Holding /\ events' = events
      BY <2>1 DEF vars, eventVars, sdlVars, Holding
    <3>2. \A j \in Sessions : Owes(j) => Owes(j)'
      BY <2>1 DEF vars, uiVars, heapVars, videoVars, Owes
    <3> QED
      BY <1>2, <3>1, <3>2, OwedGrows DEF LooseInv
  <2> QED
    BY <1>2, <2>1, OwedUI, OwedVideo, OwedEvent, OwedTimer DEF Next, Terminated
<1>3. AlreadyAnother => AlreadyAnother'
  <2> SUFFICES ASSUME AlreadyAnother PROVE AlreadyAnother'
    OBVIOUS
  <2>1. PICK j \in Sessions : j > 1 /\ phase[j] # "none"
    BY DEF AlreadyAnother
  <2>2. phase'[j] # "none"
    <3>1. ASSUME NEW k \in Sessions, NEW p, p # "none", phase' = [phase EXCEPT ![k] = p]
          PROVE  phase'[j] # "none"
      BY <2>1, <3>1 DEF LooseInv, Basic
    <3>2. CASE phase' = phase
      BY <2>1, <3>2
    <3>3. ASSUME NEW k \in Sessions, Begun(k) \/ SuspendCall(k) \/ Suspending(k)
          PROVE  \E p : p # "none" /\ phase' = [phase EXCEPT ![k] = p]
      BY <3>3 DEF Begun, New, Start, SuspendCall, Stop, Suspending, Wait, AfterWait, Join,
                  Delete, Moves
    <3> QED
      BY <3>1, <3>2, <3>3 DEF Next, TimerFires, Terminated, VideoStep, EventStep, vars, uiVars
  <2> QED
    BY <2>1, <2>2 DEF AlreadyAnother
<1> QED
  BY <1>1, <1>2, <1>3, FirstStep

(* Besides the sessions after the first there is no more than one that     *)
(* owes a request.                                                         *)
LEMMA OwedBound ==
    ASSUME Basic, Placed
    PROVE  Cardinality(Owing) <= IF K <= 1 THEN 1 ELSE K - 1
<1>1. /\ K \in Nat /\ Owing \subseteq Sessions
      /\ IsFiniteSet(Owing) /\ Cardinality(Owing) \in Nat
  BY KAssumption, SessionSets DEF Owing
<1>2. CASE AlreadyAnother
  <2>1. Owing \subseteq 2..K
    BY <1>1, <1>2 DEF Owing, Sessions
  <2>2. K > 1
    BY <1>1, <1>2 DEF AlreadyAnother, Sessions
  <2>3. IsFiniteSet(2..K) /\ Cardinality(2..K) = K - 1
    BY <1>1, <2>2, FS_Interval
  <2> QED
    <3>1. Cardinality(Owing) <= K - 1
      BY <2>1, <2>3, FS_Subset
    <3> QED
      BY <1>1, <2>2, <3>1
<1>3. CASE ~AlreadyAnother
  <2>1. Owing \subseteq {1}
    <3> SUFFICES ASSUME NEW j \in Owing, j # 1 PROVE FALSE
      OBVIOUS
    <3>1. j \in Sessions /\ j > 1
      BY <1>1 DEF Sessions
    <3>2. phase[j] = "none"
      BY <1>3, <3>1 DEF AlreadyAnother
    <3>3. vpc[j] = "none"
      BY <3>1, <3>2 DEF Placed
    <3> QED
      BY <3>3 DEF Owing, Owes, Past
  <2>2. IsFiniteSet({1}) /\ Cardinality({1}) = 1
    BY FS_Singleton
  <2>3. Cardinality(Owing) <= 1
    BY <2>1, <2>2, FS_Subset
  <2>4. CASE K = 0
    <3>1. Owing = {}
      BY <1>1, <2>4 DEF Sessions
    <3> QED
      BY <2>4, <3>1, FS_EmptySet
  <2> QED
    BY <1>1, <2>3, <2>4
<1> QED
  BY <1>2, <1>3

(* With two sessions or more, K - 1 refreshes and K - 1 requests at most   *)
(* are in the queue when a timer fires.                                    *)
LEMMA LooseRoom ==
    ASSUME EventCap >= 2 * K - 1, LooseInv, RequestsOwed, RefreshesAddUp, timers > 0
    PROVE  Len(events) < EventCap
<1>1. timers + Cardinality(Queued(events)) + Cardinality(Handed) = Cardinality(Arms)
  BY SumIs
<1>2. Cardinality(Queued(events)) < K
  BY <1>1, Counts, KAssumption DEF LooseInv
<1>3. Len(events) <= Cardinality(Queued(events)) + IF K <= 1 THEN 1 ELSE K - 1
  BY OwedCounts, OwedBound, KAssumption DEF LooseInv, RequestsOwed
<1> QED
  BY <1>2, <1>3, OwedCounts, EventCapAssumption, KAssumption DEF LooseInv

LooseSum == Inv /\ LooseInv /\ FirstAlone /\ RequestsOwed /\ RefreshesAddUp

LEMMA LooseSumInit == Init => LooseSum
<1> SUFFICES ASSUME Init
             PROVE  LooseSum
  OBVIOUS
<1>1. Queued(events) = {} /\ Handed = {} /\ Arms = {} /\ Holding = {} /\ timers = 0
      /\ Len(events) = 0
  BY DEF Init, Queued, Handed, Arms, Armed, Holding
<1>2. RefreshesAddUp
  BY <1>1, FS_EmptySet, SumIs
<1>3. Cardinality(Owing) \in Nat
  BY SessionSets DEF Owing
<1>4. RequestsOwed
  BY <1>1, <1>3, FS_EmptySet DEF RequestsOwed
<1>5. FirstAlone
  BY DEF Init, FirstAlone, AlreadyAnother
<1> QED
  BY <1>2, <1>4, <1>5, LooseInit, InvInit DEF LooseSum

LEMMA LooseSumStep ==
    ASSUME EventCap >= 2 * K - 1, LooseSum, [Next]_vars
    PROVE  LooseSum'
<1>1. Inv' /\ LooseInv' /\ RequestsOwed' /\ FirstAlone'
  BY InvStep, LooseStep, OwedStep DEF LooseSum
<1>2. RefreshesAddUp'
  <2>1. CASE UNCHANGED vars
    BY <2>1, SumFrame DEF LooseSum, vars, eventVars, videoVars, sdlVars, Armed, Queued
  <2>2. CASE TimerFires
    <3>1. Len(events) < EventCap
      BY <2>2, LooseRoom DEF LooseSum, TimerFires
    <3> QED
      BY <2>2, <3>1, SumTimer DEF LooseSum, LooseInv
  <2> QED
    BY <2>1, <2>2, SumSuspend, SumVideo, SumEvent DEF LooseSum, LooseInv, Next, Terminated
<1> QED
  BY <1>1, <1>2 DEF LooseSum

(* If the queue has place for two events of each session but one, none is  *)
(* ever dropped, however badly the sessions overlap: a session that was    *)
(* stopped leaves one request at most, the first none, and each has its    *)
(* one refresh chain.  (SDL's 127 places are enough for 64 sessions.)      *)
THEOREM ChainsAddUp ==
    ASSUME EventCap >= 2 * K - 1
    PROVE  Spec => []RefreshesAddUp
<1>1. LooseSum /\ [Next]_vars => LooseSum'
  BY LooseSumStep
<1>2. LooseSum => RefreshesAddUp
  BY DEF LooseSum
<1> QED
  BY <1>1, <1>2, LooseSumInit, PTL DEF Spec
===============================================================================
