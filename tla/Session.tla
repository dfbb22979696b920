-------------------------------- MODULE Session --------------------------------
(***************************************************************************)
(* Playing one film after the other.  A session is a MediaPlayer and its   *)
(* DecoderVideo, from `new MediaPlayer' to the end of suspend().  Sessions *)
(* follow each other, but they share what suspend() leaves behind:         *)
(*   - SDL's event queue and timers, which are never shut down,            *)
(*   - the event thread of an earlier session, which is never joined,      *)
(*   - the memory of the deleted decoder, to which that thread has a       *)
(*     pointer, and which malloc may give to the next decoder.             *)
(* An object's fields are therefore functions of its address.  The ring of *)
(* pictures is its size (module VideoDecoder has the rest of it), a packet *)
(* is always there, and SDL's timers are a number (OneShotTimers).         *)
(***************************************************************************)
EXTENDS Integers, Sequences, FiniteSets

CONSTANTS
    K,           \* bound: how many sessions
    Addrs,       \* addresses a DecoderVideo can have
    NULL,
    N,           \* VIDEO_PICTURE_QUEUE_SIZE
    EventCap,    \* how many events the SDL queue holds (MAXEVENTS - 1)
    Shortfall    \* bound: how far below 0 pictq_size is followed

ASSUME NullAssumption == NULL \notin Addrs
ASSUME NAssumption == N \in Nat \ {0}
ASSUME KAssumption == K \in Nat /\ Shortfall \in Nat

(* Every session leaves a refresh in SDL's hands, and one asks for a       *)
(* bitmap: that has to fit.  MAXEVENTS is 128.                             *)
ASSUME EventCapAssumption == EventCap \in Nat /\ EventCap > K

Sessions == 1..K

VARIABLES
    \* the UI thread: how far each session is, and where its decoder lies
    phase, at,
    \* the fields of the decoders, by address; allocated and bmp stand for
    \* the slot that is being filled
    mRunning, pictq_size, bmp, allocated,
    \* PacketQueue's flag, and where each session's video thread is
    mAbortRequest, vpc,
    \* where each session's event thread is, and the decoder whose slot it
    \* was asked to allocate
    epc, asked,
    \* SDL: pending timers and the event queue
    timers, events,
    \* ghost: the threads of a session were always gone when the next began
    orderly

uiVars    == <<phase, at>>
heapVars  == <<mRunning, pictq_size, bmp, allocated>>
videoVars == <<mAbortRequest, vpc>>
eventVars == <<epc, asked>>
sdlVars   == <<timers, events>>
vars == <<uiVars, heapVars, videoVars, eventVars, sdlVars, orderly>>

ALLOC_EVENT(a) == [type |-> "alloc", data1 |-> a]
REFRESH_EVENT  == [type |-> "refresh", data1 |-> NULL]
Events == {ALLOC_EVENT(a) : a \in Addrs} \cup {REFRESH_EVENT}

Init ==
    /\ phase = [k \in Sessions |-> "none"]
    /\ at = [k \in Sessions |-> NULL]
    /\ mRunning = [a \in Addrs |-> FALSE]
    /\ pictq_size = [a \in Addrs |-> 0]
    /\ bmp = [a \in Addrs |-> FALSE]
    /\ allocated = [a \in Addrs |-> FALSE]
    /\ mAbortRequest = [k \in Sessions |-> FALSE]
    /\ vpc = [k \in Sessions |-> "none"]
    /\ epc = [k \in Sessions |-> "none"]
    /\ asked = [k \in Sessions |-> NULL]
    /\ timers = 0
    /\ events = <<>>
    /\ orderly = TRUE

-------------------------------------------------------------------------------
(* Helpers.                                                                *)

HasDecoder(k) == phase[k] \in {"playing", "stopping", "join", "stopped"}
Live(a) == \E k \in Sessions : HasDecoder(k) /\ at[k] = a

Gone(k) == epc[k] \in {"none", "done"} /\ vpc[k] \in {"none", "done"}

Moves(pc, k, from, to) == pc[k] = from /\ pc' = [pc EXCEPT ![k] = to]

(* SDL_AddEvent drops what does not fit, and nobody looks. *)
Pushed(e) == IF Len(events) < EventCap THEN Append(events, e) ELSE events

\* Mutant: the event thread does not signal.
Signalled_Lost(a) == vpc

(* pthread_cond_signal on the condition variable of the decoder at a.      *)
Signalled(a) ==
    [k \in Sessions |->
        IF at[k] # a THEN vpc[k]
        ELSE CASE vpc[k] = "slotSleep"  -> "slot"
               [] vpc[k] = "allocSleep" -> "alloc"
               [] OTHER                 -> vpc[k]]

-------------------------------------------------------------------------------
(* The UI thread, and the player thread where it creates the decoder.      *)

\* new MediaPlayer, when the session before is over.
New(k) ==
    /\ Moves(phase, k, "none", "made")
    /\ \A j \in 1..(k - 1) : phase[j] = "over"
    /\ orderly' = (orderly /\ \A j \in 1..(k - 1) : Gone(j))
    /\ UNCHANGED <<at, heapVars, videoVars, eventVars, sdlVars>>

(* decodeMovie(): new DecoderVideo and startAsync().  mRunning is not set. *)
Start(k) ==
    /\ Moves(phase, k, "made", "playing")
    /\ vpc' = [vpc EXCEPT ![k] = "created"]
    /\ \E a \in {b \in Addrs : ~Live(b)}, r \in BOOLEAN :
          /\ at' = [at EXCEPT ![k] = a]
          /\ mRunning' = [mRunning EXCEPT ![a] = r]
          /\ pictq_size' = [pictq_size EXCEPT ![a] = 0]
          /\ bmp' = [bmp EXCEPT ![a] = FALSE]
          /\ allocated' = [allocated EXCEPT ![a] = FALSE]
    /\ UNCHANGED <<mAbortRequest, eventVars, sdlVars, orderly>>

(* suspend(), which finds the video thread begun: module MediaPlayer says  *)
(* what happens when it does not.                                          *)
Stop(k) ==
    /\ Moves(phase, k, "playing", "stopping")
    /\ vpc[k] # "created"
    /\ mAbortRequest' = [mAbortRequest EXCEPT ![k] = TRUE]
    /\ UNCHANGED <<at, heapVars, vpc>>

\* Mutant: the video thread is never joined.
AfterWait_NoJoin(k) == "stopped"

AfterWait(k) == IF mRunning[at[k]] THEN "join" ELSE "stopped"

Wait(k) ==
    /\ Moves(phase, k, "stopping", AfterWait(k))
    /\ UNCHANGED <<at, heapVars, videoVars>>

Join(k) ==
    /\ Moves(phase, k, "join", "stopped")
    /\ vpc[k] = "done"
    /\ UNCHANGED <<at, heapVars, videoVars>>

(* ~DecoderVideo() clears mRunning and signals; free() and whoever is      *)
(* given the memory may write over it.                                     *)
Delete(k) ==
    /\ Moves(phase, k, "stopped", "over")
    /\ \E r \in BOOLEAN : mRunning' = [mRunning EXCEPT ![at[k]] = r]
    /\ bmp' = [bmp EXCEPT ![at[k]] = FALSE]
    /\ vpc' = Signalled(at[k])
    /\ UNCHANGED <<at, pictq_size, allocated, mAbortRequest>>

Begun(k) == New(k) \/ Start(k)

Suspending(k) ==
    /\ Wait(k) \/ Join(k) \/ Delete(k)
    /\ UNCHANGED <<eventVars, sdlVars, orderly>>

-------------------------------------------------------------------------------
(* The video thread.                                                       *)

Begin(k) ==
    /\ Moves(vpc, k, "created", "prepare")
    /\ mRunning' = [mRunning EXCEPT ![at[k]] = TRUE]
    /\ UNCHANGED <<pictq_size, bmp, allocated, eventVars, sdlVars>>

Prepare(k) ==
    /\ vpc[k] = "prepare"
    /\ \E to \in {"spawn", "exit"} : vpc' = [vpc EXCEPT ![k] = to]
    /\ UNCHANGED <<heapVars, eventVars, sdlVars>>

Spawn(k) ==
    /\ Moves(vpc, k, "spawn", "arm")
    /\ epc' = [epc EXCEPT ![k] = "loop"]
    /\ UNCHANGED <<heapVars, asked, sdlVars>>

Arm(k) ==
    /\ Moves(vpc, k, "arm", "loop")
    /\ timers' = timers + 1
    /\ UNCHANGED <<heapVars, eventVars, events>>

LoopHead(k) ==
    /\ Moves(vpc, k, "loop", IF mRunning[at[k]] THEN "get" ELSE "exit")
    /\ UNCHANGED <<heapVars, eventVars, sdlVars>>

\* Another slot, or pictures of another size: a bitmap may fit or not.
AnyBitmap(k) == \E b \in BOOLEAN : bmp' = [bmp EXCEPT ![at[k]] = b]

\* get() returns -1, or a packet, which may complete a picture.
Get(k) ==
    /\ \/ /\ Moves(vpc, k, "get", "exit")
          /\ mAbortRequest[k]
          /\ mRunning' = [mRunning EXCEPT ![at[k]] = FALSE]
          /\ UNCHANGED bmp
       \/ /\ Moves(vpc, k, "get", "loop")
          /\ ~mAbortRequest[k]
          /\ UNCHANGED <<mRunning, bmp>>
       \/ /\ Moves(vpc, k, "get", "slot")
          /\ ~mAbortRequest[k]
          /\ AnyBitmap(k)
          /\ UNCHANGED mRunning
    /\ UNCHANGED <<pictq_size, allocated, eventVars, sdlVars>>

\* Mutant: the ring is taken for full one picture too late.
Full_Late(k) == pictq_size[at[k]] > N

Full(k) == pictq_size[at[k]] >= N

WaitForSlot(k) ==
    /\ Moves(vpc, k, "slot", IF ~mRunning[at[k]] THEN "exit"
                             ELSE IF Full(k) THEN "slotSleep" ELSE "check")
    /\ UNCHANGED <<heapVars, eventVars, sdlVars>>

\* A bitmap that fits, or a request for one.
CheckBitmap(k) ==
    /\ \/ /\ Moves(vpc, k, "check", "publish")
          /\ bmp[at[k]]
          /\ UNCHANGED <<allocated, events>>
       \/ /\ Moves(vpc, k, "check", "alloc")
          /\ ~bmp[at[k]]
          /\ allocated' = [allocated EXCEPT ![at[k]] = FALSE]
          /\ events' = Pushed(ALLOC_EVENT(at[k]))
    /\ UNCHANGED <<mRunning, pictq_size, bmp, eventVars, timers>>

\* Mutant: a stop ends the handshake, too.
Answered_OrAborted(k) == allocated[at[k]] \/ ~mRunning[at[k]] \/ mAbortRequest[k]

Answered(k) == allocated[at[k]] \/ ~mRunning[at[k]]

WaitForBitmap(k) ==
    /\ Moves(vpc, k, "alloc", IF Answered(k) THEN "publish" ELSE "allocSleep")
    /\ UNCHANGED <<heapVars, eventVars, sdlVars>>

\* The rest of queue_picture(): a picture that was left without a bitmap is dropped.
Publish(k) ==
    /\ Moves(vpc, k, "publish", "loop")
    /\ IF bmp[at[k]]
       THEN pictq_size' = [pictq_size EXCEPT ![at[k]] = @ + 1] /\ AnyBitmap(k)
       ELSE UNCHANGED <<pictq_size, bmp>>
    /\ UNCHANGED <<mRunning, allocated, eventVars, sdlVars>>

\* The end of startThread().
Finish(k) ==
    /\ Moves(vpc, k, "exit", "done")
    /\ mRunning' = [mRunning EXCEPT ![at[k]] = FALSE]
    /\ UNCHANGED <<pictq_size, bmp, allocated, eventVars, sdlVars>>

VideoStep(k) ==
    /\ \/ Begin(k) \/ Prepare(k) \/ Spawn(k) \/ Arm(k) \/ LoopHead(k)
       \/ Get(k) \/ WaitForSlot(k) \/ CheckBitmap(k) \/ WaitForBitmap(k)
       \/ Publish(k) \/ Finish(k)
    /\ UNCHANGED <<uiVars, mAbortRequest, orderly>>

-------------------------------------------------------------------------------
(* The event thread of session k; `this' is the decoder at at[k], whatever *)
(* has become of it.                                                       *)

\* Mutant: the loop does not look at mRunning.
GoesOn_Always(k) == TRUE

GoesOn(k) == mRunning[at[k]]

EventLoop(k) ==
    /\ Moves(epc, k, "loop", IF GoesOn(k) THEN "wait" ELSE "done")
    /\ UNCHANGED <<asked, vpc, heapVars, sdlVars>>

TakeEvent(k) ==
    /\ events # <<>>
    /\ Moves(epc, k, "wait", Head(events).type)
    /\ asked' = [asked EXCEPT ![k] = Head(events).data1]
    /\ events' = Tail(events)
    /\ UNCHANGED <<vpc, heapVars, timers>>

(* alloc_picture(): the slot is the asking decoder's, the condition        *)
(* variable this one's.                                                    *)
AllocPicture(k) ==
    /\ Moves(epc, k, "alloc", "loop")
    /\ asked' = [asked EXCEPT ![k] = NULL]
    /\ bmp' = [bmp EXCEPT ![asked[k]] = TRUE]
    /\ allocated' = [allocated EXCEPT ![asked[k]] = TRUE]
    /\ vpc' = Signalled(at[k])
    /\ UNCHANGED <<mRunning, pictq_size, sdlVars>>

Shows(k) == mRunning[at[k]] /\ pictq_size[at[k]] # 0

\* Mutant: a decoder that does not run schedules no refresh.
TimersAfterRefresh_IfRunning(k) == IF mRunning[at[k]] THEN timers + 1 ELSE timers

TimersAfterRefresh(k) == timers + 1

(* video_refresh_timer(), until the picture has been shown. *)
Refresh(k) ==
    /\ Moves(epc, k, "refresh", IF Shows(k) THEN "consume" ELSE "loop")
    /\ timers' = TimersAfterRefresh(k)
    /\ UNCHANGED <<asked, vpc, heapVars, events>>

Consume(k) ==
    /\ Moves(epc, k, "consume", "loop")
    /\ pictq_size[at[k]] > -Shortfall
    /\ pictq_size' = [pictq_size EXCEPT ![at[k]] = @ - 1]
    /\ vpc' = Signalled(at[k])
    /\ UNCHANGED <<asked, mRunning, bmp, allocated, sdlVars>>

EventStep(k) ==
    /\ \/ EventLoop(k) \/ TakeEvent(k) \/ AllocPicture(k) \/ Refresh(k)
       \/ Consume(k)
    /\ UNCHANGED <<uiVars, mAbortRequest, orderly>>

-------------------------------------------------------------------------------
TimerFires ==
    /\ timers > 0
    /\ timers' = timers - 1
    /\ events' = Pushed(REFRESH_EVENT)
    /\ UNCHANGED <<uiVars, heapVars, videoVars, eventVars, orderly>>

SuspendCall(k) == Stop(k) /\ UNCHANGED <<eventVars, sdlVars, orderly>>

(* The last session is over.  And sessions that overlap may hang for good. *)
Terminated == (phase[K] = "over" \/ ~orderly) /\ UNCHANGED vars

Next ==
    \/ TimerFires
    \/ Terminated
    \/ \E k \in Sessions :
          Begun(k) \/ SuspendCall(k) \/ Suspending(k) \/ VideoStep(k) \/ EventStep(k)

Spec == Init /\ [][Next]_vars

(* Every thread goes on when it can, timers fire, a suspend that has begun *)
(* is carried through.  Nobody has to begin or to end a session.           *)
FairSpec ==
    /\ Spec
    /\ WF_vars(TimerFires)
    /\ \A k \in Sessions :
          WF_vars(VideoStep(k)) /\ WF_vars(EventStep(k)) /\ WF_vars(Suspending(k))

-------------------------------------------------------------------------------
TypeOK ==
    /\ phase \in [Sessions -> {"none", "made", "playing", "stopping", "join",
                               "stopped", "over"}]
    /\ at \in [Sessions -> Addrs \cup {NULL}]
    /\ mRunning \in [Addrs -> BOOLEAN]
    /\ pictq_size \in [Addrs -> -Shortfall..N]
    /\ bmp \in [Addrs -> BOOLEAN]
    /\ allocated \in [Addrs -> BOOLEAN]
    /\ mAbortRequest \in [Sessions -> BOOLEAN]
    /\ vpc \in [Sessions -> {"none", "created", "prepare", "spawn", "arm", "loop",
                             "get", "slot", "slotSleep", "check", "alloc",
                             "allocSleep", "publish", "exit", "done"}]
    /\ epc \in [Sessions -> {"none", "loop", "wait", "alloc", "refresh",
                             "consume", "done"}]
    /\ asked \in [Sessions -> Addrs \cup {NULL}]
    /\ timers \in Nat
    /\ events \in Seq(Events) /\ Len(events) <= EventCap
    /\ orderly \in BOOLEAN

Armed(k) == epc[k] # "none" /\ vpc[k] # "arm"

(* Every session that ever armed the refresh has left exactly one in SDL's *)
(* hands, as a timer, an event or a call of the handler: no chain dies, so *)
(* that every event thread is woken, and none splits; but the k-th session *)
(* runs with k of them.  That holds however badly the sessions overlap, if *)
(* the queue has 2K - 1 places: decoders that are stopped may leave their  *)
(* requests behind, too.  (152-154, 254-264, 280-331; nothing ever   *)
(* removes a timer or flushes the queue)                                   *)
RefreshesAddUp ==
    timers + Cardinality({i \in 1..Len(events) : events[i] = REFRESH_EVENT})
           + Cardinality({k \in Sessions : epc[k] = "refresh"})
        = Cardinality({k \in Sessions : Armed(k)})

(* A request for a bitmap, in the queue or in hand. *)
Requests ==
    {events[i] : i \in 1..Len(events)} \cup {ALLOC_EVENT(asked[k]) : k \in Sessions}

(* A request points into a decoder that exists and that waits for it: a    *)
(* session leaves none behind for the next one's event thread.  (195-209,  *)
(* 333-354, 367)                                                           *)
RequestsLive ==
    orderly =>
      \A a \in Addrs : ALLOC_EVENT(a) \in Requests =>
        \E k \in Sessions :
            /\ HasDecoder(k) /\ at[k] = a
            /\ vpc[k] \in {"alloc", "allocSleep"}
            /\ ~allocated[a]

(* A suspend returns in every session, with all that earlier ones left in  *)
(* SDL's queue, if their threads were gone.  (340-367; IDecoder::stop)     *)
SuspendReturns ==
    \A k \in Sessions :
        phase[k] = "stopping" ~> (phase[k] = "over" \/ ~orderly)

(* The event thread that nobody joins ends by itself, if the memory it     *)
(* looks at still says that the decoder does not run, and nobody starts    *)
(* the next session before.  (356-377)                                     *)
EventThreadLeaves ==
    \A k \in Sessions :
        (orderly /\ phase[k] = "over" /\ ~mRunning[at[k]])
            ~> (Gone(k) \/ \E j \in Sessions : j > k /\ phase[j] # "none")
===============================================================================
