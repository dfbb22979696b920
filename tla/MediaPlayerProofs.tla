--------------------------- MODULE MediaPlayerProofs ---------------------------
(***************************************************************************)
(* Theorems about MediaPlayer, for any number of start()s, every length of *)
(* the film and every limit of the queues.                                 *)
(***************************************************************************)
EXTENDS MediaPlayer, TLAPS

USE PlayersAssumption, BoundsAssumption

-------------------------------------------------------------------------------
(* Types.  Pointers the code follows without a test need more than a type: *)
(* the callback's decoder is one a player thread has created.              *)

StartInv ==
    /\ upc \in {"created", "opened"} =>
          /\ \A p \in Players : ppc[p] = "none"
          /\ \A d \in Decoders : thread[d] = "none"
    /\ track = "null" =>
          /\ \A p \in Players : ppc[p] \in {"none", "newAudio", "setTrack", "done"}
          /\ \A d \in Decoders : thread[d] = "none"
    /\ upc = "suspended" => input = "closed"
    /\ \A p \in Players :
          ppc[p] \notin {"none", "newAudio"} => mDecoder["audio"] \in Players
    /\ \A p \in Players : ppc[p] = "startTrack" => trackUser \in Players
    /\ track \in {"set", "on"} => trackUser \in Players

TypeInv == TypeOK /\ StartInv

LEMMA InitTypeInv == Init => TypeInv
<1> SUFFICES ASSUME Init
             PROVE  TypeInv
  OBVIOUS
<1>1. TypeOK
  <2>1. /\ left \in 0..Film
        /\ mDecoder \in [Kinds -> Players \cup {NULL, Wild}]
        /\ ppc \in [Players -> PlayerPcs]
        /\ mRunning \in [Decoders -> BOOLEAN]
        /\ aborted \in [Decoders -> BOOLEAN]
        /\ packets \in [Decoders -> Nat]
        /\ events \in [Players -> {"none", "on", "done"}]
    BY DEF Init, PlayerPcs
  <2> QED
    BY <2>1 DEF Init, TypeOK, States, Kinds
<1>2. StartInv
  BY DEF Init, StartInv
<1> QED
  BY <1>1, <1>2 DEF TypeInv

LEMMA CrashTypeInv ==
    ASSUME TypeInv,
           NEW cause \in {"openFailed", "noInput", "noClock", "deletedTrack",
                          "deletedDecoder", "wildPointer", "noTrack",
                          "lateWrite", "lateEvents"},
           Crash(cause)
    PROVE  TypeInv'
BY DEF Crash, TypeInv, TypeOK, StartInv, playerVars, trackVars, decoderVars, uiVars

LEMMA OpeningTypeInv ==
    ASSUME TypeInv,
           SetDataSource \/ SurfaceCreated \/ SurfaceChanged \/ GetCurrentPosition
    PROVE  TypeInv'
<1> USE DEF TypeInv, TypeOK, StartInv, playerVars, trackVars, decoderVars, uiVars
<1>1. CASE SetDataSource
  BY <1>1, CrashTypeInv DEF SetDataSource
<1>2. CASE SurfaceCreated
  BY <1>2, CrashTypeInv DEF SurfaceCreated, States
<1>3. CASE SurfaceChanged
  BY <1>3 DEF SurfaceChanged, PlayerPcs
<1>4. CASE GetCurrentPosition
  BY <1>4, CrashTypeInv DEF GetCurrentPosition
<1> QED
  BY <1>1, <1>2, <1>3, <1>4

LEMMA UsableType ==
    ASSUME NEW k \in Kinds, Usable(k)
    PROVE  mDecoder[k] \in Players /\ <<k, mDecoder[k]>> \in Decoders
BY DEF Usable, Decoders

LEMMA PlayerTypeInv ==
    ASSUME TypeInv, NEW p \in Players, PlayerStep(p)
    PROVE  TypeInv'
<1> USE DEF TypeInv, TypeOK, StartInv, playerVars, trackVars, decoderVars, uiVars
<1>1. ASSUME NEW k \in Kinds, NewDecoder(p, k)
      PROVE  TypeInv'
  <2>1. <<k, p>> \in Decoders /\ ppc[p] \in {"newAudio", "newVideo"}
    BY <1>1 DEF NewDecoder, Go, Decoders
  <2>2. /\ ppc' \in [Players -> PlayerPcs]
        /\ mDecoder' \in [Kinds -> Players \cup {NULL, Wild}]
        /\ object' \in [Decoders -> {"none", "alive", "deleted"}]
        /\ mRunning' \in [Decoders -> BOOLEAN]
        /\ UNCHANGED <<crashed, mCurrentState, input, left, mPlayerThread, track,
                       trackUser, thread, packets, aborted, events, upc, ukind,
                       utarget, settled>>
    BY <1>1, <2>1 DEF NewDecoder, Go, PlayerPcs
  <2>3. StartInv'
    BY <1>1, <2>1, <2>2 DEF NewDecoder, Go, PlayerPcs, Kinds
  <2> QED
    BY <2>2, <2>3
<1>2. ASSUME NEW k \in Kinds, RunDecoder(p, k)
      PROVE  TypeInv'
  BY <1>2, UsableType DEF RunDecoder, Go, PlayerPcs, Kinds
<1>3. ASSUME NEW k \in Kinds, Enqueue(p, k)
      PROVE  TypeInv'
  BY <1>3, UsableType DEF Enqueue, Go, PlayerPcs, Kinds
<1>4. CASE SetTrack(p)
  BY <1>4 DEF SetTrack, Go, PlayerPcs, Kinds
<1>5. CASE TrackGone(p)
  BY <1>5, CrashTypeInv DEF TrackGone
<1>6. CASE PlayerControl(p)
  BY <1>6 DEF PlayerControl, Started, LoopHead, Pressure, FilmEnds, WaitAudio,
     Complete, Go, PlayerPcs, States
<1>7. CASE ReadPacket(p)
  BY <1>7 DEF ReadPacket, Go, PlayerPcs
<1>8. CASE Dangling(p)
  BY <1>8, CrashTypeInv DEF Dangling
<1> QED
  BY <1>1, <1>2, <1>3, <1>4, <1>5, <1>6, <1>7, <1>8 DEF PlayerStep

LEMMA DecoderTypeInv ==
    ASSUME TypeInv, NEW d \in Decoders, DecoderStep(d)
    PROVE  TypeInv'
<1> USE DEF TypeInv, TypeOK, StartInv, playerVars, trackVars, decoderVars, uiVars
<1> DEFINE Rest == UNCHANGED <<crashed, playerVars, ppc, trackVars, object,
                               aborted, uiVars>>
<1>1. CASE Begin(d) /\ Rest
  <2>1. thread[d] = "new"
    BY <1>1 DEF Begin
  <2>2. track # "null" /\ upc \notin {"created", "opened"}
    BY <2>1
  <2>3. /\ thread' \in [Decoders -> {"none", "new", "live", "leaving", "done"}]
        /\ mRunning' \in [Decoders -> BOOLEAN]
        /\ events' \in [Players -> {"none", "on", "done"}]
        /\ UNCHANGED packets
    BY <1>1 DEF Begin
  <2> QED
    BY <1>1, <2>2, <2>3
<1>2. CASE Consume(d) /\ Rest
  <2>1. CASE aborted[d]
    <3>1. /\ thread' \in [Decoders -> {"none", "new", "live", "leaving", "done"}]
          /\ mRunning' \in [Decoders -> BOOLEAN]
          /\ thread[d] = "live"
          /\ UNCHANGED <<packets, events>>
      BY <1>2, <2>1 DEF Consume, Leaves
    <3> QED
      BY <1>2, <3>1
  <2>2. CASE ~aborted[d]
    <3>1. packets' \in [Decoders -> Nat]
      BY <1>2, <2>2 DEF Consume
    <3> QED
      BY <1>2, <2>2, <3>1 DEF Consume
  <2> QED
    BY <2>1, <2>2
<1>3. CASE End(d) /\ Rest
  BY <1>3 DEF End
<1>4. CASE Crash("deletedDecoder") \/ Crash("lateWrite")
  BY <1>4, CrashTypeInv
<1> QED
  BY <1>1, <1>2, <1>3, <1>4 DEF DecoderStep

LEMMA EventTypeInv ==
    ASSUME TypeInv, NEW p \in Players, EventStep(p)
    PROVE  TypeInv'
<1>1. CASE Crash("lateEvents")
  BY <1>1, CrashTypeInv
<1>2. CASE ~Crash("lateEvents")
  BY <1>2 DEF EventStep, TypeInv, TypeOK, StartInv, playerVars, trackVars, uiVars
<1> QED
  BY <1>1, <1>2

LEMMA CallbackTypeInv ==
    ASSUME TypeInv, Callback
    PROVE  TypeInv'
<1>1. Heard \in Decoders
  BY DEF Callback, Heard, Decoders, Kinds, TypeInv, StartInv
<1>2. packets' \in [Decoders -> Nat]
  BY <1>1 DEF Callback, CallbackTakes, TypeInv, TypeOK
<1>3. mRunning' \in [Decoders -> BOOLEAN]
  BY DEF Callback, TypeInv, TypeOK
<1> QED
  BY <1>2, <1>3 DEF Callback, TypeInv, TypeOK, StartInv, playerVars, trackVars,
     uiVars

LEMMA SuspendTypeInv ==
    ASSUME TypeInv, Suspend \/ Suspending
    PROVE  TypeInv'
<1> USE DEF TypeInv, TypeOK, StartInv, playerVars, trackVars, decoderVars, uiVars
<1>1. CASE Suspend
  BY <1>1 DEF Suspend, Settled, States, Kinds
<1>2. CASE Stop
  <2>1. mDecoder[ukind] \in Players \cup {NULL, Wild}
    OBVIOUS
  <2>2. CASE mDecoder[ukind] = NULL
    BY <1>2, <2>2 DEF Stop, NextStop, Kinds
  <2>3. CASE mDecoder[ukind] = Wild
    BY <1>2, <2>3 DEF Stop
  <2>4. CASE mDecoder[ukind] \in Players
    <3>1. /\ upc' = "wait" /\ utarget' = mDecoder[ukind]
          /\ \E d : aborted' = [aborted EXCEPT ![d] = TRUE]
          /\ UNCHANGED <<crashed, ukind, mCurrentState, input, left, mDecoder,
                         mPlayerThread, ppc, track, trackUser, object, thread,
                         mRunning, packets, events, settled>>
      BY <1>2, <2>4, PlayersAssumption DEF Stop, AbortQueue
    <3>2. aborted' \in [Decoders -> BOOLEAN]
      BY <3>1
    <3> QED
      BY <2>4, <3>1, <3>2
  <2> QED
    BY <2>1, <2>2, <2>3, <2>4
<1>3. CASE SuspendWaits
  BY <1>3 DEF SuspendWaits, Wait, JoinPlayer, NextStop, Kinds
<1>4. CASE Release
  BY <1>4 DEF Release
<1>5. CASE Delete
  BY <1>5 DEF Delete
<1>6. CASE NoTrack
  BY <1>6, CrashTypeInv DEF NoTrack
<1> QED
  BY <1>1, <1>2, <1>3, <1>4, <1>5, <1>6 DEF Suspending

LEMMA NextTypeInv == TypeInv /\ [Next]_vars => TypeInv'
<1> SUFFICES ASSUME TypeInv, [Next]_vars
             PROVE  TypeInv'
  OBVIOUS
<1>1. CASE UNCHANGED vars
  BY <1>1 DEF vars, playerVars, trackVars, decoderVars, uiVars, TypeInv, TypeOK,
     StartInv
<1> QED
  BY <1>1, OpeningTypeInv, PlayerTypeInv, DecoderTypeInv, EventTypeInv,
     CallbackTypeInv, SuspendTypeInv DEF Next

(* Every variable has its type in every state, and the callback's decoder  *)
(* exists; in particular no queue is ever read below empty.                *)
THEOREM TypeCorrect == Spec => []TypeOK
<1>1. TypeInv => TypeOK
  BY DEF TypeInv
<1> QED
  BY <1>1, InitTypeInv, NextTypeInv, PTL DEF Spec

-------------------------------------------------------------------------------
(* The file and the file's player threads: a thread that reads has written *)
(* STARTED, so that no start() is accepted beside it.                      *)

LoopInv == \A p \in Players : InLoop(p) => mCurrentState # "PREPARED"

LEMMA NextLoopInv == TypeInv /\ LoopInv /\ [Next]_vars => LoopInv'
<1> SUFFICES ASSUME TypeInv, LoopInv, [Next]_vars
             PROVE  LoopInv'
  OBVIOUS
<1> USE DEF LoopInv, InLoop
<1>1. CASE \/ SetDataSource \/ SurfaceChanged \/ GetCurrentPosition \/ Callback
           \/ Suspend \/ Suspending \/ UNCHANGED vars
           \/ \E d \in Decoders : DecoderStep(d)
           \/ \E p \in Players : EventStep(p)
  <2>1. /\ mCurrentState' \in {mCurrentState, "STOPPED"}
        /\ \A p \in Players : ppc'[p] \in {ppc[p], "newAudio"}
    BY <1>1 DEF SetDataSource, SurfaceChanged, GetCurrentPosition, Callback, Suspend,
       Suspending, Stop, SuspendWaits, NoTrack, Release, Delete, DecoderStep, EventStep,
       Crash, vars, playerVars, TypeInv, TypeOK
  <2> QED
    BY <2>1
<1>2. CASE SurfaceCreated
  BY <1>2 DEF SurfaceCreated, Crash, playerVars, TypeInv, StartInv
<1>3. ASSUME NEW p \in Players, PlayerStep(p)
      PROVE  LoopInv'
  <2>1. ppc \in [Players -> PlayerPcs]
    BY DEF TypeInv, TypeOK
  <2>2. CASE PlayerControl(p)
    BY <2>1, <2>2 DEF PlayerControl, Started, LoopHead, Pressure, FilmEnds, WaitAudio,
       Complete, Go
  <2>3. CASE ~PlayerControl(p)
    BY <1>3, <2>1, <2>3 DEF PlayerStep, NewDecoder, RunDecoder, Enqueue, SetTrack,
       TrackGone, ReadPacket, Dangling, Crash, Go, playerVars
  <2> QED
    BY <2>2, <2>3
<1> QED
  BY <1>1, <1>2, <1>3 DEF Next

(* start() never creates a player thread while another one reads the file, *)
(* although it looks at mCurrentState only, which three threads write.     *)
THEOREM StartsCorrect == Spec => NoStartBesideLoop
<1>1. Init => LoopInv
  BY DEF Init, LoopInv, InLoop
<1>2. TypeInv /\ LoopInv /\ [Next]_vars
         => [mPlayerThread' # mPlayerThread => \A p \in Players : ~InLoop(p)]_vars
  <2> SUFFICES ASSUME LoopInv, Next, mPlayerThread' # mPlayerThread
               PROVE  \A p \in Players : ~InLoop(p)
    BY DEF vars, playerVars
  <2>1. SurfaceChanged
    BY DEF Next, SetDataSource, SurfaceCreated, GetCurrentPosition, Callback, Suspend,
       Suspending, Stop, SuspendWaits, NoTrack, Release, Delete, DecoderStep, EventStep,
       PlayerStep, NewDecoder, RunDecoder, Enqueue, SetTrack, TrackGone, PlayerControl, ReadPacket,
       Dangling, Crash, playerVars
  <2> QED
    BY <2>1 DEF SurfaceChanged, StartAccepted, LoopInv
<1> QED
  BY <1>1, <1>2, InitTypeInv, NextTypeInv, NextLoopInv, PTL DEF Spec, NoStartBesideLoop

(* Whatever suspend is under way, for whatever session: a stop that a      *)
(* player thread has yet to see is hidden from it by the STARTED of a      *)
(* thread that starts up, or by another thread's PLAYBACK_COMPLETE, and by *)
(* nothing else.                                                           *)
THEOREM StopHiddenByStart == Spec => OnlyStartHidesStop
<1>1. ASSUME TypeInv, [Next]_vars, ~UNCHANGED vars,
             NEW q \in Players, Suspends, Ahead(q), EndsLoop, ~EndsLoop'
      PROVE  \/ \E p \in Players : ppc[p] = "started"
             \/ \E p \in Players \ {q} : ppc[p] = "complete"
  <2>1. mCurrentState' # mCurrentState
    BY <1>1 DEF EndsLoop
  <2>2. PICK p \in Players : PlayerControl(p)
    BY <1>1, <2>1 DEF Next, SetDataSource, SurfaceCreated, SurfaceChanged,
       GetCurrentPosition, Callback, Suspend, Suspending, Stop, SuspendWaits, NoTrack,
       Release, Delete, DecoderStep, EventStep, PlayerStep, NewDecoder, RunDecoder,
       Enqueue, SetTrack, TrackGone, ReadPacket, Dangling, Crash, playerVars, Suspends
  <2>3. Started(p) \/ Complete(p)
    BY <1>1, <2>1, <2>2 DEF PlayerControl, LoopHead, Pressure, FilmEnds, WaitAudio,
       EndsLoop
  <2>4. ppc[p] = "started" \/ ppc[p] = "complete"
    BY <2>3 DEF Started, Complete, Go
  <2> QED
    BY <1>1, <2>4 DEF Ahead
<1>2. TypeInv /\ [Next]_vars
         => [\A q \in Players :
                Suspends /\ Ahead(q) /\ EndsLoop /\ ~EndsLoop'
                   => \/ \E p \in Players : ppc[p] = "started"
                      \/ \E p \in Players \ {q} : ppc[p] = "complete"]_vars
  BY <1>1
<1> QED
  BY <1>2, InitTypeInv, NextTypeInv, PTL DEF Spec, OnlyStartHidesStop

-------------------------------------------------------------------------------
(* Memory: what exists, and in which state the decoders' threads are.      *)

Early(k) == {"none", "newAudio"}
               \cup IF k = "video" THEN {"setTrack", "startTrack", "runAudio", "newVideo"}
                    ELSE {}

MemInv ==
    /\ \A d \in Decoders : object[d] = "deleted" => upc = "suspended"
    /\ input = "closed" => upc = "suspended"
    /\ \A k \in Kinds : mDecoder[k] \in Players => object[<<k, mDecoder[k]>>] # "none"
    /\ \A d \in Decoders : thread[d] # "none" => object[d] # "none"
    /\ \A k \in Kinds, p \in Players : ppc[p] \in Early(k) => object[<<k, p>>] = "none"
    /\ \A d \in Decoders :
          thread[d] = "live" =>
             /\ d[1] = "video"
             /\ object[d] = "alive" => mRunning[d]

LEMMA InitMemInv == Init => MemInv
BY DEF Init, MemInv, Decoders, Kinds

LEMMA PlayerMemInv ==
    ASSUME TypeInv, MemInv, NEW p \in Players, PlayerStep(p)
    PROVE  MemInv'
<1>1. /\ ppc \in [Players -> PlayerPcs]
      /\ mDecoder \in [Kinds -> Players \cup {NULL, Wild}]
      /\ object \in [Decoders -> {"none", "alive", "deleted"}]
      /\ thread \in [Decoders -> {"none", "new", "live", "leaving", "done"}]
      /\ mRunning \in [Decoders -> BOOLEAN]
  BY DEF TypeInv, TypeOK
<1>2. ASSUME NEW k \in Kinds, NewDecoder(p, k)
      PROVE  MemInv'
  <2>1. /\ mDecoder' = [mDecoder EXCEPT ![k] = p]
        /\ object' = [object EXCEPT ![<<k, p>>] = "alive"]
        /\ \A d \in Decoders : d # <<k, p>> => mRunning'[d] = mRunning[d]
        /\ UNCHANGED <<thread, upc, input>>
    BY <1>1, <1>2 DEF NewDecoder, playerVars, decoderVars, uiVars
  <2>2. object[<<k, p>>] = "none" /\ <<k, p>> \in Decoders
    BY <1>2 DEF NewDecoder, Go, MemInv, Early, Kinds, Decoders
  <2>3. thread[<<k, p>>] = "none"
    BY <2>2 DEF MemInv
  <2>4. \A q \in Players, l \in Kinds :
           ppc'[q] \in Early(l) => ppc[q] \in Early(l) /\ <<l, q>> # <<k, p>>
    BY <1>1, <1>2 DEF NewDecoder, Go, Early, Kinds
  <2>5. \A l \in Kinds : mDecoder'[l] \in Players => object'[<<l, mDecoder'[l]>>] # "none"
    BY <1>1, <2>1, <2>2 DEF MemInv, Decoders
  <2>6. \A l \in Kinds, q \in Players :
           ppc'[q] \in Early(l) => object'[<<l, q>>] = "none"
    BY <1>1, <2>1, <2>4 DEF MemInv, Decoders
  <2> QED
    BY <1>1, <2>1, <2>2, <2>3, <2>5, <2>6 DEF MemInv
<1>3. ASSUME NEW k \in Kinds, RunDecoder(p, k)
      PROVE  MemInv'
  <2>1. /\ thread' = [thread EXCEPT ![<<k, mDecoder[k]>>] = "new"]
        /\ object[<<k, mDecoder[k]>>] = "alive"
        /\ <<k, mDecoder[k]>> \in Decoders
        /\ UNCHANGED <<mDecoder, object, mRunning, upc, input>>
    BY <1>3, UsableType DEF RunDecoder, Usable, playerVars, uiVars
  <2>2. \A q \in Players, l \in Kinds : ppc'[q] \in Early(l) => ppc[q] \in Early(l)
    BY <1>1, <1>3 DEF RunDecoder, Go, Early, Kinds
  <2> QED
    BY <1>1, <2>1, <2>2 DEF MemInv
<1>4. CASE ~\E k \in Kinds : NewDecoder(p, k) \/ RunDecoder(p, k)
  <2>1. UNCHANGED <<mDecoder, object, thread, mRunning, upc, input>>
    BY <1>4 DEF PlayerStep, Enqueue, SetTrack, TrackGone, PlayerControl, ReadPacket,
       Dangling, Crash, playerVars, decoderVars, uiVars
  <2>2. \A q \in Players, l \in Kinds : ppc'[q] \in Early(l) => ppc[q] \in Early(l)
    BY <1>1, <1>4 DEF PlayerStep, Enqueue, SetTrack, TrackGone, PlayerControl, Started,
       LoopHead, Pressure, FilmEnds, WaitAudio, Complete, ReadPacket, Dangling, Crash,
       Go, Early, Kinds
  <2> QED
    BY <2>1, <2>2 DEF MemInv
<1> QED
  BY <1>2, <1>3, <1>4

LEMMA DecoderMemInv ==
    ASSUME TypeInv, MemInv, NEW d \in Decoders, DecoderStep(d)
    PROVE  MemInv'
<1>1. /\ thread \in [Decoders -> {"none", "new", "live", "leaving", "done"}]
      /\ mRunning \in [Decoders -> BOOLEAN]
  BY DEF TypeInv, TypeOK
<1>2. UNCHANGED <<mDecoder, object, upc, input, ppc>>
  BY DEF DecoderStep, Crash, playerVars, decoderVars, uiVars
<1>3. \A e \in Decoders :
         /\ thread'[e] # "none" => thread[e] # "none"
         /\ thread'[e] = "live" =>
               /\ e[1] = "video"
               /\ object[e] = "alive" => mRunning'[e]
  <2>1. CASE Begin(d)
    BY <1>1, <2>1 DEF Begin, Decoders, Kinds, MemInv
  <2>2. CASE Consume(d)
    BY <1>1, <2>2 DEF Consume, Leaves, MemInv
  <2>3. CASE End(d)
    BY <1>1, <2>3 DEF End, MemInv
  <2>4. CASE Crash("deletedDecoder") \/ Crash("lateWrite")
    BY <2>4 DEF Crash, decoderVars, MemInv
  <2> QED
    BY <2>1, <2>2, <2>3, <2>4 DEF DecoderStep
<1> QED
  BY <1>2, <1>3 DEF MemInv

LEMMA NextMemInv == TypeInv /\ MemInv /\ [Next]_vars => MemInv'
<1> SUFFICES ASSUME TypeInv, MemInv, [Next]_vars
             PROVE  MemInv'
  OBVIOUS
<1>1. CASE \/ SetDataSource \/ SurfaceCreated \/ SurfaceChanged \/ GetCurrentPosition
  <2>1. /\ UNCHANGED <<mDecoder, object, thread, mRunning>>
        /\ upc' = upc \/ input = "open" \/ upc # "suspended"
        /\ input' = input \/ input' = "open"
    BY <1>1 DEF SetDataSource, SurfaceCreated, SurfaceChanged, GetCurrentPosition, Crash,
       playerVars, decoderVars, uiVars
  <2>2. upc' = upc \/ upc # "suspended"
    BY <2>1 DEF TypeInv, StartInv
  <2>3. \A q \in Players, l \in Kinds : ppc'[q] \in Early(l) => ppc[q] \in Early(l)
    BY <1>1 DEF SetDataSource, SurfaceCreated, SurfaceChanged, GetCurrentPosition, Crash,
       Early, TypeInv, TypeOK
  <2> QED
    BY <2>1, <2>2, <2>3 DEF MemInv
<1>2. CASE Callback
  <2>1. /\ UNCHANGED <<mDecoder, object, thread, upc, input, ppc>>
        /\ \A d \in Decoders : d[1] = "video" => mRunning'[d] = mRunning[d]
    BY <1>2 DEF Callback, Heard, playerVars, uiVars, TypeInv, TypeOK
  <2> QED
    BY <2>1 DEF MemInv
<1>3. CASE Suspend \/ Stop \/ SuspendWaits \/ Release
  <2>1. /\ UNCHANGED <<mDecoder, object, thread, mRunning, input, ppc>>
        /\ upc # "suspended"
    BY <1>3 DEF Suspend, Stop, SuspendWaits, Wait, JoinPlayer, Release, playerVars,
       decoderVars
  <2> QED
    BY <2>1 DEF MemInv
<1>4. CASE Delete
  <2>1. /\ UNCHANGED <<mDecoder, thread, ppc>>
        /\ upc # "suspended" /\ upc' = "suspended"
        /\ \A d \in Decoders :
              /\ object'[d] = IF d[2] = mDecoder[d[1]] THEN "deleted" ELSE object[d]
              /\ object'[d] = "alive" /\ mRunning[d] => mRunning'[d]
    BY <1>4 DEF Delete
  <2>2. \A k \in Kinds, p \in Players :
           ppc[p] \in Early(k) => object'[<<k, p>>] = "none"
    <3> SUFFICES ASSUME NEW k \in Kinds, NEW p \in Players, ppc[p] \in Early(k)
                 PROVE  object'[<<k, p>>] = "none"
      OBVIOUS
    <3>1. object[<<k, p>>] = "none" /\ mDecoder[k] # p
      BY DEF MemInv
    <3>2. <<k, p>> \in Decoders /\ <<k, p>>[1] = k /\ <<k, p>>[2] = p
      BY DEF Decoders
    <3> QED
      BY <2>1, <3>1, <3>2
  <2> QED
    BY <2>1, <2>2 DEF MemInv, Decoders
<1>5. CASE UNCHANGED vars
  BY <1>5 DEF vars, playerVars, decoderVars, uiVars, MemInv
<1>6. CASE NoTrack \/ \E p \in Players : EventStep(p)
  BY <1>6 DEF NoTrack, EventStep, Crash, playerVars, decoderVars, uiVars, MemInv
<1> QED
  BY <1>1, <1>2, <1>3, <1>4, <1>5, <1>6, PlayerMemInv, DecoderMemInv DEF Next, Suspending

-------------------------------------------------------------------------------
(* A suspend of a session that was under way.  Its player thread is in its *)
(* loop or beyond it, there is no other, and both decoders are that        *)
(* thread's.  The clauses follow suspend() line by line.                   *)

Late == {"loop", "fullAudio", "fullVideo", "read", "putAudio", "putVideo",
         "waitAudio", "complete"}

Stopped(k) ==
    /\ aborted[<<k, mPlayerThread>>]
    /\ thread[<<k, mPlayerThread>>] \in {"leaving", "done"}

SuspendInv ==
    settled =>
       /\ crashed \in {"no", "noInput", "lateWrite", "lateEvents"}
       /\ upc \in {"stop", "wait", "joinPlayer", "release", "delete", "suspended"}
       /\ mPlayerThread \in Players
       /\ \A k \in Kinds : /\ mDecoder[k] = mPlayerThread
                           /\ thread[<<k, mPlayerThread>>] \notin {"none", "new"}
       /\ \A p \in Players : \/ ppc[p] \in {"none", "done"}
                             \/ p = mPlayerThread /\ ppc[p] \in Late
       /\ upc = "wait" => /\ utarget = mPlayerThread
                          /\ aborted[<<ukind, mPlayerThread>>]
       /\ ukind = "video" => Stopped("audio")
       /\ upc \notin {"stop", "wait"} => ukind = "video" /\ Stopped("video")
       /\ upc \in {"release", "delete", "suspended"} =>
             \A p \in Players : ppc[p] \in {"none", "done"}
       /\ track # "null"
       /\ upc \in {"delete", "suspended"} => track = "deleted"
       /\ upc = "suspended" => \A k \in Kinds : object[<<k, mPlayerThread>>] = "deleted"
       /\ \A d \in Decoders : object[d] = "deleted" => d[2] = mPlayerThread

Inv == TypeInv /\ LoopInv /\ MemInv /\ SuspendInv

LEMMA InitSuspendInv == Init => SuspendInv
BY DEF Init, SuspendInv

(* The opening calls come before: once the surface is gone, a new one only *)
(* meets the closed input.                                                 *)
LEMMA OpeningSuspendInv ==
    ASSUME Inv, crashed = "no",
           SetDataSource \/ SurfaceCreated \/ SurfaceChanged \/ GetCurrentPosition
    PROVE  SuspendInv'
<1>1. CASE settled
  <2>1. upc = "suspended" /\ input = "closed"
    BY <1>1 DEF SetDataSource, SurfaceCreated, SurfaceChanged, GetCurrentPosition, Inv,
       SuspendInv, TypeInv, StartInv
  <2>2. Crash("noInput")
    BY <2>1 DEF SetDataSource, SurfaceCreated, SurfaceChanged, GetCurrentPosition
  <2> QED
    BY <2>2 DEF Crash, playerVars, trackVars, decoderVars, uiVars, Inv, SuspendInv, Stopped
<1>2. CASE ~settled
  <2>1. UNCHANGED settled
    BY DEF SetDataSource, SurfaceCreated, SurfaceChanged, GetCurrentPosition, Crash, uiVars
  <2> QED
    BY <1>2, <2>1 DEF SuspendInv
<1> QED
  BY <1>1, <1>2

(* The player thread finds its decoders and its file until it is joined.   *)
LEMMA PlayerSuspendInv ==
    ASSUME Inv, crashed = "no", NEW p \in Players, PlayerStep(p)
    PROVE  SuspendInv'
<1> SUFFICES ASSUME settled
             PROVE  SuspendInv'
  <2>1. UNCHANGED settled
    BY DEF PlayerStep, NewDecoder, RunDecoder, Enqueue, SetTrack, TrackGone,
       PlayerControl, ReadPacket, Dangling, Crash, uiVars
  <2> QED
    BY <2>1 DEF SuspendInv
<1>1. /\ ppc \in [Players -> PlayerPcs]
      /\ packets \in [Decoders -> Nat]
  BY DEF Inv, TypeInv, TypeOK
<1>2. ppc[p] \notin {"none", "done"}
  BY DEF PlayerStep, NewDecoder, RunDecoder, Enqueue, SetTrack, TrackGone, PlayerControl,
     Started, LoopHead, Pressure, FilmEnds, WaitAudio, Complete, ReadPacket, Dangling,
     Needs, Go
<1>3. p = mPlayerThread /\ ppc[p] \in Late
  BY <1>2 DEF Inv, SuspendInv
<1>4. upc \in {"stop", "wait", "joinPlayer"}
  BY <1>2 DEF Inv, SuspendInv
<1>5. \A k \in Kinds : Usable(k)
  <2> SUFFICES ASSUME NEW k \in Kinds
               PROVE  Usable(k)
    OBVIOUS
  <2>1. mDecoder[k] \in Players /\ <<k, mDecoder[k]>> \in Decoders
    BY DEF Inv, SuspendInv, Decoders
  <2>2. object[<<k, mDecoder[k]>>] \notin {"none", "deleted"}
    BY <1>4, <2>1 DEF Inv, MemInv
  <2> QED
    BY <2>1, <2>2 DEF Usable, Inv, TypeInv, TypeOK
<1>6. ~Dangling(p) /\ ~TrackGone(p)
  <2>1. \A k \in Needs(p) : Usable(k)
    BY <1>3, <1>5 DEF Needs, Kinds, Late
  <2>2. input # "closed"
    BY <1>4 DEF Inv, MemInv
  <2> QED
    BY <1>3, <2>1, <2>2 DEF Dangling, TrackGone, Late
<1>7. /\ \A q \in Players : q # p => ppc'[q] = ppc[q]
      /\ ppc'[p] \in Late \cup {"done"}
      /\ UNCHANGED <<crashed, mDecoder, mPlayerThread, track, object, thread, aborted,
                     upc, ukind, utarget, settled>>
  BY <1>1, <1>3, <1>6 DEF PlayerStep, NewDecoder, RunDecoder, Enqueue, SetTrack,
     PlayerControl, Started, LoopHead, Pressure, FilmEnds, WaitAudio, Complete,
     ReadPacket, Go, Late, playerVars, trackVars, decoderVars, uiVars
<1> QED
  BY <1>3, <1>4, <1>7 DEF Inv, SuspendInv, Stopped

(* The decoders' threads: none is at its beginning any more.               *)
LEMMA DecoderSuspendInv ==
    ASSUME Inv, crashed = "no", NEW d \in Decoders, DecoderStep(d)
    PROVE  SuspendInv'
<1> SUFFICES ASSUME settled
             PROVE  SuspendInv'
  <2>1. UNCHANGED settled
    BY DEF DecoderStep, Crash, uiVars
  <2> QED
    BY <2>1 DEF SuspendInv
<1>1. thread \in [Decoders -> {"none", "new", "live", "leaving", "done"}]
  BY DEF Inv, TypeInv, TypeOK
<1>2. ~Crash("deletedDecoder") \/ object[d] # "deleted" \/ thread[d] \notin {"new", "live"}
  <2> SUFFICES ASSUME object[d] = "deleted"
               PROVE  thread[d] \notin {"new", "live"}
    OBVIOUS
  <2>1. d[1] \in Kinds /\ d = <<d[1], mPlayerThread>>
    BY DEF Inv, SuspendInv, Decoders
  <2>2. upc = "suspended"
    BY DEF Inv, MemInv
  <2>3. \A k \in Kinds : Stopped(k)
    BY <2>2 DEF Inv, SuspendInv, Kinds
  <2> QED
    BY <2>1, <2>3 DEF Stopped
<1>8. CASE Crash("lateWrite")
  BY <1>8 DEF Crash, Inv, SuspendInv, Stopped, playerVars, trackVars, decoderVars, uiVars
<1> SUFFICES ASSUME ~Crash("lateWrite")
             PROVE  SuspendInv'
  BY <1>8
<1>3. /\ Begin(d) \/ Consume(d) \/ End(d)
      /\ UNCHANGED <<crashed, playerVars, ppc, trackVars, object, aborted, uiVars>>
  BY <1>2 DEF DecoderStep
<1>4. /\ thread'[d] \in {"live", "leaving", "done"}
      /\ thread[d] # "new" => thread'[d] \in {thread[d], "leaving", "done"}
      /\ thread[d] \in {"leaving", "done"} => thread'[d] \in {"leaving", "done"}
      /\ \A e \in Decoders : e # d => thread'[e] = thread[e]
  BY <1>1, <1>3 DEF Begin, Consume, Leaves, End
<1>5. mPlayerThread \in Players /\ \A k \in Kinds : <<k, mPlayerThread>> \in Decoders
  BY DEF Inv, SuspendInv, Decoders
<1>6. \A k \in Kinds : /\ thread'[<<k, mPlayerThread>>] \notin {"none", "new"}
                       /\ Stopped(k) => Stopped(k)'
  BY <1>3, <1>4, <1>5 DEF Inv, SuspendInv, Stopped, playerVars
<1>7. "audio" \in Kinds /\ "video" \in Kinds
  BY DEF Kinds
<1> QED
  BY <1>3, <1>6, <1>7 DEF Inv, SuspendInv, playerVars, trackVars, uiVars

LEMMA EventSuspendInv ==
    ASSUME Inv, crashed = "no", NEW p \in Players, EventStep(p)
    PROVE  SuspendInv'
BY DEF EventStep, Crash, Inv, SuspendInv, Stopped, playerVars, trackVars, decoderVars,
   uiVars

LEMMA CallbackSuspendInv ==
    ASSUME Inv, Callback
    PROVE  SuspendInv'
BY DEF Callback, Inv, SuspendInv, Stopped, playerVars, trackVars, uiVars

(* suspend() itself, one line after the other.                             *)
LEMMA BeginSuspendInv ==
    ASSUME Inv, crashed = "no", Suspend
    PROVE  SuspendInv'
<1> SUFFICES ASSUME Settled
             PROVE  SuspendInv'
  BY DEF Suspend, SuspendInv
<1>1. upc = "surface" /\ upc' = "stop" /\ ukind' = "audio"
  BY DEF Suspend
<1>2. UNCHANGED <<crashed, mDecoder, mPlayerThread, ppc, track, thread, object>>
  BY DEF Suspend, trackVars, decoderVars
<1>3. /\ mPlayerThread \in Players
      /\ \A p \in Players : \/ ppc[p] \in {"none", "done"}
                            \/ p = mPlayerThread /\ ppc[p] \in Late
      /\ \A k \in Kinds : /\ mDecoder[k] = mPlayerThread
                          /\ thread[<<k, mPlayerThread>>] \notin {"none", "new"}
  BY DEF Settled, Late, Inv, TypeInv, TypeOK, PlayerPcs
<1>4. \A d \in Decoders : object[d] # "deleted"
  BY <1>1 DEF Inv, MemInv
<1>5. track # "null"
  BY <1>3 DEF Inv, TypeInv, StartInv, Decoders, Kinds
<1> QED
  BY <1>1, <1>2, <1>3, <1>4, <1>5 DEF SuspendInv

LEMMA StopSuspendInv ==
    ASSUME Inv, crashed = "no", Stop
    PROVE  SuspendInv'
<1> SUFFICES ASSUME settled
             PROVE  SuspendInv'
  BY DEF Stop, SuspendInv
<1>1. /\ ukind \in Kinds
      /\ aborted \in [Decoders -> BOOLEAN]
  BY DEF Inv, TypeInv, TypeOK
<1>2. mDecoder[ukind] = mPlayerThread /\ mPlayerThread \in Players
  BY <1>1 DEF Inv, SuspendInv
<1>3. /\ upc = "stop" /\ upc' = "wait"
      /\ aborted' = [aborted EXCEPT ![<<ukind, mPlayerThread>>] = TRUE]
      /\ utarget' = mPlayerThread
      /\ UNCHANGED <<crashed, ukind, playerVars, ppc, trackVars, object, thread, settled>>
  BY <1>2 DEF Stop, AbortQueue
<1>4. \A k \in Kinds : <<k, mPlayerThread>> \in Decoders
  BY <1>2 DEF Decoders
<1>5. /\ aborted'[<<ukind, mPlayerThread>>]
      /\ Stopped("audio") => Stopped("audio")'
  BY <1>1, <1>3, <1>4 DEF Stopped, Kinds, playerVars
<1> QED
  BY <1>3, <1>5 DEF Inv, SuspendInv, playerVars, trackVars

(* The join: the thread's mRunning holds as long as it works.              *)
LEMMA WaitSuspendInv ==
    ASSUME Inv, crashed = "no", SuspendWaits
    PROVE  SuspendInv'
<1> SUFFICES ASSUME settled
             PROVE  SuspendInv'
  BY DEF SuspendWaits, SuspendInv
<1>1. UNCHANGED <<crashed, playerVars, ppc, trackVars, decoderVars, utarget, settled>>
  BY DEF SuspendWaits
<1>2. ukind \in Kinds /\ thread \in [Decoders -> {"none", "new", "live", "leaving", "done"}]
  BY DEF Inv, TypeInv, TypeOK
<1>3. CASE Wait
  <2>1. /\ upc = "wait" /\ utarget = mPlayerThread /\ mPlayerThread \in Players
        /\ aborted[<<ukind, mPlayerThread>>]
        /\ thread[<<ukind, mPlayerThread>>] \notin {"none", "new"}
    BY <1>2, <1>3 DEF Wait, Inv, SuspendInv
  <2>2. <<ukind, mPlayerThread>> \in Decoders
    BY <1>2, <2>1 DEF Decoders
  <2>3. thread[<<ukind, mPlayerThread>>] # "live"
    <3> SUFFICES ASSUME thread[<<ukind, mPlayerThread>>] = "live"
                 PROVE  FALSE
      OBVIOUS
    <3>1. object[<<ukind, mPlayerThread>>] = "alive"
      BY <2>1, <2>2 DEF Inv, MemInv, TypeInv, TypeOK
    <3>2. mRunning[<<ukind, mPlayerThread>>]
      BY <2>2, <3>1 DEF Inv, MemInv
    <3> QED
      BY <1>3, <2>1, <3>2 DEF Wait, Waited
  <2>4. Stopped(ukind)
    BY <1>2, <2>1, <2>2, <2>3 DEF Stopped
  <2>5. \A k \in {"audio", "video"} : Stopped(k) => Stopped(k)'
    BY <1>1 DEF Stopped, playerVars, decoderVars
  <2>6. CASE ukind = "audio"
    <3>1. upc' = "stop" /\ ukind' = "video"
      BY <1>3, <2>6 DEF Wait, NextStop
    <3> QED
      BY <1>1, <2>4, <2>5, <2>6, <3>1 DEF Inv, SuspendInv, playerVars, trackVars,
         decoderVars
  <2>7. CASE ukind = "video"
    <3>1. upc' = "joinPlayer" /\ ukind' = "video"
      BY <1>3, <2>7 DEF Wait, NextStop
    <3> QED
      BY <1>1, <2>4, <2>5, <2>7, <3>1 DEF Inv, SuspendInv, playerVars, trackVars,
         decoderVars
  <2> QED
    BY <1>2, <2>6, <2>7 DEF Kinds
<1>4. CASE JoinPlayer
  <2>1. /\ upc = "joinPlayer" /\ upc' = "release" /\ UNCHANGED ukind
        /\ mPlayerThread # NULL => ppc[mPlayerThread] = "done"
    BY <1>4 DEF JoinPlayer
  <2>2. \A p \in Players : ppc[p] \in {"none", "done"}
    BY <2>1 DEF Inv, SuspendInv
  <2> QED
    BY <1>1, <2>1, <2>2 DEF Inv, SuspendInv, Stopped, playerVars, trackVars, decoderVars
<1> QED
  BY <1>3, <1>4 DEF SuspendWaits

LEMMA EndSuspendInv ==
    ASSUME Inv, crashed = "no", NoTrack \/ Release \/ Delete
    PROVE  SuspendInv'
<1> SUFFICES ASSUME settled
             PROVE  SuspendInv'
  BY DEF NoTrack, Crash, Release, Delete, SuspendInv, uiVars
<1>3. ~NoTrack
  BY DEF NoTrack, Inv, SuspendInv
<1>1. CASE Release
  BY <1>1 DEF Release, Inv, SuspendInv, Stopped, playerVars, decoderVars
<1>2. CASE Delete
  <2>1. /\ upc = "delete" /\ upc' = "suspended"
        /\ UNCHANGED <<crashed, mCurrentState, mDecoder, mPlayerThread, ppc, trackVars,
                       thread, aborted, ukind, utarget, settled>>
        /\ \A d \in Decoders :
              object'[d] = IF d[2] = mDecoder[d[1]] THEN "deleted" ELSE object[d]
    BY <1>2 DEF Delete
  <2>2. /\ mPlayerThread \in Players
        /\ \A k \in Kinds : mDecoder[k] = mPlayerThread
    BY DEF Inv, SuspendInv
  <2>3. \A k \in Kinds : object'[<<k, mPlayerThread>>] = "deleted"
    BY <2>1, <2>2 DEF Decoders
  <2>4. \A d \in Decoders : object'[d] = "deleted" => d[2] = mPlayerThread
    <3>1. \A d \in Decoders : object[d] # "deleted" /\ d[1] \in Kinds
      BY <2>1 DEF Inv, MemInv, Decoders
    <3> QED
      BY <2>1, <2>2, <3>1
  <2> QED
    BY <2>1, <2>3, <2>4 DEF Inv, SuspendInv, Stopped, trackVars
<1> QED
  BY <1>1, <1>2, <1>3

LEMMA NextSuspendInv == Inv /\ [Next]_vars => SuspendInv'
<1>1. ASSUME Inv, UNCHANGED vars
      PROVE  SuspendInv'
  BY <1>1 DEF vars, playerVars, trackVars, decoderVars, uiVars, Inv, SuspendInv, Stopped
<1> QED
  BY <1>1, OpeningSuspendInv, PlayerSuspendInv, DecoderSuspendInv, EventSuspendInv,
     CallbackSuspendInv, BeginSuspendInv, StopSuspendInv, WaitSuspendInv, EndSuspendInv DEF Next, Suspending

LEMMA InvCorrect == Spec => []Inv
<1>1. Init => Inv
  BY InitTypeInv, InitMemInv, InitSuspendInv DEF Inv, LoopInv, InLoop, Init
<1>2. Inv /\ [Next]_vars => Inv'
  BY NextTypeInv, NextLoopInv, NextMemInv, NextSuspendInv DEF Inv
<1> QED
  BY <1>1, <1>2, PTL DEF Spec

(* A suspend of a session that is under way leaves to the other threads no *)
(* use of what it deletes but these two: startThread's last write of       *)
(* mRunning, and whatever the event thread does.                           *)
THEOREM LateUses == Spec => []OnlyLateUse
<1>1. Inv => OnlyLateUse
  BY DEF Inv, SuspendInv, OnlyLateUse
<1> QED
  BY <1>1, InvCorrect, PTL

(* Such a suspend deletes the decoders when no player thread and no        *)
(* callback can use them and their own threads have only their last write  *)
(* of mRunning before them, and it deletes both.                           *)
THEOREM DeletionJoined == Spec => []JoinedBeforeDelete
<1>1. Inv => JoinedBeforeDelete
  <2> SUFFICES ASSUME Inv, settled
               PROVE  JoinedBeforeDelete
    BY DEF JoinedBeforeDelete
  <2>1. ASSUME NEW d \in Decoders, object[d] = "deleted"
        PROVE  /\ aborted[d]
               /\ thread[d] \in {"leaving", "done"}
               /\ track = "deleted"
               /\ \A p \in Players : ppc[p] \in {"none", "done"}
    <3>1. upc = "suspended"
      BY <2>1 DEF Inv, MemInv
    <3>2. d[1] \in Kinds /\ d = <<d[1], mPlayerThread>>
      BY <2>1 DEF Inv, SuspendInv, Decoders
    <3>3. \A k \in Kinds : Stopped(k)
      BY <3>1 DEF Inv, SuspendInv, Kinds
    <3> QED
      BY <3>1, <3>2, <3>3 DEF Inv, SuspendInv, Stopped
  <2>2. upc = "suspended" => \A k \in Kinds : object[<<k, mDecoder[k]>>] = "deleted"
    BY DEF Inv, SuspendInv
  <2> QED
    BY <2>1, <2>2 DEF JoinedBeforeDelete
<1> QED
  BY <1>1, InvCorrect, PTL

-------------------------------------------------------------------------------
(* Back-pressure, for a session with one player thread: it reads a packet  *)
(* only when one of the queues is within the limit.                        *)

OneStart == \A p, q \in Players : p = q

Packets(k, p) == packets[<<k, p>>]

BoundInv ==
    \A p \in Players :
       /\ \E k \in Kinds : Packets(k, p) <= MAX_PLAYER_QUEUE_SIZE + 1
       /\ ppc[p] \in {"read", "putAudio", "putVideo"} =>
             \E k \in Kinds : Packets(k, p) <= MAX_PLAYER_QUEUE_SIZE

LEMMA FewerPackets ==
    ASSUME TypeInv, TypeInv', BoundInv,
           \A d \in Decoders : packets'[d] <= packets[d],
           \A p \in Players : ppc'[p] \in {"read", "putAudio", "putVideo"} =>
                                 ppc[p] \in {"read", "putAudio", "putVideo"}
    PROVE  BoundInv'
<1> SUFFICES ASSUME NEW p \in Players
             PROVE  /\ \E k \in Kinds : Packets(k, p)' <= MAX_PLAYER_QUEUE_SIZE + 1
                    /\ ppc'[p] \in {"read", "putAudio", "putVideo"} =>
                          \E k \in Kinds : Packets(k, p)' <= MAX_PLAYER_QUEUE_SIZE
  BY DEF BoundInv
<1>1. \A k \in Kinds : /\ Packets(k, p) \in Nat
                       /\ Packets(k, p)' \in Nat
                       /\ Packets(k, p)' <= Packets(k, p)
  BY DEF Packets, Decoders, TypeInv, TypeOK
<1>2. PICK k \in Kinds : Packets(k, p) <= MAX_PLAYER_QUEUE_SIZE + 1
  BY DEF BoundInv
<1>3. Packets(k, p)' <= MAX_PLAYER_QUEUE_SIZE + 1
  BY <1>1, <1>2
<1>4. ASSUME ppc'[p] \in {"read", "putAudio", "putVideo"}
      PROVE  \E l \in Kinds : Packets(l, p)' <= MAX_PLAYER_QUEUE_SIZE
  <2>1. PICK l \in Kinds : Packets(l, p) <= MAX_PLAYER_QUEUE_SIZE
    BY <1>4 DEF BoundInv
  <2> QED
    BY <1>1, <2>1
<1> QED
  BY <1>3, <1>4

LEMMA PlayerBoundInv ==
    ASSUME OneStart, TypeInv, TypeInv', BoundInv, NEW p \in Players, PlayerStep(p)
    PROVE  BoundInv'
<1>1. /\ ppc \in [Players -> PlayerPcs]
      /\ packets \in [Decoders -> Nat]
      /\ mDecoder \in [Kinds -> Players \cup {NULL, Wild}]
  BY DEF TypeInv, TypeOK
<1>2. ASSUME NEW k \in Kinds, Enqueue(p, k)
      PROVE  BoundInv'
  <2>1. mDecoder[k] = p /\ <<k, p>> \in Decoders
    BY <1>2, UsableType DEF Enqueue, OneStart
  <2>2. \A l \in Kinds : /\ Packets(l, p) \in Nat
                         /\ Packets(l, p)' \in {Packets(l, p), Packets(l, p) + 1}
    BY <1>1, <1>2, <2>1 DEF Enqueue, Packets, Decoders
  <2>3. PICK l \in Kinds : Packets(l, p) <= MAX_PLAYER_QUEUE_SIZE
    BY <1>2 DEF Enqueue, Go, BoundInv
  <2>4. Packets(l, p)' <= MAX_PLAYER_QUEUE_SIZE + 1
    BY <2>2, <2>3
  <2>5. ppc'[p] = "loop"
    BY <1>1, <1>2 DEF Enqueue, Go
  <2> QED
    BY <2>4, <2>5 DEF BoundInv, OneStart
<1>3. CASE Pressure(p) /\ UNCHANGED packets
  <2>1. \A k \in Kinds : Packets(k, p) \in Nat /\ Packets(k, p)' = Packets(k, p)
    BY <1>1, <1>3 DEF Packets, Decoders
  <2>2. ASSUME ppc'[p] \in {"read", "putAudio", "putVideo"}
        PROVE  \E k \in Kinds : Packets(k, p) <= MAX_PLAYER_QUEUE_SIZE
    <3>1. PICK k \in Kinds : Usable(k) /\ ~QueueFull(k)
      BY <1>1, <1>3, <2>2 DEF Pressure, Go, Kinds
    <3>2. mDecoder[k] = p
      BY <3>1, UsableType DEF OneStart
    <3> QED
      BY <2>1, <3>1, <3>2 DEF QueueFull, Packets
  <2> QED
    BY <2>1, <2>2 DEF BoundInv, OneStart
<1>4. CASE ~(\E k \in Kinds : Enqueue(p, k)) /\ ~Pressure(p)
  <2>1. UNCHANGED packets
    BY <1>4 DEF PlayerStep, NewDecoder, RunDecoder, SetTrack, TrackGone, PlayerControl,
       ReadPacket, Dangling, Crash, decoderVars
  <2>2. \A q \in Players : ppc'[q] \in {"read", "putAudio", "putVideo"} =>
                              ppc[q] \in {"read", "putAudio", "putVideo"}
    BY <1>1, <1>4 DEF PlayerStep, NewDecoder, RunDecoder, SetTrack, TrackGone,
       PlayerControl, Started, LoopHead, FilmEnds, WaitAudio, Complete, ReadPacket,
       Dangling, Crash, Go
  <2>3. \A d \in Decoders : packets'[d] <= packets[d]
    BY <1>1, <2>1
  <2> QED
    BY <2>2, <2>3, FewerPackets
<1>5. Pressure(p) => UNCHANGED packets \/ \E k \in Kinds : Enqueue(p, k)
  BY DEF PlayerStep, Pressure, PlayerControl, NewDecoder, RunDecoder, SetTrack, TrackGone,
     ReadPacket, Dangling, Crash, Go, decoderVars
<1> QED
  BY <1>2, <1>3, <1>4, <1>5

LEMMA NextBoundInv ==
    ASSUME OneStart, TypeInv, TypeInv', BoundInv, [Next]_vars
    PROVE  BoundInv'
<1>1. CASE ~\E p \in Players : PlayerStep(p)
  <2>1. packets \in [Decoders -> Nat]
    BY DEF TypeInv, TypeOK
  <2>2. \A d \in Decoders : packets'[d] <= packets[d]
    <3>1. CASE Callback
      BY <2>1, <3>1 DEF Callback
    <3>2. ASSUME NEW d \in Decoders, DecoderStep(d)
          PROVE  \A e \in Decoders : packets'[e] <= packets[e]
      BY <2>1, <3>2 DEF DecoderStep, Begin, Consume, Leaves, End, Crash, decoderVars
    <3>3. CASE ~Callback /\ ~\E d \in Decoders : DecoderStep(d)
      <4>1. UNCHANGED packets
        BY <1>1, <3>3 DEF Next, vars, SetDataSource, SurfaceCreated, SurfaceChanged,
           GetCurrentPosition, Suspend, Suspending, Stop, SuspendWaits, NoTrack, Release,
           Delete, EventStep, Crash, decoderVars
      <4> QED
        BY <2>1, <4>1
    <3> QED
      BY <3>1, <3>2, <3>3
  <2>3. \A p \in Players : ppc'[p] \in {ppc[p], "newAudio"}
    BY <1>1 DEF Next, vars, SetDataSource, SurfaceCreated, SurfaceChanged,
       GetCurrentPosition, Suspend, Suspending, Stop, SuspendWaits, NoTrack, Release,
       Delete, DecoderStep, EventStep, Callback, Crash, TypeInv, TypeOK
  <2> QED
    BY <2>2, <2>3, FewerPackets
<1> QED
  BY <1>1, PlayerBoundInv

(* The queues of a session that was started once are never both over the   *)
(* limit by more than the packet that is being brought.                    *)
THEOREM QueuesCorrect ==
    ASSUME OneStart
    PROVE  Spec => []QueuesBounded
<1>1. Init => BoundInv
  <2> SUFFICES ASSUME Init, NEW p \in Players
               PROVE  /\ \E k \in Kinds : Packets(k, p) <= MAX_PLAYER_QUEUE_SIZE + 1
                      /\ ppc[p] \notin {"read", "putAudio", "putVideo"}
    BY DEF BoundInv
  <2>1. "audio" \in Kinds /\ <<"audio", p>> \in Decoders
    BY DEF Kinds, Decoders
  <2>2. Packets("audio", p) = 0
    BY <2>1 DEF Init, Packets
  <2> QED
    BY <2>1, <2>2 DEF Init
<1>2. TypeInv /\ BoundInv /\ TypeInv' /\ [Next]_vars => BoundInv'
  BY NextBoundInv
<1>3. TypeInv /\ BoundInv => QueuesBounded
  <2> SUFFICES ASSUME TypeInv, BoundInv, Over("audio"), Over("video")
               PROVE  FALSE
    BY DEF QueuesBounded
  <2>1. PICK p \in Players : mDecoder["audio"] = p /\ mDecoder["video"] = p
    BY DEF Over, OneStart
  <2>2. \A k \in Kinds : Packets(k, p) \in Nat /\ Packets(k, p) > MAX_PLAYER_QUEUE_SIZE + 1
    BY <2>1 DEF Over, Packets, Kinds, Decoders, TypeInv, TypeOK
  <2> QED
    BY <2>2 DEF BoundInv
<1> QED
  BY <1>1, <1>2, <1>3, InitTypeInv, NextTypeInv, PTL DEF Spec
===============================================================================
