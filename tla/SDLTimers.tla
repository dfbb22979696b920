------------------------------- MODULE SDLTimers -------------------------------
(***************************************************************************)
(* SDL's timers (jni/SDL/src/timer/SDL_timer.c), on which every refresh of *)
(* the picture depends.  Client threads set one-shot timers with           *)
(* schedule_refresh(); SDL's timer thread keeps them in a list sorted by   *)
(* the time they are due, calls those that are, and sleeps on a semaphore  *)
(* with a timeout.                                                         *)
(*                                                                         *)
(* Time passes in ticks; SDL sees it modulo Word (2^32 milliseconds).      *)
(* A critical section is one step, and so is a stretch of private code.    *)
(* A chain of `next' links is the sequence of its structures.  GPlayer     *)
(* cancels no timer and never calls SDL_TimerQuit: the thread stays active.*)
(***************************************************************************)
EXTENDS Integers, Sequences, SequencesExt

CONSTANTS
    Clients,    \* threads that call schedule_refresh()
    Structs,    \* addresses malloc can return for an SDL_Timer
    NULL,
    Word,       \* SDL_GetTicks() counts modulo Word
    Intervals,  \* arguments of schedule_refresh()
    Slack,      \* how long the scheduler keeps the timer thread waiting,
    CallSlack,  \* and a thread that is in SDL_AddTimer
    MaxTimers   \* bound: timers set

ASSUME NullAssumption == NULL \notin Structs
ASSUME IntervalsAssumption == Intervals \subseteq Nat \ {0}
ASSUME SlackAssumption == Slack \in Nat /\ CallSlack \in Nat

(* How late a timer may be: its client is held up in SDL_AddTimer, then    *)
(* the timer thread in what it does just then, and then once more.         *)
MaxLate == CallSlack + 3 * Slack

(* Times that are compared are less than half of the clock's range apart. *)
ASSUME WordAssumption ==
    /\ Word \in Nat \ {0}
    /\ \A i \in Intervals : 2 * (i + MaxLate) < Word
ASSUME BoundAssumption == MaxTimers \in Nat

VARIABLES
    \* the heap: structures that are not allocated, and the fields of all
    heap, timerID, scheduled, canceled,
    \* SDL_timer_data
    timermap, nextID, pending, freelist, sem, timers,
    \* the timer thread: where it is, the timers it has yet to sort, the
    \* structures it has done with, and its locals
    tpc, sorting, spent, tick, delay,
    \* the clients: where they are in SDL_AddTimer, and their `timer'
    cpc, timer,
    \* the clock; how long the timer thread and the clients have been kept
    \* waiting; and a ghost, the true time left to each timer that is set
    now, lag, clag, left

structVars == <<heap, timerID, scheduled, canceled>>
mapVars    == <<timermap, nextID>>
threadVars == <<timers, sorting, spent, tick, delay>>
timeVars   == <<now, lag, clag, left>>
vars == <<structVars, mapVars, pending, freelist, sem, tpc, threadVars,
          cpc, timer, timeVars>>

(* SDL_MUTEX_MAXWAIT, the longest timeout: wait for ever. *)
MAXWAIT == Word - 1

(* As SDL_TimerInit() leaves it: nothing is set, the thread begins. *)
Init ==
    /\ heap = Structs
    /\ timerID = [s \in Structs |-> 0]
    /\ scheduled = [s \in Structs |-> 0]
    /\ canceled = [s \in Structs |-> FALSE]
    /\ timermap = {}
    /\ nextID = 1
    /\ pending = <<>>
    /\ freelist = <<>>
    /\ sem = 0
    /\ timers = <<>>
    /\ tpc = "maintain"
    /\ sorting = <<>>
    /\ spent = <<>>
    /\ tick = 0
    /\ delay = 0
    /\ cpc = [c \in Clients |-> "idle"]
    /\ timer = [c \in Clients |-> NULL]
    /\ now = 0
    /\ lag = 0
    /\ clag = [c \in Clients |-> 0]
    /\ left = <<>>

-------------------------------------------------------------------------------
(* SDL_AddTimer, as schedule_refresh() calls it.                           *)

Goes(c, from, to) ==
    /\ cpc[c] = from
    /\ cpc' = [cpc EXCEPT ![c] = to]

(* A structure that was used before, or a new one.  When malloc() fails,   *)
(* SDL_AddTimer returns and nothing has happened.                          *)
Recycle(c) ==
    /\ freelist # <<>>
    /\ Goes(c, "idle", "remove")
    /\ timer' = [timer EXCEPT ![c] = Head(freelist)]
    /\ freelist' = Tail(freelist)
    /\ UNCHANGED heap

Malloc(c) ==
    /\ freelist = <<>>
    /\ Goes(c, "idle", "fill")
    /\ \E s \in heap :
          /\ timer' = [timer EXCEPT ![c] = s]
          /\ heap' = heap \ {s}
    /\ UNCHANGED freelist

Obtain(c) ==
    /\ nextID <= MaxTimers
    /\ Recycle(c) \/ Malloc(c)
    /\ UNCHANGED <<timerID, scheduled, canceled, mapVars, pending, sem, tpc,
                   threadVars, timeVars>>

\* Mutant: the structure's old entry stays in the map.
Found_None(id) == {}

Found(id) == {e \in timermap : e.timerID = id}

(* SDL_RemoveTimer(timer->timerID): the entry of that id goes, and the     *)
(* structure it points to is canceled.                                     *)
RemoveTimer(c) ==
    /\ Goes(c, "remove", "fill")
    /\ LET found == Found(timerID[timer[c]])
       IN /\ timermap' = timermap \ found
          /\ canceled' = [s \in Structs |->
                             canceled[s] \/ \E e \in found : e.timer = s]
    /\ UNCHANGED <<heap, timerID, scheduled, nextID, pending, freelist, sem,
                   tpc, threadVars, timer, timeVars>>

(* The fields are written; then the map's entry, whose malloc() may fail:  *)
(* the structure is freed again, and what is in it does not matter.        *)
FillAndMap(c) ==
    /\ Goes(c, "fill", "map")
    /\ timerID' = [timerID EXCEPT ![timer[c]] = nextID]
    /\ canceled' = [canceled EXCEPT ![timer[c]] = FALSE]
    /\ \E interval \in Intervals :
          /\ scheduled' = [scheduled EXCEPT ![timer[c]] = (now + interval) % Word]
          /\ left' = [id \in DOMAIN left \cup {nextID} |->
                         IF id = nextID THEN interval ELSE left[id]]
    /\ UNCHANGED <<heap, timer, clag>>

FillAndFail(c) ==
    /\ Goes(c, "fill", "idle")
    /\ heap' = heap \cup {timer[c]}
    /\ timer' = [timer EXCEPT ![c] = NULL]
    /\ clag' = [clag EXCEPT ![c] = 0]
    /\ UNCHANGED <<timerID, scheduled, canceled, left>>

Fill(c) ==
    /\ FillAndMap(c) \/ FillAndFail(c)
    /\ nextID' = nextID + 1
    /\ UNCHANGED <<timermap, pending, freelist, sem, tpc, threadVars, now, lag>>

(* Under timermap_lock. *)
Map(c) ==
    /\ Goes(c, "map", "push")
    /\ timermap' = timermap \cup {[timerID |-> timerID[timer[c]], timer |-> timer[c]]}
    /\ UNCHANGED <<structVars, nextID, pending, freelist, sem, tpc,
                   threadVars, timer, timeVars>>

(* Under the spin lock. *)
Push(c) ==
    /\ Goes(c, "push", "post")
    /\ pending' = <<timer[c]>> \o pending
    /\ timer' = [timer EXCEPT ![c] = NULL]
    /\ UNCHANGED <<structVars, mapVars, freelist, sem, tpc, threadVars, timeVars>>

(* SDL_SemPost *)
Post(c) ==
    /\ Goes(c, "post", "idle")
    /\ sem' = sem + 1
    /\ clag' = [clag EXCEPT ![c] = 0]
    /\ UNCHANGED <<structVars, mapVars, pending, freelist, tpc, threadVars,
                   timer, now, lag, left>>

Call(c) == RemoveTimer(c) \/ Fill(c) \/ Map(c) \/ Push(c) \/ Post(c)

-------------------------------------------------------------------------------
(* SDL_TimerThread.                                                        *)

\* Mutant: freelist_head is not reset.
SpentAfterSplice_Kept == spent

SpentAfterSplice == <<>>

(* Pending and freelist maintenance, under the spin lock. *)
Maintain ==
    /\ tpc = "maintain"
    /\ tpc' = "sort"
    /\ sorting' = pending
    /\ pending' = <<>>
    /\ freelist' = spent \o freelist
    /\ spent' = SpentAfterSplice
    /\ UNCHANGED <<structVars, mapVars, sem, timers, tick, delay, cpc, timer,
                   timeVars>>

\* Mutant: the clock readings are compared as unsigned numbers.
Before_Unsigned(a, b) == a < b

(* (Sint32)(a - b) < 0 *)
Before(a, b) == 2 * ((a - b) % Word) >= Word

(* SDL_AddTimerInternal puts s in front of the first timer that is later. *)
Place(s) ==
    LET Later(i) == Before(scheduled[s], scheduled[timers[i]])
    IN  CHOOSE i \in 1..(Len(timers) + 1) :
           /\ i <= Len(timers) => Later(i)
           /\ \A j \in 1..(i - 1) : ~Later(j)

SortOne ==
    /\ tpc = "sort"
    /\ sorting # <<>>
    /\ sorting' = Tail(sorting)
    /\ timers' = InsertAt(timers, Place(Head(sorting)), Head(sorting))
    /\ UNCHANGED <<tpc, tick>>

(* tick = SDL_GetTicks() *)
Look ==
    /\ tpc = "sort"
    /\ sorting = <<>>
    /\ tpc' = "dispatch"
    /\ tick' = now
    /\ UNCHANGED <<sorting, timers>>

Sort ==
    /\ SortOne \/ Look
    /\ UNCHANGED <<structVars, mapVars, pending, freelist, sem, spent, delay,
                   cpc, timer, timeVars>>

Due == timers # <<>> /\ ~Before(tick, scheduled[Head(timers)])

(* A timer that is due leaves the list.  Unless it was canceled it is      *)
(* called; sdl_refresh_timer_cb() returns 0, so it is not set again.       *)
(* (Here and below what will not be read again is set to 0.)               *)
Dispatch ==
    /\ tpc = "dispatch"
    /\ Due
    /\ LET s == Head(timers) IN
          /\ timers' = Tail(timers)
          /\ spent' = Append(spent, s)
          /\ canceled' = [canceled EXCEPT ![s] = TRUE]
          /\ scheduled' = [scheduled EXCEPT ![s] = 0]
          /\ left' = IF canceled[s] THEN left
                     ELSE [id \in DOMAIN left \ {timerID[s]} |-> left[id]]
    /\ UNCHANGED <<heap, timerID, mapVars, pending, freelist, sem,
                   tpc, sorting, tick, delay, cpc, timer, now, lag, clag>>

\* Mutant: a wait that is already over becomes a negative one.
Adjusted_NoClamp(wait, passed) == wait - passed

Adjusted(wait, passed) == IF passed > wait THEN 0 ELSE wait - passed

(* Nothing more is due: how long to wait, less the time since tick. *)
Reckon ==
    /\ tpc = "dispatch"
    /\ ~Due
    /\ tpc' = "sleep"
    /\ delay' = Adjusted(IF timers = <<>> THEN MAXWAIT
                         ELSE (scheduled[Head(timers)] - tick) % Word,
                         (now - tick) % Word)
    /\ tick' = 0
    /\ lag' = 0
    /\ UNCHANGED <<structVars, mapVars, pending, freelist, sem, timers, sorting,
                   spent, cpc, timer, now, clag, left>>

Woken == sem > 0 \/ delay = 0

(* SDL_SemWaitTimeout: the semaphore was posted, or the time is over. *)
Wake ==
    /\ tpc = "sleep"
    /\ Woken
    /\ tpc' = "maintain"
    /\ sem' = IF sem > 0 THEN sem - 1 ELSE sem
    /\ delay' = 0
    /\ lag' = 0
    /\ UNCHANGED <<structVars, mapVars, pending, freelist, timers, sorting,
                   spent, tick, cpc, timer, now, clag, left>>

TimerThread == Maintain \/ Sort \/ Dispatch \/ Reckon \/ Wake

-------------------------------------------------------------------------------
Runs == tpc = "sleep" => Woken
Calls(c) == cpc[c] # "idle"

(* Time passes, but nothing that can run is kept waiting for more than     *)
(* its slack: neither a pass of the timer thread's loop, nor its waking    *)
(* up, nor a call of SDL_AddTimer.                                         *)
Tick ==
    /\ Runs => lag < Slack
    /\ \A c \in Clients : Calls(c) => clag[c] < CallSlack
    /\ lag' = IF Runs THEN lag + 1 ELSE lag
    /\ clag' = [c \in Clients |-> IF Calls(c) THEN clag[c] + 1 ELSE clag[c]]
    /\ now' = (now + 1) % Word
    /\ left' = [id \in DOMAIN left |-> left[id] - 1]
    /\ delay' = IF tpc = "sleep" /\ delay \notin {0, MAXWAIT} THEN delay - 1 ELSE delay
    /\ UNCHANGED <<structVars, mapVars, pending, freelist, sem, tpc, timers,
                   sorting, spent, tick, cpc, timer>>

Next ==
    \/ \E c \in Clients : Obtain(c)
    \/ \E c \in Clients : Call(c)
    \/ TimerThread
    \/ Tick

Spec == Init /\ [][Next]_vars

(* The timer thread runs, a call of SDL_AddTimer returns, time passes.     *)
FairSpec ==
    /\ Spec
    /\ WF_vars(TimerThread)
    /\ \A c \in Clients : WF_vars(Call(c))
    /\ WF_vars(Tick)

-------------------------------------------------------------------------------
TypeOK ==
    /\ heap \subseteq Structs
    /\ timerID \in [Structs -> Nat]
    /\ scheduled \in [Structs -> 0..(Word - 1)]
    /\ canceled \in [Structs -> BOOLEAN]
    /\ timermap \subseteq [timerID : Nat, timer : Structs]
    /\ nextID \in Nat
    /\ pending \in Seq(Structs)
    /\ freelist \in Seq(Structs)
    /\ timers \in Seq(Structs)
    /\ sorting \in Seq(Structs)
    /\ spent \in Seq(Structs)
    /\ sem \in Nat
    /\ tpc \in {"maintain", "sort", "dispatch", "sleep"}
    /\ tick \in 0..(Word - 1)
    /\ delay \in 0..(Word - 1)
    /\ cpc \in [Clients -> {"idle", "remove", "fill", "map", "push", "post"}]
    /\ timer \in [Clients -> Structs \cup {NULL}]
    /\ now \in 0..(Word - 1)
    /\ lag \in 0..Slack
    /\ clag \in [Clients -> 0..CallSlack]
    /\ DOMAIN left \subseteq Nat
    /\ \A id \in DOMAIN left : left[id] \in Int

-------------------------------------------------------------------------------
(* The structures: set and not yet called, done with, and in the hands of  *)
(* a caller.                                                               *)
Set    == pending \o sorting \o timers
Done   == spent \o freelist
InHand(pcs) == {timer[c] : c \in {d \in Clients : cpc[d] \in pcs}}
Held   == InHand({"remove", "fill", "map", "push"})
Listed == ToSet(Set \o Done)

(* Each structure is in one place: in the heap, once in one list, or in    *)
(* the hands of one caller.  The lists share the field `next', and are     *)
(* passed around by three threads under a lock that protects only two of   *)
(* them.  (118-139, 170-183, 305-320, 342-346)                             *)
OnePlace ==
    /\ \A i, j \in 1..Len(Set \o Done) : (Set \o Done)[i] = (Set \o Done)[j] => i = j
    /\ \A c, d \in Clients : timer[c] = timer[d] /\ timer[c] # NULL => c = d
    /\ Listed \cap Held = {}
    /\ heap = Structs \ (Listed \cup Held)

(* The map has one entry for each structure that has been set and is not   *)
(* being set anew, and no two with the same id: SDL_RemoveTimer() of a     *)
(* structure that is used again never cancels a timer that is set.         *)
(* (312-340, 361-383)                                                      *)
MapExact ==
    /\ timermap = {[timerID |-> timerID[s], timer |-> s] :
                      s \in Listed \cup InHand({"remove", "push"})}
    /\ \A e, f \in timermap : e.timerID = f.timerID => e = f
    /\ \A s \in ToSet(Set) : ~canceled[s]
    /\ \A s \in ToSet(Done) : canceled[s]

-------------------------------------------------------------------------------
(* The promise: OneShotTimers.  A timer is set for its client when the     *)
(* time it is due is written.                                              *)
Service == INSTANCE OneShotTimers
    WITH next <- nextID

ImplementsTimers == Service!FairSpec
===============================================================================
