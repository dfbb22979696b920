--------------------------- MODULE SDLTimersRefinement ---------------------------
(***************************************************************************)
(* SDLTimers keeps the promise of OneShotTimers: a timer that is set is    *)
(* called once, not before it is due and at most MaxLate after, for any    *)
(* number of clients, structures and timers, every width of the clock that *)
(* is more than twice the times compared, and all that the scheduler may   *)
(* do within its slack.                                                    *)
(***************************************************************************)
EXTENDS SDLTimersProofs

-------------------------------------------------------------------------------
(* Remainders.  Only SMT knows of %, and nothing of what follows from it.  *)

LEMMA ModExact ==
    ASSUME NEW W \in Nat \ {0}, NEW r \in 0..(W - 1), NEW q \in Int
    PROVE  (q * W + r) % W = r
<1> DEFINE a == q * W + r
           d == a \div W
           m == a % W
<1>1. a = d * W + m /\ m \in 0..(W - 1) /\ d \in Int
  OBVIOUS
<1> HIDE DEF d, m
<1>2. (q - d) * W = m - r
  BY <1>1
<1>3. q - d = 0
  <2>1. CASE q - d >= 1
    <3>1. (q - d) * W >= W
      <4>1. (q - d - 1) * W >= 0
        BY <1>1, <2>1
      <4> QED
        BY <1>1, <4>1
    <3> QED
      BY <1>1, <1>2, <3>1
  <2>2. CASE q - d <= -1
    <3>1. (q - d) * W <= -W
      <4>1. (d - q - 1) * W >= 0
        BY <1>1, <2>2
      <4> QED
        BY <1>1, <4>1
    <3> QED
      BY <1>1, <1>2, <3>1
  <2> QED
    BY <1>1, <2>1, <2>2
<1> QED
  BY <1>1, <1>2, <1>3 DEF m

LEMMA ModSplit ==
    ASSUME NEW W \in Nat \ {0}, NEW a \in Int
    PROVE  \E q \in Int : a = q * W + (a % W) /\ a % W \in 0..(W - 1)
<1>1. a \div W \in Int /\ a = (a \div W) * W + (a % W) /\ a % W \in 0..(W - 1)
  OBVIOUS
<1> QED
  BY <1>1

LEMMA ModShift ==
    ASSUME NEW W \in Nat \ {0}, NEW a \in Int, NEW q \in Int
    PROVE  (a + q * W) % W = a % W
<1>1. PICK p \in Int : a = p * W + (a % W) /\ a % W \in 0..(W - 1)
  BY ModSplit
<1>2. a + q * W = (p + q) * W + (a % W)
  BY <1>1
<1>3. ((p + q) * W + (a % W)) % W = a % W
  BY <1>1, ModExact
<1> QED
  BY <1>2, <1>3

LEMMA ModAdd ==
    ASSUME NEW W \in Nat \ {0}, NEW a \in Int, NEW b \in Int
    PROVE  ((a % W) + b) % W = (a + b) % W
<1>1. PICK p \in Int : a = p * W + (a % W) /\ a % W \in 0..(W - 1)
  BY ModSplit
<1> DEFINE x == a % W
           y == x + b
<1>2. x \in Int /\ y \in Int
  BY <1>1
<1>3. a = p * W + x
  BY <1>1
<1> HIDE DEF x
<1>4. a + b = y + p * W
  BY <1>2, <1>3
<1> HIDE DEF y
<1>5. (y + p * W) % W = y % W
  BY <1>2, ModShift
<1>6. (a + b) % W = y % W
  BY <1>4, <1>5
<1> QED
  BY <1>6 DEF x, y

LEMMA ModSub ==
    ASSUME NEW W \in Nat \ {0}, NEW a \in Int, NEW b \in Int
    PROVE  ((a % W) - (b % W)) % W = (a - b) % W
<1> DEFINE x == a % W
<1>1. x \in Int
  BY ModSplit
<1> HIDE DEF x
<1>2. PICK q \in Int : b = q * W + (b % W) /\ b % W \in 0..(W - 1)
  BY ModSplit
<1> DEFINE y == b % W
           z == x - b
<1>3. y \in Int /\ b = q * W + y /\ z \in Int
  BY <1>1, <1>2
<1> HIDE DEF y
<1>4. x - y = z + q * W
  BY <1>1, <1>3
<1> HIDE DEF z
<1>5. (x - y) % W = z % W
  <2>1. (z + q * W) % W = z % W
    BY <1>3, ModShift
  <2> QED
    BY <1>4, <2>1
<1>6. z % W = (a - b) % W
  <2>1. ((a % W) + (-b)) % W = (a + (-b)) % W
    <3>1. -b \in Int
      OBVIOUS
    <3> QED
      BY <3>1, ModAdd
  <2>2. x + (-b) = z /\ a + (-b) = a - b
    BY <1>1 DEF z
  <2> QED
    BY <2>1, <2>2 DEF x
<1> QED
  BY <1>5, <1>6 DEF x, y

LEMMA ModSmall ==
    ASSUME NEW W \in Nat \ {0}, NEW a \in Int
    PROVE  /\ a \in 0..(W - 1) => a % W = a
           /\ a \in (-W)..(-1) => a % W = a + W
<1>1. ASSUME a \in 0..(W - 1)
      PROVE a % W = a
  <2>1. (0 * W + a) % W = a
    BY <1>1, ModExact
  <2> QED
    BY <2>1
<1>2. ASSUME a \in (-W)..(-1)
      PROVE  a % W = a + W
  <2>1. ((-1) * W + (a + W)) % W = a + W
    <3>1. a + W \in 0..(W - 1) /\ -1 \in Int
      BY <1>2
    <3> QED
      BY <3>1, ModExact
  <2>2. (-1) * W + (a + W) = a
    OBVIOUS
  <2> QED
    BY <2>1, <2>2
<1> QED
  BY <1>1, <1>2

-------------------------------------------------------------------------------
(* The clock.  Readings stand for true times, of which they keep the       *)
(* remainder; those of times less than half of Word apart compare as the   *)
(* times do.                                                               *)

LEMMA Compared ==
    ASSUME NEW x \in Int, NEW y \in Int, 2 * (x - y) < Word, 2 * (y - x) < Word
    PROVE  Before(x % Word, y % Word) <=> x < y
<1>1. Word \in Nat \ {0}
  BY WordAssumption
<1>2. ((x % Word) - (y % Word)) % Word = (x - y) % Word
  BY <1>1, ModSub
<1>3. Before(x % Word, y % Word) <=> 2 * ((x - y) % Word) >= Word
  BY <1>2 DEF Before
<1> DEFINE d == x - y
<1>4. d \in Int /\ 2 * d < Word /\ -Word < 2 * d /\ (x < y <=> d < 0)
  BY <1>1
<1> HIDE DEF d
<1>5. CASE d >= 0
  <2>1. d \in 0..(Word - 1)
    BY <1>1, <1>4, <1>5
  <2>2. d % Word = d
    BY <1>1, <2>1, ModSmall
  <2>3. ~(2 * (d % Word) >= Word)
    BY <1>1, <1>4, <2>2
  <2> QED
    BY <1>3, <1>4, <1>5, <2>3 DEF d
<1>6. CASE d < 0
  <2>1. d \in (-Word)..(-1)
    BY <1>1, <1>4, <1>6
  <2>2. d % Word = d + Word
    BY <1>1, <1>4, <2>1, ModSmall
  <2>3. 2 * (d % Word) >= Word
    BY <1>1, <1>4, <2>2
  <2> QED
    BY <1>3, <1>4, <1>6, <2>3 DEF d
<1> QED
  BY <1>4, <1>5, <1>6

(* The same from a third reading `now', a and b being counted from it.     *)
LEMMA ComparedFrom ==
    ASSUME NEW n \in Int, NEW a \in Int, NEW b \in Int,
           2 * (a - b) < Word, 2 * (b - a) < Word
    PROVE  Before((n + a) % Word, (n + b) % Word) <=> a < b
<1> DEFINE x == n + a
           y == n + b
<1>1. x \in Int /\ y \in Int /\ x - y = a - b /\ y - x = b - a /\ (x < y <=> a < b)
  OBVIOUS
<1> HIDE DEF x, y
<1>2. Before(x % Word, y % Word) <=> x < y
  BY <1>1, Compared
<1> QED
  BY <1>1, <1>2 DEF x, y

(* `now' moves on, and what is counted from it moves back.                 *)
LEMMA NextReading ==
    ASSUME NEW n \in Int, NEW a \in Int
    PROVE  /\ (((n + 1) % Word) + (a - 1)) % Word = (n + a) % Word
           /\ (((n + a) % Word) + 1) % Word = (n + (a + 1)) % Word
<1>1. Word \in Nat \ {0}
  BY WordAssumption
<1> DEFINE m == n + 1
           b == a - 1
           x == n + a
           k == 1
<1>2. /\ m \in Int /\ b \in Int /\ x \in Int /\ k \in Int
      /\ m + b = n + a /\ x + k = n + (a + 1)
  OBVIOUS
<1> HIDE DEF m, b, x, k
<1>3. ((m % Word) + b) % Word = (m + b) % Word
  BY <1>1, <1>2, ModAdd
<1>4. ((x % Word) + k) % Word = (x + k) % Word
  BY <1>1, <1>2, ModAdd
<1> QED
  BY <1>2, <1>3, <1>4 DEF m, b, x, k

-------------------------------------------------------------------------------
(* The invariant.  A structure counts from when its time is written until  *)
(* it is called.                                                           *)

Setting(s) == \E c \in Clients : cpc[c] \in {"map", "push"} /\ timer[c] = s

InSet(s) == s \in ToSet(pending) \/ s \in ToSet(sorting) \/ s \in ToSet(timers)

Counts(s) == Setting(s) \/ InSet(s)

Left(s) == left[timerID[s]]

(* There is a time left for each of them and for nothing else, and the     *)
(* reading it is scheduled for says so.                                    *)
LeftInv ==
    /\ \A id : id \in DOMAIN left <=> \E s \in Structs : Counts(s) /\ timerID[s] = id
    /\ \A s \in Structs : Counts(s) =>
          /\ scheduled[s] = (now + Left(s)) % Word
          /\ 2 * (Left(s) + MaxLate) < Word
          /\ 2 * MaxLate < Word

(* The reading the timer thread goes by is at most as old as its pass.     *)
LookInv == tpc = "dispatch" => \E e \in 0..lag : now = (tick + e) % Word

SortedInv ==
    \A i, j \in 1..Len(timers) : i < j => Left(timers[i]) <= Left(timers[j])

(* How late a timer can be where it is.  In the list of pending timers, it *)
(* has its client still with it, or the semaphore was posted and the timer *)
(* thread takes it over in this pass or in the next.                       *)
Fresh(s) == \E c \in Clients : cpc[c] = "post" /\ Left(s) >= -clag[c]

Taken(s) ==
    \/ tpc = "maintain" /\ Left(s) >= -(CallSlack + 2 * Slack + lag)
    \/ tpc = "sleep" /\ sem > 0 /\ Left(s) >= -(CallSlack + Slack + lag)
    \/ tpc \in {"sort", "dispatch"} /\ sem > 0 /\ Left(s) >= -(CallSlack + lag)

HandLate == \A c \in Clients : cpc[c] \in {"map", "push"} => Left(timer[c]) >= -clag[c]

PendingLate == \A s \in ToSet(pending) : Fresh(s) \/ Taken(s)

SortingLate == \A s \in ToSet(sorting) : Left(s) >= -(CallSlack + 2 * Slack + lag)

TimersLate ==
    \A s \in ToSet(timers) :
       IF tpc = "sleep"
       THEN /\ Left(s) >= -(Slack + lag)
            /\ delay # 0 => Left(s) >= delay /\ delay # MAXWAIT
       ELSE Left(s) >= -(CallSlack + 2 * Slack + lag)

LateInv == HandLate /\ PendingLate /\ SortingLate /\ TimersLate

TimeInv == LeftInv /\ LookInv /\ SortedInv /\ LateInv

-------------------------------------------------------------------------------
(* What the invariant says of a timer that is set.                         *)

LEMMA Slacks ==
    /\ Slack \in Nat /\ CallSlack \in Nat /\ MaxLate \in Nat /\ Word \in Nat \ {0}
    /\ CallSlack + 2 * Slack <= MaxLate /\ CallSlack + 2 * Slack + Slack = MaxLate
    /\ Slack <= MaxLate /\ CallSlack <= MaxLate
BY SlackAssumption, WordAssumption DEF MaxLate

LEMMA TimeTypes ==
    ASSUME TypeInv
    PROVE  /\ pending \in Lists /\ sorting \in Lists /\ timers \in Lists
           /\ timerID \in [Structs -> Nat] /\ scheduled \in [Structs -> 0..(Word - 1)]
           /\ canceled \in [Structs -> BOOLEAN]
           /\ nextID \in Nat /\ sem \in Nat /\ lag \in Nat /\ lag <= Slack
           /\ tpc \in {"maintain", "sort", "dispatch", "sleep"}
           /\ tick \in 0..(Word - 1) /\ delay \in 0..(Word - 1) /\ now \in 0..(Word - 1)
           /\ cpc \in [Clients -> {"idle", "remove", "fill", "map", "push", "post"}]
           /\ timer \in [Clients -> Structs \cup {NULL}]
           /\ clag \in [Clients -> 0..CallSlack]
           /\ \A id \in DOMAIN left : left[id] \in Int
<1>1. Slack \in Nat
  BY SlackAssumption
<1>2. lag \in Nat /\ lag <= Slack
  BY <1>1 DEF TypeInv, TypeOK
<1> QED
  BY <1>2, ListTypes DEF TypeInv, TypeOK

LEMMA CountsStructs ==
    ASSUME TypeInv
    PROVE  /\ \A s : Counts(s) => s \in Structs /\ Named(s)
           /\ \A s : InSet(s) => InLists(s)
<1>1. ASSUME NEW s, InSet(s)
      PROVE  InLists(s) /\ s \in Structs /\ Named(s)
  <2>1. InLists(s)
    BY <1>1 DEF InSet, InLists
  <2> QED
    BY <2>1, InListsStructs DEF Named, Mapped, TypeInv
<1>2. ASSUME NEW s, Setting(s)
      PROVE  s \in Structs /\ Named(s)
  BY <1>2 DEF Setting, Named, Mapped, TypeInv, CallInv
<1> QED
  BY <1>1, <1>2 DEF Counts

(* What LateInv comes to.                                                  *)
LEMMA LateBound ==
    ASSUME TypeInv, TimeInv, NEW s, Counts(s)
    PROVE  /\ s \in Structs /\ timerID[s] \in DOMAIN left
           /\ Left(s) \in Int
           /\ scheduled[s] = (now + Left(s)) % Word
           /\ 2 * (Left(s) + MaxLate) < Word /\ 2 * MaxLate < Word
           /\ Left(s) >= -MaxLate
<1>1. s \in Structs
  BY CountsStructs
<1>2. timerID[s] \in DOMAIN left
  BY <1>1 DEF TimeInv, LeftInv
<1>3. Left(s) \in Int
  BY <1>2, TimeTypes DEF Left
<1>4. Slack \in Nat /\ CallSlack \in Nat /\ lag \in Nat /\ lag <= Slack
  BY Slacks, TimeTypes
<1>5. \A c \in Clients : clag[c] \in Int /\ clag[c] <= CallSlack /\ clag[c] >= 0
  BY <1>4, TimeTypes
<1>6. CASE Setting(s)
  <2>1. PICK c \in Clients : cpc[c] \in {"map", "push"} /\ timer[c] = s
    BY <1>6 DEF Setting
  <2>2. Left(s) >= -clag[c]
    BY <2>1 DEF TimeInv, LateInv, HandLate
  <2>3. clag[c] \in Int /\ clag[c] <= CallSlack
    BY <1>5
  <2> QED
    BY <1>1, <1>2, <1>3, <1>4, <2>2, <2>3 DEF TimeInv, LeftInv, MaxLate
<1>7. CASE InSet(s)
  <2>1. \/ \E c \in Clients : Left(s) >= -clag[c]
        \/ Left(s) >= -(CallSlack + 2 * Slack + lag)
        \/ Left(s) >= -(CallSlack + Slack + lag)
        \/ Left(s) >= -(CallSlack + lag)
        \/ Left(s) >= -(Slack + lag)
    BY <1>7 DEF InSet, TimeInv, LateInv, PendingLate, SortingLate, TimersLate, Fresh, Taken
  <2>2. Left(s) >= -(CallSlack + 3 * Slack)
    BY <1>3, <1>4, <1>5, <2>1
  <2> QED
    BY <1>1, <1>2, <1>3, <2>2 DEF TimeInv, LeftInv, MaxLate
<1> QED
  BY <1>6, <1>7 DEF Counts

(* Whether the first timer is due, by the reading the thread goes by.      *)
LEMMA DueWhen ==
    ASSUME TypeInv, TimeInv, NEW s, Counts(s), NEW e \in 0..lag,
           now = (tick + e) % Word
    PROVE  /\ Before(tick, scheduled[s]) <=> Left(s) + e > 0
           /\ (now - tick) % Word = e
           /\ Left(s) + e > 0 => (scheduled[s] - tick) % Word = Left(s) + e
<1>1. /\ tick \in Int /\ tick \in 0..(Word - 1) /\ e \in Int /\ 0 <= e /\ e <= MaxLate
      /\ Word \in Nat \ {0} /\ MaxLate \in Nat
  BY TimeTypes, Slacks
<1>2. /\ Left(s) \in Int /\ Left(s) >= -MaxLate
      /\ 2 * (Left(s) + MaxLate) < Word /\ 2 * MaxLate < Word
      /\ scheduled[s] = (now + Left(s)) % Word
  BY LateBound
<1> DEFINE l == Left(s)
           x == tick + e
           b == e + l
           z == 0
<1>3. l \in Int /\ tick \in Int /\ e \in Int
  BY <1>1, <1>2
<1>4. /\ l >= -MaxLate /\ 2 * (l + MaxLate) < Word /\ 2 * MaxLate < Word /\ b = e + l
  BY <1>2
<1>5. scheduled[s] = ((x % Word) + l) % Word
  BY <1>2
<1> HIDE DEF l
<1>6. x \in Int /\ b \in Int /\ x + l = tick + b /\ z \in Int /\ z = 0
  BY <1>3
<1> HIDE DEF x, b, z
<1>7. /\ 2 * (z - b) < Word /\ 2 * (b - z) < Word /\ (z < b <=> l + e > 0)
       /\ tick + z = tick
  BY <1>1, <1>3, <1>4, <1>6
<1>8. ((x % Word) + l) % Word = (x + l) % Word
  BY <1>1, <1>3, <1>6, ModAdd
<1>9. scheduled[s] = (tick + b) % Word
  BY <1>5, <1>6, <1>8
<1>10. tick % Word = tick
  BY <1>1, ModSmall
<1>11. Before((tick + z) % Word, (tick + b) % Word) <=> z < b
  BY <1>1, <1>6, <1>7, ComparedFrom
<1>12. Before(tick, scheduled[s]) <=> l + e > 0
  BY <1>7, <1>9, <1>10, <1>11
<1>13. (now - tick) % Word = e
  <2>1. ((x % Word) - (tick % Word)) % Word = (x - tick) % Word
    BY <1>1, <1>6, ModSub
  <2>2. x - tick = e
    BY <1>1 DEF x
  <2>3. e % Word = e
    <3>1. e \in 0..(Word - 1)
      BY <1>1, <1>2
    <3> QED
      BY <1>1, <3>1, ModSmall
  <2>4. now = x % Word
    BY DEF x
  <2> QED
    BY <1>10, <2>1, <2>2, <2>3, <2>4
<1>14. ASSUME l + e > 0
       PROVE  (scheduled[s] - tick) % Word = l + e
  <2> DEFINE y == tick + b
  <2>1. y \in Int /\ y - tick = b
    BY <1>3, <1>6
  <2>2. b \in 0..(Word - 1)
    BY <1>1, <1>3, <1>4, <1>6, <1>14
  <2> HIDE DEF y
  <2>3. ((y % Word) - (tick % Word)) % Word = (y - tick) % Word
    BY <1>1, <2>1, ModSub
  <2>4. b % Word = b
    BY <1>1, <1>6, <2>2, ModSmall
  <2>5. b = l + e
    BY <1>3, <1>4
  <2>6. scheduled[s] = y % Word
    BY <1>9 DEF y
  <2> QED
    BY <1>10, <2>1, <2>3, <2>4, <2>5, <2>6
<1> QED
  BY <1>12, <1>13, <1>14 DEF l

-------------------------------------------------------------------------------
(* The invariant holds at first, and through the steps of the clients.     *)

LEMMA TimeInit == Init => TimeInv
<1> SUFFICES ASSUME Init
             PROVE  TimeInv
  OBVIOUS
<1>1. /\ pending = <<>> /\ sorting = <<>> /\ timers = <<>>
      /\ tpc = "maintain" /\ cpc = [c \in Clients |-> "idle"]
      /\ DOMAIN left = {}
  BY DEF Init
<1>2. \A s : ~Counts(s)
  BY <1>1, EmptySeqElements DEF Counts, Setting, InSet
<1>3. SortedInv
  BY <1>1 DEF SortedInv
<1>4. LeftInv /\ LookInv
  BY <1>1, <1>2 DEF LeftInv, LookInv
<1>5. LateInv
  BY <1>1, EmptySeqElements DEF LateInv, HandLate, PendingLate, SortingLate, TimersLate
<1> QED
  BY <1>3, <1>4, <1>5 DEF TimeInv

(* A step that sets no timer, calls none, and moves none to another list.  *)
LEMMA TimeFrame ==
    ASSUME TimeInv,
           UNCHANGED <<timerID, scheduled, pending, sorting, timers, tpc, tick, delay,
                       now, lag, left>>,
           sem' = sem \/ (sem \in Nat /\ sem' = sem + 1),
           \A c \in Clients :
              /\ cpc'[c] \in {"map", "push"} <=> cpc[c] \in {"map", "push"}
              /\ cpc[c] \in {"map", "push"} => timer'[c] = timer[c] /\ clag'[c] = clag[c],
           \A s \in ToSet(pending) : Fresh(s) => (Fresh(s) \/ Taken(s))'
    PROVE  TimeInv'
<1>1. \A s : Left(s)' = Left(s)
  BY DEF Left
<1>2. \A s : Counts(s)' <=> Counts(s)
  BY DEF Counts, Setting, InSet
<1>3. LeftInv' /\ LookInv' /\ SortedInv'
  BY <1>1, <1>2 DEF TimeInv, LeftInv, LookInv, SortedInv
<1>4. HandLate' /\ SortingLate' /\ TimersLate'
  BY <1>1 DEF TimeInv, LateInv, HandLate, SortingLate, TimersLate
<1>5. \A s : Taken(s) => Taken(s)'
  BY <1>1 DEF Taken
<1>6. PendingLate'
  BY <1>5 DEF TimeInv, LateInv, PendingLate
<1> QED
  BY <1>3, <1>4, <1>6 DEF TimeInv, LateInv

LEMMA ObtainTime ==
    ASSUME TypeInv, TimeInv, NEW c \in Clients, Obtain(c)
    PROVE  TimeInv'
<1>1. /\ UNCHANGED <<timerID, scheduled, pending, sorting, timers, tpc, tick, delay,
                     now, lag, left, sem, clag>>
      /\ cpc[c] = "idle" /\ \E to \in {"remove", "fill"} : cpc' = [cpc EXCEPT ![c] = to]
      /\ \E s : timer' = [timer EXCEPT ![c] = s]
  BY DEF Obtain, Recycle, Malloc, Goes, threadVars, timeVars
<1>2. /\ cpc \in [Clients -> {"idle", "remove", "fill", "map", "push", "post"}]
      /\ timer \in [Clients -> Structs \cup {NULL}]
  BY TimeTypes
<1>3. \A d \in Clients :
         /\ cpc'[d] \in {"map", "push"} <=> cpc[d] \in {"map", "push"}
         /\ cpc[d] \in {"map", "push"} => timer'[d] = timer[d] /\ clag'[d] = clag[d]
         /\ cpc[d] = "post" => cpc'[d] = "post"
  BY <1>1, <1>2
<1>4. \A s : Fresh(s) => Fresh(s)'
  BY <1>1, <1>3 DEF Fresh, Left
<1> QED
  BY <1>1, <1>3, <1>4, TimeFrame

LEMMA PushTime ==
    ASSUME TypeInv, TimeInv, NEW c \in Clients, Push(c)
    PROVE  TimeInv'
<1>1. PICK s : s = timer[c]
  OBVIOUS
<1>2. /\ UNCHANGED <<timerID, scheduled, sorting, timers, tpc, tick, delay,
                     now, lag, left, sem, clag>>
      /\ cpc[c] = "push" /\ cpc' = [cpc EXCEPT ![c] = "post"]
      /\ timer' = [timer EXCEPT ![c] = NULL]
      /\ pending' = <<s>> \o pending
  BY <1>1 DEF Push, Goes, structVars, threadVars, timeVars
<1>3. /\ cpc \in [Clients -> {"idle", "remove", "fill", "map", "push", "post"}]
      /\ timer \in [Clients -> Structs \cup {NULL}]
  BY TimeTypes
<1>4. ToSet(pending') = {s} \cup ToSet(pending)
  <2>1. s \in Structs
    BY <1>1, <1>2 DEF TypeInv, CallInv
  <2>2. <<s>> \in Lists /\ ToSet(<<s>>) = {s} /\ pending \in Lists
    BY <2>1, ListSingle, TimeTypes
  <2>3. ToSet(<<s>> \o pending) = ToSet(<<s>>) \cup ToSet(pending)
    BY <2>2, ListConcat
  <2> QED
    BY <1>2, <2>2, <2>3
<1>5. \A r : Left(r)' = Left(r)
  BY <1>2 DEF Left
<1>6. \A r : Counts(r)' <=> Counts(r)
  <2>1. \A r : Setting(r) <=> r = s \/ Setting(r)'
    BY <1>1, <1>2, <1>3 DEF Setting
  <2>2. \A r : InSet(r)' <=> r = s \/ InSet(r)
    BY <1>2, <1>4 DEF InSet
  <2> QED
    BY <2>1, <2>2 DEF Counts
<1>7. LeftInv' /\ LookInv' /\ SortedInv'
  BY <1>2, <1>5, <1>6 DEF TimeInv, LeftInv, LookInv, SortedInv
<1>8. HandLate' /\ SortingLate' /\ TimersLate'
  BY <1>2, <1>3, <1>5 DEF TimeInv, LateInv, HandLate, SortingLate, TimersLate
<1>9. PendingLate'
  <2>1. \A r : Taken(r) => Taken(r)'
    BY <1>2, <1>5 DEF Taken
  <2>2. \A r : Fresh(r) => Fresh(r)'
    BY <1>2, <1>3, <1>5 DEF Fresh
  <2>3. Fresh(s)'
    <3>1. Left(s) >= -clag[c]
      BY <1>1, <1>2 DEF TimeInv, LateInv, HandLate
    <3>2. cpc'[c] = "post"
      BY <1>2, <1>3
    <3> QED
      BY <1>2, <1>5, <3>1, <3>2 DEF Fresh
  <2> QED
    BY <1>4, <2>1, <2>2, <2>3 DEF TimeInv, LateInv, PendingLate
<1> QED
  BY <1>7, <1>8, <1>9 DEF TimeInv, LateInv

(* SDL_SemPost: what the client put in the list is the timer thread's now. *)
LEMMA PostTime ==
    ASSUME TypeInv, TimeInv, NEW c \in Clients, Post(c)
    PROVE  TimeInv'
<1>1. /\ UNCHANGED <<timerID, scheduled, pending, sorting, timers, tpc, tick, delay,
                     now, lag, left, timer>>
      /\ cpc[c] = "post" /\ cpc' = [cpc EXCEPT ![c] = "idle"]
      /\ clag' = [clag EXCEPT ![c] = 0] /\ sem' = sem + 1
  BY DEF Post, Goes, structVars, threadVars
<1>2. /\ cpc \in [Clients -> {"idle", "remove", "fill", "map", "push", "post"}]
      /\ clag \in [Clients -> 0..CallSlack] /\ sem \in Nat
      /\ lag \in Nat /\ tpc \in {"maintain", "sort", "dispatch", "sleep"}
  BY TimeTypes
<1>3. \A d \in Clients :
         /\ cpc'[d] \in {"map", "push"} <=> cpc[d] \in {"map", "push"}
         /\ cpc[d] \in {"map", "push"} => timer'[d] = timer[d] /\ clag'[d] = clag[d]
         /\ cpc[d] = "post" /\ d # c => cpc'[d] = "post" /\ clag'[d] = clag[d]
  BY <1>1, <1>2
<1>4. ASSUME NEW s \in ToSet(pending), Fresh(s)
      PROVE  (Fresh(s) \/ Taken(s))'
  <2>1. PICK d \in Clients : cpc[d] = "post" /\ Left(s) >= -clag[d]
    BY <1>4 DEF Fresh
  <2>2. Left(s)' = Left(s)
    BY <1>1 DEF Left
  <2>3. CASE d # c
    BY <1>3, <2>1, <2>2, <2>3 DEF Fresh
  <2>4. CASE d = c
    <3>1. Counts(s)
      BY DEF Counts, InSet
    <3>2. Left(s) \in Int
      BY <3>1, LateBound
    <3>3. /\ clag[c] \in Int /\ clag[c] <= CallSlack /\ CallSlack \in Nat /\ Slack \in Nat
      BY <1>2, Slacks
    <3>4. /\ Left(s) >= -(CallSlack + 2 * Slack + lag)
          /\ Left(s) >= -(CallSlack + Slack + lag)
          /\ Left(s) >= -(CallSlack + lag)
      BY <1>2, <2>1, <2>4, <3>2, <3>3
    <3>5. sem' > 0
      BY <1>1, <1>2
    <3> QED
      BY <1>1, <1>2, <2>2, <3>4, <3>5 DEF Taken
  <2> QED
    BY <2>3, <2>4
<1> QED
  BY <1>1, <1>2, <1>3, <1>4, TimeFrame

(* The moment a timer is set: its id is new, and so is its time left.      *)
LEMMA FillAndMapTime ==
    ASSUME TypeInv, PlaceInv, MapInv, TimeInv, NEW c \in Clients, Fill(c), FillAndMap(c)
    PROVE  TimeInv'
<1>1. PICK s : s = timer[c]
  OBVIOUS
<1>2. PICK n : n = nextID
  OBVIOUS
<1>3. PICK interval \in Intervals :
         /\ scheduled' = [scheduled EXCEPT ![s] = (now + interval) % Word]
         /\ left' = [id \in DOMAIN left \cup {n} |->
                        IF id = n THEN interval ELSE left[id]]
  BY <1>1, <1>2 DEF FillAndMap
<1>4. /\ UNCHANGED <<pending, sorting, timers, tpc, tick, delay, now, lag, sem, clag, timer>>
      /\ cpc[c] = "fill" /\ cpc' = [cpc EXCEPT ![c] = "map"]
      /\ timerID' = [timerID EXCEPT ![s] = n]
  BY <1>1, <1>2 DEF Fill, FillAndMap, Goes, threadVars
<1>5. /\ cpc \in [Clients -> {"idle", "remove", "fill", "map", "push", "post"}]
      /\ timer \in [Clients -> Structs \cup {NULL}]
      /\ timerID \in [Structs -> Nat] /\ scheduled \in [Structs -> 0..(Word - 1)]
      /\ clag \in [Clients -> 0..CallSlack]
  BY TimeTypes
<1>6. s \in Structs /\ s # NULL
  BY <1>1, <1>4, NullAssumption DEF TypeInv, CallInv
<1>7. ~InLists(s) /\ \A d \in Clients : timer[d] = s => d = c
  BY <1>1, <1>6 DEF PlaceInv, HandsApart
<1>8. ~Named(s)
  BY <1>1, <1>4, <1>7 DEF Named, Mapped
<1>9. \A r : Counts(r) => r \in Structs /\ r # s /\ timerID[r] \in DOMAIN left /\ timerID[r] # n
  <2> SUFFICES ASSUME NEW r, Counts(r)
               PROVE  r \in Structs /\ r # s /\ timerID[r] \in DOMAIN left /\ timerID[r] # n
    OBVIOUS
  <2>1. r \in Structs /\ Named(r)
    BY CountsStructs
  <2>2. timerID[r] < n
    BY <1>2, <2>1 DEF MapInv, IDsApart
  <2>3. n \in Nat /\ timerID[r] \in Nat
    BY <1>2, <1>5, <2>1, TimeTypes
  <2> QED
    BY <1>8, <2>1, <2>2, <2>3, LateBound
<1>10. \A r : Counts(r) => Left(r)' = Left(r) /\ scheduled'[r] = scheduled[r]
                            /\ timerID'[r] = timerID[r]
  BY <1>3, <1>4, <1>5, <1>9 DEF Left
<1>11. Left(s)' = interval /\ timerID'[s] = n /\ scheduled'[s] = (now + interval) % Word
  BY <1>3, <1>4, <1>5, <1>6 DEF Left
<1>12. \A r : Counts(r)' <=> r = s \/ Counts(r)
  BY <1>1, <1>4, <1>5 DEF Counts, Setting, InSet
<1>13. interval \in Nat /\ 2 * (interval + MaxLate) < Word /\ 2 * MaxLate < Word
  <2>1. interval \in Nat /\ 2 * (interval + MaxLate) < Word
    BY IntervalsAssumption, WordAssumption
  <2> QED
    BY <2>1, Slacks
<1>14. LeftInv'
  <2>1. ASSUME NEW id \in DOMAIN left'
        PROVE  \E r \in Structs : Counts(r)' /\ timerID'[r] = id
    <3>1. CASE id = n
      BY <1>6, <1>11, <1>12, <3>1
    <3>2. CASE id \in DOMAIN left
      <4>1. PICK r \in Structs : Counts(r) /\ timerID[r] = id
        BY <3>2 DEF TimeInv, LeftInv
      <4> QED
        BY <1>10, <1>12, <4>1
    <3> QED
      BY <1>3, <2>1, <3>1, <3>2
  <2>2. ASSUME NEW r \in Structs, Counts(r)'
        PROVE  timerID'[r] \in DOMAIN left'
    BY <1>3, <1>9, <1>10, <1>11, <1>12, <2>2
  <2>3. ASSUME NEW r \in Structs, Counts(r)'
        PROVE  /\ scheduled'[r] = (now' + Left(r)') % Word
               /\ 2 * (Left(r)' + MaxLate) < Word
    <3>1. CASE r = s
      BY <1>4, <1>11, <1>13, <3>1
    <3>2. CASE Counts(r)
      BY <1>4, <1>10, <3>2 DEF TimeInv, LeftInv
    <3> QED
      BY <1>12, <2>3, <3>1, <3>2
  <2> QED
    BY <1>13, <2>1, <2>2, <2>3 DEF LeftInv
<1>15. LookInv'
  BY <1>4 DEF TimeInv, LookInv
<1>16. \A r : InSet(r) => Left(r)' = Left(r)
  BY <1>10 DEF Counts
<1>17. SortedInv'
  <2>1. \A i \in 1..Len(timers) : InSet(timers[i])
    BY TimeTypes, InSeq DEF InSet, Lists
  <2> QED
    BY <1>4, <1>16, <2>1 DEF TimeInv, SortedInv
<1>18. HandLate'
  <2> SUFFICES ASSUME NEW d \in Clients, cpc'[d] \in {"map", "push"},
                      NEW r, r = timer[d]
               PROVE  Left(r)' >= -clag[d]
    BY <1>4 DEF HandLate, Left
  <2>1. CASE d = c
    <3>1. clag[d] \in Nat
      BY <1>5, Slacks
    <3> QED
      BY <1>1, <1>11, <1>13, <2>1, <3>1
  <2>2. CASE d # c
    <3>1. cpc[d] \in {"map", "push"}
      BY <1>4, <1>5, <2>2
    <3>2. Counts(r)
      BY <3>1 DEF Counts, Setting
    <3>3. Left(r) >= -clag[d]
      BY <3>1 DEF TimeInv, LateInv, HandLate
    <3> QED
      BY <1>10, <3>2, <3>3
  <2> QED
    BY <2>1, <2>2
<1>19. PendingLate'
  <2>1. ASSUME NEW r \in ToSet(pending)
        PROVE  /\ Left(r)' = Left(r)
               /\ Fresh(r) => Fresh(r)'
               /\ Taken(r) => Taken(r)'
    <3>1. Left(r)' = Left(r)
      BY <1>16 DEF InSet
    <3>2. \A d \in Clients : cpc[d] = "post" => cpc'[d] = "post"
      BY <1>4, <1>5
    <3> QED
      BY <1>4, <3>1, <3>2 DEF Fresh, Taken
  <2> QED
    BY <1>4, <2>1 DEF TimeInv, LateInv, PendingLate
<1>20. SortingLate'
  BY <1>4, <1>16 DEF InSet, TimeInv, LateInv, SortingLate
<1>21. TimersLate'
  BY <1>4, <1>16 DEF InSet, TimeInv, LateInv, TimersLate
<1> QED
  BY <1>14, <1>15, <1>17, <1>18, <1>19, <1>20, <1>21 DEF TimeInv, LateInv

LEMMA CallTime ==
    ASSUME TypeInv, PlaceInv, MapInv, TimeInv, NEW c \in Clients, Call(c)
    PROVE  TimeInv'
<1>1. /\ cpc \in [Clients -> {"idle", "remove", "fill", "map", "push", "post"}]
      /\ timer \in [Clients -> Structs \cup {NULL}]
      /\ clag \in [Clients -> 0..CallSlack]
  BY TimeTypes
<1>2. ASSUME UNCHANGED <<timerID, scheduled, pending, sorting, timers, tpc, tick, delay,
                        now, lag, left, sem>>,
             \A d \in Clients :
                /\ cpc'[d] \in {"map", "push"} <=> cpc[d] \in {"map", "push"}
                /\ cpc[d] \in {"map", "push"} => timer'[d] = timer[d] /\ clag'[d] = clag[d]
                /\ cpc[d] = "post" => cpc'[d] = "post" /\ clag'[d] = clag[d]
      PROVE  TimeInv'
  <2>1. \A s : Fresh(s) => Fresh(s)'
    BY <1>2 DEF Fresh, Left
  <2> QED
    BY <1>2, <2>1, TimeFrame
<1>3. CASE RemoveTimer(c)
  <2>1. /\ UNCHANGED <<timerID, scheduled, pending, sorting, timers, tpc, tick, delay,
                       now, lag, left, sem, timer, clag>>
        /\ cpc[c] = "remove" /\ cpc' = [cpc EXCEPT ![c] = "fill"]
    BY <1>3 DEF RemoveTimer, Goes, threadVars, timeVars
  <2> QED
    BY <1>1, <1>2, <2>1
<1>4. CASE Fill(c) /\ FillAndFail(c)
  <2>1. /\ UNCHANGED <<timerID, scheduled, pending, sorting, timers, tpc, tick, delay,
                       now, lag, left, sem>>
        /\ cpc[c] = "fill" /\ cpc' = [cpc EXCEPT ![c] = "idle"]
        /\ timer' = [timer EXCEPT ![c] = NULL] /\ clag' = [clag EXCEPT ![c] = 0]
    BY <1>4 DEF Fill, FillAndFail, Goes, threadVars
  <2>2. \A d \in Clients : d # c =>
           cpc'[d] = cpc[d] /\ timer'[d] = timer[d] /\ clag'[d] = clag[d]
    BY <1>1, <2>1
  <2>3. cpc'[c] = "idle"
    BY <1>1, <2>1
  <2> QED
    BY <1>2, <2>1, <2>2, <2>3
<1>5. CASE Map(c)
  <2>1. /\ UNCHANGED <<timerID, scheduled, pending, sorting, timers, tpc, tick, delay,
                       now, lag, left, sem, timer, clag>>
        /\ cpc[c] = "map" /\ cpc' = [cpc EXCEPT ![c] = "push"]
    BY <1>5 DEF Map, Goes, structVars, threadVars, timeVars
  <2> QED
    BY <1>1, <1>2, <2>1
<1> QED
  BY <1>3, <1>4, <1>5, FillAndMapTime, PushTime, PostTime DEF Call, Fill

-------------------------------------------------------------------------------
(* It holds through the steps of the timer thread.                         *)

LEMMA ThreadFrame ==
    ASSUME TimeInv, UNCHANGED <<timerID, scheduled, cpc, timer, now, clag, left>>,
           \A s : InSet(s)' <=> InSet(s)
    PROVE  /\ LeftInv' /\ HandLate'
           /\ \A s : Left(s)' = Left(s) /\ (Fresh(s) => Fresh(s)')
<1>1. \A s : Left(s)' = Left(s)
  BY DEF Left
<1>2. \A s : Counts(s)' <=> Counts(s)
  BY DEF Counts, Setting
<1>3. LeftInv'
  BY <1>1, <1>2 DEF TimeInv, LeftInv
<1>4. HandLate'
  BY <1>1 DEF TimeInv, LateInv, HandLate
<1> QED
  BY <1>1, <1>3, <1>4 DEF Fresh

LEMMA MaintainTime ==
    ASSUME TypeInv, TimeInv, Maintain
    PROVE  TimeInv'
<1>1. /\ tpc = "maintain" /\ tpc' = "sort" /\ sorting' = pending /\ pending' = <<>>
      /\ UNCHANGED <<timerID, scheduled, timers, cpc, timer, now, lag, clag, left>>
  BY DEF Maintain, structVars, timeVars
<1>2. sorting = <<>>
  BY <1>1 DEF TypeInv, SortInv
<1>3. \A s : InSet(s)' <=> InSet(s)
  BY <1>1, <1>2, EmptySeqElements DEF InSet
<1>4. /\ LeftInv' /\ HandLate'
      /\ \A s : Left(s)' = Left(s)
  BY <1>1, <1>3, ThreadFrame
<1>5. LookInv' /\ SortedInv'
  BY <1>1, <1>4 DEF TimeInv, LookInv, SortedInv
<1>6. PendingLate'
  BY <1>1, EmptySeqElements DEF PendingLate
<1>7. ASSUME NEW s \in ToSet(pending)
      PROVE  Left(s) >= -(CallSlack + 2 * Slack + lag)
  <2>1. Left(s) \in Int
    BY LateBound DEF Counts, InSet
  <2>2. /\ CallSlack \in Nat /\ Slack \in Nat /\ lag \in Nat
        /\ \A c \in Clients : clag[c] \in Int /\ clag[c] <= CallSlack
    BY Slacks, TimeTypes
  <2>3. CASE Fresh(s)
    <3>1. PICK c \in Clients : Left(s) >= -clag[c]
      BY <2>3 DEF Fresh
    <3> QED
      BY <2>1, <2>2, <3>1
  <2>4. CASE Taken(s)
    BY <1>1, <2>4 DEF Taken
  <2> QED
    BY <2>3, <2>4 DEF TimeInv, LateInv, PendingLate
<1>8. SortingLate'
  BY <1>1, <1>4, <1>7 DEF SortingLate
<1>9. TimersLate'
  BY <1>1, <1>4 DEF TimeInv, LateInv, TimersLate
<1> QED
  BY <1>4, <1>5, <1>6, <1>8, <1>9 DEF TimeInv, LateInv

(* Timers compare as the times that are left to them do.                   *)
LEMMA BeforeWhen ==
    ASSUME TypeInv, TimeInv, NEW r, NEW s, Counts(r), Counts(s)
    PROVE  /\ Left(r) \in Int /\ Left(s) \in Int
           /\ Before(scheduled[r], scheduled[s]) <=> Left(r) < Left(s)
<1>1. /\ Left(r) \in Int /\ Left(r) >= -MaxLate /\ 2 * (Left(r) + MaxLate) < Word
      /\ Left(s) \in Int /\ Left(s) >= -MaxLate /\ 2 * (Left(s) + MaxLate) < Word
  BY LateBound
<1>2. MaxLate \in Nat /\ Word \in Nat \ {0} /\ now \in Int
  BY Slacks, TimeTypes
<1> DEFINE a == Left(r)
           b == Left(s)
<1>3. /\ scheduled[r] = (now + a) % Word
      /\ scheduled[s] = (now + b) % Word
  BY LateBound
<1>4. /\ a \in Int /\ a >= -MaxLate /\ 2 * (a + MaxLate) < Word
      /\ b \in Int /\ b >= -MaxLate /\ 2 * (b + MaxLate) < Word
  BY <1>1
<1> HIDE DEF a, b
<1>5. 2 * (a - b) < Word /\ 2 * (b - a) < Word
  BY <1>2, <1>4
<1>6. Before((now + a) % Word, (now + b) % Word) <=> a < b
  BY <1>2, <1>4, <1>5, ComparedFrom
<1> QED
  BY <1>1, <1>3, <1>6 DEF a, b

LEMMA InsertIndex ==
    ASSUME NEW S, NEW s \in Seq(S), NEW e \in S, NEW i \in 1..(Len(s) + 1)
    PROVE  /\ Len(InsertAt(s, i, e)) = Len(s) + 1
           /\ \A j \in 1..(Len(s) + 1) :
                 InsertAt(s, i, e)[j] = IF j < i THEN s[j]
                                        ELSE IF j = i THEN e ELSE s[j - 1]
<1> DEFINE l == SubSeq(s, 1, i - 1)
           g == <<e>>
           r == SubSeq(s, i, Len(s))
           m == l \o g
<1>1. Len(s) \in Nat /\ i \in 1..(Len(s) + 1) /\ i \in Int
  OBVIOUS
<1>2. /\ l \in Seq(S) /\ Len(l) = i - 1
      /\ \A j \in 1..(i - 1) : l[j] = s[j]
  OBVIOUS
<1>3. /\ r \in Seq(S) /\ Len(r) = Len(s) - i + 1
      /\ \A j \in 1..(Len(s) - i + 1) : r[j] = s[i + j - 1]
  OBVIOUS
<1>4. g \in Seq(S) /\ Len(g) = 1 /\ g[1] = e
  OBVIOUS
<1> HIDE DEF l, g, r
<1>5. /\ m \in Seq(S) /\ Len(m) = i
      /\ \A j \in 1..(i - 1) : m[j] = s[j]
      /\ m[i] = e
  <2>1. /\ l \o g \in Seq(S) /\ Len(l \o g) = Len(l) + Len(g)
        /\ \A j \in 1..(Len(l) + Len(g)) :
              (l \o g)[j] = IF j <= Len(l) THEN l[j] ELSE g[j - Len(l)]
    BY <1>2, <1>4, ConcatProperties
  <2>2. Len(l) + Len(g) = i /\ i - (i - 1) = 1 /\ i \in 1..i /\ ~(i <= i - 1)
    BY <1>1, <1>2, <1>4
  <2>3. (l \o g)[i] = e
    BY <1>2, <1>4, <2>1, <2>2
  <2>4. \A j \in 1..(i - 1) : j \in 1..i /\ j <= i - 1
    BY <1>1
  <2> QED
    BY <1>2, <2>1, <2>2, <2>3, <2>4
<1> HIDE DEF m
<1>6. /\ Len(m \o r) = Len(s) + 1
      /\ \A j \in 1..i : (m \o r)[j] = m[j]
      /\ \A j \in (i + 1)..(Len(s) + 1) : (m \o r)[j] = s[j - 1]
  <2>1. /\ Len(m \o r) = Len(m) + Len(r)
        /\ \A j \in 1..(Len(m) + Len(r)) :
              (m \o r)[j] = IF j <= Len(m) THEN m[j] ELSE r[j - Len(m)]
    BY <1>3, <1>5, ConcatProperties
  <2>2. Len(m) + Len(r) = Len(s) + 1
    BY <1>1, <1>3, <1>5
  <2>3. ASSUME NEW j \in 1..i
        PROVE  (m \o r)[j] = m[j]
    <3>1. j \in 1..(Len(s) + 1) /\ j <= i
      BY <1>1
    <3> QED
      BY <1>5, <2>1, <2>2, <3>1
  <2>4. ASSUME NEW j \in (i + 1)..(Len(s) + 1)
        PROVE  (m \o r)[j] = s[j - 1]
    <3>1. /\ j \in 1..(Len(s) + 1) /\ ~(j <= i)
          /\ j - i \in 1..(Len(s) - i + 1) /\ i + (j - i) - 1 = j - 1
      BY <1>1
    <3>2. (m \o r)[j] = r[j - i]
      BY <1>5, <2>1, <2>2, <3>1
    <3>3. r[j - i] = s[i + (j - i) - 1]
      BY <1>3, <3>1
    <3> QED
      BY <3>1, <3>2, <3>3
  <2> QED
    BY <2>1, <2>2, <2>3, <2>4
<1>7. InsertAt(s, i, e) = m \o r
  BY DEF InsertAt, m, l, g, r
<1> QED
  BY <1>1, <1>5, <1>6, <1>7

(* A timer is put where the ones before it are not later, and those after  *)
(* it are.                                                                 *)
LEMMA InsertSorted ==
    ASSUME TypeInv, TimeInv, NEW s, Counts(s)
    PROVE  \A i, j \in 1..(Len(timers) + 1) :
              i < j => Left(InsertAt(timers, Place(s), s)[i])
                          <= Left(InsertAt(timers, Place(s), s)[j])
<1> DEFINE n == Len(timers)
           p == Place(s)
           u == InsertAt(timers, p, s)
<1>1. timers \in Seq(Structs) /\ n \in Nat /\ s \in Structs
  BY CountsStructs, TimeTypes DEF Lists
<1>2. \A i \in 1..n : Counts(timers[i])
  BY <1>1, InSeq DEF Counts, InSet
<1>3. Left(s) \in Int /\ \A i \in 1..n : Left(timers[i]) \in Int
  BY <1>2, LateBound
<1>4. /\ p \in 1..(n + 1)
      /\ p <= n => Before(scheduled[s], scheduled[timers[p]])
      /\ \A j \in 1..(p - 1) : ~Before(scheduled[s], scheduled[timers[j]])
  BY <1>1, PlaceExists
<1>5. \A j \in 1..(n + 1) :
         u[j] = IF j < p THEN timers[j] ELSE IF j = p THEN s ELSE timers[j - 1]
  BY <1>1, <1>4, InsertIndex
<1>6. \A i \in 1..n : Before(scheduled[s], scheduled[timers[i]]) <=> Left(s) < Left(timers[i])
  BY <1>2, BeforeWhen
<1> DEFINE lt(i) == Left(timers[i])
           ls == Left(s)
           lu(i) == Left(u[i])
<1>7. \A i, j \in 1..n : i < j => lt(i) <= lt(j)
  BY DEF TimeInv, SortedInv
<1>8. ls \in Int /\ \A i \in 1..n : lt(i) \in Int
  BY <1>3
<1>9. \A j \in 1..(n + 1) : lu(j) = IF j < p THEN lt(j) ELSE IF j = p THEN ls ELSE lt(j - 1)
  BY <1>5
<1>10. p <= n => ls < lt(p)
  BY <1>1, <1>4, <1>6
<1>11. \A j \in 1..(p - 1) : ~(ls < lt(j))
  <2> TAKE j \in 1..(p - 1)
  <2>1. j \in 1..n
    BY <1>1, <1>4
  <2> QED
    BY <1>4, <1>6, <2>1
<1> HIDE DEF lt, ls, lu, p, n
<1>12. ASSUME NEW i \in 1..(n + 1), NEW j \in 1..(n + 1), i < j
       PROVE  lu(i) <= lu(j)
  <2>1. CASE j < p
    <3>1. i \in 1..n /\ j \in 1..n /\ i < p
      BY <1>1, <1>4, <1>12, <2>1
    <3> QED
      BY <1>7, <1>9, <1>12, <2>1, <3>1
  <2>2. CASE j = p
    <3>1. i \in 1..(p - 1) /\ i \in 1..n /\ i < p
      BY <1>1, <1>4, <1>12, <2>2
    <3>2. lu(i) = lt(i) /\ lu(j) = ls
      BY <1>9, <2>2, <3>1
    <3> QED
      BY <1>8, <1>11, <3>1, <3>2
  <2>3. CASE j > p
    <3>1. j - 1 \in 1..n /\ p \in 1..n /\ p <= n
      BY <1>1, <1>4, <1>12, <2>3
    <3>2. lu(j) = lt(j - 1)
      BY <1>1, <1>4, <1>9, <2>3
    <3>3. CASE i < p
      <4>1. i \in 1..n /\ i < j - 1 /\ lu(i) = lt(i)
        BY <1>1, <1>4, <1>9, <2>3, <3>3
      <4> QED
        BY <1>7, <3>1, <3>2, <4>1
    <3>4. CASE i = p
      <4>1. lu(i) = ls /\ ls < lt(p)
        BY <1>4, <1>9, <1>10, <3>1, <3>4
      <4>2. lt(p) <= lt(j - 1)
        <5>1. CASE p = j - 1
          BY <1>8, <3>1, <5>1
        <5>2. CASE p < j - 1
          BY <1>7, <3>1, <5>2
        <5> QED
          BY <1>4, <2>3, <3>1, <5>1, <5>2
      <4> QED
        BY <1>8, <3>1, <3>2, <4>1, <4>2
    <3>5. CASE i > p
      <4>1. i - 1 \in 1..n /\ i - 1 < j - 1
        BY <1>1, <1>4, <1>12, <3>5
      <4>2. lu(i) = lt(i - 1)
        BY <1>1, <1>4, <1>9, <3>5
      <4> QED
        BY <1>7, <3>1, <3>2, <4>1, <4>2
    <3> QED
      BY <1>4, <3>3, <3>4, <3>5
  <2> QED
    BY <1>4, <2>1, <2>2, <2>3
<1> QED
  BY <1>12 DEF lu, p, n

LEMMA SortOneTime ==
    ASSUME TypeInv, TimeInv, Sort, SortOne
    PROVE  TimeInv'
<1>1. PICK s : s = Head(sorting)
  OBVIOUS
<1>2. /\ tpc = "sort" /\ tpc' = tpc /\ sorting # <<>> /\ sorting' = Tail(sorting)
      /\ timers' = InsertAt(timers, Place(s), s)
      /\ UNCHANGED <<timerID, scheduled, pending, sem, cpc, timer, now, lag, clag, left>>
  BY <1>1 DEF Sort, SortOne, structVars, timeVars
<1>3. /\ sorting \in Lists /\ timers \in Lists
      /\ timers \in Seq(Structs) /\ Len(timers) \in Nat
  BY TimeTypes DEF Lists
<1>4. s \in Structs /\ ToSet(sorting) = {s} \cup ToSet(sorting')
  BY <1>1, <1>2, <1>3, ListHeadTail
<1>5. Place(s) \in 1..(Len(timers) + 1)
  BY <1>3, PlaceExists
<1>6. ToSet(timers') = ToSet(timers) \cup {s} /\ Len(timers') = Len(timers) + 1
  BY <1>2, <1>3, <1>4, <1>5, ListInsert, InsertIndex
<1>7. \A r : InSet(r)' <=> InSet(r)
  BY <1>2, <1>4, <1>6 DEF InSet
<1>8. /\ LeftInv' /\ HandLate'
      /\ \A r : Left(r)' = Left(r) /\ (Fresh(r) => Fresh(r)')
  BY <1>2, <1>7, ThreadFrame
<1>9. LookInv'
  BY <1>2 DEF LookInv
<1>10. SortedInv'
  <2>1. Counts(s)
    BY <1>4 DEF Counts, InSet
  <2>2. \A i, j \in 1..(Len(timers) + 1) : i < j => Left(timers'[i]) <= Left(timers'[j])
    BY <1>2, <2>1, InsertSorted
  <2>3. \A i, j \in 1..Len(timers') : i < j => left[timerID[timers'[i]]] <= left[timerID[timers'[j]]]
    BY <1>6, <2>2 DEF Left
  <2> QED
    BY <1>2, <2>3 DEF SortedInv, Left
<1>11. PendingLate'
  <2>1. \A r : Taken(r) => Taken(r)'
    BY <1>2, <1>8 DEF Taken
  <2> QED
    BY <1>2, <1>8, <2>1 DEF TimeInv, LateInv, PendingLate
<1>12. SortingLate' /\ TimersLate'
  BY <1>2, <1>4, <1>6, <1>8 DEF TimeInv, LateInv, SortingLate, TimersLate
<1> QED
  BY <1>8, <1>9, <1>10, <1>11, <1>12 DEF TimeInv, LateInv

LEMMA LookTime ==
    ASSUME TypeInv, TimeInv, Sort, Look
    PROVE  TimeInv'
<1>1. /\ tpc = "sort" /\ tpc' = "dispatch" /\ tick' = now
      /\ UNCHANGED <<timerID, scheduled, pending, sorting, timers, sem, cpc, timer, now, lag,
                     clag, left>>
  BY DEF Sort, Look, structVars, timeVars
<1>2. \A r : InSet(r)' <=> InSet(r)
  BY <1>1 DEF InSet
<1>3. /\ LeftInv' /\ HandLate'
      /\ \A r : Left(r)' = Left(r) /\ (Fresh(r) => Fresh(r)')
  BY <1>1, <1>2, ThreadFrame
<1>4. LookInv'
  <2> DEFINE z == 0
  <2>1. /\ z \in 0..lag /\ now + z = now
        /\ now \in 0..(Word - 1) /\ now \in Int /\ Word \in Nat \ {0}
    BY TimeTypes, Slacks
  <2> HIDE DEF z
  <2>2. now % Word = now
    BY <2>1, ModSmall
  <2>3. now = (now + z) % Word
    BY <2>1, <2>2
  <2> QED
    BY <1>1, <2>1, <2>3 DEF LookInv
<1>5. SortedInv'
  BY <1>1, <1>3 DEF TimeInv, SortedInv
<1>6. \A r : Taken(r) => Taken(r)'
  BY <1>1, <1>3 DEF Taken
<1>7. PendingLate'
  BY <1>1, <1>3, <1>6 DEF TimeInv, LateInv, PendingLate
<1>8. SortingLate' /\ TimersLate'
  BY <1>1, <1>3 DEF TimeInv, LateInv, SortingLate, TimersLate
<1> QED
  BY <1>3, <1>4, <1>5, <1>7, <1>8 DEF TimeInv, LateInv

(* The first timer has the least time left.                                *)
LEMMA HeadFirst ==
    ASSUME TypeInv, TimeInv, timers # <<>>, NEW s, s = Head(timers)
    PROVE  /\ Counts(s) /\ s \in Structs /\ s \in ToSet(timers)
           /\ \A r \in ToSet(timers) : Left(s) <= Left(r)
<1>1. /\ timers \in Lists /\ timers \in Seq(Structs) /\ Len(timers) \in Nat
      /\ 1 \in 1..Len(timers) /\ s = timers[1]
  BY TimeTypes DEF Lists
<1>2. s \in ToSet(timers) /\ s \in Structs
  BY <1>1, ListHeadTail
<1>3. Counts(s)
  BY <1>2 DEF Counts, InSet
<1>4. ASSUME NEW r \in ToSet(timers)
      PROVE  Left(s) <= Left(r)
  <2>1. PICK i \in 1..Len(timers) : timers[i] = r
    BY <1>1, <1>4, InSeq
  <2>2. Left(s) \in Int
    BY <1>3, LateBound
  <2>3. CASE i = 1
    BY <1>1, <2>1, <2>2, <2>3
  <2>4. CASE 1 < i
    BY <1>1, <2>1, <2>4 DEF TimeInv, SortedInv
  <2> QED
    BY <1>1, <2>1, <2>3, <2>4
<1> QED
  BY <1>2, <1>3, <1>4

(* A timer that is called is due, is not canceled, and is gone then.       *)
LEMMA DispatchTime ==
    ASSUME TypeInv, PlaceInv, MapInv, TimeInv, Dispatch
    PROVE  /\ TimeInv'
           /\ \E id \in DOMAIN left :
                 left[id] <= 0 /\ left' = [i \in DOMAIN left \ {id} |-> left[i]]
<1>1. PICK s : s = Head(timers)
  OBVIOUS
<1>2. PICK n : n = timerID[s]
  OBVIOUS
<1>3. /\ tpc = "dispatch" /\ tpc' = tpc /\ timers # <<>> /\ timers' = Tail(timers)
      /\ ~Before(tick, scheduled[s])
      /\ scheduled' = [scheduled EXCEPT ![s] = 0]
      /\ UNCHANGED <<timerID, pending, sorting, sem, tick, delay, cpc, timer, now, lag, clag>>
  BY <1>1 DEF Dispatch, Due
<1>4. /\ timers \in Lists /\ timers \in Seq(Structs) /\ Len(timers) \in Nat
      /\ scheduled \in [Structs -> 0..(Word - 1)]
      /\ timerID \in [Structs -> Nat]
  BY TimeTypes DEF Lists
<1>5. Counts(s) /\ s \in Structs /\ s \in ToSet(timers) /\ InLists(s)
  BY <1>1, <1>3, HeadFirst DEF InLists
<1>6. ToSet(timers) = {s} \cup ToSet(timers') /\ s \notin ToSet(timers')
  BY <1>1, <1>3, <1>4, ListHeadTail DEF PlaceInv, ListsApart
<1>7. /\ s \notin ToSet(pending) /\ s \notin ToSet(sorting)
      /\ \A d \in Clients : timer[d] # NULL => timer[d] # s
  BY <1>5 DEF PlaceInv, ListsApart, Apart, HandsApart
<1>8. ~Setting(s)
  BY <1>7, NullAssumption DEF Setting, TypeInv, CallInv
<1>9. ~canceled[s]
  BY <1>5 DEF MapInv, Uncanceled
<1>10. left' = [id \in DOMAIN left \ {n} |-> left[id]]
  BY <1>1, <1>2, <1>9 DEF Dispatch
<1>11. n \in DOMAIN left /\ left[n] = Left(s) /\ Left(s) \in Int
  BY <1>2, <1>5, LateBound DEF Left
<1>12. left[n] <= 0
  <2>1. PICK e \in 0..lag : now = (tick + e) % Word
    BY <1>3 DEF TimeInv, LookInv
  <2>2. Before(tick, scheduled[s]) <=> Left(s) + e > 0
    BY <1>5, <2>1, DueWhen
  <2>3. e \in Nat
    BY TimeTypes
  <2> QED
    BY <1>3, <1>11, <2>2, <2>3
<1>13. \A r : Counts(r)' <=> Counts(r) /\ r # s
  <2>1. \A r : InSet(r)' <=> InSet(r) /\ r # s
    BY <1>3, <1>6, <1>7 DEF InSet
  <2>2. \A r : Setting(r)' <=> Setting(r) /\ r # s
    BY <1>3, <1>8 DEF Setting
  <2> QED
    BY <2>1, <2>2 DEF Counts
<1>14. \A r : Counts(r) /\ r # s => /\ r \in Structs /\ timerID[r] # n
                                    /\ timerID[r] \in DOMAIN left
  BY <1>2, <1>5, CountsStructs, LateBound DEF MapInv, IDsApart
<1>15. \A r : Counts(r) /\ r # s => Left(r)' = Left(r)
  BY <1>3, <1>10, <1>14 DEF Left
<1>16. \A r : Counts(r) /\ r # s => scheduled'[r] = scheduled[r]
  BY <1>3, <1>4, <1>14
<1>17. LeftInv'
  <2>1. ASSUME NEW id \in DOMAIN left'
        PROVE  \E r \in Structs : Counts(r)' /\ timerID'[r] = id
    <3>1. id \in DOMAIN left /\ id # n
      BY <1>10, <2>1
    <3>2. PICK r \in Structs : Counts(r) /\ timerID[r] = id
      BY <3>1 DEF TimeInv, LeftInv
    <3> QED
      BY <1>2, <1>3, <1>13, <3>1, <3>2
  <2>2. ASSUME NEW r \in Structs, Counts(r)'
        PROVE  timerID'[r] \in DOMAIN left'
    BY <1>3, <1>10, <1>13, <1>14, <2>2
  <2>3. ASSUME NEW r \in Structs, Counts(r)'
        PROVE  /\ scheduled'[r] = (now' + Left(r)') % Word
               /\ 2 * (Left(r)' + MaxLate) < Word /\ 2 * MaxLate < Word
    BY <1>3, <1>13, <1>15, <1>16, <2>3 DEF TimeInv, LeftInv
  <2> QED
    BY <2>1, <2>2, <2>3 DEF LeftInv
<1>18. LookInv'
  BY <1>3 DEF TimeInv, LookInv
<1>19. \A r : InSet(r) /\ r # s => Left(r)' = Left(r)
  BY <1>15 DEF Counts
<1>20. SortedInv'
  <2>1. /\ Len(timers') = Len(timers) - 1
        /\ \A i \in 1..(Len(timers) - 1) : timers'[i] = timers[i + 1]
        /\ timers' \in Seq(Structs)
    BY <1>3, <1>4
  <2>2. \A i \in 1..Len(timers') : InSet(timers'[i]) /\ timers'[i] # s
    <3>1. \A i \in 1..Len(timers') : timers'[i] \in ToSet(timers')
      BY <2>1, InSeq
    <3> QED
      BY <1>6, <3>1 DEF InSet
  <2>3. ASSUME NEW i \in 1..Len(timers'), NEW j \in 1..Len(timers'), i < j,
               NEW a, NEW b, a = timers'[i], b = timers'[j]
        PROVE  Left(a)' <= Left(b)'
    <3>1. /\ a = timers[i + 1] /\ b = timers[j + 1] /\ i + 1 < j + 1
          /\ i + 1 \in 1..Len(timers) /\ j + 1 \in 1..Len(timers)
      <4>1. i \in 1..(Len(timers) - 1) /\ j \in 1..(Len(timers) - 1)
        BY <2>1
      <4>2. /\ i + 1 < j + 1
            /\ i + 1 \in 1..Len(timers) /\ j + 1 \in 1..Len(timers)
        BY <1>4, <2>3, <4>1
      <4> QED
        BY <2>1, <2>3, <4>1, <4>2
    <3>2. Left(a) <= Left(b)
      BY <3>1 DEF TimeInv, SortedInv
    <3>3. Left(a)' = Left(a) /\ Left(b)' = Left(b)
      BY <1>19, <2>2, <2>3
    <3> QED
      BY <3>2, <3>3
  <2> QED
    BY <2>3 DEF SortedInv, Left
<1>21. HandLate'
  <2> SUFFICES ASSUME NEW d \in Clients, cpc[d] \in {"map", "push"}, NEW r, r = timer[d]
               PROVE  Left(r)' >= -clag[d]
    BY <1>3 DEF HandLate, Left
  <2>1. Counts(r) /\ r # s
    BY <1>8 DEF Counts, Setting
  <2>2. Left(r) >= -clag[d]
    BY DEF TimeInv, LateInv, HandLate
  <2> QED
    BY <1>15, <2>1, <2>2
<1>22. PendingLate'
  <2>1. ASSUME NEW r \in ToSet(pending)
        PROVE  /\ Fresh(r) => Fresh(r)'
               /\ Taken(r) => Taken(r)'
    <3>1. Left(r)' = Left(r)
      BY <1>7, <1>19 DEF InSet
    <3> QED
      BY <1>3, <3>1 DEF Fresh, Taken
  <2> QED
    BY <1>3, <2>1 DEF TimeInv, LateInv, PendingLate
<1>23. SortingLate'
  BY <1>3, <1>7, <1>19 DEF InSet, TimeInv, LateInv, SortingLate
<1>24. TimersLate'
  BY <1>3, <1>6, <1>19 DEF InSet, TimeInv, LateInv, TimersLate
<1> QED
  BY <1>10, <1>11, <1>12, <1>17, <1>18, <1>20, <1>21, <1>22, <1>23, <1>24
  DEF TimeInv, LateInv

(* The thread sleeps for as long as is left to the first timer.            *)
LEMMA ReckonTime ==
    ASSUME TypeInv, TimeInv, Reckon
    PROVE  TimeInv'
<1>1. /\ tpc = "dispatch" /\ tpc' = "sleep" /\ ~Due /\ lag' = 0
      /\ UNCHANGED <<timerID, scheduled, pending, sorting, timers, sem, cpc, timer, now,
                     clag, left>>
  BY DEF Reckon, structVars
<1>2. \A r : InSet(r)' <=> InSet(r)
  BY <1>1 DEF InSet
<1>3. /\ LeftInv' /\ HandLate'
      /\ \A r : Left(r)' = Left(r) /\ (Fresh(r) => Fresh(r)')
  BY <1>1, <1>2, ThreadFrame
<1>4. LookInv' /\ SortedInv'
  BY <1>1, <1>3 DEF TimeInv, LookInv, SortedInv
<1>5. /\ CallSlack \in Nat /\ Slack \in Nat /\ lag \in Nat /\ lag <= Slack
      /\ MaxLate \in Nat /\ Word \in Nat
  BY Slacks, TimeTypes
<1>6. PendingLate'
  <2>1. ASSUME NEW r \in ToSet(pending), Taken(r)
        PROVE  Taken(r)'
    <3>1. Left(r) \in Int
      BY LateBound DEF Counts, InSet
    <3>2. sem > 0 /\ Left(r) >= -(CallSlack + lag)
      BY <1>1, <2>1 DEF Taken
    <3>3. Left(r) >= -(CallSlack + Slack + 0)
      BY <1>5, <3>1, <3>2
    <3> QED
      BY <1>1, <1>3, <3>2, <3>3 DEF Taken
  <2> QED
    BY <1>1, <1>3, <2>1 DEF TimeInv, LateInv, PendingLate
<1>7. SortingLate'
  <2>1. sorting' = <<>>
    BY <1>1 DEF TypeInv, SortInv
  <2> QED
    BY <2>1, EmptySeqElements DEF SortingLate
<1>8. TimersLate'
  <2> SUFFICES ASSUME NEW r \in ToSet(timers)
               PROVE  /\ Left(r) >= -(Slack + 0)
                      /\ delay' # 0 => Left(r) >= delay' /\ delay' # MAXWAIT
    BY <1>1, <1>3 DEF TimersLate
  <2>1. timers # <<>>
    BY EmptySeqElements
  <2>2. PICK s : s = Head(timers)
    OBVIOUS
  <2>3. Counts(s) /\ Left(s) <= Left(r) /\ Counts(r)
    BY <2>1, <2>2, HeadFirst DEF Counts, InSet
  <2>4. PICK e \in 0..lag : now = (tick + e) % Word
    BY <1>1 DEF TimeInv, LookInv
  <2>5. Before(tick, scheduled[s])
    BY <1>1, <2>1, <2>2 DEF Due
  <2>6. /\ Left(s) + e > 0
        /\ (now - tick) % Word = e
        /\ (scheduled[s] - tick) % Word = Left(s) + e
    BY <2>3, <2>4, <2>5, DueWhen
  <2>7. delay' = Adjusted(Left(s) + e, e)
    BY <2>1, <2>2, <2>6 DEF Reckon
  <2>8. /\ Left(s) \in Int /\ Left(r) \in Int
        /\ 2 * (Left(s) + MaxLate) < Word
    BY <2>3, LateBound
  <2>9. e \in Nat /\ e <= Slack
    BY <1>5
  <2> DEFINE l == Left(s)
             m == Left(r)
  <2>10. /\ l \in Int /\ m \in Int /\ l <= m /\ l + e > 0 /\ 2 * (l + MaxLate) < Word
         /\ delay' = IF e > l + e THEN 0 ELSE (l + e) - e
    BY <2>3, <2>6, <2>7, <2>8 DEF Adjusted
  <2> HIDE DEF l, m
  <2>11. m >= -(Slack + 0)
    BY <1>5, <2>9, <2>10
  <2>12. delay' # 0 => delay' = l /\ l >= 1
    BY <2>9, <2>10
  <2>13. l >= 1 => l # Word - 1
    BY <1>5, <2>10
  <2> QED
    BY <2>10, <2>11, <2>12, <2>13 DEF l, m, MAXWAIT
<1> QED
  BY <1>3, <1>4, <1>6, <1>7, <1>8 DEF TimeInv, LateInv

LEMMA WakeTime ==
    ASSUME TypeInv, TimeInv, Wake
    PROVE  TimeInv'
<1>1. /\ tpc = "sleep" /\ tpc' = "maintain" /\ lag' = 0
      /\ UNCHANGED <<timerID, scheduled, pending, sorting, timers, cpc, timer, now,
                     clag, left>>
  BY DEF Wake, structVars
<1>2. \A r : InSet(r)' <=> InSet(r)
  BY <1>1 DEF InSet
<1>3. /\ LeftInv' /\ HandLate'
      /\ \A r : Left(r)' = Left(r) /\ (Fresh(r) => Fresh(r)')
  BY <1>1, <1>2, ThreadFrame
<1>4. LookInv' /\ SortedInv'
  BY <1>1, <1>3 DEF TimeInv, LookInv, SortedInv
<1>5. CallSlack \in Nat /\ Slack \in Nat /\ lag \in Nat /\ lag <= Slack
  BY Slacks, TimeTypes
<1>6. PendingLate'
  <2>1. ASSUME NEW r \in ToSet(pending), Taken(r)
        PROVE  Taken(r)'
    <3>1. Left(r) \in Int
      BY LateBound DEF Counts, InSet
    <3>2. Left(r) >= -(CallSlack + Slack + lag)
      BY <1>1, <2>1 DEF Taken
    <3>3. Left(r) >= -(CallSlack + 2 * Slack + 0)
      BY <1>5, <3>1, <3>2
    <3> QED
      BY <1>1, <1>3, <3>3 DEF Taken
  <2> QED
    BY <1>1, <1>3, <2>1 DEF TimeInv, LateInv, PendingLate
<1>7. SortingLate'
  <2>1. sorting' = <<>>
    BY <1>1 DEF TypeInv, SortInv
  <2> QED
    BY <2>1, EmptySeqElements DEF SortingLate
<1>8. TimersLate'
  <2>1. ASSUME NEW r \in ToSet(timers)
        PROVE  Left(r) >= -(CallSlack + 2 * Slack + 0)
    <3>1. Left(r) \in Int
      BY LateBound DEF Counts, InSet
    <3>2. Left(r) >= -(Slack + lag)
      BY <1>1 DEF TimeInv, LateInv, TimersLate
    <3> QED
      BY <1>5, <3>1, <3>2
  <2> QED
    BY <1>1, <1>3, <2>1 DEF TimersLate
<1> QED
  BY <1>3, <1>4, <1>6, <1>7, <1>8 DEF TimeInv, LateInv

LEMMA TimerThreadTime ==
    ASSUME TypeInv, PlaceInv, MapInv, TimeInv, TimerThread
    PROVE  TimeInv'
BY MaintainTime, SortOneTime, LookTime, DispatchTime, ReckonTime, WakeTime
DEF TimerThread, Sort

-------------------------------------------------------------------------------
(* It holds as time passes.                                                *)

LEMMA TickTime ==
    ASSUME TypeInv, TimeInv, Tick
    PROVE  TimeInv'
<1>1. /\ UNCHANGED <<timerID, scheduled, pending, sorting, timers, sem, tpc, tick, cpc, timer>>
      /\ now' = (now + 1) % Word
      /\ left' = [id \in DOMAIN left |-> left[id] - 1]
  BY DEF Tick, structVars
<1>2. /\ CallSlack \in Nat /\ Slack \in Nat /\ lag \in Nat /\ lag <= Slack
      /\ MaxLate \in Nat /\ Word \in Nat \ {0}
      /\ delay \in 0..(Word - 1)
      /\ clag \in [Clients -> 0..CallSlack]
      /\ tpc \in {"maintain", "sort", "dispatch", "sleep"}
  BY Slacks, TimeTypes
<1>3. Runs => lag' = lag + 1
  BY DEF Tick
<1>4. tpc # "sleep" \/ sem > 0 \/ delay = 0 => Runs
  BY DEF Runs, Woken
<1>5. \A c \in Clients : cpc[c] # "idle" => clag[c] \in Nat /\ clag'[c] = clag[c] + 1
  BY <1>2 DEF Tick, Calls
<1>6. \A r : Counts(r)' <=> Counts(r)
  BY <1>1 DEF Counts, Setting, InSet
<1>7. \A r : Counts(r) => Left(r) \in Int /\ Left(r)' = Left(r) - 1
  BY <1>1, LateBound DEF Left
<1>8. \A r : InSet(r) => Left(r) \in Int /\ Left(r)' = Left(r) - 1
  BY <1>7 DEF Counts
<1>9. LeftInv'
  <2>1. ASSUME NEW r \in Structs, Counts(r)
        PROVE  /\ scheduled'[r] = (now' + Left(r)') % Word
               /\ 2 * (Left(r)' + MaxLate) < Word /\ 2 * MaxLate < Word
    <3> DEFINE l == Left(r)
    <3>1. /\ l \in Int /\ scheduled[r] = (now + l) % Word
          /\ 2 * (l + MaxLate) < Word /\ 2 * MaxLate < Word /\ Left(r)' = l - 1
      BY <1>7, <2>1, LateBound
    <3> HIDE DEF l
    <3>2. (((now + 1) % Word) + (l - 1)) % Word = (now + l) % Word
      BY <3>1, TimeTypes, NextReading
    <3>3. 2 * ((l - 1) + MaxLate) < Word
      BY <1>2, <3>1
    <3> QED
      BY <1>1, <3>1, <3>2, <3>3
  <2> QED
    BY <1>1, <1>6, <2>1 DEF TimeInv, LeftInv
<1>10. LookInv'
  <2> SUFFICES ASSUME tpc = "dispatch"
               PROVE  \E e \in 0..lag' : now' = (tick + e) % Word
    BY <1>1 DEF LookInv
  <2>1. PICK e \in 0..lag : now = (tick + e) % Word
    BY DEF TimeInv, LookInv
  <2>2. e \in Int /\ e + 1 \in 0..(lag + 1) /\ tick \in Int /\ lag' = lag + 1
    BY <1>2, <1>3, <1>4, TimeTypes
  <2>3. (((tick + e) % Word) + 1) % Word = (tick + (e + 1)) % Word
    BY <2>2, NextReading
  <2> QED
    BY <1>1, <2>1, <2>2, <2>3
<1>11. SortedInv'
  <2>1. \A i \in 1..Len(timers) : InSet(timers[i])
    BY TimeTypes, InSeq DEF InSet, Lists
  <2>2. ASSUME NEW i \in 1..Len(timers), NEW j \in 1..Len(timers), i < j,
               NEW a, NEW b, a = timers[i], b = timers[j]
        PROVE  Left(a)' <= Left(b)'
    <3>1. Left(a) <= Left(b)
      BY <2>2 DEF TimeInv, SortedInv
    <3>2. /\ Left(a)' = Left(a) - 1 /\ Left(b)' = Left(b) - 1
          /\ Left(a) \in Int /\ Left(b) \in Int
      BY <1>8, <2>1, <2>2
    <3> QED
      BY <3>1, <3>2
  <2> QED
    BY <1>1, <2>2 DEF SortedInv, Left
<1>12. HandLate'
  <2> SUFFICES ASSUME NEW c \in Clients, cpc[c] \in {"map", "push"}, NEW r, r = timer[c]
               PROVE  Left(r)' >= -clag'[c]
    BY <1>1 DEF HandLate, Left
  <2>1. Left(r) \in Int /\ Left(r)' = Left(r) - 1
    BY <1>7 DEF Counts, Setting
  <2>2. Left(r) >= -clag[c]
    BY DEF TimeInv, LateInv, HandLate
  <2>3. clag[c] \in Nat /\ clag'[c] = clag[c] + 1
    BY <1>5
  <2> QED
    BY <2>1, <2>2, <2>3
<1>13. PendingLate'
  <2>1. ASSUME NEW r \in ToSet(pending)
        PROVE  /\ Fresh(r) => Fresh(r)'
               /\ Taken(r) => Taken(r)'
    <3>1. Left(r) \in Int /\ Left(r)' = Left(r) - 1
      BY <1>8 DEF InSet
    <3>2. ASSUME Fresh(r)
          PROVE  Fresh(r)'
      <4>1. PICK c \in Clients : cpc[c] = "post" /\ Left(r) >= -clag[c]
        BY <3>2 DEF Fresh
      <4>2. clag[c] \in Nat /\ clag'[c] = clag[c] + 1
        BY <1>5, <4>1
      <4>3. Left(r)' >= -clag'[c]
        BY <3>1, <4>1, <4>2
      <4> QED
        BY <1>1, <4>1, <4>3 DEF Fresh
    <3>3. ASSUME Taken(r)
          PROVE  Taken(r)'
      <4>1. lag' = lag + 1
        BY <1>3, <1>4, <3>3 DEF Taken
      <4>2. ASSUME NEW k \in Nat, Left(r) >= -(k + lag)
            PROVE  Left(r)' >= -(k + lag')
        BY <1>2, <3>1, <4>1, <4>2
      <4>3. CASE tpc = "maintain"
        <5>1. CallSlack + 2 * Slack \in Nat
          BY <1>2
        <5> QED
          BY <1>1, <3>3, <4>2, <4>3, <5>1 DEF Taken
      <4>4. CASE tpc = "sleep"
        <5>1. CallSlack + Slack \in Nat
          BY <1>2
        <5> QED
          BY <1>1, <3>3, <4>2, <4>4, <5>1 DEF Taken
      <4>5. CASE tpc \in {"sort", "dispatch"}
        BY <1>1, <1>2, <3>3, <4>2, <4>5 DEF Taken
      <4> QED
        BY <1>2, <4>3, <4>4, <4>5
    <3> QED
      BY <3>2, <3>3
  <2> QED
    BY <1>1, <2>1 DEF TimeInv, LateInv, PendingLate
<1>14. SortingLate'
  <2>1. ASSUME NEW r \in ToSet(sorting)
        PROVE  Left(r)' >= -(CallSlack + 2 * Slack + lag')
    <3>1. Left(r) \in Int /\ Left(r)' = Left(r) - 1
      BY <1>8 DEF InSet
    <3>2. tpc = "sort"
      BY EmptySeqElements DEF TypeInv, SortInv
    <3>3. lag' = lag + 1
      BY <1>3, <1>4, <3>2
    <3>4. Left(r) >= -(CallSlack + 2 * Slack + lag)
      BY DEF TimeInv, LateInv, SortingLate
    <3> QED
      BY <1>2, <3>1, <3>3, <3>4
  <2> QED
    BY <1>1, <2>1 DEF SortingLate
<1>15. TimersLate'
  <2> SUFFICES ASSUME NEW r \in ToSet(timers)
               PROVE  IF tpc = "sleep"
                      THEN /\ Left(r)' >= -(Slack + lag')
                           /\ delay' # 0 => Left(r)' >= delay' /\ delay' # MAXWAIT
                      ELSE Left(r)' >= -(CallSlack + 2 * Slack + lag')
    BY <1>1 DEF TimersLate
  <2>1. Left(r) \in Int /\ Left(r)' = Left(r) - 1
    BY <1>8 DEF InSet
  <2>2. CASE tpc # "sleep"
    <3>1. lag' = lag + 1
      BY <1>3, <1>4, <2>2
    <3>2. Left(r) >= -(CallSlack + 2 * Slack + lag)
      BY <2>2 DEF TimeInv, LateInv, TimersLate
    <3>3. Left(r)' >= -(CallSlack + 2 * Slack + lag')
      BY <1>2, <2>1, <3>1, <3>2
    <3> QED
      BY <2>2, <3>3
  <2>3. CASE tpc = "sleep"
    <3>1. /\ Left(r) >= -(Slack + lag)
          /\ delay # 0 => Left(r) >= delay /\ delay # MAXWAIT
      BY <2>3 DEF TimeInv, LateInv, TimersLate
    <3>2. CASE delay = 0
      <4>1. lag' = lag + 1 /\ delay' = 0
        BY <1>3, <1>4, <3>2 DEF Tick
      <4>2. Left(r)' >= -(Slack + lag')
        BY <1>2, <2>1, <3>1, <4>1
      <4> QED
        BY <2>3, <4>1, <4>2
    <3>3. CASE delay # 0
      <4>1. delay' = delay - 1
        BY <2>3, <3>1, <3>3 DEF Tick
      <4>2. lag' \in Nat
        BY <1>2 DEF Tick
      <4>3. delay \in Nat /\ delay >= 1 /\ delay <= Word - 1
        BY <1>2, <3>3
      <4>4. Left(r)' >= delay' /\ Left(r)' >= -(Slack + lag') /\ delay' # MAXWAIT
        BY <1>2, <2>1, <3>1, <3>3, <4>1, <4>2, <4>3 DEF MAXWAIT
      <4> QED
        BY <2>3, <4>4
    <3> QED
      BY <3>2, <3>3
  <2> QED
    BY <2>2, <2>3
<1> QED
  BY <1>9, <1>10, <1>11, <1>12, <1>13, <1>14, <1>15 DEF TimeInv, LateInv

LEMMA TimeStep ==
    ASSUME TypeInv, PlaceInv, MapInv, TimeInv, [Next]_vars
    PROVE  TimeInv'
<1>1. CASE UNCHANGED vars
  BY <1>1
  DEF vars, structVars, mapVars, threadVars, timeVars, TimeInv, LeftInv, LookInv, SortedInv,
      LateInv, HandLate, PendingLate, SortingLate, TimersLate, Fresh, Taken, Counts, Setting,
      InSet, Left
<1> QED
  BY <1>1, ObtainTime, CallTime, TimerThreadTime, TickTime DEF Next

-------------------------------------------------------------------------------
(* OneShotTimers.                                                          *)

LEMMA ServiceInit == Init => Service!Init
BY DEF Init, Service!Init

(* No timer is later than MaxLate; so it is after each tick, and before.   *)
InTime == \A id \in DOMAIN left : left[id] >= -MaxLate

LEMMA InTimeImplied == TypeInv /\ TimeInv => InTime
<1> SUFFICES ASSUME TypeInv, TimeInv, NEW id \in DOMAIN left
             PROVE  left[id] >= -MaxLate
  BY DEF InTime
<1>1. PICK s \in Structs : Counts(s) /\ timerID[s] = id
  BY DEF TimeInv, LeftInv
<1> QED
  BY <1>1, LateBound DEF Left

LEMMA ServiceStep ==
    ASSUME TypeInv, PlaceInv, MapInv, TimeInv, InTime', [Next]_vars
    PROVE  [Service!Next]_(Service!vars)
<1>1. CASE UNCHANGED <<left, nextID>>
  BY <1>1 DEF Service!vars
<1>2. ASSUME NEW c \in Clients, Obtain(c)
      PROVE  UNCHANGED <<left, nextID>>
  BY <1>2 DEF Obtain, mapVars, timeVars
<1>3. ASSUME NEW c \in Clients, RemoveTimer(c) \/ Map(c) \/ Push(c) \/ Post(c)
      PROVE  UNCHANGED <<left, nextID>>
  BY <1>3 DEF RemoveTimer, Map, Push, Post, mapVars, timeVars
<1>4. ASSUME NEW c \in Clients, Fill(c)
      PROVE  Service!Set
  <2>1. nextID' = nextID + 1
    BY <1>4 DEF Fill
  <2>2. CASE FillAndFail(c)
    BY <2>1, <2>2 DEF FillAndFail, Service!Set
  <2>3. CASE FillAndMap(c)
    BY <2>1, <2>3 DEF FillAndMap, Service!Set
  <2> QED
    BY <1>4, <2>2, <2>3 DEF Fill
<1>5. ASSUME Maintain \/ Sort \/ Reckon \/ Wake
      PROVE  UNCHANGED <<left, nextID>>
  BY <1>5 DEF Maintain, Sort, Reckon, Wake, mapVars, timeVars
<1>6. ASSUME Dispatch
      PROVE  Service!ExpireSome
  <2>1. nextID' = nextID
    BY <1>6 DEF Dispatch, mapVars
  <2>2. \E id \in DOMAIN left :
           left[id] <= 0 /\ left' = [i \in DOMAIN left \ {id} |-> left[i]]
    BY <1>6, DispatchTime
  <2> QED
    BY <2>1, <2>2 DEF Service!ExpireSome, Service!Expire
<1>7. ASSUME Tick
      PROVE  Service!Pass
  <2>1. nextID' = nextID /\ left' = [id \in DOMAIN left |-> left[id] - 1]
    BY <1>7 DEF Tick, mapVars
  <2>2. ASSUME NEW id \in DOMAIN left
        PROVE  left[id] > -MaxLate
    <3>1. id \in DOMAIN left' /\ left'[id] = left[id] - 1
      BY <2>1
    <3>2. left'[id] >= -MaxLate
      BY <3>1 DEF InTime, MaxLate
    <3> QED
      BY <3>1, <3>2, TimeTypes, Slacks
  <2> QED
    BY <2>1, <2>2 DEF Service!Pass
<1> QED
  BY <1>1, <1>2, <1>3, <1>4, <1>5, <1>6, <1>7
  DEF Next, Call, TimerThread, Service!Next, vars, mapVars, timeVars

(* A timer that is set is called once, never before it is due, and time    *)
(* never passes by one that is late by MaxLate: every behaviour of the     *)
(* timer thread, its lists and its clock is one of OneShotTimers.          *)
THEOREM TimersImplemented == Spec => Service!Spec
<1>1. Init => TypeInv /\ PlaceInv /\ MapInv /\ TimeInv
  BY TypeInit, PlaceInit, MapInit, TimeInit
<1>2. TypeInv /\ PlaceInv /\ MapInv /\ TimeInv /\ [Next]_vars
         => (TypeInv /\ PlaceInv /\ MapInv /\ TimeInv)'
  BY TypeStep, PlaceStep, MapStep, TimeStep
<1>3. TypeInv /\ TimeInv => InTime
  BY InTimeImplied
<1>4. TypeInv /\ PlaceInv /\ MapInv /\ TimeInv /\ InTime' /\ [Next]_vars
         => [Service!Next]_(Service!vars)
  BY ServiceStep
<1> QED
  BY <1>1, <1>2, <1>3, <1>4, ServiceInit, PTL DEF Spec, Service!Spec
===============================================================================
