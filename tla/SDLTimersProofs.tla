--------------------------- MODULE SDLTimersProofs ---------------------------
(***************************************************************************)
(* Theorems about SDLTimers, for any number of clients, structures and     *)
(* timers, and every width of the clock.                                   *)
(***************************************************************************)
EXTENDS SDLTimers, SequenceTheorems, WellFoundedInduction, TLAPS

-------------------------------------------------------------------------------
(* Sequences without repetition.                                           *)

Inj(s) == \A i, j \in 1..Len(s) : s[i] = s[j] => i = j

LEMMA InSeq ==
    ASSUME NEW S, NEW s \in Seq(S), NEW x
    PROVE  x \in ToSet(s) <=> \E i \in 1..Len(s) : s[i] = x
BY DEF ToSet

LEMMA SeqElements ==
    ASSUME NEW S, NEW s \in Seq(S)
    PROVE  ToSet(s) \subseteq S
BY DEF ToSet

LEMMA EmptySeqElements == ToSet(<<>>) = {} /\ Inj(<<>>)
BY DEF ToSet, Inj

LEMMA SingleElements ==
    ASSUME NEW e
    PROVE  ToSet(<<e>>) = {e} /\ Inj(<<e>>)
BY DEF ToSet, Inj

LEMMA ConcatElements ==
    ASSUME NEW S, NEW s \in Seq(S), NEW t \in Seq(S)
    PROVE  ToSet(s \o t) = ToSet(s) \cup ToSet(t)
<1>1. /\ s \o t \in Seq(S)
      /\ Len(s \o t) = Len(s) + Len(t)
      /\ Len(s) \in Nat /\ Len(t) \in Nat
      /\ \A i \in 1..Len(s) : (s \o t)[i] = s[i]
      /\ \A i \in 1..Len(t) : (s \o t)[Len(s) + i] = t[i]
  OBVIOUS
<1>2. ASSUME NEW x \in ToSet(s \o t)
      PROVE  x \in ToSet(s) \cup ToSet(t)
  <2>1. PICK i \in 1..Len(s \o t) : (s \o t)[i] = x
    <3> DEFINE u == s \o t
    <3>1. u \in Seq(S) /\ x \in ToSet(u)
      BY <1>1, <1>2
    <3> HIDE DEF u
    <3>2. \E i \in 1..Len(u) : u[i] = x
      BY <3>1, InSeq
    <3> QED
      BY <3>2 DEF u
  <2>2. CASE i \in 1..Len(s)
    <3>1. s[i] = x
      BY <1>1, <2>1, <2>2
    <3> QED
      BY <2>2, <3>1, InSeq
  <2>3. CASE i - Len(s) \in 1..Len(t)
    <3>1. PICK j \in 1..Len(t) : i = Len(s) + j
      BY <1>1, <2>1, <2>3
    <3> QED
      BY <1>1, <2>1, <3>1, InSeq
  <2> QED
    BY <1>1, <2>1, <2>2, <2>3
<1>3. ASSUME NEW x \in ToSet(s)
      PROVE  x \in ToSet(s \o t)
  <2>1. PICK i \in 1..Len(s) : s[i] = x
    BY <1>3, InSeq
  <2>2. i \in 1..Len(s \o t) /\ (s \o t)[i] = x
    BY <1>1, <2>1
  <2> QED
    BY <1>1, <2>2, InSeq
<1>4. ASSUME NEW x \in ToSet(t)
      PROVE  x \in ToSet(s \o t)
  <2>1. PICK i \in 1..Len(t) : t[i] = x
    BY <1>4, InSeq
  <2>2. Len(s) + i \in 1..Len(s \o t) /\ (s \o t)[Len(s) + i] = x
    BY <1>1, <2>1
  <2> QED
    BY <1>1, <2>2, InSeq
<1> QED
  BY <1>2, <1>3, <1>4

LEMMA ConcatInj ==
    ASSUME NEW S, NEW s \in Seq(S), NEW t \in Seq(S)
    PROVE  Inj(s \o t) <=> Inj(s) /\ Inj(t) /\ ToSet(s) \cap ToSet(t) = {}
<1>1. /\ Len(s \o t) = Len(s) + Len(t)
      /\ Len(s) \in Nat /\ Len(t) \in Nat
      /\ \A i \in 1..Len(s) : (s \o t)[i] = s[i]
      /\ \A i \in 1..Len(t) : (s \o t)[Len(s) + i] = t[i]
  OBVIOUS
<1>2. ASSUME Inj(s \o t)
      PROVE  Inj(s) /\ Inj(t) /\ ToSet(s) \cap ToSet(t) = {}
  <2>1. Inj(s)
    BY <1>1, <1>2 DEF Inj
  <2>2. Inj(t)
    <3> SUFFICES ASSUME NEW i \in 1..Len(t), NEW j \in 1..Len(t), t[i] = t[j]
                 PROVE  i = j
      BY DEF Inj
    <3>1. /\ (s \o t)[Len(s) + i] = (s \o t)[Len(s) + j]
          /\ Len(s) + i \in 1..Len(s \o t) /\ Len(s) + j \in 1..Len(s \o t)
      BY <1>1
    <3>2. Len(s) + i = Len(s) + j
      BY <1>2, <3>1 DEF Inj
    <3> QED
      BY <1>1, <3>2
  <2>3. ToSet(s) \cap ToSet(t) = {}
    <3> SUFFICES ASSUME NEW x, x \in ToSet(s), x \in ToSet(t)
                 PROVE  FALSE
      OBVIOUS
    <3>1. PICK i \in 1..Len(s) : s[i] = x
      BY InSeq
    <3>2. PICK j \in 1..Len(t) : t[j] = x
      BY InSeq
    <3>3. /\ (s \o t)[i] = (s \o t)[Len(s) + j]
          /\ i \in 1..Len(s \o t) /\ Len(s) + j \in 1..Len(s \o t)
      BY <1>1, <3>1, <3>2
    <3>4. i = Len(s) + j
      BY <1>2, <3>3 DEF Inj
    <3> QED
      BY <1>1, <3>4
  <2> QED
    BY <2>1, <2>2, <2>3
<1>3. ASSUME Inj(s), Inj(t), ToSet(s) \cap ToSet(t) = {},
             NEW i \in 1..Len(s \o t), NEW j \in 1..Len(s \o t), (s \o t)[i] = (s \o t)[j]
      PROVE  i = j
  <2>1. ASSUME NEW a \in 1..Len(s), NEW b \in 1..Len(t)
        PROVE  s[a] # t[b]
    <3>1. s[a] \in ToSet(s) /\ t[b] \in ToSet(t)
      BY InSeq
    <3> QED
      BY <1>3, <3>1
  <2>2. \A k \in 1..Len(s \o t) : k \in 1..Len(s) \/ \E l \in 1..Len(t) : k = Len(s) + l
    <3> SUFFICES ASSUME NEW k \in 1..Len(s \o t), k \notin 1..Len(s)
                 PROVE  \E l \in 1..Len(t) : k = Len(s) + l
      OBVIOUS
    <3>1. k - Len(s) \in 1..Len(t) /\ k = Len(s) + (k - Len(s))
      BY <1>1
    <3> QED
      BY <3>1
  <2>3. CASE i \in 1..Len(s) /\ j \in 1..Len(s)
    BY <1>1, <1>3, <2>3 DEF Inj
  <2>4. CASE i \in 1..Len(s) /\ j \notin 1..Len(s)
    BY <1>1, <1>3, <2>1, <2>2, <2>4
  <2>5. CASE i \notin 1..Len(s) /\ j \in 1..Len(s)
    BY <1>1, <1>3, <2>1, <2>2, <2>5
  <2>6. CASE i \notin 1..Len(s) /\ j \notin 1..Len(s)
    <3>1. PICK a \in 1..Len(t) : i = Len(s) + a
      BY <2>2, <2>6
    <3>2. PICK b \in 1..Len(t) : j = Len(s) + b
      BY <2>2, <2>6
    <3>3. t[a] = t[b]
      BY <1>1, <1>3, <3>1, <3>2
    <3> QED
      BY <1>3, <3>1, <3>2, <3>3 DEF Inj
  <2> QED
    BY <2>3, <2>4, <2>5, <2>6
<1> QED
  BY <1>2, <1>3 DEF Inj

(* The lists of structures, and how they change.                           *)
Lists == Seq(Structs)

LEMMA ListConcat ==
    ASSUME NEW s \in Lists, NEW t \in Lists
    PROVE  /\ s \o t \in Lists
           /\ ToSet(s \o t) = ToSet(s) \cup ToSet(t)
           /\ Inj(s \o t) <=> Inj(s) /\ Inj(t) /\ ToSet(s) \cap ToSet(t) = {}
<1>1. s \in Seq(Structs) /\ t \in Seq(Structs)
  BY DEF Lists
<1>2. s \o t \in Seq(Structs)
  BY <1>1
<1>3. ToSet(s \o t) = ToSet(s) \cup ToSet(t)
  BY <1>1, ConcatElements
<1>4. Inj(s \o t) <=> Inj(s) /\ Inj(t) /\ ToSet(s) \cap ToSet(t) = {}
  BY <1>1, ConcatInj
<1> QED
  BY <1>2, <1>3, <1>4 DEF Lists

LEMMA ListSingle ==
    ASSUME NEW e \in Structs
    PROVE  <<e>> \in Lists /\ ToSet(<<e>>) = {e} /\ Inj(<<e>>)
<1>1. <<e>> \in Seq(Structs)
  OBVIOUS
<1> QED
  BY <1>1, SingleElements DEF Lists

LEMMA ListHeadTail ==
    ASSUME NEW s \in Lists, s # <<>>
    PROVE  /\ Head(s) \in Structs
           /\ Tail(s) \in Lists
           /\ ToSet(s) = {Head(s)} \cup ToSet(Tail(s))
           /\ Inj(s) => Inj(Tail(s)) /\ Head(s) \notin ToSet(Tail(s))
<1>1. /\ Head(s) \in Structs /\ Tail(s) \in Seq(Structs)
      /\ s = <<Head(s)>> \o Tail(s)
  BY DEF Lists
<1> DEFINE h == Head(s)
           l == Tail(s)
           g == <<h>>
<1>2. h \in Structs /\ l \in Lists /\ s = g \o l
  BY <1>1 DEF Lists
<1>3. g \in Lists /\ ToSet(g) = {h} /\ Inj(g)
  BY <1>2, ListSingle
<1> HIDE DEF g, l
<1>4. /\ ToSet(g \o l) = ToSet(g) \cup ToSet(l)
      /\ Inj(g \o l) <=> Inj(g) /\ Inj(l) /\ ToSet(g) \cap ToSet(l) = {}
  BY <1>2, <1>3, ListConcat
<1>5. /\ ToSet(s) = {h} \cup ToSet(l)
      /\ Inj(s) => Inj(l) /\ h \notin ToSet(l)
  BY <1>2, <1>3, <1>4
<1> QED
  BY <1>2, <1>5 DEF l

LEMMA ListAppend ==
    ASSUME NEW s \in Lists, NEW e \in Structs
    PROVE  /\ Append(s, e) \in Lists
           /\ ToSet(Append(s, e)) = ToSet(s) \cup {e}
           /\ Inj(Append(s, e)) <=> Inj(s) /\ e \notin ToSet(s)
<1> DEFINE g == <<e>>
<1>1. g \in Lists /\ ToSet(g) = {e} /\ Inj(g)
  BY ListSingle
<1>2. Append(s, e) = s \o g
  BY DEF Lists
<1> HIDE DEF g
<1>3. /\ s \o g \in Lists
      /\ ToSet(s \o g) = ToSet(s) \cup ToSet(g)
      /\ Inj(s \o g) <=> Inj(s) /\ Inj(g) /\ ToSet(s) \cap ToSet(g) = {}
  BY <1>1, ListConcat
<1>4. /\ s \o g \in Lists
      /\ ToSet(s \o g) = ToSet(s) \cup {e}
      /\ Inj(s \o g) <=> Inj(s) /\ e \notin ToSet(s)
  BY <1>1, <1>3
<1> QED
  BY <1>2, <1>4

LEMMA ListInsert ==
    ASSUME NEW s \in Lists, NEW e \in Structs, NEW i \in 1..(Len(s) + 1)
    PROVE  /\ InsertAt(s, i, e) \in Lists
           /\ ToSet(InsertAt(s, i, e)) = ToSet(s) \cup {e}
           /\ Inj(InsertAt(s, i, e)) <=> Inj(s) /\ e \notin ToSet(s)
<1> DEFINE l == SubSeq(s, 1, i - 1)
           r == SubSeq(s, i, Len(s))
           g == <<e>>
           m == l \o g
<1>1. s \in Seq(Structs) /\ Len(s) \in Nat
  BY DEF Lists
<1>2. l \in Lists /\ r \in Lists
  BY <1>1 DEF Lists
<1>3. s = l \o r
  <2>1. /\ i - 1 \in 0..Len(s) /\ (i - 1) + 1 = i
        /\ i - 1 \in (1 - 1)..Len(s)
        /\ Len(s) \in (i - 1)..Len(s)
        /\ 1 \in 1..(Len(s) + 1)
    BY <1>1
  <2>2. SubSeq(s, 1, i - 1) \o SubSeq(s, (i - 1) + 1, Len(s)) = SubSeq(s, 1, Len(s))
    BY <1>1, <2>1, ConcatAdjacentSubSeq
  <2>3. SubSeq(s, 1, Len(s)) = s
    BY <1>1, SubSeqFull
  <2> QED
    BY <2>1, <2>2, <2>3
<1>4. InsertAt(s, i, e) = m \o r
  BY DEF InsertAt
<1>5. g \in Lists /\ ToSet(g) = {e} /\ Inj(g)
  BY ListSingle
<1> HIDE DEF l, r, g
<1>6. /\ ToSet(l \o r) = ToSet(l) \cup ToSet(r)
      /\ Inj(l \o r) <=> Inj(l) /\ Inj(r) /\ ToSet(l) \cap ToSet(r) = {}
  BY <1>2, ListConcat
<1>7. /\ m \in Lists
      /\ ToSet(m) = ToSet(l) \cup ToSet(g)
      /\ Inj(m) <=> Inj(l) /\ Inj(g) /\ ToSet(l) \cap ToSet(g) = {}
  BY <1>2, <1>5, ListConcat
<1> HIDE DEF m
<1>8. /\ m \o r \in Lists
      /\ ToSet(m \o r) = ToSet(m) \cup ToSet(r)
      /\ Inj(m \o r) <=> Inj(m) /\ Inj(r) /\ ToSet(m) \cap ToSet(r) = {}
  BY <1>2, <1>7, ListConcat
<1>9. ToSet(m \o r) = ToSet(s) \cup {e}
  BY <1>3, <1>5, <1>6, <1>7, <1>8
<1>10. Inj(m \o r) <=> Inj(s) /\ e \notin ToSet(s)
  BY <1>3, <1>5, <1>6, <1>7, <1>8
<1> QED
  BY <1>4, <1>8, <1>9, <1>10

(* Five lists are free of repetition together if each of them is and no    *)
(* two of them meet.                                                       *)
Apart(a, b) == ToSet(a) \cap ToSet(b) = {}

LEMMA FiveLists ==
    ASSUME NEW a \in Lists, NEW b \in Lists, NEW c \in Lists,
           NEW d \in Lists, NEW e \in Lists
    PROVE  /\ a \o b \o c \in Lists /\ d \o e \in Lists
           /\ (a \o b \o c) \o (d \o e) \in Lists
           /\ ToSet(a \o b \o c) = ToSet(a) \cup ToSet(b) \cup ToSet(c)
           /\ ToSet(d \o e) = ToSet(d) \cup ToSet(e)
           /\ ToSet((a \o b \o c) \o (d \o e))
                 = ToSet(a \o b \o c) \cup ToSet(d \o e)
           /\ Inj((a \o b \o c) \o (d \o e)) <=>
                 /\ Inj(a) /\ Inj(b) /\ Inj(c) /\ Inj(d) /\ Inj(e)
                 /\ Apart(a, b) /\ Apart(a, c) /\ Apart(a, d) /\ Apart(a, e)
                 /\ Apart(b, c) /\ Apart(b, d) /\ Apart(b, e)
                 /\ Apart(c, d) /\ Apart(c, e) /\ Apart(d, e)
<1> DEFINE f == a \o b
           g == f \o c
           h == d \o e
           k == g \o h
<1>1. /\ f \in Lists
      /\ ToSet(f) = ToSet(a) \cup ToSet(b)
      /\ Inj(f) <=> Inj(a) /\ Inj(b) /\ Apart(a, b)
  BY ListConcat DEF Apart
<1>2. /\ h \in Lists
      /\ ToSet(h) = ToSet(d) \cup ToSet(e)
      /\ Inj(h) <=> Inj(d) /\ Inj(e) /\ Apart(d, e)
  BY ListConcat DEF Apart
<1> HIDE DEF f, h
<1>3. /\ g \in Lists
      /\ ToSet(g) = ToSet(f) \cup ToSet(c)
      /\ Inj(g) <=> Inj(f) /\ Inj(c) /\ ToSet(f) \cap ToSet(c) = {}
  BY <1>1, ListConcat
<1> HIDE DEF g
<1>4. /\ k \in Lists
      /\ ToSet(k) = ToSet(g) \cup ToSet(h)
      /\ Inj(k) <=> Inj(g) /\ Inj(h) /\ ToSet(g) \cap ToSet(h) = {}
  BY <1>2, <1>3, ListConcat
<1> HIDE DEF k
<1>5. ToSet(f) \cap ToSet(c) = {} <=> Apart(a, c) /\ Apart(b, c)
  BY <1>1 DEF Apart
<1>6. ToSet(g) \cap ToSet(h) = {}
         <=> /\ Apart(a, d) /\ Apart(a, e) /\ Apart(b, d) /\ Apart(b, e)
             /\ Apart(c, d) /\ Apart(c, e)
  BY <1>1, <1>2, <1>3 DEF Apart
<1>7. Inj(k) <=>
         /\ Inj(a) /\ Inj(b) /\ Inj(c) /\ Inj(d) /\ Inj(e)
         /\ Apart(a, b) /\ Apart(a, c) /\ Apart(a, d) /\ Apart(a, e)
         /\ Apart(b, c) /\ Apart(b, d) /\ Apart(b, e)
         /\ Apart(c, d) /\ Apart(c, e) /\ Apart(d, e)
  BY <1>1, <1>2, <1>3, <1>4, <1>5, <1>6
<1>8. ToSet(g) = ToSet(a) \cup ToSet(b) \cup ToSet(c)
  BY <1>1, <1>3
<1>9. g = a \o b \o c /\ h = d \o e /\ k = (a \o b \o c) \o (d \o e)
  BY DEF f, g, h, k
<1> QED
  BY <1>2, <1>3, <1>4, <1>7, <1>8, <1>9

-------------------------------------------------------------------------------
(* Types.                                                                  *)

LEMMA ModWord ==
    ASSUME NEW x \in Int
    PROVE  x % Word \in 0..(Word - 1)
BY WordAssumption

(* A place for a timer can be found: behind the last one, if nowhere else. *)
LEMMA PlaceExists ==
    ASSUME NEW s, timers \in Seq(Structs)
    PROVE  /\ Place(s) \in 1..(Len(timers) + 1)
           /\ Place(s) <= Len(timers) => Before(scheduled[s], scheduled[timers[Place(s)]])
           /\ \A j \in 1..(Place(s) - 1) : ~Before(scheduled[s], scheduled[timers[j]])
<1> DEFINE n == Len(timers)
           Later(i) == Before(scheduled[s], scheduled[timers[i]])
           T == {i \in 1..(n + 1) : i <= n => Later(i)}
<1>1. n \in Nat
  OBVIOUS
<1> HIDE DEF n, Later
<1>2. T \subseteq Nat
  BY <1>1
<1>3. n + 1 \in T
  BY <1>1
<1>4. PICK i \in T : \A j \in T : ~(<<j, i>> \in OpToRel(<, Nat))
  <2>1. T # {}
    BY <1>3
  <2> HIDE DEF T
  <2> QED
    BY <1>2, <2>1, NatLessThanWellFounded, WFMin
<1>5. \A j \in T : ~(j < i)
  BY <1>2, <1>4 DEF OpToRel
<1>6. i \in 1..(n + 1) /\ (i <= n => Later(i))
  BY <1>4
<1>7. \A j \in 1..(i - 1) : ~Later(j)
  <2> TAKE j \in 1..(i - 1)
  <2>1. j \in 1..(n + 1) /\ j < i
    BY <1>1, <1>6
  <2> QED
    BY <1>5, <2>1
<1>8. \E k \in 1..(n + 1) : (k <= n => Later(k)) /\ \A j \in 1..(k - 1) : ~Later(j)
  BY <1>6, <1>7
<1>9. Place(s) = CHOOSE k \in 1..(n + 1) :
                    (k <= n => Later(k)) /\ \A j \in 1..(k - 1) : ~Later(j)
  BY DEF Place, n, Later
<1>10. /\ Place(s) \in 1..(n + 1)
       /\ Place(s) <= n => Later(Place(s))
       /\ \A j \in 1..(Place(s) - 1) : ~Later(j)
  BY <1>8, <1>9
<1> QED
  BY <1>10 DEF n, Later

(* A caller has a structure in its hands while it is in SDL_AddTimer, up   *)
(* to the moment it puts it in the list; the timer thread has sorted all   *)
(* timers when it goes on.                                                 *)
CallInv ==
    \A c \in Clients :
       /\ cpc[c] \in {"idle", "post"} => timer[c] = NULL
       /\ cpc[c] \notin {"idle", "post"} => timer[c] \in Structs

SortInv == tpc # "sort" => sorting = <<>>

TypeInv == TypeOK /\ CallInv /\ SortInv

LEMMA TypeInit == Init => TypeInv
<1> SUFFICES ASSUME Init
             PROVE  TypeInv
  OBVIOUS
<1>1. DOMAIN left = {}
  BY DEF Init
<1>2. Word - 1 \in 0..(Word - 1) /\ 0 \in 0..(Word - 1) /\ 0 \in 0..Slack /\ 0 \in 0..CallSlack
  BY WordAssumption, SlackAssumption
<1>3. TypeOK
  BY <1>1, <1>2 DEF Init, TypeOK
<1> QED
  BY <1>3 DEF Init, TypeInv, CallInv, SortInv

LEMMA ObtainType ==
    ASSUME TypeInv, NEW c \in Clients, Obtain(c)
    PROVE  TypeInv'
<1> USE NullAssumption
<1>1. CASE Recycle(c)
  <2>1. Head(freelist) \in Structs /\ Tail(freelist) \in Seq(Structs)
    BY <1>1 DEF Recycle, TypeInv, TypeOK
  <2>2. TypeOK'
    BY <1>1, <2>1 DEF Obtain, Recycle, Goes, TypeInv, TypeOK, structVars, mapVars, threadVars, timeVars
  <2>3. CallInv'
    BY <1>1, <2>1 DEF Recycle, Goes, TypeInv, TypeOK, CallInv
  <2> QED
    BY <2>2, <2>3 DEF Obtain, TypeInv, SortInv, threadVars
<1>2. CASE Malloc(c)
  <2>1. PICK s \in heap : timer' = [timer EXCEPT ![c] = s] /\ heap' = heap \ {s}
    BY <1>2 DEF Malloc
  <2>2. s \in Structs
    BY <2>1 DEF TypeInv, TypeOK
  <2>3. TypeOK'
    BY <1>2, <2>1, <2>2 DEF Obtain, Malloc, Goes, TypeInv, TypeOK, structVars, mapVars, threadVars, timeVars
  <2>4. CallInv'
    BY <1>2, <2>1, <2>2 DEF Malloc, Goes, TypeInv, TypeOK, CallInv
  <2> QED
    BY <2>3, <2>4 DEF Obtain, TypeInv, SortInv, threadVars
<1> QED
  BY <1>1, <1>2 DEF Obtain

LEMMA CallType ==
    ASSUME TypeInv, NEW c \in Clients, Call(c)
    PROVE  TypeInv'
<1> USE NullAssumption DEF structVars, mapVars, threadVars, timeVars
<1>1. CASE RemoveTimer(c)
  <2>1. timermap' \subseteq timermap /\ canceled' \in [Structs -> BOOLEAN]
    BY <1>1 DEF RemoveTimer
  <2>2. TypeOK'
    <3>1. cpc' \in [Clients -> {"idle", "remove", "fill", "map", "push", "post"}]
      BY <1>1 DEF RemoveTimer, Goes, TypeInv, TypeOK
    <3>2. UNCHANGED <<heap, timerID, scheduled, nextID, pending, freelist, sem,
                      tpc, threadVars, timer, timeVars>>
      BY <1>1 DEF RemoveTimer
    <3> QED
      BY <2>1, <3>1, <3>2 DEF TypeInv, TypeOK
  <2> QED
    BY <1>1, <2>2 DEF RemoveTimer, Goes, TypeInv, TypeOK, CallInv, SortInv
<1>2. CASE Fill(c) /\ FillAndMap(c)
  <2>1. timer[c] \in Structs
    BY <1>2 DEF FillAndMap, Goes, TypeInv, CallInv
  <2>2. PICK interval \in Intervals :
           /\ scheduled' = [scheduled EXCEPT ![timer[c]] = (now + interval) % Word]
           /\ left' = [id \in DOMAIN left \cup {nextID} |->
                          IF id = nextID THEN interval ELSE left[id]]
    BY <1>2 DEF FillAndMap
  <2>3. interval \in Nat /\ (now + interval) % Word \in 0..(Word - 1)
    <3>1. interval \in Nat /\ now \in Int
      BY IntervalsAssumption DEF TypeInv, TypeOK
    <3> QED
      BY <3>1, ModWord
  <2>4. DOMAIN left' \subseteq Nat /\ \A id \in DOMAIN left' : left'[id] \in Int
    BY <2>2, <2>3 DEF TypeInv, TypeOK
  <2>5. TypeOK'
    <3>1. scheduled' \in [Structs -> 0..(Word - 1)]
      <4>1. scheduled \in [Structs -> 0..(Word - 1)]
        BY DEF TypeInv, TypeOK
      <4> QED
        BY <2>1, <2>2, <2>3, <4>1
    <3>2. timerID' \in [Structs -> Nat] /\ canceled' \in [Structs -> BOOLEAN]
      BY <1>2, <2>1 DEF FillAndMap, TypeInv, TypeOK
    <3>3. /\ cpc' \in [Clients -> {"idle", "remove", "fill", "map", "push", "post"}]
          /\ nextID' \in Nat
      BY <1>2 DEF Fill, FillAndMap, Goes, TypeInv, TypeOK
    <3>4. UNCHANGED <<heap, timer, clag, timermap, pending, freelist, sem, tpc,
                      threadVars, now, lag>>
      BY <1>2 DEF Fill, FillAndMap
    <3> QED
      BY <2>4, <3>1, <3>2, <3>3, <3>4 DEF TypeInv, TypeOK
  <2>6. cpc' = [cpc EXCEPT ![c] = "map"] /\ UNCHANGED <<timer, tpc, sorting>>
    BY <1>2 DEF Fill, FillAndMap, Goes
  <2>7. CallInv'
    BY <2>1, <2>6 DEF TypeInv, TypeOK, CallInv
  <2> QED
    BY <2>5, <2>6, <2>7 DEF TypeInv, SortInv
<1>3. CASE Fill(c) /\ FillAndFail(c)
  <2>1. timer[c] \in Structs
    BY <1>3 DEF FillAndFail, Goes, TypeInv, CallInv
  <2>2. TypeOK'
    <3>1. cpc' \in [Clients -> {"idle", "remove", "fill", "map", "push", "post"}]
      BY <1>3 DEF FillAndFail, Goes, TypeInv, TypeOK
    <3>2. timer' \in [Clients -> Structs \cup {NULL}] /\ heap' \subseteq Structs
      BY <1>3, <2>1 DEF FillAndFail, TypeInv, TypeOK
    <3>3. clag' \in [Clients -> 0..CallSlack]
      <4>1. clag' = [clag EXCEPT ![c] = 0] /\ clag \in [Clients -> 0..CallSlack]
        BY <1>3 DEF FillAndFail, TypeInv, TypeOK
      <4>2. 0 \in 0..CallSlack
        BY SlackAssumption
      <4> QED
        BY <4>1, <4>2
    <3>4. nextID' \in Nat
      BY <1>3 DEF Fill, TypeInv, TypeOK
    <3>5. UNCHANGED <<timerID, scheduled, canceled, left, timermap, pending, freelist,
                      sem, tpc, threadVars, now, lag>>
      BY <1>3 DEF Fill, FillAndFail
    <3> QED
      BY <3>1, <3>2, <3>3, <3>4, <3>5 DEF TypeInv, TypeOK
  <2> QED
    BY <1>3, <2>2 DEF Fill, FillAndFail, Goes, TypeInv, TypeOK, CallInv, SortInv
<1>4. CASE Map(c)
  <2>1. timer[c] \in Structs
    BY <1>4 DEF Map, Goes, TypeInv, CallInv
  <2>2. timermap' \subseteq [timerID : Nat, timer : Structs]
    BY <1>4, <2>1 DEF Map, TypeInv, TypeOK
  <2>3. TypeOK'
    <3>1. cpc' \in [Clients -> {"idle", "remove", "fill", "map", "push", "post"}]
      BY <1>4 DEF Map, Goes, TypeInv, TypeOK
    <3>2. UNCHANGED <<structVars, nextID, pending, freelist, sem, tpc,
                      threadVars, timer, timeVars>>
      BY <1>4 DEF Map
    <3> QED
      BY <2>2, <3>1, <3>2 DEF TypeInv, TypeOK
  <2> QED
    BY <1>4, <2>3 DEF Map, Goes, TypeInv, TypeOK, CallInv, SortInv
<1>5. CASE Push(c)
  <2>1. timer[c] \in Structs
    BY <1>5 DEF Push, Goes, TypeInv, CallInv
  <2>2. pending' \in Seq(Structs)
    BY <1>5, <2>1 DEF Push, TypeInv, TypeOK
  <2>3. TypeOK'
    <3>1. cpc' \in [Clients -> {"idle", "remove", "fill", "map", "push", "post"}]
      BY <1>5 DEF Push, Goes, TypeInv, TypeOK
    <3>2. timer' \in [Clients -> Structs \cup {NULL}]
      BY <1>5 DEF Push, TypeInv, TypeOK
    <3>3. UNCHANGED <<structVars, mapVars, freelist, sem, tpc, threadVars, timeVars>>
      BY <1>5 DEF Push
    <3> QED
      BY <2>2, <3>1, <3>2, <3>3 DEF TypeInv, TypeOK
  <2> QED
    BY <1>5, <2>3 DEF Push, Goes, TypeInv, TypeOK, CallInv, SortInv
<1>6. CASE Post(c)
  <2>1. TypeOK'
    <3>1. cpc' \in [Clients -> {"idle", "remove", "fill", "map", "push", "post"}]
      BY <1>6 DEF Post, Goes, TypeInv, TypeOK
    <3>2. clag' \in [Clients -> 0..CallSlack]
      <4>1. clag' = [clag EXCEPT ![c] = 0] /\ clag \in [Clients -> 0..CallSlack]
        BY <1>6 DEF Post, TypeInv, TypeOK
      <4>2. 0 \in 0..CallSlack
        BY SlackAssumption
      <4> QED
        BY <4>1, <4>2
    <3>3. sem' \in Nat
      BY <1>6 DEF Post, TypeInv, TypeOK
    <3>4. UNCHANGED <<structVars, mapVars, pending, freelist, tpc, threadVars,
                      timer, now, lag, left>>
      BY <1>6 DEF Post
    <3> QED
      BY <3>1, <3>2, <3>3, <3>4 DEF TypeInv, TypeOK
  <2> QED
    BY <1>6, <2>1 DEF Post, Goes, TypeInv, TypeOK, CallInv, SortInv
<1> QED
  BY <1>1, <1>2, <1>3, <1>4, <1>5, <1>6 DEF Call, Fill

LEMMA TimerThreadType ==
    ASSUME TypeInv, TimerThread
    PROVE  TypeInv'
<1> USE DEF structVars, mapVars, threadVars, timeVars
<1>1. CASE Maintain
  <2>1. freelist' \in Seq(Structs) /\ spent' \in Seq(Structs)
    BY <1>1 DEF Maintain, SpentAfterSplice, TypeInv, TypeOK
  <2>2. TypeOK'
    <3>1. sorting' \in Seq(Structs) /\ pending' \in Seq(Structs)
      BY <1>1 DEF Maintain, TypeInv, TypeOK
    <3>2. /\ tpc' \in {"maintain", "sort", "dispatch", "sleep"}
          /\ UNCHANGED <<structVars, mapVars, sem, timers, tick, delay, cpc, timer,
                         timeVars>>
      BY <1>1 DEF Maintain
    <3> QED
      BY <2>1, <3>1, <3>2 DEF TypeInv, TypeOK
  <2> QED
    BY <1>1, <2>2 DEF Maintain, TypeInv, CallInv, SortInv
<1>2. CASE Sort /\ SortOne
  <2>1. Head(sorting) \in Structs /\ Tail(sorting) \in Seq(Structs)
    BY <1>2 DEF SortOne, TypeInv, TypeOK
  <2>2. timers' \in Seq(Structs)
    <3>1. Place(Head(sorting)) \in 1..(Len(timers) + 1)
      BY PlaceExists DEF TypeInv, TypeOK
    <3>2. InsertAt(timers, Place(Head(sorting)), Head(sorting)) \in Lists
      BY <2>1, <3>1, ListInsert DEF Lists, TypeInv, TypeOK
    <3> QED
      BY <1>2, <3>2 DEF SortOne, Lists
  <2>3. TypeOK'
    <3>1. sorting' \in Seq(Structs)
      BY <1>2, <2>1 DEF SortOne
    <3>2. UNCHANGED <<structVars, mapVars, pending, freelist, sem, spent, delay,
                      cpc, timer, timeVars, tpc, tick>>
      BY <1>2 DEF Sort, SortOne
    <3> QED
      BY <2>2, <3>1, <3>2 DEF TypeInv, TypeOK
  <2> QED
    BY <1>2, <2>3 DEF Sort, SortOne, TypeInv, CallInv, SortInv
<1>3. CASE Sort /\ Look
  <2>1. TypeOK'
    BY <1>3 DEF Sort, Look, TypeInv, TypeOK
  <2> QED
    BY <1>3, <2>1 DEF Sort, Look, TypeInv, CallInv, SortInv
<1>4. CASE Dispatch
  <2>1. /\ Head(timers) \in Structs /\ Tail(timers) \in Seq(Structs)
        /\ Append(spent, Head(timers)) \in Seq(Structs)
    BY <1>4 DEF Dispatch, Due, TypeInv, TypeOK
  <2>2. DOMAIN left' \subseteq Nat /\ \A id \in DOMAIN left' : left'[id] \in Int
    <3>1. CASE canceled[Head(timers)]
      BY <1>4, <3>1 DEF Dispatch, TypeInv, TypeOK
    <3>2. CASE ~canceled[Head(timers)]
      BY <1>4, <3>2 DEF Dispatch, TypeInv, TypeOK
    <3> QED
      BY <3>1, <3>2
  <2>3. scheduled' \in [Structs -> 0..(Word - 1)]
    <3>1. scheduled' = [scheduled EXCEPT ![Head(timers)] = 0]
      BY <1>4 DEF Dispatch
    <3>2. scheduled \in [Structs -> 0..(Word - 1)]
      BY DEF TypeInv, TypeOK
    <3>3. 0 \in 0..(Word - 1)
      BY WordAssumption
    <3> QED
      BY <2>1, <3>1, <3>2, <3>3
  <2>4. TypeOK'
    <3>1. timers' \in Seq(Structs) /\ spent' \in Seq(Structs)
      BY <1>4, <2>1 DEF Dispatch
    <3>2. canceled' \in [Structs -> BOOLEAN]
      BY <1>4, <2>1 DEF Dispatch, TypeInv, TypeOK
    <3>3. UNCHANGED <<heap, timerID, mapVars, pending, freelist, sem, tpc, sorting,
                      tick, delay, cpc, timer, now, lag, clag>>
      BY <1>4 DEF Dispatch
    <3> QED
      BY <2>2, <2>3, <3>1, <3>2, <3>3 DEF TypeInv, TypeOK
  <2> QED
    BY <1>4, <2>4 DEF Dispatch, TypeInv, CallInv, SortInv
<1>5. CASE Reckon
  <2> DEFINE wait == IF timers = <<>> THEN MAXWAIT
                     ELSE (scheduled[Head(timers)] - tick) % Word
             passed == (now - tick) % Word
  <2>1. tick \in Int /\ now \in Int
    BY DEF TypeInv, TypeOK
  <2>2. passed \in 0..(Word - 1)
    BY <2>1, ModWord
  <2>3. wait \in 0..(Word - 1)
    <3>1. CASE timers = <<>>
      BY <3>1, WordAssumption DEF MAXWAIT
    <3>2. CASE timers # <<>>
      <4>1. scheduled[Head(timers)] \in Int
        BY <3>2 DEF TypeInv, TypeOK
      <4>2. (scheduled[Head(timers)] - tick) \in Int
        BY <2>1, <4>1
      <4> QED
        BY <3>2, <4>2, ModWord
    <3> QED
      BY <3>1, <3>2
  <2>4. delay' = Adjusted(wait, passed)
    BY <1>5 DEF Reckon
  <2> HIDE DEF wait, passed
  <2>5. delay' \in 0..(Word - 1)
    BY <2>2, <2>3, <2>4, WordAssumption DEF Adjusted
  <2>6. TypeOK'
    <3>1. tick' \in 0..(Word - 1) /\ lag' \in 0..Slack
      BY <1>5, WordAssumption, SlackAssumption DEF Reckon
    <3>2. /\ tpc' \in {"maintain", "sort", "dispatch", "sleep"}
          /\ UNCHANGED <<structVars, mapVars, pending, freelist, sem, timers, sorting,
                         spent, cpc, timer, now, clag, left>>
      BY <1>5 DEF Reckon
    <3> QED
      BY <2>5, <3>1, <3>2 DEF TypeInv, TypeOK
  <2> QED
    BY <1>5, <2>6 DEF Reckon, TypeInv, CallInv, SortInv
<1>6. CASE Wake
  <2>1. TypeOK'
    <3>1. delay' \in 0..(Word - 1) /\ lag' \in 0..Slack
      BY <1>6, WordAssumption, SlackAssumption DEF Wake
    <3>2. sem' \in Nat
      BY <1>6 DEF Wake, TypeInv, TypeOK
    <3>3. /\ tpc' \in {"maintain", "sort", "dispatch", "sleep"}
          /\ UNCHANGED <<structVars, mapVars, pending, freelist, timers, sorting,
                         spent, tick, cpc, timer, now, clag, left>>
      BY <1>6 DEF Wake
    <3> QED
      BY <3>1, <3>2, <3>3 DEF TypeInv, TypeOK
  <2> QED
    BY <1>6, <2>1 DEF Wake, TypeInv, CallInv, SortInv
<1> QED
  BY <1>1, <1>2, <1>3, <1>4, <1>5, <1>6 DEF TimerThread, Sort

LEMMA TickType ==
    ASSUME TypeInv, Tick
    PROVE  TypeInv'
<1> USE DEF structVars, mapVars, threadVars, timeVars
<1>1. lag' \in 0..Slack
  BY SlackAssumption DEF Tick, TypeInv, TypeOK
<1>2. clag' \in [Clients -> 0..CallSlack]
  <2>1. \A c \in Clients : (IF Calls(c) THEN clag[c] + 1 ELSE clag[c]) \in 0..CallSlack
    BY SlackAssumption DEF Tick, TypeInv, TypeOK
  <2> QED
    BY <2>1 DEF Tick
<1>3. now' \in 0..(Word - 1)
  <2>1. now + 1 \in Int
    BY DEF TypeInv, TypeOK
  <2> QED
    BY <2>1, ModWord DEF Tick
<1>4. delay' \in 0..(Word - 1)
  BY WordAssumption DEF Tick, TypeInv, TypeOK
<1>5. DOMAIN left' \subseteq Nat /\ \A id \in DOMAIN left' : left'[id] \in Int
  BY DEF Tick, TypeInv, TypeOK
<1>6. TypeOK'
  BY <1>1, <1>2, <1>3, <1>4, <1>5 DEF Tick, TypeInv, TypeOK
<1> QED
  BY <1>6 DEF Tick, TypeInv, CallInv, SortInv

LEMMA TypeStep ==
    ASSUME TypeInv, [Next]_vars
    PROVE  TypeInv'
<1>1. CASE UNCHANGED vars
  BY <1>1 DEF vars, structVars, mapVars, threadVars, timeVars, TypeInv, TypeOK, CallInv, SortInv
<1> QED
  BY <1>1, ObtainType, CallType, TimerThreadType, TickType DEF Next

(* Every variable keeps its type.                                          *)
THEOREM TypeCorrect == Spec => []TypeOK
<1>1. TypeInv => TypeOK
  BY DEF TypeInv
<1> QED
  BY <1>1, TypeInit, TypeStep, PTL DEF Spec

-------------------------------------------------------------------------------
(* Where the structures are.                                               *)

(* OnePlace, list by list.                                                 *)
ListsApart ==
    /\ Inj(pending) /\ Inj(sorting) /\ Inj(timers) /\ Inj(spent) /\ Inj(freelist)
    /\ Apart(pending, sorting) /\ Apart(pending, timers) /\ Apart(pending, spent)
    /\ Apart(pending, freelist) /\ Apart(sorting, timers) /\ Apart(sorting, spent)
    /\ Apart(sorting, freelist) /\ Apart(timers, spent) /\ Apart(timers, freelist)
    /\ Apart(spent, freelist)

InLists(s) ==
    \/ s \in ToSet(pending) \/ s \in ToSet(sorting) \/ s \in ToSet(timers)
    \/ s \in ToSet(spent) \/ s \in ToSet(freelist)

HandsApart ==
    /\ \A c, d \in Clients : timer[c] = timer[d] /\ timer[c] # NULL => c = d
    /\ \A c \in Clients : timer[c] # NULL => ~InLists(timer[c])

HeapExact ==
    /\ heap \subseteq Structs
    /\ \A s \in Structs :
          s \in heap <=> ~InLists(s) /\ \A c \in Clients : timer[c] # s

PlaceInv == ListsApart /\ HandsApart /\ HeapExact

LEMMA ListTypes ==
    ASSUME TypeOK
    PROVE  /\ pending \in Lists /\ sorting \in Lists /\ timers \in Lists
           /\ spent \in Lists /\ freelist \in Lists
BY DEF TypeOK, Lists

LEMMA ListedIs ==
    ASSUME TypeOK
    PROVE  /\ \A s : s \in Listed <=> InLists(s)
           /\ ToSet(Set) = ToSet(pending) \cup ToSet(sorting) \cup ToSet(timers)
           /\ ToSet(Done) = ToSet(spent) \cup ToSet(freelist)
<1>1. Listed = ToSet(Set) \cup ToSet(Done)
  BY ListTypes, FiveLists DEF Listed, Set, Done
<1>2. ToSet(Set) = ToSet(pending) \cup ToSet(sorting) \cup ToSet(timers)
  BY ListTypes, FiveLists DEF Set
<1>3. ToSet(Done) = ToSet(spent) \cup ToSet(freelist)
  BY ListTypes, FiveLists DEF Done
<1> QED
  BY <1>1, <1>2, <1>3 DEF InLists

LEMMA HeldIs ==
    ASSUME TypeInv
    PROVE  \A s : s \in Held <=> s # NULL /\ \E c \in Clients : timer[c] = s
<1>1. ASSUME NEW c \in Clients
      PROVE  cpc[c] \in {"remove", "fill", "map", "push"} <=> timer[c] # NULL
  <2>1. cpc[c] \in {"idle", "remove", "fill", "map", "push", "post"}
    BY DEF TypeInv, TypeOK
  <2> QED
    BY <2>1, NullAssumption DEF TypeInv, CallInv
<1> QED
  BY <1>1 DEF Held, InHand

LEMMA PlaceImplies ==
    ASSUME TypeInv, PlaceInv
    PROVE  OnePlace
<1>1. Inj(Set \o Done)
  <2>1. Inj((pending \o sorting \o timers) \o (spent \o freelist))
    BY ListTypes, FiveLists DEF PlaceInv, ListsApart, TypeInv
  <2> QED
    BY <2>1 DEF Set, Done
<1>2. Listed \cap Held = {}
  BY ListedIs, HeldIs DEF PlaceInv, HandsApart, TypeInv
<1>3. heap = Structs \ (Listed \cup Held)
  BY ListedIs, HeldIs, NullAssumption DEF PlaceInv, HeapExact, TypeInv
<1> QED
  BY <1>1, <1>2, <1>3 DEF OnePlace, Inj, PlaceInv, HandsApart

LEMMA PlaceInit == Init => PlaceInv
<1> SUFFICES ASSUME Init
             PROVE  PlaceInv
  OBVIOUS
<1>1. /\ pending = <<>> /\ sorting = <<>> /\ timers = <<>> /\ spent = <<>>
      /\ freelist = <<>> /\ heap = Structs /\ timer = [c \in Clients |-> NULL]
  BY DEF Init
<1> QED
  BY <1>1, EmptySeqElements, NullAssumption
  DEF PlaceInv, ListsApart, Apart, HandsApart, HeapExact, InLists

LEMMA ObtainPlace ==
    ASSUME TypeInv, PlaceInv, NEW c \in Clients, Obtain(c)
    PROVE  PlaceInv'
<1>1. UNCHANGED <<pending, sorting, timers, spent>>
  BY DEF Obtain, threadVars
<1>2. timer \in [Clients -> Structs \cup {NULL}] /\ timer[c] = NULL
  BY DEF TypeInv, TypeOK, CallInv, Obtain, Recycle, Malloc, Goes
<1>3. CASE Recycle(c)
  <2>1. PICK s : s = Head(freelist)
    OBVIOUS
  <2>2. /\ s \in Structs /\ s # NULL
        /\ ToSet(freelist) = {s} \cup ToSet(freelist')
        /\ Inj(freelist) => Inj(freelist') /\ s \notin ToSet(freelist')
    BY <1>3, <2>1, ListTypes, ListHeadTail, NullAssumption DEF Recycle, TypeInv
  <2>3. timer' = [timer EXCEPT ![c] = s] /\ heap' = heap
    BY <1>3, <2>1 DEF Recycle
  <2>4. ListsApart'
    BY <1>1, <2>2 DEF PlaceInv, ListsApart, Apart
  <2>5. HandsApart'
    BY <1>1, <1>2, <2>2, <2>3 DEF PlaceInv, ListsApart, Apart, HandsApart, InLists
  <2>6. ASSUME NEW r \in Structs
        PROVE  (\A d \in Clients : timer'[d] # r)
                  <=> r # s /\ \A d \in Clients : timer[d] # r
    BY <1>2, <2>3, NullAssumption
  <2>7. HeapExact'
    BY <1>1, <2>2, <2>3, <2>6 DEF PlaceInv, HeapExact, InLists
  <2> QED
    BY <2>4, <2>5, <2>7 DEF PlaceInv
<1>4. CASE Malloc(c)
  <2>1. PICK s \in heap : timer' = [timer EXCEPT ![c] = s] /\ heap' = heap \ {s}
    BY <1>4 DEF Malloc
  <2>2. freelist' = freelist
    BY <1>4 DEF Malloc
  <2>3. s \in Structs /\ s # NULL
    BY <2>1, NullAssumption DEF PlaceInv, HeapExact
  <2>4. ListsApart'
    BY <1>1, <2>2 DEF PlaceInv, ListsApart, Apart
  <2>5. HandsApart'
    BY <1>1, <1>2, <2>1, <2>2, <2>3 DEF PlaceInv, HandsApart, HeapExact, InLists
  <2>6. ASSUME NEW r \in Structs
        PROVE  (\A d \in Clients : timer'[d] # r)
                  <=> r # s /\ \A d \in Clients : timer[d] # r
    BY <1>2, <2>1, NullAssumption
  <2>7. HeapExact'
    BY <1>1, <2>1, <2>2, <2>6 DEF PlaceInv, HeapExact, InLists
  <2> QED
    BY <2>4, <2>5, <2>7 DEF PlaceInv
<1> QED
  BY <1>3, <1>4 DEF Obtain

LEMMA CallPlace ==
    ASSUME TypeInv, PlaceInv, NEW c \in Clients, Call(c)
    PROVE  PlaceInv'
<1>1. UNCHANGED <<sorting, timers, spent, freelist>>
  BY DEF Call, RemoveTimer, Fill, Map, Push, Post, threadVars
<1>2. timer \in [Clients -> Structs \cup {NULL}]
  BY DEF TypeInv, TypeOK
<1>3. CASE UNCHANGED <<heap, timer, pending>>
  BY <1>1, <1>3 DEF PlaceInv, ListsApart, Apart, HandsApart, HeapExact, InLists
<1>4. CASE Fill(c) /\ FillAndFail(c)
  <2>1. /\ heap' = heap \cup {timer[c]} /\ timer' = [timer EXCEPT ![c] = NULL]
        /\ pending' = pending
    BY <1>4 DEF Fill, FillAndFail
  <2>2. timer[c] \in Structs /\ timer[c] # NULL
    BY <1>4, NullAssumption DEF FillAndFail, Goes, TypeInv, CallInv
  <2>3. ListsApart'
    BY <1>1, <2>1 DEF PlaceInv, ListsApart, Apart
  <2>4. HandsApart'
    BY <1>1, <1>2, <2>1 DEF PlaceInv, HandsApart, InLists
  <2>5. HeapExact'
    BY <1>1, <1>2, <2>1, <2>2, NullAssumption DEF PlaceInv, HandsApart, HeapExact, InLists
  <2> QED
    BY <2>3, <2>4, <2>5 DEF PlaceInv
<1>5. CASE Push(c)
  <2>1. PICK s : s = timer[c]
    OBVIOUS
  <2>2. /\ pending' = <<s>> \o pending /\ timer' = [timer EXCEPT ![c] = NULL]
        /\ heap' = heap
    BY <1>5, <2>1 DEF Push, structVars
  <2>3. s \in Structs /\ s # NULL
    BY <1>5, <2>1, NullAssumption DEF Push, Goes, TypeInv, CallInv
  <2>4. /\ <<s>> \in Lists /\ ToSet(<<s>>) = {s} /\ Inj(<<s>>)
        /\ pending \in Lists
    BY <2>3, ListSingle, ListTypes DEF TypeInv
  <2>5. /\ ToSet(pending') = ToSet(<<s>>) \cup ToSet(pending)
        /\ Inj(pending') <=> /\ Inj(<<s>>) /\ Inj(pending)
                             /\ ToSet(<<s>>) \cap ToSet(pending) = {}
    BY <2>2, <2>4, ListConcat
  <2>6. ~InLists(s)
    BY <2>1, <2>3 DEF PlaceInv, HandsApart
  <2>7. ToSet(pending') = {s} \cup ToSet(pending) /\ Inj(pending')
    BY <2>4, <2>5, <2>6 DEF PlaceInv, ListsApart, InLists
  <2>8. ListsApart'
    BY <1>1, <2>6, <2>7 DEF PlaceInv, ListsApart, Apart, InLists
  <2>9. HandsApart'
    BY <1>1, <1>2, <2>1, <2>2, <2>7 DEF PlaceInv, HandsApart, InLists
  <2>10. ASSUME NEW r \in Structs
         PROVE  (\A d \in Clients : timer'[d] # r)
                   <=> r = s \/ \A d \in Clients : timer[d] # r
    BY <1>2, <2>1, <2>2, <2>3, NullAssumption DEF PlaceInv, HandsApart
  <2>11. HeapExact'
    BY <1>1, <2>1, <2>2, <2>7, <2>10 DEF PlaceInv, HeapExact, InLists
  <2> QED
    BY <2>8, <2>9, <2>11 DEF PlaceInv
<1> QED
  BY <1>3, <1>4, <1>5
  DEF Call, RemoveTimer, Fill, FillAndMap, Map, Post, structVars

LEMMA TimerThreadPlace ==
    ASSUME TypeInv, PlaceInv, TimerThread
    PROVE  PlaceInv'
<1>1. UNCHANGED <<heap, timer>>
  BY DEF TimerThread, Maintain, Sort, Dispatch, Reckon, Wake, structVars
<1>2. ASSUME ListsApart', \A s : InLists(s)' <=> InLists(s)
      PROVE  PlaceInv'
  BY <1>1, <1>2 DEF PlaceInv, HandsApart, HeapExact
<1>3. /\ pending \in Lists /\ sorting \in Lists /\ timers \in Lists
      /\ spent \in Lists /\ freelist \in Lists
  BY ListTypes DEF TypeInv
<1>4. CASE Maintain
  <2>1. /\ sorting' = pending /\ pending' = <<>> /\ freelist' = spent \o freelist
        /\ spent' = <<>> /\ timers' = timers
    BY <1>4 DEF Maintain, SpentAfterSplice
  <2>2. sorting = <<>>
    BY <1>4 DEF Maintain, TypeInv, SortInv
  <2>3. ToSet(pending') = {} /\ Inj(pending') /\ ToSet(spent') = {} /\ Inj(spent')
        /\ ToSet(sorting) = {}
    BY <2>1, <2>2, EmptySeqElements
  <2>4. /\ ToSet(freelist') = ToSet(spent) \cup ToSet(freelist)
        /\ Inj(freelist')
    BY <1>3, <2>1, ListConcat DEF PlaceInv, ListsApart, Apart
  <2>5. ListsApart'
    BY <2>1, <2>3, <2>4 DEF PlaceInv, ListsApart, Apart
  <2>6. \A s : InLists(s)' <=> InLists(s)
    BY <2>1, <2>3, <2>4 DEF InLists
  <2> QED
    BY <1>2, <2>5, <2>6
<1>5. CASE Sort /\ SortOne
  <2>1. PICK s : s = Head(sorting)
    OBVIOUS
  <2>2. /\ sorting # <<>> /\ sorting' = Tail(sorting)
        /\ timers' = InsertAt(timers, Place(s), s)
        /\ UNCHANGED <<pending, spent, freelist>>
    BY <1>5, <2>1 DEF Sort, SortOne
  <2>3. /\ s \in Structs
        /\ ToSet(sorting) = {s} \cup ToSet(sorting')
        /\ Inj(sorting) => Inj(sorting') /\ s \notin ToSet(sorting')
    BY <1>3, <2>1, <2>2, ListHeadTail
  <2>4. Place(s) \in 1..(Len(timers) + 1)
    BY PlaceExists DEF TypeInv, TypeOK
  <2>5. /\ ToSet(timers') = ToSet(timers) \cup {s}
        /\ Inj(timers') <=> Inj(timers) /\ s \notin ToSet(timers)
    BY <1>3, <2>2, <2>3, <2>4, ListInsert
  <2>6. ListsApart'
    BY <2>2, <2>3, <2>5 DEF PlaceInv, ListsApart, Apart
  <2>7. \A r : InLists(r)' <=> InLists(r)
    BY <2>2, <2>3, <2>5 DEF InLists
  <2> QED
    BY <1>2, <2>6, <2>7
<1>6. CASE Dispatch
  <2>1. PICK s : s = Head(timers)
    OBVIOUS
  <2>2. /\ timers # <<>> /\ timers' = Tail(timers) /\ spent' = Append(spent, s)
        /\ UNCHANGED <<pending, sorting, freelist>>
    BY <1>6, <2>1 DEF Dispatch, Due
  <2>3. /\ s \in Structs
        /\ ToSet(timers) = {s} \cup ToSet(timers')
        /\ Inj(timers) => Inj(timers') /\ s \notin ToSet(timers')
    BY <1>3, <2>1, <2>2, ListHeadTail
  <2>4. /\ ToSet(spent') = ToSet(spent) \cup {s}
        /\ Inj(spent') <=> Inj(spent) /\ s \notin ToSet(spent)
    BY <1>3, <2>2, <2>3, ListAppend
  <2>5. ListsApart'
    BY <2>2, <2>3, <2>4 DEF PlaceInv, ListsApart, Apart
  <2>6. \A r : InLists(r)' <=> InLists(r)
    BY <2>2, <2>3, <2>4 DEF InLists
  <2> QED
    BY <1>2, <2>5, <2>6
<1>7. CASE UNCHANGED <<pending, sorting, timers, spent, freelist>>
  <2>1. ListsApart' /\ \A s : InLists(s)' <=> InLists(s)
    BY <1>7 DEF PlaceInv, ListsApart, Apart, InLists
  <2> QED
    BY <1>2, <2>1
<1> QED
  BY <1>4, <1>5, <1>6, <1>7 DEF TimerThread, Sort, Look, Reckon, Wake

LEMMA PlaceStep ==
    ASSUME TypeInv, PlaceInv, [Next]_vars
    PROVE  PlaceInv'
<1>1. CASE Tick \/ UNCHANGED vars
  BY <1>1
  DEF Tick, vars, structVars, threadVars, PlaceInv, ListsApart, Apart, HandsApart,
      HeapExact, InLists
<1> QED
  BY <1>1, ObtainPlace, CallPlace, TimerThreadPlace DEF Next

(* Each structure is in the heap, once in one of the lists, or in the      *)
(* hands of one caller, whatever the order in which the callers and the    *)
(* timer thread run.                                                       *)
THEOREM StructsKept == Spec => []OnePlace
<1>1. Init => TypeInv /\ PlaceInv
  BY TypeInit, PlaceInit
<1>2. TypeInv /\ PlaceInv /\ [Next]_vars => (TypeInv /\ PlaceInv)'
  BY TypeStep, PlaceStep
<1>3. TypeInv /\ PlaceInv => OnePlace
  BY PlaceImplies
<1> QED
  BY <1>1, <1>2, <1>3, PTL DEF Spec

-------------------------------------------------------------------------------
(* What the map says.                                                      *)

(* The structures the map has an entry for, in PlaceInv's terms.           *)
Mapped(s) ==
    \/ InLists(s)
    \/ \E c \in Clients : cpc[c] \in {"remove", "push"} /\ timer[c] = s

(* Those whose timerID is in use.                                          *)
Named(s) == Mapped(s) \/ \E c \in Clients : cpc[c] = "map" /\ timer[c] = s

EntriesExact ==
    /\ \A e \in timermap : Mapped(e.timer) /\ e.timerID = timerID[e.timer]
    /\ \A s \in Structs : Mapped(s) => [timerID |-> timerID[s], timer |-> s] \in timermap

IDsApart ==
    /\ \A s \in Structs : Named(s) => timerID[s] < nextID
    /\ \A r, s \in Structs : Named(r) /\ Named(s) /\ timerID[r] = timerID[s] => r = s

Uncanceled ==
    /\ \A s \in Structs :
          s \in ToSet(pending) \/ s \in ToSet(sorting) \/ s \in ToSet(timers)
             => ~canceled[s]
    /\ \A c \in Clients : cpc[c] \in {"map", "push"} => ~canceled[timer[c]]
    /\ \A s \in Structs : s \in ToSet(spent) \/ s \in ToSet(freelist) => canceled[s]

MapInv == EntriesExact /\ IDsApart /\ Uncanceled

LEMMA InListsStructs ==
    ASSUME TypeOK, NEW s, InLists(s)
    PROVE  s \in Structs
<1>1. /\ ToSet(pending) \subseteq Structs /\ ToSet(sorting) \subseteq Structs
      /\ ToSet(timers) \subseteq Structs /\ ToSet(spent) \subseteq Structs
      /\ ToSet(freelist) \subseteq Structs
  BY SeqElements DEF TypeOK
<1> QED
  BY <1>1 DEF InLists

LEMMA MappedStructs ==
    ASSUME TypeInv, NEW s, Named(s)
    PROVE  s \in Structs
BY InListsStructs DEF Named, Mapped, TypeInv, CallInv

LEMMA MapImplies ==
    ASSUME TypeInv, MapInv
    PROVE  MapExact
<1>1. \A s : s \in Listed \cup InHand({"remove", "push"}) <=> Mapped(s)
  BY ListedIs DEF Mapped, InHand, TypeInv
<1>2. \A e \in timermap : e = [timerID |-> e.timerID, timer |-> e.timer] /\ e.timer \in Structs
  BY DEF TypeInv, TypeOK
<1>3. timermap = {[timerID |-> timerID[s], timer |-> s] :
                     s \in Listed \cup InHand({"remove", "push"})}
  <2>1. ASSUME NEW e \in timermap
        PROVE  /\ e.timer \in Listed \cup InHand({"remove", "push"})
               /\ e = [timerID |-> timerID[e.timer], timer |-> e.timer]
    BY <1>1, <1>2 DEF MapInv, EntriesExact
  <2>2. ASSUME NEW s \in Listed \cup InHand({"remove", "push"})
        PROVE  [timerID |-> timerID[s], timer |-> s] \in timermap
    <3>1. s \in Structs
      BY <1>1, MappedStructs DEF Named
    <3> QED
      BY <1>1, <3>1 DEF MapInv, EntriesExact
  <2> QED
    BY <2>1, <2>2
<1>4. \A e, f \in timermap : e.timerID = f.timerID => e = f
  <2> SUFFICES ASSUME NEW e \in timermap, NEW f \in timermap, e.timerID = f.timerID
               PROVE  e = f
    OBVIOUS
  <2>1. e.timer = f.timer
    BY <1>2 DEF MapInv, EntriesExact, IDsApart, Named
  <2> QED
    BY <1>2, <2>1
<1>5. ToSet(Set) \subseteq Structs /\ ToSet(Done) \subseteq Structs
  BY ListedIs, InListsStructs DEF TypeInv, InLists
<1>6. /\ \A s \in ToSet(Set) : ~canceled[s]
      /\ \A s \in ToSet(Done) : canceled[s]
  BY <1>5, ListedIs DEF TypeInv, MapInv, Uncanceled
<1> QED
  BY <1>3, <1>4, <1>6 DEF MapExact

LEMMA MapInit == Init => MapInv
<1> SUFFICES ASSUME Init
             PROVE  MapInv
  OBVIOUS
<1>1. /\ pending = <<>> /\ sorting = <<>> /\ timers = <<>> /\ spent = <<>>
      /\ freelist = <<>> /\ timermap = {} /\ cpc = [c \in Clients |-> "idle"]
  BY DEF Init
<1>2. \A s : ~InLists(s) /\ ~Mapped(s) /\ ~Named(s)
  BY <1>1, EmptySeqElements DEF InLists, Mapped, Named
<1> QED
  BY <1>1, <1>2, EmptySeqElements
  DEF MapInv, EntriesExact, IDsApart, Uncanceled

(* A step that leaves the map, the ids and the canceled timers alone, and  *)
(* moves no structure into or out of the map's part.                       *)
LEMMA MapFrame ==
    ASSUME MapInv,
           UNCHANGED <<timermap, timerID, canceled>>, nextID' = nextID \/ nextID' = nextID + 1,
           nextID \in Nat, timerID \in [Structs -> Nat],
           \A s : Mapped(s)' <=> Mapped(s), \A s : Named(s)' => Named(s)
    PROVE  EntriesExact' /\ IDsApart'
<1>1. EntriesExact'
  BY DEF MapInv, EntriesExact
<1>2. IDsApart'
  BY DEF MapInv, IDsApart
<1> QED
  BY <1>1, <1>2

LEMMA ObtainMap ==
    ASSUME TypeInv, MapInv, NEW c \in Clients, Obtain(c)
    PROVE  MapInv'
<1>1. UNCHANGED <<timerID, canceled, timermap, nextID, pending, sorting, timers, spent>>
  BY DEF Obtain, mapVars, threadVars
<1>2. /\ cpc \in [Clients -> {"idle", "remove", "fill", "map", "push", "post"}]
      /\ timer \in [Clients -> Structs \cup {NULL}] /\ cpc[c] = "idle"
      /\ nextID \in Nat /\ timerID \in [Structs -> Nat]
  BY DEF TypeInv, TypeOK, Obtain, Recycle, Malloc, Goes
<1>3. CASE Recycle(c)
  <2>1. PICK s : s = Head(freelist)
    OBVIOUS
  <2>2. /\ s \in Structs
        /\ ToSet(freelist) = {s} \cup ToSet(freelist')
    BY <1>3, <2>1, ListTypes, ListHeadTail DEF Recycle, TypeInv
  <2>3. timer' = [timer EXCEPT ![c] = s] /\ cpc' = [cpc EXCEPT ![c] = "remove"]
    BY <1>3, <2>1 DEF Recycle, Goes
  <2>4. \A r : Mapped(r)' <=> Mapped(r)
    BY <1>1, <1>2, <2>2, <2>3 DEF Mapped, InLists
  <2>5. \A r : Named(r)' => Named(r)
    BY <1>2, <2>3, <2>4 DEF Named
  <2>6. Uncanceled'
    BY <1>1, <1>2, <2>2, <2>3 DEF MapInv, Uncanceled
  <2> QED
    BY <1>1, <1>2, <2>4, <2>5, <2>6, MapFrame DEF MapInv
<1>4. CASE Malloc(c)
  <2>1. /\ \E s : timer' = [timer EXCEPT ![c] = s]
        /\ cpc' = [cpc EXCEPT ![c] = "fill"] /\ freelist' = freelist
    BY <1>4 DEF Malloc, Goes
  <2>2. \A r : Mapped(r)' <=> Mapped(r)
    BY <1>1, <1>2, <2>1 DEF Mapped, InLists
  <2>3. \A r : Named(r)' => Named(r)
    BY <1>2, <2>1, <2>2 DEF Named
  <2>4. Uncanceled'
    BY <1>1, <1>2, <2>1 DEF MapInv, Uncanceled
  <2> QED
    BY <1>1, <1>2, <2>2, <2>3, <2>4, MapFrame DEF MapInv
<1> QED
  BY <1>3, <1>4 DEF Obtain

LEMMA CallMap ==
    ASSUME TypeInv, PlaceInv, MapInv, NEW c \in Clients, Call(c)
    PROVE  MapInv'
<1>1. UNCHANGED <<sorting, timers, spent, freelist>>
  BY DEF Call, RemoveTimer, Fill, Map, Push, Post, threadVars
<1>2. /\ cpc \in [Clients -> {"idle", "remove", "fill", "map", "push", "post"}]
      /\ timer \in [Clients -> Structs \cup {NULL}]
      /\ nextID \in Nat /\ timerID \in [Structs -> Nat]
      /\ canceled \in [Structs -> BOOLEAN]
  BY DEF TypeInv, TypeOK
<1>3. PICK s : s = timer[c]
  OBVIOUS
<1>4. ASSUME s # NULL
      PROVE  ~InLists(s) /\ \A d \in Clients : timer[d] = s => d = c
  BY <1>3, <1>4 DEF PlaceInv, HandsApart
<1>5. CASE RemoveTimer(c)
  <2>1. /\ cpc[c] = "remove" /\ cpc' = [cpc EXCEPT ![c] = "fill"]
        /\ UNCHANGED <<timerID, nextID, pending, timer>>
    BY <1>5 DEF RemoveTimer, Goes
  <2>2. s \in Structs /\ s # NULL
    BY <1>3, <2>1, NullAssumption DEF TypeInv, CallInv
  <2>3. Mapped(s)
    BY <1>3, <2>1 DEF Mapped
  <2>4. \A e \in Found(timerID[s]) : e.timer = s
    BY <2>2, <2>3 DEF Found, MapInv, EntriesExact, IDsApart, Named, TypeInv, TypeOK
  <2>5. [timerID |-> timerID[s], timer |-> s] \in Found(timerID[s])
    BY <2>2, <2>3 DEF Found, MapInv, EntriesExact
  <2>6. timermap' = timermap \ Found(timerID[s])
    BY <1>3, <1>5 DEF RemoveTimer
  <2>7. canceled' = [canceled EXCEPT ![s] = TRUE]
    <3>1. canceled' = [r \in Structs |-> canceled[r] \/ \E e \in Found(timerID[s]) : e.timer = r]
      BY <1>3, <1>5 DEF RemoveTimer
    <3>2. \A r \in Structs : (\E e \in Found(timerID[s]) : e.timer = r) <=> r = s
      BY <2>4, <2>5
    <3>3. \A r \in Structs : canceled'[r] = IF r = s THEN TRUE ELSE canceled[r]
      BY <1>2, <3>1, <3>2, Zenon
    <3> QED
      BY <1>2, <2>2, <3>1, <3>3
  <2>8. \A r : Mapped(r)' <=> Mapped(r) /\ r # s
    BY <1>1, <1>2, <1>3, <1>4, <2>1, <2>2 DEF Mapped, InLists
  <2>9. \A r : Named(r)' => Named(r)
    BY <1>2, <2>1, <2>8 DEF Named
  <2>10. EntriesExact'
    <3>1. ASSUME NEW e \in timermap'
          PROVE  Mapped(e.timer)' /\ e.timerID = timerID'[e.timer]
      <4>1. e \in timermap /\ e.timerID # timerID[s]
        BY <2>6, <3>1 DEF Found
      <4>2. Mapped(e.timer) /\ e.timerID = timerID[e.timer]
        BY <4>1 DEF MapInv, EntriesExact
      <4> QED
        BY <2>1, <2>8, <4>1, <4>2
    <3>2. ASSUME NEW r \in Structs, Mapped(r)'
          PROVE  [timerID |-> timerID'[r], timer |-> r] \in timermap'
      <4>1. Mapped(r) /\ r # s
        BY <2>8, <3>2
      <4>2. [timerID |-> timerID[r], timer |-> r] \in timermap
        BY <4>1 DEF MapInv, EntriesExact
      <4>3. [timerID |-> timerID[r], timer |-> r] \notin Found(timerID[s])
        BY <2>4, <4>1
      <4> QED
        BY <2>1, <2>6, <4>2, <4>3
    <3> QED
      BY <3>1, <3>2 DEF EntriesExact
  <2>11. IDsApart'
    BY <2>1, <2>9 DEF MapInv, IDsApart
  <2>12. Uncanceled'
    <3>1. ~InLists(s)
      BY <1>4, <2>2
    <3>2. \A d \in Clients : cpc'[d] \in {"map", "push"} => cpc[d] \in {"map", "push"} /\ timer[d] # s
      BY <1>2, <1>4, <2>1, <2>2
    <3>3. \A d \in Clients : cpc[d] \in {"map", "push"} => timer[d] \in Structs
      BY DEF TypeInv, CallInv
    <3> QED
      BY <1>1, <1>2, <2>1, <2>2, <2>7, <3>1, <3>2, <3>3 DEF MapInv, Uncanceled, InLists
  <2> QED
    BY <2>10, <2>11, <2>12 DEF MapInv
<1>6. CASE Fill(c) /\ FillAndMap(c)
  <2>1. /\ cpc[c] = "fill" /\ cpc' = [cpc EXCEPT ![c] = "map"]
        /\ timerID' = [timerID EXCEPT ![s] = nextID] /\ canceled' = [canceled EXCEPT ![s] = FALSE]
        /\ nextID' = nextID + 1
        /\ UNCHANGED <<timermap, pending, timer>>
    BY <1>3, <1>6 DEF Fill, FillAndMap, Goes
  <2>2. s \in Structs /\ s # NULL
    BY <1>3, <2>1, NullAssumption DEF TypeInv, CallInv
  <2>3. ~InLists(s) /\ \A d \in Clients : timer[d] = s => d = c
    BY <1>4, <2>2
  <2>4. ~Named(s)
    BY <1>3, <2>1, <2>3 DEF Named, Mapped
  <2>5. \A r : Mapped(r)' <=> Mapped(r)
    BY <1>1, <1>2, <2>1 DEF Mapped, InLists
  <2>6. \A r : Named(r)' => r = s \/ Named(r)
    BY <1>2, <1>3, <2>1, <2>5 DEF Named
  <2>7. EntriesExact'
    <3>1. \A r : Mapped(r) => r # s
      BY <2>4 DEF Named
    <3> QED
      BY <1>2, <2>1, <2>5, <3>1, MappedStructs DEF MapInv, EntriesExact, Named, TypeInv, TypeOK
  <2>8. IDsApart'
    BY <1>2, <2>1, <2>2, <2>4, <2>6 DEF MapInv, IDsApart
  <2>9. Uncanceled'
    <3>1. \A d \in Clients : cpc'[d] \in {"map", "push"} =>
             timer[d] \in Structs /\ (d # c => cpc[d] \in {"map", "push"} /\ timer[d] # s)
      BY <1>2, <1>3, <2>1, <2>2, <2>3 DEF TypeInv, CallInv
    <3> QED
      BY <1>1, <1>2, <1>3, <2>1, <2>2, <2>3, <3>1 DEF MapInv, Uncanceled, InLists
  <2> QED
    BY <2>7, <2>8, <2>9 DEF MapInv
<1>7. CASE Fill(c) /\ FillAndFail(c)
  <2>1. /\ cpc[c] = "fill" /\ cpc' = [cpc EXCEPT ![c] = "idle"]
        /\ timer' = [timer EXCEPT ![c] = NULL] /\ nextID' = nextID + 1
        /\ UNCHANGED <<timermap, timerID, canceled, pending>>
    BY <1>7 DEF Fill, FillAndFail, Goes
  <2>2. \A r : Mapped(r)' <=> Mapped(r)
    BY <1>1, <1>2, <2>1 DEF Mapped, InLists
  <2>3. \A r : Named(r)' => Named(r)
    BY <1>2, <2>1, <2>2 DEF Named
  <2>4. Uncanceled'
    BY <1>1, <1>2, <2>1 DEF MapInv, Uncanceled
  <2> QED
    BY <1>2, <2>1, <2>2, <2>3, <2>4, MapFrame DEF MapInv
<1>8. CASE Map(c)
  <2>1. /\ cpc[c] = "map" /\ cpc' = [cpc EXCEPT ![c] = "push"]
        /\ timermap' = timermap \cup {[timerID |-> timerID[s], timer |-> s]}
        /\ UNCHANGED <<timerID, canceled, nextID, pending, timer>>
    BY <1>3, <1>8 DEF Map, Goes, structVars
  <2>2. \A r : Mapped(r)' <=> Mapped(r) \/ r = s
    BY <1>1, <1>2, <1>3, <2>1 DEF Mapped, InLists
  <2>3. \A r : Named(r)' => Named(r)
    BY <1>2, <1>3, <2>1, <2>2 DEF Named
  <2>4. EntriesExact'
    BY <2>1, <2>2 DEF MapInv, EntriesExact
  <2>5. IDsApart'
    BY <2>1, <2>3 DEF MapInv, IDsApart
  <2>6. Uncanceled'
    BY <1>1, <1>2, <2>1 DEF MapInv, Uncanceled
  <2> QED
    BY <2>4, <2>5, <2>6 DEF MapInv
<1>9. CASE Push(c)
  <2>1. /\ cpc[c] = "push" /\ cpc' = [cpc EXCEPT ![c] = "post"]
        /\ pending' = <<s>> \o pending /\ timer' = [timer EXCEPT ![c] = NULL]
        /\ UNCHANGED <<timermap, timerID, canceled, nextID>>
    BY <1>3, <1>9 DEF Push, Goes, structVars, mapVars
  <2>2. s \in Structs /\ s # NULL
    BY <1>3, <2>1, NullAssumption DEF TypeInv, CallInv
  <2>3. ToSet(pending') = {s} \cup ToSet(pending)
    <3>1. <<s>> \in Lists /\ ToSet(<<s>>) = {s} /\ pending \in Lists
      BY <2>2, ListSingle, ListTypes DEF TypeInv
    <3>2. ToSet(<<s>> \o pending) = ToSet(<<s>>) \cup ToSet(pending)
      BY <3>1, ListConcat
    <3> QED
      BY <2>1, <3>1, <3>2
  <2>4. \A r : Mapped(r)' <=> Mapped(r)
    BY <1>1, <1>2, <1>3, <2>1, <2>3 DEF Mapped, InLists
  <2>5. \A r : Named(r)' => Named(r)
    BY <1>2, <2>1, <2>4 DEF Named
  <2>6. Uncanceled'
    BY <1>1, <1>2, <1>3, <2>1, <2>3 DEF MapInv, Uncanceled
  <2> QED
    BY <1>2, <2>1, <2>4, <2>5, <2>6, MapFrame DEF MapInv
<1>10. CASE Post(c)
  <2>1. /\ cpc[c] = "post" /\ cpc' = [cpc EXCEPT ![c] = "idle"]
        /\ UNCHANGED <<timermap, timerID, canceled, nextID, pending, timer>>
    BY <1>10 DEF Post, Goes, structVars, mapVars
  <2>2. \A r : Mapped(r)' <=> Mapped(r)
    BY <1>1, <1>2, <2>1 DEF Mapped, InLists
  <2>3. \A r : Named(r)' => Named(r)
    BY <1>2, <2>1, <2>2 DEF Named
  <2>4. Uncanceled'
    BY <1>1, <1>2, <2>1 DEF MapInv, Uncanceled
  <2> QED
    BY <1>2, <2>1, <2>2, <2>3, <2>4, MapFrame DEF MapInv
<1> QED
  BY <1>5, <1>6, <1>7, <1>8, <1>9, <1>10 DEF Call, Fill

LEMMA TimerThreadMap ==
    ASSUME TypeInv, PlaceInv, MapInv, TimerThread
    PROVE  MapInv'
<1>1. UNCHANGED <<timermap, timerID, nextID, cpc, timer>>
  BY DEF TimerThread, Maintain, Sort, Dispatch, Reckon, Wake, structVars, mapVars
<1>2. /\ pending \in Lists /\ sorting \in Lists /\ timers \in Lists
      /\ spent \in Lists /\ freelist \in Lists
      /\ nextID \in Nat /\ timerID \in [Structs -> Nat]
      /\ canceled \in [Structs -> BOOLEAN]
  BY ListTypes DEF TypeInv, TypeOK
<1>3. ASSUME \A s : InLists(s)' <=> InLists(s), Uncanceled'
      PROVE  MapInv'
  BY <1>1, <1>3 DEF MapInv, EntriesExact, IDsApart, Mapped, Named
<1>4. CASE Maintain
  <2>1. /\ sorting' = pending /\ pending' = <<>> /\ freelist' = spent \o freelist
        /\ spent' = <<>> /\ UNCHANGED <<timers, canceled>>
    BY <1>4 DEF Maintain, SpentAfterSplice, structVars
  <2>2. sorting = <<>>
    BY <1>4 DEF Maintain, TypeInv, SortInv
  <2>3. /\ ToSet(pending') = {} /\ ToSet(spent') = {} /\ ToSet(sorting) = {}
        /\ ToSet(freelist') = ToSet(spent) \cup ToSet(freelist)
    BY <1>2, <2>1, <2>2, EmptySeqElements, ListConcat
  <2> QED
    BY <1>1, <1>3, <2>1, <2>3 DEF MapInv, Uncanceled, InLists
<1>5. CASE Sort /\ SortOne
  <2>1. PICK s : s = Head(sorting)
    OBVIOUS
  <2>2. /\ sorting # <<>> /\ sorting' = Tail(sorting)
        /\ timers' = InsertAt(timers, Place(s), s)
        /\ UNCHANGED <<pending, spent, freelist, canceled>>
    BY <1>5, <2>1 DEF Sort, SortOne, structVars
  <2>3. s \in Structs /\ ToSet(sorting) = {s} \cup ToSet(sorting')
    BY <1>2, <2>1, <2>2, ListHeadTail
  <2>4. Place(s) \in 1..(Len(timers) + 1)
    BY PlaceExists DEF TypeInv, TypeOK
  <2>5. ToSet(timers') = ToSet(timers) \cup {s}
    BY <1>2, <2>2, <2>3, <2>4, ListInsert
  <2> QED
    BY <1>1, <1>3, <2>2, <2>3, <2>5 DEF MapInv, Uncanceled, InLists
<1>6. CASE Dispatch
  <2>1. PICK s : s = Head(timers)
    OBVIOUS
  <2>2. /\ timers # <<>> /\ timers' = Tail(timers) /\ spent' = Append(spent, s)
        /\ canceled' = [canceled EXCEPT ![s] = TRUE]
        /\ UNCHANGED <<pending, sorting, freelist>>
    BY <1>6, <2>1 DEF Dispatch, Due
  <2>3. /\ s \in Structs
        /\ ToSet(timers) = {s} \cup ToSet(timers')
        /\ Inj(timers) => s \notin ToSet(timers')
    BY <1>2, <2>1, <2>2, ListHeadTail
  <2>4. ToSet(spent') = ToSet(spent) \cup {s}
    BY <1>2, <2>2, <2>3, ListAppend
  <2>5. \A r : InLists(r)' <=> InLists(r)
    BY <2>2, <2>3, <2>4 DEF InLists
  <2>6. /\ s \notin ToSet(timers') /\ s \notin ToSet(pending) /\ s \notin ToSet(sorting)
        /\ \A d \in Clients : timer[d] # NULL => timer[d] # s
    BY <2>3 DEF PlaceInv, ListsApart, Apart, HandsApart, InLists
  <2>7. \A d \in Clients : cpc[d] \in {"map", "push"} => timer[d] \in Structs /\ timer[d] # s
    BY <2>6, NullAssumption DEF TypeInv, CallInv
  <2>8. Uncanceled'
    BY <1>1, <1>2, <2>2, <2>3, <2>4, <2>6, <2>7 DEF MapInv, Uncanceled
  <2> QED
    BY <1>3, <2>5, <2>8
<1>7. CASE UNCHANGED <<pending, sorting, timers, spent, freelist, canceled>>
  BY <1>1, <1>3, <1>7 DEF MapInv, Uncanceled, InLists
<1> QED
  BY <1>4, <1>5, <1>6, <1>7 DEF TimerThread, Sort, Look, Reckon, Wake, structVars

LEMMA MapStep ==
    ASSUME TypeInv, PlaceInv, MapInv, [Next]_vars
    PROVE  MapInv'
<1>1. CASE Tick \/ UNCHANGED vars
  BY <1>1
  DEF Tick, vars, structVars, mapVars, threadVars, MapInv, EntriesExact, IDsApart,
      Uncanceled, Mapped, Named, InLists
<1> QED
  BY <1>1, ObtainMap, CallMap, TimerThreadMap DEF Next

(* The map always names the structures that are set or done with, each     *)
(* under the id it has now: SDL_RemoveTimer() of a structure that is used  *)
(* again cancels that structure and no other, so no timer that is set is   *)
(* ever lost.                                                              *)
THEOREM MapCorrect == Spec => []MapExact
<1>1. Init => TypeInv /\ PlaceInv /\ MapInv
  BY TypeInit, PlaceInit, MapInit
<1>2. TypeInv /\ PlaceInv /\ MapInv /\ [Next]_vars => (TypeInv /\ PlaceInv /\ MapInv)'
  BY TypeStep, PlaceStep, MapStep
<1>3. TypeInv /\ PlaceInv /\ MapInv => MapExact
  BY MapImplies
<1> QED
  BY <1>1, <1>2, <1>3, PTL DEF Spec
===============================================================================
