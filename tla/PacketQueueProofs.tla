-------------------------- MODULE PacketQueueProofs --------------------------
(***************************************************************************)
(* Theorems about PacketQueue, for every set of nodes, packets and         *)
(* consumers: the list is well formed, wakeups are not lost, and the list  *)
(* implements the FIFO.                                                    *)
(***************************************************************************)
EXTENDS PacketQueue, FiniteSetTheorems, SequenceTheorems, TLAPS

(* The inductive invariant: the types and the shape of the list.  Neither  *)
(* half is inductive alone: get() keeps the types only because mFirst and  *)
(* mNbPackets agree with the chain.                                        *)
ListInv == TypeOK /\ ListWellFormed

LEMMA InitListInv == Init => ListInv
<1> SUFFICES ASSUME Init
             PROVE  ListInv
  OBVIOUS
<1>1. chain = <<>> /\ chain \in Seq(Nodes) /\ 1..Len(chain) = {}
  BY DEF Init
<1>2. TypeOK
  <2>1. /\ next \in [Nodes -> Nodes \cup {NULL}]
        /\ pkt \in [Nodes -> Packets \cup {NULL}]
    BY DEF Init
  <2>2. /\ pc \in [Consumers -> {"idle", "ready", "asleep"}]
        /\ blk \in [Consumers -> BOOLEAN]
        /\ ret \in [Consumers -> {-1, 0, 1}]
        /\ out \in [Consumers -> Packets \cup {NULL}]
    BY DEF Init
  <2>3. /\ mFirst \in Nodes \cup {NULL} /\ mLast \in Nodes \cup {NULL}
        /\ mNbPackets \in Nat /\ mSize \in Int
    BY DEF Init
  <2>4. mAbortRequest \in BOOLEAN /\ leaked \in SUBSET Nodes
    BY Zenon DEF Init
  <2> QED
    BY <1>1, <2>1, <2>2, <2>3, <2>4 DEF TypeOK
<1> QED
  BY <1>1, <1>2 DEF Init, ListInv, ListWellFormed, NoNodeTwice,
     NoDroppedNode, EndsAgree, LinksAgree, NodesHoldPackets, Size

LEMMA PutListInv ==
    ASSUME ListInv, NEW n \in Nodes, NEW p \in Packets, Put(n, p)
    PROVE  ListInv'
<1> USE NullAssumption
<1> DEFINE L == Len(chain)
<1>0. TypeOK /\ ListWellFormed
  BY DEF ListInv
<1>1. /\ L \in Nat
      /\ chain' \in Seq(Nodes)
      /\ Len(chain') = L + 1
      /\ chain'[L + 1] = n
      /\ \A i \in 1..L : chain'[i] = chain[i] /\ chain[i] \in Nodes
  BY <1>0 DEF Put, TypeOK
<1>2. (mLast = NULL) <=> (L = 0)
  BY <1>0, <1>1 DEF TypeOK, ListWellFormed, EndsAgree
<1>3. TypeOK'
  <2>1. pc' \in [Consumers -> {"idle", "ready", "asleep"}]
    BY <1>0 DEF Put, TypeOK, Signal, Asleep
  <2>2. mSize' \in Int
    BY <1>0, SizeAssumption DEF Put, Account, Cost, TypeOK
  <2>3. next' \in [Nodes -> Nodes \cup {NULL}]
    BY <1>0 DEF Put, Link, TypeOK
  <2> QED
    BY <1>0, <1>1, <2>1, <2>2, <2>3 DEF Put, Account, TypeOK
<1>4. NoNodeTwice'
  BY <1>0, <1>1 DEF Put, ListWellFormed, NoNodeTwice
<1>5. NoDroppedNode'
  BY <1>0, <1>1 DEF Put, ListWellFormed, NoDroppedNode
<1>6. EndsAgree'
  BY <1>0, <1>1, <1>2 DEF Put, ListWellFormed, EndsAgree
<1>7. LinksAgree'
  <2>1. CASE L = 0
    BY <1>0, <1>1, <1>2, <2>1 DEF Put, Link, TypeOK, LinksAgree
  <2>2. CASE L > 0
    <3>1. mLast = chain[L] /\ mLast # NULL /\ mLast # n
      BY <1>0, <1>1, <1>2, <2>2 DEF Put, ListWellFormed, EndsAgree
    <3>2. next' = [next EXCEPT ![n] = NULL, ![mLast] = n]
      BY <3>1 DEF Put, Link
    <3>3. \A i \in 1..(L - 1) : chain[i] # n /\ chain[i] # mLast
      BY <1>0, <1>1, <3>1 DEF Put, ListWellFormed, NoNodeTwice
    <3>4. \A i \in 1..(L - 1) : next'[chain'[i]] = chain'[i + 1]
      BY <1>0, <1>1, <3>2, <3>3 DEF TypeOK, ListWellFormed, LinksAgree
    <3>5. next'[chain'[L]] = chain'[L + 1] /\ next'[chain'[L + 1]] = NULL
      BY <1>0, <1>1, <2>2, <3>1, <3>2 DEF TypeOK
    <3> QED
      BY <1>1, <3>4, <3>5 DEF LinksAgree
  <2> QED
    BY <1>1, <2>1, <2>2
<1>8. NodesHoldPackets'
  BY <1>0, <1>1 DEF Put, TypeOK, ListWellFormed, NodesHoldPackets
<1>9. Size' = Len(chain')
  BY <1>0, <1>1 DEF Put, Account, Size, ListWellFormed
<1> QED
  BY <1>3, <1>4, <1>5, <1>6, <1>7, <1>8, <1>9 DEF ListInv, ListWellFormed

LEMMA GetPacketListInv ==
    ASSUME ListInv, NEW c \in Consumers, GetPacket(c)
    PROVE  ListInv'
<1> USE NullAssumption
<1> DEFINE L == Len(chain)
<1>0. TypeOK /\ ListWellFormed
  BY DEF ListInv
<1>1. L > 0 /\ L \in Nat /\ chain # <<>> /\ mFirst = chain[1] /\ mLast = chain[L]
  BY <1>0 DEF GetPacket, TypeOK, ListWellFormed, EndsAgree
<1>2. /\ chain' \in Seq(Nodes)
      /\ Len(chain') = L - 1
      /\ \A i \in 1..(L - 1) : chain'[i] = chain[i + 1]
  BY <1>0, <1>1 DEF GetPacket, TypeOK
<1>3. /\ \A i \in 1..L : chain[i] \in Nodes
      /\ next[mFirst] = IF L = 1 THEN NULL ELSE chain[2]
  BY <1>0, <1>1 DEF TypeOK, ListWellFormed, LinksAgree
<1>4. TypeOK'
  <2>1. pkt[mFirst] \in Packets
    BY <1>0, <1>1 DEF ListWellFormed, NodesHoldPackets
  <2>2. mSize' \in Int
    BY <1>0, <2>1, SizeAssumption DEF GetPacket, Account, Cost, TypeOK
  <2>3. mNbPackets' \in Nat
    BY <1>0, <1>1 DEF GetPacket, Account, TypeOK, ListWellFormed, Size
  <2> QED
    BY <1>0, <1>1, <1>2, <2>1, <2>2, <2>3
       DEF GetPacket, Return, LastAfterPop, TypeOK
<1>5. NoNodeTwice'
  <2>1. \A i, j \in 1..(L - 1) : chain[i + 1] = chain[j + 1] => i + 1 = j + 1
    BY <1>0, <1>1 DEF ListWellFormed, NoNodeTwice
  <2> QED
    BY <1>1, <1>2, <2>1 DEF NoNodeTwice
<1>6. NoDroppedNode'
  BY <1>0, <1>1, <1>2 DEF GetPacket, ListWellFormed, NoDroppedNode
<1>7. EndsAgree'
  <2>1. CASE L = 1
    <3>1. chain' = <<>>
      BY <1>2, <2>1
    <3>2. mFirst' = NULL /\ mLast' = NULL
      BY <1>3, <2>1 DEF GetPacket, LastAfterPop
    <3> QED
      BY <3>1, <3>2 DEF EndsAgree
  <2>2. CASE L > 1
    <3>1. chain' # <<>> /\ chain'[1] = chain[2] /\ chain'[Len(chain')] = chain[L]
      BY <1>1, <1>2, <2>2
    <3>2. next[mFirst] = chain[2] /\ chain[2] # NULL
      BY <1>1, <1>3, <2>2
    <3>3. mFirst' = chain[2] /\ mLast' = chain[L]
      BY <1>1, <3>2 DEF GetPacket, LastAfterPop
    <3> QED
      BY <3>1, <3>3 DEF EndsAgree
  <2>3. L = 1 \/ L > 1
    <3>1. L > 0 /\ L \in Nat
      BY <1>1
    <3> HIDE DEF L
    <3> QED
      BY <3>1
  <2> QED
    BY <2>1, <2>2, <2>3
<1>8. LinksAgree'
  BY <1>0, <1>1, <1>2 DEF GetPacket, ListWellFormed, LinksAgree
<1>9. NodesHoldPackets'
  BY <1>0, <1>1, <1>2 DEF GetPacket, ListWellFormed, NodesHoldPackets
<1>10. Size' = Len(chain')
  BY <1>0, <1>1, <1>2 DEF GetPacket, Account, Size, ListWellFormed
<1> QED
  BY <1>4, <1>5, <1>6, <1>7, <1>8, <1>9, <1>10 DEF ListInv, ListWellFormed

LEMMA FlushListInv ==
    ASSUME ListInv, Flush
    PROVE  ListInv'
<1>1. TypeOK
  BY DEF ListInv
<1>2. leaked' \in SUBSET Nodes
  BY <1>1 DEF Flush, TypeOK
<1>3. TypeOK'
  BY <1>1, <1>2 DEF Flush, client, TypeOK
<1> QED
  BY <1>3 DEF Flush, ListInv, ListWellFormed, NoNodeTwice, NoDroppedNode,
              EndsAgree, LinksAgree, NodesHoldPackets, Size

(* The steps that leave the list alone. *)
LEMMA ClientListInv ==
    ASSUME ListInv, UNCHANGED list, TypeOK'
    PROVE  ListInv'
BY DEF ListInv, list, ListWellFormed, NoNodeTwice, NoDroppedNode,
       EndsAgree, LinksAgree, NodesHoldPackets, Size

LEMMA NextListInv == ListInv /\ [Next]_vars => ListInv'
<1> SUFFICES ASSUME ListInv, [Next]_vars
             PROVE  ListInv'
  OBVIOUS
<1>0. TypeOK
  BY DEF ListInv
<1>1. ASSUME NEW n \in Nodes, NEW p \in Packets, Put(n, p)
      PROVE  ListInv'
  BY <1>1, PutListInv
<1>2. ASSUME NEW c \in Consumers, NEW block \in BOOLEAN, Call(c, block)
      PROVE  ListInv'
  BY <1>0, <1>2, ClientListInv DEF Call, TypeOK, list
<1>3. ASSUME NEW c \in Consumers, GetAborted(c)
      PROVE  ListInv'
  BY <1>0, <1>3, ClientListInv DEF GetAborted, Return, TypeOK, list
<1>4. ASSUME NEW c \in Consumers, GetPacket(c)
      PROVE  ListInv'
  BY <1>4, GetPacketListInv
<1>5. ASSUME NEW c \in Consumers, GetEmpty(c)
      PROVE  ListInv'
  BY <1>0, <1>5, ClientListInv DEF GetEmpty, Return, TypeOK, list
<1>6. ASSUME NEW c \in Consumers, GetWait(c)
      PROVE  ListInv'
  BY <1>0, <1>6, ClientListInv DEF GetWait, TypeOK, list
<1>7. ASSUME NEW c \in Consumers, SpuriousWake(c)
      PROVE  ListInv'
  BY <1>0, <1>7, ClientListInv DEF SpuriousWake, TypeOK, list
<1>8. CASE Abort
  BY <1>0, <1>8, ClientListInv DEF Abort, Signal, Asleep, TypeOK, list
<1>9. CASE Flush
  BY <1>9, FlushListInv
<1>10. CASE UNCHANGED vars
  BY <1>0, <1>10, ClientListInv DEF vars, client, list, TypeOK
<1> QED
  BY <1>1, <1>2, <1>3, <1>4, <1>5, <1>6, <1>7, <1>8, <1>9, <1>10
     DEF Next, GetStep

(* The variables of PacketQueue keep their types in every behaviour. *)
THEOREM TypeCorrect == Spec => []TypeOK
<1>1. ListInv => TypeOK
  BY DEF ListInv
<1> QED
  BY InitListInv, NextListInv, <1>1, PTL DEF Spec

(* However puts, gets, aborts and flushes interleave, the pointers, the    *)
(* links and the count of packetqueue.cpp describe the packets waiting.    *)
THEOREM ListCorrect == Spec => []ListWellFormed
<1>1. ListInv => ListWellFormed
  BY DEF ListInv
<1> QED
  BY InitListInv, NextListInv, <1>1, PTL DEF Spec

-------------------------------------------------------------------------------
(* Wakeups.                                                                *)

(* What pthread_cond_signal does to the two sets of consumers. *)
LEMMA SignalEffect ==
    ASSUME TypeOK, Signal
    PROVE  \/ Asleep = {} /\ Asleep' = {}
           \/ \E c \in Asleep : /\ Asleep' = Asleep \ {c}
                                /\ Ready' = Ready \cup {c}
                                /\ c \notin Ready
BY DEF Signal, Asleep, Ready, TypeOK

LEMMA ReadyFinite == IsFiniteSet(Ready) /\ Cardinality(Ready) \in Nat
<1>1. Ready \in SUBSET Consumers
  BY DEF Ready
<1> QED
  BY <1>1, FiniteConsumers, FS_Subset, FS_CardinalityType

LEMMA InitNoLostWakeup == Init => NoLostWakeup
BY DEF Init, NoLostWakeup, Asleep

LEMMA NextNoLostWakeup ==
    ASSUME ListInv, ListInv', NoLostWakeup, [Next]_vars
    PROVE  NoLostWakeup'
<1>0. TypeOK /\ Len(chain) \in Nat
  BY DEF ListInv, TypeOK
<1>1. ASSUME NEW n \in Nodes, NEW p \in Packets, Put(n, p)
      PROVE  NoLostWakeup'
  <2>1. Len(chain') = Len(chain) + 1 /\ mAbortRequest' = mAbortRequest
    BY <1>0, <1>1 DEF Put, TypeOK
  <2>2. CASE Asleep' = {}
    BY <2>2 DEF NoLostWakeup
  <2>3. ASSUME NEW c \in Asleep, Ready' = Ready \cup {c}, c \notin Ready
        PROVE  NoLostWakeup'
    <3>1. Cardinality(Ready') = Cardinality(Ready) + 1
      BY <2>3, ReadyFinite, FS_AddElement
    <3> QED
      BY <1>0, <2>1, <2>3, <3>1, ReadyFinite DEF NoLostWakeup
  <2>4. Signal
    BY <1>1 DEF Put
  <2> QED
    BY <1>0, <2>2, <2>3, <2>4, SignalEffect
<1>2. ASSUME NEW c \in Consumers, Asleep' \subseteq Asleep,
             Ready' = Ready \cup {c},
             UNCHANGED <<chain, mAbortRequest>>
      PROVE  NoLostWakeup'
  <2>1. Cardinality(Ready') \in Nat /\ Cardinality(Ready') >= Cardinality(Ready)
    BY <1>2, ReadyFinite, FS_AddElement
  <2> QED
    BY <1>0, <1>2, <2>1, ReadyFinite DEF NoLostWakeup
<1>3. ASSUME NEW c \in Consumers, NEW block \in BOOLEAN, Call(c, block)
      PROVE  NoLostWakeup'
  <2>1. Asleep' = Asleep /\ Ready' = Ready \cup {c}
    BY <1>0, <1>3 DEF Call, Asleep, Ready, TypeOK
  <2> QED
    BY <1>2, <1>3, <2>1 DEF Call, list
<1>4. ASSUME NEW c \in Consumers, GetAborted(c)
      PROVE  NoLostWakeup'
  BY <1>4 DEF GetAborted, Return, NoLostWakeup
<1>5. ASSUME NEW c \in Consumers, GetPacket(c)
      PROVE  NoLostWakeup'
  <2>1. Asleep' = Asleep /\ Ready' = Ready \ {c} /\ c \in Ready
    BY <1>0, <1>5 DEF GetPacket, Return, Asleep, Ready, TypeOK
  <2>2. Cardinality(Ready') = Cardinality(Ready) - 1
    BY <2>1, ReadyFinite, FS_RemoveElement
  <2>3. chain # <<>>
    BY <1>5, NullAssumption DEF GetPacket, ListInv, ListWellFormed, EndsAgree
  <2>4. Len(chain') = Len(chain) - 1 /\ mAbortRequest' = mAbortRequest
    BY <1>0, <1>5, <2>3 DEF GetPacket, Return, TypeOK
  <2> QED
    BY <1>0, <2>1, <2>2, <2>4, ReadyFinite DEF NoLostWakeup
<1>6. ASSUME chain' = <<>>
      PROVE  NoLostWakeup'
  <2>1. Ready' \in SUBSET Consumers
    BY DEF Ready
  <2>2. Cardinality(Ready') \in Nat
    BY <2>1, FiniteConsumers, FS_Subset, FS_CardinalityType
  <2>3. Len(chain') = 0
    BY <1>6
  <2> QED
    BY <2>2, <2>3 DEF NoLostWakeup
<1>7. ASSUME mFirst = NULL, chain' = chain
      PROVE  NoLostWakeup'
  <2>1. chain = <<>>
    BY <1>0, <1>7, NullAssumption
       DEF ListInv, TypeOK, ListWellFormed, EndsAgree
  <2> QED
    BY <1>6, <1>7, <2>1
<1>8. ASSUME NEW c \in Consumers, GetEmpty(c) \/ GetWait(c)
      PROVE  NoLostWakeup'
  BY <1>7, <1>8 DEF GetEmpty, GetWait, list
<1>9. ASSUME NEW c \in Consumers, SpuriousWake(c)
      PROVE  NoLostWakeup'
  <2>1. Asleep' \subseteq Asleep /\ Ready' = Ready \cup {c}
    BY <1>0, <1>9 DEF SpuriousWake, Asleep, Ready, TypeOK
  <2> QED
    BY <1>2, <1>9, <2>1 DEF SpuriousWake, list
<1>10. CASE Abort
  BY <1>10 DEF Abort, NoLostWakeup
<1>11. CASE Flush
  BY <1>6, <1>11 DEF Flush
<1>12. CASE UNCHANGED vars
  BY <1>12 DEF vars, list, client, NoLostWakeup, Asleep, Ready
<1> QED
  BY <1>1, <1>3, <1>4, <1>5, <1>8, <1>9, <1>10, <1>11, <1>12
     DEF Next, GetStep

(* put() never leaves a packet in the list with every consumer asleep,     *)
(* for any number of consumers.                                            *)
THEOREM WakeupsKept == Spec => []NoLostWakeup
<1>1. Init => ListInv /\ NoLostWakeup
  BY InitListInv, InitNoLostWakeup
<1>2. (ListInv /\ NoLostWakeup) /\ [Next]_vars => (ListInv /\ NoLostWakeup)'
  BY NextListInv, NextNoLostWakeup
<1> QED
  BY <1>1, <1>2, PTL DEF Spec

-------------------------------------------------------------------------------
(* Abort.                                                                  *)

LEMMA SoleConsumer ==
    ASSUME Cardinality(Consumers) = 1
    PROVE  \A c, d \in Consumers : c = d
BY FiniteConsumers, FS_Singleton

LEMMA NextAbortWakesSole ==
    ASSUME TypeOK, AbortWakesSole, [Next]_vars
    PROVE  AbortWakesSole'
<1> SUFFICES ASSUME Cardinality(Consumers) = 1, mAbortRequest'
             PROVE  Asleep' = {}
  BY DEF AbortWakesSole
<1>1. ASSUME Signal
      PROVE  Asleep' = {}
  BY <1>1, SoleConsumer, SignalEffect DEF Asleep
<1>2. ASSUME mAbortRequest, Asleep' \subseteq Asleep
      PROVE  Asleep' = {}
  BY <1>2 DEF AbortWakesSole
<1>3. ASSUME NEW n \in Nodes, NEW p \in Packets, Put(n, p)
      PROVE  Asleep' = {}
  BY <1>1, <1>3 DEF Put
<1>4. ASSUME NEW c \in Consumers,
             \/ \E block \in BOOLEAN : Call(c, block)
             \/ GetAborted(c) \/ GetPacket(c) \/ GetEmpty(c)
             \/ SpuriousWake(c)
      PROVE  Asleep' = {}
  <2>1. Asleep' \subseteq Asleep
    BY <1>4 DEF Call, GetAborted, GetPacket, GetEmpty, SpuriousWake, Return,
                Asleep, TypeOK
  <2>2. mAbortRequest' = mAbortRequest
    BY <1>4 DEF Call, GetAborted, GetPacket, GetEmpty, SpuriousWake, Return
  <2> QED
    BY <1>2, <2>1, <2>2
<1>5. ASSUME NEW c \in Consumers, GetWait(c)
      PROVE  Asleep' = {}
  BY <1>5 DEF GetWait
<1>6. CASE Abort
  BY <1>1, <1>6 DEF Abort
<1>7. CASE Flush \/ UNCHANGED vars
  <2>1. Asleep' = Asleep /\ mAbortRequest' = mAbortRequest
    BY <1>7 DEF Flush, vars, client, Asleep
  <2> QED
    BY <1>2, <2>1
<1> QED
  BY <1>3, <1>4, <1>5, <1>6, <1>7 DEF Next, GetStep

(* The single signal of abort() reaches the only thread that can be        *)
(* sleeping in a queue with one consumer, and it cannot fall asleep again. *)
THEOREM AbortReachesSole == Spec => []AbortWakesSole
<1>1. Init => TypeOK /\ AbortWakesSole
  BY InitListInv DEF Init, ListInv, AbortWakesSole
<1>2. ListInv => TypeOK
  BY DEF ListInv
<1>3. TypeOK /\ AbortWakesSole /\ [Next]_vars => AbortWakesSole'
  BY NextAbortWakesSole
<1> QED
  BY <1>1, <1>2, <1>3, InitListInv, NextListInv, PTL DEF Spec

-------------------------------------------------------------------------------
(* Refinement.                                                             *)

WaitingOK ==
    /\ Waiting \in Seq(Packets)
    /\ Len(Waiting) = Len(chain)
    /\ \A i \in 1..Len(chain) : Waiting[i] = pkt[chain[i]]

LEMMA WaitingType == ListInv => WaitingOK
<1> SUFFICES ASSUME ListInv
             PROVE  WaitingOK
  OBVIOUS
<1>1. Len(chain) \in Nat
  BY DEF ListInv, TypeOK
<1>2. \A i \in 1..Len(chain) : pkt[chain[i]] \in Packets
  BY DEF ListInv, ListWellFormed, NodesHoldPackets
<1> QED
  BY <1>1, <1>2 DEF Waiting, WaitingOK

LEMMA PutRefines ==
    ASSUME ListInv, ListInv', NEW n \in Nodes, NEW p \in Packets, Put(n, p)
    PROVE  Fifo!Put(p)
<1>1. /\ Len(chain) \in Nat
      /\ Len(chain') = Len(chain) + 1
      /\ chain'[Len(chain) + 1] = n
      /\ \A i \in 1..Len(chain) :
            chain'[i] = chain[i] /\ chain[i] \in Nodes /\ chain[i] # n
  BY DEF Put, ListInv, TypeOK
<1>2. /\ pkt'[n] = p
      /\ \A m \in Nodes : m # n => pkt'[m] = pkt[m]
  BY DEF Put, ListInv, TypeOK
<1>3. WaitingOK /\ WaitingOK'
  BY WaitingType, PTL
<1>4. Waiting' = Append(Waiting, p)
  BY <1>1, <1>2, <1>3 DEF WaitingOK
<1>5. Pending' = Pending
  BY DEF Put, Signal, Asleep, Pending, ListInv, TypeOK
<1> QED
  BY <1>4, <1>5 DEF Put, Fifo!Put

LEMMA GetPacketRefines ==
    ASSUME ListInv, ListInv', NEW c \in Consumers, GetPacket(c)
    PROVE  Fifo!Take(c)
<1>1. /\ chain # <<>> /\ Len(chain) \in Nat /\ Len(chain) > 0
      /\ mFirst = chain[1]
  BY NullAssumption
     DEF GetPacket, ListInv, TypeOK, ListWellFormed, EndsAgree
<1>2. /\ Len(chain') = Len(chain) - 1
      /\ \A i \in 1..(Len(chain) - 1) : chain'[i] = chain[i + 1]
      /\ pkt' = pkt
  BY <1>1 DEF GetPacket, ListInv, TypeOK
<1>3. WaitingOK /\ WaitingOK'
  BY WaitingType, PTL
<1>4. /\ Waiting # <<>>
      /\ Head(Waiting) = pkt[mFirst]
      /\ Waiting' = Tail(Waiting)
  BY <1>1, <1>2, <1>3 DEF WaitingOK
<1>5. /\ Pending[c] # "no"
      /\ Pending' = [Pending EXCEPT ![c] = "no"]
  BY DEF GetPacket, Return, Pending, ListInv, TypeOK
<1> QED
  BY <1>4, <1>5 DEF GetPacket, Return, Fifo!Take, Fifo!Return

LEMMA WaitingKept ==
    ASSUME UNCHANGED <<chain, pkt>>
    PROVE  Waiting' = Waiting
BY DEF Waiting

LEMMA EmptyWaiting ==
    ASSUME ListInv, mFirst = NULL
    PROVE  Waiting = <<>>
<1>1. chain = <<>> /\ Len(chain) = 0
  BY NullAssumption DEF ListInv, TypeOK, ListWellFormed, EndsAgree
<1> QED
  BY <1>1 DEF Waiting

LEMMA FlushRefines ==
    ASSUME ListInv, Flush
    PROVE  Fifo!Flush
<1>1. chain' = <<>> /\ Len(chain') = 0
  BY DEF Flush
<1>2. Waiting' = <<>>
  BY <1>1 DEF Waiting
<1>3. Pending' = Pending
  BY DEF Flush, client, Pending
<1> QED
  BY <1>2, <1>3 DEF Flush, client, Fifo!Flush

LEMMA StepRefines ==
    ListInv /\ ListInv' /\ [Next]_vars => [Fifo!Next]_(Fifo!vars)
<1> SUFFICES ASSUME ListInv, ListInv', [Next]_vars
             PROVE  Fifo!Next \/ UNCHANGED Fifo!vars
  OBVIOUS
<1>0. TypeOK
  BY DEF ListInv
<1>1. ASSUME NEW n \in Nodes, NEW p \in Packets, Put(n, p)
      PROVE  Fifo!Next
  BY <1>1, PutRefines DEF Fifo!Next
<1>2. ASSUME NEW c \in Consumers, NEW block \in BOOLEAN, Call(c, block)
      PROVE  Fifo!Next
  <2>1. /\ Pending[c] = "no"
        /\ Pending' = [Pending EXCEPT ![c] = IF block THEN "block" ELSE "poll"]
    BY <1>0, <1>2 DEF Call, Pending, TypeOK
  <2>2. Fifo!Call(c, block)
    BY <1>2, <2>1, WaitingKept DEF Call, list, Fifo!Call
  <2> QED
    BY <2>2 DEF Fifo!Next
<1>3. ASSUME NEW c \in Consumers, NEW r, Return(c, r)
      PROVE  Fifo!Return(c, r)
  <2>1. Pending[c] # "no" /\ Pending' = [Pending EXCEPT ![c] = "no"]
    BY <1>0, <1>3 DEF Return, Pending, TypeOK
  <2> QED
    BY <1>3, <2>1 DEF Return, Fifo!Return
<1>4. ASSUME NEW c \in Consumers, GetAborted(c)
      PROVE  Fifo!Next
  <2>1. Fifo!Refuse(c)
    BY <1>3, <1>4, WaitingKept DEF GetAborted, Return, list, Fifo!Refuse
  <2> QED
    BY <2>1 DEF Fifo!Next, Fifo!Answer
<1>5. ASSUME NEW c \in Consumers, GetPacket(c)
      PROVE  Fifo!Next
  BY <1>5, GetPacketRefines DEF Fifo!Next, Fifo!Answer
<1>6. ASSUME NEW c \in Consumers, GetEmpty(c)
      PROVE  Fifo!Next
  <2>1. Pending[c] = "poll"
    BY <1>0, <1>6 DEF GetEmpty, Return, Pending, TypeOK
  <2>2. Fifo!Miss(c)
    BY <1>3, <1>6, <2>1, WaitingKept, EmptyWaiting
       DEF GetEmpty, Return, list, Fifo!Miss
  <2> QED
    BY <2>2 DEF Fifo!Next, Fifo!Answer
<1>7. ASSUME NEW c \in Consumers, GetWait(c) \/ SpuriousWake(c)
      PROVE  UNCHANGED Fifo!vars
  <2>1. Pending' = Pending
    BY <1>0, <1>7 DEF GetWait, SpuriousWake, Pending, TypeOK
  <2> QED
    BY <1>7, <2>1, WaitingKept DEF GetWait, SpuriousWake, list, Fifo!vars
<1>8. CASE Abort
  <2>1. Pending' = Pending
    BY <1>0, <1>8 DEF Abort, Signal, Asleep, Pending, TypeOK
  <2>2. Fifo!Abort
    BY <1>8, <2>1, WaitingKept DEF Abort, list, Fifo!Abort
  <2> QED
    BY <2>2 DEF Fifo!Next
<1>9. CASE Flush
  BY <1>9, FlushRefines DEF Fifo!Next
<1>10. CASE UNCHANGED vars
  <2>1. Pending' = Pending
    BY <1>10 DEF vars, client, Pending
  <2> QED
    BY <1>10, <2>1, WaitingKept DEF vars, list, client, Fifo!vars
<1> QED
  BY <1>1, <1>2, <1>4, <1>5, <1>6, <1>7, <1>8, <1>9, <1>10
     DEF Next, GetStep

LEMMA InitRefines == Init => Fifo!Init
<1> SUFFICES ASSUME Init
             PROVE  Fifo!Init
  OBVIOUS
<1>1. Waiting = <<>>
  BY EmptyWaiting, InitListInv DEF Init
<1>2. Pending = [c \in Consumers |-> "no"]
  BY DEF Init, Pending
<1> QED
  BY <1>1, <1>2 DEF Init, Fifo!Init

(* The linked list, its pointers and its condition variable implement the  *)
(* FIFO of PacketFifo: packets leave in the order they entered, a get()    *)
(* returns 1 only with the oldest packet, 0 only when it does not block    *)
(* and finds nothing, -1 only after abort().                               *)
THEOREM FifoImplemented == Spec => ImplementsFifo
<1>1. Spec => []ListInv
  BY InitListInv, NextListInv, PTL DEF Spec
<1> QED
  BY <1>1, InitRefines, StepRefines, PTL DEF Spec, ImplementsFifo, Fifo!Spec
===============================================================================
