------------------------------ MODULE PacketQueue ------------------------------
(***************************************************************************)
(* The packet queue between the demuxing thread and a decoder              *)
(* (jni/src/packetqueue.cpp): a singly linked list of malloc'ed nodes      *)
(* under a mutex, with one condition variable on which get() sleeps.       *)
(*                                                                         *)
(* A critical section is one step.  A call of get() is split where it      *)
(* releases the mutex: between the call and its first look at the list,    *)
(* and in pthread_cond_wait.  put(), when av_dup_packet or av_malloc fails,*)
(* returns -1 before it takes the lock and changes nothing: that outcome   *)
(* is a stuttering step here.                                              *)
(***************************************************************************)
EXTENDS Integers, Sequences, FiniteSets

CONSTANTS Nodes,      \* addresses av_malloc can return for a list node
          Packets,    \* packets the demuxer may enqueue
          Consumers,  \* threads that may call get()
          NULL,       \* the null pointer, and the content of *pkt before a get()
          PktSize,    \* PktSize[p]: the payload bytes of packet p
          HdrSize     \* sizeof(AVPacketList)

ASSUME FiniteConsumers == IsFiniteSet(Consumers)
ASSUME NullAssumption == NULL \notin Nodes \cup Packets
ASSUME SizeAssumption == PktSize \in [Packets -> Nat] /\ HdrSize \in Nat \ {0}

VARIABLES mFirst, mLast, mNbPackets, mSize, mAbortRequest,
          next,    \* next[n]: the link stored in node n
          pkt,     \* pkt[n]: the packet stored in node n
          pc,      \* where each consumer is in get()
          blk,     \* the argument "block" of its current or last call
          ret,     \* what its last finished get() returned
          out,     \* the packet its last successful get() copied to *pkt
          chain,   \* ghost: the allocated nodes, in the order of their put()
          leaked   \* ghost: nodes a flush() dropped without freeing them

list   == <<mFirst, mLast, mNbPackets, mSize, next, pkt, chain, leaked>>
client == <<pc, blk, ret, out>>
vars   == <<list, mAbortRequest, client>>

Asleep == {c \in Consumers : pc[c] = "asleep"}   \* in pthread_cond_wait
Ready  == {c \in Consumers : pc[c] = "ready"}    \* about to (re)take the mutex

Cost(p) == PktSize[p] + HdrSize

Init ==
    /\ mFirst = NULL
    /\ mLast = NULL
    /\ mNbPackets = 0
    /\ mSize = 0
    /\ mAbortRequest = FALSE
    /\ next = [n \in Nodes |-> NULL]
    /\ pkt = [n \in Nodes |-> NULL]
    /\ pc = [c \in Consumers |-> "idle"]
    /\ blk = [c \in Consumers |-> FALSE]
    /\ ret = [c \in Consumers |-> 0]
    /\ out = [c \in Consumers |-> NULL]
    /\ chain = <<>>
    /\ leaked = {}

-------------------------------------------------------------------------------
Size == mNbPackets

\* Mutant: the signal is forgotten.
Signal_Lost == pc' = pc

(* pthread_cond_signal: some sleeper, if there is one, has to compete for  *)
(* the mutex again.                                                        *)
Signal ==
    IF Asleep = {}
    THEN pc' = pc
    ELSE \E c \in Asleep : pc' = [pc EXCEPT ![c] = "ready"]

(* The links once node n, holding NULL, is appended: mLast->next = n.      *)
Link(n) ==
    IF mLast = NULL THEN [next EXCEPT ![n] = NULL]
                    ELSE [next EXCEPT ![n] = NULL, ![mLast] = n]

\* Mutant: put() does not count the packet.
Account_NoCount(d, p) ==
    /\ mNbPackets' = IF d = 1 THEN mNbPackets ELSE mNbPackets + d
    /\ mSize' = mSize + d * Cost(p)

(* Packet p enters (d = 1) or leaves (d = -1) the list. *)
Account(d, p) ==
    /\ mNbPackets' = mNbPackets + d
    /\ mSize' = mSize + d * Cost(p)

Put(n, p) ==
    /\ n \notin leaked
    /\ \A i \in 1..Len(chain) : chain[i] # n
    /\ pkt' = [pkt EXCEPT ![n] = p]
    /\ next' = Link(n)
    /\ mFirst' = IF mLast = NULL THEN n ELSE mFirst
    /\ mLast' = n
    /\ Account(1, p)
    /\ chain' = Append(chain, n)
    /\ Signal
    /\ UNCHANGED <<leaked, mAbortRequest, blk, ret, out>>

-------------------------------------------------------------------------------
Call(c, block) ==
    /\ pc[c] = "idle"
    /\ pc' = [pc EXCEPT ![c] = "ready"]
    /\ blk' = [blk EXCEPT ![c] = block]
    /\ UNCHANGED <<list, mAbortRequest, ret, out>>

Return(c, r) ==
    /\ pc[c] = "ready"
    /\ pc' = [pc EXCEPT ![c] = "idle"]
    /\ ret' = [ret EXCEPT ![c] = r]
    /\ UNCHANGED <<mAbortRequest, blk>>

GetAborted(c) ==
    /\ mAbortRequest
    /\ Return(c, -1)
    /\ UNCHANGED <<list, out>>

\* Mutant: mLast keeps pointing at the freed node of an emptied list.
LastAfterPop_Stale(rest) == mLast

LastAfterPop(rest) == IF rest = NULL THEN NULL ELSE mLast

GetPacket(c) ==
    /\ ~mAbortRequest
    /\ mFirst # NULL
    /\ Return(c, 1)
    /\ mFirst' = next[mFirst]
    /\ mLast' = LastAfterPop(next[mFirst])
    /\ Account(-1, pkt[mFirst])
    /\ out' = [out EXCEPT ![c] = pkt[mFirst]]
    /\ chain' = Tail(chain)
    /\ UNCHANGED <<next, pkt, leaked>>

GetEmpty(c) ==
    /\ ~mAbortRequest
    /\ mFirst = NULL
    /\ ~blk[c]
    /\ Return(c, 0)
    /\ UNCHANGED <<list, out>>

GetWait(c) ==
    /\ ~mAbortRequest
    /\ mFirst = NULL
    /\ blk[c]
    /\ pc[c] = "ready"
    /\ pc' = [pc EXCEPT ![c] = "asleep"]
    /\ UNCHANGED <<list, mAbortRequest, blk, ret, out>>

(* POSIX allows pthread_cond_wait to return without a signal. *)
SpuriousWake(c) ==
    /\ pc[c] = "asleep"
    /\ pc' = [pc EXCEPT ![c] = "ready"]
    /\ UNCHANGED <<list, mAbortRequest, blk, ret, out>>

-------------------------------------------------------------------------------
\* Mutant: the flag is set, nobody is told.
Abort_Silent ==
    /\ mAbortRequest' = TRUE
    /\ UNCHANGED <<list, client>>

Abort ==
    /\ mAbortRequest' = TRUE
    /\ Signal
    /\ UNCHANGED <<list, blk, ret, out>>

(* flush() reads pkt->next of the node it has just freed.  The memory may  *)
(* still hold the link, or hold NULL: then the loop ends early, after k    *)
(* nodes, and the others are lost.  The header fields are reset either way.*)
Flush ==
    /\ \E k \in 0..Len(chain) :
          /\ chain # <<>> => k > 0
          /\ leaked' = leaked \cup {chain[i] : i \in (k + 1)..Len(chain)}
    /\ mFirst' = NULL
    /\ mLast' = NULL
    /\ mNbPackets' = 0
    /\ mSize' = 0
    /\ chain' = <<>>
    /\ UNCHANGED <<next, pkt, mAbortRequest, client>>

GetStep(c) == GetAborted(c) \/ GetPacket(c) \/ GetEmpty(c) \/ GetWait(c)

Next ==
    \/ \E n \in Nodes, p \in Packets : Put(n, p)
    \/ \E c \in Consumers :
          \/ \E block \in BOOLEAN : Call(c, block)
          \/ GetStep(c)
          \/ SpuriousWake(c)
    \/ Abort
    \/ Flush

Spec == Init /\ [][Next]_vars

(* A consumer that is not asleep eventually gets the mutex. *)
FairSpec == Spec /\ \A c \in Consumers : WF_vars(GetStep(c))

-------------------------------------------------------------------------------
TypeOK ==
    /\ mFirst \in Nodes \cup {NULL}
    /\ mLast \in Nodes \cup {NULL}
    /\ mNbPackets \in Nat
    /\ mSize \in Int
    /\ mAbortRequest \in BOOLEAN
    /\ next \in [Nodes -> Nodes \cup {NULL}]
    /\ pkt \in [Nodes -> Packets \cup {NULL}]
    /\ pc \in [Consumers -> {"idle", "ready", "asleep"}]
    /\ blk \in [Consumers -> BOOLEAN]
    /\ ret \in [Consumers -> {-1, 0, 1}]
    /\ out \in [Consumers -> Packets \cup {NULL}]
    /\ chain \in Seq(Nodes)
    /\ leaked \in SUBSET Nodes

(* The pointers describe exactly the nodes put and not yet taken, in the   *)
(* order they were put: following next from mFirst visits them all, ends   *)
(* at mLast in NULL, meets no node twice and none that was dropped, and    *)
(* size() counts them.                                                     *)
NoNodeTwice ==
    \A i, j \in 1..Len(chain) : chain[i] = chain[j] => i = j
NoDroppedNode ==
    \A i \in 1..Len(chain) : chain[i] \notin leaked
EndsAgree ==
    IF chain = <<>>
    THEN mFirst = NULL /\ mLast = NULL
    ELSE mFirst = chain[1] /\ mLast = chain[Len(chain)]
LinksAgree ==
    \A i \in 1..Len(chain) :
        next[chain[i]] = IF i = Len(chain) THEN NULL ELSE chain[i + 1]
NodesHoldPackets ==
    \A i \in 1..Len(chain) : pkt[chain[i]] \in Packets

ListWellFormed ==
    /\ NoNodeTwice
    /\ NoDroppedNode
    /\ EndsAgree
    /\ LinksAgree
    /\ NodesHoldPackets
    /\ Size = Len(chain)

(* put() signals once per packet: while a consumer sleeps, every packet in *)
(* the list has an awake consumer on its way to the mutex, so none is      *)
(* stranded (put() 84, the loop of get() 95-118).                          *)
NoLostWakeup ==
    ~mAbortRequest /\ Asleep # {} => Len(chain) <= Cardinality(Ready)

(* With the single consumer every queue of the player has, the one signal  *)
(* of abort() is enough: nobody sleeps in get() on an aborted queue.       *)
AbortWakesSole ==
    Cardinality(Consumers) = 1 /\ mAbortRequest => Asleep = {}

-------------------------------------------------------------------------------
(* The promise: PacketFifo, its fifo read off the list's nodes.            *)
Waiting == [i \in 1..Len(chain) |-> pkt[chain[i]]]

Pending == [c \in Consumers |->
    IF pc[c] = "idle" THEN "no" ELSE IF blk[c] THEN "block" ELSE "poll"]

Fifo == INSTANCE PacketFifo
            WITH NoPacket <- NULL, fifo <- Waiting,
                 aborted <- mAbortRequest, pending <- Pending

(* Every step of the list is a step of the FIFO, or none of its business. *)
ImplementsFifo == Fifo!Spec

(* With a sole consumer a call is answered as soon as the FIFO could: a    *)
(* waiting packet or an abort ends every get().                            *)
ImplementsFairFifo == Fifo!FairSpec
===============================================================================
