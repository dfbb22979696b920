------------------------------ MODULE PacketFifo ------------------------------
(***************************************************************************)
(* What a packet queue promises its clients, with the linked list, the     *)
(* mutex and the condition variable of jni/src/packetqueue.cpp abstracted  *)
(* away: a FIFO of packets, an abort flag, and for every consumer the call *)
(* of get() it may be inside.  Module PacketQueue implements it.           *)
(***************************************************************************)
EXTENDS Integers, Sequences

CONSTANTS Packets,    \* the packets the demuxer may enqueue
          Consumers,  \* the threads that may call get()
          NoPacket    \* the content of *pkt before any get() filled it

VARIABLES fifo,     \* the packets waiting, oldest first
          aborted,  \* abort() has been called
          pending,  \* the call of get() each consumer is inside
          ret,      \* what the last finished get() returned to it
          out       \* the packet the last successful get() handed it

vars == <<fifo, aborted, pending, ret, out>>

Init ==
    /\ fifo = <<>>
    /\ aborted = FALSE
    /\ pending = [c \in Consumers |-> "no"]
    /\ ret = [c \in Consumers |-> 0]
    /\ out = [c \in Consumers |-> NoPacket]

Put(p) ==
    /\ fifo' = Append(fifo, p)
    /\ UNCHANGED <<aborted, pending, ret, out>>

Call(c, block) ==
    /\ pending[c] = "no"
    /\ pending' = [pending EXCEPT ![c] = IF block THEN "block" ELSE "poll"]
    /\ UNCHANGED <<fifo, aborted, ret, out>>

Return(c, r) ==
    /\ pending[c] # "no"
    /\ pending' = [pending EXCEPT ![c] = "no"]
    /\ ret' = [ret EXCEPT ![c] = r]

(* An aborted queue answers every call with -1, packets waiting or not. *)
Refuse(c) ==
    /\ aborted
    /\ Return(c, -1)
    /\ UNCHANGED <<fifo, aborted, out>>

(* A call that finds a packet gets the oldest one. *)
Take(c) ==
    /\ ~aborted
    /\ fifo # <<>>
    /\ Return(c, 1)
    /\ fifo' = Tail(fifo)
    /\ out' = [out EXCEPT ![c] = Head(fifo)]
    /\ UNCHANGED aborted

(* Only a non-blocking call may return without a packet. *)
Miss(c) ==
    /\ ~aborted
    /\ fifo = <<>>
    /\ pending[c] = "poll"
    /\ Return(c, 0)
    /\ UNCHANGED <<fifo, aborted, out>>

Abort ==
    /\ aborted' = TRUE
    /\ UNCHANGED <<fifo, pending, ret, out>>

Flush ==
    /\ fifo' = <<>>
    /\ UNCHANGED <<aborted, pending, ret, out>>

Answer(c) == Refuse(c) \/ Take(c) \/ Miss(c)

Next ==
    \/ \E p \in Packets : Put(p)
    \/ \E c \in Consumers :
          \/ \E block \in BOOLEAN : Call(c, block)
          \/ Answer(c)
    \/ Abort
    \/ Flush

Spec == Init /\ [][Next]_vars

(* A call that can be answered is answered. *)
FairSpec == Spec /\ \A c \in Consumers : WF_vars(Answer(c))
===============================================================================
