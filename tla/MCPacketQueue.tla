---------------------------- MODULE MCPacketQueue ----------------------------
(* Instances of PacketQueue for TLC. *)
EXTENDS PacketQueue, TLC

CONSTANTS p1, p2

(* Two packets of different sizes. *)
MCPktSize == p1 :> 1 @@ p2 :> 3
===============================================================================
