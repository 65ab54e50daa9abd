------------------------------ MODULE MCPacket ------------------------------
(* Instances of Packet, see the .cfg files. *)
EXTENDS Packet
=============================================================================
