------------------------------ MODULE PacketCodecs ------------------------------
(***************************************************************************)
(* A program that uses one of the two packet classes.  They share no       *)
(* state, so using both would add no behaviour.                            *)
(***************************************************************************)
EXTENDS TCPPacket, UDPPacket

CodecsInit == Init /\ UDPInit

CodecsNext ==
    \/ udp = NewPacket /\ ~content.made /\ Next /\ UNCHANGED udpvars
    \/ rcv = Fresh /\ ~origin.sent /\ UDPNext /\ UNCHANGED vars

CodecsSpec == CodecsInit /\ [][CodecsNext]_<<vars, udpvars>>
=================================================================================
