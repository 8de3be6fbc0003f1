------------------------------- MODULE UDPPacket -------------------------------
(***************************************************************************)
(* src/udp/udp_packet.cpp: one packet object that is filled in, serialized *)
(* and used again to parse what comes, its own datagrams and those of a    *)
(* standard host.  verify_checksum() accepts everything.  A frame shorter  *)
(* than the header is refused before anything changes.                     *)
(***************************************************************************)
EXTENDS Checksums

CONSTANTS
    Ports,        \* ports given to the setters
    Datagrams     \* payloads given to set_payload()

UDPHeaderLen == 8

ASSUME DatagramAssumption ==
    /\ Ports \subseteq 0..W-1 /\ UDPHeaderLen < W
    /\ Datagrams \subseteq Seq(0..B-1)

VARIABLES
    udp,          \* the object
    datagram,     \* the datagram on the wire, as the host reads its words
    content       \* what it was made of; parsed: udp is as parse() left it

udpvars == <<udp, datagram, content>>

Datagram(source, dest, length, checksum, payload) ==
    [source_port |-> source, dest_port |-> dest, length |-> length,
     checksum |-> checksum, payload |-> payload]

NewPacket == Datagram(0, 0, 0, 0, <<>>)

Content(made, packet) == [made |-> made, parsed |-> FALSE, packet |-> packet]

UDPInit == udp = NewPacket /\ datagram = NewPacket /\ content = Content(FALSE, NewPacket)

\* set_source_port(), set_dest_port(), set_payload(): length stays as it is.
Set(source, dest, payload) ==
    /\ udp' = Datagram(source, dest, udp.length, udp.checksum, payload)
    /\ content' = Content(content.made, content.packet)
    /\ UNCHANGED datagram

\* calculate_checksum(): the ports and the length the object holds, which is
\* that of the datagram it parsed last or 0, and the payload.
UDPChecksum(p) ==
    Complement((p.source_port * W + p.dest_port + p.length + PayloadSum(p.payload))
                 % (W * W))

\* Faulty variant: the length the object holds is sent.
LengthHeld(p) == p.length

LengthSent(p) == (UDPHeaderLen + Len(p.payload)) % W

\* serialize(): the checksum is not converted.
SerializeUDP ==
    /\ datagram' = Datagram(Swap(udp.source_port), Swap(udp.dest_port),
                            Swap(LengthSent(udp)), UDPChecksum(udp), udp.payload)
    /\ content' = Content(TRUE, udp)
    /\ UNCHANGED udp

\* A standard host's datagram (external).
StandardDatagram(source, dest, payload) ==
    /\ datagram' = Datagram(Swap(source), Swap(dest),
                            Swap(UDPHeaderLen + Len(payload)), 0, payload)
    /\ content' = Content(TRUE, Datagram(source, dest, 0, 0, payload))
    /\ UNCHANGED udp

\* parse(): the payload is what follows the header, whatever length says.
ParseUDP ==
    /\ content.made
    /\ udp' = Datagram(Swap(datagram.source_port), Swap(datagram.dest_port),
                       Swap(datagram.length), datagram.checksum, datagram.payload)
    /\ content' = [content EXCEPT !.parsed = TRUE]
    /\ UNCHANGED datagram

UDPNext ==
    \/ SerializeUDP \/ ParseUDP
    \/ \E s, d \in Ports, p \in Datagrams : Set(s, d, p) \/ StandardDatagram(s, d, p)

-----------------------------------------------------------------------------
(* Properties                                                              *)

\* However the object was used before, what it parses are the ports and the
\* payload the datagram was made of, and a length that is that payload's, not
\* one left over from another datagram.
DatagramSurvives ==
    content.parsed =>
        /\ udp.source_port = content.packet.source_port
        /\ udp.dest_port = content.packet.dest_port
        /\ udp.payload = content.packet.payload
        /\ udp.length = UDPHeaderLen + Len(content.packet.payload)
================================================================================
