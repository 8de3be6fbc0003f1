------------------------------- MODULE EchoPath -------------------------------
(***************************************************************************)
(* What happens to a frame the event loop hands to StackManager's          *)
(* process_incoming_packet(), and how an ICMP echo request is made and     *)
(* answered (src/ip/icmp_packet.cpp).  Every host on the wire runs this    *)
(* stack; a standard host and the wire itself, which repeats and reorders  *)
(* frames, are external.  Only well-formed frames are on the wire: their   *)
(* header length is within the frame.                                      *)
(***************************************************************************)
EXTENDS Checksums, FiniteSets

CONSTANTS
    Host,         \* IP addresses
    Ids,          \* identifier and sequence number, as the word sent
    Payloads,     \* payloads of a standard host's requests
    Standard,     \* whether a standard host sends requests
    MaxFrames     \* bound on the frames sent

ASSUME EchoAssumption ==
    /\ Ids \subseteq 0..W-1 /\ B > 8 /\ Standard \in BOOLEAN
    /\ MaxFrames \in Nat

IPHeaderLen == 20
ICMPHeaderLen == 8
EchoRequest == 8
EchoReply == 0

VARIABLES
    ping,       \* an ICMPPacket object, used for request after request
    wire,       \* frames that have been sent
    handled     \* [host, frame]: what has been processed where

echovars == <<ping, wire, handled>>

\* type, code and checksum as the object holds them; code is always 0.
ICMP(type, sum, id, payload) ==
    [type |-> type, checksum |-> sum, id |-> id, payload |-> payload]

New == ICMP(0, 0, 0, <<>>)

\* A frame: an IP header and its payload, or an ICMP packet on its own.
Protocol == {"ICMP", "TCP", "UDP", "other"}
NoAddress == "none"
Frame(src, dst, protocol, icmp) ==
    [bare |-> FALSE, src |-> src, dst |-> dst, protocol |-> protocol, icmp |-> icmp]
Bare(icmp) ==
    [bare |-> TRUE, src |-> NoAddress, dst |-> NoAddress, protocol |-> "other",
     icmp |-> icmp]
Size(f) ==
    (IF f.bare THEN 0 ELSE IPHeaderLen) + ICMPHeaderLen + Len(f.icmp.payload)

EchoInit ==
    /\ ping = New
    /\ wire = {}
    /\ handled = {}

-----------------------------------------------------------------------------
(* ICMPPacket                                                              *)

\* calculate_checksum(): the header alone, its checksum field included.  The
\* low byte of the first word is the type.
Calculate(type, sum, id) == Complement(Swap(type) + Swap(sum) + Swap(id))

\* The checksum is calculated over what the field held before.
CreateEchoRequest(p, id) ==
    ICMP(EchoRequest, Calculate(EchoRequest, p.checksum, Swap(id)), Swap(id), p.payload)

CreateEchoReply(request) ==
    ICMP(EchoReply, Calculate(EchoReply, 0, request.id), request.id, request.payload)

\* parse() accepts
Accepts(p) == p.checksum = Calculate(p.type, 0, p.id)

-----------------------------------------------------------------------------
(* Sending                                                                 *)

\* send_packet(ping.serialize()): the ICMP packet goes out without an IP header.
SendPing(id) ==
    /\ Cardinality(wire) < MaxFrames
    /\ ping' = CreateEchoRequest(ping, id)
    /\ wire' = wire \cup {Bare(ping')}
    /\ UNCHANGED handled

\* A program that uses the class on a new object and writes the IP header
\* itself (external).
SendRouted(src, dst, id) ==
    /\ src # dst /\ Cardinality(wire) < MaxFrames
    /\ wire' = wire \cup
          {Frame(src, dst, "ICMP", CreateEchoRequest(New, id))}
    /\ UNCHANGED <<ping, handled>>

\* The checksum of RFC 1071, over header and payload, in network order.
Internet(type, id, payload) ==
    Swap(Complement(Swap(type) + Swap(id) + PayloadSum(payload)))

\* A standard host's request, or a frame of another protocol (external).
SendStandard(src, dst, protocol, id, payload) ==
    /\ Standard /\ src # dst /\ Cardinality(wire) < MaxFrames
    /\ wire' = wire \cup
          {Frame(src, dst, protocol,
                 ICMP(EchoRequest, Internet(EchoRequest, id, payload), id, payload))}
    /\ UNCHANGED <<ping, handled>>

-----------------------------------------------------------------------------
(* process_incoming_packet()                                               *)

\* Faulty variant: every ICMP packet that parses is answered.
AnswersAll(f) == Size(f) >= IPHeaderLen /\ f.protocol = "ICMP" /\ Accepts(f.icmp)

\* Too small, another protocol, an ICMP packet that does not parse or is not
\* a request: none is answered.
Answers(f) ==
    /\ Size(f) >= IPHeaderLen
    /\ f.protocol = "ICMP"
    /\ Accepts(f.icmp)
    /\ f.icmp.type = EchoRequest

\* Faulty variant: the addresses stay as they are.
ReplyUnswapped(f) == Frame(f.src, f.dst, f.protocol, CreateEchoReply(f.icmp))

\* The request's IP header with the addresses changed over.
Reply(f) == Frame(f.dst, f.src, f.protocol, CreateEchoReply(f.icmp))

\* The destination address is not looked at: every host on the wire that is
\* not the sender receives the frame and processes it.
Process(h, f) ==
    /\ f \in wire /\ f.src # h
    /\ wire' = IF Answers(f) THEN wire \cup {Reply(f)} ELSE wire
    /\ handled' = handled \cup {[host |-> h, frame |-> f]}
    /\ UNCHANGED ping

-----------------------------------------------------------------------------
EchoNext ==
    \/ \E id \in Ids : SendPing(id)
    \/ \E s, d \in Host, id \in Ids :
          \/ SendRouted(s, d, id)
          \/ \E q \in Protocol, p \in Payloads : SendStandard(s, d, q, id, p)
    \/ \E h \in Host : \E f \in wire : Process(h, f)

EchoSpec == EchoInit /\ [][EchoNext]_echovars

-----------------------------------------------------------------------------
(* Properties                                                              *)

\* A request another program built with the same class, and that some host
\* has processed.
Request(f) == [host |-> f.dst, frame |-> f] \in handled /\ f.icmp.type = EchoRequest

\* The answer a request should get.
AnswerTo(f, r) ==
    /\ r.src = f.dst /\ r.dst = f.src
    /\ r.icmp.type = EchoReply /\ r.icmp.id = f.icmp.id
    /\ r.icmp.payload = f.icmp.payload
    /\ Accepts(r.icmp)

\* A request built with create_echo_request() on a new object is answered
\* from the address it was sent to, with its own identifier, and the answer
\* passes the asker's own parse().
OwnRequestsAnswered ==
    \A f \in wire :
        (Request(f) /\ f.icmp = CreateEchoRequest(New, Swap(f.icmp.id)) /\ f.protocol = "ICMP")
            => \E r \in wire : AnswerTo(f, r)

\* Two stacks never answer each other's answers: every reply on the wire is
\* the answer to a request on the wire.
RepliesAnswerRequests ==
    \A r \in wire : r.icmp.type = EchoReply =>
        \E f \in wire : f.icmp.type = EchoRequest /\ AnswerTo(f, r)
===============================================================================
