------------------------------- MODULE TCPPacket -------------------------------
(***************************************************************************)
(* src/tcp/tcp_packet.cpp: a frame on the wire, one packet object that     *)
(* parses frame after frame, and the objects that are filled in and        *)
(* serialized: new ones, or that same one, which then still holds the      *)
(* checksum of the frame it parsed last.                                   *)
(* The header's fields that are converted to network order stand together  *)
(* as one word.  The word of the data offset and the flags is not          *)
(* converted: word is what the host reads, its high byte standing for the  *)
(* four bits the code takes for the offset, its low one for the flags.     *)
(***************************************************************************)
EXTENDS Checksums

CONSTANTS
    HeaderLen,    \* sizeof(TCPHeader), 20
    Fields,       \* words the converted fields take
    Flags,        \* flag values given to set_flags()
    Payloads,     \* payloads given to set_payload()
    Noise,        \* values a damaged byte may take
    Options,      \* [mss, scale, timestamps]: whether each option is set
    Foreign       \* checksums of a standard TCP's segments; {} when it sends none

ASSUME PacketAssumption ==
    /\ HeaderLen \in Nat \ {0} /\ HeaderLen % 4 = 0
    /\ Fields \subseteq 0..W-1 /\ Flags \subseteq 0..B-1
    /\ Payloads \subseteq Seq(0..B-1)
    /\ Options \subseteq [mss : BOOLEAN, scale : BOOLEAN, timestamps : BOOLEAN]
    /\ Noise \subseteq 0..B-1 /\ Foreign \subseteq 0..W-1

VARIABLES
    rcv,          \* the object that parses, and may be serialized again
    wire,         \* the frame, as the host reads its words
    origin        \* what wire stands for; parsed when rcv has read it

vars == <<rcv, wire, origin>>

Packet(fields, word, checksum, payload) ==
    [fields |-> fields, word |-> word, checksum |-> checksum, payload |-> payload]

Fresh == Packet(0, 0, 0, <<>>)

Origin(sent, packet, opts, foreign) ==
    [sent |-> sent, packet |-> packet, opts |-> opts, foreign |-> foreign,
     parsed |-> FALSE, stale |-> FALSE]

NoOptions == [mss |-> FALSE, scale |-> FALSE, timestamps |-> FALSE]

Init ==
    /\ rcv = Fresh /\ wire = Fresh
    /\ origin = Origin(FALSE, Fresh, NoOptions, FALSE)

-----------------------------------------------------------------------------
\* calculate_checksum(): over the header as the object holds it, its checksum
\* field included, and the payload.  The pseudo header is not added.
Calculate(p) ==
    Complement(Swap(p.fields) + Swap(p.word) + Swap(p.checksum) + PayloadSum(p.payload))

\* verify_checksum()
Verify(p) == p.checksum = Calculate([p EXCEPT !.checksum = 0])

OptionBytes(o) ==
    (IF o.mss THEN 4 ELSE 0) + (IF o.scale THEN 3 ELSE 0)
        + (IF o.timestamps THEN 10 ELSE 0)

\* Faulty variant: the MSS option is always counted.
OptionsLenAlways(o) == ((OptionBytes([o EXCEPT !.mss = TRUE]) + 3) \div 4) * 4

\* Padding to a multiple of 4 included.
OptionsLen(o) == ((OptionBytes(o) + 3) \div 4) * 4

\* Faulty variant: the flags are written over by the data offset.
WithOffsetOnly(word, o) == ((HeaderLen + OptionsLen(o)) \div 4) * B

\* The data offset is written into the object although it is const.
WithOffset(word, o) == (word % B) + ((HeaderLen + OptionsLen(o)) \div 4) * B

\* The checksum field of the object that is serialized: no setter changes it.
\* A new object has 0 there, one that has parsed what it parsed.
Held(reuse) == IF reuse THEN rcv.checksum ELSE 0

\* The setters, then serialize(): the options count in the data offset, but
\* are not written, and the sum goes over the field that is to hold it.
Serialize(fields, flags, p, o, reuse) ==
    LET full == Packet(fields, WithOffset(flags, o), Held(reuse), p) IN
        /\ wire' = Packet(Swap(fields), full.word, Calculate(full), p)
        /\ rcv' = IF reuse THEN full ELSE rcv
        /\ origin' = Origin(TRUE, Packet(fields, flags, Held(reuse), p), o, FALSE)

\* A segment of a standard TCP, without options (external).  Its offset byte
\* comes first, so the host reads the two the other way round.
ForeignSegment(fields, flags, p, checksum) ==
    /\ wire' = Packet(Swap(fields), Swap((HeaderLen \div 4) * B + flags), checksum, p)
    /\ origin' = Origin(TRUE, Packet(fields, flags, checksum, p), NoOptions, TRUE)
    /\ UNCHANGED rcv

\* A payload byte is damaged on its way (external).
Corrupt(i, byte) ==
    /\ origin.sent /\ i \in DOMAIN wire.payload /\ byte # wire.payload[i]
    /\ wire.payload = origin.packet.payload
    /\ wire' = [wire EXCEPT !.payload[i] = byte]
    /\ UNCHANGED <<rcv, origin>>

\* The bytes of the frame from header_len on; those of the header are
\* abstracted to 0.
Remainder(len) ==
    IF len <= HeaderLen
      THEN [i \in 1..HeaderLen - len |-> 0] \o wire.payload
      ELSE SubSeq(wire.payload, len - HeaderLen + 1, Len(wire.payload))

\* Faulty variant: the checksum is converted like the other fields.
ReadChecksumSwapped == Swap(wire.checksum)
ReadChecksum == wire.checksum

\* parse(): a data offset beyond the frame leaves payload_ as it was.
Parse ==
    /\ origin.sent
    /\ LET len == (wire.word \div B) * 4
           short == HeaderLen + Len(wire.payload) < len IN
        /\ rcv' = Packet(Swap(wire.fields), wire.word, ReadChecksum,
                         IF short THEN rcv.payload ELSE Remainder(len))
        /\ origin' = [origin EXCEPT !.parsed = TRUE,
                                    !.stale = short /\ rcv.payload # <<>>]
    /\ UNCHANGED wire

-----------------------------------------------------------------------------
Next ==
    \/ \E f \in Fields, g \in Flags, p \in Payloads :
          \/ \E o \in Options, reuse \in BOOLEAN : Serialize(f, g, p, o, reuse)
          \/ \E c \in Foreign : ForeignSegment(f, g, p, c)
    \/ \E i \in DOMAIN wire.payload, b \in Noise : Corrupt(i, b)
    \/ Parse

Spec == Init /\ [][Next]_vars

-----------------------------------------------------------------------------
(* Properties                                                              *)

Damaged == wire.payload # origin.packet.payload

\* What one object serializes another reads: the fields and the flags come
\* back as they were set, with every choice of options and however often the
\* objects were used before.
HeaderSurvives ==
    (origin.parsed /\ ~origin.foreign) =>
        /\ rcv.fields = origin.packet.fields
        /\ rcv.word % B = origin.packet.word % B

\* The payload the sender was given is what the receiver reads as payload:
\* options count in the offset without being there.
Readable ==
    /\ origin.parsed /\ ~origin.foreign /\ ~origin.stale
    /\ OptionBytes(origin.opts) = 0 \/ origin.packet.payload = <<>>

Intact == rcv.payload = origin.packet.payload

\* What a new object sent verify_checksum() accepts as far as it came through,
\* and refuses with one payload byte damaged.  But what is sent is the sum of a
\* header that holds an old checksum: of an object that has parsed, even an
\* intact packet is accepted only if that checksum counted as nothing.  (The
\* object of tests/tcp_tests.cpp:24-28 is accepted for being new: serialized once
\* more it would not be.)
VerifyDecides ==
    Readable =>
        LET held == origin.packet.checksum IN
            /\ held = 0 => (Verify(rcv) <=> Intact)
            /\ Intact => (Verify(rcv) <=> held \in {0, W - 1})

\* Without options, serializing and parsing gives the payload back, whatever
\* the parsing object held before and whoever sent the frames in between.
PayloadSurvives ==
    (origin.parsed /\ ~origin.foreign /\ ~Damaged /\ OptionBytes(origin.opts) = 0)
        => rcv.payload = origin.packet.payload
================================================================================
