----------------------------- MODULE IPFragmenter -----------------------------
(***************************************************************************)
(* src/ip/ip_fragmenter.cpp and ip_packet.cpp: cutting a serialized packet *)
(* into fragments, serializing and parsing these, and putting received     *)
(* ones together again.  The network between the two is external: it       *)
(* loses, repeats and reorders fragments.  So is the user: no code of the  *)
(* repository calls the class, and nothing obliges a user to reassemble    *)
(* only after the last fragment has come.                                  *)
(*                                                                         *)
(* A byte is <<packet, position>>; Hole is the zero the buffer of          *)
(* reassemble() is filled with.  Numbers are scaled: Unit stands for 8     *)
(* bytes, Header for the 20 of the IP header, OffMod for 2^13 offsets and  *)
(* for the more-fragments bit, 0x2000.                                     *)
(***************************************************************************)
EXTENDS Checksums, FiniteSets

CONSTANTS
    Packet,        \* packets that are cut, each once
    NoPacket,
    Unit, Header, OffMod,
    SizeMod,       \* range of size_t
    Lengths,       \* data.size() of a serialized packet
    Mtus,          \* MTUs given to fragment_packet()
    MaxFragments,  \* MAX_FRAGMENTS, 1000 in the code
    Lifetime       \* 60 s, in ticks

ASSUME NumbersAssumption ==
    /\ Unit \in Nat \ {0} /\ Header \in Nat /\ OffMod \in Nat \ {0}
    /\ W > 2 * OffMod /\ \A len \in Lengths : len >= Header
    /\ SizeMod \in Nat /\ Unit < SizeMod /\ SizeMod % Unit = 0
    /\ Lengths \subseteq Nat \ {0} /\ Mtus \subseteq Nat
    /\ MaxFragments \in Nat /\ Lifetime \in Nat /\ NoPacket \notin Packet

VARIABLES
    cutting,     \* the fragment_packet() call under way, or NoCall
    total,       \* data.size() of every packet that was cut, by packet
    fragments,   \* the fragments of a packet, serialized
    fragments_,  \* the map: byte offset -> [data, age]
    out          \* the payload of what reassemble() returned last

sendvars == <<cutting, total, fragments>>
vars == <<cutting, total, fragments, fragments_, out>>

NoCall == [packet |-> NoPacket, size |-> 0, offset |-> 0]
Hole == <<NoPacket, 0>>
NoFragments == [k \in {} |-> Hole]

Init ==
    /\ cutting = NoCall
    /\ total = [p \in Packet |-> 0]
    /\ fragments = [p \in Packet |-> {}]
    /\ fragments_ = NoFragments
    /\ out = <<>>

-----------------------------------------------------------------------------
(* fragment_packet()                                                       *)

\* Faulty variant: the header is subtracted twice.
FragmentSizeTwice(mtu) == (((mtu - 2 * Header) % SizeMod) \div Unit) * Unit

\* (mtu - header_size) & ~7, in size_t.
FragmentSize(mtu) == (((mtu - Header) % SizeMod) \div Unit) * Unit

FragmentStart(p, len, mtu) ==
    /\ cutting = NoCall /\ total[p] = 0
    /\ cutting' = [packet |-> p, size |-> FragmentSize(mtu), offset |-> 0]
    /\ total' = [total EXCEPT ![p] = len]
    /\ UNCHANGED <<fragments, fragments_, out>>

\* Faulty variant: a fragment that ends with the packet is not the last one.
IsLastStrict(offset, size, len) == (offset + size) % SizeMod > len

IsLast(offset, size, len) == (offset + size) % SizeMod >= len

\* set_fragment_offset() and set_more_fragments() on a new packet.
FlagsWord(offset, more) == (offset % OffMod) + (IF more THEN OffMod ELSE 0)

\* serialize() puts the word in network order, parse() puts it back.  The
\* header before the payload is 5 words long, as every packet the class makes.
Serialize(word, payload) == [flags |-> Swap(word), payload |-> payload]
Parse(frame) == [flags |-> Swap(frame.flags), payload |-> frame.payload]

\* One turn of the loop of line 18.  A fragment does not carry the packet's
\* addresses or identification.
FragmentLoop ==
    /\ cutting # NoCall
    /\ LET p == cutting.packet
           o == cutting.offset
           last == IsLast(o, cutting.size, total[p])
           n == IF last THEN total[p] - o ELSE cutting.size
       IN  /\ fragments' = [fragments EXCEPT ![p] = @ \cup
                 {Serialize(FlagsWord(o \div Unit, ~last),
                            [i \in 1..n |-> <<p, o + i>>])}]
           /\ cutting' = IF o + n < total[p]
                           THEN [cutting EXCEPT !.offset = o + n] ELSE NoCall
    /\ UNCHANGED <<total, fragments_, out>>

-----------------------------------------------------------------------------
(* The receiving side                                                      *)

\* fragment_packet() has returned for p.
Cut(p) == total[p] > 0 /\ cutting.packet # p

\* get_fragment_offset()
OffsetOf(f) == f.flags % OffMod

\* Faulty variant: the offset stays in units of 8 bytes.
KeyOfUnits(f) == OffsetOf(f)

\* The key is the offset alone: neither the sender, nor the identification,
\* nor the more-fragments flag is looked at.
KeyOf(f) == OffsetOf(f) * Unit

AddFragment(f) ==
    /\ fragments_' = [k \in DOMAIN fragments_ \cup {KeyOf(f)} |->
                        IF k = KeyOf(f) THEN [data |-> f.payload, age |-> 0]
                                        ELSE fragments_[k]]
    /\ UNCHANGED <<sendvars, out>>

Largest(S) == CHOOSE x \in S : \A y \in S : y <= x

End(map) == Largest({k + Len(map[k].data) : k \in DOMAIN map})

\* is_complete(): some data is there.
IsComplete(map) == DOMAIN map # {} /\ End(map) > 0

\* The entries whose data covers byte i of the buffer; copied by rising offset.
Covering(map, i) == {k \in DOMAIN map : k < i /\ i <= k + Len(map[k].data)}
Merged(map) ==
    [i \in 1..End(map) |->
        IF Covering(map, i) = {} THEN Hole
        ELSE LET k == Largest(Covering(map, i)) IN map[k].data[i - k]]

\* The header length parse() may find at the start of the bytes: a packet's
\* first byte says Header, the zero of a hole says 0, another byte anything.
HeaderSizes(bytes) ==
    IF bytes[1] = Hole THEN {0} ELSE IF bytes[1][2] = 1 THEN {Header} ELSE 0..3 * Header

\* parse() of what was put together: not even a header leaves a new packet,
\* and so does, as to the payload, a header length beyond the end.
PayloadsLeft(bytes) ==
    IF Len(bytes) < Header THEN {<<>>}
    ELSE {SubSeq(bytes, n + 1, Len(bytes)) : n \in HeaderSizes(bytes)}

\* reassemble() when is_complete(); else it returns an empty packet and keeps
\* the map.
Reassemble ==
    /\ IF IsComplete(fragments_)
         THEN out' \in PayloadsLeft(Merged(fragments_)) /\ fragments_' = NoFragments
         ELSE out' = <<>> /\ UNCHANGED fragments_
    /\ UNCHANGED sendvars

Kept(map) == {k \in DOMAIN map : map[k].age <= Lifetime}

\* cleanup(): expired entries go one by one; if too many are left, all go.
Cleanup ==
    /\ fragments_' = [k \in IF Cardinality(Kept(fragments_)) > MaxFragments
                              THEN {} ELSE Kept(fragments_) |-> fragments_[k]]
    /\ UNCHANGED <<sendvars, out>>

Older(age) == IF age > Lifetime THEN age ELSE age + 1

\* Time passes (external).
Tick ==
    /\ fragments_' = [k \in DOMAIN fragments_ |->
                        [data |-> fragments_[k].data, age |-> Older(fragments_[k].age)]]
    /\ UNCHANGED <<sendvars, out>>

-----------------------------------------------------------------------------
Next ==
    \/ \E p \in Packet, len \in Lengths, mtu \in Mtus : FragmentStart(p, len, mtu)
    \/ FragmentLoop
    \/ \E p \in Packet : Cut(p) /\ \E f \in fragments[p] : AddFragment(Parse(f))
    \/ Reassemble
    \/ Cleanup
    \/ Tick

Spec == Init /\ [][Next]_vars

\* A call of fragment_packet() runs on.
FairSpec == Spec /\ WF_vars(FragmentLoop)

-----------------------------------------------------------------------------
(* Properties                                                              *)

PayloadOf(p) == [i \in 1..total[p] - Header |-> <<p, Header + i>>]

\* The fragments of p as they are parsed.
Received(p) == {Parse(f) : f \in fragments[p]}

More(f) == f.flags >= OffMod

\* f puts byte i of p where the receiver looks for it.
Carries(f, p, i) ==
    /\ KeyOf(f) < i /\ i <= KeyOf(f) + Len(f.payload)
    /\ f.payload[i - KeyOf(f)] = <<p, i>>

\* What fragment_packet() returns is the packet: the fragments' offsets and
\* sizes leave no gap and no overlap on the wire, and the more-fragments flag
\* is clear on the last one and on no other.
FragmentsTile ==
    \A p \in Packet : Cut(p) =>
        /\ \A i \in 1..total[p] : \E f \in Received(p) : Carries(f, p, i)
        /\ \A f, g \in Received(p) : KeyOf(f) < KeyOf(g) =>
              More(f) /\ KeyOf(f) + Len(f.payload) <= KeyOf(g)
        /\ \E f \in Received(p) : ~More(f)

\* fragment_packet() returns.
FragmentEnds == cutting # NoCall ~> cutting = NoCall

\* Whatever the order and the number of copies in which they came, and with
\* cleanups in between: when the map holds the fragments of one packet,
\* all of them and no others, reassemble() gives that packet back, and its
\* header is taken off.
WholeReassembles ==
    [][\A p \in Packet :
         (/\ Cut(p) /\ Reassemble
          /\ {fragments_[k].data : k \in DOMAIN fragments_} = {f.payload : f \in fragments[p]})
              => out' = PayloadOf(p)]_vars

\* What a cleanup takes from a packet that has come in part, or another packet's
\* fragment puts there, never moves a byte: reassemble() gives every byte at its
\* own distance from the start of its packet, a zero where none was left, and
\* cuts off one header, whatever length it reads there.
BytesStayInPlace ==
    \E cut \in 0..3 * Header :
        \A i \in DOMAIN out : out[i] = Hole \/ out[i][2] = cut + i
===============================================================================
