-------------------------------- MODULE IPProofs --------------------------------
(***************************************************************************)
(* Proofs about the two users of the IP header, EchoPath and IPFragmenter. *)
(* They share no state and have specifications of their own.               *)
(***************************************************************************)
EXTENDS EchoPath, IPFragmenter, SequenceTheorems, WellFoundedInduction, TLAPS

-----------------------------------------------------------------------------
(* EchoPath, for every set of hosts and payloads, every byte base and any  *)
(* number of frames.  What the checksum computes does not matter: only     *)
(* that the sender and parse() compute the same.                           *)

\* A reply answers the request it was made from, and the asker's parse()
\* accepts it.
LEMMA ReplyAnswers ==
    ASSUME NEW f
    PROVE  AnswerTo(f, Reply(f)) /\ Reply(f).icmp.type = EchoReply
BY DEF AnswerTo, Reply, Frame, CreateEchoReply, ICMP, Accepts

\* A request made on a new object passes parse() and has no payload.
LEMMA RequestAccepted ==
    ASSUME NEW id
    PROVE  /\ Accepts(CreateEchoRequest(New, id))
           /\ CreateEchoRequest(New, id).type = EchoRequest
           /\ CreateEchoRequest(New, id).payload = <<>>
BY DEF Accepts, CreateEchoRequest, New, ICMP

\* A frame of the ICMP protocol has an IP header.
HeadersOK == \A f \in wire : f.protocol = "ICMP" => ~f.bare

\* Whatever has been processed is on the wire, with its reply if it gets one.
HandledInv ==
    \A h \in handled : /\ h.frame \in wire
                       /\ Answers(h.frame) => Reply(h.frame) \in wire

EchoInv == HeadersOK /\ HandledInv /\ RepliesAnswerRequests

\* A frame that is not a reply can be put on the wire at any time.
LEMMA SendStep ==
    ASSUME EchoInv, NEW f, wire' = wire \cup {f}, UNCHANGED handled,
           f.icmp.type = EchoRequest, f.protocol = "ICMP" => ~f.bare
    PROVE  EchoInv'
<1>1. HeadersOK' /\ HandledInv'
    BY DEF EchoInv, HeadersOK, HandledInv
<1>2. RepliesAnswerRequests'
    BY DEF EchoInv, RepliesAnswerRequests, EchoRequest, EchoReply
<1> QED BY <1>1, <1>2 DEF EchoInv

\* What the class and a standard host put on the wire are requests.
LEMMA SentAreRequests ==
    ASSUME NEW src, NEW dst, NEW protocol, NEW icmp, icmp.type = EchoRequest
    PROVE  /\ Bare(icmp).icmp.type = EchoRequest /\ Bare(icmp).protocol # "ICMP"
           /\ Frame(src, dst, protocol, icmp).icmp.type = EchoRequest
           /\ Frame(src, dst, protocol, icmp).bare = FALSE
BY DEF Bare, Frame

\* create_echo_request() makes a request of any object.
LEMMA CreatedType == \A p, id : CreateEchoRequest(p, id).type = EchoRequest
BY DEF CreateEchoRequest, ICMP

\* Processing a frame adds nothing but its reply.
LEMMA ProcessStep ==
    ASSUME EchoInv, NEW h, NEW f, Process(h, f)
    PROVE  EchoInv'
<1> DEFINE done == [host |-> h, frame |-> f]
<1>1. /\ f \in wire /\ wire \subseteq wire'
      /\ handled' = handled \cup {done} /\ done.frame = f
    BY DEF Process
<1> HIDE DEF done
<1>2. CASE Answers(f)
    <2>1. wire' = wire \cup {Reply(f)}
        BY <1>2 DEF Process
    <2>2. HandledInv'
        BY <1>1, <2>1 DEF EchoInv, HandledInv
    <2>3. Reply(f).bare = FALSE
        BY DEF Reply, Frame
    <2>4. HeadersOK'
        BY <2>1, <2>3 DEF EchoInv, HeadersOK
    <2>5. f.icmp.type = EchoRequest /\ AnswerTo(f, Reply(f))
        BY <1>2, ReplyAnswers DEF Answers
    <2>6. RepliesAnswerRequests'
        BY <1>1, <2>1, <2>5 DEF EchoInv, RepliesAnswerRequests
    <2> QED BY <2>2, <2>4, <2>6 DEF EchoInv
<1>3. CASE ~Answers(f)
    <2>1. wire' = wire
        BY <1>3 DEF Process
    <2> QED BY <1>1, <1>3, <2>1 DEF EchoInv, HeadersOK, HandledInv, RepliesAnswerRequests
<1> QED BY <1>2, <1>3

\* Requests are sent, and frames processed.
LEMMA EchoStep == EchoInv /\ [EchoNext]_echovars => EchoInv'
<1> SUFFICES ASSUME EchoInv, [EchoNext]_echovars PROVE EchoInv'
    OBVIOUS
<1>1. ASSUME NEW id \in Ids, SendPing(id) PROVE EchoInv'
    <2>1. PICK f : f = Bare(CreateEchoRequest(ping, id))
        OBVIOUS
    <2>2. f.icmp.type = EchoRequest /\ f.protocol # "ICMP"
        BY <2>1, CreatedType, SentAreRequests
    <2>3. wire' = wire \cup {f} /\ UNCHANGED handled
        BY <1>1, <2>1 DEF SendPing
    <2> QED BY <2>2, <2>3, SendStep
<1>2. ASSUME NEW s \in Host, NEW d \in Host, NEW id \in Ids, SendRouted(s, d, id)
      PROVE  EchoInv'
    <2>1. PICK f : f = Frame(s, d, "ICMP", CreateEchoRequest(New, id))
        OBVIOUS
    <2>2. f.icmp.type = EchoRequest /\ f.bare = FALSE
        BY <2>1, CreatedType, SentAreRequests
    <2>3. wire' = wire \cup {f} /\ UNCHANGED handled
        BY <1>2, <2>1 DEF SendRouted
    <2> QED BY <2>2, <2>3, SendStep
<1>3. ASSUME NEW s \in Host, NEW d \in Host, NEW id \in Ids, NEW q \in Protocol,
             NEW p \in Payloads, SendStandard(s, d, q, id, p)
      PROVE  EchoInv'
    <2>1. PICK icmp : icmp = ICMP(EchoRequest, Internet(EchoRequest, id, p), id, p)
        OBVIOUS
    <2>2. PICK f : f = Frame(s, d, q, icmp)
        OBVIOUS
    <2>3. icmp.type = EchoRequest
        BY <2>1 DEF ICMP
    <2>4. f.icmp.type = EchoRequest /\ f.bare = FALSE
        BY <2>2, <2>3, SentAreRequests
    <2>5. wire' = wire \cup {f} /\ UNCHANGED handled
        BY <1>3, <2>1, <2>2 DEF SendStandard
    <2> QED BY <2>4, <2>5, SendStep
<1>4. ASSUME NEW h \in Host, NEW f \in wire, Process(h, f) PROVE EchoInv'
    BY <1>4, ProcessStep
<1>5. CASE UNCHANGED echovars
    BY <1>5 DEF echovars, EchoInv, HeadersOK, HandledInv, RepliesAnswerRequests
<1> QED BY <1>1, <1>2, <1>3, <1>4, <1>5 DEF EchoNext

\* All parts of it hold in every reachable state.
THEOREM EchoInvariant == EchoSpec => []EchoInv
<1>1. EchoInit => EchoInv
    BY DEF EchoInit, EchoInv, HeadersOK, HandledInv, RepliesAnswerRequests
<1> QED BY <1>1, EchoStep, PTL DEF EchoSpec

\* No stack ever answers an answer: each reply on the wire has its request on
\* the wire, for any number of hosts that see and process every frame.
THEOREM RepliesHaveRequests == EchoSpec => []RepliesAnswerRequests
<1>1. EchoInv => RepliesAnswerRequests BY DEF EchoInv
<1> QED BY <1>1, EchoInvariant, PTL

\* A request built on a new object and processed by its destination is
\* answered, and the answer passes the asker's parse(), whatever the checksum
\* function computes.
THEOREM RequestsAreAnswered == EchoSpec => []OwnRequestsAnswered
<1>1. EchoInv => OwnRequestsAnswered
    <2> SUFFICES ASSUME EchoInv, NEW f \in wire, Request(f),
                        f.icmp = CreateEchoRequest(New, Swap(f.icmp.id)),
                        f.protocol = "ICMP"
                 PROVE  \E r \in wire : AnswerTo(f, r)
        BY DEF OwnRequestsAnswered
    <2>1. Accepts(f.icmp) /\ f.icmp.type = EchoRequest /\ f.icmp.payload = <<>>
        BY RequestAccepted
    <2>2. ~f.bare
        BY DEF EchoInv, HeadersOK
    <2>3. Answers(f)
        BY <2>1, <2>2 DEF Answers, Size, IPHeaderLen, ICMPHeaderLen
    <2>4. [host |-> f.dst, frame |-> f] \in handled
        BY DEF Request
    <2>5. Reply(f) \in wire
        BY <2>3, <2>4 DEF EchoInv, HandledInv
    <2> QED BY <2>5, ReplyAnswers
<1> QED BY <1>1, EchoInvariant, PTL

-----------------------------------------------------------------------------
(* IPFragmenter, for every unit, header, length and MTU.                   *)

\* Every length can be told by an offset, and twice a length is a size_t.
LengthsFit == \A len \in Lengths : len <= OffMod * Unit /\ 2 * len <= SizeMod

\* Quotient and remainder of a number given by its parts.
LEMMA Parts ==
    ASSUME NEW d \in Nat \ {0}, NEW q \in Nat, NEW r \in 0..d-1
    PROVE  (r + q * d) \div d = q /\ (r + q * d) % d = r
<1> DEFINE n == r + q * d
           x == n \div d
           m == n % d
<1>1. d \in Nat /\ d > 0 /\ n \in Nat
    OBVIOUS
<1>2. x \in Nat /\ m \in 0..d-1 /\ n = d * x + m
    BY <1>1
<1> HIDE DEF x, m
<1>3. d * (x - q) = d * x - q * d
    BY <1>1, <1>2
<1>4. d * (x - q) = r - m
    BY <1>1, <1>2, <1>3
<1>5. x = q
    <2>1. CASE x >= q + 1
        <3>1. d * (x - q) >= d
            BY <1>1, <1>2, <2>1
        <3> QED BY <1>1, <1>2, <1>4, <3>1
    <2>2. CASE x <= q - 1
        <3>1. d * (x - q) <= -d
            BY <1>1, <1>2, <2>2
        <3> QED BY <1>1, <1>2, <1>4, <3>1
    <2> QED BY <1>2, <2>1, <2>2
<1>6. m = r
    <2>1. d * (x - q) = 0
        BY <1>1, <1>5
    <2> QED BY <1>2, <1>4, <2>1
<1> QED BY <1>5, <1>6 DEF x, m

\* A word changed to network order and back is the word.
LEMMA SwappedBack ==
    ASSUME NEW w \in Nat, w < W
    PROVE  Swap(Swap(w)) = w
<1> DEFINE lo == w % B
           hi == w \div B
<1>1. B \in Nat \ {0} /\ w < B * B
    BY ByteAssumption DEF W
<1>2. lo \in 0..B-1 /\ hi \in Nat /\ w = B * hi + lo
    BY <1>1
<1>3. Swap(w) = lo * B + hi
    BY DEF Swap
<1> HIDE DEF lo, hi
<1>4. hi \in 0..B-1
    <2>1. ASSUME hi >= B PROVE FALSE
        <3>1. B * hi >= B * B
            BY <1>1, <1>2, <2>1
        <3> QED BY <1>1, <1>2, <3>1
    <2> QED BY <1>1, <1>2, <2>1
<1>5. lo * B \in Nat /\ lo \in Nat
    BY <1>1, <1>2
<1>6. Swap(w) = hi + lo * B
    BY <1>3, <1>4, <1>5
<1>7. Swap(w) \div B = lo /\ Swap(w) % B = hi
    BY <1>1, <1>4, <1>5, <1>6, Parts
<1>8. Swap(Swap(w)) = hi * B + lo
    BY <1>7 DEF Swap
<1>9. hi * B = B * hi
    BY <1>1, <1>2
<1> QED BY <1>2, <1>8, <1>9

Multiples == {k * Unit : k \in Nat}

\* What parse() makes of a fragment that serialize() was given.
LEMMA ParsedFragment ==
    ASSUME NEW o \in Multiples, o < OffMod * Unit, NEW more \in BOOLEAN, NEW payload,
           NEW g, g = Parse(Serialize(FlagsWord(o \div Unit, more), payload))
    PROVE  KeyOf(g) = o /\ (More(g) <=> more) /\ g.payload = payload
<1>1. Unit \in Nat \ {0} /\ OffMod \in Nat \ {0} /\ W > 2 * OffMod
    BY NumbersAssumption
<1>2. PICK k \in Nat : o = k * Unit
    BY DEF Multiples
<1>3. o \div Unit = k
    <2>1. o = 0 + k * Unit /\ 0 \in 0..Unit-1
        BY <1>1, <1>2
    <2> QED BY <1>1, <2>1, Parts
<1>4. k < OffMod
    <2>1. ASSUME k >= OffMod PROVE FALSE
        <3>1. k * Unit >= OffMod * Unit
            BY <1>1, <2>1
        <3> QED BY <1>1, <1>2, <3>1
    <2> QED BY <1>1, <2>1
<1> DEFINE word == FlagsWord(k, more)
<1>5. PICK c \in {0, 1} : word = k + c * OffMod /\ (c = 1 <=> more)
    <2>1. k % OffMod = k
        BY <1>1, <1>4
    <2>2. CASE more
        <3>1. word = k + 1 * OffMod
            BY <1>1, <2>1, <2>2 DEF FlagsWord
        <3> QED BY <2>2, <3>1
    <2>3. CASE ~more
        <3>1. word = k + 0 * OffMod
            BY <1>1, <2>1, <2>3 DEF FlagsWord
        <3> QED BY <2>3, <3>1
    <2> QED BY <2>2, <2>3
<1>6. word \in Nat /\ word < W /\ (word >= OffMod <=> more)
    <2>1. W \in Nat
        BY ByteAssumption DEF W
    <2> QED BY <1>1, <1>4, <1>5, <2>1
<1>7. word % OffMod = k
    <2>1. k \in 0..OffMod-1 /\ c \in Nat
        BY <1>1, <1>4
    <2>2. (k + c * OffMod) % OffMod = k
        BY <1>1, <2>1, Parts
    <2> QED BY <1>5, <2>2
<1> HIDE DEF word
<1>8. g = [flags |-> Swap(Swap(word)), payload |-> payload]
    BY <1>3 DEF Parse, Serialize, word
<1>9. g.flags = word /\ g.payload = payload
    BY <1>6, <1>8, SwappedBack
<1> QED BY <1>2, <1>6, <1>7, <1>9 DEF KeyOf, OffsetOf, More

\* The bytes of p that have been put into fragments.
Done(p) == IF cutting.packet = p THEN cutting.offset ELSE total[p]

\* Calls, totals and the fragments' container.
CallOK ==
    cutting # NoCall =>
        /\ cutting = [packet |-> cutting.packet, size |-> cutting.size,
                      offset |-> cutting.offset]
        /\ cutting.packet \in Packet
        /\ cutting.size \in Multiples /\ cutting.size < SizeMod
        /\ cutting.offset \in Multiples /\ cutting.offset < total[cutting.packet]
        /\ cutting.offset = 0 \/ cutting.size < total[cutting.packet]

SendType ==
    /\ total \in [Packet -> {0} \cup Lengths]
    /\ fragments = [p \in Packet |-> fragments[p]]

\* A parsed fragment of p holds p's bytes from its key on, and says that more
\* follow if they do.  Only a call that never ends makes empty ones.
IsPiece(g, p) ==
    /\ KeyOf(g) \in Multiples /\ KeyOf(g) < total[p]
    /\ Len(g.payload) \in Nat /\ KeyOf(g) + Len(g.payload) <= Done(p)
    /\ g.payload = [i \in 1..Len(g.payload) |-> <<p, KeyOf(g) + i>>]
    /\ More(g) <=> KeyOf(g) + Len(g.payload) < total[p]
    /\ Len(g.payload) = 0 => cutting.packet = p /\ cutting.size = 0

Pieces == \A p \in Packet : \A g \in Received(p) : IsPiece(g, p)

\* No gap, no overlap, and a last one, in what has been cut so far.
Covered == \A p \in Packet : \A i \in 1..Done(p) : \E g \in Received(p) : Carries(g, p, i)
Apart ==
    \A p \in Packet : \A f, g \in Received(p) :
        KeyOf(f) < KeyOf(g) => KeyOf(f) + Len(f.payload) <= KeyOf(g)
LastIsMarked == \A p \in Packet : Cut(p) => \E g \in Received(p) : ~More(g)

\* What the receiver holds under a key is the piece of some packet with that key.
MapOK ==
    \A k \in DOMAIN fragments_ : \E p \in Packet :
        Cut(p) /\ \E g \in Received(p) : KeyOf(g) = k /\ fragments_[k].data = g.payload

FragmentInv ==
    CallOK /\ SendType /\ Pieces /\ Covered /\ Apart /\ LastIsMarked /\ MapOK

\* The next multiple is reached from one by adding one.
LEMMA MultiplesAdd ==
    ASSUME NEW x \in Multiples, NEW y \in Multiples
    PROVE  x + y \in Multiples /\ x \in Nat
<1>1. Unit \in Nat
    BY NumbersAssumption
<1>2. PICK j \in Nat, k \in Nat : x = j * Unit /\ y = k * Unit
    BY DEF Multiples
<1>3. x + y = (j + k) * Unit /\ x \in Nat /\ j + k \in Nat
    BY <1>1, <1>2
<1> QED BY <1>3 DEF Multiples

\* A call begins with nothing cut of its packet.
LEMMA StartStep ==
    ASSUME FragmentInv, NEW p \in Packet, NEW len \in Lengths, NEW mtu \in Mtus,
           FragmentStart(p, len, mtu)
    PROVE  FragmentInv'
<1> DEFINE size == FragmentSize(mtu)
<1>1. /\ cutting = NoCall /\ total[p] = 0
      /\ cutting' = [packet |-> p, size |-> size, offset |-> 0]
      /\ total' = [total EXCEPT ![p] = len]
      /\ fragments' = fragments /\ fragments_' = fragments_
    BY DEF FragmentStart
<1>2. len \in Nat \ {0} /\ Unit \in Nat \ {0} /\ SizeMod \in Nat \ {0} /\ Header \in Nat
      /\ mtu \in Nat /\ NoPacket \notin Packet /\ Lengths \subseteq Nat
    BY NumbersAssumption
<1>3. size \in Multiples /\ size < SizeMod
    <2> DEFINE x == (mtu - Header) % SizeMod
    <2>1. x \in 0..SizeMod-1
        BY <1>2
    <2> HIDE DEF x
    <2>2. x \div Unit \in Nat /\ (x \div Unit) * Unit <= x
        BY <1>2, <2>1
    <2>3. size = (x \div Unit) * Unit
        BY DEF FragmentSize, x
    <2> HIDE DEF size
    <2> QED BY <1>2, <2>1, <2>2, <2>3 DEF Multiples
<1> HIDE DEF size
<1>4. total' \in [Packet -> {0} \cup Lengths] /\ total'[p] = len
      /\ \A q \in Packet \ {p} : total'[q] = total[q]
    BY <1>1 DEF FragmentInv, SendType
<1>5. \A q \in Packet : Received(q)' = Received(q)
    BY <1>1 DEF Received
<1>6. Received(p) = {}
    <2>1. ASSUME NEW g \in Received(p) PROVE FALSE
        <3>1. KeyOf(g) \in Multiples /\ KeyOf(g) < 0
            BY <1>1 DEF FragmentInv, Pieces, IsPiece
        <3> QED BY <3>1, MultiplesAdd
    <2> QED BY <2>1
<1>7. /\ Done(p)' = 0
      /\ \A q \in Packet \ {p} : Done(q)' = Done(q) /\ (Cut(q)' <=> Cut(q))
      /\ ~Cut(p)' /\ ~Cut(p)
    <2>1. \A q \in Packet : cutting.packet # q
        BY <1>1, <1>2 DEF NoCall
    <2>2. cutting'.packet = p /\ cutting'.offset = 0
        BY <1>1
    <2> QED BY <1>1, <1>4, <2>1, <2>2 DEF Done, Cut
<1>8. CallOK'
    <2>1. 0 \in Multiples
        BY <1>2 DEF Multiples
    <2> QED BY <1>1, <1>2, <1>3, <1>4, <2>1 DEF CallOK
<1>9. SendType'
    BY <1>1, <1>4 DEF FragmentInv, SendType
<1>10. Pieces'
    <2> SUFFICES ASSUME NEW q \in Packet, NEW g \in Received(q) PROVE IsPiece(g, q)'
        BY <1>5 DEF Pieces
    <2>1. q # p
        BY <1>6
    <2>2. IsPiece(g, q) /\ cutting.packet # q
        BY <1>1, <1>2 DEF FragmentInv, Pieces, NoCall
    <2> QED BY <1>4, <1>7, <2>1, <2>2 DEF IsPiece, KeyOf, OffsetOf, More
<1>11. Covered' /\ Apart'
    <2>1. Covered'
        <3> SUFFICES ASSUME NEW q \in Packet, NEW i \in 1..Done(q)'
                     PROVE  \E g \in Received(q) : Carries(g, q, i)
            BY <1>5 DEF Covered, Carries, KeyOf, OffsetOf
        <3>1. q # p
            BY <1>7
        <3>2. i \in 1..Done(q)
            BY <1>7, <3>1
        <3> QED BY <3>2 DEF FragmentInv, Covered
    <2> QED BY <1>5, <2>1 DEF FragmentInv, Apart, KeyOf, OffsetOf
<1>12. LastIsMarked'
    BY <1>5, <1>7 DEF FragmentInv, LastIsMarked, More
<1>13. MapOK'
    BY <1>1, <1>5, <1>7 DEF FragmentInv, MapOK, KeyOf, OffsetOf
<1> QED BY <1>8, <1>9, <1>10, <1>11, <1>12, <1>13 DEF FragmentInv

\* One turn of the loop puts the bytes from the offset on into a fragment.
LEMMA LoopStep ==
    ASSUME LengthsFit, FragmentInv, FragmentLoop,
           NEW p, p = cutting.packet, NEW o, o = cutting.offset,
           NEW size, size = cutting.size, NEW t, t = total[p]
    PROVE  FragmentInv'
<1> DEFINE last == IsLast(o, size, t)
           more == ~last
           n == IF last THEN t - o ELSE size
           bytes == [i \in 1..n |-> <<p, o + i>>]
           frame == Serialize(FlagsWord(o \div Unit, more), bytes)
           new == Parse(frame)
<1>1. /\ cutting # NoCall
      /\ fragments' = [fragments EXCEPT ![p] = @ \cup {frame}]
      /\ cutting' = IF o + n < t THEN [cutting EXCEPT !.offset = o + n] ELSE NoCall
      /\ total' = total /\ fragments_' = fragments_
    BY DEF FragmentLoop
<1>2. /\ Unit \in Nat \ {0} /\ SizeMod \in Nat /\ NoPacket \notin Packet
      /\ OffMod \in Nat /\ Lengths \subseteq Nat
    BY NumbersAssumption
<1>3. /\ p \in Packet /\ o \in Multiples /\ o \in Nat /\ o < t
      /\ size \in Multiples /\ size \in Nat /\ size < SizeMod /\ (o = 0 \/ size < t)
      /\ cutting = [packet |-> p, size |-> size, offset |-> o]
    BY <1>1, MultiplesAdd DEF FragmentInv, CallOK
<1>4. t \in Nat /\ t <= OffMod * Unit /\ 2 * t <= SizeMod
    <2>1. t \in {0} \cup Lengths
        BY <1>3 DEF FragmentInv, SendType
    <2>2. t # 0
        BY <1>2, <1>3, <2>1
    <2> QED BY <1>2, <2>1, <2>2 DEF LengthsFit
<1>5. last <=> o + size >= t
    <2> DEFINE s == o + size
    <2>1. s \in Nat /\ s < SizeMod
        BY <1>2, <1>3, <1>4
    <2>2. last <=> s % SizeMod >= t
        BY DEF IsLast
    <2> HIDE DEF s, last
    <2>3. s % SizeMod = s
        BY <1>2, <2>1
    <2> QED BY <2>2, <2>3 DEF s
<1>6. /\ n \in Nat /\ o + n <= t
      /\ last => o + n = t
      /\ ~last => o + n < t /\ n = size
    BY <1>3, <1>4, <1>5
<1>7. o < OffMod * Unit
    BY <1>2, <1>3, <1>4
<1> HIDE DEF last, n
<1>8. KeyOf(new) = o /\ (More(new) <=> ~last) /\ new.payload = [i \in 1..n |-> <<p, o + i>>]
    <2>1. more \in BOOLEAN
        OBVIOUS
    <2> HIDE DEF more, bytes
    <2>2. KeyOf(new) = o /\ (More(new) <=> more) /\ new.payload = bytes
        BY <1>3, <1>7, <2>1, ParsedFragment
    <2> QED BY <2>2 DEF more, bytes
<1> HIDE DEF new, frame
<1>9. Len(new.payload) = n
    BY <1>6, <1>8
<1>10. /\ Received(p)' = Received(p) \cup {new}
       /\ \A q \in Packet \ {p} : Received(q)' = Received(q)
    <2>1. fragments'[p] = fragments[p] \cup {frame}
        BY <1>1, <1>3 DEF FragmentInv, SendType
    <2>2. \A q \in Packet \ {p} : fragments'[q] = fragments[q]
        BY <1>1 DEF FragmentInv, SendType
    <2> QED BY <2>1, <2>2 DEF Received, new
<1>11. /\ Done(p) = o /\ Done(p)' = o + n
       /\ \A q \in Packet \ {p} : Done(q)' = Done(q) /\ (Cut(q)' <=> Cut(q))
       /\ ~Cut(p) /\ (Cut(p)' => last)
       /\ o + n < t => cutting'.packet = p /\ cutting'.size = size
    <2>1. CASE o + n < t
        <3>1. cutting' = [packet |-> p, size |-> size, offset |-> o + n]
            BY <1>1, <1>3, <2>1
        <3>2. cutting'.packet = p /\ cutting'.offset = o + n /\ cutting'.size = size
            BY <3>1
        <3> QED BY <1>1, <3>2 DEF Done, Cut
    <2>2. CASE ~(o + n < t)
        <3>1. cutting' = NoCall /\ NoCall.packet = NoPacket
            BY <1>1, <2>2 DEF NoCall
        <3>2. o + n = t /\ last
            BY <1>3, <1>4, <1>6, <2>2
        <3> QED BY <1>1, <1>2, <1>3, <3>1, <3>2 DEF Done, Cut
    <2> QED BY <2>1, <2>2
<1>12. CallOK'
    <2> SUFFICES ASSUME cutting' # NoCall PROVE CallOK'
        BY DEF CallOK
    <2>1. o + n < t
        BY <1>1
    <2>2. n = size
        BY <1>3, <1>4, <1>6, <2>1
    <2>3. cutting' = [packet |-> p, size |-> size, offset |-> o + n]
        BY <1>1, <1>3, <2>1
    <2>4. o + n \in Multiples
        BY <1>3, <2>2, MultiplesAdd
    <2>5. size < t
        BY <1>3, <1>4, <2>1, <2>2
    <2>6. total'[p] = t
        BY <1>1
    <2> QED BY <1>3, <2>1, <2>3, <2>4, <2>5, <2>6 DEF CallOK
<1>13. SendType'
    BY <1>1 DEF FragmentInv, SendType
<1>14. \A g \in Received(p) : IsPiece(g, p)
    BY <1>3 DEF FragmentInv, Pieces
<1>15. Pieces'
    <2>1. ASSUME NEW g \in Received(p) PROVE IsPiece(g, p)'
        <3>1. /\ KeyOf(g) \in Multiples /\ KeyOf(g) < t /\ Len(g.payload) \in Nat
              /\ KeyOf(g) + Len(g.payload) <= o
              /\ g.payload = [i \in 1..Len(g.payload) |-> <<p, KeyOf(g) + i>>]
              /\ More(g) <=> KeyOf(g) + Len(g.payload) < t
              /\ Len(g.payload) = 0 => size = 0
            BY <1>11, <1>14 DEF IsPiece
        <3>2. KeyOf(g) \in Nat
            BY <3>1, MultiplesAdd
        <3>3. KeyOf(g) + Len(g.payload) <= o + n
            BY <1>3, <1>6, <3>1, <3>2
        <3>4. size = 0 => o + n < t
            BY <1>3, <1>4, <1>5, <1>6
        <3>5. Len(g.payload) = 0 => cutting'.packet = p /\ cutting'.size = 0
            BY <1>11, <3>1, <3>4
        <3> QED BY <1>1, <1>11, <3>1, <3>3, <3>5 DEF IsPiece, KeyOf, OffsetOf, More
    <2>2. IsPiece(new, p)'
        <3>1. Len(new.payload) = 0 => o + n < t /\ size = 0
            BY <1>3, <1>4, <1>6, <1>9
        <3>2. Len(new.payload) = 0 => cutting'.packet = p /\ cutting'.size = 0
            BY <1>11, <3>1
        <3>3. /\ KeyOf(new) \in Multiples /\ KeyOf(new) < t /\ Len(new.payload) \in Nat
              /\ KeyOf(new) + Len(new.payload) <= o + n
              /\ new.payload = [i \in 1..Len(new.payload) |-> <<p, KeyOf(new) + i>>]
            BY <1>3, <1>6, <1>8, <1>9
        <3>4. More(new) <=> KeyOf(new) + Len(new.payload) < t
            BY <1>3, <1>4, <1>6, <1>8, <1>9
        <3> QED BY <1>1, <1>11, <3>2, <3>3, <3>4 DEF IsPiece, KeyOf, OffsetOf, More
    <2>3. ASSUME NEW q \in Packet \ {p}, NEW g \in Received(q) PROVE IsPiece(g, q)'
        <3>1. IsPiece(g, q) /\ cutting.packet # q
            BY DEF FragmentInv, Pieces
        <3> QED BY <1>1, <1>11, <3>1 DEF IsPiece, KeyOf, OffsetOf, More
    <2> QED BY <1>3, <1>10, <2>1, <2>2, <2>3 DEF Pieces
<1>16. Covered'
    <2>1. ASSUME NEW i \in 1..Done(p)' PROVE \E g \in Received(p)' : Carries(g, p, i)
        <3>1. CASE i <= o
            <4>1. \E g \in Received(p) : Carries(g, p, i)
                BY <1>3, <1>11, <3>1 DEF FragmentInv, Covered
            <4> QED BY <1>10, <4>1
        <3>2. CASE i > o
            <4>1. i \in Nat /\ i <= o + n /\ i - o \in 1..n /\ o + (i - o) = i
                BY <1>3, <1>6, <1>11, <3>2
            <4>2. new.payload[i - o] = <<p, i>>
                BY <1>8, <4>1
            <4>3. Carries(new, p, i)
                BY <1>3, <1>6, <1>8, <1>9, <3>2, <4>1, <4>2 DEF Carries
            <4> QED BY <1>10, <4>3
        <3> QED BY <1>3, <1>6, <1>11, <3>1, <3>2
    <2>2. ASSUME NEW q \in Packet \ {p}, NEW i \in 1..Done(q)'
          PROVE  \E g \in Received(q)' : Carries(g, q, i)
        BY <1>10, <1>11 DEF FragmentInv, Covered
    <2> QED BY <1>3, <2>1, <2>2 DEF Covered, Carries, KeyOf, OffsetOf
<1>17. Apart'
    <2>1. ASSUME NEW f \in Received(p)', NEW g \in Received(p)', KeyOf(f) < KeyOf(g)
          PROVE  KeyOf(f) + Len(f.payload) <= KeyOf(g)
        <3>1. \A h \in Received(p) :
                 KeyOf(h) \in Nat /\ Len(h.payload) \in Nat /\ KeyOf(h) + Len(h.payload) <= o
            BY <1>11, <1>14, MultiplesAdd DEF IsPiece
        <3>2. CASE f \in Received(p) /\ g \in Received(p)
            BY <1>3, <2>1, <3>2 DEF FragmentInv, Apart
        <3>3. CASE f \in Received(p) /\ g = new
            BY <1>8, <3>1, <3>3
        <3>4. CASE f = new
            BY <1>3, <1>8, <1>10, <2>1, <3>1, <3>4
        <3> QED BY <1>10, <3>2, <3>3, <3>4
    <2>2. ASSUME NEW q \in Packet \ {p}, NEW f \in Received(q)', NEW g \in Received(q)',
                 KeyOf(f) < KeyOf(g)
          PROVE  KeyOf(f) + Len(f.payload) <= KeyOf(g)
        BY <1>10, <2>2 DEF FragmentInv, Apart
    <2> QED BY <1>3, <2>1, <2>2 DEF Apart, KeyOf, OffsetOf
<1>18. LastIsMarked'
    <2>1. Cut(p)' => \E g \in Received(p)' : ~More(g)
        BY <1>8, <1>10, <1>11
    <2>2. \A q \in Packet \ {p} : Cut(q)' => \E g \in Received(q)' : ~More(g)
        BY <1>10, <1>11 DEF FragmentInv, LastIsMarked
    <2> QED BY <1>3, <2>1, <2>2 DEF LastIsMarked, More
<1>19. MapOK'
    <2> SUFFICES ASSUME NEW k \in DOMAIN fragments_
                 PROVE  \E q \in Packet : Cut(q)' /\ \E g \in Received(q)' :
                            KeyOf(g) = k /\ fragments_[k].data = g.payload
        BY <1>1 DEF MapOK, KeyOf, OffsetOf
    <2>1. PICK q \in Packet : Cut(q) /\ \E g \in Received(q) :
                            KeyOf(g) = k /\ fragments_[k].data = g.payload
        BY DEF FragmentInv, MapOK
    <2>2. q # p
        BY <1>11, <2>1
    <2> QED BY <1>10, <1>11, <2>1, <2>2
<1> QED BY <1>12, <1>13, <1>15, <1>16, <1>17, <1>18, <1>19 DEF FragmentInv

\* What the receiver does changes the map alone.
LEMMA ReceiverStep ==
    ASSUME FragmentInv, UNCHANGED sendvars, MapOK'
    PROVE  FragmentInv'
<1>1. CallOK' /\ SendType'
    BY DEF FragmentInv, sendvars, CallOK, SendType
<1>2. Pieces' /\ Covered'
    BY DEF FragmentInv, sendvars, Pieces, IsPiece, Received, KeyOf, OffsetOf, More,
           Done, Covered, Carries
<1>3. Apart' /\ LastIsMarked'
    BY DEF FragmentInv, sendvars, Apart, LastIsMarked, Received, KeyOf, OffsetOf,
           More, Cut
<1> QED BY <1>1, <1>2, <1>3 DEF FragmentInv

\* A map whose entries keep their data, or are those of parsed fragments, is
\* one of pieces.
LEMMA MapStep ==
    ASSUME FragmentInv, UNCHANGED sendvars,
           \A k \in DOMAIN fragments_' :
              \/ k \in DOMAIN fragments_ /\ fragments_'[k].data = fragments_[k].data
              \/ \E p \in Packet : Cut(p) /\ \E g \in Received(p) :
                    KeyOf(g) = k /\ fragments_'[k].data = g.payload
    PROVE  FragmentInv'
<1>1. \A k \in DOMAIN fragments_' : \E p \in Packet : Cut(p) /\ \E g \in Received(p) :
          KeyOf(g) = k /\ fragments_'[k].data = g.payload
    BY DEF FragmentInv, MapOK
<1>2. \A p : Cut(p)' = Cut(p) /\ Received(p)' = Received(p)
    BY DEF sendvars, Cut, Received
<1>3. MapOK'
    BY <1>1, <1>2 DEF MapOK, KeyOf, OffsetOf
<1> QED BY <1>3, ReceiverStep

\* Cutting and receiving keep the invariant.
LEMMA FragmentStep ==
    ASSUME LengthsFit
    PROVE  FragmentInv /\ [Next]_vars => FragmentInv'
<1> SUFFICES ASSUME FragmentInv, [Next]_vars PROVE FragmentInv'
    OBVIOUS
<1>1. CASE \E p \in Packet, len \in Lengths, mtu \in Mtus : FragmentStart(p, len, mtu)
    BY <1>1, StartStep
<1>2. CASE FragmentLoop
    BY <1>2, LoopStep
<1>3. ASSUME NEW p \in Packet, Cut(p), NEW f \in fragments[p], AddFragment(Parse(f))
      PROVE  FragmentInv'
    <2> DEFINE g == Parse(f)
    <2>1. g \in Received(p)
        BY DEF Received
    <2>2. /\ fragments_' = [k \in DOMAIN fragments_ \cup {KeyOf(g)} |->
                  IF k = KeyOf(g) THEN [data |-> g.payload, age |-> 0] ELSE fragments_[k]]
          /\ UNCHANGED sendvars
        BY <1>3 DEF AddFragment
    <2> HIDE DEF g
    <2>3. ASSUME NEW k \in DOMAIN fragments_'
          PROVE  \/ k = KeyOf(g) /\ fragments_'[k].data = g.payload
                 \/ k \in DOMAIN fragments_ /\ fragments_'[k].data = fragments_[k].data
        BY <2>2
    <2> QED BY <1>3, <2>1, <2>2, <2>3, MapStep
<1>4. CASE Reassemble
    <2>1. UNCHANGED sendvars /\ (fragments_' = NoFragments \/ fragments_' = fragments_)
        BY <1>4 DEF Reassemble
    <2>2. \A k \in DOMAIN fragments_' :
             k \in DOMAIN fragments_ /\ fragments_'[k].data = fragments_[k].data
        BY <2>1 DEF NoFragments
    <2> QED BY <2>1, <2>2, MapStep
<1>5. CASE Cleanup
    <2>1. UNCHANGED sendvars
        BY <1>5 DEF Cleanup
    <2>2. \A k \in DOMAIN fragments_' :
             k \in DOMAIN fragments_ /\ fragments_'[k].data = fragments_[k].data
        BY <1>5 DEF Cleanup, Kept
    <2> QED BY <2>1, <2>2, MapStep
<1>6. CASE Tick
    <2>1. UNCHANGED sendvars
        BY <1>6 DEF Tick
    <2>2. \A k \in DOMAIN fragments_' :
             k \in DOMAIN fragments_ /\ fragments_'[k].data = fragments_[k].data
        BY <1>6 DEF Tick
    <2> QED BY <2>1, <2>2, MapStep
<1>7. CASE UNCHANGED vars
    BY <1>7, MapStep DEF vars, sendvars
<1> QED BY <1>1, <1>2, <1>3, <1>4, <1>5, <1>6, <1>7 DEF Next

\* The parts of the invariant hold together, with fragments in the map in any
\* order, repeated, lost and expired.
THEOREM FragmentInvariant ==
    ASSUME LengthsFit
    PROVE  Spec => []FragmentInv
<1>1. Init => FragmentInv
    <2> SUFFICES ASSUME Init PROVE FragmentInv
        OBVIOUS
    <2>1. \A p \in Packet : total[p] = 0 /\ Received(p) = {} /\ ~Cut(p) /\ Done(p) = 0
        BY NumbersAssumption DEF Init, Received, Cut, Done, NoCall
    <2>2. SendType /\ CallOK /\ MapOK
        BY DEF Init, SendType, CallOK, MapOK, NoFragments
    <2> QED BY <2>1, <2>2 DEF FragmentInv, Pieces, Covered, Apart, LastIsMarked
<1> QED BY <1>1, FragmentStep, PTL DEF Spec

\* What fragment_packet() returns is the packet, for every length and MTU: no
\* gap, no overlap, and the more-fragments flag where it belongs.
THEOREM FragmentsAreTiled ==
    ASSUME LengthsFit
    PROVE  Spec => []FragmentsTile
<1>1. FragmentInv => FragmentsTile
    <2> SUFFICES ASSUME FragmentInv, NEW p \in Packet, Cut(p)
                 PROVE  /\ \A i \in 1..total[p] : \E f \in Received(p) : Carries(f, p, i)
                        /\ \A f, g \in Received(p) : KeyOf(f) < KeyOf(g) =>
                              More(f) /\ KeyOf(f) + Len(f.payload) <= KeyOf(g)
                        /\ \E f \in Received(p) : ~More(f)
        BY DEF FragmentsTile
    <2>1. Done(p) = total[p]
        BY DEF Cut, Done
    <2>2. \A i \in 1..total[p] : \E f \in Received(p) : Carries(f, p, i)
        BY <2>1 DEF FragmentInv, Covered
    <2>3. ASSUME NEW f \in Received(p), NEW g \in Received(p), KeyOf(f) < KeyOf(g)
          PROVE  More(f) /\ KeyOf(f) + Len(f.payload) <= KeyOf(g)
        <3>1. KeyOf(f) + Len(f.payload) <= KeyOf(g)
            BY <2>3 DEF FragmentInv, Apart
        <3>2. IsPiece(f, p) /\ IsPiece(g, p)
            BY DEF FragmentInv, Pieces
        <3>3. KeyOf(g) < total[p] /\ KeyOf(g) \in Nat /\ KeyOf(f) \in Nat
            BY <3>2, MultiplesAdd DEF IsPiece
        <3>4. total[p] \in Nat
            BY NumbersAssumption DEF FragmentInv, SendType
        <3> QED BY <3>1, <3>2, <3>3, <3>4 DEF IsPiece
    <2> QED BY <2>2, <2>3 DEF FragmentInv, LastIsMarked
<1> QED BY <1>1, FragmentInvariant, PTL

-----------------------------------------------------------------------------
(* Reassembly                                                              *)

\* The largest member of a set that has one.
LEMMA LargestIs ==
    ASSUME NEW S, NEW x \in S, x \in Int, \A y \in S : y \in Int /\ y <= x
    PROVE  Largest(S) = x
<1> DEFINE largest == Largest(S)
<1>1. largest \in S /\ \A y \in S : y <= largest
    BY DEF Largest
<1> HIDE DEF largest
<1>2. largest \in Int /\ largest <= x /\ x <= largest
    BY <1>1
<1>3. largest = x
    BY <1>2
<1> QED BY <1>3 DEF largest

\* A map with the fragments of one packet holds each under its own key: the
\* first byte of a fragment tells the packet and the place.
LEMMA MapIsPacket ==
    ASSUME FragmentInv, NEW p \in Packet, Cut(p),
           {fragments_[k].data : k \in DOMAIN fragments_} = {f.payload : f \in fragments[p]}
    PROVE  /\ \A k \in DOMAIN fragments_ : \E g \in Received(p) :
                 KeyOf(g) = k /\ fragments_[k].data = g.payload
           /\ \A g \in Received(p) : KeyOf(g) \in DOMAIN fragments_
                 /\ fragments_[KeyOf(g)].data = g.payload
<1>1. {f.payload : f \in fragments[p]} = {g.payload : g \in Received(p)}
    <2>1. \A f : Parse(f).payload = f.payload
        BY DEF Parse
    <2> QED BY <2>1 DEF Received
<1>2. ASSUME NEW q \in Packet, Cut(q), NEW h \in Received(q), NEW g \in Received(p),
             h.payload = g.payload
      PROVE  q = p /\ KeyOf(h) = KeyOf(g)
    <2>1. IsPiece(h, q) /\ IsPiece(g, p) /\ cutting.packet # q
        BY <1>2 DEF FragmentInv, Pieces, Cut
    <2>2. Len(h.payload) \in Nat /\ Len(h.payload) # 0
        BY <2>1 DEF IsPiece
    <2>3. 1 \in 1..Len(h.payload)
        BY <2>2
    <2>4. h.payload[1] = <<q, KeyOf(h) + 1>> /\ g.payload[1] = <<p, KeyOf(g) + 1>>
        BY <1>2, <2>1, <2>3 DEF IsPiece
    <2>5. q = p /\ KeyOf(h) + 1 = KeyOf(g) + 1
        BY <1>2, <2>4
    <2>6. KeyOf(h) \in Nat /\ KeyOf(g) \in Nat
        BY <2>1, MultiplesAdd DEF IsPiece
    <2> QED BY <2>5, <2>6
<1>3. ASSUME NEW k \in DOMAIN fragments_
      PROVE  \E g \in Received(p) : KeyOf(g) = k /\ fragments_[k].data = g.payload
    <2>1. PICK q \in Packet : Cut(q) /\ \E h \in Received(q) :
              KeyOf(h) = k /\ fragments_[k].data = h.payload
        BY DEF FragmentInv, MapOK
    <2>2. PICK h \in Received(q) : KeyOf(h) = k /\ fragments_[k].data = h.payload
        BY <2>1
    <2>3. PICK g \in Received(p) : fragments_[k].data = g.payload
        BY <1>1
    <2> QED BY <1>2, <2>1, <2>2, <2>3
<1>4. ASSUME NEW g \in Received(p)
      PROVE  KeyOf(g) \in DOMAIN fragments_ /\ fragments_[KeyOf(g)].data = g.payload
    <2>1. PICK k \in DOMAIN fragments_ : fragments_[k].data = g.payload
        BY <1>1
    <2>2. PICK h \in Received(p) : KeyOf(h) = k /\ fragments_[k].data = h.payload
        BY <1>3
    <2>3. KeyOf(h) = KeyOf(g)
        BY <1>2, <2>1, <2>2
    <2> QED BY <2>1, <2>2, <2>3
<1> QED BY <1>3, <1>4

\* Such a map is the packet, once its header is taken off.
LEMMA MergedIsPacket ==
    ASSUME FragmentInv, NEW p \in Packet, Cut(p),
           {fragments_[k].data : k \in DOMAIN fragments_} = {f.payload : f \in fragments[p]}
    PROVE  IsComplete(fragments_) /\ PayloadsLeft(Merged(fragments_)) = {PayloadOf(p)}
<1> DEFINE t == total[p]
           size(k) == Len(fragments_[k].data)
<1>1. t \in Nat /\ t > 0 /\ t >= Header /\ Header \in Nat
    <2>1. t \in {0} \cup Lengths /\ t > 0
        BY DEF FragmentInv, SendType, Cut
    <2>2. Header \in Nat /\ Lengths \subseteq Nat \ {0} /\ \A len \in Lengths : len >= Header
        BY NumbersAssumption
    <2>3. t \in Lengths
        BY <2>1
    <2> QED BY <2>1, <2>2, <2>3
<1>2. Done(p) = t
    BY DEF Cut, Done
<1>3. ASSUME NEW k \in DOMAIN fragments_
      PROVE  /\ k \in Nat /\ size(k) \in Nat /\ k + size(k) <= t
             /\ fragments_[k].data = [i \in 1..size(k) |-> <<p, k + i>>]
    <2>1. PICK g \in Received(p) : KeyOf(g) = k /\ fragments_[k].data = g.payload
        BY MapIsPacket
    <2>2. IsPiece(g, p)
        BY DEF FragmentInv, Pieces
    <2> QED BY <1>2, <2>1, <2>2, MultiplesAdd DEF IsPiece
<1>4. ASSUME NEW i \in 1..t
      PROVE  \E k \in DOMAIN fragments_ : k < i /\ i <= k + size(k)
    <2>1. PICK g \in Received(p) : Carries(g, p, i)
        BY <1>2 DEF FragmentInv, Covered
    <2>2. KeyOf(g) \in DOMAIN fragments_ /\ fragments_[KeyOf(g)].data = g.payload
        BY MapIsPacket
    <2> QED BY <2>1, <2>2 DEF Carries
<1>5. ASSUME NEW j \in DOMAIN fragments_, NEW k \in DOMAIN fragments_, j < k
      PROVE  j + size(j) <= k
    <2>1. PICK g \in Received(p) : KeyOf(g) = j /\ fragments_[j].data = g.payload
        BY MapIsPacket
    <2>2. PICK h \in Received(p) : KeyOf(h) = k /\ fragments_[k].data = h.payload
        BY MapIsPacket
    <2> QED BY <1>5, <2>1, <2>2 DEF FragmentInv, Apart
<1> HIDE DEF t, size
<1>6. \A k \in DOMAIN fragments_ : k \in Nat /\ size(k) \in Nat /\ k + size(k) <= t
    BY <1>3
<1>7. End(fragments_) = t
    <2> DEFINE ends == {k + size(k) : k \in DOMAIN fragments_}
    <2>1. PICK k \in DOMAIN fragments_ : k < t /\ t <= k + size(k)
        BY <1>1, <1>4
    <2>2. k + size(k) = t
        BY <1>1, <1>6, <2>1
    <2>3. t \in ends
        BY <2>2
    <2>4. \A y \in ends : y \in Int /\ y <= t
        BY <1>1, <1>6
    <2> HIDE DEF ends
    <2>5. Largest(ends) = t
        BY <1>1, <2>3, <2>4, LargestIs
    <2> QED BY <2>5 DEF End, ends, size
<1>8. IsComplete(fragments_)
    <2>1. DOMAIN fragments_ # {}
        BY <1>1, <1>4
    <2> QED BY <1>1, <1>7, <2>1 DEF IsComplete
<1> DEFINE bytes == [i \in 1..t |-> <<p, i>>]
<1>9. Merged(fragments_) = bytes
    <2>1. ASSUME NEW i \in 1..t
          PROVE  /\ Covering(fragments_, i) # {}
                 /\ fragments_[Largest(Covering(fragments_, i))].data
                       [i - Largest(Covering(fragments_, i))] = <<p, i>>
        <3>1. PICK k \in DOMAIN fragments_ : k < i /\ i <= k + size(k)
            BY <1>4
        <3>2. k \in Covering(fragments_, i)
            BY <3>1 DEF Covering, size
        <3>3. ASSUME NEW j \in Covering(fragments_, i) PROVE j \in Int /\ j <= k
            <4>1. j \in DOMAIN fragments_ /\ j < i /\ i <= j + size(j)
                BY DEF Covering, size
            <4>2. j \in Nat /\ k \in Nat /\ i \in Nat /\ size(j) \in Nat
                BY <1>1, <1>6, <4>1
            <4>3. k < j => k + size(k) <= j
                BY <1>5, <4>1
            <4>4. k + size(k) \in Int
                BY <1>6
            <4> QED BY <3>1, <4>1, <4>2, <4>3, <4>4
        <3>4. Largest(Covering(fragments_, i)) = k
            BY <1>6, <3>2, <3>3, LargestIs
        <3>5. i - k \in 1..size(k) /\ k + (i - k) = i
            <4>1. k \in Nat /\ size(k) \in Nat
                BY <1>6
            <4> QED BY <3>1, <4>1
        <3>6. fragments_[k].data[i - k] = <<p, i>>
            BY <1>3, <3>5
        <3> QED BY <3>2, <3>4, <3>6
    <2> QED BY <1>7, <2>1 DEF Merged
<1>10. bytes \in Seq({p} \X Nat) /\ Len(bytes) = t /\ bytes[1] = <<p, 1>>
    BY <1>1
<1>11. HeaderSizes(bytes) = {Header}
    <2>1. bytes[1] # Hole /\ bytes[1][2] = 1
        BY <1>10 DEF Hole
    <2> HIDE DEF bytes
    <2> QED BY <2>1 DEF HeaderSizes
<1>12. SubSeq(bytes, Header + 1, t) = PayloadOf(p)
    <2>1. PayloadOf(p) = [i \in 1..t - Header |-> <<p, Header + i>>]
        BY DEF PayloadOf, t
    <2> QED BY <1>1, <2>1
<1>13. PayloadsLeft(bytes) = {SubSeq(bytes, Header + 1, t)}
    <2> HIDE DEF bytes
    <2> QED BY <1>1, <1>10, <1>11 DEF PayloadsLeft
<1> QED BY <1>8, <1>9, <1>12, <1>13

\* Whatever has happened to the map before: when it holds the fragments of one
\* packet and no others, reassemble() gives that packet back.
THEOREM WholePacketsReassemble ==
    ASSUME LengthsFit
    PROVE  Spec => WholeReassembles
<1>1. FragmentInv
        => [\A p \in Packet :
              (/\ Cut(p) /\ Reassemble
               /\ {fragments_[k].data : k \in DOMAIN fragments_}
                     = {f.payload : f \in fragments[p]})
                  => out' = PayloadOf(p)]_vars
    BY MergedIsPacket DEF Reassemble
<1> QED BY <1>1, FragmentInvariant, PTL DEF WholeReassembles

\* A set of numbers with a bound has a largest one.
LEMMA BoundedLargest ==
    ASSUME NEW S, S \subseteq Nat, S # {}, NEW n \in Nat, \A x \in S : x <= n
    PROVE  Largest(S) \in S /\ \A x \in S : x <= Largest(S)
<1> DEFINE R == OpToRel(<, Nat)
           T == {n - x : x \in S}
<1>1. IsWellFoundedOn(R, Nat)
    BY NatLessThanWellFounded, Zenon
<1>2. \A y, z \in Nat : y < z => <<y, z>> \in R
    BY DEF OpToRel
<1>3. T \subseteq Nat /\ T # {}
    <2>1. \A x \in S : n - x \in Nat
        OBVIOUS
    <2>2. PICK x \in S : TRUE
        OBVIOUS
    <2>3. n - x \in T
        OBVIOUS
    <2> QED BY <2>1, <2>3
<1> HIDE DEF R, T
<1>4. PICK z \in T : \A y \in T : ~(<<y, z>> \in R)
    BY <1>1, <1>3, WFMin
<1>5. \A y \in T : z <= y
    <2> SUFFICES ASSUME NEW y \in T, y < z PROVE FALSE
        BY <1>3
    <2> QED BY <1>2, <1>3, <1>4
<1>6. PICK x \in S : z = n - x
    BY DEF T
<1>7. \A y \in S : y <= x
    <2> SUFFICES ASSUME NEW y \in S PROVE y <= x
        OBVIOUS
    <2>1. n - y \in T
        BY DEF T
    <2>2. n - x <= n - y
        BY <1>5, <1>6, <2>1
    <2> QED BY <2>2
<1> QED BY <1>7 DEF Largest

\* Every entry of the map lies in the bytes of a packet, each at its place.
LEMMA EntriesInPlace ==
    ASSUME LengthsFit, FragmentInv, NEW k \in DOMAIN fragments_
    PROVE  /\ k \in Nat /\ Len(fragments_[k].data) \in Nat
           /\ k + Len(fragments_[k].data) <= OffMod * Unit
           /\ \E p \in Packet :
                 fragments_[k].data = [i \in 1..Len(fragments_[k].data) |-> <<p, k + i>>]
<1>0. PICK p \in Packet : Cut(p) /\ \E g \in Received(p) :
          KeyOf(g) = k /\ fragments_[k].data = g.payload
    BY DEF FragmentInv, MapOK
<1>1. PICK g \in Received(p) : Cut(p) /\ KeyOf(g) = k /\ fragments_[k].data = g.payload
    BY <1>0
<1>2. IsPiece(g, p)
    BY DEF FragmentInv, Pieces
<1>3. Done(p) = total[p] /\ total[p] \in Lengths
    BY <1>1 DEF Cut, Done, FragmentInv, SendType
<1> DEFINE most == OffMod * Unit
<1>4. total[p] <= most /\ total[p] \in Nat /\ most \in Nat
    <2>1. most \in Nat /\ Lengths \subseteq Nat
        BY NumbersAssumption
    <2>2. \A len \in Lengths : len <= most
        BY DEF LengthsFit
    <2> QED BY <1>3, <2>1, <2>2
<1>5. k \in Nat /\ Len(fragments_[k].data) \in Nat /\ k + Len(fragments_[k].data) <= total[p]
    BY <1>1, <1>2, <1>3, MultiplesAdd DEF IsPiece
<1>6. fragments_[k].data = [i \in 1..Len(fragments_[k].data) |-> <<p, k + i>>]
    BY <1>1, <1>2 DEF IsPiece
<1>7. k + Len(fragments_[k].data) <= most
    <2> HIDE DEF most
    <2> QED BY <1>4, <1>5
<1> QED BY <1>5, <1>6, <1>7

\* What is put together is a sequence in which every byte has its place.
LEMMA MergedInPlace ==
    ASSUME LengthsFit, FragmentInv, IsComplete(fragments_)
    PROVE  /\ End(fragments_) \in Nat
           /\ Merged(fragments_) = [i \in 1..End(fragments_) |-> Merged(fragments_)[i]]
           /\ \A i \in 1..End(fragments_) :
                 Merged(fragments_)[i] = Hole \/ Merged(fragments_)[i][2] = i
<1> DEFINE size(k) == Len(fragments_[k].data)
           ends == {k + size(k) : k \in DOMAIN fragments_}
           most == OffMod * Unit
<1>1. most \in Nat
    BY NumbersAssumption
<1>2. \A k \in DOMAIN fragments_ : k \in Nat /\ size(k) \in Nat /\ k + size(k) <= most
    BY EntriesInPlace
<1>3. End(fragments_) \in Nat
    <2>1. ends \subseteq Nat /\ ends # {} /\ \A x \in ends : x <= most
        BY <1>2 DEF IsComplete
    <2>2. End(fragments_) = Largest(ends)
        BY DEF End
    <2> HIDE DEF ends
    <2> QED BY <1>1, <2>1, <2>2, BoundedLargest
<1>4. Merged(fragments_) = [i \in 1..End(fragments_) |-> Merged(fragments_)[i]]
    BY DEF Merged
<1>5. ASSUME NEW i \in 1..End(fragments_), Covering(fragments_, i) # {}
      PROVE  Merged(fragments_)[i][2] = i
    <2> DEFINE S == Covering(fragments_, i)
               k == Largest(S)
    <2>1. S \subseteq Nat /\ S # {} /\ i \in Nat /\ \A x \in S : x <= i
        BY <1>2, <1>3, <1>5 DEF Covering
    <2>2. k \in S
        <3> HIDE DEF S
        <3> QED BY <2>1, BoundedLargest
    <2>3. k \in DOMAIN fragments_ /\ k < i /\ i <= k + size(k)
        <3> HIDE DEF k
        <3> QED BY <2>2 DEF Covering
    <2>4. Merged(fragments_)[i] = fragments_[k].data[i - k]
        BY <1>5 DEF Merged
    <2> HIDE DEF k, S
    <2>5. k \in Nat /\ size(k) \in Nat /\ i - k \in 1..size(k) /\ k + (i - k) = i
        BY <1>2, <2>1, <2>3
    <2>6. PICK p \in Packet : fragments_[k].data = [j \in 1..size(k) |-> <<p, k + j>>]
        BY <2>3, EntriesInPlace
    <2> HIDE DEF size
    <2>7. fragments_[k].data[i - k] = <<p, k + (i - k)>>
        BY <2>5, <2>6
    <2> QED BY <2>4, <2>5, <2>7
<1>6. ASSUME NEW i \in 1..End(fragments_), Covering(fragments_, i) = {}
      PROVE  Merged(fragments_)[i] = Hole
    BY <1>6 DEF Merged
<1> QED BY <1>3, <1>4, <1>5, <1>6

\* Cutting a header off leaves every byte at its place, the cut counted.
LEMMA PayloadInPlace ==
    ASSUME NEW n \in Nat, NEW bytes, bytes = [i \in 1..n |-> bytes[i]],
           \A i \in 1..n : bytes[i] = Hole \/ bytes[i][2] = i,
           NEW payload \in PayloadsLeft(bytes)
    PROVE  \E cut \in 0..3 * Header :
               \A i \in DOMAIN payload : payload[i] = Hole \/ payload[i][2] = cut + i
<1> DEFINE values == {bytes[i] : i \in 1..n}
<1>1. bytes \in Seq(values) /\ Len(bytes) = n
    <2>1. \A i \in 1..n : bytes[i] \in values
        OBVIOUS
    <2> HIDE DEF values
    <2> QED BY <2>1
<1>2. Header \in Nat
    BY NumbersAssumption
<1>3. CASE payload = <<>>
    BY <1>2, <1>3
<1>4. ASSUME NEW h \in HeaderSizes(bytes), payload = SubSeq(bytes, h + 1, Len(bytes))
      PROVE  \E cut \in 0..3 * Header :
                 \A i \in DOMAIN payload : payload[i] = Hole \/ payload[i][2] = cut + i
    <2>1. h \in 0..3 * Header
        BY <1>2 DEF HeaderSizes
    <2>2. \A i \in DOMAIN payload : i \in Nat /\ h + i \in 1..n /\ payload[i] = bytes[h + i]
        <3> HIDE DEF values
        <3>1. payload = [i \in 1..n - h |-> bytes[h + i]]
            BY <1>1, <1>2, <1>4, <2>1
        <3> QED BY <1>2, <2>1, <3>1
    <2> HIDE DEF values
    <2>3. ASSUME NEW i \in DOMAIN payload
          PROVE  payload[i] = Hole \/ payload[i][2] = h + i
        <3>1. h + i \in 1..n /\ payload[i] = bytes[h + i]
            BY <2>2
        <3>2. bytes[h + i] = Hole \/ bytes[h + i][2] = h + i
            BY <3>1
        <3> QED BY <3>1, <3>2
    <2> QED BY <2>1, <2>3
<1> QED BY <1>3, <1>4 DEF PayloadsLeft

\* Whatever cleanups took from a packet, and whatever other packets' fragments
\* lie between: no byte that reassemble() gives has moved.
THEOREM BytesKeepPlace ==
    ASSUME LengthsFit
    PROVE  Spec => []BytesStayInPlace
<1>1. Init => BytesStayInPlace
    <2>1. 0 \in 0..3 * Header
        BY NumbersAssumption
    <2> QED BY <2>1 DEF Init, BytesStayInPlace
<1>2. FragmentInv /\ BytesStayInPlace /\ [Next]_vars => BytesStayInPlace'
    <2> SUFFICES ASSUME FragmentInv, BytesStayInPlace, [Next]_vars
                 PROVE  BytesStayInPlace'
        OBVIOUS
    <2>1. CASE Reassemble
        <3>1. CASE IsComplete(fragments_)
            <4>1. out' \in PayloadsLeft(Merged(fragments_))
                BY <2>1, <3>1 DEF Reassemble
            <4> QED BY <3>1, <4>1, MergedInPlace, PayloadInPlace DEF BytesStayInPlace
        <3>2. CASE ~IsComplete(fragments_)
            <4>1. out' = <<>> /\ 0 \in 0..3 * Header
                BY <2>1, <3>2, NumbersAssumption DEF Reassemble
            <4> QED BY <4>1 DEF BytesStayInPlace
        <3> QED BY <3>1, <3>2
    <2>2. CASE UNCHANGED out
        BY <2>2 DEF BytesStayInPlace
    <2> QED BY <2>1, <2>2 DEF Next, FragmentStart, FragmentLoop, AddFragment, Cleanup,
               Tick, vars
<1> QED BY <1>1, <1>2, FragmentInvariant, PTL DEF Spec
================================================================================
