------------------------ MODULE TCPConnectionProofs ------------------------
(***************************************************************************)
(* Proofs about TCPConnection for every sequence space, segment size,      *)
(* stream and behaviour of the peer.                                       *)
(***************************************************************************)
EXTENDS TCPConnection, FiniteSetTheorems, SequenceTheorems, TLAPS

\* The increment s \div a of congestion avoidance is 0 beyond s and never
\* takes the window past s + 1: (a - 1) * (q - 1) >= 0 with q = s \div a.
LEMMA Increment ==
    ASSUME NEW s \in Nat, NEW a \in Nat, a > 0
    PROVE  /\ s \div a \in Nat
           /\ a > s => s \div a = 0
           /\ a <= s => a + s \div a <= s + 1
<1> DEFINE q == s \div a
<1>1. q \in Nat /\ a * q <= s /\ s < a * (q + 1)
    OBVIOUS
<1> HIDE DEF q
<1>2. ASSUME a > s PROVE q = 0
    <2>1. ASSUME q >= 1 PROVE FALSE
        <3>1. a * q >= a
            BY <1>1, <2>1
        <3> QED BY <1>1, <1>2, <3>1
    <2> QED BY <1>1, <2>1
<1>3. ASSUME a <= s, q >= 1 PROVE a + q <= s + 1
    <2>1. (a - 1) * (q - 1) >= 0
        BY <1>1, <1>3
    <2>2. (a - 1) * (q - 1) = a * q - a - q + 1
        BY <1>1
    <2> QED BY <1>1, <2>1, <2>2
<1>4. ASSUME a <= s, q = 0 PROVE a + q <= s + 1
    BY <1>4
<1> QED BY <1>1, <1>2, <1>3, <1>4 DEF q

CwndInv == cwnd_ \in Nat /\ CwndBounded

\* The congestion window moves only when a segment is handled in ESTABLISHED.
LEMMA CwndMoves ==
    ASSUME [Next]_vars
    PROVE  UNCHANGED cwnd_ \/ UpdateCongestion
<1>1. ASSUME ConnectSend \/ SendFail \/ CloseCheck \/ HandleTimeout
      PROVE  UNCHANGED cwnd_
    BY <1>1 DEF ConnectSend, SendFail, CloseCheck, HandleTimeout, ccvars
<1>2. ASSUME AppStep PROVE UNCHANGED cwnd_
    BY <1>2 DEF AppStep, ConnectStore, SendChunk, CloseStore, ccvars
<1>3. ASSUME NEW size \in SendSizes, SendStart(size) PROVE UNCHANGED cwnd_
    BY <1>3 DEF SendStart, ccvars
<1>4. ASSUME NEW p \in PeerSegments, HandleRead(p) PROVE UNCHANGED cwnd_
    BY <1>4 DEF HandleRead, ccvars
<1>5. ASSUME HandleStep PROVE UNCHANGED cwnd_ \/ UpdateCongestion
    BY <1>5 DEF HandleStep, HandleSyn, HandleSynSent, HandleAck, HandleFin,
       HandleEstablished, HandleIgnored, ccvars
<1> QED BY <1>1, <1>2, <1>3, <1>4, <1>5 DEF Next, vars, ccvars

\* An update of the congestion window keeps its bounds.
LEMMA CwndStep == CwndInv /\ [Next]_vars => CwndInv'
<1> SUFFICES ASSUME CwndInv, UpdateCongestion PROVE CwndInv'
    BY CwndMoves DEF CwndInv, CwndBounded
<1> DEFINE s == MSS * MSS
<1>1. MSS \in Nat /\ MSS > 0 /\ InitSsthresh \in Nat /\ s \in Nat
    BY NumbersAssumption
<1>2. cwnd_ \in Nat /\ cwnd_ >= MSS /\ (cwnd_ <= s + 1 \/ cwnd_ < InitSsthresh + MSS)
    BY DEF CwndInv, CwndBounded
<1>3. CASE UNCHANGED cwnd_
    BY <1>3 DEF CwndInv, CwndBounded
<1>4. CASE cwnd_ < InitSsthresh /\ cwnd_' = cwnd_ + MSS
    BY <1>1, <1>2, <1>4 DEF CwndInv, CwndBounded
<1>5. CASE cwnd_' = cwnd_ + s \div cwnd_
    <2> HIDE DEF s
    <2>1. /\ s \div cwnd_ \in Nat
          /\ cwnd_ > s => s \div cwnd_ = 0
          /\ cwnd_ <= s => cwnd_ + s \div cwnd_ <= s + 1
        BY <1>1, <1>2, Increment
    <2>2. /\ cwnd_' \in Nat /\ cwnd_' >= MSS
          /\ cwnd_' <= s + 1 \/ cwnd_' < InitSsthresh + MSS
        BY <1>1, <1>2, <1>5, <2>1
    <2> QED BY <2>2 DEF CwndInv, CwndBounded, s
<1> QED BY <1>3, <1>4, <1>5 DEF UpdateCongestion

\* The bounds are an invariant by themselves.
LEMMA CwndInvariant == Spec => []CwndInv
<1>1. Init => CwndInv
    BY NumbersAssumption DEF Init, CwndInv, CwndBounded
<1>2. CwndInv /\ [Next]_vars => CwndInv'
    BY CwndStep
<1> QED BY <1>1, <1>2, PTL DEF Spec

\* The congestion window is never below one segment and never above
\* MSS * MSS + 1, or the first value slow start reaches past ssthresh_.
THEOREM CwndIsBounded == Spec => []CwndBounded
<1>1. CwndInv => CwndBounded
    BY DEF CwndInv
<1> QED BY <1>1, CwndInvariant, PTL

-----------------------------------------------------------------------------
(* A connection that begins to close stays closed.                         *)

\* One step keeps what the threads know of state_, and none but connect()'s
\* store of SYN_SENT reopens a connection.
LEMMA FlowStep ==
    ASSUME FlowInv, [Next]_vars
    PROVE  /\ FlowInv'
           /\ state_ \in Closing
                => (state_' \in Closing \/ (~AtomicConnect /\ app = "connecting"))
<1> DEFINE Goal ==
        /\ FlowInv'
        /\ state_ \in Closing
             => (state_' \in Closing \/ (~AtomicConnect /\ app = "connecting"))
<1> USE ModesAssumption
<1> USE DEF FlowInv, ReachableStates, States, Closing, Open
<1>1. ASSUME ConnectSend PROVE Goal
    BY <1>1 DEF ConnectSend
<1>2. ASSUME ConnectStore PROVE Goal
    BY <1>2 DEF ConnectStore
<1>3. ASSUME SendChunk PROVE Goal
    BY <1>3 DEF SendChunk
<1>4. ASSUME CloseStore PROVE Goal
    BY <1>4 DEF CloseStore
<1>5. ASSUME SendFail PROVE Goal
    BY <1>5 DEF SendFail
<1>6. ASSUME CloseCheck PROVE Goal
    BY <1>6 DEF CloseCheck
<1>7. ASSUME HandleTimeout PROVE Goal
    BY <1>7 DEF HandleTimeout
<1>8. ASSUME NEW size \in SendSizes, SendStart(size) PROVE Goal
    BY <1>8 DEF SendStart
<1>9. ASSUME NEW p \in PeerSegments, HandleRead(p) PROVE Goal
    BY <1>9 DEF HandleRead
<1>10. ASSUME HandleStep PROVE Goal
    <2> USE DEF Done, Idle
    <2>1. CASE HandleSyn          BY <2>1 DEF HandleSyn
    <2>2. CASE HandleSynSent      BY <2>2 DEF HandleSynSent
    <2>3. CASE HandleAck          BY <2>3 DEF HandleAck, AckMoves
    <2>4. CASE HandleFin          BY <2>4 DEF HandleFin
    <2>5. CASE HandleEstablished  BY <2>5 DEF HandleEstablished
    <2>6. CASE HandleIgnored      BY <2>6 DEF HandleIgnored
    <2> QED BY <1>10, <2>1, <2>2, <2>3, <2>4, <2>5, <2>6 DEF HandleStep
<1>11. CASE UNCHANGED vars
    BY <1>11 DEF vars
<1> QED BY <1>1, <1>2, <1>3, <1>4, <1>5, <1>6, <1>7, <1>8, <1>9, <1>10,
           <1>11 DEF Next, AppStep

\* What the threads believe of state_ holds whatever the peer sends, with or
\* without packets handled inside connect().
THEOREM FlowIsKept == Spec => []FlowInv
<1>1. Init => FlowInv
    BY DEF Init, FlowInv, ReachableStates, States, Idle, Closing, Open
<1>2. FlowInv /\ [Next]_vars => FlowInv'
    BY FlowStep
<1> QED BY <1>1, <1>2, PTL DEF Spec

\* No race of close(), send() and handle_packet() on state_ reopens a
\* connection that has begun to close; only connect()'s late store can, and
\* not even that when packets wait for connect() to return.
THEOREM ClosingIsFinal == Spec => CloseIsFinal
<1>1. FlowInv /\ [Next]_vars
         => [(state_ \in Closing)
               => (state_' \in Closing \/ (~AtomicConnect /\ app = "connecting"))]_vars
    BY FlowStep
<1> QED BY <1>1, FlowIsKept, PTL DEF Spec, CloseIsFinal

\* While SYN_SENT is stored the peer's answer fits: no SYN crossing ours, refused
\* packet or handshake inside connect() has moved the number it acknowledges.
AnswerFits == state_ = "SYN_SENT" => local_seq_num_ = LocalISN

\* Whoever moves local_seq_num_ opens the connection or finds it open, and then
\* no step closes it so far that connect() could begin again.
LEMMA NumberStep ==
    ASSUME FlowInv, NumberInv, [Next]_vars
    PROVE  NumberInv'
<1> USE DEF NumberInv, Open, Closing
<1>1. ASSUME SendChunk PROVE NumberInv'
    BY <1>1 DEF SendChunk, FlowInv
<1>2. ASSUME ConnectSend \/ ConnectStore \/ CloseStore PROVE NumberInv'
    BY <1>2 DEF ConnectSend, ConnectStore, CloseStore
<1>3. ASSUME HandleSyn \/ HandleSynSent \/ HandleAck \/ HandleFin PROVE NumberInv'
    <2>1. CASE HandleSyn      BY <2>1 DEF HandleSyn, FlowInv, ReachableStates
    <2>2. CASE HandleSynSent  BY <2>2 DEF HandleSynSent, FlowInv
    <2>3. CASE HandleAck      BY <2>3 DEF HandleAck, AckMoves, FlowInv, ReachableStates
    <2>4. CASE HandleFin      BY <2>4 DEF HandleFin
    <2> QED BY <1>3, <2>1, <2>2, <2>3, <2>4
<1>4. ASSUME \/ SendFail \/ CloseCheck \/ HandleTimeout
             \/ \E size \in SendSizes : SendStart(size)
             \/ \E p \in PeerSegments : HandleRead(p)
             \/ HandleEstablished \/ HandleIgnored \/ UNCHANGED vars
      PROVE  NumberInv'
    BY <1>4 DEF SendFail, CloseCheck, HandleTimeout, SendStart, HandleRead,
       HandleEstablished, HandleIgnored, vars
<1> QED BY <1>1, <1>2, <1>3, <1>4 DEF Next, AppStep, HandleStep

\* The initial number stays until a connection is open.
LEMMA NumberInvariant == Spec => []NumberInv
<1>1. Init => NumberInv
    BY DEF Init, NumberInv
<1>2. FlowInv /\ NumberInv /\ [Next]_vars => NumberInv'
    BY NumberStep
<1> QED BY <1>1, <1>2, FlowIsKept, PTL DEF Spec

\* Whatever was handled before SYN_SENT was stored, and whatever was refused
\* since, the number the peer acknowledges is the one handle_packet() expects.
\* It is what HandshakeCompletes rests on beside fairness.
THEOREM AnswersFit == Spec => []AnswerFits
<1>1. NumberInv => AnswerFits
    BY DEF NumberInv, AnswerFits, Open, Closing
<1> QED BY <1>1, NumberInvariant, PTL

-----------------------------------------------------------------------------
(* Sequence numbers: arithmetic modulo SeqMod.                             *)

\* A number is a multiple of SeqMod and what Seq32 leaves of it.
LEMMA SeqDivision ==
    ASSUME NEW n \in Int
    PROVE  /\ Seq32(n) \in SeqNum
           /\ \E q \in Int : n = SeqMod * q + Seq32(n)
<1>1. SeqMod \in Nat /\ SeqMod > 0
    BY NumbersAssumption
<1>2. /\ n % SeqMod \in 0..SeqMod-1
      /\ n \div SeqMod \in Int
      /\ n = SeqMod * (n \div SeqMod) + (n % SeqMod)
    BY <1>1
<1> QED BY <1>2 DEF Seq32, SeqNum

\* A multiple of SeqMod less than SeqMod away from 0 is 0.
LEMMA SeqUnique ==
    ASSUME NEW q \in Int, NEW r \in Int, NEW s \in Int, r - s = SeqMod * q,
           r - s < SeqMod, s - r < SeqMod
    PROVE  r = s
<1>1. SeqMod \in Nat /\ SeqMod > 0
    BY NumbersAssumption
<1>2. CASE q >= 1
    <2>1. SeqMod * q >= SeqMod
        BY <1>1, <1>2
    <2> QED BY <2>1, <1>1
<1>3. CASE q <= -1
    <2>1. SeqMod * q <= -SeqMod
        BY <1>1, <1>3
    <2> QED BY <2>1, <1>1
<1>4. CASE q = 0
    <2>1. SeqMod * q = 0
        BY <1>1, <1>4
    <2> QED BY <2>1
<1> QED BY <1>2, <1>3, <1>4

\* Numbers less than the whole space apart are distinct in it.
LEMMA SeqInjective ==
    ASSUME NEW a \in Int, NEW b \in Int, Seq32(a) = Seq32(b),
           a - b < SeqMod, b - a < SeqMod
    PROVE  a = b
<1>1. SeqMod \in Nat
    BY NumbersAssumption
<1>2. PICK p \in Int : a = SeqMod * p + Seq32(a)
    BY SeqDivision
<1>3. PICK q \in Int : b = SeqMod * q + Seq32(b)
    BY SeqDivision
<1>4. Seq32(a) \in Int
    BY SeqDivision, <1>1 DEF SeqNum
<1>5. SeqMod * (p - q) = SeqMod * p - SeqMod * q
    BY <1>1
<1>6. a - b = SeqMod * (p - q)
    BY <1>1, <1>2, <1>3, <1>4, <1>5
<1>7. p - q \in Int
    OBVIOUS
<1> QED BY <1>6, <1>7, SeqUnique

\* Wrapping early changes nothing.
LEMMA SeqAdd ==
    ASSUME NEW n \in Int, NEW k \in Int
    PROVE  Seq32(Seq32(n) + k) = Seq32(n + k)
<1> DEFINE s == Seq32(n)  t == Seq32(s + k)  u == Seq32(n + k)
<1>1. SeqMod \in Nat
    BY NumbersAssumption
<1>2. PICK p \in Int : n = SeqMod * p + s
    BY SeqDivision
<1>3. s \in SeqNum /\ s \in Int
    BY SeqDivision, <1>1 DEF SeqNum
<1>4. PICK q \in Int : s + k = SeqMod * q + t
    BY SeqDivision, <1>3
<1>5. PICK r \in Int : n + k = SeqMod * r + u
    BY SeqDivision
<1>6. t \in 0..SeqMod-1 /\ u \in 0..SeqMod-1
    BY SeqDivision, <1>3 DEF SeqNum
<1> HIDE DEF s, t, u
<1>7. SeqMod * (r - (p + q)) = SeqMod * r - SeqMod * p - SeqMod * q
    BY <1>1
<1>8. t - u = SeqMod * (r - (p + q))
    BY <1>1, <1>2, <1>3, <1>4, <1>5, <1>6, <1>7
<1>9. r - (p + q) \in Int /\ t \in Int /\ u \in Int /\ t - u < SeqMod /\ u - t < SeqMod
    BY <1>1, <1>6
<1>10. t = u
    BY <1>8, <1>9, SeqUnique
<1> QED BY <1>10 DEF s, t, u

\* A sequence number stays as it is.
LEMMA SeqSmall == ASSUME NEW n \in SeqNum PROVE Seq32(n) = n
<1>1. SeqMod \in Nat /\ n \in 0..SeqMod-1
    BY NumbersAssumption DEF SeqNum
<1>2. n % SeqMod \in 0..SeqMod-1 /\ n = SeqMod * (n \div SeqMod) + (n % SeqMod)
      /\ n \div SeqMod \in Int
    BY <1>1
<1>3. n - (n % SeqMod) = SeqMod * (n \div SeqMod)
    BY <1>1, <1>2
<1> QED BY <1>1, <1>2, <1>3, SeqUnique DEF Seq32

-----------------------------------------------------------------------------
(* What both threads work on is what the peer and send() may produce.      *)

\* A chunk of send() is no longer than a segment and than what is left.
LEMMA ChunkBounds ==
    ASSUME rem \in Nat, tcp_params_.cwnd \in Nat
    PROVE  ChunkSize \in 0..MSS /\ ChunkSize <= rem
<1>1. W16 \in Nat /\ W16 > 0 /\ MSS \in Nat /\ W16 - 1 \in Nat
    BY NumbersAssumption
<1>2. SendWindow \in Nat
    <2>1. tcp_params_.cwnd * MSS \in Nat
        BY <1>1
    <2> QED BY <1>1, <2>1 DEF SendWindow, Least
<1> DEFINE r == rem % W16  w == SendWindow % W16
<1>3. r \in Nat /\ r <= rem /\ w \in Nat
    BY <1>1, <1>2
<1>4. ChunkSize = Least(Least(MSS, r), w)
    BY DEF ChunkSize
<1> HIDE DEF r, w
<1> QED BY <1>1, <1>3, <1>4 DEF Least

\* What the peer sends is numbered by its place in the stream.
LEMMA PeerNumbers ==
    ASSUME NEW p \in PeerSegments
    PROVE  /\ p.seq \in SeqNum /\ p.n \in Nat
           /\ "SYN" \in p.flags => p.seq = PeerISN
           /\ (p.n > 0 /\ "FIN" \notin p.flags) =>
                 /\ p.first \in 1..StreamLen /\ p.first + p.n - 1 <= StreamLen
                 /\ p.seq = Seq32(PeerISN + p.first)
<1>1. PeerISN \in SeqNum /\ StreamLen \in Nat /\ PeerISN \in Int
    BY NumbersAssumption DEF SeqNum
<1>2. CASE p = SynAck(PeerISN, Seq32(LocalISN + 1)) \/ p = Control({"SYN"}, PeerISN, 0)
    BY <1>1, <1>2 DEF SynAck, Control
<1>3. CASE \/ p = Piece({"ACK"}, 1, 0)
           \/ p = Piece({"FIN", "ACK"}, StreamLen + 1, 0)
           \/ p = Piece({"FIN", "ACK"}, StreamLen, 1)
    BY <1>1, <1>3, SeqDivision DEF Piece
<1>4. ASSUME NEW r \in (1..StreamLen) \X (1..2), r[1] + r[2] - 1 <= StreamLen,
             p = Piece({"ACK"}, r[1], r[2])
      PROVE  /\ p.seq \in SeqNum /\ p.n \in Nat /\ p.flags = {"ACK"}
             /\ p.first \in 1..StreamLen /\ p.first + p.n - 1 <= StreamLen
             /\ p.seq = Seq32(PeerISN + p.first)
    BY <1>1, <1>4, SeqDivision DEF Piece
<1> QED BY <1>2, <1>3, <1>4 DEF PeerSegments

\* The handler takes its packets from the peer and drops them when done.
LEMMA PacketStep ==
    ASSUME PacketInv, [Next]_vars
    PROVE  PacketInv'
<1>1. 0 \in SeqNum
    BY NumbersAssumption DEF SeqNum
<1>2. ASSUME NEW p \in PeerSegments, HandleRead(p) PROVE PacketInv'
    <2>1. handling'.pkt = p
        BY <1>2 DEF HandleRead
    <2> QED BY <2>1, PeerNumbers DEF PacketInv, pkt, Has
<1>3. ASSUME Done PROVE PacketInv'
    BY <1>1, <1>3 DEF Done, Idle, Control, PacketInv, pkt, Has
<1>4. ASSUME UNCHANGED handling PROVE PacketInv'
    BY <1>4 DEF PacketInv, pkt, Has
<1>5. ASSUME HandleStep PROVE Done
    BY <1>5 DEF HandleStep, HandleSyn, HandleSynSent, HandleAck, HandleFin,
       HandleEstablished, HandleIgnored
<1>6. UNCHANGED handling \/ HandleStep \/ \E p \in PeerSegments : HandleRead(p)
    BY DEF Next, AppStep, ConnectSend, ConnectStore, SendChunk, CloseStore,
       SendFail, CloseCheck, HandleTimeout, SendStart, vars
<1> QED BY <1>2, <1>3, <1>4, <1>5, <1>6

-----------------------------------------------------------------------------
(* What the application receives is a stretch of the peer's stream.        *)

\* A stretch of positions is a sequence of them.
LEMMA StretchIsSeq ==
    ASSUME NEW m \in 1..StreamLen, NEW k \in 0..StreamLen-m, Received(k, m)
    PROVE  /\ received_data_ \in Seq(1..StreamLen)
           /\ Len(received_data_) = m /\ received_data_ # <<>>
<1>1. StreamLen \in Nat /\ m \in Nat /\ k \in Nat
    BY NumbersAssumption
<1>2. received_data_ \in [1..m -> 1..StreamLen]
    BY <1>1 DEF Received
<1>3. received_data_ \in Seq(1..StreamLen)
    BY <1>1, <1>2
<1>4. Len(received_data_) = m
    BY <1>1, <1>2, <1>3
<1>5. Len(<<>>) = 0
    OBVIOUS
<1> QED BY <1>1, <1>3, <1>4, <1>5

\* Both StreamPrefix and the type of received_data_ follow from the invariant.
LEMMA DeliveryFacts ==
    ASSUME DeliveryInv
    PROVE  received_data_ \in Seq(1..StreamLen) /\ StreamPrefix
<1>1. StreamLen \in Nat
    BY NumbersAssumption
<1>2. ASSUME NEW m \in 1..StreamLen, NEW k \in 0..StreamLen-m, Received(k, m)
      PROVE  received_data_ \in Seq(1..StreamLen) /\ StreamPrefix
    <2>1. received_data_ \in Seq(1..StreamLen) /\ Len(received_data_) = m
        BY <1>2, StretchIsSeq
    <2>2. k \in 0..StreamLen
        BY <1>1
    <2> QED BY <1>2, <2>1, <2>2 DEF StreamPrefix, Received
<1>3. CASE received_data_ = <<>>
    <2>1. Len(received_data_) = 0 /\ received_data_ \in Seq(1..StreamLen)
        BY <1>3
    <2>2. received_data_ = [i \in 1..Len(received_data_) |-> 0 + i]
        BY <1>3, <2>1
    <2> QED BY <1>1, <2>1, <2>2 DEF StreamPrefix
<1> QED BY <1>2, <1>3 DEF DeliveryInv, NothingReceived

\* Handling a segment in ESTABLISHED extends the stretch at its end.
LEMMA ExtendStretch ==
    ASSUME NEW k \in Nat, NEW m \in Nat, NEW n \in Nat
    PROVE  [i \in 1..m |-> k + i] \o [j \in 1..n |-> (k + m + 1) + j - 1]
              = [i \in 1..m+n |-> k + i]
<1> DEFINE a == [i \in 1..m |-> k + i]
           b == [j \in 1..n |-> (k + m + 1) + j - 1]
           c == [i \in 1..m+n |-> k + i]
<1>1. a \in Seq(Nat) /\ b \in Seq(Nat) /\ c \in Seq(Nat)
    <2>1. a \in [1..m -> Nat] /\ b \in [1..n -> Nat] /\ c \in [1..m+n -> Nat]
        OBVIOUS
    <2> QED BY <2>1
<1>2. Len(a) = m /\ Len(b) = n
    BY <1>1
<1>3. a \o b \in [1..m+n -> Nat] /\ c \in [1..m+n -> Nat]
    <2>1. c \in [1..m+n -> Nat]
        OBVIOUS
    <2> HIDE DEF a, b, c
    <2>2. a \o b \in Seq(Nat) /\ Len(a \o b) = m + n
        BY <1>1, <1>2
    <2> QED BY <2>1, <2>2, LenProperties
<1>4. ASSUME NEW i \in 1..m+n PROVE (a \o b)[i] = c[i]
    <2>1. (a \o b)[i] = IF i <= m THEN a[i] ELSE b[i - m]
        BY <1>1, <1>2, <1>4
    <2>2. CASE i <= m
        BY <2>1, <2>2
    <2>3. CASE i > m
        <3>1. i - m \in 1..n
            BY <2>3
        <3>2. b[i - m] = k + i
            BY <3>1, <2>3
        <3> QED BY <2>1, <2>3, <3>2
    <2> QED BY <2>2, <2>3
<1> QED BY <1>3, <1>4

\* Some stretch has arrived.
SomeReceived == \E m \in 1..StreamLen : \E k \in 0..StreamLen-m : Received(k, m)

\* A step that leaves the stretch alone, and moves the threads as FlowInv
\* allows, keeps what is known of it.
LEMMA StretchKept ==
    ASSUME UNCHANGED <<received_data_, remote_seq_num_, astray>>
    PROVE  SomeReceived => SomeReceived'
BY DEF SomeReceived, Received

\* The segment that carries the next number begins with the byte after the
\* stretch, and no handshake is under way.
LEMMA NextSegment ==
    ASSUME FlowInv, PacketInv, DeliveryInv, handling.saw = "ESTABLISHED",
           ~Has("FIN"), pkt.n # 0, pkt.seq = remote_seq_num_
    PROVE  /\ state_ \in Open /\ app # "connecting"
           /\ pkt.first \in 1..StreamLen /\ pkt.n \in Nat \ {0}
           /\ pkt.first + pkt.n - 1 <= StreamLen
           /\ remote_seq_num_ = Seq32(PeerISN + pkt.first)
           /\ \E k, m \in Nat : /\ received_data_ = [i \in 1..m |-> k + i]
                                /\ pkt.first = k + m + 1 /\ (k > 0 => astray)
<1> DEFINE f == pkt.first  n == pkt.n
<1>1. /\ StreamLen \in Nat /\ StreamLen + 2 < SeqMod /\ SeqMod \in Nat
      /\ PeerISN \in SeqNum /\ PeerISN \in Int
    BY NumbersAssumption DEF SeqNum
<1>2. /\ f \in 1..StreamLen /\ n \in Nat \ {0} /\ f + n - 1 <= StreamLen
      /\ pkt.seq = Seq32(PeerISN + f)
    BY DEF PacketInv, Has
<1> HIDE DEF f, n
<1>3. ASSUME NEW i \in 0..StreamLen+1, remote_seq_num_ = Seq32(PeerISN + i)
      PROVE  f = i
    <2>1. Seq32(PeerISN + f) = Seq32(PeerISN + i)
        BY <1>2, <1>3
    <2>2. PeerISN + f = PeerISN + i
        BY <1>1, <1>2, <2>1, SeqInjective
    <2> QED BY <1>1, <1>2, <2>2
<1>4. remote_seq_num_ # Seq32(PeerISN)
    <2>1. PeerISN + 0 = PeerISN
        BY <1>1
    <2> QED BY <1>1, <1>2, <1>3, <2>1
<1>5. state_ \in Open /\ app # "connecting"
    BY <1>4 DEF FlowInv, DeliveryInv, Open, Closing
<1>6. \E k, m \in Nat : /\ received_data_ = [i \in 1..m |-> k + i]
                        /\ f = k + m + 1 /\ (k > 0 => astray)
    <2>1. CASE NothingReceived
        <3>1. received_data_ = <<>> /\ (astray \/ f = 1)
            BY <1>1, <1>3, <1>4, <2>1 DEF NothingReceived
        <3>2. received_data_ = [i \in 1..0 |-> (f - 1) + i]
            BY <3>1
        <3>3. f - 1 \in Nat /\ f = (f - 1) + 0 + 1 /\ (f - 1 > 0 => astray)
            BY <1>1, <1>2, <3>1
        <3> QED BY <3>2, <3>3
    <2>2. CASE SomeReceived
        <3>0. PICK m \in 1..StreamLen : \E k \in 0..StreamLen-m : Received(k, m)
            BY <2>2 DEF SomeReceived
        <3>1. PICK k \in 0..StreamLen-m : Received(k, m)
            BY <3>0
        <3>2. k + m + 1 \in 0..StreamLen+1
            BY <1>1
        <3>3. f = k + m + 1
            BY <1>3, <3>1, <3>2 DEF Received
        <3>4. k \in Nat /\ m \in Nat
            BY <1>1
        <3> QED BY <3>1, <3>3, <3>4 DEF Received
    <2> QED BY <2>1, <2>2 DEF DeliveryInv, SomeReceived
<1> QED BY <1>2, <1>5, <1>6 DEF f, n

\* A segment handled in ESTABLISHED is taken when it is the next one, and
\* extends the stretch.
LEMMA SegmentArrives ==
    ASSUME FlowInv, PacketInv, DeliveryInv, HandleEstablished
    PROVE  DeliveryInv'
<1>1. StreamLen \in Nat /\ SeqMod \in Nat /\ PeerISN \in Int
    BY NumbersAssumption
<1>2. /\ handling.saw = "ESTABLISHED" /\ handling'.saw = "none" /\ ~Has("FIN")
      /\ UNCHANGED <<state_, app, astray>>
    BY DEF HandleEstablished, HandleData, rcvars, Done, Idle
<1>3. CASE UNCHANGED <<received_data_, remote_seq_num_>>
    BY <1>2, <1>3, StretchKept DEF DeliveryInv, NothingReceived, SomeReceived
<1>4. CASE /\ pkt.n # 0 /\ pkt.seq = remote_seq_num_
           /\ received_data_' = received_data_ \o [j \in 1..pkt.n |-> pkt.first + j - 1]
           /\ remote_seq_num_' = Seq32(remote_seq_num_ + pkt.n)
    <2> DEFINE f == pkt.first  n == pkt.n
    <2>1. /\ state_ \in Open /\ app # "connecting"
          /\ f \in 1..StreamLen /\ n \in Nat \ {0} /\ f + n - 1 <= StreamLen
          /\ remote_seq_num_ = Seq32(PeerISN + f)
        BY <1>2, <1>4, NextSegment
    <2> HIDE DEF f, n
    <2>2. PICK k, m \in Nat : /\ received_data_ = [i \in 1..m |-> k + i]
                              /\ f = k + m + 1 /\ (k > 0 => astray)
        BY <1>2, <1>4, NextSegment DEF f
    <2>3. received_data_' = [i \in 1..m+n |-> k + i]
        BY <1>4, <2>1, <2>2, ExtendStretch DEF f, n
    <2>4. remote_seq_num_' = Seq32(PeerISN + (k + (m + n) + 1))
        <3>1. remote_seq_num_' = Seq32(Seq32(PeerISN + f) + n)
            BY <1>4, <2>1 DEF n
        <3>2. Seq32(Seq32(PeerISN + f) + n) = Seq32((PeerISN + f) + n)
            BY <1>1, <2>1, SeqAdd
        <3>3. (PeerISN + f) + n = PeerISN + (k + (m + n) + 1)
            BY <1>1, <2>1, <2>2
        <3> QED BY <3>1, <3>2, <3>3
    <2>5. m + n \in 1..StreamLen /\ k \in 0..StreamLen-(m + n)
        BY <1>1, <2>1, <2>2
    <2>6. SomeReceived'
        BY <1>2, <2>2, <2>3, <2>4, <2>5 DEF SomeReceived, Received
    <2> QED BY <1>2, <2>1, <2>6 DEF DeliveryInv, SomeReceived, Open, Closing
<1> QED BY <1>3, <1>4 DEF HandleEstablished, HandleData, rcvars

\* Every other step leaves the stretch alone, and a handshake finds it empty.
LEMMA DeliveryStep ==
    ASSUME FlowInv, PacketInv, DeliveryInv, [Next]_vars
    PROVE  DeliveryInv'
<1> DEFINE Still == UNCHANGED <<received_data_, remote_seq_num_, astray>>
<1> USE DEF FlowInv, ReachableStates, States, Open, Closing
<1>1. ASSUME Still,
             \/ ConnectSend \/ ConnectStore \/ SendChunk \/ CloseStore \/ SendFail
             \/ CloseCheck \/ HandleTimeout \/ \E size \in SendSizes : SendStart(size)
             \/ \E p \in PeerSegments : HandleRead(p)
      PROVE  DeliveryInv'
    <2> USE DEF DeliveryInv, NothingReceived
    <2>0. SomeReceived => SomeReceived'
        BY <1>1, StretchKept
    <2> USE DEF SomeReceived
    <2>1. CASE ConnectSend      BY <1>1, <2>0, <2>1 DEF ConnectSend
    <2>2. CASE ConnectStore     BY <1>1, <2>0, <2>2 DEF ConnectStore
    <2>3. CASE SendChunk        BY <1>1, <2>0, <2>3 DEF SendChunk
    <2>4. CASE CloseStore       BY <1>1, <2>0, <2>4 DEF CloseStore
    <2>5. CASE SendFail         BY <1>1, <2>0, <2>5 DEF SendFail
    <2>6. CASE CloseCheck       BY <1>1, <2>0, <2>6 DEF CloseCheck
    <2>7. CASE HandleTimeout    BY <1>1, <2>0, <2>7 DEF HandleTimeout
    <2>8. ASSUME NEW size \in SendSizes, SendStart(size) PROVE DeliveryInv'
        BY <1>1, <2>0, <2>8 DEF SendStart
    <2>9. ASSUME NEW p \in PeerSegments, HandleRead(p) PROVE DeliveryInv'
        BY <1>1, <2>0, <2>9 DEF HandleRead
    <2> QED BY <1>1, <2>1, <2>2, <2>3, <2>4, <2>5, <2>6, <2>7, <2>8, <2>9
<1>2. ASSUME Still, HandleAck \/ HandleFin \/ HandleIgnored PROVE DeliveryInv'
    <2> USE DEF DeliveryInv, NothingReceived, Done, Idle
    <2>0. SomeReceived => SomeReceived'
        BY <1>2, StretchKept
    <2> USE DEF SomeReceived
    <2>1. CASE HandleAck        BY <1>2, <2>0, <2>1 DEF HandleAck, AckMoves
    <2>2. CASE HandleFin        BY <1>2, <2>0, <2>2 DEF HandleFin
    <2>3. CASE HandleIgnored    BY <1>2, <2>0, <2>3 DEF HandleIgnored
    <2> QED BY <1>2, <2>1, <2>2, <2>3
<1>3. ASSUME HandleSyn PROVE DeliveryInv'
    <2>1. received_data_ = <<>> /\ received_data_' = <<>>
        BY <1>3 DEF HandleSyn, DeliveryInv, NothingReceived, rcvars
    <2>2. remote_seq_num_' = Seq32(PeerISN)
        BY <1>3, SeqSmall DEF HandleSyn, PacketInv
    <2> QED BY <2>1, <2>2 DEF DeliveryInv, NothingReceived
<1>4. ASSUME HandleSynSent PROVE DeliveryInv'
    <2>1. received_data_ = <<>> /\ received_data_' = <<>>
        BY <1>4 DEF HandleSynSent, DeliveryInv, NothingReceived
    <2>2. astray' \/ remote_seq_num_' = Seq32(PeerISN + 1)
        BY <1>4 DEF HandleSynSent, PacketInv, Has
    <2>3. app' # "connecting" /\ handling'.saw = "none"
        BY <1>4 DEF HandleSynSent, Done, Idle
    <2> QED BY <2>1, <2>2, <2>3 DEF DeliveryInv, NothingReceived
<1>5. CASE UNCHANGED vars
    <2>1. SomeReceived => SomeReceived'
        BY <1>5, StretchKept DEF vars, rcvars
    <2> QED BY <1>5, <2>1 DEF vars, rcvars, DeliveryInv, NothingReceived, SomeReceived
<1>6. ASSUME \/ ConnectSend \/ ConnectStore \/ SendChunk \/ CloseStore \/ SendFail
             \/ CloseCheck \/ HandleTimeout \/ \E size \in SendSizes : SendStart(size)
             \/ \E p \in PeerSegments : HandleRead(p)
             \/ HandleAck \/ HandleFin \/ HandleIgnored
      PROVE  Still
    BY <1>6 DEF ConnectSend, ConnectStore, SendChunk, CloseStore, SendFail, CloseCheck,
       HandleTimeout, SendStart, HandleRead, HandleAck, HandleFin, HandleIgnored, rcvars
<1> HIDE DEF Still
<1> QED BY <1>1, <1>2, <1>3, <1>4, <1>5, <1>6, SegmentArrives
        DEF Next, AppStep, HandleStep

\* The fields the stream and the window do not account for.
RestTypeOK ==
    /\ local_seq_num_ \in SeqNum /\ remote_seq_num_ \in SeqNum
    /\ out_of_order_data_ \subseteq SeqNum
    /\ retransmit_queue_ \subseteq [seq : SeqNum, len : 0..MSS]
    /\ congestion_state_ \in {"SLOW_START", "CONGESTION_AVOIDANCE"}
    /\ tcp_params_ \in [cwnd : Nat, ssthresh : Nat]
    /\ rem \in Nat

\* Every new number is wrapped and every chunk is cut to a segment.
LEMMA RestStep ==
    ASSUME RestTypeOK, PacketInv, [Next]_vars
    PROVE  RestTypeOK'
<1>1. MSS \in Nat /\ SeqMod \in Nat /\ SendSizes \subseteq Nat
    BY NumbersAssumption
<1>2. SeqNum \subseteq Int
    BY <1>1 DEF SeqNum
<1>3. ASSUME SendChunk PROVE RestTypeOK'
    <2>1. ChunkSize \in 0..MSS /\ ChunkSize <= rem /\ rem \in Nat
        BY ChunkBounds DEF RestTypeOK
    <2>2. Seq32(local_seq_num_ + ChunkSize) \in SeqNum
        BY <1>1, <1>2, <2>1, SeqDivision DEF RestTypeOK
    <2>3. [seq |-> local_seq_num_, len |-> ChunkSize] \in [seq : SeqNum, len : 0..MSS]
        BY <2>1 DEF RestTypeOK
    <2>4. rem - ChunkSize \in Nat
        BY <1>1, <2>1
    <2> QED BY <1>3, <2>2, <2>3, <2>4 DEF SendChunk, RestTypeOK, rcvars, ccvars
<1>4. ASSUME HandleTimeout PROVE RestTypeOK'
    <2> DEFINE half == tcp_params_.cwnd \div 2
    <2>1. half \in Nat
        BY DEF RestTypeOK
    <2> HIDE DEF half
    <2>2. tcp_params_' = [cwnd |-> MSS, ssthresh |-> IF half > 2 THEN half ELSE 2]
        BY <1>4 DEF HandleTimeout, half
    <2>3. tcp_params_' \in [cwnd : Nat, ssthresh : Nat]
        BY <1>1, <2>1, <2>2
    <2> QED BY <1>4, <2>3 DEF HandleTimeout, RestTypeOK, rcvars, ccvars
<1>5. ASSUME HandleSynSent PROVE RestTypeOK'
    <2>0. pkt.seq + 1 \in Int /\ local_seq_num_ + 1 \in Int
        BY <1>1 DEF PacketInv, RestTypeOK, SeqNum
    <2>1. Seq32(pkt.seq + 1) \in SeqNum /\ Seq32(local_seq_num_ + 1) \in SeqNum
        BY <2>0, SeqDivision
    <2> QED BY <1>5, <2>1 DEF HandleSynSent, RestTypeOK, sndvars, ccvars
<1>6. ASSUME HandleEstablished PROVE RestTypeOK'
    <2>1. Seq32(remote_seq_num_ + pkt.n) \in SeqNum
        BY <1>1, <1>2, SeqDivision DEF PacketInv, RestTypeOK
    <2> QED BY <1>6, <2>1 DEF HandleEstablished, HandleData, UpdateCongestion, PacketInv,
               RestTypeOK, rcvars, sndvars
<1>7. ASSUME HandleSyn PROVE RestTypeOK'
    BY <1>7 DEF HandleSyn, PacketInv, RestTypeOK, rcvars, sndvars, ccvars
<1>8. ASSUME NEW size \in SendSizes, SendStart(size) PROVE RestTypeOK'
    BY <1>1, <1>8 DEF SendStart, RestTypeOK, rcvars, sndvars, ccvars
<1>9. ASSUME SendFail PROVE RestTypeOK'
    BY <1>9 DEF SendFail, RestTypeOK, rcvars, sndvars, ccvars
<1>10. ASSUME \/ ConnectSend \/ ConnectStore \/ CloseStore \/ CloseCheck
              \/ \E p \in PeerSegments : HandleRead(p)
              \/ HandleAck \/ HandleFin \/ HandleIgnored \/ UNCHANGED vars
       PROVE  RestTypeOK'
    BY <1>10 DEF ConnectSend, ConnectStore, CloseStore, CloseCheck, HandleRead,
       HandleAck, HandleFin, HandleIgnored, vars, RestTypeOK, rcvars, sndvars, ccvars
<1> QED BY <1>3, <1>4, <1>5, <1>6, <1>7, <1>8, <1>9, <1>10 DEF Next, AppStep, HandleStep

\* The packet in hand and what was received stay within the peer's stream.
DeliverInv == FlowInv /\ PacketInv /\ DeliveryInv /\ RestTypeOK

\* All parts of it hold together.
LEMMA DeliverInvariant == Spec => []DeliverInv
<1>1. Init => DeliverInv
    <2>1. 0 \in SeqNum /\ LocalISN \in SeqNum /\ MSS \in Nat /\ InitSsthresh \in Nat
        BY NumbersAssumption DEF SeqNum
    <2> QED BY <2>1 DEF Init, DeliverInv, FlowInv, ReachableStates, States, Idle, Closing,
               Open, PacketInv, Control, pkt, Has, DeliveryInv, NothingReceived, RestTypeOK
<1>2. DeliverInv /\ [Next]_vars => DeliverInv'
    BY FlowStep, PacketStep, DeliveryStep, RestStep DEF DeliverInv
<1> QED BY <1>1, <1>2, PTL DEF Spec

\* Whatever the network loses, repeats or reorders and whatever happens inside
\* connect(), received_data_ is a stretch of the peer's stream: no gap, no
\* repetition, and no beginning but the first byte unless a packet without SYN
\* was taken for the answer to connect().
THEOREM StreamIsPrefix == Spec => []StreamPrefix
<1>1. DeliverInv => StreamPrefix
    BY DeliveryFacts DEF DeliverInv
<1> QED BY <1>1, DeliverInvariant, PTL

\* A taken segment extends the stretch by the byte after its end and those that
\* follow.
LEMMA ArrivalStep ==
    ASSUME DeliverInv, HandleEstablished, received_data_' # received_data_
    PROVE  Stream!Next
<1>1. StreamLen \in Nat
    BY NumbersAssumption
<1>2. /\ handling.saw = "ESTABLISHED" /\ ~Has("FIN") /\ pkt.n # 0 /\ pkt.seq = remote_seq_num_
      /\ received_data_' = received_data_ \o [j \in 1..pkt.n |-> pkt.first + j - 1]
      /\ astray' = astray
    BY DEF HandleEstablished, HandleData, rcvars
<1> DEFINE f == pkt.first  n == pkt.n  k == f - 1
<1>3. f \in 1..StreamLen /\ n \in Nat \ {0} /\ f + n - 1 <= StreamLen
    BY <1>2, NextSegment DEF DeliverInv
<1>4. PICK j, m \in Nat : /\ received_data_ = [i \in 1..m |-> j + i]
                          /\ f = j + m + 1 /\ (j > 0 => astray)
    BY <1>2, NextSegment DEF DeliverInv
<1> HIDE DEF f, n
<1>5. k \in 0..StreamLen /\ n \in 1..StreamLen /\ k + n <= StreamLen
    BY <1>1, <1>3
<1>6. received_data_' = received_data_ \o [i \in 1..n |-> k + i]
    <2>1. [i \in 1..n |-> f + i - 1] = [i \in 1..n |-> k + i]
        BY <1>3
    <2> QED BY <1>2, <2>1 DEF f, n
<1>7. IF received_data_ = <<>> THEN k > 0 => astray
                               ELSE k = received_data_[Len(received_data_)]
    <2>1. Len(received_data_) = m /\ received_data_ \in Seq(Nat)
        <3>1. received_data_ \in [1..m -> Nat]
            BY <1>4
        <3> QED BY <1>4, <3>1
    <2>2. received_data_ = <<>> => m = 0
        BY <2>1
    <2>3. received_data_ # <<>> => m \in 1..m
        BY <1>4, <2>1
    <2> QED BY <1>3, <1>4, <2>1, <2>2, <2>3
<1>8. Stream!Arrive(k, n)
    BY <1>2, <1>5, <1>6, <1>7 DEF Stream!Arrive
<1> QED BY <1>5, <1>8 DEF Stream!Next

\* No other step touches what has arrived, and a handshake finds nothing.
LEMMA StreamStep ==
    ASSUME DeliverInv, [Next]_vars
    PROVE  [Stream!Next]_(Stream!vars)
<1>1. CASE HandleEstablished
    BY <1>1, ArrivalStep DEF HandleEstablished, HandleData, rcvars, Stream!vars
<1>2. CASE HandleSynSent
    BY <1>2 DEF HandleSynSent, DeliverInv, FlowInv, DeliveryInv, NothingReceived,
       Open, Closing, Stream!Next, Stream!Open
<1>3. ASSUME \/ ConnectSend \/ ConnectStore \/ SendChunk \/ CloseStore \/ SendFail
             \/ CloseCheck \/ HandleTimeout \/ \E size \in SendSizes : SendStart(size)
             \/ \E p \in PeerSegments : HandleRead(p)
             \/ HandleSyn \/ HandleAck \/ HandleFin \/ HandleIgnored \/ UNCHANGED vars
      PROVE  UNCHANGED Stream!vars
    BY <1>3 DEF ConnectSend, ConnectStore, SendChunk, CloseStore, SendFail, CloseCheck,
       HandleTimeout, SendStart, HandleRead, HandleSyn, HandleAck, HandleFin,
       HandleIgnored, vars, rcvars, Stream!vars
<1> QED BY <1>1, <1>2, <1>3 DEF Next, AppStep, HandleStep

\* The reader sees a byte stream: whatever two threads do to the state and the
\* network to the segments, received_data_ grows by the bytes that follow, and
\* no handshake, retransmission or close() takes one back.
THEOREM ImplementsByteStream == Spec => DeliversStream
<1>1. Init => Stream!Init
    BY DEF Init, Stream!Init
<1>2. DeliverInv /\ [Next]_vars => [Stream!Next]_(Stream!vars)
    BY StreamStep
<1> QED BY <1>1, <1>2, DeliverInvariant, PTL DEF Spec, DeliversStream, Stream!Spec

\* Type correctness, with the window's bounds giving the type of cwnd_ and the
\* stretch that of received_data_.
THEOREM TypeCorrect == Spec => []TypeOK
<1>1. DeliverInv /\ CwndBounded /\ cwnd_ \in Nat => TypeOK
    BY DeliveryFacts, NumbersAssumption
       DEF DeliverInv, FlowInv, ReachableStates, RestTypeOK, CwndBounded, TypeOK
<1>2. CwndInv => CwndBounded /\ cwnd_ \in Nat
    BY DEF CwndInv
<1> QED BY <1>1, <1>2, CwndInvariant, DeliverInvariant, PTL

-----------------------------------------------------------------------------
(* The loop of send() makes progress.                                      *)

\* Each turn of the loop of send() takes a byte at least, and no more than are
\* left, unless the cast makes what is left 0.  What fits 16 bits is never made
\* 0; and what does not fit no turn brings to where it would: the cast takes the
\* multiples of W16 off, chunks use up what remains, and those that follow are
\* empty.
ChunksAdvance ==
    app = "sending" =>
        /\ ChunkSize = 0 <=> Endless
        /\ IF rem < W16 THEN ChunkSize \in 1..rem ELSE ChunkSize \in 0..rem-W16

\* The window send() reads is one segment: handle_timeout() is the only one to
\* write it.
SendInv ==
    /\ tcp_params_.cwnd = MSS
    /\ rem \in Nat
    /\ app = "sending" => rem # 0

\* A number that fits is not changed by the cast.
LEMMA CastFits ==
    ASSUME NEW n \in Nat, NEW w \in Nat, n < w
    PROVE  n % w = n
<1>1. n % w \in 0..w-1 /\ n \div w \in Int /\ n = w * (n \div w) + (n % w)
    OBVIOUS
<1>2. CASE n \div w >= 1
    <2>1. w * (n \div w) >= w
        BY <1>1, <1>2
    <2> QED BY <1>1, <2>1
<1>3. CASE n \div w <= -1
    <2>1. w * (n \div w) <= -w
        BY <1>1, <1>3
    <2> QED BY <1>1, <2>1
<1>4. CASE n \div w = 0
    <2>1. w * (n \div w) = 0
        BY <1>4
    <2> QED BY <1>1, <2>1
<1> QED BY <1>1, <1>2, <1>3, <1>4

\* Only a multiple of W16 makes a chunk empty.
LEMMA ChunkFits == SendInv => ChunksAdvance
<1> SUFFICES ASSUME SendInv, app = "sending"
             PROVE  /\ ChunkSize = 0 <=> Endless
                    /\ IF rem < W16 THEN ChunkSize \in 1..rem
                                    ELSE ChunkSize \in 0..rem-W16
    BY DEF ChunksAdvance
<1>1. MSS \in Nat \ {0} /\ W16 \in Nat \ {0} /\ MSS < W16 /\ rem \in Nat \ {0}
    BY NumbersAssumption DEF SendInv
<1>2. MSS * MSS \in Nat /\ MSS * MSS >= 1
    BY <1>1
<1>3. SendWindow \in 1..W16-1
    BY <1>1, <1>2 DEF SendInv, SendWindow, Least
<1>4. SendWindow % W16 = SendWindow
    BY <1>1, <1>3, CastFits
<1>5. CASE rem < W16
    <2>1. rem % W16 = rem
        BY <1>1, <1>5, CastFits
    <2> QED BY <1>1, <1>3, <1>4, <1>5, <2>1 DEF ChunkSize, Least, Endless
<1>6. CASE ~(rem < W16)
    <2> DEFINE left == rem % W16
               turns == rem \div W16
    <2>1. left \in 0..W16-1 /\ turns \in Int /\ rem = W16 * turns + left
        BY <1>1
    <2>2. turns >= 1
        <3>1. CASE turns <= 0
            <4>1. W16 * turns <= 0
                BY <1>1, <2>1, <3>1
            <4> QED BY <1>1, <1>6, <2>1, <4>1
        <3> QED BY <2>1, <3>1
    <2>3. W16 * turns >= W16
        BY <1>1, <2>1, <2>2
    <2> HIDE DEF turns
    <2>4. left <= rem - W16
        <3> DEFINE whole == W16 * turns
        <3>1. whole \in Int /\ whole >= W16 /\ rem = whole + left
            BY <1>1, <2>1, <2>3
        <3> HIDE DEF whole, left
        <3>2. left \in Int
            BY <2>1
        <3> QED BY <1>1, <3>1, <3>2
    <2>5. ChunkSize \in 0..left /\ (ChunkSize = 0 <=> left = 0)
        BY <1>1, <1>3, <1>4, <2>1 DEF ChunkSize, Least
    <2>6. ChunkSize = 0 <=> Endless
        BY <1>1, <2>5 DEF Endless
    <2> HIDE DEF left
    <2> QED BY <1>1, <1>6, <2>1, <2>4, <2>5, <2>6
<1> QED BY <1>5, <1>6

\* Only send() and handle_timeout() touch what the chunks are cut from.
LEMMA SendInvStep ==
    ASSUME SendInv, [Next]_vars
    PROVE  SendInv'
<1>1. SendSizes \subseteq Nat \ {0} /\ MSS \in Nat /\ W16 \in Nat
    BY NumbersAssumption
<1>2. ASSUME NEW size \in SendSizes, SendStart(size) PROVE SendInv'
    BY <1>1, <1>2 DEF SendInv, SendStart, sndvars
<1>3. ASSUME SendChunk PROVE SendInv'
    <2>1. app = "sending" /\ rem \in Nat
        BY <1>3 DEF SendChunk, SendInv
    <2>2. ChunkSize \in 0..rem
        BY <1>1, <2>1, ChunkFits DEF ChunksAdvance
    <2>3. rem - ChunkSize \in Nat
        BY <2>1, <2>2
    <2> QED BY <1>3, <2>3 DEF SendChunk, SendInv
<1>4. ASSUME HandleTimeout PROVE SendInv'
    BY <1>4 DEF HandleTimeout, SendInv
<1>5. ASSUME \/ ConnectSend \/ ConnectStore \/ CloseStore \/ SendFail \/ CloseCheck
             \/ \E p \in PeerSegments : HandleRead(p)
             \/ HandleStep \/ UNCHANGED vars
      PROVE  SendInv'
    BY <1>5 DEF ConnectSend, ConnectStore, CloseStore, SendFail, CloseCheck, HandleRead,
       HandleStep, HandleSyn, HandleSynSent, HandleAck, HandleFin, HandleEstablished,
       HandleIgnored, vars, sndvars, SendInv
<1> QED BY <1>2, <1>3, <1>4, <1>5 DEF Next, AppStep

\* A turn of the loop of send() takes nothing when a multiple of 2^16 bytes is left
\* and a byte at least otherwise, for every segment size and however often
\* handle_timeout() has run; and a send() of more never comes to fit 16 bits.  It is
\* what SendReturns rests on beside fairness, and why it names Endless.
THEOREM SendAdvances == Spec => []ChunksAdvance
<1>1. Init => SendInv
    BY DEF Init, SendInv
<1>2. SendInv /\ [Next]_vars => SendInv'
    BY SendInvStep
<1> QED BY <1>1, <1>2, ChunkFits, PTL DEF Spec

-----------------------------------------------------------------------------
(* What is queued for retransmission tiles the sequence space.             *)

\* c numbers more: those just sent are the earlier ones and the new ones.
LEMMA JustSentGrows ==
    ASSUME NEW x \in Int, NEW n \in Nat, NEW c \in Nat
    PROVE  {Seq32(Seq32(x + c) - k) : k \in 1..n+c}
              = {Seq32(x - k) : k \in 1..n} \cup {Seq32(x + k) : k \in 0..c-1}
<1> DEFINE Old == {Seq32(x - k) : k \in 1..n}
           New == {Seq32(x + k) : k \in 0..c-1}
<1>1. ASSUME NEW k \in Int PROVE Seq32(Seq32(x + c) - k) = Seq32(x + (c - k))
    <2>1. Seq32(Seq32(x + c) + (-k)) = Seq32((x + c) + (-k))
        BY SeqAdd
    <2>2. (x + c) + (-k) = x + (c - k)
        OBVIOUS
    <2>3. Seq32(x + c) + (-k) = Seq32(x + c) - k
        <3>1. Seq32(x + c) \in Int
            BY SeqDivision, NumbersAssumption DEF SeqNum
        <3> QED BY <3>1
    <2> QED BY <2>1, <2>2, <2>3
<1>2. ASSUME NEW k \in 1..n+c PROVE Seq32(Seq32(x + c) - k) \in Old \cup New
    <2>1. CASE k <= c
        <3>1. c - k \in 0..c-1
            BY <2>1
        <3> QED BY <1>1, <3>1
    <2>2. CASE k > c
        <3>1. k - c \in 1..n /\ x + (c - k) = x - (k - c)
            BY <2>2
        <3> QED BY <1>1, <3>1
    <2> QED BY <2>1, <2>2
<1>3. ASSUME NEW k \in 1..n
      PROVE  Seq32(x - k) \in {Seq32(Seq32(x + c) - j) : j \in 1..n+c}
    <2>1. k + c \in 1..n+c /\ x + (c - (k + c)) = x - k
        OBVIOUS
    <2> QED BY <1>1, <2>1
<1>4. ASSUME NEW k \in 0..c-1
      PROVE  Seq32(x + k) \in {Seq32(Seq32(x + c) - j) : j \in 1..n+c}
    <2>1. c - k \in 1..n+c /\ x + (c - (c - k)) = x + k
        OBVIOUS
    <2> QED BY <1>1, <2>1
<1> QED BY <1>2, <1>3, <1>4

\* As long as the sequence space is not exhausted, they are all distinct.
LEMMA JustSentCounts ==
    ASSUME NEW x \in Int, NEW n \in Nat, n <= SeqMod
    PROVE  Cardinality({Seq32(x - k) : k \in 1..n}) = n
<1> DEFINE S == {Seq32(x - k) : k \in 1..n}
           f == [k \in 1..n |-> Seq32(x - k)]
<1>1. SeqMod \in Nat
    BY NumbersAssumption
<1>2. ASSUME NEW j \in 1..n, NEW k \in 1..n, f[j] = f[k] PROVE j = k
    <2>1. Seq32(x - j) = Seq32(x - k)
        BY <1>2
    <2>2. (x - j) - (x - k) < SeqMod /\ (x - k) - (x - j) < SeqMod
        BY <1>1
    <2>3. x - j = x - k
        BY <2>1, <2>2, SeqInjective
    <2> QED BY <2>3
<1>3. f \in [1..n -> S] /\ \A s \in S : \E k \in 1..n : f[k] = s
    OBVIOUS
<1>4. ExistsBijection(1..n, S)
    <2> HIDE DEF f, S
    <2>1. f \in Bijection(1..n, S)
        BY <1>2, <1>3 DEF Bijection, Injection, Surjection, IsInjective
    <2> QED BY <2>1 DEF ExistsBijection
<1> HIDE DEF S
<1>5. Cardinality(S) = n
    BY <1>4, FS_CountingElements
<1> QED BY <1>5 DEF S

\* The numbers before x and those from x on do not meet.
LEMMA JustSentApart ==
    ASSUME NEW x \in Int, NEW n \in Nat, NEW c \in Nat, n + c <= SeqMod,
           NEW i \in 1..n, NEW j \in 0..c-1
    PROVE  Seq32(x - i) # Seq32(x + j)
<1>1. SeqMod \in Nat
    BY NumbersAssumption
<1>2. (x + j) - (x - i) < SeqMod /\ (x - i) - (x + j) < SeqMod
    BY <1>1
<1>3. x - i # x + j
    OBVIOUS
<1> QED BY <1>2, <1>3, SeqInjective

\* The distance from the initial number is a sequence number.
LEMMA UsedType ==
    ASSUME NEW x \in SeqNum
    PROVE  Seq32(x - LocalISN) \in SeqNum
<1>1. x - LocalISN \in Int
    BY NumbersAssumption DEF SeqNum
<1> QED BY <1>1, SeqDivision

\* The count of the numbers covered is the n of the invariant.
LEMMA SegmentFacts ==
    ASSUME SegmentInv, RestTypeOK
    PROVE  SegmentsTile
<1>1. SeqMod \in Nat /\ SeqNum \subseteq Int
    BY NumbersAssumption DEF SeqNum
<1>2. PICK n \in 0..Used : Covered = JustSent(n)
    BY DEF SegmentInv
<1>3. Used \in SeqNum /\ local_seq_num_ \in Int /\ LocalISN \in Int
    BY <1>1, NumbersAssumption, SeqDivision DEF Used, RestTypeOK
<1>4. n \in Nat /\ n <= SeqMod
    BY <1>1, <1>3 DEF SeqNum
<1>5. Cardinality(JustSent(n)) = n
    BY <1>3, <1>4, JustSentCounts DEF JustSent
<1> QED BY <1>2, <1>5 DEF SegmentsTile, SegmentInv

\* A new segment follows the ones before it, and their count still fits.
LEMMA SegmentSent ==
    ASSUME FlowInv, RestTypeOK, SegmentInv, SendChunk
    PROVE  SegmentInv'
<1>1. /\ SeqMod \in Nat /\ MaxBytes \in Nat /\ MaxBytes + 1 < SeqMod
      /\ local_seq_num_ \in Int /\ LocalISN \in Int
    BY NumbersAssumption DEF RestTypeOK, SeqNum
<1>2. ChunkSize \in 0..MSS /\ ChunkSize <= rem /\ rem \in Nat
    BY ChunkBounds DEF RestTypeOK
<1>3. Used \in Nat /\ Used + rem <= MaxBytes + 1
    BY <1>1, UsedType DEF Used, SegmentInv, SendChunk, RestTypeOK, SeqNum
<1>4. PICK c \in Nat : c = ChunkSize /\ c <= rem
    BY <1>2, NumbersAssumption
<1>5. PICK x \in Int : x = local_seq_num_
    BY <1>1
<1> DEFINE new == [seq |-> x, len |-> c]
<1>6. /\ app = "sending" /\ local_seq_num_' = Seq32(x + c)
      /\ retransmit_queue_' = retransmit_queue_ \cup {new}
      /\ rem' = rem - c /\ app' \in {"idle", "sending"} /\ state_' = state_
    BY <1>4, <1>5 DEF SendChunk
<1>7. Used' = Used + c
    <2>1. Used' = Seq32(Seq32(x + c) + (-LocalISN))
        BY <1>1, <1>6, SeqDivision DEF Used, SeqNum
    <2>2. Seq32(Seq32(x + c) + (-LocalISN)) = Seq32((x + c) + (-LocalISN))
        BY <1>1, SeqAdd
    <2>3. (x + c) + (-LocalISN) = (x - LocalISN) + c
        BY <1>1
    <2>4. Seq32(Seq32(x - LocalISN) + c) = Seq32((x - LocalISN) + c)
        BY <1>1, SeqAdd
    <2>5. Used = Seq32(x - LocalISN)
        BY <1>5 DEF Used
    <2>6. Used + c \in SeqNum
        BY <1>1, <1>2, <1>3, <1>4 DEF SeqNum
    <2> QED BY <2>1, <2>2, <2>3, <2>4, <2>5, <2>6, SeqSmall
<1>8. PICK n \in 0..Used : Covered = JustSent(n)
    BY DEF SegmentInv
<1>9. n \in Nat /\ n + c <= SeqMod
    BY <1>1, <1>2, <1>3, <1>8, <1>4
<1>10. Covers(new) = {Seq32(x + k) : k \in 0..c-1}
    BY DEF Covers
<1>11. \A g \in retransmit_queue_ : Covers(g) \cap Covers(new) = {}
    <2> SUFFICES ASSUME NEW g \in retransmit_queue_, NEW s \in Covers(g), s \in Covers(new)
                 PROVE  FALSE
        OBVIOUS
    <2>1. s \in JustSent(n)
        BY <1>8 DEF Covered
    <2>2. PICK i \in 1..n : s = Seq32(x - i)
        BY <2>1, <1>5 DEF JustSent
    <2>3. PICK j \in 0..c-1 : s = Seq32(x + j)
        BY <1>10
    <2> QED BY <1>1, <1>2, <1>9, <2>2, <2>3, JustSentApart
<1>12. \A g, h \in retransmit_queue_' : g # h => Covers(g) \cap Covers(h) = {}
    BY <1>6, <1>11 DEF SegmentInv
<1>13. Covered' = JustSent(n + c)'
    <2>1. Covered' = Covered \cup Covers(new)
        BY <1>6 DEF Covered
    <2>2. JustSent(n + c)' = {Seq32(Seq32(x + c) - k) : k \in 1..n+c}
        BY <1>6 DEF JustSent
    <2>3. Covered = {Seq32(x - k) : k \in 1..n}
        BY <1>8, <1>5 DEF JustSent
    <2>4. {Seq32(Seq32(x + c) - k) : k \in 1..n+c}
             = {Seq32(x - k) : k \in 1..n} \cup {Seq32(x + k) : k \in 0..c-1}
        BY <1>9, JustSentGrows
    <2> QED BY <1>10, <2>1, <2>2, <2>3, <2>4
<1>14. n + c \in 0..Used'
    BY <1>3, <1>7, <1>8
<1>15. Used' + rem' <= MaxBytes + 1
    BY <1>4, <1>2, <1>3, <1>6, <1>7
<1>16. state_' \in Open /\ app' # "connecting"
    BY <1>6 DEF FlowInv, Open, Closing
<1> QED BY <1>12, <1>13, <1>14, <1>15, <1>16 DEF SegmentInv, Open, Closing

\* The other steps queue nothing, and those that move local_seq_num_ find the
\* queue empty.
LEMMA SegmentStep ==
    ASSUME FlowInv, PacketInv, RestTypeOK, SegmentInv, [Next]_vars
    PROVE  SegmentInv'
<1> DEFINE Still == UNCHANGED <<retransmit_queue_, local_seq_num_>>
<1>1. Still => Used' = Used /\ Covered' = Covered /\ \A n \in Nat : JustSent(n)' = JustSent(n)
    BY DEF Used, Covered, JustSent
<1>2. Used \in Nat
    BY NumbersAssumption, UsedType DEF Used, RestTypeOK, SeqNum
<1>3. Still => /\ \A g, h \in retransmit_queue_' : g # h => Covers(g) \cap Covers(h) = {}
               /\ (\E n \in 0..Used : Covered = JustSent(n))'
    BY <1>1, <1>2 DEF SegmentInv
<1> USE DEF FlowInv, ReachableStates, States, Open, Closing
<1>4. ASSUME \/ ConnectSend \/ ConnectStore \/ CloseStore \/ SendFail
             \/ CloseCheck \/ HandleTimeout
      PROVE  SegmentInv'
    <2> USE DEF sndvars, rcvars
    <2>1. CASE ConnectSend    BY <1>1, <1>3, <2>1 DEF ConnectSend, SegmentInv
    <2>2. CASE ConnectStore   BY <1>1, <1>3, <2>2 DEF ConnectStore, SegmentInv
    <2>3. CASE CloseStore     BY <1>1, <1>3, <2>3 DEF CloseStore, SegmentInv
    <2>4. CASE SendFail       BY <1>1, <1>3, <2>4 DEF SendFail, SegmentInv
    <2>5. CASE CloseCheck     BY <1>1, <1>3, <2>5 DEF CloseCheck, SegmentInv
    <2>6. CASE HandleTimeout  BY <1>1, <1>3, <2>6 DEF HandleTimeout, SegmentInv
    <2> QED BY <1>4, <2>1, <2>2, <2>3, <2>4, <2>5, <2>6
<1>5. ASSUME NEW size \in SendSizes, SendStart(size) PROVE SegmentInv'
    BY <1>1, <1>3, <1>5 DEF SendStart, SegmentInv, sndvars
<1>6. ASSUME NEW p \in PeerSegments, HandleRead(p) PROVE SegmentInv'
    BY <1>1, <1>3, <1>6 DEF HandleRead, SegmentInv, sndvars
<1>7. ASSUME HandleSyn \/ HandleAck \/ HandleFin \/ HandleEstablished \/ HandleIgnored
      PROVE  SegmentInv'
    <2> USE DEF sndvars
    <2>1. CASE HandleSyn          BY <1>1, <1>3, <2>1 DEF HandleSyn, SegmentInv
    <2>2. CASE HandleAck          BY <1>1, <1>3, <2>2 DEF HandleAck, AckMoves, SegmentInv
    <2>3. CASE HandleFin          BY <1>1, <1>3, <2>3 DEF HandleFin, SegmentInv
    <2>4. CASE HandleEstablished  BY <1>1, <1>3, <2>4 DEF HandleEstablished, SegmentInv
    <2>5. CASE HandleIgnored      BY <1>1, <1>3, <2>5 DEF HandleIgnored, SegmentInv
    <2> QED BY <1>7, <2>1, <2>2, <2>3, <2>4, <2>5
<1>8. ASSUME HandleSynSent PROVE SegmentInv'
    <2>1. /\ retransmit_queue_ = {} /\ retransmit_queue_' = {}
          /\ app' \in {"idle", "connecting"}
        BY <1>8 DEF HandleSynSent, SegmentInv, sndvars
    <2>2. Used' \in Nat
        <3>1. local_seq_num_' \in SeqNum
            BY RestStep DEF RestTypeOK
        <3>2. Used' \in SeqNum
            BY <3>1, UsedType DEF Used
        <3> QED BY <3>2, NumbersAssumption DEF SeqNum
    <2>3. Covered' = {} /\ JustSent(0)' = {}
        BY <2>1 DEF Covered, JustSent
    <2>4. 0 \in 0..Used'
        BY <2>2
    <2> QED BY <2>1, <2>3, <2>4 DEF SegmentInv
<1>9. CASE UNCHANGED vars
    BY <1>1, <1>3, <1>9 DEF vars, sndvars, SegmentInv
<1> QED BY <1>4, <1>5, <1>6, <1>7, <1>8, <1>9, SegmentSent
        DEF Next, AppStep, HandleStep

\* The inductive invariant of the connection.
THEOREM ConnectionInvariant == Spec => []ConnectionInv
<1>1. Init => SegmentInv
    <2> SUFFICES ASSUME Init PROVE SegmentInv
        OBVIOUS
    <2>1. LocalISN \in SeqNum
        BY NumbersAssumption DEF SeqNum
    <2>2. Used \in Nat
        BY <2>1, UsedType, NumbersAssumption DEF Init, Used, SeqNum
    <2>3. 0 \in 0..Used /\ Covered = JustSent(0)
        BY <2>2 DEF Init, Covered, JustSent
    <2> QED BY <2>3 DEF Init, SegmentInv
<1>2. DeliverInv /\ SegmentInv /\ [Next]_vars => SegmentInv'
    BY SegmentStep DEF DeliverInv
<1>3. TypeOK /\ DeliverInv /\ SegmentInv /\ NumberInv => ConnectionInv
    BY DEF DeliverInv, ConnectionInv
<1> QED BY <1>1, <1>2, <1>3, DeliverInvariant, TypeCorrect, NumberInvariant, PTL DEF Spec

\* The segments queued by send() never overlap and leave no gap, for every
\* segment size, every place where sending fails and every initial sequence
\* number, as long as the data is shorter than the sequence space.
THEOREM SegmentsAreTiled == Spec => []SegmentsTile
<1>1. ConnectionInv /\ DeliverInv => SegmentsTile
    BY SegmentFacts DEF ConnectionInv, DeliverInv
<1> QED BY <1>1, ConnectionInvariant, DeliverInvariant, PTL
=============================================================================
