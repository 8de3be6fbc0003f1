---------------------------- MODULE TCPConnection ----------------------------
(***************************************************************************)
(* src/tcp/tcp_connection.cpp: one connection object, used by two threads  *)
(* without a lock.  The application calls connect(), send(), close() and   *)
(* handle_timeout(); the event loop calls handle_packet().  Both test      *)
(* state_ in one step and act on what they saw in a later one.             *)
(*                                                                         *)
(* A byte of the peer's stream is its position, 1..StreamLen, so a segment *)
(* carries a range of positions.  Sequence numbers wrap at SeqMod (2^32 in *)
(* the code) and 16-bit casts at W16 (65536).  The peer is external: it    *)
(* numbers its segments as TCP prescribes, and the network loses, repeats  *)
(* and reorders them at will.  The peer ignores acknowledgement numbers:   *)
(* any bare ACK completes its handshake.                                   *)
(***************************************************************************)
EXTENDS Integers, Sequences, FiniteSets

CONSTANTS
    SeqMod,         \* sequence numbers are 0..SeqMod-1
    W16,            \* range of uint16_t
    MSS,            \* MSS and max_segment_size_
    InitSsthresh,   \* initial ssthresh_
    LocalISN,       \* what rand() gave
    PeerISN,        \* the peer's initial sequence number
    StreamLen,      \* bytes the peer has to send
    SendSizes,      \* sizes of the vectors given to send()
    MaxBytes,       \* bound on the data of all calls of send()
    PeerDoes,       \* subset of {"open", "ack", "fin"}, see PeerSegments
    AppConnects,    \* whether the application calls connect()
    AtomicConnect   \* whether packets wait until connect() has returned

ASSUME NumbersAssumption ==
    /\ SeqMod \in Nat /\ W16 \in Nat /\ MSS \in Nat \ {0} /\ MSS < W16
    /\ InitSsthresh \in Nat /\ StreamLen \in Nat /\ MaxBytes \in Nat
    /\ LocalISN \in 0..SeqMod-1 /\ PeerISN \in 0..SeqMod-1
    /\ StreamLen + 2 < SeqMod /\ MaxBytes + 1 < SeqMod
    /\ SendSizes \subseteq Nat \ {0}

ASSUME ModesAssumption ==
    /\ PeerDoes \subseteq {"open", "ack", "fin"}
    /\ AppConnects \in BOOLEAN /\ AtomicConnect \in BOOLEAN

VARIABLES
    state_, local_seq_num_, remote_seq_num_,
    received_data_,        \* stream positions, in the order they were appended
    out_of_order_data_,    \* keys of the map: sequence numbers
    astray,                \* history: a packet without SYN set remote_seq_num_
    retransmit_queue_,     \* segments [seq, len] queued by send()
    cwnd_, congestion_state_,    \* window_.cwnd_ and its phase
    tcp_params_,           \* [cwnd, ssthresh], the copy handle_timeout() uses
    app,                   \* where the application thread is
    rem,                   \* data.size() - offset of the send() under way
    handling,              \* the packet being handled and the state_ it saw
    sent                   \* every control segment put on the wire

rcvars == <<received_data_, out_of_order_data_, astray>>
sndvars == <<retransmit_queue_, tcp_params_>>
ccvars == <<cwnd_, congestion_state_>>
vars == <<state_, local_seq_num_, remote_seq_num_, rcvars, sndvars, ccvars,
          app, rem, handling, sent>>

States == {"CLOSED", "LISTEN", "SYN_SENT", "SYN_RECEIVED", "ESTABLISHED",
           "FIN_WAIT_1", "FIN_WAIT_2", "CLOSE_WAIT", "CLOSING", "LAST_ACK",
           "TIME_WAIT"}

\* The states reached once either side has begun to close.
Closing == {"FIN_WAIT_1", "FIN_WAIT_2", "CLOSE_WAIT", "CLOSING", "LAST_ACK", "TIME_WAIT"}

SeqNum == 0..SeqMod-1
Seq32(n) == n % SeqMod

\* A segment: n bytes from stream position first (peer's segments), or the
\* len bytes from seq (ours).
Control(flags, seq, ack) ==
    [flags |-> flags, seq |-> seq, ack |-> ack, first |-> 1, n |-> 0]

Idle == [pkt |-> Control({}, 0, 0), saw |-> "none"]

Init ==
    /\ state_ = "CLOSED"
    /\ local_seq_num_ = LocalISN
    /\ remote_seq_num_ = 0
    /\ received_data_ = <<>> /\ out_of_order_data_ = {} /\ astray = FALSE
    /\ retransmit_queue_ = {}
    /\ cwnd_ = MSS /\ congestion_state_ = "SLOW_START"
    /\ tcp_params_ = [cwnd |-> MSS, ssthresh |-> InitSsthresh]
    /\ app = "idle" /\ rem = 0
    /\ handling = Idle
    /\ sent = {}

-----------------------------------------------------------------------------
(* The peer and the network (external)                                     *)

Syn == Control({"SYN"}, LocalISN, 0)
SynAck(seq, ack) == Control({"SYN", "ACK"}, seq, ack)
BareAcks == {s \in sent : s.flags = {"ACK"}}
SynAcks == {s \in sent : s.flags = {"SYN", "ACK"}}

\* n bytes of the peer's stream from position i.
Piece(flags, i, n) ==
    [flags |-> flags, seq |-> Seq32(PeerISN + i), ack |-> Seq32(LocalISN + 1),
     first |-> i, n |-> n]

\* The peer has seen the end of its handshake.
PeerEstablished ==
    IF "open" \in PeerDoes THEN SynAcks # {} ELSE BareAcks # {}

\* What may be on its way to this host.  "open": the peer begins with a SYN;
\* "ack": it answers a duplicate of our SYN with a bare ACK, as TCP requires;
\* "fin": it ends its stream, its FIN alone or on its last byte.
PeerSegments ==
    UNION {
        IF Syn \in sent
          THEN {SynAck(PeerISN, Seq32(LocalISN + 1))} ELSE {},
        IF Syn \in sent /\ "ack" \in PeerDoes
          THEN {Piece({"ACK"}, 1, 0)} ELSE {},
        IF "open" \in PeerDoes
          THEN {Control({"SYN"}, PeerISN, 0)} ELSE {},
        IF "open" \in PeerDoes /\ SynAcks # {}
          THEN {Piece({"ACK"}, 1, 0)} ELSE {},
        IF PeerEstablished
          THEN {Piece({"ACK"}, r[1], r[2]) : r \in
                  {r \in (1..StreamLen) \X (1..2) : r[1] + r[2] - 1 <= StreamLen}}
          ELSE {},
        IF PeerEstablished /\ "fin" \in PeerDoes
          THEN {Piece({"FIN", "ACK"}, StreamLen + 1, 0),
                Piece({"FIN", "ACK"}, StreamLen, 1)} ELSE {}}

-----------------------------------------------------------------------------
(* The application thread                                                  *)

\* Faulty variant: connect() does not look at the state.
ConnectSendUnchecked ==
    /\ AppConnects
    /\ app = "idle"
    /\ app' = "connecting"
    /\ sent' = sent \cup {Syn}
    /\ UNCHANGED <<state_, local_seq_num_, remote_seq_num_, rcvars, sndvars,
                   ccvars, rem, handling>>

\* connect() has seen CLOSED and sends the SYN; when sending fails it returns
\* false and nothing has changed.
ConnectSend ==
    /\ AppConnects
    /\ app = "idle" /\ state_ = "CLOSED"
    /\ app' = "connecting"
    /\ sent' = sent \cup {Syn}
    /\ UNCHANGED <<state_, local_seq_num_, remote_seq_num_, rcvars, sndvars,
                   ccvars, rem, handling>>

\* The SYN is out; only now does state_ say so.
ConnectStore ==
    /\ app = "connecting"
    /\ state_' = "SYN_SENT"
    /\ app' = "idle"
    /\ UNCHANGED <<local_seq_num_, remote_seq_num_, rcvars, sndvars, ccvars,
                   rem, handling, sent>>

\* The sequence numbers taken so far, the SYN's included.
Used == Seq32(local_seq_num_ - LocalISN)

\* send() outside ESTABLISHED returns false.  Nagle's branch is dead: it needs
\* unacked_segments_, which nothing fills.
SendStart(size) ==
    /\ app = "idle" /\ state_ = "ESTABLISHED"
    /\ Used + size <= MaxBytes + 1
    /\ app' = "sending" /\ rem' = size
    /\ UNCHANGED <<state_, local_seq_num_, remote_seq_num_, rcvars, sndvars,
                   ccvars, handling, sent>>

Least(a, b) == IF a <= b THEN a ELSE b

\* min(send_window, cwnd * mss); send_window is never updated.
SendWindow == Least(W16 - 1, tcp_params_.cwnd * MSS)

\* Faulty variant: offsets are cut to the segment size by masking.
ChunkSizeMasked == rem % MSS

\* Both casts are to uint16_t.
ChunkSize == Least(Least(MSS, rem % W16), SendWindow % W16)

\* One turn of the loop of line 61: a chunk is sent, queued and counted.
SendChunk ==
    /\ app = "sending"
    /\ retransmit_queue_' = retransmit_queue_ \cup
                               {[seq |-> local_seq_num_, len |-> ChunkSize]}
    /\ local_seq_num_' = Seq32(local_seq_num_ + ChunkSize)
    /\ rem' = rem - ChunkSize
    /\ app' = IF rem' = 0 THEN "idle" ELSE "sending"
    /\ UNCHANGED <<state_, remote_seq_num_, rcvars, tcp_params_, ccvars,
                   handling, sent>>

\* Faulty variant: a chunk that could not be sent is counted all the same.
SendFailCounted ==
    /\ app = "sending"
    /\ local_seq_num_' = Seq32(local_seq_num_ + ChunkSize)
    /\ rem' = 0 /\ app' = "idle"
    /\ UNCHANGED <<state_, remote_seq_num_, rcvars, sndvars, ccvars, handling,
                   sent>>

\* Sending fails: send() returns false with the chunks before it already out.
SendFail ==
    /\ app = "sending"
    /\ rem' = 0 /\ app' = "idle"
    /\ UNCHANGED <<state_, local_seq_num_, remote_seq_num_, rcvars, sndvars,
                   ccvars, handling, sent>>

\* close() has seen ESTABLISHED; in any other state it does nothing.
CloseCheck ==
    /\ app = "idle" /\ state_ = "ESTABLISHED"
    /\ app' = "closing"
    /\ UNCHANGED <<state_, local_seq_num_, remote_seq_num_, rcvars, sndvars,
                   ccvars, rem, handling, sent>>

\* Faulty variant: close() throws away what was received.
CloseStoreEmptied ==
    /\ app = "closing"
    /\ state_' = "FIN_WAIT_1"
    /\ app' = "idle"
    /\ received_data_' = <<>>
    /\ UNCHANGED <<local_seq_num_, remote_seq_num_, out_of_order_data_, astray,
                   sndvars, ccvars, rem, handling, sent>>

CloseStore ==
    /\ app = "closing"
    /\ state_' = "FIN_WAIT_1"
    /\ app' = "idle"
    /\ UNCHANGED <<local_seq_num_, remote_seq_num_, rcvars, sndvars, ccvars,
                   rem, handling, sent>>

\* handle_timeout(), called by the application.  The segments it sends again
\* are those of unacked_segments_, which nothing fills.
HandleTimeout ==
    /\ app = "idle"
    /\ tcp_params_' = [cwnd |-> MSS,
                       ssthresh |-> LET half == tcp_params_.cwnd \div 2
                                    IN  IF half > 2 THEN half ELSE 2]
    /\ UNCHANGED <<state_, local_seq_num_, remote_seq_num_, rcvars,
                   retransmit_queue_, ccvars, app, rem, handling, sent>>

-----------------------------------------------------------------------------
(* handle_packet() on the event loop's thread                              *)

\* The switch reads state_.
HandleRead(p) ==
    /\ handling = Idle
    /\ AtomicConnect => app # "connecting"
    /\ p \in PeerSegments
    /\ handling' = [pkt |-> p, saw |-> state_]
    /\ UNCHANGED <<state_, local_seq_num_, remote_seq_num_, rcvars, sndvars,
                   ccvars, app, rem, sent>>

pkt == handling.pkt
Has(flag) == flag \in pkt.flags
Done == handling' = Idle

SendAck(local, remote) ==
    sent' = sent \cup {Control({"ACK"}, local, Seq32(remote + 1))}

\* A SYN on an unused connection: passive open.  remote_seq_num_ keeps the
\* SYN's own number, and local_seq_num_ does not count our SYN.
HandleSyn ==
    /\ handling.saw \in {"CLOSED", "LISTEN"} /\ Has("SYN")
    /\ remote_seq_num_' = pkt.seq
    /\ sent' = sent \cup {SynAck(local_seq_num_, Seq32(pkt.seq + 1))}
    /\ state_' = "SYN_RECEIVED"
    /\ Done
    /\ UNCHANGED <<local_seq_num_, rcvars, sndvars, ccvars, app, rem>>

\* Faulty variant: the SYN-ACK's own number is not counted.
HandleSynSentShort ==
    /\ handling.saw = "SYN_SENT" /\ (Has("SYN") \/ Has("ACK"))
    /\ remote_seq_num_' = pkt.seq
    /\ local_seq_num_' = Seq32(local_seq_num_ + 1)
    /\ SendAck(local_seq_num_', pkt.seq)
    /\ state_' = "ESTABLISHED"
    /\ Done
    /\ astray' = ~Has("SYN")
    /\ UNCHANGED <<received_data_, out_of_order_data_, sndvars, ccvars, app, rem>>

\* Faulty variant: the acknowledgement is compared with the wrong number.
HandleSynSentMismatch ==
    /\ handling.saw = "SYN_SENT" /\ (Has("SYN") \/ Has("ACK"))
    /\ remote_seq_num_' = Seq32(pkt.seq + 1)
    /\ Done
    /\ UNCHANGED <<state_, local_seq_num_, sent, rcvars, sndvars, ccvars, app, rem>>

\* Active open.  A SYN or an ACK will do, and remote_seq_num_ is set before
\* the acknowledgement is looked at.
HandleSynSent ==
    /\ handling.saw = "SYN_SENT" /\ (Has("SYN") \/ Has("ACK"))
    /\ remote_seq_num_' = Seq32(pkt.seq + 1)
    /\ IF pkt.ack = Seq32(local_seq_num_ + 1)
         THEN /\ local_seq_num_' = Seq32(local_seq_num_ + 1)
              /\ SendAck(local_seq_num_', remote_seq_num_')
              /\ state_' = "ESTABLISHED"
         ELSE UNCHANGED <<local_seq_num_, sent, state_>>
    /\ Done
    /\ astray' = ~Has("SYN")
    /\ UNCHANGED <<received_data_, out_of_order_data_, sndvars, ccvars, app, rem>>

\* Faulty variant: FIN_WAIT_1 shares the case of SYN_RECEIVED.
AckMovesMerged == [s \in {"SYN_RECEIVED", "FIN_WAIT_1"} |-> "ESTABLISHED"]

\* The states in which any ACK moves the connection on.
AckMoves == [s \in {"SYN_RECEIVED", "FIN_WAIT_1", "CLOSING", "LAST_ACK"} |->
                CASE s = "SYN_RECEIVED" -> "ESTABLISHED"
                  [] s = "FIN_WAIT_1"   -> "FIN_WAIT_2"
                  [] s = "CLOSING"      -> "TIME_WAIT"
                  [] s = "LAST_ACK"     -> "CLOSED"]

HandleAck ==
    /\ handling.saw \in DOMAIN AckMoves /\ Has("ACK")
    /\ state_' = AckMoves[handling.saw]
    /\ Done
    /\ UNCHANGED <<local_seq_num_, remote_seq_num_, rcvars, sndvars, ccvars,
                   app, rem, sent>>

\* A FIN is accepted whatever its sequence number, and its payload dropped.
HandleFin ==
    /\ handling.saw \in {"ESTABLISHED", "FIN_WAIT_2"} /\ Has("FIN")
    /\ state_' = IF handling.saw = "ESTABLISHED" THEN "CLOSE_WAIT" ELSE "TIME_WAIT"
    /\ SendAck(local_seq_num_, remote_seq_num_)
    /\ Done
    /\ UNCHANGED <<local_seq_num_, remote_seq_num_, rcvars, sndvars, ccvars,
                   app, rem>>

\* Faulty variant: linear growth per segment instead of per window.
UpdateCongestionFast ==
    /\ cwnd_' = cwnd_ + MSS
    /\ cwnd_ < 4 * MSS * MSS
    /\ UNCHANGED congestion_state_

\* update_congestion_control(false), from update_window().  Its timeout branch
\* has no caller and FAST_RECOVERY is never entered; send_window_, which
\* update_window() also writes, is never read.
UpdateCongestion ==
    \/ /\ congestion_state_ = "SLOW_START" /\ cwnd_ >= InitSsthresh
       /\ congestion_state_' = "CONGESTION_AVOIDANCE"
       /\ UNCHANGED cwnd_
    \/ /\ congestion_state_ = "SLOW_START" /\ cwnd_ < InitSsthresh
       /\ cwnd_' = cwnd_ + MSS
       /\ UNCHANGED congestion_state_
    \/ /\ congestion_state_ = "CONGESTION_AVOIDANCE"
       /\ cwnd_' = cwnd_ + (MSS * MSS) \div cwnd_
       /\ UNCHANGED congestion_state_

\* Faulty variant: a segment that arrives late is appended all the same.
HandleDataAppend ==
    /\ received_data_' = received_data_ \o
            [k \in 1..pkt.n |-> pkt.first + k - 1]
    /\ Len(received_data_) < 3 * StreamLen
    /\ remote_seq_num_' = Seq32(remote_seq_num_ + pkt.n)
    /\ UNCHANGED <<out_of_order_data_, astray>>

\* handle_data(): the next segment is appended, any other is put aside, and
\* what was put aside is never looked at again.
HandleData ==
    IF pkt.n = 0
      THEN UNCHANGED <<rcvars, remote_seq_num_>>
      ELSE IF pkt.seq = remote_seq_num_
             THEN /\ received_data_' = received_data_ \o
                         [k \in 1..pkt.n |-> pkt.first + k - 1]
                  /\ remote_seq_num_' = Seq32(remote_seq_num_ + pkt.n)
                  /\ UNCHANGED <<out_of_order_data_, astray>>
             ELSE /\ out_of_order_data_' = out_of_order_data_ \cup {pkt.seq}
                  /\ UNCHANGED <<received_data_, astray, remote_seq_num_>>

HandleEstablished ==
    /\ handling.saw = "ESTABLISHED" /\ ~Has("FIN") /\ Has("ACK")
    /\ HandleData
    /\ UpdateCongestion
    /\ Done
    /\ UNCHANGED <<state_, local_seq_num_, sndvars, app, rem, sent>>

Handled ==
    \/ handling.saw \in {"CLOSED", "LISTEN"} /\ Has("SYN")
    \/ handling.saw = "SYN_SENT" /\ (Has("SYN") \/ Has("ACK"))
    \/ handling.saw \in DOMAIN AckMoves \cup {"ESTABLISHED"} /\ Has("ACK")
    \/ handling.saw \in {"ESTABLISHED", "FIN_WAIT_2"} /\ Has("FIN")

\* No case of the switch applies.
HandleIgnored ==
    /\ handling # Idle /\ ~Handled
    /\ Done
    /\ UNCHANGED <<state_, local_seq_num_, remote_seq_num_, rcvars, sndvars,
                   ccvars, app, rem, sent>>

HandleStep ==
    \/ HandleSyn \/ HandleSynSent \/ HandleAck \/ HandleFin
    \/ HandleEstablished \/ HandleIgnored

-----------------------------------------------------------------------------
AppStep == ConnectStore \/ SendChunk \/ CloseStore

Next ==
    \/ ConnectSend \/ AppStep \/ SendFail \/ CloseCheck \/ HandleTimeout
    \/ \E size \in SendSizes : SendStart(size)
    \/ \E p \in PeerSegments : HandleRead(p)
    \/ HandleStep

Spec == Init /\ [][Next]_vars

\* A call the application or the event loop has begun runs to its end, and
\* the application keeps calling handle_timeout().
FairSpec == Spec /\ WF_vars(AppStep) /\ WF_vars(HandleStep) /\ WF_vars(HandleTimeout)

\* The peer retransmits, and the network does not drop a segment for ever.
Pieces == {Piece({"ACK"}, i, n) : i \in 1..StreamLen, n \in 0..2}
RetransmittingPeer ==
    /\ \A p \in Pieces : SF_vars(HandleRead(p))
    /\ SF_vars(HandleRead(SynAck(PeerISN, Seq32(LocalISN + 1))))
    /\ SF_vars(HandleRead(Control({"SYN"}, PeerISN, 0)))

PeerFairSpec == FairSpec /\ RetransmittingPeer

-----------------------------------------------------------------------------
(* Properties                                                              *)

TypeOK ==
    /\ state_ \in States
    /\ local_seq_num_ \in SeqNum /\ remote_seq_num_ \in SeqNum
    /\ received_data_ \in Seq(1..StreamLen)
    /\ out_of_order_data_ \subseteq SeqNum
    /\ retransmit_queue_ \subseteq [seq : SeqNum, len : 0..MSS]
    /\ cwnd_ \in Nat \ {0}
    /\ congestion_state_ \in {"SLOW_START", "CONGESTION_AVOIDANCE"}
    /\ tcp_params_ \in [cwnd : Nat, ssthresh : Nat]
    /\ app \in {"idle", "connecting", "sending", "closing"}
    /\ rem \in Nat
    /\ handling.saw \in States \cup {"none"}

\* What the application receives is a stretch of what the peer sent without
\* gaps or repetitions, from the first byte on unless a packet that was no SYN
\* was taken for the answer to ours: neither loss, duplication and reordering
\* by the network nor packets handled inside connect() put a wrong byte into
\* received_data_.
StreamPrefix ==
    \E k \in 0..StreamLen :
        /\ received_data_ = [i \in 1..Len(received_data_) |-> k + i]
        /\ k > 0 => astray

\* The whole life of received_data_: it grows at its end alone, by the bytes that
\* follow, and no second handshake, late segment or close() takes any back.
Stream == INSTANCE ByteStream WITH received <- received_data_
DeliversStream == Stream!Spec

Covers(seg) == {Seq32(seg.seq + k) : k \in 0..seg.len-1}
Covered == UNION {Covers(g) : g \in retransmit_queue_}

\* The n numbers before local_seq_num_.
JustSent(n) == {Seq32(local_seq_num_ - k) : k \in 1..n}

\* The segments queued by send() tile the sequence space: no two overlap and
\* together they are the numbers just before local_seq_num_, across partial
\* failures, repeated calls and wrap-around.
SegmentsTile ==
    /\ \A g, h \in retransmit_queue_ : g # h => Covers(g) \cap Covers(h) = {}
    /\ Covered = JustSent(Cardinality(Covered))

\* The congestion window never falls below one segment and stops growing: the
\* increment of congestion avoidance is 0 once cwnd_ exceeds MSS * MSS.
CwndBounded ==
    /\ cwnd_ >= MSS
    /\ cwnd_ <= MSS * MSS + 1 \/ cwnd_ < InitSsthresh + MSS

\* A connection that has begun to close never carries data again, although
\* close() and handle_packet() overwrite each other's state.  Only connect()
\* can reopen it, when packets opened and closed the connection before its
\* own store of SYN_SENT.
CloseIsFinal ==
    [][(state_ \in Closing)
          => (state_' \in Closing \/ (~AtomicConnect /\ app = "connecting"))]_vars

\* Once SYN_SENT is stored and the peer keeps answering, the connection opens.
HandshakeCompletes == state_ = "SYN_SENT" ~> state_ = "ESTABLISHED"

\* With a peer that retransmits, an open connection receives the whole stream
\* although segments that come early are never used.
StreamDelivered ==
    state_ = "ESTABLISHED"
        ~> (Len(received_data_) = StreamLen \/ state_ \in Closing)

\* What is left of the data is a multiple of 2^16 bytes: as a 16-bit number it is
\* 0, the chunk is empty, and the loop of send() has no end.
Endless == rem # 0 /\ rem % W16 = 0

\* send() returns, unless it comes to a multiple of 2^16 bytes left, as every send()
\* of that many or more does (functional_test.cpp:95-96 gives it 1 MiB): in every
\* other turn of its loop it gets closer to the end of the data.
SendReturns == app = "sending" ~> (app = "idle" \/ Endless)

-----------------------------------------------------------------------------
(* The inductive invariant behind CloseIsFinal, StreamPrefix, SegmentsTile *)

\* LISTEN, CLOSING and LAST_ACK are never entered.
ReachableStates == States \ {"LISTEN", "CLOSING", "LAST_ACK"}

Open == {"ESTABLISHED"} \cup Closing

\* What the two threads believe of state_ while they act on an older reading.
\* Inside connect() the handler is the only one to write state_; its reading
\* may be overtaken by connect()'s store of SYN_SENT, then by nothing but
\* close().
FlowInv ==
    /\ state_ \in ReachableStates
    /\ handling.saw \in ReachableStates \cup {"none"}
    /\ app \in {"idle", "connecting", "sending", "closing"}
    /\ app \in {"sending", "closing"} => state_ \in Open
    /\ app = "connecting" => /\ state_ # "SYN_SENT"
                             /\ handling.saw \in {"none", state_}
    /\ (AtomicConnect /\ app = "connecting")
          => state_ \in {"CLOSED", "SYN_RECEIVED"} /\ handling.saw \in {"none", "CLOSED"}
    /\ handling.saw = "CLOSED" => state_ \in {"CLOSED", "SYN_SENT"}
    /\ handling.saw = "SYN_SENT" => state_ = "SYN_SENT"
    /\ handling.saw = "SYN_RECEIVED" => state_ \in {"SYN_RECEIVED", "SYN_SENT"}
    /\ handling.saw = "ESTABLISHED" => state_ \in Open \cup {"SYN_SENT"}
    /\ handling.saw \in Closing => state_ \in Closing \cup {"SYN_SENT"}

\* The handler has in hand what the peer's numbering allows: a SYN carries the
\* first number, a byte of the stream the number of its position.
PacketInv ==
    /\ pkt.seq \in SeqNum /\ pkt.n \in Nat
    /\ Has("SYN") => pkt.seq = PeerISN
    /\ (pkt.n > 0 /\ ~Has("FIN")) =>
          /\ pkt.first \in 1..StreamLen /\ pkt.first + pkt.n - 1 <= StreamLen
          /\ pkt.seq = Seq32(PeerISN + pkt.first)

\* m bytes from behind position k on have arrived, and the next is expected.
Received(k, m) ==
    /\ received_data_ = [i \in 1..m |-> k + i]
    /\ remote_seq_num_ = Seq32(PeerISN + (k + m + 1))
    /\ k > 0 => astray

\* Nothing has arrived, and remote_seq_num_ was set by a SYN, by a packet taken
\* for one, or not at all since connect() may still overwrite the state.
NothingReceived ==
    /\ received_data_ = <<>>
    /\ \/ astray
       \/ remote_seq_num_ \in {Seq32(PeerISN), Seq32(PeerISN + 1)}
       \/ /\ state_ \in {"CLOSED", "SYN_SENT"}
          /\ handling.saw \in {"none", "CLOSED", "SYN_SENT"}

\* No byte is taken before connect() has returned: a passive open inside it
\* leaves remote_seq_num_ at the SYN's own number, which no byte carries.
DeliveryInv ==
    /\ \/ NothingReceived
       \/ /\ state_ \in Open /\ app # "connecting"
          /\ \E m \in 1..StreamLen : \E k \in 0..StreamLen-m : Received(k, m)
    /\ (\/ app = "connecting" /\ state_ # "CLOSED"
        \/ state_ = "SYN_SENT" /\ handling.saw = "ESTABLISHED")
          => remote_seq_num_ = Seq32(PeerISN)

\* Data is queued for an open connection only, so no handshake moves
\* local_seq_num_ once there is any, and the data fits the sequence space.
SegmentInv ==
    /\ \A g, h \in retransmit_queue_ : g # h => Covers(g) \cap Covers(h) = {}
    /\ \E n \in 0..Used : Covered = JustSent(n)
    /\ app = "sending" => Used + rem <= MaxBytes + 1
    /\ retransmit_queue_ # {} => state_ \in Open /\ app # "connecting"

\* The initial number is left by an open connection only: by the handshake of
\* an active open or by data.
NumberInv == local_seq_num_ # LocalISN => state_ \in Open /\ app # "connecting"

ConnectionInv == TypeOK /\ FlowInv /\ PacketInv /\ DeliveryInv /\ SegmentInv /\ NumberInv
=============================================================================
