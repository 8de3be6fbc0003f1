--------------------------- MODULE TCPRetransmitter ---------------------------
(***************************************************************************)
(* src/tcp/tcp_retransmitter.cpp: the list of segments waiting for an      *)
(* acknowledgement, their timers and the retransmission timeout.  No code  *)
(* of the repository calls the class, so its user is external: a sender    *)
(* that adds consecutive segments and a receiver whose cumulative          *)
(* acknowledgements may come late, twice and out of order.                 *)
(*                                                                         *)
(* Stream positions are unbounded; what the code holds is Seq(position),   *)
(* which wraps at SeqMod (2^32).  The comparison of handle_ack() adds a    *)
(* size_t to a uint32_t, so the sum itself does not wrap.  The list is a   *)
(* set here: remove_if() and the timers' loop visit every segment, and the *)
(* order only decides which one update_rto() samples.                      *)
(***************************************************************************)
EXTENDS Integers

CONSTANTS
    SeqMod,      \* sequence numbers are 0..SeqMod-1
    ISN,         \* the sequence number of the first byte
    Sizes,       \* payload sizes
    MaxBytes,    \* bound on the bytes added
    RtoMin,      \* RTO_MIN.count(), 200: milliseconds
    RtoMax,      \* RTO_MAX.count(), 120: seconds, compared with milliseconds
    RtoInit,     \* the initial timeout, 1000 ms
    Estimates,   \* what srtt_ + 4 * rttvar_ may come to, in milliseconds
    MaxAge       \* bound on the age of a segment

ASSUME NumbersAssumption ==
    /\ SeqMod \in Nat \ {0} /\ ISN \in 0..SeqMod-1
    /\ Sizes \subseteq Nat \ {0} /\ MaxBytes \in Nat /\ MaxBytes < SeqMod
    /\ RtoMin \in Nat /\ RtoMax \in Nat /\ RtoInit \in Nat
    /\ Estimates \subseteq Nat
    /\ MaxAge \in Nat

VARIABLES
    segments_,              \* [pos, size, age, timeout, retries]
    rto_,
    next,                   \* bytes added so far
    acked,                  \* bytes acknowledged so far
    life                    \* time since the segment at a position was added

vars == <<segments_, rto_, next, acked, life>>

SeqNum(pos) == (ISN + pos) % SeqMod

Init ==
    /\ segments_ = {}
    /\ rto_ = RtoInit
    /\ next = 0 /\ acked = 0
    /\ life = [p \in 0..MaxBytes |-> 0]

AddSegment(size) ==
    /\ next + size <= MaxBytes
    /\ segments_' = segments_ \cup {[pos |-> next, size |-> size, age |-> 0,
                                     timeout |-> rto_, retries |-> 0]}
    /\ next' = next + size
    /\ UNCHANGED <<rto_, acked, life>>

\* Faulty variant: only the first byte is compared.
AcknowledgedStart(seg, ack) == SeqNum(seg.pos) < ack

\* Faulty variant: the acknowledged segment itself is kept.
AcknowledgedStrict(seg, ack) == SeqNum(seg.pos) + seg.size < ack

\* The test of line 21.
Acknowledged(seg, ack) == SeqNum(seg.pos) + seg.size <= ack

Least(a, b) == IF a < b THEN a ELSE b
Greatest(a, b) == IF a < b THEN b ELSE a

\* Lines 64 and 65 in their order: the upper bound has the last word, and its
\* count is below that of the lower bound.
Clamp(estimate) == Least(Greatest(estimate, RtoMin), RtoMax)

\* update_rto(): the estimate is smoothed from samples of any length.
UpdateRto == \E estimate \in Estimates : rto_' = Clamp(estimate)

\* The sample is taken from the first segment that is still waiting.
HandleAck(pos) ==
    /\ segments_' = {s \in segments_ : ~Acknowledged(s, SeqNum(pos))}
    /\ IF segments_' = {} THEN UNCHANGED rto_ ELSE UpdateRto
    /\ acked' = IF pos > acked THEN pos ELSE acked
    /\ UNCHANGED <<next, life>>

Expired(seg) == seg.age > seg.timeout

\* Faulty variant: the timer is not restarted.
BackoffNoRestart(seg) ==
    [seg EXCEPT !.retries = @ + 1, !.timeout = @ * 2]

Backoff(seg) ==
    [seg EXCEPT !.retries = @ + 1, !.timeout = @ * 2, !.age = 0]

\* The callback has no setter, so resending is left to the caller.
CheckTimeouts ==
    /\ \E s \in segments_ : Expired(s)
    /\ segments_' = {IF Expired(s) THEN Backoff(s) ELSE s : s \in segments_}
    /\ UNCHANGED <<rto_, next, acked, life>>

\* Time passes (external): for every segment that is waiting.
Tick ==
    /\ segments_ # {}
    /\ \A s \in segments_ : life[s.pos] < MaxAge
    /\ segments_' = {[s EXCEPT !.age = @ + 1] : s \in segments_}
    /\ life' = [p \in DOMAIN life |->
                    life[p] + (IF \E s \in segments_ : s.pos = p THEN 1 ELSE 0)]
    /\ UNCHANGED <<rto_, next, acked>>

Next ==
    \/ \E size \in Sizes : AddSegment(size)
    \/ \E pos \in 0..next : HandleAck(pos)
    \/ CheckTimeouts
    \/ Tick

Spec == Init /\ [][Next]_vars

-----------------------------------------------------------------------------
(* Properties                                                              *)

Bytes(seg) == seg.pos .. seg.pos + seg.size - 1
Held == UNION {Bytes(s) : s \in segments_}

\* No byte is given up before it is acknowledged: late, repeated and
\* overtaking acknowledgements never make handle_ack() forget a segment the
\* receiver does not have.
UnackedKept == acked..next-1 \subseteq Held

\* handle_ack() removes the acknowledged segments: none stays in the list
\* whose bytes are all covered by an acknowledgement that has come in.
AckedLeave == \A s \in segments_ : s.pos + s.size > acked

\* Bytes are held in the order they were added and leave with acknowledgements
\* alone: neither expired timers nor repeated or overtaken acknowledgements drop
\* a byte or bring one back.
Buffer == INSTANCE SendBuffer WITH held <- Held
HoldsBytes == Buffer!Spec

\* The timeouts a segment may start with: the initial one, or what an earlier
\* acknowledgement left.  With the bounds of the code that is RtoMax, which is
\* less than RtoMin, whatever was measured.
Timeouts == {RtoInit} \cup {Clamp(e) : e \in Estimates}

\* Exponential backoff paces the retransmissions: a segment resent k times has
\* the k-th doubling of the timeout it started with, and has waited for all the
\* shorter ones in full, whatever happened to rto_ meanwhile.
BackoffPaces ==
    \A s \in segments_ : \E first \in Timeouts :
        /\ s.timeout = first * 2^s.retries
        /\ life[s.pos] >= (s.timeout - first) + s.age
===============================================================================
