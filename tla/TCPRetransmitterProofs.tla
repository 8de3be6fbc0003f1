------------------------- MODULE TCPRetransmitterProofs -------------------------
(***************************************************************************)
(* Proofs about TCPRetransmitter for every initial number, every stream of *)
(* segments and every clamp of the timeout, away from the wrap of the      *)
(* sequence space: there the comparison of handle_ack() is not one of      *)
(* positions, and neither UnackedKept nor AckedLeave holds.                *)
(***************************************************************************)
EXTENDS TCPRetransmitter, FiniteSetTheorems, TLAPS

\* The numbers of the stream do not wrap.
NoWrap == ISN + MaxBytes < SeqMod

Segment == [pos : Nat, size : Nat, age : Nat, timeout : Nat, retries : Nat]

\* The state, and that no segment reaches beyond what was added.
TypeInv ==
    /\ segments_ \subseteq Segment
    /\ \A s \in segments_ : s.pos + s.size <= next
    /\ rto_ \in Timeouts
    /\ next \in 0..MaxBytes /\ acked \in 0..next
    /\ life \in [0..MaxBytes -> Nat]

RetransmitInv == TypeInv /\ UnackedKept /\ AckedLeave /\ BackoffPaces

-----------------------------------------------------------------------------
(* Powers of two, by counting subsets                                      *)

\* A power of two is a positive number.
LEMMA PowerType ==
    ASSUME NEW k \in Nat
    PROVE  2^k \in Nat \ {0}
<1>1. IsFiniteSet(1..k) /\ Cardinality(1..k) = k
    BY FS_Interval
<1>2. IsFiniteSet(SUBSET (1..k)) /\ Cardinality(SUBSET (1..k)) = 2^k
    BY <1>1, FS_SUBSET
<1>3. 2^k \in Nat
    BY <1>2, FS_CardinalityType
<1>4. SUBSET (1..k) # {}
    OBVIOUS
<1>5. 2^k # 0
    BY <1>2, <1>4, FS_EmptySet
<1> QED BY <1>3, <1>5

\* The next one is twice as large.
LEMMA PowerDoubles ==
    ASSUME NEW k \in Nat
    PROVE  2^(k + 1) = 2 * 2^k
<1> DEFINE Old == SUBSET (1..k)
           New == {A \cup {k + 1} : A \in Old}
           All == SUBSET (1..k+1)
<1>1. IsFiniteSet(Old) /\ Cardinality(Old) = 2^k
    <2>1. IsFiniteSet(1..k) /\ Cardinality(1..k) = k
        BY FS_Interval
    <2> QED BY <2>1, FS_SUBSET
<1>2. IsFiniteSet(All) /\ Cardinality(All) = 2^(k + 1)
    <2>1. IsFiniteSet(1..k+1) /\ Cardinality(1..k+1) = k + 1
        BY FS_Interval
    <2> QED BY <2>1, FS_SUBSET
<1>3. \A n \in 1..k : n # k + 1
    OBVIOUS
<1>4. ExistsBijection(Old, New)
    <2> DEFINE f == [A \in Old |-> A \cup {k + 1}]
    <2>1. f \in [Old -> New]
        OBVIOUS
    <2>2. ASSUME NEW A \in Old, NEW C \in Old, f[A] = f[C] PROVE A = C
        <3>1. A \cup {k + 1} = C \cup {k + 1}
            BY <2>2
        <3>2. k + 1 \notin A /\ k + 1 \notin C
            BY <1>3
        <3> QED BY <3>1, <3>2
    <2>3. \A D \in New : \E A \in Old : f[A] = D
        OBVIOUS
    <2>4. f \in Bijection(Old, New)
        BY <2>1, <2>2, <2>3 DEF Bijection, Injection, IsInjective, Surjection
    <2> QED BY <2>4 DEF ExistsBijection
<1>5. IsFiniteSet(New) /\ Cardinality(New) = Cardinality(Old)
    BY <1>1, <1>4, FS_Bijection
<1>6. All = Old \cup New
    <2>1. ASSUME NEW D \in All PROVE D \in Old \cup New
        <3>1. CASE k + 1 \in D
            <4>1. D \ {k + 1} \in Old
                BY <2>1
            <4>2. D = (D \ {k + 1}) \cup {k + 1}
                BY <3>1
            <4> QED BY <4>1, <4>2
        <3>2. CASE k + 1 \notin D
            BY <3>2
        <3> QED BY <3>1, <3>2
    <2>2. Old \cup New \subseteq All
        <3>1. \A n \in 1..k : n \in 1..k+1
            OBVIOUS
        <3>2. k + 1 \in 1..k+1
            OBVIOUS
        <3> QED BY <3>1, <3>2
    <2> QED BY <2>1, <2>2
<1>7. Old \cap New = {}
    BY <1>3
<1>8. Cardinality(All) = Cardinality(Old) + Cardinality(New) - Cardinality(Old \cap New)
    BY <1>1, <1>5, <1>6, FS_Union
<1>9. Cardinality(Old \cap New) = 0
    BY <1>7, FS_EmptySet
<1> HIDE DEF Old, New, All
<1> QED BY <1>1, <1>2, <1>5, <1>8, <1>9, PowerType

-----------------------------------------------------------------------------
(* The steps                                                               *)

\* A timeout is a number of milliseconds, whichever bound has cut it.
LEMMA TimeoutsTyped == Timeouts \subseteq Nat
<1>1. RtoMin \in Nat /\ RtoMax \in Nat /\ RtoInit \in Nat /\ Estimates \subseteq Nat
    BY NumbersAssumption
<1>2. ASSUME NEW e \in Estimates PROVE Clamp(e) \in Nat
    BY <1>1 DEF Clamp, Least, Greatest
<1> QED BY <1>1, <1>2 DEF Timeouts

\* Without a wrap a number is its position, moved by the initial one.
LEMMA NoWrapSeq ==
    ASSUME NoWrap, NEW pos \in 0..MaxBytes
    PROVE  SeqNum(pos) = ISN + pos
<1>1. ISN + pos \in 0..SeqMod-1
    BY NumbersAssumption DEF NoWrap
<1> QED BY <1>1, NumbersAssumption DEF SeqNum

\* An added segment holds the new bytes; it has just begun to wait.
LEMMA AddStep ==
    ASSUME RetransmitInv, NEW size \in Sizes, AddSegment(size)
    PROVE  RetransmitInv'
<1> DEFINE new == [pos |-> next, size |-> size, age |-> 0, timeout |-> rto_,
                   retries |-> 0]
<1>1. size \in Nat \ {0} /\ MaxBytes \in Nat /\ rto_ \in Timeouts /\ rto_ \in Nat
    BY NumbersAssumption, TimeoutsTyped DEF RetransmitInv, TypeInv
<1>2. /\ segments_' = segments_ \cup {new} /\ next' = next + size
      /\ next + size <= MaxBytes
      /\ rto_' = rto_ /\ acked' = acked /\ life' = life
    BY DEF AddSegment
<1>3. /\ new \in Segment /\ new.pos = next /\ new.size = size /\ new.age = 0
      /\ new.timeout = rto_ /\ new.retries = 0
    BY <1>1 DEF RetransmitInv, TypeInv, Segment
<1> HIDE DEF new
<1>4. TypeInv'
    <2>1. segments_' \subseteq Segment
        BY <1>2, <1>3 DEF RetransmitInv, TypeInv
    <2>2. ASSUME NEW s \in segments_' PROVE s.pos + s.size <= next'
        <3>1. CASE s \in segments_
            <4>1. s \in Segment /\ s.pos + s.size <= next /\ next \in Nat
                BY <3>1 DEF RetransmitInv, TypeInv
            <4> QED BY <1>1, <1>2, <4>1 DEF Segment
        <3>2. CASE s = new
            BY <1>1, <1>2, <1>3, <3>2 DEF RetransmitInv, TypeInv
        <3> QED BY <1>2, <3>1, <3>2
    <2> QED BY <1>1, <1>2, <2>1, <2>2 DEF RetransmitInv, TypeInv
<1>5. UnackedKept'
    <2> SUFFICES ASSUME NEW b \in acked'..next'-1
                 PROVE  \E s \in segments_' : b \in Bytes(s)
        BY DEF UnackedKept, Held
    <2>1. CASE b < next
        <3>1. b \in acked..next-1
            BY <1>1, <1>2, <2>1 DEF RetransmitInv, TypeInv
        <3>2. \E s \in segments_ : b \in Bytes(s)
            BY <3>1 DEF RetransmitInv, UnackedKept, Held
        <3> QED BY <1>2, <3>2
    <2>2. CASE b >= next
        <3>1. b \in Bytes(new)
            BY <1>1, <1>2, <1>3, <2>2 DEF Bytes, RetransmitInv, TypeInv
        <3> QED BY <1>2, <3>1
    <2> QED BY <1>1, <1>2, <2>1, <2>2 DEF RetransmitInv, TypeInv
<1>6. AckedLeave'
    <2>1. new.pos + new.size > acked
        BY <1>1, <1>3 DEF RetransmitInv, TypeInv
    <2> QED BY <1>2, <2>1 DEF RetransmitInv, AckedLeave
<1>7. BackoffPaces'
    <2>1. new.pos \in 0..MaxBytes
        BY <1>1, <1>3 DEF RetransmitInv, TypeInv
    <2>2. life[new.pos] \in Nat
        BY <2>1 DEF RetransmitInv, TypeInv
    <2>3. 2^0 = 1
        OBVIOUS
    <2>4. new.timeout = rto_ * 2^new.retries
        BY <1>1, <1>3, <2>3
    <2>5. life[new.pos] >= (new.timeout - rto_) + new.age
        BY <1>1, <1>3, <2>2
    <2>6. \E first \in Timeouts :
             /\ new.timeout = first * 2^new.retries
             /\ life[new.pos] >= (new.timeout - first) + new.age
        BY <1>1, <2>4, <2>5
    <2> QED BY <1>2, <2>6 DEF RetransmitInv, BackoffPaces
<1> QED BY <1>4, <1>5, <1>6, <1>7 DEF RetransmitInv

\* A segment goes with the acknowledgement of its last byte, and no earlier.
LEMMA AckStep ==
    ASSUME NoWrap, RetransmitInv, NEW pos \in 0..next, HandleAck(pos)
    PROVE  RetransmitInv'
<1>1. MaxBytes \in Nat /\ ISN \in Nat
    BY NumbersAssumption
<1>2. /\ segments_' = {s \in segments_ : ~Acknowledged(s, SeqNum(pos))}
      /\ acked' = IF pos > acked THEN pos ELSE acked
      /\ rto_' = rto_ \/ rto_' \in Timeouts
      /\ next' = next /\ life' = life
    BY DEF HandleAck, UpdateRto, Timeouts
<1>3. ASSUME NEW s \in segments_
      PROVE  Acknowledged(s, SeqNum(pos)) <=> s.pos + s.size <= pos
    <2>1. s \in Segment /\ s.pos + s.size <= next /\ next \in 0..MaxBytes
        BY DEF RetransmitInv, TypeInv
    <2>2. s.pos \in 0..MaxBytes /\ pos \in 0..MaxBytes /\ s.size \in Nat
        BY <1>1, <2>1 DEF Segment
    <2>3. SeqNum(s.pos) = ISN + s.pos /\ SeqNum(pos) = ISN + pos
        BY <2>2, NoWrapSeq
    <2> QED BY <1>1, <2>2, <2>3 DEF Acknowledged
<1>4. acked' \in 0..next /\ acked' >= pos /\ acked' >= acked
    BY <1>1, <1>2 DEF RetransmitInv, TypeInv
<1>5. TypeInv'
    BY <1>1, <1>2, <1>4 DEF RetransmitInv, TypeInv
<1>6. UnackedKept'
    <2> SUFFICES ASSUME NEW b \in acked'..next'-1
                 PROVE  \E s \in segments_' : b \in Bytes(s)
        BY DEF UnackedKept, Held
    <2>1. b \in acked..next-1 /\ b >= pos
        BY <1>1, <1>2, <1>4 DEF RetransmitInv, TypeInv
    <2>2. PICK s \in segments_ : b \in Bytes(s)
        BY <2>1 DEF RetransmitInv, UnackedKept, Held
    <2>3. s.pos + s.size > pos
        BY <2>1, <2>2 DEF Bytes, RetransmitInv, TypeInv, Segment
    <2>4. s \in segments_'
        BY <1>2, <1>3, <2>3 DEF RetransmitInv, TypeInv, Segment
    <2> QED BY <2>2, <2>4
<1>7. AckedLeave'
    <2> SUFFICES ASSUME NEW s \in segments_' PROVE s.pos + s.size > acked'
        BY DEF AckedLeave
    <2>1. s \in segments_ /\ ~(s.pos + s.size <= pos)
        BY <1>2, <1>3
    <2>2. s.pos + s.size > acked /\ s.pos \in Nat /\ s.size \in Nat
        BY <2>1 DEF RetransmitInv, TypeInv, AckedLeave, Segment
    <2> QED BY <1>2, <2>1, <2>2 DEF RetransmitInv, TypeInv
<1>8. BackoffPaces'
    BY <1>2 DEF RetransmitInv, BackoffPaces
<1> QED BY <1>5, <1>6, <1>7, <1>8 DEF RetransmitInv

\* What neither the timers nor the clock touch: the bytes a segment holds.
LEMMA SameBytes ==
    ASSUME RetransmitInv, UNCHANGED <<next, acked>>,
           \A t \in segments_' : \E s \in segments_ : t.pos = s.pos /\ t.size = s.size,
           \A s \in segments_ : \E t \in segments_' : t.pos = s.pos /\ t.size = s.size
    PROVE  /\ UnackedKept' /\ AckedLeave'
           /\ \A t \in segments_' : t.pos + t.size <= next'
<1>1. UnackedKept'
    BY DEF RetransmitInv, UnackedKept, Held, Bytes
<1>2. AckedLeave'
    BY DEF RetransmitInv, AckedLeave
<1>3. \A t \in segments_' : t.pos + t.size <= next'
    BY DEF RetransmitInv, TypeInv
<1> QED BY <1>1, <1>2, <1>3

\* A timer that runs out has paced the resend; it starts anew, twice as long.
LEMMA TimeoutStep ==
    ASSUME RetransmitInv, CheckTimeouts
    PROVE  RetransmitInv'
<1> DEFINE After(s) == IF Expired(s) THEN Backoff(s) ELSE s
<1>1. MaxBytes \in Nat
    BY NumbersAssumption
<1>2. /\ segments_' = {After(s) : s \in segments_}
      /\ rto_' = rto_ /\ next' = next /\ acked' = acked /\ life' = life
    BY DEF CheckTimeouts
<1>3. ASSUME NEW s \in segments_
      PROVE  /\ After(s) \in Segment /\ After(s).pos = s.pos /\ After(s).size = s.size
             /\ \E first \in Timeouts :
                   /\ After(s).timeout = first * 2^After(s).retries
                   /\ life[s.pos] >= (After(s).timeout - first) + After(s).age
    <2>1. s \in Segment
        BY DEF RetransmitInv, TypeInv
    <2> DEFINE r == s.retries
               p == 2^r
    <2>2. r \in Nat /\ s.age \in Nat /\ s.timeout \in Nat /\ p \in Nat
        BY <2>1, PowerType DEF Segment
    <2>3. PICK first \in Timeouts :
              /\ s.timeout = first * p
              /\ life[s.pos] >= (s.timeout - first) + s.age
        BY DEF RetransmitInv, BackoffPaces
    <2>6. first \in Nat
        BY TimeoutsTyped
    <2>4. CASE Expired(s)
        <3>1. After(s) = [s EXCEPT !.retries = r + 1, !.timeout = s.timeout * 2, !.age = 0]
            BY <2>4 DEF Backoff
        <3> DEFINE t == s.timeout * 2
                   q == r + 1
        <3>a. t \in Nat /\ q \in Nat
            BY <2>2
        <3> HIDE DEF After, t, q
        <3>b. After(s) = [s EXCEPT !.retries = q, !.timeout = t, !.age = 0]
            BY <3>1 DEF t, q
        <3>c. s = [pos |-> s.pos, size |-> s.size, age |-> s.age,
                   timeout |-> s.timeout, retries |-> s.retries]
            BY <2>1 DEF Segment
        <3>d. s.pos \in Nat /\ s.size \in Nat
            BY <2>1 DEF Segment
        <3>e. After(s) = [pos |-> s.pos, size |-> s.size, age |-> 0,
                          timeout |-> t, retries |-> q]
            BY <3>b, <3>c
        <3>2. /\ After(s) \in Segment /\ After(s).pos = s.pos /\ After(s).size = s.size
              /\ After(s).retries = q /\ After(s).timeout = t /\ After(s).age = 0
            BY <3>a, <3>d, <3>e DEF Segment
        <3>3. 2^(r + 1) = 2 * p
            BY <2>2, PowerDoubles
        <3>4. s.age > s.timeout
            BY <2>4 DEF Expired
        <3>5. s.pos \in 0..MaxBytes
            BY <1>1, <2>1 DEF RetransmitInv, TypeInv, Segment
        <3>6. life[s.pos] \in Nat
            BY <3>5 DEF RetransmitInv, TypeInv
        <3> HIDE DEF p, r
        <3>7. first * (2 * p) = (first * p) * 2
            BY <2>2, <2>6
        <3>8. s.timeout * 2 = first * (2 * p)
            BY <2>3, <3>7
        <3>9. life[s.pos] >= (s.timeout * 2 - first) + 0
            BY <2>2, <2>3, <2>6, <3>4, <3>6
        <3>10. /\ After(s).timeout = first * 2^After(s).retries
               /\ life[s.pos] >= (After(s).timeout - first) + After(s).age
            BY <3>2, <3>3, <3>8, <3>9 DEF t, q, r
        <3> QED BY <3>2, <3>10
    <2>5. CASE ~Expired(s)
        BY <2>1, <2>3, <2>5
    <2> QED BY <2>4, <2>5
<1> HIDE DEF After
<1>4. /\ \A t \in segments_' : \E s \in segments_ : t.pos = s.pos /\ t.size = s.size
      /\ \A s \in segments_ : \E t \in segments_' : t.pos = s.pos /\ t.size = s.size
    BY <1>2, <1>3
<1>5. UnackedKept' /\ AckedLeave' /\ \A t \in segments_' : t.pos + t.size <= next'
    BY <1>2, <1>4, SameBytes
<1>6. TypeInv'
    BY <1>2, <1>3, <1>5 DEF RetransmitInv, TypeInv
<1>7. BackoffPaces'
    BY <1>2, <1>3 DEF BackoffPaces
<1> QED BY <1>5, <1>6, <1>7 DEF RetransmitInv

\* Time passes for a segment and for its timer alike.
LEMMA TickStep ==
    ASSUME RetransmitInv, Tick
    PROVE  RetransmitInv'
<1> DEFINE After(s) == [s EXCEPT !.age = @ + 1]
<1>1. MaxBytes \in Nat
    BY NumbersAssumption
<1>2. /\ segments_' = {After(s) : s \in segments_}
      /\ life' = [p \in DOMAIN life |->
                     life[p] + (IF \E s \in segments_ : s.pos = p THEN 1 ELSE 0)]
      /\ rto_' = rto_ /\ next' = next /\ acked' = acked
    BY DEF Tick
<1>3. life' \in [0..MaxBytes -> Nat]
    BY <1>2 DEF RetransmitInv, TypeInv
<1>4. ASSUME NEW s \in segments_
      PROVE  /\ After(s) \in Segment /\ After(s).pos = s.pos /\ After(s).size = s.size
             /\ After(s).retries = s.retries /\ After(s).timeout = s.timeout
             /\ After(s).age = s.age + 1
             /\ life'[s.pos] = life[s.pos] + 1 /\ life[s.pos] \in Nat
    <2>1. s \in Segment /\ s.pos + s.size <= next /\ next \in 0..MaxBytes
        BY DEF RetransmitInv, TypeInv
    <2>2. /\ After(s) \in Segment /\ After(s).pos = s.pos /\ After(s).size = s.size
          /\ After(s).retries = s.retries /\ After(s).timeout = s.timeout
          /\ After(s).age = s.age + 1
        BY <2>1 DEF Segment
    <2>3. s.pos \in 0..MaxBytes
        BY <1>1, <2>1 DEF Segment
    <2>4. life'[s.pos] = life[s.pos] + 1 /\ life[s.pos] \in Nat
        BY <1>2, <2>3 DEF RetransmitInv, TypeInv
    <2> QED BY <2>2, <2>4
<1> HIDE DEF After
<1>5. /\ \A t \in segments_' : \E s \in segments_ : t.pos = s.pos /\ t.size = s.size
      /\ \A s \in segments_ : \E t \in segments_' : t.pos = s.pos /\ t.size = s.size
    BY <1>2, <1>4
<1>6. UnackedKept' /\ AckedLeave' /\ \A t \in segments_' : t.pos + t.size <= next'
    BY <1>2, <1>5, SameBytes
<1>7. TypeInv'
    BY <1>2, <1>3, <1>4, <1>6 DEF RetransmitInv, TypeInv
<1>8. BackoffPaces'
    <2> SUFFICES ASSUME NEW s \in segments_
                 PROVE  \E first \in Timeouts :
                            /\ s.timeout = first * 2^s.retries
                            /\ life'[s.pos] >= (s.timeout - first) + (s.age + 1)
        BY <1>2, <1>4 DEF BackoffPaces
    <2>1. PICK first \in Timeouts :
              /\ s.timeout = first * 2^s.retries
              /\ life[s.pos] >= (s.timeout - first) + s.age
        BY DEF RetransmitInv, BackoffPaces
    <2>2. s.age \in Nat /\ s.timeout \in Nat /\ first \in Nat
        BY TimeoutsTyped DEF RetransmitInv, TypeInv, Segment
    <2>3. life'[s.pos] >= (s.timeout - first) + (s.age + 1)
        BY <1>4, <2>1, <2>2
    <2> QED BY <2>1, <2>3
<1> QED BY <1>6, <1>7, <1>8 DEF RetransmitInv

-----------------------------------------------------------------------------
(* The theorems                                                            *)

\* Adding, acknowledgements in any order, timeouts and the passing of time keep
\* the list's bytes, its timers and what is acknowledged in step.
THEOREM RetransmitterInvariant ==
    ASSUME NoWrap
    PROVE  Spec => []RetransmitInv
<1>1. Init => RetransmitInv
    BY NumbersAssumption
       DEF Init, RetransmitInv, TypeInv, UnackedKept, AckedLeave, BackoffPaces,
           Timeouts
<1>2. RetransmitInv /\ [Next]_vars => RetransmitInv'
    <2> SUFFICES ASSUME RetransmitInv, [Next]_vars PROVE RetransmitInv'
        OBVIOUS
    <2>1. CASE \E size \in Sizes : AddSegment(size)
        BY <2>1, AddStep
    <2>2. CASE \E pos \in 0..next : HandleAck(pos)
        BY <2>2, AckStep
    <2>3. CASE CheckTimeouts
        BY <2>3, TimeoutStep
    <2>4. CASE Tick
        BY <2>4, TickStep
    <2>5. CASE UNCHANGED vars
        BY <2>5 DEF vars, RetransmitInv, TypeInv, UnackedKept, Held, Bytes,
                    AckedLeave, BackoffPaces
    <2> QED BY <2>1, <2>2, <2>3, <2>4, <2>5 DEF Next
<1> QED BY <1>1, <1>2, PTL DEF Spec

\* No byte is given up before it is acknowledged, whatever the order in which
\* acknowledgements come in.
THEOREM NothingIsForgotten ==
    ASSUME NoWrap
    PROVE  Spec => []UnackedKept
<1>1. RetransmitInv => UnackedKept
    BY DEF RetransmitInv
<1> QED BY <1>1, RetransmitterInvariant, PTL

\* A segment leaves with the acknowledgement of its last byte.
THEOREM AcknowledgedLeave ==
    ASSUME NoWrap
    PROVE  Spec => []AckedLeave
<1>1. RetransmitInv => AckedLeave
    BY DEF RetransmitInv
<1> QED BY <1>1, RetransmitterInvariant, PTL

\* Resending is paced by timers that double from the timeout a segment started
\* with, whatever becomes of rto_ and whichever of its bounds is the smaller.
THEOREM ResendsArePaced ==
    ASSUME NoWrap
    PROVE  Spec => []BackoffPaces
<1>1. RetransmitInv => BackoffPaces
    BY DEF RetransmitInv
<1> QED BY <1>1, RetransmitterInvariant, PTL

-----------------------------------------------------------------------------
(* The list implements SendBuffer.                                         *)

\* Timers and clock change segments, not the bytes they hold.
LEMMA TimersKeepBytes ==
    ASSUME RetransmitInv, CheckTimeouts \/ Tick
    PROVE  UNCHANGED <<Held, next, acked>>
<1> DEFINE After(s) == IF CheckTimeouts THEN (IF Expired(s) THEN Backoff(s) ELSE s)
                                        ELSE [s EXCEPT !.age = @ + 1]
<1>1. segments_' = {After(s) : s \in segments_} /\ UNCHANGED <<next, acked>>
    BY DEF CheckTimeouts, Tick
<1>2. \A s \in segments_ : Bytes(After(s)) = Bytes(s)
    BY DEF RetransmitInv, TypeInv, Segment, Backoff, Bytes
<1> HIDE DEF After
<1> QED BY <1>1, <1>2 DEF Held

\* What an acknowledgement drops ends at or before the position it names.
LEMMA AckFreesCovered ==
    ASSUME NoWrap, RetransmitInv, NEW pos \in 0..next, HandleAck(pos)
    PROVE  Buffer!Acknowledge(pos)
<1>1. ASSUME NEW b \in Held \ Held' PROVE b < pos
    <2>1. PICK s \in segments_ : b \in Bytes(s)
        BY DEF Held
    <2>2. Acknowledged(s, SeqNum(pos))
        BY <1>1, <2>1 DEF HandleAck, Held, Bytes
    <2>3. /\ s.pos \in 0..MaxBytes /\ s.size \in Nat /\ pos \in 0..MaxBytes
          /\ ISN \in Nat /\ MaxBytes \in Nat
        BY NumbersAssumption DEF RetransmitInv, TypeInv, Segment
    <2>4. SeqNum(s.pos) = ISN + s.pos /\ SeqNum(pos) = ISN + pos
        BY <2>3, NoWrapSeq
    <2>5. s.pos + s.size <= pos
        BY <2>2, <2>3, <2>4 DEF Acknowledged
    <2> QED BY <2>1, <2>3, <2>5 DEF Bytes
<1>2. Held' \subseteq Held
    BY DEF HandleAck, Held, Bytes
<1> QED BY <1>1, <1>2 DEF HandleAck, Buffer!Acknowledge

\* A step of the retransmitter adds bytes, frees acknowledged ones, or is none
\* of the buffer's.
LEMMA BufferStep ==
    ASSUME NoWrap, RetransmitInv, [Next]_vars
    PROVE  [Buffer!Next]_(Buffer!vars)
<1>1. ASSUME NEW size \in Sizes, AddSegment(size) PROVE Buffer!Next
    <2>1. /\ size \in Nat \ {0} /\ next \in Nat /\ MaxBytes \in Nat
          /\ next + size <= MaxBytes /\ next' = next + size
        BY <1>1, NumbersAssumption DEF AddSegment, RetransmitInv, TypeInv
    <2>2. size \in 1..MaxBytes-next
        BY <2>1
    <2>3. Held' = Held \cup next..next'-1
        <3> DEFINE new == [pos |-> next, size |-> size, age |-> 0, timeout |-> rto_,
                           retries |-> 0]
        <3>1. segments_' = segments_ \cup {new}
            BY <1>1 DEF AddSegment
        <3>2. Bytes(new) = next..next'-1
            BY <2>1 DEF Bytes
        <3> HIDE DEF new
        <3> QED BY <3>1, <3>2 DEF Held
    <2> QED BY <1>1, <2>1, <2>2, <2>3 DEF AddSegment, Buffer!Next, Buffer!Add
<1>2. ASSUME NEW pos \in 0..next, HandleAck(pos) PROVE Buffer!Next
    BY <1>2, AckFreesCovered DEF Buffer!Next
<1>3. CASE CheckTimeouts \/ Tick
    BY <1>3, TimersKeepBytes DEF Buffer!vars
<1>4. CASE UNCHANGED vars
    BY <1>4 DEF vars, Held, Bytes, Buffer!vars
<1> QED BY <1>1, <1>2, <1>3, <1>4 DEF Next

\* The list implements the buffer its users want: every byte added is held, in
\* order, until an acknowledgement covers it, whatever timers do and however
\* acknowledgements are repeated or overtake each other.
THEOREM ImplementsSendBuffer ==
    ASSUME NoWrap
    PROVE  Spec => HoldsBytes
<1>1. Init => Buffer!Init
    BY DEF Init, Held, Buffer!Init
<1>2. RetransmitInv /\ [Next]_vars => [Buffer!Next]_(Buffer!vars)
    BY BufferStep
<1> QED BY <1>1, <1>2, RetransmitterInvariant, PTL DEF Spec, HoldsBytes, Buffer!Spec
================================================================================
