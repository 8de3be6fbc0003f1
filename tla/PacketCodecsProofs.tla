-------------------------- MODULE PacketCodecsProofs --------------------------
(***************************************************************************)
(* Proofs about TCPPacket and UDPPacket for every byte base, header        *)
(* length, payload and choice of options.  What the loops of the checksum  *)
(* compute is proved by looking at the least counterexample.               *)
(***************************************************************************)
EXTENDS PacketCodecs, SequenceTheorems, WellFoundedInduction, TLAPS

Bytes == 0..B-1

\* Two halves put together come apart again.
LEMMA Halves ==
    ASSUME NEW q \in Nat, NEW r \in 0..B-1
    PROVE  (r + q * B) \div B = q /\ (r + q * B) % B = r
<1> DEFINE n == r + q * B
           d == n \div B
           m == n % B
<1>1. B \in Nat /\ B > 1 /\ n \in Nat
    BY ByteAssumption
<1>2. d \in Nat /\ m \in 0..B-1 /\ n = B * d + m
    BY <1>1
<1> HIDE DEF d, m
<1>3. B * (d - q) = B * d - q * B
    BY <1>1, <1>2
<1>4. B * (d - q) = r - m
    BY <1>1, <1>2, <1>3
<1>5. d = q
    <2>1. CASE d >= q + 1
        <3>1. B * (d - q) >= B
            BY <1>1, <1>2, <2>1
        <3> QED BY <1>1, <1>2, <1>4, <3>1
    <2>2. CASE d <= q - 1
        <3>1. B * (d - q) <= -B
            BY <1>1, <1>2, <2>2
        <3> QED BY <1>1, <1>2, <1>4, <3>1
    <2> QED BY <1>2, <2>1, <2>2
<1>6. m = r
    <2>1. B * (d - q) = 0
        BY <1>1, <1>5
    <2> QED BY <1>2, <1>4, <2>1
<1> QED BY <1>5, <1>6 DEF d, m

\* ntohs() undoes htons(): the bytes change places and come back.
LEMMA SwapTwice ==
    ASSUME NEW w \in 0..W-1
    PROVE  Swap(w) \in 0..W-1 /\ Swap(Swap(w)) = w
<1> DEFINE lo == w % B
           hi == w \div B
<1>1. B \in Nat /\ B > 1 /\ w \in Nat /\ w < B * B
    BY ByteAssumption DEF W
<1>2. lo \in 0..B-1 /\ hi \in Nat /\ w = B * hi + lo
    BY <1>1
<1>3. Swap(w) = hi + lo * B
    <2>1. Swap(w) = lo * B + hi
        BY DEF Swap
    <2> HIDE DEF lo, hi
    <2>2. lo * B \in Nat
        BY <1>1, <1>2
    <2> QED BY <1>2, <2>1, <2>2
<1> HIDE DEF lo, hi
<1>4. hi \in 0..B-1
    <2>1. ASSUME hi >= B PROVE FALSE
        <3>1. B * hi >= B * B
            BY <1>1, <1>2, <2>1
        <3> QED BY <1>1, <1>2, <3>1
    <2> QED BY <1>1, <1>2, <2>1
<1>5. Swap(w) \div B = lo /\ Swap(w) % B = hi
    BY <1>2, <1>3, <1>4, Halves
<1>6. hi + lo * B \in 0..W-1
    <2>1. lo * B \in Nat /\ lo * B <= (B - 1) * B
        BY <1>1, <1>2
    <2>2. (B - 1) * B = B * B - B
        BY <1>1
    <2> QED BY <1>1, <1>4, <2>1, <2>2 DEF W
<1>7. Swap(Swap(w)) = hi * B + lo
    BY <1>5 DEF Swap
<1>8. hi * B = B * hi
    BY <1>1, <1>2
<1> QED BY <1>2, <1>3, <1>6, <1>7, <1>8

-----------------------------------------------------------------------------
(* The checksum: adding up a payload and folding in the carries.           *)

\* A set of numbers has a least one.  A fact about all numbers is proved by
\* looking at the least counterexample.
LEMMA LeastNumber ==
    ASSUME NEW T, T \subseteq Nat, T # {}
    PROVE  \E n \in T : \A m \in T : n <= m
<1> DEFINE R == OpToRel(<, Nat)
<1>1. IsWellFoundedOn(R, Nat)
    BY NatLessThanWellFounded, Zenon
<1>2. \A m, n \in Nat : m < n => <<m, n>> \in R
    BY DEF OpToRel
<1> HIDE DEF R
<1>3. PICK n \in T : \A m \in T : ~(<<m, n>> \in R)
    BY <1>1, WFMin
<1>4. \A m \in T : n <= m
    <2> SUFFICES ASSUME NEW m \in T, m < n PROVE FALSE
        OBVIOUS
    <2> QED BY <1>2, <1>3
<1> QED BY <1>4

\* Numbers with the same remainder, and no more than the whole range apart.
LEMMA NoMultiple ==
    ASSUME NEW a \in Nat \ {0}, NEW k \in Int, NEW d \in Int, d = k * a, -a < d, d < a
    PROVE  d = 0
<1>1. CASE k >= 1
    <2>1. k * a >= a BY <1>1
    <2> QED BY <2>1
<1>2. CASE k <= -1
    <2>1. k * a <= -a BY <1>2
    <2> QED BY <2>1
<1> QED BY <1>1, <1>2

\* What folding in the carries amounts to: the remainder modulo W - 1, with
\* W - 1 in the place of 0 for all sums but 0.
Folded == [sum \in Nat |-> IF sum = 0 THEN 0 ELSE ((sum - 1) % (W - 1)) + 1]

\* A word is larger than what one byte can add to the sum.
LEMMA WordSize == W \in Nat /\ W > 3 /\ W - 1 > (B - 1) * B
<1>1. B \in Nat /\ B > 1
    BY ByteAssumption
<1>2. B * B >= 2 * B /\ (B - 1) * B = B * B - B
    BY <1>1
<1> QED BY <1>1, <1>2 DEF W

\* One turn of the loop takes a multiple of W - 1 off.
LEMMA OneTurn ==
    ASSUME NEW n \in Nat, n >= W
    PROVE  LET m == (n % W) + n \div W
           IN  m \in Nat /\ 0 < m /\ m < n /\ n = m + (n \div W) * (W - 1)
<1> DEFINE q == n \div W
           r == n % W
<1>1. W \in Nat /\ W > 3
    BY WordSize
<1>2. q \in Nat /\ r \in 0..W-1 /\ n = W * q + r
    BY <1>1
<1> HIDE DEF q, r
<1>3. q > 0
    <2>1. ASSUME q = 0 PROVE FALSE
        <3>1. W * q = 0 BY <1>1, <2>1
        <3> QED BY <1>1, <1>2, <3>1
    <2> QED BY <1>2, <2>1
<1>4. q * (W - 1) = W * q - q /\ q * (W - 1) > 0
    BY <1>1, <1>2, <1>3
<1>5. n = (r + q) + q * (W - 1) /\ r + q \in Nat /\ 0 < r + q
    BY <1>1, <1>2, <1>3, <1>4
<1>6. r + q < n
    BY <1>1, <1>2, <1>4, <1>5
<1> QED BY <1>5, <1>6 DEF q, r

\* Folded gives the same for a sum and for what one turn makes of it.
LEMMA FoldedOneTurn ==
    ASSUME NEW n \in Nat, n >= W
    PROVE  Folded[n] = Folded[(n % W) + n \div W]
<1> DEFINE m == (n % W) + n \div W
           k == n \div W
<1>1. m \in Nat /\ 0 < m /\ m < n /\ n = m + k * (W - 1)
    BY OneTurn
<1>2. k \in Nat /\ W - 1 \in Nat \ {0}
    BY WordSize
<1> HIDE DEF m, k
<1>3. (n - 1) % (W - 1) = (m - 1) % (W - 1)
    <2> DEFINE a == W - 1
               x == (n - 1) % a
               y == (m - 1) % a
               u == (n - 1) \div a
               v == (m - 1) \div a
    <2>1. /\ n - 1 = a * u + x /\ x \in 0..a-1 /\ u \in Int
          /\ m - 1 = a * v + y /\ y \in 0..a-1 /\ v \in Int
        BY <1>1, <1>2
    <2>2. a \in Nat \ {0} /\ n - 1 = (m - 1) + k * a
        BY <1>1, <1>2
    <2> HIDE DEF a, x, y, u, v
    <2>3. (k + v - u) * a = k * a + a * v - a * u
        BY <1>2, <2>1, <2>2
    <2>4. x - y = (k + v - u) * a
        BY <1>2, <2>1, <2>2, <2>3
    <2>5. x - y = 0
        BY <1>2, <2>1, <2>2, <2>4, NoMultiple
    <2>6. x = y
        BY <2>1, <2>2, <2>5
    <2> QED BY <2>6 DEF a, x, y
<1>4. Folded[n] = Folded[m]
    BY <1>1, <1>3 DEF Folded
<1> QED BY <1>4 DEF m

\* The loop satisfies its equation: there is a function that does.
LEMMA FoldEquation ==
    Fold = [n \in Nat |-> IF n < W THEN n ELSE Fold[(n % W) + n \div W]]
<1>1. ASSUME NEW n \in Nat
      PROVE  Folded[n] = IF n < W THEN n ELSE Folded[(n % W) + n \div W]
    <2>1. CASE n >= W
        BY <2>1, FoldedOneTurn, WordSize
    <2>2. CASE n < W /\ n # 0
        <3>1. n - 1 \in 0..(W-1)-1 /\ W - 1 \in Nat \ {0}
            BY <2>2, WordSize
        <3>2. (n - 1) % (W - 1) = n - 1
            BY <3>1
        <3> QED BY <2>2, <3>2 DEF Folded
    <2>3. CASE n = 0
        BY <2>3, WordSize DEF Folded
    <2> QED BY <2>1, <2>2, <2>3, WordSize
<1>2. Folded = [n \in Nat |-> IF n < W THEN n ELSE Folded[(n % W) + n \div W]]
    <2>1. Folded = [n \in Nat |-> Folded[n]]
        BY DEF Folded
    <2> HIDE DEF Folded
    <2> QED BY <1>1, <2>1
<1> HIDE DEF Folded
<1> QED BY <1>2 DEF Fold

\* It ends with a word, and has taken a multiple of W - 1 off.
LEMMA FoldIsRemainder ==
    ASSUME NEW n \in Nat
    PROVE  Fold[n] \in 0..W-1 /\ \E k \in Nat : n = Fold[n] + k * (W - 1)
<1> DEFINE OK(m) == Fold[m] \in 0..W-1 /\ \E k \in Nat : m = Fold[m] + k * (W - 1)
           Bad == {m \in Nat : ~OK(m)}
<1>1. SUFFICES ASSUME Bad # {} PROVE FALSE
    BY DEF Bad
<1>2. PICK m \in Bad : \A l \in Bad : m <= l
    <2>1. Bad \subseteq Nat OBVIOUS
    <2> HIDE DEF Bad
    <2> QED BY <1>1, <2>1, LeastNumber
<1>3. m \in Nat /\ ~OK(m)
    OBVIOUS
<1>4. Fold[m] = IF m < W THEN m ELSE Fold[(m % W) + m \div W]
    BY <1>3, FoldEquation
<1>5. W \in Nat /\ W > 3
    BY WordSize
<1>6. m >= W
    <2>1. ASSUME m < W PROVE OK(m)
        <3>1. m = Fold[m] + 0 * (W - 1) /\ Fold[m] \in 0..W-1
            BY <1>3, <1>4, <1>5, <2>1
        <3> QED BY <3>1
    <2> QED BY <1>3, <1>5, <2>1
<1> DEFINE l == (m % W) + m \div W
           q == m \div W
<1>7. l \in Nat /\ l < m /\ m = l + q * (W - 1) /\ q \in Nat
    BY <1>3, <1>5, <1>6, OneTurn
<1>8. Fold[m] = Fold[l]
    BY <1>3, <1>4, <1>5, <1>6
<1> HIDE DEF l, q
<1>9. OK(l)
    <2>1. l \notin Bad BY <1>2, <1>3, <1>7
    <2> QED BY <1>7, <2>1
<1>10. PICK k \in Nat : l = Fold[l] + k * (W - 1)
    BY <1>9
<1>11. m = Fold[m] + (k + q) * (W - 1)
    <2>1. (k + q) * (W - 1) = k * (W - 1) + q * (W - 1)
        BY <1>5, <1>7
    <2>2. Fold[l] \in Nat /\ k * (W - 1) \in Nat /\ q * (W - 1) \in Nat
        BY <1>5, <1>7, <1>9
    <2> QED BY <1>7, <1>8, <1>10, <2>1, <2>2
<1>12. k + q \in Nat
    BY <1>7
<1> QED BY <1>3, <1>8, <1>9, <1>11, <1>12

\* The running sum satisfies its equation: if no function does for some number
\* of bytes, there is a least such number, and one for a byte less.
LEMMA RunningSumEquation ==
    ASSUME NEW p \in Seq(Bytes)
    PROVE  RunningSum(p) = [i \in 0..Len(p) |->
                              IF i = 0 THEN 0 ELSE RunningSum(p)[i - 1] + p[i] * Weight(i)]
<1> DEFINE Sums(n, g) ==
               g = [i \in 0..n |-> IF i = 0 THEN 0 ELSE g[i - 1] + p[i] * Weight(i)]
           Bad == {n \in Nat : \A g : ~Sums(n, g)}
<1>1. Bad = {}
    <2> SUFFICES ASSUME Bad # {} PROVE FALSE
        OBVIOUS
    <2>1. PICK n \in Bad : \A l \in Bad : n <= l
        <3>1. Bad \subseteq Nat OBVIOUS
        <3> HIDE DEF Bad
        <3> QED BY <3>1, LeastNumber
    <2>2. n \in Nat /\ n # 0
        <3>1. Sums(0, [i \in 0..0 |-> 0])
            <4>1. \A i \in 0..0 : i = 0 OBVIOUS
            <4> QED BY <4>1
        <3>2. 0 \notin Bad
            BY <3>1
        <3> QED BY <2>1, <3>2
    <2>3. PICK g : Sums(n - 1, g)
        <3>1. n - 1 \in Nat /\ ~(n <= n - 1)
            BY <2>2
        <3>2. n - 1 \notin Bad
            BY <2>1, <3>1
        <3> QED BY <3>1, <3>2
    <2> DEFINE h == [i \in 0..n |-> IF i = n THEN g[n - 1] + p[n] * Weight(n) ELSE g[i]]
    <2>4. ASSUME NEW i \in 0..n
          PROVE  h[i] = IF i = 0 THEN 0 ELSE h[i - 1] + p[i] * Weight(i)
        <3>1. CASE i = n
            BY <2>2, <3>1
        <3>2. CASE i # n
            <4>1. /\ i \in 0..n-1 /\ h[i] = g[i]
                  /\ i # 0 => h[i - 1] = g[i - 1]
                BY <2>2, <3>2
            <4>2. g[i] = IF i = 0 THEN 0 ELSE g[i - 1] + p[i] * Weight(i)
                BY <2>3, <4>1
            <4> QED BY <4>1, <4>2
        <3> QED BY <3>1, <3>2
    <2>5. Sums(n, h)
        <3>1. h = [i \in 0..n |-> h[i]] OBVIOUS
        <3> HIDE DEF h
        <3> QED BY <2>4, <3>1
    <2> QED BY <2>1, <2>5
<1>2. PICK g : Sums(Len(p), g)
    <2>1. Len(p) \in Nat OBVIOUS
    <2> QED BY <1>1, <2>1
<1> QED BY <1>2 DEF RunningSum

\* Each byte adds its value times its weight to what was added up before.
LEMMA RunningSumStep ==
    ASSUME NEW p \in Seq(Bytes)
    PROVE  /\ RunningSum(p)[0] = 0
           /\ \A i \in 1..Len(p) :
                 RunningSum(p)[i] = RunningSum(p)[i - 1] + p[i] * Weight(i)
<1> DEFINE s == RunningSum(p)
<1>1. s = [i \in 0..Len(p) |-> IF i = 0 THEN 0 ELSE s[i - 1] + p[i] * Weight(i)]
    BY RunningSumEquation
<1> HIDE DEF s
<1>2. s[0] = 0 /\ \A i \in 1..Len(p) : s[i] = s[i - 1] + p[i] * Weight(i)
    BY <1>1
<1> QED BY <1>2 DEF s

\* A byte counts once or B times.
LEMMA WeightType == \A i : Weight(i) \in {1, B} /\ Weight(i) \in Nat
BY ByteAssumption DEF Weight

\* What one byte adds is a number.
LEMMA TermType ==
    ASSUME NEW i, NEW b \in Bytes
    PROVE  b \in Nat /\ b * Weight(i) \in Nat
<1>1. b \in Nat
    BY ByteAssumption DEF Bytes
<1>2. Weight(i) \in Nat
    BY WeightType
<1> QED BY <1>1, <1>2

\* What has been added up is a number: the least byte after which it is not
\* would have added something that is none.
LEMMA RunningSumType ==
    ASSUME NEW p \in Seq(Bytes)
    PROVE  \A i \in 0..Len(p) : RunningSum(p)[i] \in Nat
<1> DEFINE Bad == {i \in 0..Len(p) : RunningSum(p)[i] \notin Nat}
<1>1. SUFFICES ASSUME Bad # {} PROVE FALSE
    OBVIOUS
<1>2. PICK i \in Bad : \A l \in Bad : i <= l
    <2>1. Bad \subseteq Nat OBVIOUS
    <2> HIDE DEF Bad
    <2> QED BY <1>1, <2>1, LeastNumber
<1>3. i \in 1..Len(p)
    BY <1>2, RunningSumStep
<1>4. RunningSum(p)[i - 1] \in Nat
    <2>1. i - 1 \in 0..Len(p) /\ i - 1 \notin Bad BY <1>2, <1>3
    <2> QED BY <2>1
<1>5. p[i] * Weight(i) \in Nat
    BY <1>3, TermType
<1> QED BY <1>3, <1>4, <1>5, RunningSumStep

\* The sum of a payload is a number.
LEMMA PayloadSumType ==
    ASSUME NEW p \in Seq(Bytes)
    PROVE  PayloadSum(p) \in Nat
<1>1. Len(p) \in 0..Len(p)
    OBVIOUS
<1> QED BY <1>1, RunningSumType DEF PayloadSum

\* One changed byte changes the sum by its difference, times its weight.
LEMMA ChangedSum ==
    ASSUME NEW p \in Seq(Bytes), NEW q \in Seq(Bytes), Len(q) = Len(p),
           NEW i \in 1..Len(p), \A j \in 1..Len(p) : j # i => q[j] = p[j]
    PROVE  PayloadSum(q) = PayloadSum(p) + (q[i] - p[i]) * Weight(i)
<1> DEFINE s == RunningSum(p)
           t == RunningSum(q)
           d == (q[i] - p[i]) * Weight(i)
           Diff(j) == IF j < i THEN 0 ELSE d
           Bad == {j \in 0..Len(p) : t[j] # s[j] + Diff(j)}
<1>1. Bad = {}
    <2> SUFFICES ASSUME Bad # {} PROVE FALSE
        OBVIOUS
    <2>1. PICK j \in Bad : \A l \in Bad : j <= l
        <3>1. Bad \subseteq Nat OBVIOUS
        <3> HIDE DEF Bad
        <3> QED BY <3>1, LeastNumber
    <2>2. j \in 1..Len(p)
        <3>1. s[0] = 0 /\ t[0] = 0 BY RunningSumStep
        <3> QED BY <2>1, <3>1
    <2>3. j - 1 \in 0..Len(p) /\ t[j - 1] = s[j - 1] + Diff(j - 1)
        BY <2>1, <2>2
    <2>4. /\ s[j] = s[j - 1] + p[j] * Weight(j) /\ t[j] = t[j - 1] + q[j] * Weight(j)
          /\ s[j - 1] \in Nat /\ t[j - 1] \in Nat
        BY <2>2, <2>3, RunningSumStep, RunningSumType
    <2>5. /\ Weight(j) \in Nat /\ p[j] \in Nat /\ q[j] \in Nat
          /\ p[j] * Weight(j) \in Nat /\ q[j] * Weight(j) \in Nat
        <3>1. p[j] \in Bytes /\ q[j] \in Bytes
            BY <2>2
        <3> QED BY <3>1, WeightType, TermType
    <2> HIDE DEF s, t
    <2>6. CASE j = i
        <3> DEFINE w == Weight(j)
                   x == p[j]
                   y == q[j]
        <3>1. w \in Nat /\ x \in Nat /\ y \in Nat /\ d = (y - x) * w
            BY <2>5, <2>6
        <3>3. Diff(j) = d /\ Diff(j - 1) = 0
            BY <2>2, <2>6
        <3>4. t[j - 1] = s[j - 1]
            BY <2>3, <2>4, <3>3
        <3> HIDE DEF d, Diff
        <3>5. s[j] = s[j - 1] + x * w /\ t[j] = t[j - 1] + y * w
            BY <2>4
        <3> HIDE DEF w, x, y
        <3>6. (y - x) * w = y * w - x * w /\ x * w \in Nat /\ y * w \in Nat
            BY <3>1
        <3>2. t[j] = s[j] + d
            BY <2>4, <3>1, <3>4, <3>5, <3>6
        <3> QED BY <2>1, <3>2, <3>3
    <2>7. CASE j # i
        <3>1. p[j] = q[j] BY <2>2, <2>7
        <3>2. Diff(j) = Diff(j - 1) BY <2>2, <2>7
        <3>3. d \in Int
            <4>1. p[i] \in Bytes /\ q[i] \in Bytes
                OBVIOUS
            <4>2. p[i] \in Nat /\ q[i] \in Nat /\ Weight(i) \in Nat
                BY <4>1, WeightType, TermType
            <4> QED BY <4>2
        <3> QED BY <2>1, <2>3, <2>4, <2>5, <3>1, <3>2, <3>3
    <2> QED BY <2>6, <2>7
<1>2. t[Len(p)] = s[Len(p)] + d
    <2>1. Len(p) \in 0..Len(p) /\ ~(Len(p) < i) OBVIOUS
    <2> QED BY <1>1, <2>1
<1> QED BY <1>2 DEF PayloadSum

\* No change of one byte keeps the checksum: it moves the sum by less than
\* W - 1, and not by 0.
LEMMA ChangedComplement ==
    ASSUME NEW p \in Seq(Bytes), NEW i \in 1..Len(p), NEW b \in Bytes, b # p[i],
           NEW a \in Nat
    PROVE  Complement(a + PayloadSum([p EXCEPT ![i] = b]))
             # Complement(a + PayloadSum(p))
<1> DEFINE q == [p EXCEPT ![i] = b]
           d == (b - p[i]) * Weight(i)
           m == a + PayloadSum(p)
           n == a + PayloadSum(q)
<1>1. q \in Seq(Bytes) /\ Len(q) = Len(p) /\ q[i] = b
    BY ExceptSeq
<1>2. PayloadSum(q) = PayloadSum(p) + d
    <2>1. \A j \in 1..Len(p) : j # i => q[j] = p[j] OBVIOUS
    <2> HIDE DEF q
    <2> QED BY <1>1, <2>1, ChangedSum
<1>3. PayloadSum(p) \in Nat /\ PayloadSum(q) \in Nat
    <2> HIDE DEF q
    <2> QED BY <1>1, PayloadSumType
<1>4. d \in Int /\ d # 0 /\ -(W - 1) < d /\ d < W - 1
    <2>1. B \in Nat /\ B > 1 /\ b \in 0..B-1 /\ p[i] \in 0..B-1
        BY ByteAssumption DEF Bytes
    <2>2. Weight(i) \in {1, B}
        BY WeightType
    <2> DEFINE e == b - p[i]
    <2>3. e \in Int /\ e # 0 /\ -(B - 1) <= e /\ e <= B - 1
        BY <2>1
    <2> HIDE DEF e
    <2>4. (B - 1) * B \in Nat /\ B - 1 <= (B - 1) * B
        BY <2>1
    <2>5. e * B # 0 /\ e * B <= (B - 1) * B /\ -((B - 1) * B) <= e * B
        BY <2>1, <2>3
    <2>6. d = e \/ d = e * B
        BY <2>1, <2>2, <2>3 DEF e
    <2> QED BY <2>1, <2>3, <2>4, <2>5, <2>6, WordSize
<1>5. m \in Nat /\ n \in Nat /\ n = m + d
    BY <1>2, <1>3, <1>4
<1> HIDE DEF q, d, m, n
<1>6. Fold[m] # Fold[n]
    <2> SUFFICES ASSUME Fold[m] = Fold[n] PROVE FALSE
        OBVIOUS
    <2> DEFINE w == W - 1
               f == Fold[m]
    <2>1. w \in Nat \ {0} /\ f \in Int
        BY <1>5, WordSize, FoldIsRemainder
    <2>2. PICK k \in Nat : m = f + k * w
        BY <1>5, FoldIsRemainder
    <2>3. PICK l \in Nat : n = f + l * w
        BY <1>5, FoldIsRemainder
    <2> HIDE DEF w, f
    <2>4. (l - k) * w = l * w - k * w /\ l * w \in Int /\ k * w \in Int
        BY <2>1
    <2>5. d = (l - k) * w
        BY <1>4, <1>5, <2>1, <2>2, <2>3, <2>4
    <2>6. -w < d /\ d < w
        BY <1>4 DEF w
    <2> QED BY <1>4, <2>1, <2>5, <2>6, NoMultiple
<1>7. W \in Nat
    BY WordSize
<1>8. Fold[m] \in Int /\ Fold[n] \in Int
    <2>1. Fold[m] \in 0..W-1 /\ Fold[n] \in 0..W-1
        BY <1>5, FoldIsRemainder
    <2> QED BY <1>7, <2>1
<1> QED BY <1>6, <1>7, <1>8 DEF Complement, m, n, q

-----------------------------------------------------------------------------
(* TCPPacket                                                               *)

Setting == [mss : BOOLEAN, scale : BOOLEAN, timestamps : BOOLEAN]

\* What was sent is what the setters were given.
OriginOK ==
    /\ origin = [sent |-> origin.sent, packet |-> origin.packet, opts |-> origin.opts,
                 foreign |-> origin.foreign, parsed |-> origin.parsed,
                 stale |-> origin.stale]
    /\ origin.packet.fields \in 0..W-1 /\ origin.packet.word \in Bytes
    /\ origin.packet.payload \in Seq(Bytes) /\ origin.opts \in Setting
    /\ origin.packet.checksum \in 0..W-1

\* q is p with one byte changed.
OneChanged(q, p) ==
    \E i \in 1..Len(p), b \in Bytes : b # p[i] /\ q = [p EXCEPT ![i] = b]

\* The header on the wire is that of the packet sent; its payload may have been
\* damaged.
WireOK ==
    /\ wire = Packet(wire.fields, wire.word, wire.checksum, wire.payload)
    /\ wire.payload \in Seq(Bytes)
    /\ origin.sent => /\ wire.fields = Swap(origin.packet.fields)
                      /\ \/ wire.payload = origin.packet.payload
                         \/ OneChanged(wire.payload, origin.packet.payload)
    /\ (origin.sent /\ ~origin.foreign)
          => /\ wire.word = WithOffset(origin.packet.word, origin.opts)
             /\ wire.checksum = Calculate(Packet(origin.packet.fields, wire.word,
                                                 origin.packet.checksum,
                                                 origin.packet.payload))

\* A checksum that an object can come to hold is a word.
HeldOK == wire.checksum \in 0..W-1 /\ rcv.checksum \in 0..W-1

\* The case in which the payload of a packet is parsed as its payload.
Kept == OptionBytes(origin.opts) = 0 \/ origin.packet.payload = <<>>

\* What the object holds after parsing.
RcvOK ==
    origin.parsed =>
        /\ origin.sent /\ rcv = Packet(Swap(wire.fields), wire.word, wire.checksum,
                                       rcv.payload)
        /\ PayloadSurvives
        /\ (~origin.foreign /\ ~origin.stale /\ Kept) =>
              \/ rcv.payload = origin.packet.payload
              \/ OneChanged(rcv.payload, origin.packet.payload)

CodecInv == OriginOK /\ WireOK /\ HeldOK /\ RcvOK

\* Options of no bytes leave the header at its length.
LEMMA NoOptionsLen ==
    ASSUME NEW o, OptionBytes(o) = 0
    PROVE  ((HeaderLen + OptionsLen(o)) \div 4) * 4 = HeaderLen
<1>1. OptionsLen(o) = 0
    BY DEF OptionsLen
<1>2. HeaderLen \in Nat /\ HeaderLen % 4 = 0
    BY PacketAssumption
<1>3. (HeaderLen \div 4) * 4 = HeaderLen
    BY <1>2
<1> QED BY <1>1, <1>2, <1>3

\* The words of the header are a natural number, and not fewer with options.
LEMMA OffsetType ==
    ASSUME NEW o \in Setting
    PROVE  /\ (HeaderLen + OptionsLen(o)) \div 4 \in Nat
           /\ ((HeaderLen + OptionsLen(o)) \div 4) * 4 >= HeaderLen
<1>1. OptionBytes(o) \in Nat
    BY DEF OptionBytes, Setting
<1>2. OptionsLen(o) \in Nat
    BY <1>1 DEF OptionsLen
<1> QED BY <1>2, PacketAssumption

\* The host's word of the offset and the flags is a number.
LEMMA WordType ==
    ASSUME NEW g \in Bytes, NEW o \in Setting
    PROVE  WithOffset(g, o) \in Nat
<1> DEFINE q == (HeaderLen + OptionsLen(o)) \div 4
<1>1. B \in Nat /\ B > 1 /\ q \in Nat /\ g \in Nat
    BY ByteAssumption, OffsetType DEF Bytes
<1>2. WithOffset(g, o) = (g % B) + q * B
    BY DEF WithOffset
<1> HIDE DEF q
<1>3. g % B \in Nat /\ q * B \in Nat
    BY <1>1
<1> QED BY <1>2, <1>3

\* The two bytes of a number change places.
LEMMA SwapType == \A n \in Nat : Swap(n) \in Nat
<1> SUFFICES ASSUME NEW n \in Nat PROVE Swap(n) \in Nat
    OBVIOUS
<1> DEFINE lo == n % B
           hi == n \div B
<1>1. B \in Nat /\ B > 1
    BY ByteAssumption
<1>2. lo \in Nat /\ hi \in Nat
    BY <1>1
<1>3. Swap(n) = lo * B + hi
    BY DEF Swap
<1> HIDE DEF lo, hi
<1> QED BY <1>1, <1>2, <1>3

\* The complement of a sum is a word.
LEMMA ComplementType ==
    ASSUME NEW n \in Nat
    PROVE  Complement(n) \in 0..W-1
BY FoldIsRemainder, WordSize DEF Complement

\* What serialize() and verify_checksum() compute is a word.
LEMMA CalculateType ==
    ASSUME NEW f \in 0..W-1, NEW w \in Nat, NEW c \in 0..W-1, NEW p \in Seq(Bytes)
    PROVE  Calculate(Packet(f, w, c, p)) \in 0..W-1
<1>1. f \in Nat /\ c \in Nat
    BY WordSize
<1> DEFINE sum == Swap(f) + Swap(w) + Swap(c) + PayloadSum(p)
<1>2. sum \in Nat
    <2>1. Swap(f) \in Nat /\ Swap(w) \in Nat /\ Swap(c) \in Nat
        BY <1>1, SwapType
    <2>2. PayloadSum(p) \in Nat
        BY PayloadSumType
    <2> QED BY <2>1, <2>2
<1>3. Calculate(Packet(f, w, c, p)) = Complement(sum)
    BY DEF Calculate, Packet
<1> QED BY <1>2, <1>3, ComplementType

\* A segment put on the wire is described by origin from then on, and nothing
\* is said of the parsing object before it has read it.
LEMMA SerializeStep ==
    ASSUME CodecInv, NEW f \in Fields, NEW g \in Flags, NEW p \in Payloads,
           \/ \E o \in Options, reuse \in BOOLEAN : Serialize(f, g, p, o, reuse)
           \/ \E c \in Foreign : ForeignSegment(f, g, p, c)
    PROVE  CodecInv'
<1>1. f \in 0..W-1 /\ g \in Bytes /\ p \in Seq(Bytes) /\ Options \subseteq Setting
    BY PacketAssumption DEF Bytes, Setting
<1>2. ASSUME NEW o \in Options, NEW reuse \in BOOLEAN, Serialize(f, g, p, o, reuse)
      PROVE  CodecInv'
    <2> DEFINE held == Held(reuse)
               full == Packet(f, WithOffset(g, o), held, p)
               sum == Calculate(full)
    <2>1. wire' = Packet(Swap(f), WithOffset(g, o), sum, p)
        BY <1>2 DEF Serialize, Packet
    <2>2. origin' = Origin(TRUE, Packet(f, g, held, p), o, FALSE)
        BY <1>2 DEF Serialize
    <2>3. held \in 0..W-1
        BY WordSize DEF CodecInv, HeldOK, Held
    <2>4. sum \in 0..W-1
        BY <1>1, <2>3, WordType, CalculateType
    <2>5. HeldOK'
        <3>1. rcv' = full \/ rcv' = rcv
            BY <1>2 DEF Serialize
        <3>2. rcv'.checksum \in 0..W-1
            BY <2>3, <3>1 DEF CodecInv, HeldOK, Packet
        <3> QED BY <2>1, <2>4, <3>2 DEF HeldOK, Packet
    <2>6. sum = Calculate(Packet(f, WithOffset(g, o), held, p))
        OBVIOUS
    <2> HIDE DEF sum, held
    <2>7. OriginOK'
        BY <1>1, <2>2, <2>3 DEF OriginOK, Origin, Packet
    <2>8. WireOK'
        <3>1. /\ wire'.fields = Swap(f) /\ wire'.word = WithOffset(g, o)
              /\ wire'.checksum = sum /\ wire'.payload = p
            BY <2>1 DEF Packet
        <3>2. /\ origin'.packet.fields = f /\ origin'.packet.word = g
              /\ origin'.packet.payload = p /\ origin'.packet.checksum = held
              /\ origin'.opts = o
            BY <2>2 DEF Origin, Packet
        <3>3. wire'.checksum = Calculate(Packet(origin'.packet.fields, wire'.word,
                                                origin'.packet.checksum,
                                                origin'.packet.payload))
            BY <2>6, <3>1, <3>2
        <3>4. wire' = Packet(wire'.fields, wire'.word, wire'.checksum, wire'.payload)
            BY <2>1, <3>1
        <3> QED BY <1>1, <3>1, <3>2, <3>3, <3>4 DEF WireOK, Calculate
    <2>9. RcvOK'
        BY <2>2 DEF RcvOK, Origin
    <2> QED BY <2>5, <2>7, <2>8, <2>9 DEF CodecInv
<1>3. ASSUME NEW c \in Foreign, ForeignSegment(f, g, p, c) PROVE CodecInv'
    <2> DEFINE word == Swap((HeaderLen \div 4) * B + g)
    <2>1. wire' = Packet(Swap(f), word, c, p) /\ rcv' = rcv
        BY <1>3 DEF ForeignSegment
    <2>2. origin' = Origin(TRUE, Packet(f, g, c, p), NoOptions, TRUE)
        BY <1>3 DEF ForeignSegment
    <2> HIDE DEF word
    <2>3. c \in 0..W-1
        BY PacketAssumption
    <2>4. OriginOK'
        BY <1>1, <2>2, <2>3 DEF OriginOK, Origin, Packet, NoOptions, Setting
    <2>5. WireOK'
        BY <1>1, <2>1, <2>2 DEF WireOK, Origin, Packet
    <2>6. HeldOK'
        BY <2>1, <2>3 DEF CodecInv, HeldOK, Packet
    <2>7. RcvOK'
        BY <2>2 DEF RcvOK, Origin
    <2> QED BY <2>4, <2>5, <2>6, <2>7 DEF CodecInv
<1> QED BY <1>2, <1>3

\* A damaged byte leaves the header alone, and the payload no longer the one sent.
LEMMA CorruptStep ==
    ASSUME CodecInv, NEW i \in DOMAIN wire.payload, NEW b \in Noise, Corrupt(i, b)
    PROVE  CodecInv'
<1>1. b \in Bytes
    BY PacketAssumption DEF Bytes
<1>2. wire' = Packet(wire.fields, wire.word, wire.checksum,
                     [wire.payload EXCEPT ![i] = b])
    BY DEF Corrupt, CodecInv, WireOK, Packet
<1>3. /\ wire'.payload \in Seq(Bytes) /\ wire'.payload # wire.payload
      /\ OneChanged(wire'.payload, wire.payload)
    <2>1. wire'.payload = [wire.payload EXCEPT ![i] = b]
        BY <1>2 DEF Packet
    <2>2. wire.payload \in Seq(Bytes) /\ b # wire.payload[i]
        BY DEF CodecInv, WireOK, Corrupt
    <2>3. wire'.payload[i] = b
        BY <2>1, <2>2
    <2>4. wire'.payload \in Seq(Bytes)
        BY <1>1, <2>1, <2>2, ExceptSeq
    <2>5. i \in 1..Len(wire.payload)
        BY <2>2
    <2> QED BY <1>1, <2>1, <2>2, <2>3, <2>4, <2>5 DEF OneChanged
<1>4. /\ wire'.fields = wire.fields /\ wire'.word = wire.word
      /\ wire'.checksum = wire.checksum
    BY <1>2 DEF Packet
<1>5. origin' = origin /\ rcv' = rcv /\ wire.payload = origin.packet.payload
    BY DEF Corrupt
<1>6. OriginOK'
    BY <1>5 DEF CodecInv, OriginOK
<1>7. WireOK'
    <2>1. wire' = Packet(wire'.fields, wire'.word, wire'.checksum, wire'.payload)
        BY <1>2 DEF Packet
    <2> QED BY <1>3, <1>4, <1>5, <2>1 DEF CodecInv, WireOK, Calculate
<1>8. RcvOK'
    <2>1. PayloadSurvives'
        BY <1>3, <1>5 DEF PayloadSurvives, Damaged
    <2>2. Kept' <=> Kept
        BY <1>5 DEF Kept
    <2>3. RcvOK
        BY DEF CodecInv
    <2> QED BY <1>4, <1>5, <2>1, <2>2, <2>3 DEF RcvOK
<1>9. HeldOK'
    BY <1>4, <1>5 DEF CodecInv, HeldOK
<1> QED BY <1>6, <1>7, <1>8, <1>9 DEF CodecInv

\* The host's word holds the flags in its low byte and, times four, the length
\* of the header and its options in its high one.
LEMMA OffsetParts ==
    ASSUME NEW word \in Bytes, NEW o \in Setting
    PROVE  /\ WithOffset(word, o) \div B = (HeaderLen + OptionsLen(o)) \div 4
           /\ WithOffset(word, o) % B = word
<1> DEFINE q == (HeaderLen + OptionsLen(o)) \div 4
<1>1. q \in Nat
    BY OffsetType
<1>2. word % B = word
    BY ByteAssumption DEF Bytes
<1>3. WithOffset(word, o) = word + q * B
    BY <1>2 DEF WithOffset
<1> HIDE DEF q
<1>4. (word + q * B) \div B = q /\ (word + q * B) % B = word
    BY <1>1, Halves DEF Bytes
<1>5. WithOffset(word, o) \div B = q /\ WithOffset(word, o) % B = word
    BY <1>3, <1>4
<1> QED BY <1>5 DEF q

\* parse() copies the header as it is on the wire.  A segment of this class
\* without options gives its whole payload, so what the object held before
\* cannot show.
LEMMA ParseStep ==
    ASSUME CodecInv, Parse
    PROVE  CodecInv'
<1> DEFINE len == (wire.word \div B) * 4
           short == HeaderLen + Len(wire.payload) < len
           kept == IF short THEN rcv.payload ELSE Remainder(len)
           left == short /\ rcv.payload # <<>>
<1>1. /\ rcv' = Packet(Swap(wire.fields), wire.word, ReadChecksum, kept)
      /\ origin' = [origin EXCEPT !.parsed = TRUE, !.stale = left]
      /\ wire' = wire /\ origin.sent
    BY DEF Parse
<1>2. ASSUME ~origin.foreign, OptionBytes(origin.opts) = 0 PROVE kept = wire.payload
    <2>1. origin.packet.word \in Bytes /\ origin.opts \in Setting
        BY DEF CodecInv, OriginOK
    <2>2. wire.word \div B = (HeaderLen + OptionsLen(origin.opts)) \div 4
        BY <1>1, <1>2, <2>1, OffsetParts DEF CodecInv, WireOK
    <2>3. len = HeaderLen
        BY <1>2, <2>2, NoOptionsLen
    <2>4. wire.payload \in Seq(Bytes) /\ HeaderLen \in Nat
        BY PacketAssumption DEF CodecInv, WireOK
    <2>5. ~short
        BY <2>3, <2>4
    <2>6. Remainder(HeaderLen) = wire.payload
        <3>1. [i \in 1..HeaderLen - HeaderLen |-> 0] = <<>>
            BY <2>4
        <3>2. Remainder(HeaderLen) = <<>> \o wire.payload
            BY <2>4, <3>1 DEF Remainder
        <3> QED BY <2>4, <3>2, ConcatEmptySeq
    <2> QED BY <2>3, <2>5, <2>6
<1>9. ASSUME ~origin.foreign, origin.packet.payload = <<>>, ~left
      PROVE  kept = <<>>
    <2>1. wire.payload = <<>>
        BY <1>1, <1>9 DEF CodecInv, WireOK, OneChanged
    <2>2. CASE short
        BY <1>9, <2>2
    <2>3. CASE ~short
        <3>1. wire.word \div B = (HeaderLen + OptionsLen(origin.opts)) \div 4
            BY <1>1, <1>9, OffsetParts DEF CodecInv, WireOK, OriginOK
        <3>2. len \in Nat /\ HeaderLen \in Nat
            BY <3>1, OffsetType, PacketAssumption DEF CodecInv, OriginOK
        <3>3. len = HeaderLen
            <4>1. len >= HeaderLen
                BY <3>1, OffsetType DEF CodecInv, OriginOK
            <4>2. Len(wire.payload) = 0
                BY <2>1
            <4> QED BY <2>3, <3>2, <4>1, <4>2
        <3> QED BY <2>1, <2>3, <3>2, <3>3 DEF Remainder
    <2> QED BY <2>2, <2>3
<1> HIDE DEF len, short, kept, left
<1>3. /\ rcv' = Packet(Swap(wire.fields), wire.word, wire.checksum, rcv'.payload)
      /\ rcv'.payload = kept
    BY <1>1 DEF Packet, ReadChecksum
<1>4. /\ origin'.sent = origin.sent /\ origin'.packet = origin.packet
      /\ origin'.opts = origin.opts /\ origin'.foreign = origin.foreign
    BY <1>1 DEF CodecInv, OriginOK
<1>5. OriginOK'
    <2>1. OriginOK
        BY DEF CodecInv
    <2> QED BY <1>1, <2>1 DEF OriginOK
<1>6. WireOK'
    BY <1>1, <1>4 DEF CodecInv, WireOK, Calculate
<1>7. PayloadSurvives'
    BY <1>1, <1>2, <1>3, <1>4 DEF PayloadSurvives, Damaged
<1>10. ASSUME ~origin'.foreign, ~origin'.stale, Kept'
       PROVE  \/ rcv'.payload = origin'.packet.payload
              \/ OneChanged(rcv'.payload, origin'.packet.payload)
    <2>1. origin'.stale = left
        BY <1>1 DEF CodecInv, OriginOK
    <2>2. CASE OptionBytes(origin.opts) = 0
        BY <1>1, <1>2, <1>3, <1>4, <1>10, <2>2 DEF CodecInv, WireOK
    <2>3. CASE origin.packet.payload = <<>>
        BY <1>9, <1>3, <1>4, <1>10, <2>1, <2>3
    <2> QED BY <1>4, <1>10, <2>2, <2>3 DEF Kept
<1>8. RcvOK'
    BY <1>1, <1>3, <1>4, <1>7, <1>10 DEF RcvOK
<1>11. HeldOK'
    BY <1>1, <1>3 DEF CodecInv, HeldOK, Packet
<1> QED BY <1>5, <1>6, <1>8, <1>11 DEF CodecInv

\* Every use of the TCP packet's objects keeps the invariant, using the UDP
\* packet's leaves it alone.
LEMMA CodecInvariant == CodecsSpec => []CodecInv
<1>1. CodecsInit => CodecInv
    <2> SUFFICES ASSUME CodecsInit PROVE CodecInv
        OBVIOUS
    <2>1. rcv = Fresh /\ wire = Fresh /\ origin = Origin(FALSE, Fresh, NoOptions, FALSE)
        BY DEF CodecsInit, Init
    <2>2. 0 \in 0..W-1 /\ 0 \in Bytes /\ <<>> \in Seq(Bytes)
        <3>1. B \in Nat /\ B > 1
            BY ByteAssumption
        <3>2. B * B \in Nat /\ B * B > 0
            BY <3>1
        <3> QED BY <3>1, <3>2 DEF Bytes, W
    <2>3. OriginOK
        BY <2>1, <2>2 DEF OriginOK, Origin, Fresh, Packet, NoOptions, Setting
    <2>4. WireOK
        BY <2>1, <2>2 DEF WireOK, Origin, Fresh, Packet
    <2>5. RcvOK
        BY <2>1 DEF RcvOK, Origin
    <2>6. HeldOK
        BY <2>1, <2>2 DEF HeldOK, Fresh, Packet
    <2> QED BY <2>3, <2>4, <2>5, <2>6 DEF CodecInv
<1>2. CodecInv /\ [CodecsNext]_<<vars, udpvars>> => CodecInv'
    <2> SUFFICES ASSUME CodecInv, [CodecsNext]_<<vars, udpvars>> PROVE CodecInv'
        OBVIOUS
    <2>1. CASE Next
        BY <2>1, SerializeStep, CorruptStep, ParseStep DEF Next
    <2>2. CASE UNCHANGED vars
        <3>1. rcv' = rcv /\ wire' = wire /\ origin' = origin
            BY <2>2 DEF vars
        <3>2. OriginOK'
            BY <3>1 DEF CodecInv, OriginOK
        <3>3. WireOK'
            BY <3>1 DEF CodecInv, WireOK, Calculate
        <3>4. RcvOK'
            BY <3>1 DEF CodecInv, RcvOK, PayloadSurvives, Damaged, Kept
        <3>5. HeldOK'
            BY <3>1 DEF CodecInv, HeldOK
        <3> QED BY <3>2, <3>3, <3>4, <3>5 DEF CodecInv
    <2> QED BY <2>1, <2>2 DEF CodecsNext
<1> QED BY <1>1, <1>2, PTL DEF CodecsSpec

\* What one object serializes another reads: the converted fields change their
\* byte order twice, and the flags share a word with the offset and come apart
\* from it, whatever the options.
THEOREM HeadersSurvive == CodecsSpec => []HeaderSurvives
<1>1. CodecInv => HeaderSurvives
    <2> SUFFICES ASSUME CodecInv, origin.parsed, ~origin.foreign
                 PROVE  /\ rcv.fields = origin.packet.fields
                        /\ rcv.word % B = origin.packet.word % B
        BY DEF HeaderSurvives
    <2>1. /\ origin.packet.fields \in 0..W-1 /\ origin.packet.word \in Bytes
          /\ origin.opts \in Setting
        BY DEF CodecInv, OriginOK
    <2>2. /\ rcv.fields = Swap(Swap(origin.packet.fields))
          /\ rcv.word = WithOffset(origin.packet.word, origin.opts)
        BY DEF CodecInv, RcvOK, WireOK, Packet
    <2>3. origin.packet.word % B = origin.packet.word
        BY <2>1, ByteAssumption DEF Bytes
    <2> QED BY <2>1, <2>2, <2>3, SwapTwice, OffsetParts
<1> QED BY <1>1, CodecInvariant, PTL

\* Without options the payload comes back, whatever the parsing object held
\* before and whoever sent the frames in between.
THEOREM PayloadsSurvive == CodecsSpec => []PayloadSurvives
<1>1. CodecInv => PayloadSurvives
    BY DEF CodecInv, RcvOK, PayloadSurvives
<1> QED BY <1>1, CodecInvariant, PTL

\* What is not 0 does not fold to 0.
LEMMA FoldPositive ==
    ASSUME NEW n \in Nat, n > 0
    PROVE  Fold[n] > 0
<1> DEFINE Bad == {m \in Nat : m > 0 /\ ~(Fold[m] > 0)}
<1>1. SUFFICES ASSUME Bad # {} PROVE FALSE
    BY DEF Bad
<1>2. PICK m \in Bad : \A l \in Bad : m <= l
    <2>1. Bad \subseteq Nat OBVIOUS
    <2> HIDE DEF Bad
    <2> QED BY <1>1, <2>1, LeastNumber
<1>3. m \in Nat /\ m > 0 /\ ~(Fold[m] > 0)
    OBVIOUS
<1>4. Fold[m] = IF m < W THEN m ELSE Fold[(m % W) + m \div W]
    BY <1>3, FoldEquation
<1>5. W \in Nat /\ m >= W
    BY <1>3, <1>4, WordSize
<1> DEFINE l == (m % W) + m \div W
<1>6. l \in Nat /\ 0 < l /\ l < m
    BY <1>3, <1>5, OneTurn
<1>7. Fold[m] = Fold[l]
    BY <1>3, <1>4, <1>5
<1> HIDE DEF l
<1>8. l \notin Bad
    BY <1>2, <1>3, <1>6
<1> QED BY <1>3, <1>6, <1>7, <1>8

\* A word added to a sum shows in what the sum folds to, unless it is 0 or all
\* ones.
LEMMA SameFold ==
    ASSUME NEW n \in Nat, n > 0, NEW x \in 0..W-1
    PROVE  Fold[n + x] = Fold[n] <=> x \in {0, W - 1}
<1> DEFINE w == W - 1
           f == Fold[n]
           g == Fold[n + x]
<1>1. w \in Nat \ {0} /\ x \in Nat /\ x <= w /\ n + x \in Nat /\ n + x > 0
    BY WordSize
<1>2. f \in Int /\ g \in Int /\ 0 < f /\ f <= w /\ 0 < g /\ g <= w
    <2>1. Fold[n] \in 0..W-1 /\ Fold[n + x] \in 0..W-1
        BY <1>1, FoldIsRemainder
    <2>2. Fold[n] > 0 /\ Fold[n + x] > 0
        BY <1>1, FoldPositive
    <2> QED BY <2>1, <2>2, WordSize
<1>3. PICK k \in Nat : n = f + k * w
    BY FoldIsRemainder
<1>4. PICK l \in Nat : n + x = g + l * w
    BY <1>1, FoldIsRemainder
<1>5. (W - 1) = w
    OBVIOUS
<1> HIDE DEF w, f, g
<1>6. /\ k * w \in Int /\ l * w \in Int /\ (l - k) * w = l * w - k * w
      /\ (k + 1 - l) * w = k * w + w - l * w
    BY <1>1
<1>7. ASSUME g = f, x # w PROVE x = 0
    <2>1. x = (l - k) * w
        BY <1>1, <1>2, <1>3, <1>4, <1>6, <1>7
    <2> QED BY <1>1, <1>7, <2>1, NoMultiple
<1>8. ASSUME x = w PROVE g = f
    <2>1. g - f = (k + 1 - l) * w
        BY <1>1, <1>2, <1>3, <1>4, <1>6, <1>8
    <2>2. g - f = 0
        BY <1>1, <1>2, <2>1, NoMultiple
    <2> QED BY <1>2, <2>2
<1>9. ASSUME x = 0 PROVE g = f
    BY <1>9 DEF f, g
<1>10. g = f <=> x \in {0, w}
    BY <1>7, <1>8, <1>9
<1> QED BY <1>5, <1>10 DEF f, g

\* 0 and all ones are what they are in either byte order, and no other word is.
LEMMA SwapExtremes ==
    /\ Swap(0) = 0
    /\ \A h \in 0..W-1 : Swap(h) \in 0..W-1 /\ (Swap(h) \in {0, W - 1} <=> h \in {0, W - 1})
<1>1. B \in Nat /\ B > 1 /\ B - 1 \in 0..B-1 /\ 0 \in 0..B-1 /\ 0 \in Nat /\ B - 1 \in Nat
    BY ByteAssumption
<1>2. Swap(0) = 0
    BY <1>1 DEF Swap
<1>3. Swap(W - 1) = W - 1
    <2>1. ((B - 1) + (B - 1) * B) \div B = B - 1 /\ ((B - 1) + (B - 1) * B) % B = B - 1
        BY <1>1, Halves
    <2>2. (B - 1) + (B - 1) * B = W - 1 /\ (B - 1) * B + (B - 1) = W - 1
        BY <1>1 DEF W
    <2> QED BY <2>1, <2>2 DEF Swap
<1>4. \A h \in 0..W-1 : Swap(h) \in 0..W-1 /\ Swap(Swap(h)) = h
    BY SwapTwice
<1> QED BY <1>2, <1>3, <1>4

\* Two sums have one complement exactly when they fold to one word.
LEMMA SameComplement ==
    ASSUME NEW m \in Nat, NEW n \in Nat
    PROVE  Complement(m) = Complement(n) <=> Fold[m] = Fold[n]
<1>1. W \in Nat /\ Fold[m] \in 0..W-1 /\ Fold[n] \in 0..W-1
    BY WordSize, FoldIsRemainder
<1> QED BY <1>1 DEF Complement

\* The sum of a header, whose offset is never 0, splits into what the checksum
\* field adds and the rest.
LEMMA CalculateIs ==
    ASSUME NEW f \in 0..W-1, NEW w \in Nat, w > 0
    PROVE  \E a \in Nat : /\ a > 0
                          /\ \A c \in 0..W-1, q \in Seq(Bytes) :
                                Calculate(Packet(f, w, c, q))
                                  = Complement((a + PayloadSum(q)) + Swap(c))
<1> DEFINE a == Swap(f) + Swap(w)
<1>1. Swap(f) \in Nat /\ Swap(w) \in Nat
    <2>1. f \in Nat
        BY WordSize
    <2> QED BY <2>1, SwapType
<1>2. Swap(w) > 0
    <2> DEFINE lo == w % B
               hi == w \div B
    <2>1. B \in Nat /\ B > 1 /\ lo \in Nat /\ hi \in Nat /\ w = B * hi + lo
        BY ByteAssumption
    <2>2. Swap(w) = lo * B + hi
        BY DEF Swap
    <2> HIDE DEF lo, hi
    <2>3. CASE hi > 0
        <3>1. lo * B \in Nat
            BY <2>1
        <3> QED BY <2>1, <2>2, <2>3, <3>1
    <2>4. CASE hi = 0
        <3>1. B * hi = 0
            BY <2>1, <2>4
        <3>2. lo > 0
            BY <2>1, <3>1
        <3>3. lo * B >= lo
            BY <2>1
        <3> QED BY <2>1, <2>2, <2>4, <3>2, <3>3
    <2> QED BY <2>1, <2>3, <2>4
<1>3. ASSUME NEW c \in 0..W-1, NEW q \in Seq(Bytes)
      PROVE  Calculate(Packet(f, w, c, q)) = Complement((a + PayloadSum(q)) + Swap(c))
    <2>1. c \in Nat
        BY WordSize
    <2>2. Swap(c) \in Nat /\ PayloadSum(q) \in Nat
        BY <2>1, SwapType, PayloadSumType
    <2>3. Calculate(Packet(f, w, c, q))
            = Complement(Swap(f) + Swap(w) + Swap(c) + PayloadSum(q))
        BY DEF Calculate, Packet
    <2>4. Swap(f) + Swap(w) + Swap(c) + PayloadSum(q) = (a + PayloadSum(q)) + Swap(c)
        BY <1>1, <2>2
    <2> QED BY <2>3, <2>4
<1>4. a \in Nat /\ a > 0
    BY <1>1, <1>2
<1> HIDE DEF a
<1> QED BY <1>3, <1>4

\* What the word of the offset and the flags is on the wire: never 0.
LEMMA WordPositive ==
    ASSUME NEW g \in Bytes, NEW o \in Setting
    PROVE  WithOffset(g, o) > 0
<1>1. WithOffset(g, o) \in Nat
    BY WordType
<1>2. WithOffset(g, o) \div B = (HeaderLen + OptionsLen(o)) \div 4
    BY OffsetParts
<1>3. ((HeaderLen + OptionsLen(o)) \div 4) * 4 >= HeaderLen /\ HeaderLen > 0
    BY OffsetType, PacketAssumption
<1>4. ASSUME WithOffset(g, o) = 0 PROVE FALSE
    <2>1. 0 \div B = 0
        BY ByteAssumption
    <2>2. (HeaderLen + OptionsLen(o)) \div 4 = 0
        BY <1>2, <1>4, <2>1
    <2> QED BY <1>3, <2>2, PacketAssumption
<1> QED BY <1>1, <1>4

\* verify_checksum() decides by what the sender's object held.  Cleared, it
\* makes the same sum of the same words, so what came through is accepted, and
\* no change of one byte is a multiple of W - 1.  An old checksum is one more
\* word in the sender's sum and in no other, so that an intact packet is refused
\* unless that word is 0 or all ones.
THEOREM DamageIsDetected == CodecsSpec => []VerifyDecides
<1>1. CodecInv => VerifyDecides
    <2> SUFFICES ASSUME CodecInv, Readable
                 PROVE  LET held == origin.packet.checksum IN
                            /\ held = 0 => (Verify(rcv) <=> Intact)
                            /\ Intact => (Verify(rcv) <=> held \in {0, W - 1})
        BY DEF VerifyDecides
    <2>0. origin.parsed /\ ~origin.foreign /\ ~origin.stale /\ Kept /\ origin.sent
        BY DEF Readable, Kept, CodecInv, RcvOK
    <2> DEFINE p == origin.packet.payload
               f == origin.packet.fields
               h == origin.packet.checksum
               w == wire.word
               c == wire.checksum
               q == rcv.payload
    <2>1. f \in 0..W-1 /\ h \in 0..W-1 /\ p \in Seq(Bytes) /\ w \in Nat /\ w > 0
        <3>1. origin.opts \in Setting /\ origin.packet.word \in Bytes /\ f \in 0..W-1
                 /\ p \in Seq(Bytes) /\ h \in 0..W-1
            BY DEF CodecInv, OriginOK
        <3>2. w = WithOffset(origin.packet.word, origin.opts)
            BY <2>0 DEF CodecInv, WireOK
        <3> QED BY <3>1, <3>2, WordType, WordPositive
    <2>2. rcv = Packet(f, w, c, q)
        <3>1. wire.fields = Swap(f)
            BY <2>0 DEF CodecInv, WireOK
        <3> QED BY <2>0, <2>1, <3>1, SwapTwice DEF CodecInv, RcvOK
    <2>3. c = Calculate(Packet(f, w, h, p))
        BY <2>0 DEF CodecInv, WireOK
    <2>4. q = p \/ OneChanged(q, p)
        BY <2>0 DEF CodecInv, RcvOK
    <2>5. Verify(rcv) <=> c = Calculate(Packet(f, w, 0, q))
        <3>1. [rcv EXCEPT !.checksum = 0] = Packet(f, w, 0, q) /\ rcv.checksum = c
            BY <2>2 DEF Packet
        <3> QED BY <3>1 DEF Verify
    <2>6. Intact <=> q = p
        BY DEF Intact
    <2> HIDE DEF p, f, h, w, c, q
    <2>7. q \in Seq(Bytes)
        BY <2>1, <2>4, ExceptSeq DEF OneChanged
    <2>8. PICK a \in Nat : /\ a > 0
                           /\ \A d \in 0..W-1, r \in Seq(Bytes) :
                                 Calculate(Packet(f, w, d, r))
                                   = Complement((a + PayloadSum(r)) + Swap(d))
        BY <2>1, CalculateIs
    <2> DEFINE n(r) == a + PayloadSum(r)
    <2>9. n(p) \in Nat /\ n(p) > 0 /\ n(q) \in Nat
        BY <2>1, <2>7, <2>8, PayloadSumType
    <2>10. /\ c = Complement(n(p) + Swap(h))
           /\ Verify(rcv) <=> c = Complement(n(q))
        <3>1. 0 \in 0..W-1 /\ n(q) + Swap(0) = n(q)
            BY <2>9, WordSize, SwapExtremes
        <3>2. Calculate(Packet(f, w, 0, q)) = Complement(n(q) + Swap(0))
            BY <2>7, <2>8, <3>1
        <3> QED BY <2>1, <2>3, <2>5, <2>8, <3>1, <3>2
    <2>11. ASSUME q = p PROVE Verify(rcv) <=> h \in {0, W - 1}
        <3>1. Swap(h) \in 0..W-1 /\ (Swap(h) \in {0, W - 1} <=> h \in {0, W - 1})
            BY <2>1, SwapExtremes
        <3>2. n(p) + Swap(h) \in Nat
            BY <2>9, <3>1, WordSize
        <3> HIDE DEF n
        <3>3. Fold[n(p) + Swap(h)] = Fold[n(p)] <=> Swap(h) \in {0, W - 1}
            BY <2>9, <3>1, SameFold
        <3>4. Verify(rcv) <=> Complement(n(p) + Swap(h)) = Complement(n(p))
            BY <2>10, <2>11
        <3> QED BY <2>9, <3>1, <3>2, <3>3, <3>4, SameComplement
    <2>12. ASSUME h = 0, q # p PROVE ~Verify(rcv)
        <3>1. PICK i \in 1..Len(p), b \in Bytes : b # p[i] /\ q = [p EXCEPT ![i] = b]
            BY <2>4, <2>12 DEF OneChanged
        <3>2. Complement(n(q)) # Complement(n(p))
            BY <2>1, <2>8, <3>1, ChangedComplement
        <3>3. n(p) + Swap(h) = n(p)
            BY <2>9, <2>12, SwapExtremes
        <3> HIDE DEF n
        <3> QED BY <2>10, <3>2, <3>3
    <2> QED BY <2>6, <2>11, <2>12 DEF h
<1> QED BY <1>1, CodecInvariant, PTL

-----------------------------------------------------------------------------
(* UDPPacket                                                               *)

\* The length field has room for the longest datagram.
DatagramsFit == \A p \in Datagrams : UDPHeaderLen + Len(p) < W

PortsOK(p) == p.source_port \in 0..W-1 /\ p.dest_port \in 0..W-1

Fits(payload) == payload \in Seq(Bytes) /\ UDPHeaderLen + Len(payload) < W

\* The datagram on the wire is that of the packet it was made of.
OnWire ==
    content.made =>
        /\ datagram.source_port = Swap(content.packet.source_port)
        /\ datagram.dest_port = Swap(content.packet.dest_port)
        /\ datagram.length = Swap(UDPHeaderLen + Len(content.packet.payload))
        /\ datagram.payload = content.packet.payload

UDPInv ==
    /\ PortsOK(udp) /\ Fits(udp.payload)
    /\ PortsOK(content.packet) /\ Fits(content.packet.payload)
    /\ content = [made |-> content.made, parsed |-> content.parsed,
                  packet |-> content.packet]
    /\ OnWire /\ DatagramSurvives

\* Every operation on the object, and a standard host's datagram, keeps it.
LEMMA UDPStep ==
    ASSUME DatagramsFit, UDPInv, UDPNext
    PROVE  UDPInv'
<1>1. \A n \in 0..W-1 : Swap(n) \in 0..W-1 /\ Swap(Swap(n)) = n
    BY SwapTwice
<1>2. W \in Nat
    BY ByteAssumption DEF W
<1>3. ASSUME SerializeUDP PROVE UDPInv'
    <2>1. LengthSent(udp) = UDPHeaderLen + Len(udp.payload)
        <3> DEFINE n == UDPHeaderLen + Len(udp.payload)
        <3>1. n \in Nat /\ n < W
            BY DEF UDPInv, Fits, UDPHeaderLen
        <3>2. LengthSent(udp) = n % W
            BY DEF LengthSent
        <3> HIDE DEF n
        <3>3. n % W = n
            BY <1>2, <3>1
        <3> QED BY <3>2, <3>3 DEF n
    <2> DEFINE sum == UDPChecksum(udp)
    <2>2. datagram' = Datagram(Swap(udp.source_port), Swap(udp.dest_port),
                               Swap(LengthSent(udp)), sum, udp.payload)
        BY <1>3 DEF SerializeUDP
    <2>3. content' = Content(TRUE, udp) /\ udp' = udp
        BY <1>3 DEF SerializeUDP
    <2> HIDE DEF sum
    <2>4. OnWire'
        BY <2>1, <2>2, <2>3 DEF OnWire, Content, Datagram
    <2>5. DatagramSurvives'
        BY <2>3 DEF DatagramSurvives, Content
    <2> QED BY <2>3, <2>4, <2>5 DEF UDPInv, Content
<1>4. ASSUME ParseUDP PROVE UDPInv'
    <2>1. /\ udp' = Datagram(Swap(datagram.source_port), Swap(datagram.dest_port),
                             Swap(datagram.length), datagram.checksum, datagram.payload)
          /\ content' = [content EXCEPT !.parsed = TRUE] /\ datagram' = datagram
          /\ content.made
        BY <1>4 DEF ParseUDP
    <2>2. content'.made /\ content'.packet = content.packet
        BY <2>1 DEF UDPInv
    <2>3. UDPHeaderLen + Len(content.packet.payload) \in 0..W-1
        BY <1>2 DEF UDPInv, Fits, UDPHeaderLen
    <2>4. /\ udp'.source_port = content.packet.source_port
          /\ udp'.dest_port = content.packet.dest_port
          /\ udp'.payload = content.packet.payload
          /\ udp'.length = UDPHeaderLen + Len(content.packet.payload)
        BY <1>1, <2>1, <2>3 DEF UDPInv, PortsOK, OnWire, Datagram
    <2>5. OnWire'
        BY <2>1, <2>2 DEF UDPInv, OnWire
    <2>6. DatagramSurvives'
        BY <2>2, <2>4 DEF DatagramSurvives
    <2>7. content' = [made |-> content'.made, parsed |-> content'.parsed,
                      packet |-> content'.packet]
        BY <2>1 DEF UDPInv
    <2> QED BY <2>2, <2>4, <2>5, <2>6, <2>7 DEF UDPInv, PortsOK
<1>5. ASSUME NEW s \in Ports, NEW d \in Ports, NEW p \in Datagrams,
             Set(s, d, p) \/ StandardDatagram(s, d, p)
      PROVE  UDPInv'
    <2>1. s \in 0..W-1 /\ d \in 0..W-1 /\ Fits(p)
        BY DatagramAssumption DEF DatagramsFit, Fits, Bytes
    <2>2. ASSUME Set(s, d, p) PROVE UDPInv'
        <3>1. /\ udp' = Datagram(s, d, udp.length, udp.checksum, p)
              /\ content' = Content(content.made, content.packet) /\ datagram' = datagram
            BY <2>2 DEF Set
        <3>2. OnWire'
            BY <3>1 DEF UDPInv, OnWire, Content
        <3>3. DatagramSurvives'
            BY <3>1 DEF DatagramSurvives, Content
        <3>4. PortsOK(udp)' /\ Fits(udp.payload)'
            BY <2>1, <3>1 DEF PortsOK, Fits, Datagram
        <3> QED BY <3>1, <3>2, <3>3, <3>4 DEF UDPInv, Content
    <2>3. ASSUME StandardDatagram(s, d, p) PROVE UDPInv'
        <3>1. /\ content' = Content(TRUE, Datagram(s, d, 0, 0, p)) /\ udp' = udp
              /\ datagram' = Datagram(Swap(s), Swap(d), Swap(UDPHeaderLen + Len(p)), 0, p)
            BY <2>3 DEF StandardDatagram
        <3>2. OnWire'
            BY <3>1 DEF OnWire, Content, Datagram
        <3>3. DatagramSurvives'
            BY <3>1 DEF DatagramSurvives, Content
        <3>4. PortsOK(content.packet)' /\ Fits(content.packet.payload)'
            BY <2>1, <3>1 DEF PortsOK, Fits, Content, Datagram
        <3> QED BY <3>1, <3>2, <3>3, <3>4 DEF UDPInv, Content
    <2> QED BY <1>5, <2>2, <2>3
<1> QED BY <1>3, <1>4, <1>5 DEF UDPNext

\* However the object was used before, what it parses is the datagram it was
\* given, its length that of this payload and not one left over.
THEOREM DatagramsSurvive ==
    ASSUME DatagramsFit
    PROVE  CodecsSpec => []DatagramSurvives
<1>1. CodecsInit => UDPInv
    <2> SUFFICES ASSUME CodecsInit PROVE UDPInv
        OBVIOUS
    <2>1. udp = NewPacket /\ datagram = NewPacket /\ content = Content(FALSE, NewPacket)
        BY DEF CodecsInit, UDPInit
    <2>2. W \in Nat /\ 0 \in 0..W-1 /\ UDPHeaderLen < W
        BY DatagramAssumption, ByteAssumption DEF W, UDPHeaderLen
    <2>3. PortsOK(NewPacket) /\ Fits(NewPacket.payload)
        BY <2>2 DEF PortsOK, Fits, NewPacket, Datagram, UDPHeaderLen
    <2> QED BY <2>1, <2>3 DEF UDPInv, OnWire, DatagramSurvives, Content
<1>2. UDPInv /\ [CodecsNext]_<<vars, udpvars>> => UDPInv'
    <2> SUFFICES ASSUME UDPInv, [CodecsNext]_<<vars, udpvars>> PROVE UDPInv'
        OBVIOUS
    <2>1. CASE UDPNext
        BY <2>1, UDPStep
    <2>2. CASE UNCHANGED udpvars
        BY <2>2 DEF udpvars, UDPInv, PortsOK, Fits, OnWire, DatagramSurvives
    <2> QED BY <2>1, <2>2 DEF CodecsNext
<1>3. UDPInv => DatagramSurvives
    BY DEF UDPInv
<1> QED BY <1>1, <1>2, <1>3, PTL DEF CodecsSpec
================================================================================
