------------------------------- MODULE Checksums -------------------------------
(***************************************************************************)
(* The 16-bit ones' complement sum as the packet classes compute it on a   *)
(* little-endian host.  A byte is 0..B-1 (B is 256) and a word two bytes.  *)
(***************************************************************************)
EXTENDS Integers, Sequences

CONSTANT B    \* byte values

ASSUME ByteAssumption == B \in Nat /\ B > 1

W == B * B

\* ntohs() and htons(): the two bytes of a word change places.
Swap(w) == (w % B) * B + w \div B

\* The loop that folds the carries back in.
Fold[sum \in Nat] == IF sum < W THEN sum ELSE Fold[(sum % W) + sum \div W]

\* Bytes taken in pairs, the first of each the high one; an odd last byte
\* counts as a high one.
Weight(i) == IF i % 2 = 1 THEN B ELSE 1

\* What the loop over the payload has added up after i bytes.
RunningSum(p) ==
    LET sum[i \in 0..Len(p)] == IF i = 0 THEN 0 ELSE sum[i - 1] + p[i] * Weight(i)
    IN  sum

PayloadSum(p) == RunningSum(p)[Len(p)]

\* ~sum, cut to 16 bits.
Complement(sum) == W - 1 - Fold[sum]
=============================================================================
