----------------------------- MODULE ByteStream -----------------------------
(***************************************************************************)
(* What the reader of a TCPConnection may rely on, and nothing about       *)
(* segments, states or threads: bytes arrive one after the other, and none *)
(* that has arrived is taken back.                                         *)
(***************************************************************************)
EXTENDS Naturals, Sequences

CONSTANT StreamLen    \* the peer's bytes are 1..StreamLen

VARIABLES
    received,         \* the bytes that have arrived
    astray            \* whether the first of them may be missing

vars == <<received, astray>>

Init == received = <<>> /\ astray = FALSE

\* A handshake decides where reading begins, before the first byte.
Open ==
    /\ received = <<>>
    /\ astray' \in BOOLEAN
    /\ UNCHANGED received

\* The bytes after k arrive, where k is the last one that did.
Arrive(k, n) ==
    /\ k + n <= StreamLen
    /\ IF received = <<>> THEN k > 0 => astray
                          ELSE k = received[Len(received)]
    /\ received' = received \o [i \in 1..n |-> k + i]
    /\ UNCHANGED astray

Next == Open \/ \E k \in 0..StreamLen, n \in 1..StreamLen : Arrive(k, n)

Spec == Init /\ [][Next]_vars
=============================================================================
