----------------------------- MODULE SendBuffer -----------------------------
(***************************************************************************)
(* What the user of a TCPRetransmitter may rely on, and nothing about      *)
(* segments or timers: bytes are held from the moment they are added, in   *)
(* order, until an acknowledgement covers them, and never again after.     *)
(***************************************************************************)
EXTENDS Naturals

CONSTANT MaxBytes     \* bound on the bytes added

VARIABLES
    held,             \* the bytes that can still be sent again
    next, acked       \* bytes added, bytes acknowledged

vars == <<held, next, acked>>

Init == held = {} /\ next = 0 /\ acked = 0

Add(n) ==
    /\ next' = next + n
    /\ held' = held \cup next..next'-1
    /\ UNCHANGED acked

\* A late acknowledgement lowers nothing, and what it frees is covered by it.
Acknowledge(pos) ==
    /\ acked' = IF pos > acked THEN pos ELSE acked
    /\ held' \in SUBSET held
    /\ \A b \in held \ held' : b < pos
    /\ UNCHANGED next

Next ==
    \/ \E n \in 1..MaxBytes-next : Add(n)
    \/ \E pos \in 0..next : Acknowledge(pos)

Spec == Init /\ [][Next]_vars
=============================================================================
