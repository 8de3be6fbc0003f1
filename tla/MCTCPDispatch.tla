---------------------------- MODULE MCTCPDispatch ---------------------------
(* Model-checking instance of TCPDispatch: two peers, on ports of their own  *)
(* or on the same one.                                                      *)
EXTENDS TCPDispatch

CONSTANTS p1, p2

Distinct == {<<p1, 1>>, <<p2, 2>>, <<p1, 3>>}
Same == {<<p1, 1>>, <<p2, 1>>}
=============================================================================
