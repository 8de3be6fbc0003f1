------------------------------ MODULE PortTable -----------------------------
(***************************************************************************)
(* What the dispatch may rely on in TCPManager, and nothing about threads, *)
(* locks or the search for a port: an endpoint gets a port nobody has,     *)
(* while there is room, and keeps it until it leaves the table.            *)
(***************************************************************************)
EXTENDS Naturals, FiniteSets

CONSTANTS Keys, Port, Limits

VARIABLE ports        \* the ports of the registered endpoints

Init == ports = [k \in {} |-> 0]

Register(k, p) ==
    /\ k \notin DOMAIN ports
    /\ \A l \in DOMAIN ports : ports[l] # p
    /\ \E n \in Limits : Cardinality(DOMAIN ports) < n
    /\ ports' = [l \in DOMAIN ports \cup {k} |-> IF l = k THEN p ELSE ports[l]]

\* Some endpoints leave, the others keep what they have.
Leave == \E kept \in SUBSET DOMAIN ports : ports' = [k \in kept |-> ports[k]]

Next == Leave \/ \E k \in Keys, p \in Port : Register(k, p)

Spec == Init /\ [][Next]_ports
=============================================================================
