---------------------------- MODULE TCPDispatch -----------------------------
(***************************************************************************)
(* TCPManager as the stack uses it: StackManager::handle_tcp_packet() of   *)
(* src/core/stack_manager.cpp decides which connection a received segment  *)
(* is given to, while the program creates and removes connections.         *)
(*                                                                         *)
(* The manager's key is an address and a port.  The code takes the address *)
(* at bytes 16..19 of the IP header, the destination, and the port from    *)
(* the sender, so connections of one local address are told apart by the   *)
(* remote port alone.                                                      *)
(***************************************************************************)
EXTENDS TCPManager

CONSTANTS
    Own,            \* the address of the stack
    Peers,          \* remote addresses
    Ports,          \* remote ports
    Uses            \* the pairs <<peer, port>> that send to the stack

Endpoints == ({Own} \cup Peers) \X Ports

ASSUME EndpointsAssumption ==
    /\ Keys = Endpoints /\ Own \notin Peers /\ Uses \subseteq Peers \X Ports

VARIABLES
    packet,         \* the segment each thread is dispatching
    served          \* for each key, the peers whose segments the connection
                    \* registered under it has handled (history)

dispatchvars == <<vars, packet, served>>

Segment == [source : Peers, dest : {Own}, port : Ports]
Arriving == {s \in Segment : <<s.source, s.port>> \in Uses}
NoPacket == [source |-> NoKey]

DispatchInit ==
    /\ Init
    /\ packet = [t \in Threads |-> NoPacket]
    /\ served = [k \in Keys |-> {}]

-----------------------------------------------------------------------------
\* Faulty variant: the port is left out of the key.
EndpointOfAddress(s) == <<s.dest, CHOOSE p \in Ports : TRUE>>

\* The arguments of find_or_create_connection().
EndpointOf(s) == <<s.dest, s.port>>

\* A segment is decoded and its connection looked up; a full table drops it.
Dispatch(t, s) ==
    /\ FindKnown(t, EndpointOf(s)) \/ FindNew(t, EndpointOf(s))
    /\ packet' = [packet EXCEPT ![t] = s]
    /\ UNCHANGED served

\* handle_packet() of the connection found, whoever the segment is from.
Deliver(t) ==
    /\ Handle(t)
    /\ served' = IF key[t] \in Registered /\ connections_[key[t]].port = port[t]
                   THEN [served EXCEPT ![key[t]] = @ \cup {packet[t].source}]
                   ELSE served
    /\ packet' = [packet EXCEPT ![t] = NoPacket]

\* A connection that leaves the table takes its history with it.
Drop ==
    /\ Cleanup \/ \E k \in Keys : Remove(k)
    /\ served' = [k \in Keys |-> IF k \in Registered' THEN served[k] ELSE {}]
    /\ UNCHANGED packet

\* Steps that concern no segment.
Aside ==
    /\ \/ \E t \in Threads : \/ Create(t) \/ Load(t) \/ Store(t) \/ Clamp(t)
                             \/ ScanUsed(t) \/ ScanFree(t) \/ Insert(t) \/ CreateReturn(t)
       \/ \E k \in Keys : Age(k)
       \/ \E n \in MaxChoices : SetMax(n)
    /\ UNCHANGED <<packet, served>>

DispatchNext ==
    \/ \E t \in Threads, s \in Arriving : Dispatch(t, s)
    \/ \E t \in Threads : Deliver(t)
    \/ Drop
    \/ Aside

DispatchSpec == DispatchInit /\ [][DispatchNext]_dispatchvars

\* A call that has begun goes on.
DispatchFairSpec ==
    DispatchSpec /\ \A t \in Threads : WF_dispatchvars(Deliver(t) \/ (Aside /\ AllocStep(t)))

-----------------------------------------------------------------------------
\* A connection is one peer's: segments of two remote hosts never reach the
\* same TCPConnection, while segments of several connections are dispatched,
\* removed and created again at the same time.
OnePeerPerConnection == \A k \in Keys : Cardinality(served[k]) <= 1
=============================================================================
