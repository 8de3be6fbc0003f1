----------------------------- MODULE TCPManager -----------------------------
(***************************************************************************)
(* src/tcp/tcp_manager.cpp: the table of connections, keyed by the remote  *)
(* endpoint, and the allocation of local ports.                            *)
(*                                                                         *)
(* find_or_create_connection(), remove_connection() and                    *)
(* cleanup_timeout_connections() hold mutex_; create_connection() and      *)
(* set_max_connections() do not, yet create_connection() scans the table   *)
(* and bumps next_port_.  So port allocation is a sequence of steps here:  *)
(* load, store, clamp, scan.  A connection is what the table knows of it.  *)
(***************************************************************************)
EXTENDS Naturals, FiniteSets

CONSTANTS
    Threads,        \* threads calling the manager
    Keys,           \* remote endpoints (address and port)
    W16,            \* range of uint16_t
    MinPort,        \* 1024
    MaxChoices,     \* limits given to set_max_connections()
    CreateMax,      \* MAX_CONNECTIONS, the limit create_connection() knows
    LongUp          \* the machine has been up for more than TIMEOUT_SECONDS

ASSUME PortsAssumption ==
    /\ W16 \in Nat /\ MinPort \in 1..W16-1
    /\ MaxChoices \subseteq Nat /\ CreateMax \in Nat /\ LongUp \in BOOLEAN

VARIABLES
    connections_,       \* the map, a function on the registered keys
    max_connections_,
    next_port_,
    pc,                 \* where each thread is
    key,                \* the endpoint a thread looks for, or NoKey
    port                \* the port a thread has in hand

vars == <<connections_, max_connections_, next_port_, pc, key, port>>

CONSTANT NoKey          \* not an endpoint: the caller is create_connection()
ASSUME NoKeyAssumption == NoKey \notin Keys

Port == 0..W16-1
Connection == [port : Port, touched : BOOLEAN, aged : BOOLEAN]
Registered == DOMAIN connections_
PortsInUse == {connections_[k].port : k \in Registered}

Allocating == {"load", "store", "clamp", "scan", "insert"}

\* A thread that looks for an endpoint holds mutex_ until it has a connection.
Holds(t) == pc[t] \in Allocating /\ key[t] # NoKey

\* Faulty variant: nobody takes the lock.
NoMutex == TRUE

MutexFree == \A t \in Threads : ~Holds(t)

TypeOK ==
    /\ Registered \subseteq Keys
    /\ connections_ \in [Registered -> Connection]
    /\ max_connections_ \in MaxChoices
    /\ next_port_ \in Port
    /\ pc \in [Threads -> Allocating \cup {"idle", "created", "handle"}]
    /\ key \in [Threads -> Keys \cup {NoKey}]
    /\ port \in [Threads -> Port]

Init ==
    /\ connections_ = [k \in {} |-> 0]
    /\ max_connections_ \in MaxChoices
    /\ next_port_ = MinPort
    /\ pc = [t \in Threads |-> "idle"]
    /\ key = [t \in Threads |-> NoKey]
    /\ port = [t \in Threads |-> 0]

Goto(t, place) == pc' = [pc EXCEPT ![t] = place]

\* A call returns and its locals are gone.
Return(t) ==
    /\ Goto(t, "idle")
    /\ key' = [key EXCEPT ![t] = NoKey]
    /\ port' = [port EXCEPT ![t] = 0]

-----------------------------------------------------------------------------
(* allocate_local_port()                                                   *)

\* next_port_++ is a load and a store, and the correction of line 88 a third
\* access.
Load(t) ==
    /\ pc[t] = "load"
    /\ port' = [port EXCEPT ![t] = next_port_]
    /\ Goto(t, "store")
    /\ UNCHANGED <<connections_, max_connections_, next_port_, key>>

Store(t) ==
    /\ pc[t] = "store"
    /\ next_port_' = (port[t] + 1) % W16
    /\ Goto(t, "clamp")
    /\ UNCHANGED <<connections_, max_connections_, key, port>>

Clamp(t) ==
    /\ pc[t] = "clamp"
    /\ next_port_' = IF port[t] < MinPort THEN MinPort ELSE next_port_
    /\ Goto(t, "scan")
    /\ UNCHANGED <<connections_, max_connections_, key, port>>

\* Another thread is changing the map: the scan of a thread without the mutex
\* may see anything.
Unreliable(t) == key[t] = NoKey /\ \E u \in Threads : pc[u] = "insert" /\ Holds(u)

\* Faulty variant: a port in use is tried again and again.
ScanUsedRepeat(t) ==
    /\ pc[t] = "scan"
    /\ port[t] \in PortsInUse
    /\ next_port_' = port[t]
    /\ Goto(t, "load")
    /\ UNCHANGED <<connections_, max_connections_, key, port>>

ScanUsed(t) ==
    /\ pc[t] = "scan"
    /\ port[t] \in PortsInUse \/ Unreliable(t)
    /\ Goto(t, "load")
    /\ UNCHANGED <<connections_, max_connections_, next_port_, key, port>>

\* Faulty variant: the ports in use are not looked at.
ScanFreeBlind(t) ==
    /\ pc[t] = "scan"
    /\ Goto(t, IF key[t] = NoKey THEN "created" ELSE "insert")
    /\ UNCHANGED <<connections_, max_connections_, next_port_, key, port>>

ScanFree(t) ==
    /\ pc[t] = "scan"
    /\ port[t] \notin PortsInUse \/ Unreliable(t)
    /\ Goto(t, IF key[t] = NoKey THEN "created" ELSE "insert")
    /\ UNCHANGED <<connections_, max_connections_, next_port_, key, port>>

-----------------------------------------------------------------------------
(* create_connection(): no lock, and the connection is not registered.     *)

Create(t) ==
    /\ pc[t] = "idle"
    /\ Cardinality(Registered) < CreateMax
    /\ Goto(t, "load")
    /\ UNCHANGED <<connections_, max_connections_, next_port_, key, port>>

CreateReturn(t) ==
    /\ pc[t] = "created"
    /\ Return(t)
    /\ UNCHANGED <<connections_, max_connections_, next_port_>>

-----------------------------------------------------------------------------
(* find_or_create_connection(), then handle_packet() without the lock.     *)

FindKnown(t, k) ==
    /\ pc[t] = "idle" /\ MutexFree
    /\ k \in Registered
    /\ key' = [key EXCEPT ![t] = k]
    /\ port' = [port EXCEPT ![t] = connections_[k].port]
    /\ Goto(t, "handle")
    /\ UNCHANGED <<connections_, max_connections_, next_port_>>

\* When the table is full the call returns nullptr and nothing changes.
FindNew(t, k) ==
    /\ pc[t] = "idle" /\ MutexFree
    /\ k \notin Registered /\ Cardinality(Registered) < max_connections_
    /\ key' = [key EXCEPT ![t] = k]
    /\ Goto(t, "load")
    /\ UNCHANGED <<connections_, max_connections_, next_port_, port>>

\* last_activity_ of a new connection is the clock's epoch, the machine's boot.
Insert(t) ==
    /\ pc[t] = "insert"
    /\ connections_' = [k \in Registered \cup {key[t]} |->
                          IF k = key[t]
                            THEN [port |-> port[t], touched |-> FALSE, aged |-> FALSE]
                            ELSE connections_[k]]
    /\ Goto(t, "handle")
    /\ UNCHANGED <<max_connections_, next_port_, key, port>>

\* Faulty variant: what a thread has in hand is written back under its key.
HandleWriteBack(t) ==
    /\ pc[t] = "handle"
    /\ connections_' = [k \in Registered |->
                          IF k = key[t]
                            THEN [port |-> port[t], touched |-> TRUE, aged |-> FALSE]
                            ELSE connections_[k]]
    /\ Return(t)
    /\ UNCHANGED <<max_connections_, next_port_>>

\* handle_packet() sets last_activity_ of the connection in hand, which may
\* have left the table, or been replaced in it, since it was found.
Handle(t) ==
    /\ pc[t] = "handle"
    /\ connections_' = [k \in Registered |->
                          IF k = key[t] /\ connections_[k].port = port[t]
                            THEN [port |-> port[t], touched |-> TRUE, aged |-> FALSE]
                            ELSE connections_[k]]
    /\ Return(t)
    /\ UNCHANGED <<max_connections_, next_port_>>

-----------------------------------------------------------------------------
(* remove_connection(), cleanup_timeout_connections(), set_max_connections *)

Keep(kept) == connections_' = [k \in kept |-> connections_[k]]

Remove(k) ==
    /\ MutexFree
    /\ k \in Registered
    /\ Keep(Registered \ {k})
    /\ UNCHANGED <<max_connections_, next_port_, pc, key, port>>

\* is_timeout(): the last activity is too long ago, or there was none yet and
\* the clock's epoch is too long ago.
IsTimeout(c) == c.aged \/ (~c.touched /\ LongUp)

Cleanup ==
    /\ MutexFree
    /\ Keep({k \in Registered : ~IsTimeout(connections_[k])})
    /\ UNCHANGED <<max_connections_, next_port_, pc, key, port>>

SetMax(n) ==
    /\ max_connections_' = n
    /\ UNCHANGED <<connections_, next_port_, pc, key, port>>

\* TIMEOUT_SECONDS pass without a packet for k (external).
Age(k) ==
    /\ k \in Registered
    /\ connections_' = [connections_ EXCEPT ![k].aged = TRUE]
    /\ UNCHANGED <<max_connections_, next_port_, pc, key, port>>

-----------------------------------------------------------------------------
AllocStep(t) ==
    \/ Load(t) \/ Store(t) \/ Clamp(t) \/ ScanUsed(t) \/ ScanFree(t)
    \/ Insert(t) \/ CreateReturn(t) \/ Handle(t)

Next ==
    \/ \E t \in Threads : Create(t) \/ AllocStep(t)
    \/ \E t \in Threads, k \in Keys : FindKnown(t, k) \/ FindNew(t, k)
    \/ \E k \in Keys : Remove(k) \/ Age(k)
    \/ Cleanup
    \/ \E n \in MaxChoices : SetMax(n)

Spec == Init /\ [][Next]_vars

-----------------------------------------------------------------------------
(* Properties                                                              *)

\* No two registered connections share a local port, although threads that
\* ignore the mutex move next_port_ under the one that allocates.
UniquePorts ==
    \A k, l \in Registered : connections_[k].port = connections_[l].port => k = l

\* The table never outgrows the largest limit it was given, although
\* set_max_connections() may change the limit between the check and the insert.
TableBound == \E n \in MaxChoices : Cardinality(Registered) <= n

\* An endpoint keeps its port until it leaves the table: threads that work on a
\* connection that was removed, and registered again, meanwhile change nothing.
PortOf == [k \in Registered |-> connections_[k].port]
Table == INSTANCE PortTable WITH Limits <- MaxChoices, ports <- PortOf
PortsAreKept == Table!Spec

\* An allocation under the mutex ends: wrap-around, ports in use and racing
\* callers never make it loop for ever, unless threads that ignore the mutex
\* keep on taking ports themselves.
AllocationEnds ==
    \/ \A t \in Threads : (pc[t] = "load" /\ key[t] # NoKey) ~> pc[t] = "insert"
    \/ []<>(\E t \in Threads : pc[t] = "created")

-----------------------------------------------------------------------------
(* The inductive invariant behind UniquePorts and TableBound               *)

\* Only one thread is between the search and the insertion.
OneHolder == \A t, u \in Threads : Holds(t) /\ Holds(u) => t = u

\* The table does not change between the scan and the insertion, so the port
\* about to be inserted is still free and its key still absent.
InsertIsFresh ==
    \A t \in Threads : Holds(t) =>
        /\ key[t] \notin Registered
        /\ pc[t] = "insert" => port[t] \notin PortsInUse

\* create_connection() never inserts.
InsertHolds == \A t \in Threads : pc[t] = "insert" => key[t] # NoKey

\* Between calls a thread looks for nothing.
IdleHasNoKey == \A t \in Threads : pc[t] \in {"idle", "created"} => key[t] = NoKey

ManagerInv ==
    /\ TypeOK /\ OneHolder /\ InsertIsFresh /\ InsertHolds
    /\ IdleHasNoKey /\ UniquePorts

\* The holder of the mutex found room under one of the limits given, and until
\* it inserts nobody takes that room.
RoomKept == \A t \in Threads : Holds(t) => \E n \in MaxChoices : Cardinality(Registered) < n

TableInv == ManagerInv /\ IsFiniteSet(Registered) /\ TableBound /\ RoomKept
=============================================================================
