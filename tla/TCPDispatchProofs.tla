-------------------------- MODULE TCPDispatchProofs --------------------------
(***************************************************************************)
(* Proofs about TCPManager for every set of threads and endpoints, every   *)
(* range of ports and every limit on the table, and about TCPDispatch: the *)
(* stack uses the manager as TCPManager allows.                            *)
(***************************************************************************)
EXTENDS TCPDispatch, FiniteSetTheorems, TLAPS

-----------------------------------------------------------------------------
(* TCPManager                                                              *)

\* Initially the table is empty and no call is under way.
LEMMA ManagerInvInit == Init => ManagerInv
BY PortsAssumption, NoKeyAssumption
   DEF Init, ManagerInv, TypeOK, Registered, Port, Allocating, Connection,
       OneHolder, Holds, InsertIsFresh, InsertHolds, IdleHasNoKey, UniquePorts

\* The invariant, read as facts about one thread or one pair of endpoints.
LEMMA InvFacts ==
    ASSUME ManagerInv
    PROVE  /\ connections_ \in [Registered -> Connection]
           /\ Registered \subseteq Keys
           /\ pc \in [Threads -> Allocating \cup {"idle", "created", "handle"}]
           /\ key \in [Threads -> Keys \cup {NoKey}]
           /\ port \in [Threads -> Port]
           /\ \A k \in Registered : connections_[k].port \in PortsInUse
BY DEF ManagerInv, TypeOK, PortsInUse

\* Calls that leave the table alone keep the invariant: only the holder of the
\* mutex gets to "insert", and it gets there with a port it found free.
LEMMA TableUnchangedStep ==
    ASSUME ManagerInv, UNCHANGED connections_, NEW t \in Threads,
           Create(t) \/ (AllocStep(t) /\ ~Insert(t) /\ ~Handle(t))
           \/ \E k \in Keys : FindKnown(t, k) \/ FindNew(t, k)
    PROVE  ManagerInv'
<1> USE PortsAssumption, NoKeyAssumption
        DEF ManagerInv, TypeOK, Registered, PortsInUse, Port, Allocating,
            OneHolder, Holds, InsertIsFresh, InsertHolds, IdleHasNoKey,
            UniquePorts, Goto, Return
<1>1. CASE Create(t)         BY <1>1 DEF Create
<1>2. CASE Load(t)           BY <1>2 DEF Load
<1>3. CASE Store(t)          BY <1>3 DEF Store
<1>4. CASE Clamp(t)          BY <1>4 DEF Clamp
<1>5. CASE ScanUsed(t)       BY <1>5 DEF ScanUsed
<1>6. CASE ScanFree(t)       BY <1>6 DEF ScanFree, Unreliable
<1>7. CASE CreateReturn(t)   BY <1>7 DEF CreateReturn
<1>8. ASSUME NEW k \in Keys, FindKnown(t, k) PROVE ManagerInv'
    BY <1>8 DEF FindKnown, Connection
<1>9. ASSUME NEW k \in Keys, FindNew(t, k) PROVE ManagerInv'
    BY <1>9 DEF FindNew, MutexFree
<1> QED BY <1>1, <1>2, <1>3, <1>4, <1>5, <1>6, <1>7, <1>8, <1>9 DEF AllocStep

\* The insertion adds one endpoint, absent so far, with a port free so far.
LEMMA InsertStep ==
    ASSUME ManagerInv, NEW t \in Threads, Insert(t)
    PROVE  ManagerInv'
<1> DEFINE new == [port |-> port[t], touched |-> FALSE, aged |-> FALSE]
<1>1. /\ pc[t] = "insert" /\ Holds(t) /\ key[t] \in Keys
      /\ key[t] \notin Registered /\ port[t] \notin PortsInUse
    BY InvFacts DEF Insert, ManagerInv, InsertHolds, InsertIsFresh, Holds, Allocating
<1>2. new \in Connection
    BY <1>1, InvFacts DEF Connection
<1>3. /\ Registered' = Registered \cup {key[t]}
      /\ connections_'[key[t]] = new
      /\ \A k \in Registered : connections_'[k] = connections_[k]
      /\ connections_' \in [Registered' -> Connection]
    BY <1>1, <1>2, InvFacts DEF Insert, Registered
<1>4. TypeOK'
    BY <1>1, <1>3 DEF Insert, ManagerInv, TypeOK, Goto
<1>5. UniquePorts'
    <2> SUFFICES ASSUME NEW k \in Registered', NEW l \in Registered',
                        connections_'[k].port = connections_'[l].port
                 PROVE  k = l
        BY DEF UniquePorts
    <2> QED BY <1>1, <1>3, InvFacts DEF ManagerInv, UniquePorts
<1>6. /\ pc' = [pc EXCEPT ![t] = "handle"] /\ key' = key /\ port' = port
    BY DEF Insert, Goto
<1>7. \A u \in Threads : ~Holds(u)'
    BY <1>1, <1>6, InvFacts DEF Holds, Allocating, ManagerInv, OneHolder
<1>8. OneHolder' /\ InsertIsFresh' /\ InsertHolds' /\ IdleHasNoKey'
    BY <1>6, <1>7, InvFacts DEF OneHolder, InsertIsFresh, ManagerInv, InsertHolds,
       IdleHasNoKey
<1> QED BY <1>4, <1>5, <1>8 DEF ManagerInv

\* Changes of the table that add no endpoint and give no connection another
\* port cannot break the invariant.
LEMMA ShrinkStep ==
    ASSUME ManagerInv,
           Registered' \subseteq Registered,
           connections_' \in [Registered' -> Connection],
           \A k \in Registered' : connections_'[k].port = connections_[k].port
    PROVE  UniquePorts' /\ PortsInUse' \subseteq PortsInUse
BY DEF ManagerInv, UniquePorts, PortsInUse

\* With the ports in use at most shrinking and the calls as they were, what
\* was fresh stays fresh.
LEMMA ShrinkInv ==
    ASSUME ManagerInv, TypeOK', UniquePorts',
           Registered' \subseteq Registered, PortsInUse' \subseteq PortsInUse,
           UNCHANGED <<pc, key, port>>
    PROVE  ManagerInv'
BY DEF ManagerInv, OneHolder, InsertIsFresh, InsertHolds, IdleHasNoKey, Holds

\* handle_packet() on a connection in hand changes no endpoint and no port.
LEMMA HandleStep ==
    ASSUME ManagerInv, NEW t \in Threads, Handle(t)
    PROVE  ManagerInv'
<1>1. /\ Registered' = Registered
      /\ connections_' \in [Registered' -> Connection]
      /\ \A k \in Registered' : connections_'[k].port = connections_[k].port
    BY InvFacts DEF Handle, Registered, Connection
<1>2. UniquePorts' /\ PortsInUse' \subseteq PortsInUse
    BY <1>1, ShrinkStep
<1>3. TypeOK'
    <2>1. 0 \in Port
        BY PortsAssumption DEF Port
    <2>2. /\ pc' \in [Threads -> Allocating \cup {"idle", "created", "handle"}]
          /\ key' \in [Threads -> Keys \cup {NoKey}]
          /\ port' \in [Threads -> Port]
        BY <2>1, InvFacts DEF Handle, Return, Goto
    <2> QED BY <1>1, <2>2 DEF Handle, ManagerInv, TypeOK
<1>4. OneHolder' /\ InsertIsFresh' /\ InsertHolds' /\ IdleHasNoKey'
    BY <1>1, <1>2, InvFacts DEF Handle, Return, Goto, ManagerInv, OneHolder,
       InsertIsFresh, InsertHolds, IdleHasNoKey, Holds, Allocating
<1> QED BY <1>2, <1>3, <1>4 DEF ManagerInv

\* Removing connections, for whatever reason, keeps the invariant.
LEMMA KeepStep ==
    ASSUME ManagerInv, NEW kept \in SUBSET Registered, Keep(kept),
           UNCHANGED <<max_connections_, next_port_, pc, key, port>>
    PROVE  ManagerInv'
<1>1. /\ Registered' = kept
      /\ connections_' \in [Registered' -> Connection]
      /\ \A k \in Registered' : connections_'[k].port = connections_[k].port
    BY InvFacts DEF Keep, Registered
<1>2. UniquePorts' /\ PortsInUse' \subseteq PortsInUse
    BY <1>1, ShrinkStep
<1>3. TypeOK'
    BY <1>1 DEF ManagerInv, TypeOK
<1> QED BY <1>1, <1>2, <1>3, ShrinkInv

\* A connection that grows old keeps its port.
LEMMA AgeStep ==
    ASSUME ManagerInv, NEW k \in Keys, Age(k)
    PROVE  ManagerInv'
<1>1. /\ Registered' = Registered
      /\ connections_' \in [Registered' -> Connection]
      /\ \A l \in Registered' : connections_'[l].port = connections_[l].port
    BY InvFacts DEF Age, Registered, Connection
<1>2. UniquePorts' /\ PortsInUse' \subseteq PortsInUse
    BY <1>1, ShrinkStep
<1>3. TypeOK'
    BY <1>1 DEF Age, ManagerInv, TypeOK
<1> QED BY <1>1, <1>2, <1>3, ShrinkInv DEF Age

\* The invariant is inductive.
LEMMA ManagerInvStep == ManagerInv /\ [Next]_vars => ManagerInv'
<1> SUFFICES ASSUME ManagerInv, [Next]_vars PROVE ManagerInv'
    OBVIOUS
<1>1. ASSUME NEW t \in Threads, Create(t) PROVE ManagerInv'
    BY <1>1, TableUnchangedStep DEF Create
<1>2. ASSUME NEW t \in Threads, AllocStep(t) PROVE ManagerInv'
    <2>1. CASE Insert(t)
        BY <2>1, InsertStep
    <2>2. CASE Handle(t)
        BY <2>2, HandleStep
    <2>3. CASE ~Insert(t) /\ ~Handle(t)
        <3>1. UNCHANGED connections_
            BY <1>2, <2>3 DEF AllocStep, Load, Store, Clamp, ScanUsed, ScanFree,
               CreateReturn
        <3> QED BY <1>2, <2>3, <3>1, TableUnchangedStep
    <2> QED BY <2>1, <2>2, <2>3
<1>3. ASSUME NEW t \in Threads, NEW k \in Keys, FindKnown(t, k) \/ FindNew(t, k)
      PROVE  ManagerInv'
    <2>1. UNCHANGED connections_
        BY <1>3 DEF FindKnown, FindNew
    <2> QED BY <1>3, <2>1, TableUnchangedStep
<1>4. ASSUME NEW k \in Keys, Remove(k) PROVE ManagerInv'
    BY <1>4, KeepStep DEF Remove
<1>5. ASSUME NEW k \in Keys, Age(k) PROVE ManagerInv'
    BY <1>5, AgeStep
<1>6. CASE Cleanup
    <2>1. {k \in Registered : ~IsTimeout(connections_[k])} \in SUBSET Registered
        OBVIOUS
    <2> QED BY <1>6, <2>1, KeepStep DEF Cleanup
<1>7. ASSUME NEW n \in MaxChoices, SetMax(n) PROVE ManagerInv'
    BY <1>7 DEF SetMax, ManagerInv, TypeOK, Registered, OneHolder, Holds,
       InsertIsFresh, PortsInUse, InsertHolds, IdleHasNoKey, UniquePorts
<1>8. CASE UNCHANGED vars
    BY <1>8 DEF vars, ManagerInv, TypeOK, Registered, OneHolder, Holds,
       InsertIsFresh, PortsInUse, InsertHolds, IdleHasNoKey, UniquePorts
<1> QED BY <1>1, <1>2, <1>3, <1>4, <1>5, <1>6, <1>7, <1>8 DEF Next

\* The strengthened invariant holds in every reachable state.
THEOREM ManagerInvariant == Spec => []ManagerInv
<1>1. Init => ManagerInv BY ManagerInvInit
<1>2. ManagerInv /\ [Next]_vars => ManagerInv' BY ManagerInvStep
<1> QED BY <1>1, <1>2, PTL DEF Spec

\* Type correctness of the table, of the ports and of the calls under way.
THEOREM TypeCorrect == Spec => []TypeOK
<1>1. ManagerInv => TypeOK BY DEF ManagerInv
<1> QED BY <1>1, ManagerInvariant, PTL

\* Two registered connections never share a local port, for any number of
\* threads, of which some allocate without the mutex, and any port range.
THEOREM PortsAreUnique == Spec => []UniquePorts
<1>1. ManagerInv => UniquePorts BY DEF ManagerInv
<1> QED BY <1>1, ManagerInvariant, PTL

-----------------------------------------------------------------------------
(* The table never outgrows its largest limit.                             *)

\* What a step does to the table and to the mutex: nothing is added and nobody
\* gets hold of the mutex, or a thread gets hold of it having found room, or
\* its holder inserts one endpoint and lets it go.
LEMMA TableMoves ==
    ASSUME ManagerInv, [Next]_vars
    PROVE  \/ /\ Registered' \subseteq Registered
              /\ \A u \in Threads : Holds(u)' => Holds(u)
           \/ /\ Registered' = Registered
              /\ \E n \in MaxChoices : Cardinality(Registered) < n
           \/ \E t \in Threads :
                /\ Holds(t) /\ Registered' = Registered \cup {key[t]}
                /\ \A u \in Threads : ~Holds(u)'
<1> DEFINE Shrinks == /\ Registered' \subseteq Registered
                      /\ \A u \in Threads : Holds(u)' => Holds(u)
<1> USE InvFacts DEF Holds, Allocating
<1>1. ASSUME NEW t \in Threads, Create(t) PROVE Shrinks
    BY <1>1 DEF Create, Goto, ManagerInv, IdleHasNoKey, Registered
<1>2. ASSUME NEW t \in Threads, AllocStep(t), ~Insert(t) PROVE Shrinks
    <2> USE DEF Goto, Return, Registered
    <2>1. CASE Load(t)          BY <2>1 DEF Load
    <2>2. CASE Store(t)         BY <2>2 DEF Store
    <2>3. CASE Clamp(t)         BY <2>3 DEF Clamp
    <2>4. CASE ScanUsed(t)      BY <2>4 DEF ScanUsed
    <2>5. CASE ScanFree(t)      BY <2>5 DEF ScanFree
    <2>6. CASE CreateReturn(t)  BY <2>6 DEF CreateReturn
    <2>7. CASE Handle(t)        BY <2>7 DEF Handle
    <2> QED BY <1>2, <2>1, <2>2, <2>3, <2>4, <2>5, <2>6, <2>7 DEF AllocStep
<1>3. ASSUME NEW t \in Threads, Insert(t)
      PROVE  /\ Holds(t) /\ Registered' = Registered \cup {key[t]}
             /\ \A u \in Threads : ~Holds(u)'
    <2>1. Holds(t)
        BY <1>3 DEF Insert, ManagerInv, InsertHolds
    <2>2. Registered' = Registered \cup {key[t]}
        BY <1>3 DEF Insert, Registered
    <2>3. pc' = [pc EXCEPT ![t] = "handle"] /\ key' = key
        BY <1>3 DEF Insert, Goto
    <2> QED BY <2>1, <2>2, <2>3 DEF ManagerInv, OneHolder
<1>4. ASSUME NEW t \in Threads, NEW k \in Keys, FindKnown(t, k) PROVE Shrinks
    BY <1>4 DEF FindKnown, Goto, Registered
<1>5. ASSUME NEW t \in Threads, NEW k \in Keys, FindNew(t, k)
      PROVE  /\ Registered' = Registered
             /\ \E n \in MaxChoices : Cardinality(Registered) < n
    BY <1>5 DEF FindNew, Registered, ManagerInv, TypeOK
<1>6. ASSUME NEW k \in Keys, Remove(k) \/ Age(k) PROVE Shrinks
    BY <1>6 DEF Remove, Keep, Age, Registered
<1>7. ASSUME Cleanup PROVE Shrinks
    BY <1>7 DEF Cleanup, Keep, Registered
<1>8. ASSUME NEW n \in MaxChoices, SetMax(n) PROVE Shrinks
    BY <1>8 DEF SetMax, Registered
<1>9. CASE UNCHANGED vars
    BY <1>9 DEF vars, Registered
<1> QED BY <1>1, <1>2, <1>3, <1>4, <1>5, <1>6, <1>7, <1>8, <1>9 DEF Next

\* The count stays within a limit, and room found is room kept.
LEMMA TableInvStep == TableInv /\ [Next]_vars => TableInv'
<1> SUFFICES ASSUME TableInv, [Next]_vars PROVE TableInv'
    OBVIOUS
<1>1. ManagerInv /\ ManagerInv'
    BY ManagerInvStep DEF TableInv
<1>2. /\ IsFiniteSet(Registered) /\ Cardinality(Registered) \in Nat
      /\ TableBound /\ RoomKept /\ MaxChoices \subseteq Nat
    BY FS_CardinalityType, PortsAssumption DEF TableInv
<1>3. CASE /\ Registered' \subseteq Registered
           /\ \A u \in Threads : Holds(u)' => Holds(u)
    <2>1. /\ IsFiniteSet(Registered') /\ Cardinality(Registered') \in Nat
          /\ Cardinality(Registered') <= Cardinality(Registered)
        BY <1>2, <1>3, FS_Subset, FS_CardinalityType
    <2>2. TableBound' /\ RoomKept'
        BY <1>2, <1>3, <2>1 DEF TableBound, RoomKept
    <2> QED BY <1>1, <2>1, <2>2 DEF TableInv
<1>4. CASE /\ Registered' = Registered
           /\ \E n \in MaxChoices : Cardinality(Registered) < n
    BY <1>1, <1>2, <1>4 DEF TableInv, TableBound, RoomKept
<1>5. ASSUME NEW t \in Threads, Holds(t), Registered' = Registered \cup {key[t]},
             \A u \in Threads : ~Holds(u)'
      PROVE  TableInv'
    <2>1. PICK n \in MaxChoices : Cardinality(Registered) < n
        BY <1>2, <1>5 DEF RoomKept
    <2>2. /\ IsFiniteSet(Registered')
          /\ Cardinality(Registered') <= Cardinality(Registered) + 1
        BY <1>2, <1>5, FS_AddElement
    <2>3. Cardinality(Registered') <= n
        BY <1>2, <2>1, <2>2, FS_CardinalityType
    <2>4. TableBound' /\ RoomKept'
        BY <1>5, <2>3 DEF TableBound, RoomKept
    <2> QED BY <1>1, <2>2, <2>4 DEF TableInv
<1> QED BY <1>1, <1>3, <1>4, <1>5, TableMoves

\* The invariant with the count of the table.
THEOREM TableInvariant == Spec => []TableInv
<1>1. Init => TableInv
    <2> SUFFICES ASSUME Init PROVE TableInv
        OBVIOUS
    <2>1. Registered = {} /\ \A t \in Threads : ~Holds(t)
        BY DEF Init, Registered, Holds, Allocating
    <2>2. IsFiniteSet(Registered) /\ Cardinality(Registered) = 0
        BY <2>1, FS_EmptySet
    <2>3. max_connections_ \in MaxChoices /\ max_connections_ \in Nat
        BY PortsAssumption DEF Init
    <2>4. TableBound /\ RoomKept
        BY <2>1, <2>2, <2>3 DEF TableBound, RoomKept
    <2> QED BY <2>2, <2>4, ManagerInvInit DEF TableInv
<1>2. TableInv /\ [Next]_vars => TableInv'
    BY TableInvStep
<1> QED BY <1>1, <1>2, PTL DEF Spec

\* The table never holds more connections than the largest limit it was given,
\* for any number of threads and whenever set_max_connections() comes in.
THEOREM TableIsBounded == Spec => []TableBound
<1>1. TableInv => TableBound BY DEF TableInv
<1> QED BY <1>1, TableInvariant, PTL

\* The unprivileged ports outnumber every limit the table may be given.
PortsAbound == \A n \in MaxChoices : n < W16 - MinPort

\* The unprivileged ports are as many as their bounds say.
LEMMA UnprivilegedPorts ==
    /\ IsFiniteSet(MinPort..W16-1)
    /\ Cardinality(MinPort..W16-1) = W16 - MinPort
<1>1. MinPort \in Nat /\ W16 \in Nat /\ MinPort < W16
    BY PortsAssumption
<1> QED BY <1>1, FS_Interval

\* The search of an allocation has an end: some unprivileged port is free in
\* every state, whatever create_connection() and set_max_connections() do
\* meanwhile, as long as no limit reaches the number of those ports.  It is what
\* AllocationEnds rests on beside fairness.
THEOREM SomePortIsFree ==
    ASSUME PortsAbound
    PROVE  Spec => [](\E p \in MinPort..W16-1 : p \notin PortsInUse)
<1>1. ASSUME TableInv PROVE \E p \in MinPort..W16-1 : p \notin PortsInUse
    <2>1. IsFiniteSet(Registered) /\ Cardinality(Registered) \in Nat
        BY <1>1, FS_CardinalityType DEF TableInv
    <2>2. IsFiniteSet(PortsInUse) /\ Cardinality(PortsInUse) <= Cardinality(Registered)
        <3> DEFINE f == [k \in Registered |-> connections_[k].port]
        <3>1. f \in Surjection(Registered, PortsInUse)
            BY DEF Surjection, PortsInUse
        <3> HIDE DEF f
        <3> QED BY <2>1, <3>1, FS_Surjection
    <2>3. PICK n \in MaxChoices : Cardinality(Registered) <= n
        BY <1>1 DEF TableInv, TableBound
    <2>4. n \in Nat /\ n < W16 - MinPort /\ W16 \in Nat /\ MinPort \in Nat
        BY <2>3, PortsAssumption DEF PortsAbound
    <2>5. Cardinality(PortsInUse) \in Nat
        BY <2>2, FS_CardinalityType
    <2>6. Cardinality(PortsInUse) < Cardinality(MinPort..W16-1)
        BY <2>1, <2>2, <2>3, <2>4, <2>5, UnprivilegedPorts
    <2>7. CASE MinPort..W16-1 \subseteq PortsInUse
        <3>1. Cardinality(MinPort..W16-1) <= Cardinality(PortsInUse)
            BY <2>2, <2>7, FS_Subset
        <3> QED BY <2>4, <2>5, <2>6, <3>1, UnprivilegedPorts
    <2> QED BY <2>7
<1> QED BY <1>1, TableInvariant, PTL

-----------------------------------------------------------------------------
(* The manager implements PortTable.                                       *)

\* What was inserted has a port of its own, and there was room for it.
LEMMA InsertRegisters ==
    ASSUME TableInv, NEW t \in Threads, Insert(t)
    PROVE  Table!Next
<1>1. ManagerInv /\ RoomKept
    BY DEF TableInv
<1>2. /\ Holds(t) /\ key[t] \in Keys /\ port[t] \in Port
      /\ key[t] \notin Registered /\ port[t] \notin PortsInUse
    BY <1>1, InvFacts DEF Insert, ManagerInv, InsertHolds, InsertIsFresh, Holds, Allocating
<1>3. DOMAIN PortOf = Registered /\ \A l \in Registered : PortOf[l] # port[t]
    BY <1>2 DEF PortOf, PortsInUse
<1>4. \E n \in MaxChoices : Cardinality(DOMAIN PortOf) < n
    BY <1>1, <1>2, <1>3 DEF RoomKept
<1>5. PortOf' = [l \in DOMAIN PortOf \cup {key[t]} |->
                    IF l = key[t] THEN port[t] ELSE PortOf[l]]
    BY <1>2 DEF Insert, PortOf, Registered
<1>6. /\ key[t] \notin DOMAIN PortOf
      /\ \A l \in DOMAIN PortOf : PortOf[l] # port[t]
    BY <1>2, <1>3
<1>7. Table!Register(key[t], port[t])
    BY <1>4, <1>5, <1>6, Zenon
       DEF Table!Register, Cardinality, Table!Cardinality, IsFiniteSet, Table!IsFiniteSet
<1> QED BY <1>2, <1>7 DEF Table!Next

\* A step that adds no endpoint and gives none another port is one of the
\* table's, or none.
LEMMA KeptLeave ==
    ASSUME Registered' \subseteq Registered,
           \A k \in Registered' : connections_'[k].port = connections_[k].port
    PROVE  Table!Next
<1>1. PortOf' = [k \in Registered' |-> PortOf[k]] /\ DOMAIN PortOf = Registered
    BY DEF PortOf
<1> QED BY <1>1 DEF Table!Next, Table!Leave

\* Insertions register, the rest moves no port.
LEMMA TableStep ==
    ASSUME TableInv, [Next]_vars
    PROVE  [Table!Next]_PortOf
<1> USE DEF Registered
<1>1. ASSUME UNCHANGED connections_ PROVE UNCHANGED PortOf
    BY <1>1 DEF PortOf
<1>2. ASSUME NEW t \in Threads, Handle(t) PROVE Table!Next
    BY <1>2, KeptLeave DEF Handle
<1>3. ASSUME NEW k \in Keys, Remove(k) PROVE Table!Next
    BY <1>3, KeptLeave DEF Remove, Keep
<1>4. ASSUME NEW k \in Keys, Age(k) PROVE Table!Next
    <2>1. connections_ \in [Registered -> Connection]
        BY InvFacts DEF TableInv
    <2> QED BY <1>4, <2>1, KeptLeave DEF Age, Connection
<1>5. ASSUME Cleanup PROVE Table!Next
    BY <1>5, KeptLeave DEF Cleanup, Keep
<1>6. ASSUME NEW t \in Threads, Create(t) \/ (AllocStep(t) /\ ~Insert(t) /\ ~Handle(t))
      PROVE  UNCHANGED connections_
    BY <1>6 DEF Create, AllocStep, Load, Store, Clamp, ScanUsed, ScanFree, CreateReturn
<1>7. ASSUME NEW t \in Threads, NEW k \in Keys, FindKnown(t, k) \/ FindNew(t, k)
      PROVE  UNCHANGED connections_
    BY <1>7 DEF FindKnown, FindNew
<1>8. ASSUME (\E n \in MaxChoices : SetMax(n)) \/ UNCHANGED vars
      PROVE  UNCHANGED connections_
    BY <1>8 DEF SetMax, vars
<1> QED BY <1>1, <1>2, <1>3, <1>4, <1>5, <1>6, <1>7, <1>8, InsertRegisters DEF Next

\* An endpoint gets a port nobody has while there is room and keeps it until it
\* leaves the table, whatever threads without the mutex do to next_port_ and
\* whatever connection they still have in hand.
THEOREM ImplementsPortTable == Spec => PortsAreKept
<1>1. Init => Table!Init
    BY DEF Init, PortOf, Registered, Table!Init
<1>2. TableInv /\ [Next]_vars => [Table!Next]_PortOf
    BY TableStep
<1> QED BY <1>1, <1>2, TableInvariant, PTL DEF Spec, PortsAreKept, Table!Spec

-----------------------------------------------------------------------------
(* TCPDispatch                                                             *)

\* What a segment is dispatched under is a key of the table.
LEMMA EndpointIsKey ==
    ASSUME NEW s \in Arriving
    PROVE  EndpointOf(s) \in Keys /\ EndpointOf(s) = <<Own, s.port>>
BY EndpointsAssumption DEF Arriving, Segment, EndpointOf, Endpoints

\* Every step of the composition is a step of the manager or leaves it alone.
LEMMA DispatchStep == [DispatchNext]_dispatchvars => [Next]_vars
<1> SUFFICES ASSUME [DispatchNext]_dispatchvars PROVE [Next]_vars
    OBVIOUS
<1>1. ASSUME NEW t \in Threads, NEW s \in Arriving, Dispatch(t, s) PROVE Next
    BY <1>1, EndpointIsKey DEF Dispatch, Next
<1>2. ASSUME NEW t \in Threads, Deliver(t) PROVE Next
    BY <1>2 DEF Deliver, Next, AllocStep
<1>3. CASE Drop
    BY <1>3 DEF Drop, Next
<1>4. CASE Aside
    BY <1>4 DEF Aside, Next, AllocStep
<1>5. CASE UNCHANGED dispatchvars
    BY <1>5 DEF dispatchvars
<1> QED BY <1>1, <1>2, <1>3, <1>4, <1>5 DEF DispatchNext

\* The dispatch of segments implements TCPManager: all that is proved of the
\* manager alone holds in the stack.
THEOREM DispatchUsesManager == DispatchSpec => Spec
<1>1. DispatchInit => Init
    BY DEF DispatchInit
<1>2. [DispatchNext]_dispatchvars => [Next]_vars
    BY DispatchStep
<1> QED BY <1>1, <1>2, PTL DEF DispatchSpec, Spec

\* Registered connections have distinct local ports in the stack as well.
THEOREM DispatchedPortsAreUnique == DispatchSpec => []UniquePorts
BY DispatchUsesManager, PortsAreUnique, PTL

\* So does the limit of the table, whoever dispatches and whoever drops.
THEOREM DispatchedTableIsBounded == DispatchSpec => []TableBound
BY DispatchUsesManager, TableIsBounded, PTL

\* And so does the table of ports: a connection that is dropped and made again
\* while another thread is about to give it a segment has a port of its own.
THEOREM DispatchedPortsAreKept == DispatchSpec => PortsAreKept
BY DispatchUsesManager, ImplementsPortTable, PTL
=============================================================================
