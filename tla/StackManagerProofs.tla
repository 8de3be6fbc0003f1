------------------------- MODULE StackManagerProofs -------------------------
(***************************************************************************)
(* Proofs about StackManager for every set of calling threads and every    *)
(* number of frames.                                                       *)
(***************************************************************************)
EXTENDS StackManager, SequenceTheorems, TLAPS

LoopProofs == INSTANCE EventLoopProofs WITH
                  Loopers <- Callers, Stoppers <- Callers,
                  MaxPosts <- MaxFrames

\* Initially nobody is in start() or stop() and there is no receive thread.
LEMMA StackInvInit == Init => StackInv
<1> SUFFICES ASSUME Init PROVE StackInv
    OBVIOUS
<1>1. Loop!TypeOK
    BY EmptySeq DEF Init, Loop!Init, Loop!TypeOK, Loop!PC
<1>2. TypeOK
    BY <1>1 DEF Init, TypeOK, SPC, RPC
<1> QED BY <1>2 DEF Init, StackInv, ReceiverOwned, StopWaitsForReceiver

\* Every step of the stack is a step of its event loop or leaves the loop as
\* it is: start(), stop() and the receive thread reach the queue only through
\* run(), stop() and post().
LEMMA LoopSimulation ==
    ASSUME TypeOK, [Next]_vars
    PROVE  [Loop!Next]_(Loop!elvars)
<1> USE DEF Loop!elvars, Loop!queuevars, loopvars
<1>1. ASSUME NEW c \in Callers, StartRun(c) PROVE Loop!Next
    BY <1>1 DEF StartRun, Loop!Next
<1>2. ASSUME NEW c \in Callers, StartLoop(c) PROVE Loop!Next
    BY <1>2 DEF StartLoop, Loop!Next
<1>3. ASSUME NEW c \in Callers, StartSpurious(c) PROVE Loop!Next
    BY <1>3 DEF StartSpurious, Loop!Next
<1>4. ASSUME NEW c \in Callers, StopLoop(c) PROVE Loop!Next
    BY <1>4 DEF StopLoop, Loop!Next
<1>5. ASSUME NEW c \in Callers, StopNotify(c) PROVE Loop!Next
    BY <1>5 DEF StopNotify, Loop!Next
<1>6. ASSUME RecvPost PROVE Loop!Next
    BY <1>6 DEF RecvPost, Loop!Next
<1>7. ASSUME NEW c \in Callers,
             \/ StartSet(c) \/ StartSpawn(c) \/ StopSet(c)
             \/ StopJoinable(c) \/ StopJoin(c) \/ StopJoined(c)
      PROVE  UNCHANGED loopvars
    BY <1>7 DEF StartSet, StartSpawn, StopSet, StopJoinable, StopJoin, StopJoined
<1>8. ASSUME RecvCheck \/ Arrival PROVE UNCHANGED loopvars
    BY <1>8 DEF RecvCheck, Arrival, RecvNone, RecvFrame
<1>9. CASE UNCHANGED vars
    BY <1>9 DEF vars
<1> QED BY <1>1, <1>2, <1>3, <1>4, <1>5, <1>6, <1>7, <1>8, <1>9
        DEF Next, CallerStep

\* The proofs about EventLoop speak of this very loop.
LEMMA SameLoop ==
    /\ Loop!TypeOK = LoopProofs!TypeOK
    /\ [Loop!Next]_(Loop!elvars) => [LoopProofs!Next]_(LoopProofs!elvars)
<1>1. Loop!TypeOK = LoopProofs!TypeOK
    BY DEF Loop!TypeOK, LoopProofs!TypeOK, Loop!PC, LoopProofs!PC
<1>2. [Loop!Next]_(Loop!elvars) => [LoopProofs!Next]_(LoopProofs!elvars)
    BY DEF Loop!Next, LoopProofs!Next, Loop!elvars, LoopProofs!elvars,
       Loop!queuevars, LoopProofs!queuevars,
       Loop!LoopStep, LoopProofs!LoopStep, Loop!RunEnter,
       LoopProofs!RunEnter, Loop!RunTop, LoopProofs!RunTop, Loop!RunLeave,
       LoopProofs!RunLeave, Loop!Lock, LoopProofs!Lock, Loop!Pred,
       LoopProofs!Pred, Loop!Sleep, LoopProofs!Sleep, Loop!SpuriousWake,
       LoopProofs!SpuriousWake, Loop!Break, LoopProofs!Break, Loop!Take,
       LoopProofs!Take, Loop!TakeWild, LoopProofs!TakeWild, Loop!Begin,
       LoopProofs!Begin, Loop!Exec,
       LoopProofs!Exec, Loop!Post, LoopProofs!Post, Loop!StopStore,
       LoopProofs!StopStore, Loop!StopNotify, LoopProofs!StopNotify,
       Loop!NotifyOne, LoopProofs!NotifyOne, Loop!NotifyAll,
       LoopProofs!NotifyAll, Loop!Goto, LoopProofs!Goto, Loop!Asleep,
       LoopProofs!Asleep, Loop!MutexFree, LoopProofs!MutexFree,
       Loop!Critical, LoopProofs!Critical
<1> QED BY <1>1, <1>2

\* The event loop inside the stack keeps its types.
LEMMA LoopTypes ==
    ASSUME Loop!TypeOK, [Loop!Next]_(Loop!elvars)
    PROVE  Loop!TypeOK'
<1>1. LoopProofs!TypeOK
    BY SameLoop
<1>2. LoopProofs!TypeOK'
    BY <1>1, SameLoop, LoopProofs!TypeStep, MaxFramesAssumption
<1> QED BY <1>2 DEF Loop!TypeOK, LoopProofs!TypeOK, Loop!PC, LoopProofs!PC

\* A step of a caller, of the receive thread or of the interface keeps the
\* invariant; a step that would break it calls std::terminate instead.
LEMMA StackInvStep == StackInv /\ [Next]_vars => StackInv'
<1> SUFFICES ASSUME StackInv, [Next]_vars PROVE StackInv'
    OBVIOUS
<1>0. Loop!TypeOK'
    BY LoopSimulation, LoopTypes DEF StackInv, TypeOK
<1> DEFINE Goal == /\ stack_running_' \in BOOLEAN
                   /\ receive_thread_' \in {"none", "joinable"}
                   /\ rpc' \in RPC
                   /\ spc' \in [Callers -> SPC]
                   /\ terminated' \in BOOLEAN
                   /\ ReceiverOwned'
                   /\ StopWaitsForReceiver'
<1> USE DEF StackInv, TypeOK, SPC, RPC, ReceiverOwned, StopWaitsForReceiver,
            Goto, threadvars
<1>1. ASSUME NEW c \in Callers, StartSet(c) PROVE Goal
    BY <1>1 DEF StartSet
<1>2. ASSUME NEW c \in Callers, StopSet(c) PROVE Goal
    BY <1>2 DEF StopSet
<1>3. ASSUME NEW c \in Callers, StartSpurious(c) PROVE Goal
    BY <1>3 DEF StartSpurious
<1>4. ASSUME NEW c \in Callers, CallerStep(c), ~terminated PROVE Goal
    <2>1. CASE StartRun(c)     BY <2>1 DEF StartRun
    <2>2. CASE StartLoop(c)    BY <2>2 DEF StartLoop
    <2>3. CASE StartSpawn(c)   BY <2>3 DEF StartSpawn, Terminate
    <2>4. CASE StopJoinable(c) BY <1>4, <2>4 DEF StopJoinable
    <2>5. CASE StopJoin(c)     BY <2>5 DEF StopJoin, Terminate
    <2>6. CASE StopJoined(c)   BY <2>6 DEF StopJoined
    <2>7. CASE StopLoop(c)     BY <2>7 DEF StopLoop
    <2>8. CASE StopNotify(c)   BY <2>8 DEF StopNotify
    <2> QED BY <1>4, <2>1, <2>2, <2>3, <2>4, <2>5, <2>6, <2>7, <2>8
            DEF CallerStep
<1>5. ASSUME RecvCheck PROVE Goal
    BY <1>5 DEF RecvCheck
<1>6. ASSUME RecvPost PROVE Goal
    BY <1>6 DEF RecvPost
<1>7. ASSUME Arrival PROVE Goal
    BY <1>7 DEF Arrival, RecvNone, RecvFrame
<1>8. ASSUME UNCHANGED vars PROVE Goal
    BY <1>8 DEF vars
<1>9. Goal
    BY <1>1, <1>2, <1>3, <1>4, <1>5, <1>6, <1>7, <1>8 DEF Next
<1> QED BY <1>0, <1>9

\* The invariant holds however start(), stop() and the interface interleave.
THEOREM StackInvariant == Spec => []StackInv
<1>1. Init => StackInv BY StackInvInit
<1>2. StackInv /\ [Next]_vars => StackInv' BY StackInvStep
<1> QED BY <1>1, <1>2, PTL DEF Spec

\* stop() never gets past join() while the receive thread can still read or
\* post a frame, for any number of threads calling start() and stop().
THEOREM StopIsOrderly == Spec => []StopWaitsForReceiver
<1>1. StackInv => StopWaitsForReceiver BY DEF StackInv
<1> QED BY <1>1, StackInvariant, PTL

\* No interleaving leaves a live receive thread that nobody can join.
THEOREM ReceiverIsOwned == Spec => []ReceiverOwned
<1>1. StackInv => ReceiverOwned BY DEF StackInv
<1> QED BY <1>1, StackInvariant, PTL

\* The composed system implements the event loop's specification, so what is
\* proved of the loop (no lost task, order of tasks) holds inside the stack.
THEOREM StackImplementsLoop == Spec => Loop!Spec
<1>1. Init => Loop!Init
    BY DEF Init
<1>2. StackInv /\ [Next]_vars => [Loop!Next]_(Loop!elvars)
    BY LoopSimulation DEF StackInv
<1> QED BY <1>1, <1>2, StackInvariant, PTL DEF Spec, Loop!Spec

\* What is proved of the loop alone holds inside the stack: the receive thread
\* never leaves a frame in the queue behind sleeping loops.
THEOREM StackLosesNoFrame == Spec => []Loop!NoLostTask
<1>1. Loop!Init => LoopProofs!LoopInv
    <2>1. Loop!Init => LoopProofs!Init
        BY DEF Loop!Init, LoopProofs!Init
    <2> QED BY <2>1, LoopProofs!LoopInvInit, MaxFramesAssumption
<1>2. LoopProofs!LoopInv /\ [Loop!Next]_(Loop!elvars) => LoopProofs!LoopInv'
    BY SameLoop, LoopProofs!LoopInvStep, MaxFramesAssumption
<1>3. LoopProofs!LoopInv => Loop!NoLostTask
    BY DEF LoopProofs!LoopInv, LoopProofs!NoLostTask, Loop!NoLostTask,
           Loop!Awake, LoopProofs!Awake
<1> QED BY <1>1, <1>2, <1>3, StackImplementsLoop, PTL DEF Loop!Spec

\* So does its order: frames are taken out of the queue in the order in which
\* they were received and each is handled at most once, however start() and
\* stop() interleave.  Callers of start() that overlap in run() may overtake each
\* other between the queue and the handler; one alone handles them in order.
THEOREM StackKeepsOrder == Spec => Loop!Fifo
<1>1. Loop!Init => Loop!Abstract!Init
    <2>1. Loop!Init => LoopProofs!Init
        BY DEF Loop!Init, LoopProofs!Init
    <2>2. LoopProofs!Init => LoopProofs!Abstract!Init
        BY LoopProofs!AbstractInit, MaxFramesAssumption
    <2> QED BY <2>1, <2>2
            DEF Loop!Abstract!Init, LoopProofs!Abstract!Init,
                Loop!Taken, LoopProofs!Taken
<1>2. Loop!Init => LoopProofs!OrderInv
    <2>1. Loop!Init => LoopProofs!Init
        BY DEF Loop!Init, LoopProofs!Init
    <2> QED BY <2>1, LoopProofs!OrderInvInit, MaxFramesAssumption
<1>3. LoopProofs!OrderInv /\ [Loop!Next]_(Loop!elvars)
          => LoopProofs!OrderInv' /\ [LoopProofs!Abstract!Next]_(LoopProofs!Abstract!vars)
    BY SameLoop, LoopProofs!OrderStep, MaxFramesAssumption
<1>4. [LoopProofs!Abstract!Next]_(LoopProofs!Abstract!vars)
          => [Loop!Abstract!Next]_(Loop!Abstract!vars)
    BY DEF Loop!Abstract!Next, LoopProofs!Abstract!Next, Loop!Abstract!vars,
           LoopProofs!Abstract!vars, Loop!Abstract!Take, LoopProofs!Abstract!Take,
           Loop!Abstract!Start, LoopProofs!Abstract!Start, Loop!Abstract!Post,
           LoopProofs!Abstract!Post, Loop!Taken, LoopProofs!Taken
<1> QED BY <1>1, <1>2, <1>3, <1>4, StackImplementsLoop, PTL
        DEF Loop!Spec, Loop!Fifo, Loop!Abstract!Spec
=============================================================================
