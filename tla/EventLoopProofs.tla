--------------------------- MODULE EventLoopProofs ---------------------------
(***************************************************************************)
(* Proofs about EventLoop for every set of loopers and stoppers and every  *)
(* number of posts.                                                        *)
(***************************************************************************)
EXTENDS EventLoop, SequenceTheorems, TLAPS

\* Initially nothing is queued and nobody is inside run().
LEMMA LoopInvInit == Init => LoopInv
<1> SUFFICES ASSUME Init PROVE LoopInv
    OBVIOUS
<1>1. TypeOK
    BY EmptySeq DEF Init, TypeOK, PC
<1>2. \A l \in Loopers : pc[l] = "out"
    BY DEF Init
<1>3. MutualExclusion /\ EmptyWhileBlocking
    BY <1>2 DEF MutualExclusion, Critical, EmptyWhileBlocking
<1>4. RunningHasLooper /\ NoLostTask
    BY DEF Init, RunningHasLooper, NoLostTask
<1> QED BY <1>1, <1>3, <1>4 DEF LoopInv

\* Every step of a looper, a poster or a stopper keeps the types.
LEMMA TypeStep == TypeOK /\ [Next]_elvars => TypeOK'
<1> SUFFICES ASSUME TypeOK, [Next]_elvars PROVE TypeOK'
    OBVIOUS
<1> USE DEF TypeOK, PC, queuevars
<1>1. ASSUME NEW l \in Loopers, RunEnter(l) PROVE TypeOK'
    BY <1>1 DEF RunEnter, Goto
<1>2. ASSUME NEW l \in Loopers, SpuriousWake(l) PROVE TypeOK'
    BY <1>2 DEF SpuriousWake, Goto
<1>3. ASSUME NEW l \in Loopers, LoopStep(l) PROVE TypeOK'
    <2>1. CASE RunTop(l)    BY <2>1 DEF RunTop, Goto
    <2>2. CASE RunLeave(l)  BY <2>2 DEF RunLeave, Goto
    <2>3. CASE Lock(l)      BY <2>3 DEF Lock, Goto
    <2>4. CASE Pred(l)      BY <2>4 DEF Pred, Goto
    <2>5. CASE Sleep(l)     BY <2>5 DEF Sleep, Goto
    <2>6. CASE Break(l)     BY <2>6 DEF Break, Goto
    <2>7. CASE Take(l)      BY <2>7 DEF Take, Goto
    <2>8. CASE TakeWild(l)  BY <2>8 DEF TakeWild, Goto
    <2>9. CASE Begin(l)     BY <2>9 DEF Begin, Goto
    <2>10. CASE Exec(l)     BY <2>10 DEF Exec, Goto
    <2> QED BY <1>3, <2>1, <2>2, <2>3, <2>4, <2>5, <2>6, <2>7, <2>8, <2>9, <2>10
            DEF LoopStep
<1>4. ASSUME Post PROVE TypeOK'
    <2>1. pc' \in [Loopers -> PC]
        BY <1>4 DEF Post, NotifyOne, Asleep, Goto
    <2> QED BY <1>4, <2>1 DEF Post
<1>5. ASSUME NEW s \in Stoppers, StopStore(s) PROVE TypeOK'
    BY <1>5 DEF StopStore
<1>6. ASSUME NEW s \in Stoppers, StopNotify(s) PROVE TypeOK'
    BY <1>6 DEF StopNotify, NotifyAll, Asleep
<1>7. CASE UNCHANGED elvars
    BY <1>7 DEF elvars
<1> QED BY <1>1, <1>2, <1>3, <1>4, <1>5, <1>6, <1>7 DEF Next

\* The invariant is inductive.  It needs all its parts at once: NoLostTask
\* after a post() rests on a looper being inside run(), on the looper that
\* found the queue empty still holding the mutex, and on nobody else having it.
LEMMA LoopInvStep == LoopInv /\ [Next]_elvars => LoopInv'
<1> SUFFICES ASSUME LoopInv, [Next]_elvars PROVE LoopInv'
    OBVIOUS
<1>0. TypeOK /\ TypeOK'
    BY TypeStep DEF LoopInv
<1> USE <1>0
<1> DEFINE Others == MutualExclusion /\ EmptyWhileBlocking /\ RunningHasLooper
                     /\ NoLostTask
<1> USE DEF LoopInv, MutualExclusion, EmptyWhileBlocking, RunningHasLooper,
            NoLostTask, TypeOK, PC, Critical, Awake, queuevars
<1>1. ASSUME NEW l \in Loopers, RunEnter(l) PROVE Others'
    BY <1>1 DEF RunEnter, Goto
<1>2. ASSUME NEW l \in Loopers, SpuriousWake(l) PROVE Others'
    BY <1>2 DEF SpuriousWake, Goto
<1>3. ASSUME NEW l \in Loopers, LoopStep(l) PROVE Others'
    <2>1. CASE RunTop(l)    BY <2>1 DEF RunTop, Goto
    <2>2. CASE RunLeave(l)  BY <2>2 DEF RunLeave, Goto
    <2>3. CASE Lock(l)      BY <2>3 DEF Lock, Goto, MutexFree
    <2>4. CASE Pred(l)      BY <2>4 DEF Pred, Goto
    <2>5. CASE Sleep(l)     BY <2>5 DEF Sleep, Goto
    <2>6. CASE Break(l)     BY <2>6 DEF Break, Goto
    <2>7. CASE Take(l)
        <3>1. pc' = [pc EXCEPT ![l] = "hold"] /\ running_' = running_
            BY <2>7 DEF Take, Goto
        <3>2. \A m \in Loopers : pc[m] \in {"block", "wild"} => FALSE
            BY <2>7 DEF Take
        <3> QED BY <3>1, <3>2
    <2>8. CASE TakeWild(l)  BY <2>8 DEF TakeWild, Goto
    <2>9. CASE Begin(l)     BY <2>9 DEF Begin, Goto
    <2>10. CASE Exec(l)     BY <2>10 DEF Exec, Goto
    <2> QED BY <1>3, <2>1, <2>2, <2>3, <2>4, <2>5, <2>6, <2>7, <2>8, <2>9, <2>10
            DEF LoopStep
<1>4. ASSUME Post PROVE Others'
    <2>1. \A l \in Loopers : pc[l] \notin Critical
        BY <1>4 DEF Post, MutexFree
    <2>2. running_' = running_
        BY <1>4 DEF Post
    <2>3. CASE Asleep = {} /\ UNCHANGED pc
        BY <2>1, <2>2, <2>3 DEF Asleep
    <2>4. ASSUME NEW l \in Asleep, Goto(l, "lock") PROVE Others'
        BY <2>1, <2>2, <2>4 DEF Asleep, Goto
    <2> QED BY <1>4, <2>3, <2>4 DEF Post, NotifyOne
<1>5. ASSUME NEW s \in Stoppers, StopStore(s) PROVE Others'
    BY <1>5 DEF StopStore
<1>6. ASSUME NEW s \in Stoppers, StopNotify(s) PROVE Others'
    BY <1>6 DEF StopNotify, NotifyAll, Asleep
<1>7. CASE UNCHANGED elvars
    BY <1>7 DEF elvars
<1> QED BY <1>0, <1>1, <1>2, <1>3, <1>4, <1>5, <1>6, <1>7 DEF Next

\* The strengthened invariant holds in every reachable state.
THEOREM LoopInvariant == Spec => []LoopInv
<1>1. Init => LoopInv BY LoopInvInit
<1>2. LoopInv /\ [Next]_elvars => LoopInv' BY LoopInvStep
<1> QED BY <1>1, <1>2, PTL DEF Spec

\* Type correctness, whatever the sets of threads.
THEOREM TypeCorrect == Spec => []TypeOK
<1>1. LoopInv => TypeOK BY DEF LoopInv
<1> QED BY <1>1, LoopInvariant, PTL

\* No task is ever queued with the loop running and every looper asleep or
\* outside run(), for any number of loopers, stoppers and posts.
THEOREM NoTaskLost == Spec => []NoLostTask
<1>1. LoopInv => NoLostTask BY DEF LoopInv
<1> QED BY <1>1, LoopInvariant, PTL

-----------------------------------------------------------------------------
(* The queue is popped empty only while two threads are inside run().      *)

\* A looper past the predicate found a task or saw the flag down, and only
\* another looper could raise the flag or take the task in between.
PopInv ==
    \A l \in Loopers :
        pc[l] = "take" =>
            tasks_ # <<>> \/ ~running_ \/ \E m \in Loopers \ {l} : pc[m] # "out"

\* A looper leaves run() only with the flag down, so the witness of PopInv
\* never disappears; the mutex keeps a second looper from taking the task.
LEMMA PopInvStep == LoopInv /\ PopInv /\ [Next]_elvars => PopInv'
<1> SUFFICES ASSUME LoopInv, PopInv, [Next]_elvars PROVE PopInv'
    OBVIOUS
<1>0. TypeOK /\ MutualExclusion
    BY DEF LoopInv
<1> USE <1>0 DEF PopInv, TypeOK, PC, queuevars
<1>1. ASSUME NEW l \in Loopers, RunEnter(l) PROVE PopInv'
    <2>1. pc[l] = "out" /\ pc' = [pc EXCEPT ![l] = "top"]
        BY <1>1 DEF RunEnter, Goto
    <2> QED BY <2>1
<1>2. ASSUME NEW l \in Loopers, SpuriousWake(l) PROVE PopInv'
    BY <1>2 DEF SpuriousWake, Goto
<1>3. ASSUME NEW l \in Loopers, LoopStep(l) PROVE PopInv'
    <2>1. CASE RunTop(l)    BY <2>1 DEF RunTop, Goto
    <2>2. CASE RunLeave(l)  BY <2>2 DEF RunLeave, Goto
    <2>3. CASE Lock(l)      BY <2>3 DEF Lock, Goto
    <2>4. CASE Pred(l)      BY <2>4 DEF Pred, Goto
    <2>5. CASE Sleep(l)     BY <2>5 DEF Sleep, Goto
    <2>6. CASE Break(l)     BY <2>6 DEF Break, Goto
    <2>7. CASE Take(l)
        <3>1. pc[l] = "take" /\ pc' = [pc EXCEPT ![l] = "hold"]
            BY <2>7 DEF Take, Goto
        <3>2. \A k \in Loopers : pc[k] = "take" => k = l
            BY <3>1 DEF MutualExclusion, Critical
        <3> QED BY <3>1, <3>2
    <2>8. CASE TakeWild(l)  BY <2>8 DEF TakeWild, Goto
    <2>9. CASE Begin(l)     BY <2>9 DEF Begin, Goto
    <2>10. CASE Exec(l)     BY <2>10 DEF Exec, Goto
    <2> QED BY <1>3, <2>1, <2>2, <2>3, <2>4, <2>5, <2>6, <2>7, <2>8, <2>9, <2>10
            DEF LoopStep
<1>4. ASSUME Post PROVE PopInv'
    <2>1. \A l \in Loopers : pc[l] # "take"
        BY <1>4 DEF Post, MutexFree, Critical
    <2> QED BY <1>4, <2>1 DEF Post, NotifyOne, Asleep, Goto
<1>5. ASSUME NEW s \in Stoppers, StopStore(s) PROVE PopInv'
    BY <1>5 DEF StopStore
<1>6. ASSUME NEW s \in Stoppers, StopNotify(s) PROVE PopInv'
    BY <1>6 DEF StopNotify, NotifyAll, Asleep
<1>7. CASE UNCHANGED elvars
    BY <1>7 DEF elvars
<1> QED BY <1>1, <1>2, <1>3, <1>4, <1>5, <1>6, <1>7 DEF Next

\* What SafePop says of one step.
PopStep ==
    \A l \in Loopers :
        pc[l] # "wild" /\ pc'[l] = "wild"
            => \E m \in Loopers \ {l} : pc[m] # "out"

\* TakeWild is the only way to an empty pop, and PopInv names the other looper.
LEMMA PopStepHolds == TypeOK /\ PopInv /\ [Next]_elvars => PopStep
<1> SUFFICES ASSUME TypeOK, PopInv, [Next]_elvars,
                    NEW l \in Loopers, pc[l] # "wild", pc'[l] = "wild"
             PROVE  \E m \in Loopers \ {l} : pc[m] # "out"
    BY DEF PopStep
<1> USE DEF TypeOK, PC, queuevars
<1>1. ASSUME NEW k \in Loopers,
             RunEnter(k) \/ SpuriousWake(k) \/ (LoopStep(k) /\ ~TakeWild(k))
      PROVE  FALSE
    BY <1>1 DEF RunEnter, SpuriousWake, LoopStep, RunTop, RunLeave, Lock, Pred,
                Sleep, Break, Take, Begin, Exec, Goto
<1>2. ASSUME NEW k \in Loopers, TakeWild(k)
      PROVE  \E m \in Loopers \ {l} : pc[m] # "out"
    <2>1. l = k
        BY <1>2 DEF TakeWild, Goto
    <2> QED BY <1>2, <2>1 DEF TakeWild, PopInv
<1>3. ASSUME Post PROVE FALSE
    BY <1>3 DEF Post, NotifyOne, Asleep, Goto
<1>4. ASSUME NEW s \in Stoppers, StopStore(s) \/ StopNotify(s) PROVE FALSE
    BY <1>4 DEF StopStore, StopNotify, NotifyAll, Asleep
<1>5. CASE UNCHANGED elvars
    BY <1>5 DEF elvars
<1> QED BY <1>1, <1>2, <1>3, <1>4, <1>5 DEF Next

\* PopInv holds in every reachable state.
LEMMA PopInvariant == Spec => []PopInv
<1>1. Init => PopInv
    BY DEF Init, PopInv
<1>2. LoopInv /\ PopInv /\ [Next]_elvars => PopInv'
    BY PopInvStep
<1> QED BY <1>1, <1>2, LoopInvariant, PTL DEF Spec

\* front() and pop() of lines 25 and 26 meet an empty queue only while a second
\* thread is inside run(), however many post and stop.
THEOREM PopIsSafe == Spec => SafePop
<1>1. TypeOK /\ PopInv /\ [Next]_elvars => [PopStep]_elvars
    BY PopStepHolds
<1>2. Spec => [][PopStep]_elvars
    BY <1>1, TypeCorrect, PopInvariant, PTL DEF Spec
<1> QED BY <1>2 DEF SafePop, PopStep

\* When at most one thread calls run(), as in main.cpp, the pop always finds a
\* task.
THEOREM SinglePopIsSafe ==
    ASSUME \A l, m \in Loopers : l = m
    PROVE  Spec => [](\A l \in Loopers : pc[l] # "wild")
<1> DEFINE Tame == \A l \in Loopers : pc[l] # "wild"
<1>1. Init => Tame
    BY DEF Init
<1>2. PopStep => (Tame => Tame')
    BY DEF PopStep
<1>3. UNCHANGED elvars => (Tame => Tame')
    BY DEF elvars
<1>4. TypeOK /\ PopInv /\ Tame /\ [Next]_elvars => Tame'
    BY <1>2, PopStepHolds
<1> QED BY <1>1, <1>4, TypeCorrect, PopInvariant, PTL DEF Spec

-----------------------------------------------------------------------------
(* The loop implements TaskQueue.                                          *)

\* The queue holds the numbers that follow those of the tasks taken.
QueueInOrder ==
    /\ Len(tasks_) <= posted
    /\ \A i \in 1..Len(tasks_) : tasks_[i] = Taken + i

\* A looper has a task in hand between lines 25 and 28 and nowhere else.
HandsFree == \A l \in Loopers : hand[l] # 0 <=> pc[l] = "hold"

OrderInv == TypeOK /\ QueueInOrder /\ HandsFree

\* Initially nothing has been posted.
LEMMA OrderInvInit == Init => OrderInv
<1> SUFFICES ASSUME Init PROVE OrderInv
    OBVIOUS
<1>1. TypeOK
    BY LoopInvInit DEF LoopInv
<1>2. Len(tasks_) = 0 /\ posted = 0
    BY DEF Init
<1>3. HandsFree
    BY DEF Init, HandsFree
<1> QED BY <1>1, <1>2, <1>3 DEF OrderInv, QueueInOrder

\* Taking a task: the head of the queue is the oldest task not taken, and the
\* looper that takes it had its hand free.
LEMMA TakeOrdered ==
    ASSUME OrderInv, NEW l \in Loopers, Take(l)
    PROVE  /\ OrderInv'
           /\ Abstract!Take(l)
<1>1. /\ pc[l] = "take" /\ tasks_ # <<>> /\ tasks_' = Tail(tasks_)
      /\ hand' = [hand EXCEPT ![l] = Head(tasks_)]
      /\ pc' = [pc EXCEPT ![l] = "hold"]
      /\ posted' = posted /\ started' = started
    BY DEF Take, Goto
<1>2. TypeOK /\ TypeOK' /\ QueueInOrder /\ HandsFree
    BY TypeStep DEF OrderInv, Next, LoopStep
<1>3. /\ Len(tasks_) \in Nat /\ Len(tasks_) > 0 /\ posted \in Nat
      /\ Len(tasks_') = Len(tasks_) - 1
      /\ Head(tasks_) = tasks_[1]
      /\ \A i \in 1..Len(tasks_') : tasks_'[i] = tasks_[i + 1]
    BY <1>1, <1>2 DEF TypeOK
<1>4. Taken' = Taken + 1 /\ Taken \in Nat /\ Head(tasks_) = Taken + 1
    BY <1>1, <1>2, <1>3 DEF Taken, QueueInOrder
<1>5. QueueInOrder'
    <2>1. Len(tasks_') <= posted'
        BY <1>1, <1>2, <1>3 DEF QueueInOrder
    <2>2. ASSUME NEW i \in 1..Len(tasks_') PROVE tasks_'[i] = Taken' + i
        <3>1. i + 1 \in 1..Len(tasks_)
            BY <1>3
        <3>2. tasks_[i + 1] = Taken + (i + 1)
            BY <1>2, <3>1 DEF QueueInOrder
        <3> QED BY <1>3, <1>4, <3>2
    <2> QED BY <2>1, <2>2 DEF QueueInOrder
<1>6. HandsFree'
    BY <1>1, <1>2, <1>4 DEF HandsFree, TypeOK
<1>7. Abstract!Take(l)
    <2>1. Taken < posted
        BY <1>3 DEF Taken
    <2>2. hand[l] = 0
        BY <1>1, <1>2 DEF HandsFree
    <2> QED BY <1>1, <1>4, <2>1, <2>2 DEF Abstract!Take
<1> QED BY <1>2, <1>5, <1>6, <1>7 DEF OrderInv

\* Calling a task: it is the one in the looper's hand.
LEMMA BeginOrdered ==
    ASSUME OrderInv, NEW l \in Loopers, Begin(l)
    PROVE  /\ OrderInv'
           /\ Abstract!Start(l)
<1>1. /\ pc[l] = "hold" /\ started' = Append(started, hand[l])
      /\ hand' = [hand EXCEPT ![l] = 0]
      /\ pc' = [pc EXCEPT ![l] = "exec"]
      /\ posted' = posted /\ tasks_' = tasks_
    BY DEF Begin, Goto
<1>2. TypeOK /\ TypeOK' /\ QueueInOrder /\ HandsFree
    BY TypeStep DEF OrderInv, Next, LoopStep
<1>3. Taken' = Taken /\ QueueInOrder'
    BY <1>1, <1>2 DEF Taken, QueueInOrder
<1>4. HandsFree'
    BY <1>1, <1>2 DEF HandsFree, TypeOK
<1>5. Abstract!Start(l)
    BY <1>1, <1>2, <1>3 DEF Abstract!Start, HandsFree
<1> QED BY <1>2, <1>3, <1>4, <1>5 DEF OrderInv

\* Posting a task: it gets the next number and the last place.
LEMMA PostOrdered ==
    ASSUME OrderInv, Post
    PROVE  /\ OrderInv'
           /\ Abstract!Post
<1>1. /\ posted' = posted + 1 /\ tasks_' = Append(tasks_, posted + 1)
      /\ hand' = hand /\ started' = started
    BY DEF Post
<1>2. TypeOK /\ TypeOK' /\ QueueInOrder /\ HandsFree
    BY TypeStep DEF OrderInv, Next
<1>3. /\ Len(tasks_) \in Nat /\ posted \in Nat
      /\ Len(tasks_') = Len(tasks_) + 1
      /\ tasks_'[Len(tasks_) + 1] = posted + 1
      /\ \A i \in 1..Len(tasks_) : tasks_'[i] = tasks_[i]
    BY <1>1, <1>2 DEF TypeOK
<1>4. Taken' = Taken
    BY <1>1, <1>3 DEF Taken
<1>5. QueueInOrder'
    BY <1>1, <1>2, <1>3, <1>4 DEF QueueInOrder, Taken
<1>6. HandsFree'
    BY <1>1, <1>2 DEF Post, NotifyOne, Asleep, Goto, HandsFree, TypeOK
<1>7. Abstract!Post
    BY <1>1, <1>4 DEF Abstract!Post
<1> QED BY <1>2, <1>5, <1>6, <1>7 DEF OrderInv

\* The other steps leave the queue, the hands and the history alone.
LEMMA OthersKeepOrder ==
    ASSUME TypeOK, HandsFree, [Next]_elvars, ~Post,
           \A l \in Loopers : ~Take(l) /\ ~Begin(l)
    PROVE  UNCHANGED queuevars /\ HandsFree'
<1> USE DEF TypeOK, HandsFree, queuevars
<1>1. ASSUME NEW l \in Loopers, RunEnter(l) \/ SpuriousWake(l)
      PROVE  UNCHANGED queuevars /\ HandsFree'
    BY <1>1 DEF RunEnter, SpuriousWake, Goto
<1>2. ASSUME NEW l \in Loopers, LoopStep(l)
      PROVE  UNCHANGED queuevars /\ HandsFree'
    BY <1>2 DEF LoopStep, RunTop, RunLeave, Lock, Pred, Sleep, Break, TakeWild,
                Exec, Goto
<1>3. ASSUME NEW s \in Stoppers, StopStore(s) \/ StopNotify(s)
      PROVE  UNCHANGED queuevars /\ HandsFree'
    BY <1>3 DEF StopStore, StopNotify, NotifyAll, Asleep
<1>4. CASE UNCHANGED elvars
    BY <1>4 DEF elvars
<1> QED BY <1>1, <1>2, <1>3, <1>4 DEF Next

\* Every step keeps the order and is a step of the abstract queue or none.
LEMMA OrderStep ==
    ASSUME OrderInv, [Next]_elvars
    PROVE  OrderInv' /\ [Abstract!Next]_(Abstract!vars)
<1>1. ASSUME NEW l \in Loopers, Take(l)
      PROVE  OrderInv' /\ Abstract!Next
    BY <1>1, TakeOrdered DEF Abstract!Next
<1>2. ASSUME NEW l \in Loopers, Begin(l)
      PROVE  OrderInv' /\ Abstract!Next
    BY <1>2, BeginOrdered DEF Abstract!Next
<1>3. ASSUME Post
      PROVE  OrderInv' /\ Abstract!Next
    BY <1>3, PostOrdered DEF Abstract!Next
<1>4. ASSUME ~Post, \A l \in Loopers : ~Take(l) /\ ~Begin(l)
      PROVE  OrderInv' /\ UNCHANGED Abstract!vars
    <2>1. TypeOK /\ TypeOK'
        BY TypeStep DEF OrderInv
    <2>2. UNCHANGED queuevars /\ HandsFree'
        BY <1>4, <2>1, OthersKeepOrder DEF OrderInv
    <2> QED BY <2>1, <2>2
            DEF OrderInv, QueueInOrder, Taken, queuevars, Abstract!vars
<1> QED BY <1>1, <1>2, <1>3, <1>4

\* Who has which task is kept in every reachable state.
LEMMA OrderInvariant == Spec => []OrderInv
<1>1. Init => OrderInv
    BY OrderInvInit
<1>2. OrderInv /\ [Next]_elvars => OrderInv'
    BY OrderStep
<1> QED BY <1>1, <1>2, PTL DEF Spec

\* An empty loop is an empty queue.
LEMMA AbstractInit == Init => Abstract!Init
<1> SUFFICES ASSUME Init PROVE Abstract!Init
    OBVIOUS
<1>1. /\ Len(tasks_) = 0 /\ posted = 0 /\ started = <<>>
      /\ hand = [l \in Loopers |-> 0]
    BY DEF Init
<1>2. Taken = 0
    BY <1>1 DEF Taken
<1> QED BY <1>1, <1>2 DEF Abstract!Init

\* Tasks are taken in the order of the posts and each is called once, with any
\* number of threads posting and any number inside run(), each of which calls
\* the task it has taken before it takes another.
THEOREM LoopIsFifo == Spec => Fifo
<1>1. Init => Abstract!Init
    BY AbstractInit
<1>2. OrderInv /\ [Next]_elvars => [Abstract!Next]_(Abstract!vars)
    BY OrderStep
<1> QED BY <1>1, <1>2, OrderInvariant, PTL DEF Spec, Fifo, Abstract!Spec

\* What has been taken and is in nobody's hand has been called, in the order of
\* the posts.
InTurn ==
    /\ \A i \in 1..Len(started) : started[i] = i
    /\ \A l \in Loopers :
          /\ pc[l] = "hold" => hand[l] = Taken
          /\ Taken = Len(started) + (IF pc[l] = "hold" THEN 1 ELSE 0)

\* When a single thread calls run(), as in main.cpp, the order in which tasks are
\* called is the order in which they were posted: nobody can overtake the
\* looper between line 25 and line 28.
THEOREM SingleLoopInTurn ==
    ASSUME NEW looper, Loopers = {looper}
    PROVE  Spec => [](\A i \in 1..Len(started) : started[i] = i)
<1>1. Init => InTurn
    <2> SUFFICES ASSUME Init PROVE InTurn
        OBVIOUS
    <2>1. /\ Len(tasks_) = 0 /\ posted = 0 /\ Len(started) = 0
          /\ \A l \in Loopers : pc[l] # "hold"
        BY DEF Init
    <2> QED BY <2>1 DEF InTurn, Taken
<1>2. OrderInv /\ InTurn /\ [Next]_elvars => InTurn'
    <2> SUFFICES ASSUME OrderInv, InTurn, [Next]_elvars PROVE InTurn'
        OBVIOUS
    <2>1. TypeOK /\ HandsFree /\ HandsFree' /\ Len(started) \in Nat
        BY OrderStep DEF OrderInv, TypeOK
    <2>2. ASSUME NEW l \in Loopers, Begin(l) PROVE InTurn'
        <3>1. /\ pc[l] = "hold" /\ started' = Append(started, hand[l])
              /\ pc'[l] = "exec" /\ posted' = posted /\ tasks_' = tasks_
            BY <2>1, <2>2 DEF Begin, Goto, TypeOK
        <3>2. hand[l] = Len(started) + 1 /\ Taken' = Len(started) + 1
            BY <3>1 DEF InTurn, Taken
        <3>3. /\ Len(started') = Len(started) + 1
              /\ started'[Len(started) + 1] = hand[l]
              /\ \A i \in 1..Len(started) : started'[i] = started[i]
            BY <2>1, <3>1 DEF TypeOK
        <3> QED BY <2>1, <3>1, <3>2, <3>3 DEF InTurn
    <2>3. ASSUME NEW l \in Loopers, Take(l) PROVE InTurn'
        <3>1. /\ pc[l] = "take" /\ pc'[l] = "hold" /\ started' = started
              /\ hand'[l] = Taken + 1 /\ Taken' = Taken + 1
            BY <2>1, <2>3, TakeOrdered DEF Take, Goto, TypeOK, Abstract!Take
        <3> QED BY <2>1, <3>1 DEF InTurn
    <2>4. ASSUME Post PROVE InTurn'
        <3>1. hand' = hand /\ started' = started /\ Taken' = Taken
            BY <2>4, PostOrdered DEF Post, Abstract!Post
        <3> QED BY <2>1, <3>1 DEF InTurn, HandsFree
    <2>5. CASE ~Post /\ \A l \in Loopers : ~Take(l) /\ ~Begin(l)
        <3>1. UNCHANGED queuevars
            BY <2>1, <2>5, OthersKeepOrder
        <3> QED BY <2>1, <3>1 DEF InTurn, HandsFree, Taken, queuevars
    <2> QED BY <2>2, <2>3, <2>4, <2>5
<1>3. InTurn => \A i \in 1..Len(started) : started[i] = i
    BY DEF InTurn
<1> QED BY <1>1, <1>2, <1>3, OrderInvariant, PTL DEF Spec
=============================================================================
