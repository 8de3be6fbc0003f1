------------------------------ MODULE EventLoop ------------------------------
(***************************************************************************)
(* src/core/event_loop.cpp: a mutex-protected queue of tasks, threads      *)
(* inside run() that wait on a condition variable, threads that post, and  *)
(* threads that stop the loop.                                             *)
(*                                                                         *)
(* A run() call is a program counter; one step is what another thread can  *)
(* see happen in one piece.  running_ is a std::atomic<bool> written       *)
(* WITHOUT the mutex by run() and stop(), so those writes interleave       *)
(* freely with the predicate test, with the wait and with the check after  *)
(* the wait.  Nothing in the code stops two threads from calling run().    *)
(* A task leaves the queue under the mutex and is called after the unlock, *)
(* in a step of its own.  It is its number in the order of the posts.      *)
(***************************************************************************)
EXTENDS Naturals, Sequences

CONSTANTS
    Loopers,      \* threads that may call run()
    Stoppers,     \* threads that may call stop()
    MaxPosts      \* bound on the number of post() calls

ASSUME MaxPostsAssumption == MaxPosts \in Nat

VARIABLES
    tasks_,       \* the queue
    posted,       \* how many tasks have been posted
    running_,     \* the atomic flag
    pc,           \* where each looper is
    hand,         \* the local `task` of each looper until it is called, or 0
    stopping,     \* stoppers between the store to running_ and notify_all
    started       \* history: the tasks called, in the order of the calls

queuevars == <<tasks_, posted, hand, started>>
elvars == <<queuevars, running_, pc, stopping>>

\* out      not inside run()              top     before the test of line 17
\* lock     acquiring the mutex           pred    mutex held, about to test
\* block    predicate false, mutex held   asleep  waiting, mutex released
\* take     predicate true, mutex held    hold    task in hand, mutex released
\* exec     executing the task, mutex released
\* wild     front()/pop() on an empty queue: undefined behaviour, no
\*          meaningful step follows
PC == {"out", "top", "lock", "pred", "block", "asleep", "take", "hold", "exec", "wild"}

\* The positions at which a looper holds mutex_.
Critical == {"pred", "block", "take", "wild"}

\* The positions from which a looper looks at the queue without being notified.
Awake == {"top", "lock", "pred", "take", "hold", "exec"}

MutexFree == \A l \in Loopers : pc[l] \notin Critical

Asleep == {l \in Loopers : pc[l] = "asleep"}

TypeOK ==
    /\ tasks_ \in Seq(Nat)
    /\ posted \in Nat
    /\ running_ \in BOOLEAN
    /\ pc \in [Loopers -> PC]
    /\ hand \in [Loopers -> Nat]
    /\ stopping \subseteq Stoppers
    /\ started \in Seq(Nat)

Init ==
    /\ tasks_ = <<>>
    /\ posted = 0
    /\ running_ = FALSE
    /\ pc = [l \in Loopers |-> "out"]
    /\ hand = [l \in Loopers |-> 0]
    /\ stopping = {}
    /\ started = <<>>

Goto(l, place) == pc' = [pc EXCEPT ![l] = place]

-----------------------------------------------------------------------------
(* condition_.  A notified thread must take the mutex again.               *)

\* Faulty variant: the notification is forgotten.
NotifyNobody == UNCHANGED pc

NotifyOne ==
    \/ Asleep = {} /\ UNCHANGED pc
    \/ \E l \in Asleep : Goto(l, "lock")

NotifyAll == pc' = [l \in Loopers |-> IF l \in Asleep THEN "lock" ELSE pc[l]]

-----------------------------------------------------------------------------
(* run()                                                                   *)

RunEnter(l) ==
    /\ pc[l] = "out"
    /\ running_' = TRUE
    /\ Goto(l, "top")
    /\ UNCHANGED <<queuevars, stopping>>

RunTop(l) ==
    /\ pc[l] = "top" /\ running_
    /\ Goto(l, "lock")
    /\ UNCHANGED <<queuevars, running_, stopping>>

RunLeave(l) ==
    /\ pc[l] = "top" /\ ~running_
    /\ Goto(l, "out")
    /\ UNCHANGED <<queuevars, running_, stopping>>

\* Faulty variant: the queue is inspected without the mutex.
LockUnchecked(l) ==
    /\ pc[l] = "lock"
    /\ Goto(l, "pred")
    /\ UNCHANGED <<queuevars, running_, stopping>>

Lock(l) ==
    /\ pc[l] = "lock" /\ MutexFree
    /\ Goto(l, "pred")
    /\ UNCHANGED <<queuevars, running_, stopping>>

\* The predicate of wait(), evaluated with the mutex held.
Pred(l) ==
    /\ pc[l] = "pred"
    /\ Goto(l, IF tasks_ # <<>> \/ ~running_ THEN "take" ELSE "block")
    /\ UNCHANGED <<queuevars, running_, stopping>>

\* wait() releases the mutex and sleeps in one step; a notification sent
\* before this step is lost.
Sleep(l) ==
    /\ pc[l] = "block"
    /\ Goto(l, "asleep")
    /\ UNCHANGED <<queuevars, running_, stopping>>

SpuriousWake(l) ==
    /\ pc[l] = "asleep"
    /\ Goto(l, "lock")
    /\ UNCHANGED <<queuevars, running_, stopping>>

Break(l) ==
    /\ pc[l] = "take" /\ ~running_
    /\ Goto(l, "out")
    /\ UNCHANGED <<queuevars, running_, stopping>>

Take(l) ==
    /\ pc[l] = "take" /\ running_ /\ tasks_ # <<>>
    /\ hand' = [hand EXCEPT ![l] = Head(tasks_)]
    /\ tasks_' = Tail(tasks_)
    /\ Goto(l, "hold")
    /\ UNCHANGED <<posted, running_, stopping, started>>

\* task() is called, without the mutex: another looper may have taken a later
\* task since and called it already.
Begin(l) ==
    /\ pc[l] = "hold"
    /\ started' = Append(started, hand[l])
    /\ hand' = [hand EXCEPT ![l] = 0]
    /\ Goto(l, "exec")
    /\ UNCHANGED <<tasks_, posted, running_, stopping>>

\* Faulty variant: the flag is not tested again after the wait.
TakeUnchecked(l) ==
    /\ pc[l] = "take" /\ tasks_ = <<>>
    /\ Goto(l, "wild")
    /\ UNCHANGED <<queuevars, running_, stopping>>

\* The predicate held because running_ was false, and run() on another thread
\* has set it again since: the code pops a queue nobody checked.
TakeWild(l) ==
    /\ pc[l] = "take" /\ running_ /\ tasks_ = <<>>
    /\ Goto(l, "wild")
    /\ UNCHANGED <<queuevars, running_, stopping>>

\* task() returns.
Exec(l) ==
    /\ pc[l] = "exec"
    /\ Goto(l, "top")
    /\ UNCHANGED <<queuevars, running_, stopping>>

-----------------------------------------------------------------------------
(* post() and stop()                                                       *)

\* Faulty variant: the newest task is put in front.
PostFront ==
    /\ posted < MaxPosts
    /\ MutexFree
    /\ posted' = posted + 1
    /\ tasks_' = <<posted + 1>> \o tasks_
    /\ NotifyOne
    /\ UNCHANGED <<hand, running_, stopping, started>>

\* The lock guard covers the push and the notification.
Post ==
    /\ posted < MaxPosts
    /\ MutexFree
    /\ posted' = posted + 1
    /\ tasks_' = Append(tasks_, posted + 1)
    /\ NotifyOne
    /\ UNCHANGED <<hand, running_, stopping, started>>

StopStore(s) ==
    /\ s \notin stopping
    /\ running_' = FALSE
    /\ stopping' = stopping \cup {s}
    /\ UNCHANGED <<queuevars, pc>>

StopNotify(s) ==
    /\ s \in stopping
    /\ NotifyAll
    /\ stopping' = stopping \ {s}
    /\ UNCHANGED <<queuevars, running_>>

-----------------------------------------------------------------------------
\* The steps a thread inside run() takes by itself.
LoopStep(l) ==
    \/ RunTop(l) \/ RunLeave(l) \/ Lock(l) \/ Pred(l) \/ Sleep(l)
    \/ Break(l) \/ Take(l) \/ TakeWild(l) \/ Begin(l) \/ Exec(l)

Next ==
    \/ \E l \in Loopers : RunEnter(l) \/ SpuriousWake(l) \/ LoopStep(l)
    \/ Post
    \/ \E s \in Stoppers : StopStore(s) \/ StopNotify(s)

Spec == Init /\ [][Next]_elvars

\* A thread that is inside run() or stop() is scheduled; nobody has to call
\* run(), post() or stop(), and a wait may never end spuriously.
Fairness ==
    /\ \A l \in Loopers : WF_elvars(LoopStep(l))
    /\ \A s \in Stoppers : WF_elvars(StopNotify(s))

FairSpec == Spec /\ Fairness

-----------------------------------------------------------------------------
(* Properties                                                              *)

\* No lost wake-up on the posting side: while the loop is meant to run and
\* tasks are queued, some looper is on its way to the queue, so post() never
\* leaves a task behind with every looper asleep.
NoLostTask ==
    tasks_ # <<>> /\ running_ => \E l \in Loopers : pc[l] \in Awake

\* front() and pop() meet an empty queue only while another thread is inside
\* run() as well: with a single thread in run(), as in main.cpp, the checks
\* after the wait are enough, however posts and stops interleave.
SafePop ==
    [][\A l \in Loopers :
          pc[l] # "wild" /\ pc'[l] = "wild"
              => \E m \in Loopers \ {l} : pc[m] # "out"]_elvars

\* The tasks that left the queue are the oldest Taken ones.
Taken == posted - Len(tasks_)

\* The queue implements the abstract one: concurrent posts and loopers drop and
\* repeat nothing between post() and the call of the task, tasks are taken in
\* the order of the posts, and a looper calls its task (line 28) before it takes
\* another (line 25); in between, loopers may overtake each other.
Abstract == INSTANCE TaskQueue WITH taken <- Taken, Threads <- Loopers
Fifo == Abstract!Spec

\* Every posted task starts unless the loop is stopped or a looper has popped
\* an empty queue: under fair scheduling the notify_one of post() is enough,
\* spurious wake-ups are not needed.
TaskRuns ==
    \A k \in 1..MaxPosts :
        (posted >= k /\ running_)
            ~> \/ \E i \in 1..Len(started) : started[i] = k
               \/ ~running_
               \/ \E l \in Loopers : pc[l] = "wild"

\* stop() stops: after it has returned ("Stack manager stopped" is logged
\* then), the flag staying down, every looper leaves run().
StopEndsRun ==
    \A l \in Loopers :
        (~running_ /\ stopping = {}) ~> (pc[l] = "out" \/ running_)

-----------------------------------------------------------------------------
(* The inductive invariant behind NoLostTask and SafePop                   *)

MutualExclusion ==
    \A l, m \in Loopers : pc[l] \in Critical /\ pc[m] \in Critical => l = m

\* A looper that found the queue empty still holds the mutex post() needs.
EmptyWhileBlocking ==
    \A l \in Loopers : pc[l] \in {"block", "wild"} => tasks_ = <<>>

RunningHasLooper ==
    running_ => \E l \in Loopers : pc[l] # "out"

LoopInv ==
    /\ TypeOK
    /\ MutualExclusion
    /\ EmptyWhileBlocking
    /\ RunningHasLooper
    /\ NoLostTask
=============================================================================
