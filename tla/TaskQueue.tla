------------------------------ MODULE TaskQueue ------------------------------
(***************************************************************************)
(* What callers of EventLoop::post may rely on, and nothing about mutexes: *)
(* tasks are taken in the order in which they were posted, by threads that *)
(* each start what they took before they take again.  One thread starts    *)
(* tasks in the order of the posts; several may overtake each other between*)
(* taking a task and starting it.  A task is its number in the order of    *)
(* the posts.                                                              *)
(***************************************************************************)
EXTENDS Naturals, Sequences

CONSTANT Threads  \* the threads that take and start tasks

VARIABLES
    posted,       \* the number of tasks posted so far
    taken,        \* the number of tasks taken: the oldest ones
    hand,         \* the task each thread has taken and not started, or 0
    started       \* the tasks that have started, in the order of their starts

vars == <<posted, taken, hand, started>>

Init ==
    /\ posted = 0
    /\ taken = 0
    /\ hand = [t \in Threads |-> 0]
    /\ started = <<>>

\* A caller appends a task.
Post ==
    /\ posted' = posted + 1
    /\ UNCHANGED <<taken, hand, started>>

\* A thread with a free hand takes the oldest task that nobody has taken.
Take(t) ==
    /\ hand[t] = 0 /\ taken < posted
    /\ taken' = taken + 1
    /\ hand' = [hand EXCEPT ![t] = taken + 1]
    /\ UNCHANGED <<posted, started>>

\* The task in its hand begins to execute.
Start(t) ==
    /\ hand[t] # 0
    /\ started' = Append(started, hand[t])
    /\ hand' = [hand EXCEPT ![t] = 0]
    /\ UNCHANGED <<posted, taken>>

Next == Post \/ \E t \in Threads : Take(t) \/ Start(t)

Spec == Init /\ [][Next]_vars
=============================================================================
