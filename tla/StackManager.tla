---------------------------- MODULE StackManager ----------------------------
(***************************************************************************)
(* src/core/stack_manager.cpp, start() and stop() composed with EventLoop  *)
(* and with the thread that reads the interface.                           *)
(*                                                                         *)
(* start() runs the event loop on the CALLING thread and creates the       *)
(* receive thread only after the loop has ended.  stop() lowers the flag,  *)
(* joins the receive thread when there is one, then stops the loop.  The   *)
(* singleton is public, so any thread may call either, in any order.       *)
(***************************************************************************)
EXTENDS Naturals, Sequences

CONSTANTS
    Callers,          \* threads that call start() and stop()
    MaxFrames         \* bound on the frames delivered

ASSUME MaxFramesAssumption == MaxFrames \in Nat

VARIABLES
    tasks_, posted, running_, pc, hand, stopping, started,   \* the event loop
    stack_running_,   \* StackManager::running_
    receive_thread_,  \* "joinable" or "none"
    rpc,              \* where the receive thread is
    spc,              \* where each caller is in start() or stop()
    terminated        \* std::terminate was called

Loop == INSTANCE EventLoop WITH
            Loopers <- Callers, Stoppers <- Callers,
            MaxPosts <- MaxFrames

loopvars == <<tasks_, posted, running_, pc, hand, stopping, started>>
threadvars == <<receive_thread_, rpc>>
vars == <<loopvars, threadvars, stack_running_, spc, terminated>>

\* idle      in neither call           run       start(): flag set
\* looping   start(): inside run()     joinable  stop(): flag cleared
\* join      stop(): about to join     joining   stop(): inside join()
\* loopstop  stop(): line 55           notify    stop(): running_ stored
SPC == {"idle", "run", "looping", "joinable", "join", "joining", "loopstop", "notify"}

\* absent   no thread created yet      check  testing running_
\* read     inside receive_frame()     post   posting the frame
\* done     the thread function has returned
RPC == {"absent", "check", "read", "post", "done"}

TypeOK ==
    /\ Loop!TypeOK
    /\ stack_running_ \in BOOLEAN
    /\ receive_thread_ \in {"none", "joinable"}
    /\ rpc \in RPC
    /\ spc \in [Callers -> SPC]
    /\ terminated \in BOOLEAN

Init ==
    /\ Loop!Init
    /\ stack_running_ = FALSE
    /\ receive_thread_ = "none"
    /\ rpc = "absent"
    /\ spc = [c \in Callers |-> "idle"]
    /\ terminated = FALSE

Goto(c, place) == spc' = [spc EXCEPT ![c] = place]

Terminate == terminated' = TRUE /\ UNCHANGED <<receive_thread_, rpc, spc>>

-----------------------------------------------------------------------------
(* start()                                                                 *)

StartSet(c) ==
    /\ spc[c] = "idle"
    /\ stack_running_' = TRUE
    /\ Goto(c, "run")
    /\ UNCHANGED <<loopvars, threadvars, terminated>>

StartRun(c) ==
    /\ spc[c] = "run"
    /\ Loop!RunEnter(c)
    /\ Goto(c, "looping")
    /\ UNCHANGED <<threadvars, stack_running_, terminated>>

StartLoop(c) ==
    /\ spc[c] = "looping"
    /\ Loop!LoopStep(c)
    /\ UNCHANGED <<threadvars, stack_running_, spc, terminated>>

StartSpurious(c) ==
    /\ spc[c] = "looping"
    /\ Loop!SpuriousWake(c)
    /\ UNCHANGED <<threadvars, stack_running_, spc, terminated>>

\* run() has returned.  Assigning a thread to one that was never joined calls
\* std::terminate.
StartSpawn(c) ==
    /\ spc[c] = "looping" /\ pc[c] = "out"
    /\ \/ /\ receive_thread_ = "none"
          /\ receive_thread_' = "joinable"
          /\ rpc' = "check"
          /\ Goto(c, "idle")
          /\ UNCHANGED terminated
       \/ /\ receive_thread_ = "joinable"
          /\ Terminate
    /\ UNCHANGED <<loopvars, stack_running_>>

-----------------------------------------------------------------------------
(* The receive thread                                                      *)

\* Faulty variant: the flag is tested once, before the loop.
RecvCheckIgnored ==
    /\ rpc = "check"
    /\ rpc' = "read"
    /\ UNCHANGED <<loopvars, stack_running_, receive_thread_, spc, terminated>>

RecvCheck ==
    /\ rpc = "check"
    /\ rpc' = IF stack_running_ THEN "read" ELSE "done"
    /\ UNCHANGED <<loopvars, stack_running_, receive_thread_, spc, terminated>>

\* read() on the interface returns a frame: the task posted next captures it.
RecvFrame ==
    /\ rpc = "read"
    /\ posted < MaxFrames
    /\ rpc' = "post"
    /\ UNCHANGED <<loopvars, stack_running_, receive_thread_, spc, terminated>>

\* read() on the interface fails.
RecvNone ==
    /\ rpc = "read"
    /\ rpc' = "check"
    /\ UNCHANGED <<loopvars, stack_running_, receive_thread_, spc, terminated>>

RecvPost ==
    /\ rpc = "post"
    /\ Loop!Post
    /\ rpc' = "check"
    /\ UNCHANGED <<stack_running_, receive_thread_, spc, terminated>>

-----------------------------------------------------------------------------
(* stop()                                                                  *)

StopSet(c) ==
    /\ spc[c] = "idle"
    /\ stack_running_' = FALSE
    /\ Goto(c, "joinable")
    /\ UNCHANGED <<loopvars, threadvars, terminated>>

\* Faulty variant: the receive thread is left running.
StopSkipsJoin(c) ==
    /\ spc[c] = "joinable"
    /\ Goto(c, "loopstop")
    /\ UNCHANGED <<loopvars, threadvars, stack_running_, terminated>>

StopJoinable(c) ==
    /\ spc[c] = "joinable"
    /\ Goto(c, IF receive_thread_ = "joinable" THEN "join" ELSE "loopstop")
    /\ UNCHANGED <<loopvars, threadvars, stack_running_, terminated>>

\* join() throws, and nothing catches it, when another stop() has joined the
\* thread since the test or is joining it now.
StopJoin(c) ==
    /\ spc[c] = "join"
    /\ \/ /\ receive_thread_ = "joinable"
          /\ \A d \in Callers : spc[d] # "joining"
          /\ Goto(c, "joining")
          /\ UNCHANGED <<receive_thread_, rpc, terminated>>
       \/ /\ receive_thread_ = "none" \/ \E d \in Callers : spc[d] = "joining"
          /\ Terminate
    /\ UNCHANGED <<loopvars, stack_running_>>

\* Faulty variant: the thread is detached instead of joined.
StopDetached(c) ==
    /\ spc[c] = "joining"
    /\ receive_thread_' = "none"
    /\ Goto(c, "loopstop")
    /\ UNCHANGED <<loopvars, rpc, stack_running_, terminated>>

StopJoined(c) ==
    /\ spc[c] = "joining" /\ rpc = "done"
    /\ receive_thread_' = "none"
    /\ Goto(c, "loopstop")
    /\ UNCHANGED <<loopvars, rpc, stack_running_, terminated>>

StopLoop(c) ==
    /\ spc[c] = "loopstop"
    /\ Loop!StopStore(c)
    /\ Goto(c, "notify")
    /\ UNCHANGED <<threadvars, stack_running_, terminated>>

StopNotify(c) ==
    /\ spc[c] = "notify"
    /\ Loop!StopNotify(c)
    /\ Goto(c, "idle")
    /\ UNCHANGED <<threadvars, stack_running_, terminated>>

-----------------------------------------------------------------------------
\* What a thread inside start() or stop() does next by itself.
CallerStep(c) ==
    \/ StartRun(c) \/ StartLoop(c) \/ StartSpawn(c)
    \/ StopJoinable(c) \/ StopJoin(c) \/ StopJoined(c) \/ StopLoop(c) \/ StopNotify(c)

Arrival == RecvNone \/ RecvFrame

Next ==
    /\ ~terminated
    /\ \/ \E c \in Callers :
            StartSet(c) \/ StopSet(c) \/ StartSpurious(c) \/ CallerStep(c)
       \/ RecvCheck
       \/ RecvPost
       \/ Arrival

Spec == Init /\ [][Next]_vars

\* Threads are scheduled, and a thread that finds the loop's mutex free again
\* and again gets it in the end.  Nothing makes a blocking read() return.
Scheduling ==
    /\ \A c \in Callers : WF_vars(~terminated /\ CallerStep(c))
    /\ WF_vars(~terminated /\ RecvCheck)
    /\ SF_vars(~terminated /\ RecvPost)

FairSpec == Spec /\ Scheduling

\* The interface keeps delivering: a blocked read() returns in the end.
LiveInterfaceSpec == FairSpec /\ WF_vars(~terminated /\ Arrival)

-----------------------------------------------------------------------------
(* Properties                                                              *)

\* stop() never runs past a live receive thread: while the flag is down and
\* the thread may still read or post a frame, the stop() that lowered it is
\* still on its way to, or inside, join().
StopWaitsForReceiver ==
    (~stack_running_ /\ rpc \in {"read", "post"} /\ ~terminated)
        => \E c \in Callers : spc[c] \in {"joinable", "join", "joining"}

\* A live receive thread is always one the stack can still join: no
\* interleaving of start() and stop() leaves it without an owner.
ReceiverOwned == rpc \in {"check", "read", "post"} => receive_thread_ = "joinable"

\* The parts of the inductive invariant behind the two.
StackInv == TypeOK /\ ReceiverOwned /\ StopWaitsForReceiver

\* With an interface that keeps delivering, a stop() gets through join() and
\* returns, unless another start() raises the flag again, two start() calls
\* make the loop pop an empty queue, or the process dies.
StopReturns ==
    \A c \in Callers :
        (spc[c] = "joinable" /\ ~terminated)
            ~> \/ spc[c] = "idle" \/ stack_running_ \/ terminated
               \/ \E d \in Callers : pc[d] = "wild"
=============================================================================
