------------------------------ MODULE StackProcess ------------------------------
(***************************************************************************)
(* One process: a thread that gives the stack one interface after another  *)
(* (StackManager::initialize()) beside threads that resolve names.  The    *)
(* two components know nothing of each other and share the descriptor      *)
(* table.                                                                  *)
(***************************************************************************)
EXTENDS NetworkInterface, DNSResolver

vars == <<kernel, ifvars, dnsvars>>

Init == KernelInit /\ IfaceInit /\ ResolverInit

Next ==
    \/ IfaceNext /\ UNCHANGED dnsvars
    \/ ResolverNext /\ UNCHANGED ifvars

Spec == Init /\ [][Next]_vars

\* A resolve() call is run on, and a receive with a limit ends.
FairSpec ==
    Spec /\ \A t \in Threads : WF_vars(CallStep(t) /\ UNCHANGED ifvars)

-----------------------------------------------------------------------------
(* Properties                                                              *)

HasSocket(t) == call[t].at \notin {"idle", "socket", "done"}

\* Every open file has a holder that will close it: none is lost on any of the
\* ways out of init() and resolve(), even after descriptors were closed that
\* belonged to somebody else.
NothingLeaks ==
    \A n \in Fd :
        /\ files[n] = "device" => n \in {fd_.interface, fd_.local}
        /\ files[n] = "config" => n = sock
        /\ \A t \in Threads : files[n] = t => HasSocket(t) /\ n = call[t].sock

\* Unless a failed init() has left its number in fd_, what each component holds
\* is its own: no order of opening and closing by the interface and the
\* resolver makes one use, or close, the other's file.  In particular an
\* initialize() that returned true leaves a descriptor of the device.
DescriptorsOwned ==
    ~dangling =>
        /\ \A t \in Threads : HasSocket(t) => files[call[t].sock] = t
        /\ \A o \in DOMAIN fd_ : fd_[o] >= 0 => files[fd_[o]] = "device"
        /\ sock >= 0 => files[sock] = "config"
        /\ works => fd_.interface >= 0

\* A resolve() returns although every answer may be lost, unless set_timeout()
\* fell between its two reads of timeout_, so that each half of the limit came
\* from a timeout that was not 0 and the whole is 0, or descriptors were mixed up.
ResolveReturns ==
    \A t \in Threads : call[t].at = "socket" ~>
        (call[t].at = "done" \/ (call[t].torn /\ 0 \notin Timeouts) \/ dangling)

\* The address a call returns is out of an answer to a query of its own.  The
\* code compares neither the id nor the sender: it is the socket, opened for one
\* call, that keeps the answers apart.  (An answer that comes late is taken for
\* the answer of the server asked next.)
AnswersAreOwn ==
    ~dangling => \A t \in Threads : call[t].at = "close" => call[t].result = t
================================================================================
