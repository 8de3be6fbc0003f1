---------------------------- MODULE NetworkInterface ----------------------------
(***************************************************************************)
(* src/interface/network_interface.cpp and non_blocking_interface.cpp: the *)
(* interface object StackManager::initialize() takes over, step by step    *)
(* through the calls that open and close descriptors.                      *)
(*                                                                         *)
(* TapInterface and NonBlockingInterface leave start() and shutdown()      *)
(* abstract, so their objects are of derived classes (external), which     *)
(* cannot reach the private fd_ either.                                    *)
(***************************************************************************)
EXTENDS Descriptors

CONSTANT Kinds    \* classes of interfaces the application makes

ASSUME KindsAssumption == Kinds \subseteq {"tun", "tap", "nonblocking"}

VARIABLES
    kind,       \* class of interface_, "none" before the first initialize()
    fd_,        \* of "interface", and of "local", init()'s own TunInterface
    sock,       \* local variable of the init() under way
    at,         \* where initialize() is
    works,      \* the last initialize() returned true
    dangling    \* history: an init() closed fd_ and kept its number

ifvars == <<kind, fd_, sock, at, works, dangling>>

IfaceInit ==
    /\ kind = "none"
    /\ fd_ = [o \in {"interface", "local"} |-> NoFd]
    /\ sock = NoFd
    /\ at = "idle"
    /\ works = FALSE /\ dangling = FALSE

\* NonBlockingInterface::init() initialises a TunInterface of its own.
Object == IF kind = "nonblocking" THEN "local" ELSE "interface"
Number == fd_[Object]

Goto(place) == at' = place /\ UNCHANGED works

\* init() is done and initialize() returns, unless there is a local object to
\* destroy.
Return(result) ==
    IF kind = "nonblocking" THEN Goto("destroy") ELSE at' = "idle" /\ works' = result

\* The interface of an earlier call is destroyed, which closes what it holds.
Initialize(k) ==
    /\ at = "idle"
    /\ ClosesHeld(fd_.interface)
    /\ kind' = k
    /\ fd_' = [fd_ EXCEPT !.interface = NoFd]
    /\ at' = "open" /\ works' = FALSE
    /\ UNCHANGED <<sock, dangling>>

OpenDevice ==
    /\ at = "open"
    /\ \/ \E n \in Fd : /\ Opens("device", n)
                        /\ fd_' = [fd_ EXCEPT ![Object] = n]
          /\ Goto("flags")
       \/ Return(FALSE) /\ UNCHANGED <<kernel, fd_>>
    /\ UNCHANGED <<kind, sock, dangling>>

\* ioctl(TUNSETIFF)
SetFlags ==
    /\ at = "flags"
    /\ \/ files[Number] = "device" /\ Goto("socket")
       \/ Goto("close")
    /\ UNCHANGED <<kernel, kind, fd_, sock, dangling>>

\* A TapInterface that cannot be configured keeps its device open.
ConfigSocket ==
    /\ at = "socket"
    /\ \/ \E n \in Fd : Opens("config", n) /\ sock' = n
          /\ Goto("configure")
       \/ /\ IF kind = "tap" THEN Return(FALSE) ELSE Goto("close")
          /\ UNCHANGED <<kernel, sock>>
    /\ UNCHANGED <<kind, fd_, dangling>>

\* The ioctls that set the address, the mask and the flags; each may fail.
Configure ==
    /\ at = "configure"
    /\ \/ files[sock] \in Sockets /\ Goto("finish")
       \/ Goto("undo")
    /\ UNCHANGED <<kernel, kind, fd_, sock, dangling>>

\* Faulty variant: a failing ioctl goes straight to close(fd_).
CloseConfigSkipped ==
    /\ at \in {"finish", "undo"}
    /\ IF at = "finish" THEN Closes(sock) ELSE UNCHANGED kernel
    /\ sock' = NoFd
    /\ CASE at = "finish"                -> Return(TRUE)
         [] at = "undo" /\ kind = "tap"  -> Return(FALSE)
         [] at = "undo" /\ kind # "tap"  -> Goto("close")
    /\ UNCHANGED <<kind, fd_, dangling>>

CloseConfig ==
    /\ at \in {"finish", "undo"}
    /\ Closes(sock)
    /\ sock' = NoFd
    /\ CASE at = "finish"                -> Return(TRUE)
         [] at = "undo" /\ kind = "tap"  -> Return(FALSE)
         [] at = "undo" /\ kind # "tap"  -> Goto("close")
    /\ UNCHANGED <<kind, fd_, dangling>>

\* A failed init() closes the device, but fd_ keeps the number.
CloseDevice ==
    /\ at = "close"
    /\ Closes(Number)
    /\ dangling' = TRUE
    /\ Return(FALSE)
    /\ UNCHANGED <<kind, fd_, sock>>

\* NonBlockingInterface::init(): its own fd_ is still -1, so fcntl() fails,
\* and the local TunInterface is destroyed whether its init() worked or not.
DestroyLocal ==
    /\ at = "destroy"
    /\ ClosesHeld(fd_.local)
    /\ fd_' = [fd_ EXCEPT !.local = NoFd]
    /\ at' = "idle" /\ works' = FALSE
    /\ UNCHANGED <<kind, sock, dangling>>

\* Faulty variant: shutdown() keeps the number as a failed init() does.
ShutdownKeeps ==
    /\ at = "idle" /\ kind = "tun" /\ fd_.interface >= 0
    /\ Closes(fd_.interface)
    /\ works' = FALSE
    /\ UNCHANGED <<kind, fd_, sock, at, dangling>>

\* TunInterface::shutdown()
Shutdown ==
    /\ at = "idle" /\ kind = "tun" /\ fd_.interface >= 0
    /\ Closes(fd_.interface)
    /\ fd_' = [fd_ EXCEPT !.interface = NoFd]
    /\ works' = FALSE
    /\ UNCHANGED <<kind, sock, at, dangling>>

\* receive_frame() reads from what fd_ names: a frame from the device, which
\* changes nothing here, or a datagram out of somebody's socket.
ReceiveFrame ==
    /\ at = "idle" /\ fd_.interface >= 0
    /\ LET file == files[fd_.interface] IN
        /\ file \in Sockets
        /\ \E s \in inbox[file] : inbox' = [inbox EXCEPT ![file] = @ \ {s}]
    /\ UNCHANGED <<files, limited, ifvars>>

InitStep ==
    \/ OpenDevice \/ SetFlags \/ ConfigSocket \/ Configure \/ CloseConfig
    \/ CloseDevice \/ DestroyLocal

IfaceNext ==
    \/ \E k \in Kinds : Initialize(k)
    \/ InitStep \/ Shutdown \/ ReceiveFrame

\* The type invariant of the interface's part of the state.
IfaceTypeOK ==
    /\ kind \in Kinds \cup {"none"}
    /\ fd_ \in [{"interface", "local"} -> Fd \cup {NoFd}]
    /\ sock \in Fd \cup {NoFd}
    /\ at \in {"idle", "open", "flags", "socket", "configure", "finish", "undo",
               "close", "destroy"}
    /\ works \in BOOLEAN /\ dangling \in BOOLEAN
=================================================================================
