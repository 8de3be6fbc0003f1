------------------------------ MODULE Descriptors ------------------------------
(***************************************************************************)
(* The descriptor table of the process that runs the stack (external: the  *)
(* kernel).  A number names one open file or none; opening takes the       *)
(* lowest free number, and closing frees a number whatever it names.  A    *)
(* socket keeps the datagrams that have come until somebody reads them.    *)
(***************************************************************************)
EXTENDS Integers

CONSTANTS
    Threads,    \* threads that resolve names; each opens one socket
    MaxFd       \* size of the table

ASSUME DescriptorsAssumption ==
    /\ MaxFd \in Nat
    /\ Threads \cap {"free", "device", "config"} = {}

VARIABLES
    files,      \* number -> the file it names
    inbox,      \* socket -> threads whose answers wait in it
    limited     \* sockets on which a receive ends after a while

kernel == <<files, inbox, limited>>

Fd == 0..MaxFd-1
NoFd == -1

\* A TUN or TAP device, the socket that configures it, a resolver's socket.
Sockets == Threads \cup {"config"}
File == Sockets \cup {"device"}

KernelInit ==
    /\ files = [n \in Fd |-> "free"]
    /\ inbox = [s \in Sockets |-> {}]
    /\ limited = {}

\* file is opened as number n, the lowest that is free.
Opens(file, n) ==
    /\ files[n] = "free"
    /\ \A k \in Fd : files[k] = "free" => n <= k
    /\ files' = [files EXCEPT ![n] = file]
    /\ inbox' = [s \in Sockets |-> IF s = file THEN {} ELSE inbox[s]]
    /\ limited' = limited \ {file}

\* Datagrams still in it are lost (to somebody who waits on it, they come again).
Closes(n) ==
    /\ files' = [files EXCEPT ![n] = "free"]
    /\ inbox' = [s \in Sockets |-> IF s = files[n] THEN {} ELSE inbox[s]]
    /\ UNCHANGED limited

\* if (fd >= 0) close(fd)
ClosesHeld(n) == IF n >= 0 THEN Closes(n) ELSE UNCHANGED kernel

\* The type invariant of the table.
KernelTypeOK ==
    /\ files \in [Fd -> File \cup {"free"}]
    /\ inbox \in [Sockets -> SUBSET Threads]
    /\ limited \subseteq Sockets
================================================================================
