------------------------------ MODULE DNSResolver ------------------------------
(***************************************************************************)
(* src/core/dns_resolver.cpp: resolve() on a thread of its own for every   *)
(* call, while other threads call set_timeout().  The servers and the      *)
(* network are external: an answer may be lost, late, repeated or empty.   *)
(* The code writes no name into the query and reads the address from a     *)
(* fixed place of whatever datagram comes first, so a datagram is here no  *)
(* more than the thread whose query it answers.                            *)
(***************************************************************************)
EXTENDS Descriptors

CONSTANTS
    Timeouts,     \* milliseconds given to set_timeout(), the initial one too
    MaxServers    \* bound on dns_servers_.size()

ASSUME ResolverAssumption ==
    Timeouts \subseteq Nat /\ Timeouts # {} /\ MaxServers \in Nat

VARIABLES
    timeout_,
    dns_servers_,   \* their number: server s is the s-th that was added
    call,           \* the resolve() call of each thread
    queries         \* [by, via]: whose query was sent on which socket

dnsvars == <<timeout_, dns_servers_, call, queries>>

None == "free"

\* torn is a history variable: both halves of the limit came out 0.
NewCall ==
    [at |-> "idle", sock |-> NoFd, sec |-> 0, torn |-> FALSE,
     server |-> 1, on |-> None, result |-> None]

ResolverInit ==
    /\ timeout_ \in Timeouts
    /\ dns_servers_ = 0
    /\ call = [t \in Threads |-> NewCall]
    /\ queries = {}

\* add_dns_server() while a call iterates over the vector is undefined: the
\* application adds its servers before.
AddServer ==
    /\ \A t \in Threads : call[t].at = "idle"
    /\ dns_servers_ < MaxServers
    /\ dns_servers_' = dns_servers_ + 1
    /\ UNCHANGED <<kernel, timeout_, call, queries>>

SetTimeout(ms) ==
    /\ timeout_' = ms
    /\ UNCHANGED <<kernel, dns_servers_, call, queries>>

\* The call of t moves on; its fields change as update says.
Moves(t, from, update) == call[t].at = from /\ call' = [call EXCEPT ![t] = update]

Resolve(t) ==
    /\ Moves(t, "idle", [call[t] EXCEPT !.at = "socket"])
    /\ UNCHANGED <<kernel, timeout_, dns_servers_, queries>>

Socket(t) ==
    /\ \/ \E n \in Fd : /\ Opens(t, n)
                        /\ Moves(t, "socket", [call[t] EXCEPT !.at = "seconds", !.sock = n])
       \/ /\ Moves(t, "socket", [call[t] EXCEPT !.at = "done"])
          /\ UNCHANGED kernel
    /\ UNCHANGED <<timeout_, dns_servers_, queries>>

\* timeout_ is read twice: here, and for the microseconds.
ReadSeconds(t) ==
    /\ Moves(t, "seconds", [call[t] EXCEPT !.at = "limit", !.sec = timeout_ \div 1000])
    /\ UNCHANGED <<kernel, timeout_, dns_servers_, queries>>

Limited(t, usec) ==
    [call[t] EXCEPT !.at = "send", !.sec = 0, !.torn = (call[t].sec + usec = 0)]

\* Faulty variant: the microseconds are forgotten.
SetLimitSeconds(t) ==
    /\ Moves(t, "limit", Limited(t, timeout_ % 1000))
    /\ LET socket == {files[call[t].sock]} \cap Sockets IN
       limited' = IF call[t].sec > 0 THEN limited \cup socket ELSE limited \ socket
    /\ UNCHANGED <<files, inbox, timeout_, dns_servers_, queries>>

\* setsockopt(SO_RCVTIMEO): 0 and 0 means no limit.
SetLimit(t) ==
    /\ Moves(t, "limit", Limited(t, timeout_ % 1000))
    /\ LET socket == {files[call[t].sock]} \cap Sockets IN
       limited' = IF call[t].sec > 0 \/ timeout_ % 1000 > 0
                    THEN limited \cup socket ELSE limited \ socket
    /\ UNCHANGED <<files, inbox, timeout_, dns_servers_, queries>>

\* The loop goes on with the next server.
NextServer(t, from) ==
    Moves(t, from, [call[t] EXCEPT !.at = "send", !.server = @ + 1, !.on = None])

Send(t) ==
    /\ call[t].at = "send" /\ call[t].server <= dns_servers_
    /\ \/ /\ files[call[t].sock] \in Sockets
          /\ Moves(t, "send", [call[t] EXCEPT !.at = "receive"])
          /\ queries' = queries \cup {[by |-> t, via |-> files[call[t].sock]]}
       \/ NextServer(t, "send") /\ UNCHANGED queries
    /\ UNCHANGED <<kernel, timeout_, dns_servers_>>

\* recvfrom() looks the number up once and then waits on that file.
Receive(t) ==
    /\ call[t].at = "receive"
    /\ IF files[call[t].sock] \in Sockets
         THEN Moves(t, "receive", [call[t] EXCEPT !.at = "wait", !.on = files[call[t].sock]])
         ELSE NextServer(t, "receive")
    /\ UNCHANGED <<kernel, timeout_, dns_servers_, queries>>

\* The first datagram that is there, unless it is empty.
Answered(t) ==
    /\ call[t].at = "wait"
    /\ \E by \in inbox[call[t].on] :
          /\ inbox' = [inbox EXCEPT ![call[t].on] = @ \ {by}]
          /\ \/ Moves(t, "wait", [call[t] EXCEPT !.at = "close", !.on = None, !.result = by])
             \/ NextServer(t, "wait")
    /\ UNCHANGED <<files, limited, timeout_, dns_servers_, queries>>

TimedOut(t) ==
    /\ call[t].at = "wait" /\ inbox[call[t].on] = {} /\ call[t].on \in limited
    /\ NextServer(t, "wait")
    /\ UNCHANGED <<kernel, timeout_, dns_servers_, queries>>

\* The socket q was sent on is open, or somebody still waits on it.
Reaches(q) == (\E n \in Fd : files[n] = q.via) \/ \E t \in Threads : call[t].on = q.via

\* Both ways out of the loop close the socket.
Close(t) ==
    /\ call[t].at = "close" \/ (call[t].at = "send" /\ call[t].server > dns_servers_)
    /\ Closes(call[t].sock)
    /\ Moves(t, call[t].at, [NewCall EXCEPT !.at = "done"])
    /\ queries' = {q \in queries : Reaches(q)'}
    /\ UNCHANGED <<timeout_, dns_servers_>>

CallStep(t) ==
    \/ Socket(t) \/ ReadSeconds(t) \/ SetLimit(t) \/ Send(t) \/ Receive(t)
    \/ Answered(t) \/ TimedOut(t) \/ Close(t)

\* A server's answer to a query reaches the socket the query came from (external).
Arrives(q) ==
    /\ Reaches(q)
    /\ inbox' = [inbox EXCEPT ![q.via] = @ \cup {q.by}]
    /\ UNCHANGED <<files, limited, dnsvars>>

ResolverNext ==
    \/ AddServer
    \/ \E ms \in Timeouts : SetTimeout(ms)
    \/ \E t \in Threads : Resolve(t) \/ CallStep(t)
    \/ \E q \in queries : Arrives(q)

Call ==
    [at : {"idle", "socket", "seconds", "limit", "send", "receive", "wait",
           "close", "done"},
     sock : Fd \cup {NoFd}, sec : Nat, torn : BOOLEAN, server : Nat,
     on : Sockets \cup {None}, result : Threads \cup {None}]

\* The type invariant of the resolver's part of the state.
ResolverTypeOK ==
    /\ timeout_ \in Timeouts
    /\ dns_servers_ \in 0..MaxServers
    /\ call \in [Threads -> Call]
    /\ queries \subseteq [by : Threads, via : Sockets]
================================================================================
