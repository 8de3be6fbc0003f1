--------------------------- MODULE StackProcessProofs ---------------------------
(***************************************************************************)
(* Proofs that the interface and the resolver keep their descriptors apart *)
(* as long as no init() has failed after opening its device, that nothing  *)
(* is lost even then, and that answers do not cross from call to call, for *)
(* every number of threads, descriptors and servers.                       *)
(***************************************************************************)
EXTENDS StackProcess, TLAPS

Opened == {"flags", "socket", "configure", "finish", "undo", "close"}

\* Which numbers are held at which place of initialize().
Places ==
    /\ at \in {"idle", "open"} => fd_.local = NoFd
    /\ at = "open" => fd_.interface = NoFd
    /\ at \in Opened => kind # "none" /\ fd_[Object] \in Fd
    /\ kind = "nonblocking" => fd_.interface = NoFd
    /\ kind # "nonblocking" => fd_.local = NoFd /\ at # "destroy"
    /\ (sock \in Fd) <=> (at \in {"configure", "finish", "undo"})
    /\ at \in Opened \cup {"open", "destroy"} => ~works
    /\ kind = "none" => fd_.interface = NoFd /\ at = "idle"

\* A call that has opened its socket has its number, one that waits a file.
CallsHold ==
    \A t \in Threads : /\ HasSocket(t) => call[t].sock \in Fd
                       /\ call[t].at = "wait" => call[t].on \in Sockets

\* What is in a socket answers the queries of the thread that opened it.
OwnMail ==
    ~dangling =>
        /\ \A q \in queries : q.via = q.by
        /\ \A s \in Sockets : inbox[s] \subseteq {s}
        /\ \A t \in Threads : call[t].at = "wait" => call[t].on = t

Types == KernelTypeOK /\ IfaceTypeOK /\ ResolverTypeOK

Structure == Types /\ Places /\ CallsHold

Ownership == NothingLeaks /\ DescriptorsOwned /\ OwnMail /\ AnswersAreOwn

\* A call that only goes to another place.
LEMMA GoesTo ==
    ASSUME NEW c \in Call, NEW a \in {"socket", "limit", "receive", "done"}
    PROVE  LET u == [c EXCEPT !.at = a] IN
           u \in Call /\ u.at = a /\ u.sock = c.sock
  BY DEF Call

\* socket() has returned n.
LEMMA GetsSocket ==
    ASSUME NEW c \in Call, NEW n \in Fd
    PROVE  LET u == [c EXCEPT !.at = "seconds", !.sock = n] IN
           u \in Call /\ u.at = "seconds" /\ u.sock = n
  BY DEF Call

\* The seconds of the limit are read.
LEMMA GetsSeconds ==
    ASSUME NEW c \in Call, NEW n \in Nat
    PROVE  LET u == [c EXCEPT !.at = "limit", !.sec = n] IN
           u \in Call /\ u.at = "limit" /\ u.sock = c.sock
  BY DEF Call

\* The limit is set.
LEMMA GetsLimit ==
    ASSUME NEW c \in Call, NEW b \in BOOLEAN
    PROVE  LET u == [c EXCEPT !.at = "send", !.sec = 0, !.torn = b] IN
           u \in Call /\ u.at = "send" /\ u.sock = c.sock
  BY DEF Call

\* The loop comes to another server.
LEMMA GetsServer ==
    ASSUME NEW c \in Call, NEW n \in Nat
    PROVE  LET u == [c EXCEPT !.at = "send", !.server = n, !.on = None] IN
           u \in Call /\ u.at = "send" /\ u.sock = c.sock
  BY DEF Call

\* A call begins to wait on a file.
LEMMA GetsFile ==
    ASSUME NEW c \in Call, NEW file \in Sockets
    PROVE  LET u == [c EXCEPT !.at = "wait", !.on = file] IN
           u \in Call /\ u.at = "wait" /\ u.sock = c.sock /\ u.on = file
  BY DEF Call

\* A datagram has come: the answer to a query of by.
LEMMA GetsResult ==
    ASSUME NEW c \in Call, NEW by \in Threads
    PROVE  LET u == [c EXCEPT !.at = "close", !.on = None, !.result = by] IN
           u \in Call /\ u.at = "close" /\ u.sock = c.sock /\ u.result = by
  BY DEF Call

\* The call of t goes from one place to another, the others stay.
Goes(t, from, to) ==
    /\ call' \in [Threads -> Call]
    /\ \A s \in Threads : s # t => call'[s] = call[s]
    /\ call[t].at = from /\ call'[t].at = to

\* What each step of a call does to it: it moves on, and only it.
LEMMA CallSteps ==
    ASSUME Structure, NEW t \in Threads
    PROVE  /\ Resolve(t) => Goes(t, "idle", "socket")
           /\ Socket(t) => \/ /\ Goes(t, "socket", "done") /\ UNCHANGED kernel
                           \/ \E n \in Fd : /\ Goes(t, "socket", "seconds")
                                            /\ Opens(t, n) /\ call'[t].sock = n
           /\ ReadSeconds(t) => Goes(t, "seconds", "limit") /\ call'[t].sock = call[t].sock
           /\ SetLimit(t) => Goes(t, "limit", "send") /\ call'[t].sock = call[t].sock
           /\ Send(t) => /\ call'[t].sock = call[t].sock
                         /\ \/ Goes(t, "send", "send") /\ UNCHANGED queries
                            \/ /\ Goes(t, "send", "receive")
                               /\ files[call[t].sock] \in Sockets
                               /\ queries' = queries \cup
                                     {[by |-> t, via |-> files[call[t].sock]]}
           /\ Receive(t) => /\ call'[t].sock = call[t].sock
                            /\ \/ Goes(t, "receive", "send")
                               \/ /\ Goes(t, "receive", "wait")
                                  /\ call'[t].on \in Sockets
                                  /\ call'[t].on = files[call[t].sock]
           /\ Answered(t) => /\ call'[t].sock = call[t].sock
                             /\ \E by \in inbox[call[t].on] :
                                   /\ inbox' = [inbox EXCEPT ![call[t].on] = @ \ {by}]
                                   /\ \/ Goes(t, "wait", "send")
                                      \/ Goes(t, "wait", "close") /\ call'[t].result = by
           /\ TimedOut(t) => Goes(t, "wait", "send") /\ call'[t].sock = call[t].sock
           /\ Close(t) => /\ Goes(t, "close", "done") \/ Goes(t, "send", "done")
                          /\ Closes(call[t].sock)
<1>0. call \in [Threads -> Call] /\ call[t] \in Call
  BY DEF Structure, Types, ResolverTypeOK
<1>m. ASSUME NEW from, NEW u \in Call, Moves(t, from, u)
      PROVE  Goes(t, from, u.at) /\ call'[t] = u
  BY <1>0, <1>m DEF Moves, Goes
<1>n. ASSUME NEW from, NextServer(t, from)
      PROVE  Goes(t, from, "send") /\ call'[t].sock = call[t].sock
  <2>. DEFINE u == [call[t] EXCEPT !.at = "send", !.server = @ + 1, !.on = None]
  <2>1. call[t].server + 1 \in Nat
    BY <1>0 DEF Call
  <2>3. u \in Call /\ u.at = "send" /\ u.sock = call[t].sock
    BY <1>0, <2>1, GetsServer
  <2>2. Moves(t, from, u)
    BY <1>n DEF NextServer
  <2>. QED
    BY <2>2, <2>3, <1>m
<1>1. ASSUME Resolve(t) PROVE Goes(t, "idle", "socket")
  <2>. DEFINE u == [call[t] EXCEPT !.at = "socket"]
  <2>1. u \in Call /\ u.at = "socket"
    BY <1>0, GoesTo
  <2>2. Moves(t, "idle", u)
    BY <1>1 DEF Resolve
  <2>. QED
    BY <2>1, <2>2, <1>m
<1>2. ASSUME Socket(t)
      PROVE  \/ Goes(t, "socket", "done") /\ UNCHANGED kernel
             \/ \E n \in Fd : Goes(t, "socket", "seconds") /\ Opens(t, n) /\ call'[t].sock = n
  <2>1. ASSUME NEW n \in Fd, Opens(t, n),
               Moves(t, "socket", [call[t] EXCEPT !.at = "seconds", !.sock = n])
        PROVE  Goes(t, "socket", "seconds") /\ call'[t].sock = n
    <3>. DEFINE u == [call[t] EXCEPT !.at = "seconds", !.sock = n]
    <3>1. u \in Call /\ u.at = "seconds" /\ u.sock = n
      BY <1>0, GetsSocket
    <3>. QED
      BY <2>1, <3>1, <1>m
  <2>2. ASSUME Moves(t, "socket", [call[t] EXCEPT !.at = "done"]) PROVE Goes(t, "socket", "done")
    <3>. DEFINE u == [call[t] EXCEPT !.at = "done"]
    <3>1. u \in Call /\ u.at = "done"
      BY <1>0, GoesTo
    <3>. QED
      BY <2>2, <3>1, <1>m
  <2>. QED
    BY <1>2, <2>1, <2>2 DEF Socket
<1>3. ASSUME ReadSeconds(t) PROVE Goes(t, "seconds", "limit") /\ call'[t].sock = call[t].sock
  <2>. DEFINE sec == timeout_ \div 1000
  <2>. DEFINE u == [call[t] EXCEPT !.at = "limit", !.sec = sec]
  <2>1. sec \in Nat
    BY ResolverAssumption DEF Structure, Types, ResolverTypeOK
  <2>3. Moves(t, "seconds", u)
    BY <1>3 DEF ReadSeconds
  <2>. HIDE DEF sec
  <2>2. u \in Call /\ u.at = "limit" /\ u.sock = call[t].sock
    BY <1>0, <2>1, GetsSeconds
  <2>. HIDE DEF u
  <2>. QED
    BY <2>2, <2>3, <1>m
<1>4. ASSUME SetLimit(t) PROVE Goes(t, "limit", "send") /\ call'[t].sock = call[t].sock
  <2>. DEFINE Set(b) == [call[t] EXCEPT !.at = "send", !.sec = 0, !.torn = b]
  <2>. DEFINE torn == (call[t].sec + (timeout_ % 1000) = 0)
  <2>1. Moves(t, "limit", Set(torn))
    BY <1>4 DEF SetLimit, Limited
  <2>2. \A b \in BOOLEAN : Set(b) \in Call /\ Set(b).at = "send" /\ Set(b).sock = call[t].sock
    BY <1>0, GetsLimit
  <2>3. PICK b \in BOOLEAN : Moves(t, "limit", Set(b))
    <3>. HIDE DEF Set
    <3>1. CASE torn
      <4>1. torn = TRUE
        BY <3>1
      <4>. QED
        BY <2>1, <4>1
    <3>2. CASE ~torn
      <4>1. torn = FALSE
        BY <3>2
      <4>. QED
        BY <2>1, <4>1
    <3>. QED
      BY <3>1, <3>2
  <2>4. Set(b) \in Call /\ Set(b).at = "send" /\ Set(b).sock = call[t].sock
    BY <2>2
  <2>. HIDE DEF Set
  <2>. QED
    BY <2>3, <2>4, <1>m
<1>5. ASSUME Send(t)
      PROVE  /\ call'[t].sock = call[t].sock
             /\ \/ Goes(t, "send", "send") /\ UNCHANGED queries
                \/ /\ Goes(t, "send", "receive") /\ files[call[t].sock] \in Sockets
                   /\ queries' = queries \cup {[by |-> t, via |-> files[call[t].sock]]}
  <2>1. ASSUME Moves(t, "send", [call[t] EXCEPT !.at = "receive"])
        PROVE  Goes(t, "send", "receive") /\ call'[t].sock = call[t].sock
    <3>. DEFINE u == [call[t] EXCEPT !.at = "receive"]
    <3>1. u \in Call /\ u.at = "receive" /\ u.sock = call[t].sock
      BY <1>0, GoesTo
    <3>. QED
      BY <2>1, <3>1, <1>m
  <2>. QED
    BY <1>5, <2>1, <1>n DEF Send
<1>6. ASSUME Receive(t)
      PROVE  /\ call'[t].sock = call[t].sock
             /\ \/ Goes(t, "receive", "send")
                \/ /\ Goes(t, "receive", "wait") /\ call'[t].on \in Sockets
                   /\ call'[t].on = files[call[t].sock]
  <2>1. ASSUME files[call[t].sock] \in Sockets,
               Moves(t, "receive", [call[t] EXCEPT !.at = "wait", !.on = files[call[t].sock]])
        PROVE  /\ Goes(t, "receive", "wait") /\ call'[t].on = files[call[t].sock]
               /\ call'[t].sock = call[t].sock
    <3>. DEFINE u == [call[t] EXCEPT !.at = "wait", !.on = files[call[t].sock]]
    <3>1. u \in Call /\ u.at = "wait" /\ u.sock = call[t].sock /\ u.on = files[call[t].sock]
      BY <1>0, <2>1, GetsFile
    <3>. QED
      BY <2>1, <3>1, <1>m
  <2>. QED
    BY <1>6, <2>1, <1>n DEF Receive
<1>7. ASSUME Answered(t)
      PROVE  /\ call'[t].sock = call[t].sock
             /\ \E by \in inbox[call[t].on] :
                   /\ inbox' = [inbox EXCEPT ![call[t].on] = @ \ {by}]
                   /\ \/ Goes(t, "wait", "send")
                      \/ Goes(t, "wait", "close") /\ call'[t].result = by
  <2>1. call[t].at = "wait" => call[t].on \in Sockets
    BY DEF Structure, CallsHold
  <2>2. ASSUME NEW by \in inbox[call[t].on], call[t].at = "wait",
               Moves(t, "wait", [call[t] EXCEPT !.at = "close", !.on = None, !.result = by])
        PROVE  /\ Goes(t, "wait", "close") /\ call'[t].result = by
               /\ call'[t].sock = call[t].sock
    <3>1. by \in Threads
      BY <2>1, <2>2 DEF Structure, Types, KernelTypeOK
    <3>. DEFINE u == [call[t] EXCEPT !.at = "close", !.on = None, !.result = by]
    <3>2. u \in Call /\ u.at = "close" /\ u.sock = call[t].sock /\ u.result = by
      BY <1>0, <3>1, GetsResult
    <3>3. Moves(t, "wait", u)
      BY <2>2
    <3>. HIDE DEF u
    <3>. QED
      BY <3>2, <3>3, <1>m
  <2>. QED
    BY <1>7, <2>2, <1>n DEF Answered
<1>8. ASSUME TimedOut(t) PROVE Goes(t, "wait", "send") /\ call'[t].sock = call[t].sock
  BY <1>8, <1>n DEF TimedOut
<1>9. ASSUME Close(t)
      PROVE  (Goes(t, "close", "done") \/ Goes(t, "send", "done")) /\ Closes(call[t].sock)
  <2>. DEFINE u == [NewCall EXCEPT !.at = "done"]
  <2>1. u \in Call /\ u.at = "done"
    BY DEF NewCall, Call
  <2>. QED
    BY <1>9, <2>1, <1>m DEF Close
<1>. QED
  BY <1>1, <1>2, <1>3, <1>4, <1>5, <1>6, <1>7, <1>8, <1>9

\* What each place of the code holds.
LEMMA StructureStep == Structure /\ [Next]_vars => Structure'
<1> SUFFICES ASSUME Structure, [Next]_vars PROVE Structure'
  OBVIOUS
<1> USE DescriptorsAssumption, KindsAssumption, ResolverAssumption
<1>1. ASSUME IfaceNext, UNCHANGED dnsvars PROVE Structure'
  <2>0. ResolverTypeOK' /\ CallsHold'
    BY <1>1 DEF dnsvars, ResolverTypeOK, CallsHold, HasSocket, Structure, Types
  <2>. USE <1>1, <2>0 DEF Structure, Types, KernelTypeOK, IfaceTypeOK, Places, Opened, Object,
  Number, Fd, NoFd, File, Sockets, kernel, ifvars
  <2>. HIDE DEF ResolverTypeOK
  <2>1. ASSUME NEW k \in Kinds, Initialize(k) PROVE Structure'
    BY <2>1 DEF Initialize, ClosesHeld, Closes
  <2>2. CASE OpenDevice
    <3>1. KernelTypeOK'
      BY <2>2 DEF OpenDevice, Opens
    <3>2. fd_' \in [{"interface", "local"} -> Fd \cup {NoFd}]
      BY <2>2 DEF OpenDevice
    <3>3. IfaceTypeOK'
      BY <2>2, <3>2 DEF OpenDevice, Goto, Return
    <3>4. Places'
      BY <2>2 DEF OpenDevice, Goto, Return
    <3>. QED
      BY <3>1, <3>3, <3>4
  <2>3. CASE SetFlags
    BY <2>3 DEF SetFlags, Goto
  <2>4. CASE ConfigSocket
    <3>1. KernelTypeOK'
      BY <2>4 DEF ConfigSocket, Opens, Goto, Return
    <3>2. IfaceTypeOK'
      BY <2>4 DEF ConfigSocket, Opens, Goto, Return
    <3>3. Places'
      BY <2>4 DEF ConfigSocket, Opens, Goto, Return
    <3>. QED
      BY <3>1, <3>2, <3>3
  <2>5. CASE Configure
    BY <2>5 DEF Configure, Goto
  <2>6. CASE CloseConfig
    <3>1. KernelTypeOK'
      BY <2>6 DEF CloseConfig, Closes
    <3>2. IfaceTypeOK'
      BY <2>6 DEF CloseConfig, Goto, Return
    <3>3. CASE at = "finish"
      BY <2>6, <3>1, <3>2, <3>3 DEF CloseConfig, Goto, Return
    <3>4. CASE at = "undo" /\ kind = "tap"
      BY <2>6, <3>1, <3>2, <3>4 DEF CloseConfig, Goto, Return
    <3>5. CASE at = "undo" /\ kind # "tap"
      BY <2>6, <3>1, <3>2, <3>5 DEF CloseConfig, Goto, Return
    <3>. QED
      BY <2>6, <3>3, <3>4, <3>5 DEF CloseConfig
  <2>7. CASE CloseDevice
    BY <2>7 DEF CloseDevice, Closes, Goto, Return
  <2>8. CASE DestroyLocal
    <3>1. KernelTypeOK'
      BY <2>8 DEF DestroyLocal, ClosesHeld, Closes
    <3>2. IfaceTypeOK'
      BY <2>8 DEF DestroyLocal
    <3>3. Places'
      BY <2>8 DEF DestroyLocal
    <3>. QED
      BY <3>1, <3>2, <3>3
  <2>9. CASE Shutdown
    BY <2>9 DEF Shutdown, Closes
  <2>10. CASE ReceiveFrame
    BY <2>10 DEF ReceiveFrame
  <2>. QED
    BY <1>1, <2>1, <2>2, <2>3, <2>4, <2>5, <2>6, <2>7, <2>8, <2>9, <2>10 DEF IfaceNext, InitStep
<1>2. ASSUME ResolverNext, UNCHANGED ifvars PROVE Structure'
  <2>0. Places' /\ IfaceTypeOK'
    BY <1>2 DEF ifvars, Places, Object, Opened, IfaceTypeOK, Structure, Types
  <2>. USE <2>0 DEF Structure, Types, KernelTypeOK, ResolverTypeOK, CallsHold, HasSocket, kernel
  <2>1. CASE AddServer
    BY <2>1 DEF AddServer
  <2>2. ASSUME NEW ms \in Timeouts, SetTimeout(ms) PROVE Structure'
    BY <2>2 DEF SetTimeout
  <2>3. ASSUME NEW q \in queries, Arrives(q) PROVE Structure'
    BY <2>3 DEF Arrives, dnsvars, Sockets
  <2>4. ASSUME NEW t \in Threads, Resolve(t) PROVE Structure'
    <3>1. KernelTypeOK'
      BY <2>4, CallSteps DEF Resolve
    <3>2. ResolverTypeOK'
      BY <2>4, CallSteps DEF Goes, Resolve
    <3>3. CallsHold'
      BY <2>4, CallSteps DEF Goes
    <3>. QED
      BY <3>1, <3>2, <3>3
  <2>5. ASSUME NEW t \in Threads, Socket(t) PROVE Structure'
    <3>1. KernelTypeOK'
      <4>1. CASE UNCHANGED kernel
        BY <4>1
      <4>2. ASSUME NEW n \in Fd, Opens(t, n) PROVE KernelTypeOK'
        BY <4>2 DEF Opens, Sockets, File
      <4>. QED
        BY <2>5, <4>1, <4>2 DEF Socket
    <3>2. ResolverTypeOK'
      BY <2>5, CallSteps DEF Goes, Socket
    <3>3. CallsHold'
      BY <2>5, CallSteps DEF Goes
    <3>. QED
      BY <3>1, <3>2, <3>3
  <2>6. ASSUME NEW t \in Threads, ReadSeconds(t) PROVE Structure'
    <3>1. KernelTypeOK'
      BY <2>6, CallSteps DEF ReadSeconds
    <3>2. ResolverTypeOK'
      <4>1. UNCHANGED <<timeout_, dns_servers_, queries>>
        BY <2>6 DEF ReadSeconds
      <4>. QED
        BY <2>6, <4>1, CallSteps DEF Goes
    <3>3. CallsHold'
      BY <2>6, CallSteps DEF Goes
    <3>. QED
      BY <3>1, <3>2, <3>3
  <2>7. ASSUME NEW t \in Threads, SetLimit(t) PROVE Structure'
    <3>1. KernelTypeOK'
      BY <2>7, CallSteps DEF SetLimit, Sockets
    <3>2. ResolverTypeOK'
      <4>1. UNCHANGED <<timeout_, dns_servers_, queries>>
        BY <2>7 DEF SetLimit
      <4>. QED
        BY <2>7, <4>1, CallSteps DEF Goes
    <3>3. CallsHold'
      BY <2>7, CallSteps DEF Goes
    <3>. QED
      BY <3>1, <3>2, <3>3
  <2>8. ASSUME NEW t \in Threads, Send(t) PROVE Structure'
    <3>1. KernelTypeOK'
      BY <2>8, CallSteps DEF Send
    <3>2. ResolverTypeOK'
      BY <2>8, CallSteps DEF Goes, Send
    <3>3. CallsHold'
      BY <2>8, CallSteps DEF Goes
    <3>. QED
      BY <3>1, <3>2, <3>3
  <2>9. ASSUME NEW t \in Threads, Receive(t) PROVE Structure'
    <3>1. KernelTypeOK'
      BY <2>9, CallSteps DEF Receive
    <3>2. ResolverTypeOK'
      BY <2>9, CallSteps DEF Goes, Receive
    <3>3. CallsHold'
      BY <2>9, CallSteps DEF Goes
    <3>. QED
      BY <3>1, <3>2, <3>3
  <2>10. ASSUME NEW t \in Threads, Answered(t) PROVE Structure'
    <3>1. KernelTypeOK'
      <4>1. PICK by \in inbox[call[t].on] : inbox' = [inbox EXCEPT ![call[t].on] = @ \ {by}]
        BY <2>10 DEF Answered
      <4>2. inbox' \in [Sockets -> SUBSET Threads]
        BY <4>1
      <4>. QED
        BY <2>10, <4>2 DEF Answered
    <3>2. ResolverTypeOK'
      BY <2>10, CallSteps DEF Goes, Answered
    <3>3. CallsHold'
      BY <2>10, CallSteps DEF Goes
    <3>. QED
      BY <3>1, <3>2, <3>3
  <2>11. ASSUME NEW t \in Threads, TimedOut(t) PROVE Structure'
    <3>1. KernelTypeOK'
      BY <2>11, CallSteps DEF TimedOut
    <3>2. ResolverTypeOK'
      BY <2>11, CallSteps DEF Goes, TimedOut
    <3>3. CallsHold'
      BY <2>11, CallSteps DEF Goes
    <3>. QED
      BY <3>1, <3>2, <3>3
  <2>12. ASSUME NEW t \in Threads, Close(t) PROVE Structure'
    <3>1. KernelTypeOK'
      BY <2>12, CallSteps DEF Close, Closes, File
    <3>2. ResolverTypeOK'
      BY <2>12, CallSteps DEF Goes, Close, Closes, File
    <3>3. CallsHold'
      BY <2>12, CallSteps DEF Goes
    <3>. QED
      BY <3>1, <3>2, <3>3
  <2>. QED
    BY <1>2, <2>1, <2>2, <2>3, <2>4, <2>5, <2>6, <2>7, <2>8, <2>9, <2>10, <2>11,
       <2>12 DEF ResolverNext, CallStep
<1>3. CASE UNCHANGED vars
  BY <1>3 DEF vars, ifvars, dnsvars, kernel, Structure, Types, KernelTypeOK, IfaceTypeOK,
       ResolverTypeOK, Places, Object, CallsHold, HasSocket
<1>. QED
  BY <1>1, <1>2, <1>3 DEF Next

\* The parts of DescriptorsOwned.
CallsOwn == ~dangling => \A t \in Threads : HasSocket(t) => files[call[t].sock] = t
ObjectsOwn ==
    ~dangling => /\ fd_["interface"] >= 0 => files[fd_["interface"]] = "device"
                 /\ fd_["local"] >= 0 => files[fd_["local"]] = "device"
ConfigOwns == ~dangling => (sock >= 0 => files[sock] = "config")
WorksHolds == ~dangling => (works => fd_["interface"] >= 0)

\* A step of a call that opens and closes nothing.
LEMMA Quiet ==
    ASSUME Ownership, NEW t \in Threads, UNCHANGED <<files, ifvars>>,
           \A s \in Threads : s # t => call'[s] = call[s],
           HasSocket(t), HasSocket(t)', call'[t].sock = call[t].sock
    PROVE  NothingLeaks' /\ DescriptorsOwned'
<1>1. \A s \in Threads : HasSocket(s)' = HasSocket(s) /\ call'[s].sock = call[s].sock
  BY DEF HasSocket
<1>. QED
  BY <1>1 DEF Ownership, NothingLeaks, DescriptorsOwned, ifvars

\* Who holds what.
LEMMA OwnershipStep == Structure /\ Ownership /\ [Next]_vars => Ownership'
<1> SUFFICES ASSUME Structure, Ownership, [Next]_vars PROVE Ownership'
  OBVIOUS
<1> USE DescriptorsAssumption, KindsAssumption, ResolverAssumption
<1>0. /\ Structure' /\ CallsOwn /\ ObjectsOwn /\ ConfigOwns /\ WorksHolds
      /\ CallsOwn' /\ ObjectsOwn' /\ ConfigOwns' /\ WorksHolds' => DescriptorsOwned'
  <2>1. Structure' /\ fd_ \in [{"interface", "local"} -> Fd \cup {NoFd}]
        /\ fd_' \in [{"interface", "local"} -> Fd \cup {NoFd}]
    BY StructureStep DEF Structure, Types, IfaceTypeOK
  <2>2. CallsOwn /\ ObjectsOwn /\ ConfigOwns /\ WorksHolds
    BY <2>1 DEF Ownership, DescriptorsOwned, CallsOwn, ObjectsOwn, ConfigOwns, WorksHolds
  <2>3. CallsOwn' /\ ObjectsOwn' /\ ConfigOwns' /\ WorksHolds' => DescriptorsOwned'
    BY <2>1 DEF DescriptorsOwned, CallsOwn, ObjectsOwn, ConfigOwns, WorksHolds
  <2>. QED
    BY <2>1, <2>2, <2>3
<1>1. ASSUME IfaceNext, UNCHANGED dnsvars PROVE Ownership'
  <2>0. /\ KernelTypeOK /\ IfaceTypeOK /\ Places /\ CallsHold
        /\ \A t \in Threads : HasSocket(t)' = HasSocket(t)
    BY <1>1 DEF Structure, Types, HasSocket, dnsvars
  <2>. USE <1>0, <2>0, <1>1 DEF KernelTypeOK, IfaceTypeOK, Places, Opened, Object, Number, Fd,
  NoFd, File, Sockets, kernel, ifvars, dnsvars

  <2>1. ASSUME NEW k \in Kinds, Initialize(k) PROVE Ownership'
    <3>1. NothingLeaks'
      BY <2>1 DEF Initialize, ClosesHeld, Closes, NothingLeaks, Ownership
    <3>2. CallsOwn'
      BY <2>1 DEF Initialize, ClosesHeld, Closes, CallsOwn, ObjectsOwn, ConfigOwns, CallsHold
    <3>3. ObjectsOwn'
      BY <2>1 DEF Initialize, ClosesHeld, Closes, ObjectsOwn, ConfigOwns
    <3>4. ConfigOwns'
      BY <2>1 DEF Initialize, ClosesHeld, Closes, ObjectsOwn, ConfigOwns
    <3>5. WorksHolds'
      BY <2>1 DEF Initialize, ClosesHeld, Closes, WorksHolds
    <3>6. OwnMail' /\ AnswersAreOwn'
      BY <2>1 DEF Initialize, ClosesHeld, Closes, OwnMail, AnswersAreOwn, Ownership
    <3>. QED
      BY <3>1, <3>2, <3>3, <3>4, <3>5, <3>6 DEF Ownership
  <2>2. ASSUME OpenDevice PROVE Ownership'
    <3>1. NothingLeaks'
      BY <2>2 DEF OpenDevice, Opens, Goto, Return, NothingLeaks, Ownership
    <3>2. CallsOwn'
      BY <2>2 DEF OpenDevice, Opens, Goto, Return, CallsOwn, ObjectsOwn, ConfigOwns, CallsHold
    <3>3. ObjectsOwn'
      BY <2>2 DEF OpenDevice, Opens, Goto, Return, ObjectsOwn, ConfigOwns
    <3>4. ConfigOwns'
      BY <2>2 DEF OpenDevice, Opens, Goto, Return, ObjectsOwn, ConfigOwns
    <3>5. WorksHolds'
      BY <2>2 DEF OpenDevice, Opens, Goto, Return, WorksHolds
    <3>6. OwnMail' /\ AnswersAreOwn'
      BY <2>2 DEF OpenDevice, Opens, Goto, Return, OwnMail, AnswersAreOwn, Ownership
    <3>. QED
      BY <3>1, <3>2, <3>3, <3>4, <3>5, <3>6 DEF Ownership
  <2>3. ASSUME SetFlags PROVE Ownership'
    <3>1. NothingLeaks'
      BY <2>3 DEF SetFlags, Goto, NothingLeaks, Ownership
    <3>2. CallsOwn'
      BY <2>3 DEF SetFlags, Goto, CallsOwn, ObjectsOwn, ConfigOwns, CallsHold
    <3>3. ObjectsOwn'
      BY <2>3 DEF SetFlags, Goto, ObjectsOwn, ConfigOwns
    <3>4. ConfigOwns'
      BY <2>3 DEF SetFlags, Goto, ObjectsOwn, ConfigOwns
    <3>5. WorksHolds'
      BY <2>3 DEF SetFlags, Goto, WorksHolds
    <3>6. OwnMail' /\ AnswersAreOwn'
      BY <2>3 DEF SetFlags, Goto, OwnMail, AnswersAreOwn, Ownership
    <3>. QED
      BY <3>1, <3>2, <3>3, <3>4, <3>5, <3>6 DEF Ownership
  <2>4. ASSUME ConfigSocket PROVE Ownership'
    <3>1. NothingLeaks'
      BY <2>4 DEF ConfigSocket, Opens, Goto, Return, NothingLeaks, Ownership
    <3>2. CallsOwn'
      BY <2>4 DEF ConfigSocket, Opens, Goto, Return, CallsOwn, ObjectsOwn, ConfigOwns, CallsHold
    <3>3. ObjectsOwn'
      BY <2>4 DEF ConfigSocket, Opens, Goto, Return, ObjectsOwn, ConfigOwns
    <3>4. ConfigOwns'
      BY <2>4 DEF ConfigSocket, Opens, Goto, Return, ObjectsOwn, ConfigOwns
    <3>5. WorksHolds'
      BY <2>4 DEF ConfigSocket, Opens, Goto, Return, WorksHolds
    <3>6. OwnMail' /\ AnswersAreOwn'
      BY <2>4 DEF ConfigSocket, Opens, Goto, Return, OwnMail, AnswersAreOwn, Ownership
    <3>. QED
      BY <3>1, <3>2, <3>3, <3>4, <3>5, <3>6 DEF Ownership
  <2>5. ASSUME Configure PROVE Ownership'
    <3>1. NothingLeaks'
      BY <2>5 DEF Configure, Goto, NothingLeaks, Ownership
    <3>2. CallsOwn'
      BY <2>5 DEF Configure, Goto, CallsOwn, ObjectsOwn, ConfigOwns, CallsHold
    <3>3. ObjectsOwn'
      BY <2>5 DEF Configure, Goto, ObjectsOwn, ConfigOwns
    <3>4. ConfigOwns'
      BY <2>5 DEF Configure, Goto, ObjectsOwn, ConfigOwns
    <3>5. WorksHolds'
      BY <2>5 DEF Configure, Goto, WorksHolds
    <3>6. OwnMail' /\ AnswersAreOwn'
      BY <2>5 DEF Configure, Goto, OwnMail, AnswersAreOwn, Ownership
    <3>. QED
      BY <3>1, <3>2, <3>3, <3>4, <3>5, <3>6 DEF Ownership
  <2>6. ASSUME CloseConfig PROVE Ownership'
    <3>1. NothingLeaks'
      BY <2>6 DEF CloseConfig, Closes, Goto, Return, NothingLeaks, Ownership
    <3>2. CallsOwn'
      BY <2>6 DEF CloseConfig, Closes, Goto, Return, CallsOwn, ObjectsOwn, ConfigOwns, CallsHold
    <3>3. ObjectsOwn'
      BY <2>6 DEF CloseConfig, Closes, Goto, Return, ObjectsOwn, ConfigOwns
    <3>4. ConfigOwns'
      BY <2>6 DEF CloseConfig, Closes, Goto, Return, ObjectsOwn, ConfigOwns
    <3>5. WorksHolds'
      <4>1. CASE at = "finish"
        <5>1. CASE kind = "nonblocking"
          BY <2>6, <4>1, <5>1 DEF CloseConfig, Return, Goto, WorksHolds
        <5>2. CASE kind # "nonblocking"
          <6>1. fd_["interface"] \in Fd /\ fd_' = fd_
            BY <2>6, <4>1, <5>2 DEF CloseConfig
          <6>. QED
            BY <6>1 DEF WorksHolds
        <5>. QED
          BY <5>1, <5>2
      <4>2. CASE at = "undo"
        BY <2>6, <4>2 DEF CloseConfig, Return, Goto, WorksHolds
      <4>. QED
        BY <2>6, <4>1, <4>2 DEF CloseConfig
    <3>6. OwnMail' /\ AnswersAreOwn'
      BY <2>6 DEF CloseConfig, Closes, Goto, Return, OwnMail, AnswersAreOwn, Ownership
    <3>. QED
      BY <3>1, <3>2, <3>3, <3>4, <3>5, <3>6 DEF Ownership
  <2>7. ASSUME CloseDevice PROVE Ownership'
    <3>1. NothingLeaks'
      BY <2>7 DEF CloseDevice, Closes, Goto, Return, NothingLeaks, Ownership
    <3>2. CallsOwn'
      BY <2>7 DEF CloseDevice, Closes, Goto, Return, CallsOwn, ObjectsOwn, ConfigOwns, CallsHold
    <3>3. ObjectsOwn'
      BY <2>7 DEF CloseDevice, Closes, Goto, Return, ObjectsOwn, ConfigOwns
    <3>4. ConfigOwns'
      BY <2>7 DEF CloseDevice, Closes, Goto, Return, ObjectsOwn, ConfigOwns
    <3>5. WorksHolds'
      BY <2>7 DEF CloseDevice, Closes, Goto, Return, WorksHolds
    <3>6. OwnMail' /\ AnswersAreOwn'
      BY <2>7 DEF CloseDevice, Closes, Goto, Return, OwnMail, AnswersAreOwn, Ownership
    <3>. QED
      BY <3>1, <3>2, <3>3, <3>4, <3>5, <3>6 DEF Ownership
  <2>8. ASSUME DestroyLocal PROVE Ownership'
    <3>1. NothingLeaks'
      BY <2>8 DEF DestroyLocal, ClosesHeld, Closes, NothingLeaks, Ownership
    <3>2. CallsOwn'
      BY <2>8 DEF DestroyLocal, ClosesHeld, Closes, CallsOwn, ObjectsOwn, ConfigOwns, CallsHold
    <3>3. ObjectsOwn'
      BY <2>8 DEF DestroyLocal, ClosesHeld, Closes, ObjectsOwn, ConfigOwns
    <3>4. ConfigOwns'
      BY <2>8 DEF DestroyLocal, ClosesHeld, Closes, ObjectsOwn, ConfigOwns
    <3>5. WorksHolds'
      BY <2>8 DEF DestroyLocal, ClosesHeld, Closes, WorksHolds
    <3>6. OwnMail' /\ AnswersAreOwn'
      BY <2>8 DEF DestroyLocal, ClosesHeld, Closes, OwnMail, AnswersAreOwn, Ownership
    <3>. QED
      BY <3>1, <3>2, <3>3, <3>4, <3>5, <3>6 DEF Ownership
  <2>9. ASSUME Shutdown PROVE Ownership'
    <3>1. NothingLeaks'
      BY <2>9 DEF Shutdown, Closes, NothingLeaks, Ownership
    <3>2. CallsOwn'
      BY <2>9 DEF Shutdown, Closes, CallsOwn, ObjectsOwn, ConfigOwns, CallsHold
    <3>3. ObjectsOwn'
      BY <2>9 DEF Shutdown, Closes, ObjectsOwn, ConfigOwns
    <3>4. ConfigOwns'
      BY <2>9 DEF Shutdown, Closes, ObjectsOwn, ConfigOwns
    <3>5. WorksHolds'
      BY <2>9 DEF Shutdown, Closes, WorksHolds
    <3>6. OwnMail' /\ AnswersAreOwn'
      BY <2>9 DEF Shutdown, Closes, OwnMail, AnswersAreOwn, Ownership
    <3>. QED
      BY <3>1, <3>2, <3>3, <3>4, <3>5, <3>6 DEF Ownership
  <2>10. ASSUME ReceiveFrame PROVE Ownership'
    <3>1. NothingLeaks'
      BY <2>10 DEF ReceiveFrame, NothingLeaks, Ownership
    <3>2. CallsOwn'
      BY <2>10 DEF ReceiveFrame, CallsOwn, ObjectsOwn, ConfigOwns, CallsHold
    <3>3. ObjectsOwn'
      BY <2>10 DEF ReceiveFrame, ObjectsOwn, ConfigOwns
    <3>4. ConfigOwns'
      BY <2>10 DEF ReceiveFrame, ObjectsOwn, ConfigOwns
    <3>5. WorksHolds'
      BY <2>10 DEF ReceiveFrame, WorksHolds
    <3>6. OwnMail' /\ AnswersAreOwn'
      BY <2>10 DEF ReceiveFrame, OwnMail, AnswersAreOwn, Ownership
    <3>. QED
      BY <3>1, <3>2, <3>3, <3>4, <3>5, <3>6 DEF Ownership
  <2>. QED
    BY <1>1, <2>1, <2>2, <2>3, <2>4, <2>5, <2>6, <2>7, <2>8, <2>9, <2>10 DEF IfaceNext, InitStep
<1>2. ASSUME ResolverNext, UNCHANGED ifvars PROVE Ownership'
  <2>. USE <1>2 DEF ifvars, Ownership
  <2>1. CASE AddServer
    BY <2>1 DEF AddServer, kernel, NothingLeaks, DescriptorsOwned, OwnMail, AnswersAreOwn,
       HasSocket
  <2>2. ASSUME NEW ms \in Timeouts, SetTimeout(ms) PROVE Ownership'
    BY <2>2 DEF SetTimeout, kernel, NothingLeaks, DescriptorsOwned, OwnMail, AnswersAreOwn,
       HasSocket
  <2>3. ASSUME NEW q \in queries, Arrives(q) PROVE Ownership'
    <3>1. NothingLeaks' /\ DescriptorsOwned' /\ AnswersAreOwn'
      BY <2>3 DEF Arrives, dnsvars, NothingLeaks, DescriptorsOwned, AnswersAreOwn, HasSocket
    <3>2. OwnMail'
      BY <2>3 DEF Arrives, dnsvars, OwnMail, Structure, Types, KernelTypeOK, ResolverTypeOK
    <3>. QED
      BY <3>1, <3>2
  <2>4. ASSUME NEW t \in Threads, Resolve(t) PROVE Ownership'
    <3>1. UNCHANGED <<files, inbox, queries>>
      BY <2>4 DEF Resolve, kernel
    <3>2. NothingLeaks' /\ DescriptorsOwned'
      BY <2>4, <3>1, CallSteps DEF Goes, HasSocket, NothingLeaks, DescriptorsOwned
    <3>3. OwnMail' /\ AnswersAreOwn'
      BY <2>4, <3>1, CallSteps DEF Goes, OwnMail, AnswersAreOwn
    <3>. QED
      BY <3>2, <3>3
  <2>5. ASSUME NEW t \in Threads, Socket(t) PROVE Ownership'
    <3>0. UNCHANGED queries
      BY <2>5 DEF Socket
    <3>1. CASE Goes(t, "socket", "done") /\ UNCHANGED kernel
      <4>1. \A s \in Threads : HasSocket(s)' = HasSocket(s) /\ (HasSocket(s) => call'[s] = call[s])
        BY <3>1 DEF Goes, HasSocket
      <4>2. NothingLeaks' /\ DescriptorsOwned'
        BY <3>1, <4>1 DEF NothingLeaks, DescriptorsOwned, kernel
      <4>3. OwnMail' /\ AnswersAreOwn'
        BY <3>0, <3>1 DEF Goes, OwnMail, AnswersAreOwn, kernel
      <4>. QED
        BY <4>2, <4>3
    <3>2. ASSUME NEW n \in Fd, Goes(t, "socket", "seconds"), Opens(t, n), call'[t].sock = n
          PROVE  Ownership'
      <4>1. /\ ~HasSocket(t) /\ HasSocket(t)'
            /\ \A s \in Threads : s # t => HasSocket(s)' = HasSocket(s) /\ call'[s] = call[s]
        BY <3>2 DEF Goes, HasSocket
      <4>2. files \in [Fd -> File \cup {"free"}] /\ files' = [files EXCEPT ![n] = t] /\ files[n] = "free"
        BY <3>2 DEF Opens, Structure, Types, KernelTypeOK
      <4>3. NothingLeaks'
        BY <4>1, <4>2, <3>2 DEF NothingLeaks
      <4>4. CallsOwn'
        BY <1>0, <4>1, <4>2, <3>2 DEF CallsOwn, Structure, CallsHold
      <4>5. ObjectsOwn' /\ ConfigOwns' /\ WorksHolds'
        BY <1>0, <4>2 DEF ObjectsOwn, ConfigOwns, WorksHolds, Structure, Types, IfaceTypeOK,
           Fd, NoFd
      <4>6. OwnMail' /\ AnswersAreOwn'
        BY <3>0, <3>2 DEF Goes, Opens, OwnMail, AnswersAreOwn
      <4>. QED
        BY <1>0, <4>3, <4>4, <4>5, <4>6
    <3>. QED
      BY <2>5, <3>1, <3>2, CallSteps
  <2>6. ASSUME NEW t \in Threads, ReadSeconds(t) PROVE Ownership'
    <3>1. UNCHANGED <<files, inbox, queries>>
      BY <2>6 DEF ReadSeconds, kernel
    <3>2. NothingLeaks' /\ DescriptorsOwned'
      BY <2>6, <3>1, CallSteps, Quiet DEF Goes, HasSocket
    <3>3. OwnMail' /\ AnswersAreOwn'
      BY <2>6, <3>1, CallSteps DEF Goes, OwnMail, AnswersAreOwn
    <3>. QED
      BY <3>2, <3>3
  <2>7. ASSUME NEW t \in Threads, SetLimit(t) PROVE Ownership'
    <3>1. UNCHANGED <<files, inbox, queries>>
      BY <2>7 DEF SetLimit, kernel
    <3>2. NothingLeaks' /\ DescriptorsOwned'
      BY <2>7, <3>1, CallSteps, Quiet DEF Goes, HasSocket
    <3>3. OwnMail' /\ AnswersAreOwn'
      BY <2>7, <3>1, CallSteps DEF Goes, OwnMail, AnswersAreOwn
    <3>. QED
      BY <3>2, <3>3
  <2>8. ASSUME NEW t \in Threads, Send(t) PROVE Ownership'
    <3>1. UNCHANGED <<files, inbox>>
      BY <2>8 DEF Send, kernel
    <3>2. NothingLeaks' /\ DescriptorsOwned'
      BY <2>8, <3>1, CallSteps, Quiet DEF Goes, HasSocket
    <3>3. OwnMail' /\ AnswersAreOwn'
      BY <2>8, <3>1, CallSteps DEF Goes, OwnMail, AnswersAreOwn, DescriptorsOwned, HasSocket
    <3>. QED
      BY <3>2, <3>3
  <2>9. ASSUME NEW t \in Threads, Receive(t) PROVE Ownership'
    <3>1. UNCHANGED <<files, inbox, queries>>
      BY <2>9 DEF Receive, kernel
    <3>2. NothingLeaks' /\ DescriptorsOwned'
      BY <2>9, <3>1, CallSteps, Quiet DEF Goes, HasSocket
    <3>3. OwnMail' /\ AnswersAreOwn'
      BY <2>9, <3>1, CallSteps DEF Goes, OwnMail, AnswersAreOwn, DescriptorsOwned, HasSocket
    <3>. QED
      BY <3>2, <3>3
  <2>10. ASSUME NEW t \in Threads, Answered(t) PROVE Ownership'
    <3>1. UNCHANGED <<files, queries>>
      BY <2>10 DEF Answered, kernel
    <3>2. NothingLeaks' /\ DescriptorsOwned'
      BY <2>10, <3>1, CallSteps, Quiet DEF Goes, HasSocket
    <3>3. PICK by \in inbox[call[t].on] :
             /\ inbox' = [inbox EXCEPT ![call[t].on] = @ \ {by}]
             /\ \/ Goes(t, "wait", "send")
                \/ Goes(t, "wait", "close") /\ call'[t].result = by
      BY <2>10, CallSteps
    <3>4. call[t].at = "wait" /\ call[t].on \in Sockets
      BY <3>3 DEF Goes, Structure, CallsHold
    <3>5. OwnMail'
      BY <3>1, <3>3, <3>4 DEF Goes, OwnMail, Structure, Types, KernelTypeOK
    <3>6. AnswersAreOwn'
      BY <3>3, <3>4 DEF Goes, OwnMail, AnswersAreOwn
    <3>. QED
      BY <3>2, <3>5, <3>6
  <2>11. ASSUME NEW t \in Threads, TimedOut(t) PROVE Ownership'
    <3>1. UNCHANGED <<files, inbox, queries>>
      BY <2>11 DEF TimedOut, kernel
    <3>2. NothingLeaks' /\ DescriptorsOwned'
      BY <2>11, <3>1, CallSteps, Quiet DEF Goes, HasSocket
    <3>3. OwnMail' /\ AnswersAreOwn'
      BY <2>11, <3>1, CallSteps DEF Goes, OwnMail, AnswersAreOwn
    <3>. QED
      BY <3>2, <3>3
  <2>12. ASSUME NEW t \in Threads, Close(t) PROVE Ownership'
    <3>1. /\ HasSocket(t) /\ ~HasSocket(t)' /\ call[t].sock \in Fd /\ call'[t].at = "done"
          /\ \A s \in Threads : s # t => HasSocket(s)' = HasSocket(s) /\ call'[s] = call[s]
      BY <2>12, CallSteps DEF Goes, HasSocket, Structure, CallsHold
    <3>2. /\ files \in [Fd -> File \cup {"free"}]
          /\ files' = [files EXCEPT ![call[t].sock] = "free"]
          /\ \A s \in Sockets : inbox'[s] \subseteq inbox[s]
      BY <2>12, CallSteps DEF Closes, Structure, Types, KernelTypeOK
    <3>3. queries' \subseteq queries
      BY <2>12 DEF Close
    <3>4. NothingLeaks'
      BY <3>1, <3>2 DEF NothingLeaks, File, Sockets
    <3>5. CallsOwn'
      BY <1>0, <3>1, <3>2 DEF CallsOwn, Structure, CallsHold
    <3>6. ObjectsOwn' /\ ConfigOwns' /\ WorksHolds'
      BY <1>0, <3>1, <3>2 DEF CallsOwn, ObjectsOwn, ConfigOwns, WorksHolds, Structure, Types,
         IfaceTypeOK, Fd, NoFd
    <3>7. OwnMail' /\ AnswersAreOwn'
      BY <3>1, <3>2, <3>3 DEF OwnMail, AnswersAreOwn
    <3>. QED
      BY <1>0, <3>4, <3>5, <3>6, <3>7
  <2>. QED
    BY <1>2, <2>1, <2>2, <2>3, <2>4, <2>5, <2>6, <2>7, <2>8, <2>9, <2>10, <2>11,
       <2>12 DEF ResolverNext, CallStep
<1>3. CASE UNCHANGED vars
  BY <1>3 DEF vars, ifvars, dnsvars, kernel, Ownership, NothingLeaks, DescriptorsOwned,
     OwnMail, AnswersAreOwn, HasSocket
<1>. QED
  BY <1>1, <1>2, <1>3 DEF Next

\* The inductive invariant: what each place holds, and who owns it.
LEMMA Invariant == Spec => [](Structure /\ Ownership)
<1>1. Init => Structure /\ Ownership
  <2> SUFFICES ASSUME Init PROVE Structure /\ Ownership
    OBVIOUS
  <2> USE DescriptorsAssumption, KindsAssumption, ResolverAssumption DEF Init, KernelInit,
  IfaceInit, ResolverInit
  <2>1. KernelTypeOK
    BY DEF KernelTypeOK
  <2>6. IfaceTypeOK
    BY DEF IfaceTypeOK
  <2>7. Places
    BY DEF Places, Opened, NoFd, Fd
  <2>3. NewCall \in Call
    BY DEF NewCall, Call
  <2>4. ResolverTypeOK
    BY <2>3 DEF ResolverTypeOK
  <2>5. CallsHold
    BY DEF CallsHold, HasSocket, NewCall
  <2>2. Ownership
    BY DEF Ownership, NothingLeaks, DescriptorsOwned, OwnMail, AnswersAreOwn, HasSocket,
       NewCall, None, NoFd, Sockets, Fd
  <2>. QED
    BY <2>1, <2>2, <2>4, <2>5, <2>6, <2>7 DEF Structure, Types
<1>2. Structure /\ Ownership /\ [Next]_vars => (Structure /\ Ownership)'
  BY StructureStep, OwnershipStep
<1>. QED
  BY <1>1, <1>2, PTL DEF Spec

\* No way out of init() or resolve() loses an open file, whatever failed and
\* whoever closed a number that was not his.
THEOREM FilesHaveHolders == Spec => []NothingLeaks
<1>1. Structure /\ Ownership => NothingLeaks
  BY DEF Ownership
<1>. QED
  BY <1>1, Invariant, PTL

\* The interface and any number of resolve() calls never use or close each
\* other's files, until an init() has failed behind its back.
THEOREM HoldersOwn == Spec => []DescriptorsOwned
<1>1. Structure /\ Ownership => DescriptorsOwned
  BY DEF Ownership
<1>. QED
  BY <1>1, Invariant, PTL

\* A call's result is out of an answer to its own query, although the code
\* compares neither id nor sender.
THEOREM ResultsAreOwn == Spec => []AnswersAreOwn
<1>1. Structure /\ Ownership => AnswersAreOwn
  BY DEF Ownership
<1>. QED
  BY <1>1, Invariant, PTL

-----------------------------------------------------------------------------
(* A call that waits has a limit.                                          *)

\* No call waits for ever behind a lost answer: the file it waits on has a limit,
\* unless both parts of timeout_ were read as 0, at once or by halves.
WaitsAreLimited ==
    ~dangling => \A t \in Threads :
        call[t].at = "wait" => call[t].torn \/ call[t].on \in limited

\* From setsockopt() on, the socket of a call keeps its limit.
LimitInv ==
    ~dangling => \A t \in Threads :
        call[t].at \in {"send", "receive", "wait"} => call[t].torn \/ t \in limited

\* Behind setsockopt() a call keeps what it made of the timeout.
LEMMA KeepsTorn ==
    ASSUME Structure, NEW t \in Threads,
           Send(t) \/ Receive(t) \/ Answered(t) \/ TimedOut(t)
    PROVE  /\ call[t].at \in {"send", "receive", "wait"}
           /\ call'[t].torn = call[t].torn
<1>0. call \in [Threads -> Call] /\ call[t] \in Call
  BY DEF Structure, Types, ResolverTypeOK
<1>1. ASSUME NEW from, NextServer(t, from) PROVE call'[t].torn = call[t].torn
  BY <1>0, <1>1 DEF NextServer, Moves, Call
<1>2. CASE Send(t)
  BY <1>0, <1>1, <1>2 DEF Send, Moves, Call
<1>3. CASE Receive(t)
  BY <1>0, <1>1, <1>3 DEF Receive, Moves, Call
<1>4. CASE Answered(t)
  <2>1. ASSUME NEW by,
               Moves(t, "wait", [call[t] EXCEPT !.at = "close", !.on = None, !.result = by])
        PROVE  call'[t].torn = call[t].torn
    BY <1>0, <2>1 DEF Moves, Call
  <2>. QED
    BY <1>1, <1>4, <2>1 DEF Answered
<1>5. CASE TimedOut(t)
  BY <1>0, <1>1, <1>5 DEF TimedOut
<1>. QED
  BY <1>2, <1>3, <1>4, <1>5 DEF Send, Receive, Answered, TimedOut

\* setsockopt() is given what the call has made of the timeout.
LEMMA SetsLimit ==
    ASSUME Structure, NEW t \in Threads, SetLimit(t), files[call[t].sock] = t
    PROVE  /\ call'[t].torn \/ t \in limited'
           /\ \A s \in Threads : s # t /\ s \in limited => s \in limited'
<1>0. call \in [Threads -> Call] /\ call[t] \in Call /\ timeout_ \in Nat
  BY ResolverAssumption DEF Structure, Types, ResolverTypeOK
<1>1. call[t].sec \in Nat /\ timeout_ % 1000 \in Nat
  BY <1>0 DEF Call
<1>2. CASE call[t].sec > 0 \/ timeout_ % 1000 > 0
  <2>1. limited' = limited \cup {t}
    BY <1>2 DEF SetLimit, Sockets
  <2>. QED
    BY <2>1
<1>3. CASE ~(call[t].sec > 0 \/ timeout_ % 1000 > 0)
  <2>. DEFINE none == (call[t].sec + (timeout_ % 1000) = 0)
  <2>1. none
    BY <1>1, <1>3
  <2>2. call'[t].torn = none
    <3>1. Moves(t, "limit", [call[t] EXCEPT !.at = "send", !.sec = 0, !.torn = none])
      BY DEF SetLimit, Limited
    <3>. HIDE DEF none
    <3>. QED
      BY <1>0, <3>1 DEF Moves, Call
  <2>3. limited' = limited \ {t}
    BY <1>3 DEF SetLimit, Sockets
  <2>. QED
    BY <2>1, <2>2, <2>3
<1>. QED
  BY <1>2, <1>3

\* Nobody but its own call opens a thread's socket or changes its limit.
LEMMA LimitStep ==
    ASSUME Structure, Ownership, LimitInv, [Next]_vars
    PROVE  LimitInv'
<1> SUFFICES ASSUME ~dangling',
                    NEW s \in Threads, call'[s].at \in {"send", "receive", "wait"}
             PROVE  call'[s].torn \/ s \in limited'
  BY DEF LimitInv
<1> DEFINE Keeps ==
        /\ ~dangling /\ call'[s] = call[s]
        /\ s \in limited => s \in limited'
<1>1. ASSUME Keeps PROVE call'[s].torn \/ s \in limited'
  BY <1>1 DEF LimitInv
<1>2. ASSUME IfaceNext, UNCHANGED dnsvars PROVE Keeps
  <2>. USE <1>2, DescriptorsAssumption DEF dnsvars, kernel, ifvars, Opens, Closes, ClosesHeld
  <2>1. ASSUME NEW k \in Kinds, Initialize(k) PROVE Keeps
    BY <2>1 DEF Initialize
  <2>2. CASE OpenDevice    BY <2>2 DEF OpenDevice
  <2>3. CASE SetFlags      BY <2>3 DEF SetFlags
  <2>4. CASE ConfigSocket  BY <2>4 DEF ConfigSocket
  <2>5. CASE Configure     BY <2>5 DEF Configure
  <2>6. CASE CloseConfig   BY <2>6 DEF CloseConfig
  <2>7. CASE CloseDevice   BY <2>7 DEF CloseDevice
  <2>8. CASE DestroyLocal  BY <2>8 DEF DestroyLocal
  <2>9. CASE Shutdown      BY <2>9 DEF Shutdown
  <2>10. CASE ReceiveFrame BY <2>10 DEF ReceiveFrame
  <2>. QED
    BY <2>1, <2>2, <2>3, <2>4, <2>5, <2>6, <2>7, <2>8, <2>9, <2>10 DEF IfaceNext, InitStep
<1>3. ASSUME NEW t \in Threads, Resolve(t) \/ CallStep(t), UNCHANGED ifvars
      PROVE  call'[s].torn \/ s \in limited'
  <2>0. ~dangling
    BY <1>3 DEF ifvars
  <2>1. CASE s # t /\ ~SetLimit(t)
    <3>1. call'[s] = call[s]
      BY <1>3, <2>1, CallSteps DEF CallStep, Goes
    <3>2. s \in limited => s \in limited'
      BY <1>3, <2>1 DEF CallStep, Resolve, Socket, ReadSeconds, Send, Receive, Answered,
         TimedOut, Close, Opens, Closes, kernel
    <3>. QED
      BY <1>1, <2>0, <3>1, <3>2
  <2>2. CASE SetLimit(t)
    <3>1. HasSocket(t)
      BY <2>2, CallSteps DEF Goes, HasSocket
    <3>2. files[call[t].sock] = t
      BY <2>0, <3>1 DEF Ownership, DescriptorsOwned
    <3>3. s # t => call'[s] = call[s]
      BY <2>2, CallSteps DEF Goes
    <3>. QED
      BY <1>1, <2>0, <2>2, <3>2, <3>3, SetsLimit
  <2>3. CASE s = t /\ (Send(t) \/ Receive(t) \/ Answered(t) \/ TimedOut(t))
    <3>1. s \in limited => s \in limited'
      BY <2>3 DEF Send, Receive, Answered, TimedOut, kernel
    <3>. QED
      BY <2>0, <2>3, <3>1, KeepsTorn DEF LimitInv
  <2>4. CASE s = t /\ (Resolve(t) \/ Socket(t) \/ ReadSeconds(t) \/ Close(t))
    BY <2>4, CallSteps DEF Goes
  <2>. QED
    BY <1>3, <2>1, <2>2, <2>3, <2>4 DEF CallStep
<1>4. ASSUME \/ AddServer
             \/ \E ms \in Timeouts : SetTimeout(ms)
             \/ \E q \in queries : Arrives(q),
             UNCHANGED ifvars
      PROVE  Keeps
  BY <1>4 DEF AddServer, SetTimeout, Arrives, kernel, ifvars, dnsvars
<1>5. CASE UNCHANGED vars
  BY <1>1, <1>5 DEF vars, kernel, ifvars, dnsvars
<1>. QED
  BY <1>1, <1>2, <1>3, <1>4, <1>5 DEF Next, ResolverNext

\* A call waits on a socket with a limit, whatever the other calls and the
\* interface open and close, unless its timeout came out 0 or a failed init() has
\* left its number behind.  It is what ResolveReturns rests on beside fairness.
THEOREM LimitsHold == Spec => []WaitsAreLimited
<1>1. Init => LimitInv
  BY DEF Init, ResolverInit, NewCall, LimitInv
<1>2. Structure /\ Ownership /\ LimitInv /\ [Next]_vars => LimitInv'
  BY LimitStep
<1>3. Structure /\ Ownership /\ LimitInv => WaitsAreLimited
  BY DEF LimitInv, Ownership, OwnMail, WaitsAreLimited
<1>. QED
  BY <1>1, <1>2, <1>3, Invariant, PTL DEF Spec
=================================================================================
