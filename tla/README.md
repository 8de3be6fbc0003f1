# A verification project for the lightweight user-space network stack

TLA+ models of the parts of the stack that carry its logic, TLC runs on small
instances, and theorems checked by TLAPS for every value of the constants.
Every definition is translated from the C++ under `src/src`; paths below are
relative to that directory. `PROJECT.json` maps each definition to its lines.

Contents: 1 the system, 2 how it is modelled, 3 the runs, 4 the proofs,
5 limits under which the properties hold, 6 what is not modelled, 7 the plan.

## 1. The system

A frame comes in through a TUN or TAP device, is posted to an event loop, and
is dispatched by protocol: ICMP echo requests are answered, TCP segments go to
the connection the TCP manager finds or creates, UDP datagrams end in a log
line. Programs use the same objects directly: they call `start()` and `stop()`
on the stack, and `connect()`, `send()`, `close()`, `handle_timeout()` on
connections. Apart from that, a DNS resolver exchanges datagrams over sockets of
the host; it meets the stack only in the process's descriptor table, because the
interface, too, is a descriptor.

    interface --read--> receive thread --post--> EventLoop --run--> StackManager
                                                                     |  |
                                      ICMPPacket  <------------------+  |
                                      TCPPacket, TCPManager  <----------+
                                      TCPConnection  <-- application threads

| component | state | operations | shared with, hard behaviours |
|---|---|---|---|
| Event loop (`core/event_loop.cpp`) | task queue, mutex, condition variable, atomic `running_` | `post`, `run`, `stop` | any thread; `running_` is written without the mutex, notifications can be lost or spurious |
| Stack manager, life cycle (`core/stack_manager.cpp:31-57`) | `running_`, `receive_thread_` | `initialize`, `start`, `stop` | callers and the receive thread; joining, overlapping calls, a blocking `read()` |
| Stack manager, dispatch (`core/stack_manager.cpp:63-160`) | none of its own | `process_incoming_packet` and one handler per protocol | connection handed on without a lock; wrong header field |
| TCP connection (`tcp/tcp_connection.cpp`) | state, sequence numbers, buffers, two windows | `connect`, `send`, `close`, `handle_packet`, `handle_timeout` | application and event loop, without a lock; wrap-around, loss, reordering |
| TCP manager (`tcp/tcp_manager.cpp`) | connection table, `next_port_`, limit | find or create, create, remove, cleanup, set limit | some operations hold the mutex, some do not; wrap of the port range |
| TCP retransmitter (`tcp/tcp_retransmitter.cpp`) | list of segments, timeout | add, acknowledge, check timeouts | late, repeated and overtaking acknowledgements; backoff |
| Interfaces (`interface/network_interface.cpp`, `non_blocking_interface.cpp`) | `fd_` | `init`, `receive_frame`, `shutdown`, the destructors; called by `initialize` | the descriptor table; every system call may fail half-way, descriptor numbers are used again |
| DNS resolver (`core/dns_resolver.cpp`) | servers, `timeout_` | `resolve` on a thread of its own, `add_dns_server`, `set_timeout` | any thread; loss, late answers, a timeout that changes while it is read |
| UDP packet (`udp/udp_packet.cpp`) | header, payload | `serialize`, `parse`, checksum | reuse of the object |
| TCP packet (`tcp/tcp_packet.cpp`) | header, payload, options | `serialize`, `parse`, checksum | byte order, reuse of the object |
| ICMP packet (`ip/icmp_packet.cpp`) | header, payload | create request, create reply, parse, serialize | byte order, replies to replies |
| IP fragmenter (`ip/ip_fragmenter.cpp`) | map of fragments | fragment, add, reassemble, cleanup | order, duplicates, two packets in one map, expiry |
| Everything else | | | section 6 |

What makes each correct, in one line: the loop takes tasks in order, calls each
once (in order, too, if one thread runs it) and never touches an empty queue; the stack never loses its receive
thread and `stop()` waits for it; a connection receives a prefix of the peer's
stream, gives each byte it sends one sequence number, and never reopens; the
manager never gives a port twice and never mixes two peers; the retransmitter
keeps exactly what is not acknowledged; the codecs read what they wrote; the
fragmenter's output is a tiling of its input; interface and resolver close
every descriptor they open and none of the other's, and a `resolve()` returns,
with an answer to its own query.

## 2. Modules

`X.tla` models a component, `MCX.tla` instantiates it where the `.cfg` alone is
not enough, `XProofs.tla` holds its theorems. Three modules prove about more than
one: TCPDispatchProofs also about TCPManager, PacketCodecsProofs about TCPPacket
and UDPPacket, IPProofs about EchoPath and IPFragmenter. An operator introduced by
"Faulty variant" is a plausible mistake in the definition that follows it; no
action uses it. It is what the `mutants` of `PROJECT.json` substitute, to show
that a property notices.

**TaskQueue** is what callers of `post()` may rely on: tasks are taken in the
order of the posts, each by one thread, which starts it before it takes another.
Between taking and starting, threads may overtake each other. A task is its number
in the order of the posts. **EventLoop** implements it, with `taken` the tasks
that left `tasks_`. A `run()` call is a
program counter per thread (`pc`), one value per point at which another thread
can see a difference: before the test of `running_`, acquiring the mutex,
evaluating the predicate, about to sleep, asleep, past the wait, task in hand,
executing. `Take` is lines 25 to 27, under the mutex; `Begin` is the call of
`task()` on line 28, without it, and the moment at which a task counts as started.
`Sleep` releases the mutex and sleeps in one step, as a condition variable
does; `Pred` and `Sleep` are two steps because `stop()` writes `running_`
without the mutex and may do so between them. `wild` is the state after
`front()` on an empty queue, from which nothing is claimed.

**StackManager** contains an instance of EventLoop and is the composition of
`start()`, `stop()`, the receive thread and the loop. `start()` is `StartSet`,
`StartRun`, the steps of the loop, and only when `run()` is over `StartSpawn`,
as in the code, where the receive thread is created after `event_loop_.run()`.
`stop()` is `StopSet`, `StopJoinable`, `StopJoin`, `StopJoined`, `StopLoop`,
`StopNotify`. `std::terminate` (assigning a joinable thread, joining twice) is
an outcome of the model, after which nothing happens. `RecvFrame` and
`RecvNone` are the two ways `receive_frame()` ends.

**TCPConnection** has two threads: the application (`app` is where it is) and
the event loop (`handling` is the packet in hand and the state the `switch`
read). Each tests `state_` in one step and acts in another, because there is no
lock. A byte of the peer's stream is its position, so `StreamPrefix` can say
that received bytes are the sent ones. Packets are decoded: flags, sequence
number, acknowledgement, payload positions. Sequence arithmetic is modulo
`SeqMod`, 16-bit casts modulo `W16`. The peer and the network are external:
whatever the peer may have sent so far may be handled any number of times, in
any order, or not at all, so loss, duplication and reordering need no actions
of their own. The peer is lenient: any bare ACK ends its handshake.
`AtomicConnect` says whether packets wait until `connect()` has stored
`SYN_SENT`; where it is FALSE they may be handled between the SYN and the store.
The history variable `astray` remembers that a packet that was no SYN was taken
for the answer to ours. **ByteStream** is what the reader of a connection may rely
on: bytes arrive one after the other and none is taken back. The connection
implements it, with `received <- received_data_`.

**TCPManager** models port allocation at the grain of single accesses (`Load`,
`Store`, `Clamp`, `ScanUsed`/`ScanFree`), because `create_connection()`
allocates without the mutex while `find_or_create_connection()` holds it; a
lock-free scan that overlaps an insertion may see anything (`Unreliable`). A
connection is what the table knows of it: its port and whether it has handled
a packet. **TCPDispatch** extends it to what `handle_tcp_packet()` does: the
key is taken from a segment, the connection looked up, and `handle_packet()`
called without the lock, on a connection that may have left the table.
**PortTable** is what the dispatch may rely on: an endpoint gets a port nobody has,
while there is room, and keeps it until it leaves. The manager implements it, with
`ports <- PortOf`; the search for a port and the lock do not show in it.

**TCPRetransmitter** and **IPFragmenter** are classes nothing in the repository
calls. Their users are external and do what the interface allows. Positions in
the stream are unbounded in TCPRetransmitter, and the code's numbers are
positions modulo `SeqMod`; the sum of line 21 does not wrap, as in the code
(`uint32_t` plus `size_t`). The list of segments is a set: `remove_if` and the
timers visit every element, and the order decides only which of them
`update_rto()` samples. The smoothed RTT is a `double`, of which `Estimates` are
samples; `Clamp` is lines 64 and 65, with `RTO_MIN.count()` and `RTO_MAX.count()` as
the code compares them, 200 and 120: the first in milliseconds, the second in
seconds, so that the upper bound is the lower one and `rto_` is 120 ms after
every update. In IPFragmenter a byte is its packet and position,
so that mixing two packets can be told from reassembling one; the map is keyed
by the offset alone, as in the code. Fragments are serialized and parsed as
`ip_packet.cpp` does: the word of flags and offset changes its byte order twice,
and what is put together is parsed once more, which takes the packet's header off.
**SendBuffer** is what the user of a retransmitter may rely on: bytes are held from
the moment they are added until an acknowledgement covers them. The retransmitter
implements it, with `held` the bytes of the segments in the list.

**Checksums**, **TCPPacket** and **EchoPath** model byte order and the ones'
complement sum by what they do. `Swap` is `htons`; fields the code does not
convert are not swapped. A byte has `B` values, 16 in the runs instead of 256.
In TCPPacket one object parses frame after frame, and may be serialized
itself (`reuse`): it then holds the checksum of the packet it parsed (`Held`), and
`serialize()` sums that field like any other. A new object holds 0.
In EchoPath every host runs this stack, and a standard host is external.
**UDPPacket** has one object that is filled in, serialized and used to parse;
**PacketCodecs** puts the two codecs into one run, one of them used per behaviour.

**Descriptors** is the kernel's table, external: a number names one open file,
`open()` and `socket()` take the lowest free number, and `close()` frees a number
whatever it names. **NetworkInterface** is `StackManager::initialize()` with the
`init()`, `shutdown()` and destructors it reaches, one step per call that opens
or closes something, and with every way out of them; three kinds of interface
differ in these. **DNSResolver** is `resolve()` call by call, any number of
them at once, while `set_timeout()` may come between the two reads of
`timeout_`. A datagram is the thread whose query it answers, because the code
looks at nothing else in it. **StackProcess** composes the two over one table:
neither knows of the other, but a number the interface kept after closing it
may be the resolver's by then. TapInterface and NonBlockingInterface leave
`start()` or `shutdown()` abstract, so their objects belong to derived classes,
which are external and cannot reach the private `fd_`.

## 3. The runs

| run | module | asks | distinct states |
|---|---|---|---|
| `loop` | MCEventLoop | Are tasks lost, reordered or left behind; is the pop safe? | 55,592 |
| `stack` | MCStackManager | Who owns the receive thread; does `stop()` wait, and end? | 215,650 |
| `tcp` | TCPConnection | Is the stream right, does every byte sent have one number, and is a closing connection ever reopened, when two threads read `state_` without a lock? | 2,078,018 |
| `tcp_live` | TCPConnection | Do handshake, stream and `send()` end? | 27,674 |
| `dispatch` | MCTCPDispatch | Ports, table and peers with callers that ignore the mutex? | 515,622 |
| `retransmit` | TCPRetransmitter | Does the list hold what is not acknowledged, and no more? | 119,074 |
| `fragments` | IPFragmenter | Is the cut a tiling, does the whole set give the packet back, and does anything else move a byte? | 77,589 |
| `packet` | MCPacketCodecs | Does an object read what another wrote, and nothing older? | 350,892 |
| `echo` | MCEchoPath | Is each request answered, and nothing but requests? | 3,563 |
| `descriptors` | StackProcess | Who holds and closes which descriptor; does `resolve()` end, with its own answer? | 642,740 |
| `loop_stop` | MCEventLoop | violation: does `run()` end after `stop()`? | 74 |
| `dispatch_shared` | MCTCPDispatch | violation: one peer per connection on a shared source port | about 700 |

What the properties say, and why the bounds reach the interesting cases:

- `loop`. `NoLostTask` is the lost wake-up; `SafePop` the unconditional
  `pop()` of line 26: it meets an empty queue only while another thread is in
  `run()` too; `Fifo` is TaskQueue's specification; `TaskRuns` says that
  `notify_one` is enough. Three loopers let a task be stolen between
  notification and wake-up while another is in hand, and three tasks be called in
  any order; two stoppers are what it takes for a stop inside another.
- `stack`. `StopWaitsForReceiver` and `ReceiverOwned` concern a thread that
  outlives the calls; three callers give a `start()` racing with two `stop()`s.
  `StopReturns` names everything that excuses a `stop()` from returning: the
  flag raised again, an empty pop, a terminated process. Two frames let one be
  posted while another is read.
- `tcp`. `SeqMod = 8` with initial numbers 6 and 7 makes both sequence
  spaces wrap in a stream of three bytes and a `send()` of four; `MSS = 3`
  makes a `send()` of two chunks, either of which may fail (`SegmentsTile`).
  Either side opens, and packets may be handled inside `connect()`;
  the peer may answer a duplicate SYN with a bare ACK, and ends its stream with a
  FIN that carries data or not. `StreamPrefix` speaks of one state,
  `DeliversStream` of all of them: what has been received is never taken back, which
  is ByteStream's specification. `ConnectionInv` collects the types and the inductive
  invariant behind `StreamPrefix`, `SegmentsTile` and `CloseIsFinal`, checked here and
  used in the proofs.
- `tcp_live`. `StreamDelivered` holds although segments that come early are
  never used, because the peer sends them again. `SendReturns` names the one
  state in which `send()` goes round for ever, a multiple of 65536 bytes left
  (`Endless`). `W16 = 5` stands for 65536, and the application
  sends 4 bytes or 6: the first returns, the second comes to 5 left and does not.
- `dispatch`. Four local ports, 0 of them privileged, so that the search
  wraps, is corrected, and meets ports in use; limits of one and two that change
  during an insertion, and three endpoints, one more than the larger limit; two
  peers on ports of their own. `TableInv` is the inductive invariant behind
  `UniquePorts` and `TableBound`, checked here and used in the proofs.
  `PortsAreKept` is PortTable's specification: a thread that holds a connection
  which was removed, and registered again, changes nothing of the new one.
- `retransmit`. Three bytes in segments of one or two, acknowledged up to any
  position at any time; 1, 2 and 3 stand for the bounds of 120 and 200 and for the initial
  1000, so `rto_` is below its minimum after the first update, as in the code; ages up
  to 11 reach three resends at the shortest timeout and two at the longest.
  `BackoffPaces` names the timeout a segment started with and sums its
  doublings. `HoldsBytes` is SendBuffer's specification.
- `fragments`. A header of 3 and a unit of 2 stand for 20 and 8. An MTU of 6
  gives fragments of one unit; an MTU of 2, below the header, wraps in `size_t`
  to a huge fragment. `MaxFragments = 2` is smaller than the four fragments a
  packet may have, so the overflow of `cleanup()` happens, in the middle of a packet
  too. `BytesStayInPlace` is about what `reassemble()` makes of such a remainder, or
  of a mixture: zeros in the holes, and every byte where it was.
- `packet`. Payloads of 0, 4 and 5 bytes: empty, as long as the default
  option, odd. One object parses frame after frame, those of a standard TCP among
  them, whose data offset it misreads, and is serialized itself between them;
  the standard TCP's checksums are 7 and 255, all ones, the one old
  checksum other than 0 that counts as nothing. `VerifyDecides` says which packets
  `verify_checksum()` accepts, by the checksum the sender's object held. `PayloadSurvives` is about packets
  without options. `DatagramSurvives` is about a UDP object that has parsed
  something else before it is filled in again.
- `descriptors`. One thread changes interfaces while two resolve, over a table
  of two numbers, so that opening fails, and a number is given away the
  moment it is closed; timeouts of 500 ms and 1 s, of which the seconds of one
  and the microseconds of the other make 0; one server. (With one thread, three
  numbers and two servers the same properties hold in 34,830 states; the
  theorems of section 4 cover every size.) `DescriptorsOwned` and
  `AnswersAreOwn` hold until an `init()` has failed and left its number behind
  (`dangling`), `NothingLeaks` even then: mixed-up descriptors are closed too
  often, never too seldom.
- `echo`. Identifiers that change when their bytes are swapped, two hosts
  and a standard one, two frames in flight and all their answers.

**Deadlock** is checked where the system has no reason to stop. It is off for
EventLoop (nobody has to stop the loop), StackManager (the process may have
terminated) and TCPConnection (both sides may have finished).

**Fairness.** A call that has begun runs on: weak fairness of the steps of a
thread inside `run()`, `start()`, `stop()`, `send()`, `handle_packet()`,
`fragment_packet()` or `resolve()`; a receive with a limit is such a step. Nobody is obliged to begin a call, except that
`PeerFairSpec` has an application that goes on calling `handle_timeout()`. In StackManager, `RecvPost` has strong
fairness: `post()` waits for a mutex that the loop gives up again and again,
and a mutex that is free again and again is obtained in the end.
`LiveInterfaceSpec` adds that a blocked `read()` returns some day, which the
code does not guarantee and `StopReturns` therefore names. `PeerFairSpec` adds
strong fairness for the handling of each segment a peer retransmits: the
environment TCP is written for. Spurious wake-ups have no fairness, so no
property rests on them.

**The two violations.** `loop_stop`: `stop()` stores `running_` and notifies
without the mutex; both may fall between the predicate and the sleep, and
`run()` sleeps for ever after `stop()` has returned and "Stack manager stopped"
was logged. `dispatch_shared`: the address of the key is read at `packet[16]`,
the destination, where the comment says "source ip"; two peers that chose the
same source port are served by one connection.

## 4. The proofs

All theorems are about the specifications TLC runs, without bounds on threads,
tasks, ports, endpoints or sizes. The assumptions on the constants are the
named `ASSUME`s of the modules, which TLC evaluates in every run. Where a
theorem needs more, it says so in a hypothesis of its own. Four are about
numbers, and the run of each module meets them:
`NoWrap`, `LengthsFit` and `DatagramsFit` keep numbers away from a
wrap that the code neither handles nor tests for, and `PortsAbound` keeps the limits
on the table below the number of ports. `SinglePopIsSafe` and `SingleLoopInTurn`
are about the program with one thread in `run()`.

- **EventLoopProofs.** `LoopInvariant`: `LoopInv` is inductive. It needs four
  parts at once: that `post()` finds nobody holding the mutex
  (`MutualExclusion`), that a looper about to sleep saw an empty queue and holds
  the mutex since (`EmptyWhileBlocking`), and that `running_` is up only while
  somebody is in `run()` (`RunningHasLooper`), give `NoLostTask`
  (`NoTaskLost`). `PopIsSafe` adds `PopInv`: a looper past the wait has a task,
  or the flag is down, or there is another looper; the flag is raised by
  entering `run()`, and a looper that leaves saw it down. `SinglePopIsSafe` is
  the case of `main.cpp`, one thread in `run()`. `LoopIsFifo` is the
  refinement of TaskQueue: the queue is the stretch of numbers from `Taken` to
  `posted`, and a looper has a number in hand from line 25 to line 28 and nowhere else.
  The order of the calls is that of the posts for a single looper,
  `SingleLoopInTurn`, because nobody can overtake it there.
- **StackManagerProofs.** `StackInvariant` (with `StopIsOrderly` and
  `ReceiverIsOwned`), and `StackImplementsLoop`: the stack touches its loop
  only in steps the loop's specification allows. `StackLosesNoFrame` carries
  `NoLostTask` over into the stack through the instance, `StackKeepsOrder` the
  refinement of TaskQueue: frames are taken in the order in which they came and
  handled at most once; callers of `start()` that overlap in `run()` may still overtake
  each other before the handler.
- **TCPConnectionProofs.** `CwndIsBounded`: the bound is inductive by itself
  (`CwndInv` adds the type); its lemmas bound the integer division of
  `MSS * MSS / cwnd_` and show that only `UpdateCongestion` moves the window. 
  `FlowIsKept`: what a thread believes of `state_` while it acts on an older
  reading is inductive, packets inside `connect()` included: there the handler
  is the only one to write `state_`, and afterwards its reading may be
  overtaken by the store of `SYN_SENT`, then by `close()` alone.
  `ClosingIsFinal` is the action property that follows: only that store can
  reopen a connection.
  `ConnectionInvariant` adds the types and four clauses to what the threads believe.
  `PacketInv`: the number of a segment in hand says where in the peer's stream
  its bytes belong. `DeliveryInv`: received bytes and `remote_seq_num_` move
  together, nothing has arrived before a handshake is over, and an open by the
  peer inside `connect()` leaves `remote_seq_num_` at the SYN's number, so no byte
  is taken that the later store of `SYN_SENT` would count twice. `SegmentInv`: what
  has been queued is a block of consecutive numbers that ends before
  `local_seq_num_`, is queued for an open connection only, and is shorter than the
  sequence space. `StreamIsPrefix` and `SegmentsAreTiled` follow; both rest on
  lemmas about numbers modulo `SeqMod`, of which the first says that numbers less than
  the whole space apart are distinct. `NumbersAssumption` keeps the data of one
  connection shorter than the space: beyond that a number is used twice, in any
  TCP. `TypeCorrect` collects the types from the stretch received, the window's
  bounds and the rest.
  `ImplementsByteStream` takes the same invariant one step further: a segment that is
  appended begins behind the last byte received (`NextSegment`), and no other step
  touches `received_data_` (`ArrivalStep`). `AnswersFit`: only an open connection has
  left the initial number behind (`NumberInv`), and from there no step leads back to
  `SYN_SENT`, so the peer's answer to the SYN is not refused for its number
  (`AnswerFits`). `SendAdvances`: the window `send()` reads is
  one segment whatever `handle_timeout()` does. Once what is left fits 16 bits each turn
  of the loop takes a byte; a `send()` of more takes nothing at a multiple
  of 65536, and only there, and never gets past one (`ChunksAdvance`).
- **TCPDispatchProofs**, the manager: `ManagerInvariant`, `TypeCorrect`,
  `PortsAreUnique`. Between a scan that found a port free and the insertion, nobody
  changes the table, because only the holder of the mutex inserts (`InsertHolds`,
  `OneHolder`); so callers that ignore the mutex and tear `next_port_` cannot
  make a registered port occur twice (`InsertIsFresh`). `TableIsBounded` needs
  `RoomKept`: the limit is compared once, by whoever then holds the mutex until the
  insertion, and may have been lowered in between, so the table stays within the
  largest limit it may be given, not within the present one. `SomePortIsFree` follows under
  `PortsAbound`: the ports in use are no more than the entries of the table.
  `ImplementsPortTable`: an insertion registers a fresh key with a fresh port while
  there is room (`InsertRegisters`), every other step keeps or removes entries.
- **TCPDispatchProofs**, the dispatch: `DispatchUsesManager`: the dispatch
  implements TCPManager, so its theorems hold in the stack
  (`DispatchedPortsAreUnique`, `DispatchedTableIsBounded`, `DispatchedPortsAreKept`).
- **TCPRetransmitterProofs.** `NothingIsForgotten`, `AcknowledgedLeave` and
  `ResendsArePaced`, from `RetransmitterInvariant`, which adds the types and that
  no segment reaches beyond what was added. Under `NoWrap` a number is its
  position moved by a constant, and the comparison of `handle_ack()` is one of
  positions; across the wrap it is not, and the first two fail. `BackoffPaces`, which
  holds for bounds in either order, speaks of powers of two, which the proof counts as the subsets of a set, so that
  their doubling is a lemma about cardinalities (`PowerDoubles`) and not an induction.
  `ImplementsSendBuffer`, under `NoWrap`: neither timers nor late acknowledgements drop
  a byte or bring one back (`TimersKeepBytes`, `AckFreesCovered`).
- **PacketCodecsProofs.** `HeadersSurvive`, `PayloadsSurvive` and
  `DatagramsSurvive`: `htons` undone by `ntohs` (`SwapTwice`), flags and offset
  coming apart out of one word (`OffsetParts`), and objects that may have held
  anything before. `DatagramsFit` is what `UDPPacket`'s 16-bit length leaves room for.
  `DamageIsDetected` is `VerifyDecides`: of a new object an undamaged packet is accepted
  and one with a single changed byte refused, for every payload; an old checksum in
  the sender's object is one word more in its sum, which the fold forgets only if it is 0
  or `W - 1`. The loop that folds the carries
  takes multiples of `W - 1` off the sum and ends with a word (`FoldIsRemainder`); a
  changed byte moves the sum by less than `W - 1` and not by 0 (`ChangedSum`), so the
  folded sums differ (`ChangedComplement`). The sum and the fold are recursive
  functions, and the facts about them are proved by looking at the least
  counterexample (`LeastNumber`), which needs no induction theorem.
- **IPProofs.** `EchoInvariant` says that frames of the ICMP protocol have a header
  and that a processed frame has its answer on the wire; `RepliesHaveRequests` and
  `RequestsAreAnswered` follow, for any number of hosts and whatever the checksum
  computes. `FragmentInvariant` follows the loop of `fragment_packet()`: what has been
  cut up to the offset is covered, pieces are apart, the last one alone says that it is
  the last, and every entry of the receiver's map is the piece of some packet with
  that key. `FragmentsAreTiled` and `WholePacketsReassemble` hold for every unit, header,
  length and MTU under `LengthsFit`: the 13 bits of the offset reach the
  end of the packet, and an MTU below the header wraps to a size that can still be
  added to. `fragment_packet()` tests neither. `BytesKeepPlace` follows from the keys of the map: an
  entry's bytes lie at its key from the start of their packet (`EntriesInPlace`), so
  merging entries keeps the distance (`MergedInPlace`) whatever is missing, and parsing the
  result takes a piece off its front (`PayloadInPlace`).
- **StackProcessProofs.** The inductive invariant is `Structure`, where in
  `init()` which descriptor is held (`Places`, `CallsHold`), and `Ownership`, the
  three properties with `OwnMail`: unless a number was left behind, only answers
  to a thread's own query are in its socket. A holder's number can only be
  reopened after somebody closed it, and without a stale number nobody closes
  what is not his; `FilesHaveHolders` does not need that, because a file that is
  opened gets a holder and a holder closes its number on every way out.
  `LimitsHold` says that no call waits without a limit (`WaitsAreLimited`) and adds
  `LimitInv`: from `setsockopt()` on, a call's socket keeps its limit
  or both parts of the timeout came out 0, because nobody else opens or limits that
  socket. The theorems hold for any number of threads, descriptors, servers and
  timeouts, and any kinds of interface.

Only model-checked: `OnePeerPerConnection`, which rests on what ports the peers
choose, and liveness (`TaskRuns`, `StopReturns`, `HandshakeCompletes`,
`StreamDelivered`, `SendReturns`, `AllocationEnds`, `FragmentEnds`, `ResolveReturns`),
because the provers here do no temporal reasoning with fairness and `ENABLED`. For
some of them the fact about single states on which they rest beside fairness is a
theorem: `NoTaskLost` for `TaskRuns`, `AnswersFit` for `HandshakeCompletes`,
`SendAdvances` for `SendReturns`, `SomePortIsFree` for `AllocationEnds`, `LimitsHold`
for `ResolveReturns`.

## 5. Behaviour the reader should know

The properties are stated for the conditions under which they hold. These
conditions are facts about the code, met while modelling it.

- `start()` runs the loop on the calling thread before the receive thread
  exists, so it returns only after another thread's `stop()`; the receive
  thread created then sees its flag down and ends. `run()` raises `running_` itself, so a
  `stop()` between `start()`'s first two steps is undone.
- `stop()` joins a thread that may be blocked in `read()`; two overlapping
  `stop()`s, or a second `start()`, may call `std::terminate`.
- After a passive open `remote_seq_num_` is the SYN's number and no data
  segment is ever in order. In `SYN_SENT` any packet with an ACK sets it too, one
  too far: a bare ACK or a data segment that overtakes the SYN-ACK loses the
  stream's first bytes. `StreamPrefix` allows that where `astray` says so, and
  `StreamDelivered` is checked for the active open.
- `connect()` stores `SYN_SENT` after the SYN is out. Packets handled in between
  may open and even close the connection; the store then reopens it.
- Lost segments of ours are never sent again: `handle_timeout()` walks
  `unacked_segments_`, which nothing fills. `retransmit_queue_` only grows.
- `close()` sends no FIN; `CLOSE_WAIT` and `TIME_WAIT` are never left;
  `LISTEN`, `CLOSING` and `LAST_ACK` are never entered. `connect()` returns
  once the SYN is out, not when the connection is established.
- The chunk size of `send()` is cut to 16 bits, so it is 0, and the loop
  endless, when a multiple of 65536 bytes is left. Every `send()` of 65536 bytes or
  more comes to one, unless the interface refuses a packet, and
  `functional_test.cpp:95-96` hands it 1 MiB (of a connection that is not open, so that
  the call returns before the loop). `SendReturns` excepts exactly this.
- When the interface refuses a chunk, `send()` returns false and does not say
  how much is out; a caller that tries again sends the first chunks twice, under new
  numbers.
- `RTO_MAX` is in seconds and is compared as if in milliseconds, so `rto_` is 120 ms
  after every update, below `RTO_MIN`. `BackoffPaces` counts from there.
- A `TCPPacket` that has parsed and is serialized again sends a checksum the other
  side refuses, unless what it parsed was 0 or all ones (`VerifyDecides`). The object of
  `tcp_tests.cpp:24-28` is accepted because it is serialized for the first time.
- Several threads inside `run()` may call tasks in another order than they took
  them in.
- A segment may be handed to a connection that was removed, or replaced under its
  key, since it was looked up; it is lost there.
- `create_connection()` does not register what it returns, so it is not
  counted and its port may be given out again. A connection that has handled no
  packet has the clock's epoch as its last activity, so a cleanup removes it on
  a machine that has been up for a while (`LongUp`).
- Across the wrap of the sequence space the retransmitter may forget segments
  nobody acknowledged, or keep acknowledged ones; `retransmit` stays away from
  it. Its callback has no setter.
- Any fragment makes `is_complete()` true: gaps come out as zeros, and two
  packets in one map are mixed. `WholeReassembles` is about a map with the
  fragments of one packet. An MTU between the header and 7 above it makes
  `fragment_packet()` endless; `Mtus` leaves those out.
- `serialize()` counts options in the data offset and does not write them; the
  word of offset and flags is not converted to network order; the TCP checksum
  has no pseudo header. ICMP's checksum leaves the payload out and is in host
  order, so a standard echo request is refused. `send_packet()` writes no IP
  header, so what `TCPConnection` and a ping put on the wire is dropped by
  another such stack as too small; TCPConnection is modelled above that layer,
  with a peer that understands its segments.
- A failed `TunInterface::init()` closes `fd_` and keeps its number. The next
  file opened, a resolver's socket say, gets the number; destroying the
  interface closes that socket, and the resolver's own `close()` then closes
  whatever was opened next. Until then `receive_frame()` takes datagrams out of
  the socket. A TapInterface that fails in `configure_interface()` keeps its
  device open until it is destroyed.
- `NonBlockingInterface::init()` initialises a local TunInterface and then asks
  for the flags of its own `fd_`, still -1: it always fails, and the device it
  opened is closed again.
- `resolve()` writes no name into the query, takes the address from bytes 12 to
  15 of any datagram, and compares neither the id nor the sender: an answer that
  comes late is taken for that of the server asked next. `set_timeout(0)`, or a
  change between the two reads of `timeout_`, leaves `recvfrom()` without limit.
- `UDPPacket::serialize()` sends the payload's length but sums the one it holds,
  without a pseudo header; `verify_checksum()` accepts everything.
  `IPPacket::serialize()` sums a header in host order with its stale length;
  nothing verifies it.

## 6. Not modelled

- Nagle's branch and FAST_RECOVERY in TCPConnection: unreachable.
  `update_rtt()`: floating point, no caller. `receive()`: an unsynchronised
  copy, no state of its own. `discover_path_mtu()`: a constant.
- `add_dns_server()` while a `resolve()` iterates over the vector is undefined
  behaviour without a bounded set of outcomes; the model's application adds its
  servers first.
- IPv6 and the other IP header fields, addresses, configuration: sequential and
  without state between calls.
- ARP table: nothing in the stack constructs or asks it, and
  `process_arp_packet()` has no definition. IPv6 neighbour discovery: the same, no
  entry ever has a MAC address, and the structure it reads lacks the four reserved
  bytes of the protocol.
- Thread pool: `enqueue()` has no definition, so no task can enter. Buffer pool
  and zero-copy buffers: constructed and never used.
- Statistics, performance, memory tracking, logging, capture: output only.

## 7. Plan

Done, in this order: event loop and its abstract queue, stack life cycle,
connection, manager and dispatch, retransmitter, fragmenter with the IP
codec, packet codecs, interfaces and resolver over one descriptor table.

Every invariant and every action property of a passing run is stated by a theorem,
`OnePeerPerConnection` apart, which needs each peer to have a port of its own; and EventLoop, TCPConnection, TCPManager and TCPRetransmitter are shown to implement
an abstract specification, in TLC's runs and for every value of the constants.

Next, proofs: IPFragmenter as an implementation of a packet taken apart and put
together, once `is_complete()` tells a whole set from a part; liveness, once the
provers reason about fairness.

Next, modelling, as far as the code gains users for it: the ARP and neighbour
tables, the thread pool once `enqueue()` exists, TCPConnection joined to
TCPRetransmitter the way its comments intend.
