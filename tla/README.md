# A verification project for BigBox

BigBox (`src/source/`) is a collection of C libraries for embedded Linux
programs: buffers, containers, timers, event loops, thread pools, device access
and network protocols. There is no main program; each directory `fun_*` is a
library that applications link. This project models the parts in which the
order of events decides whether the code is right, checks them with TLC on small
instances, and proves the most important results with TLAPS for every size.

Contents: [inventory](#inventory) · [modules](#modules-and-the-code) ·
[runs](#runs) · [fairness](#fairness) · [proofs](#proofs) ·
[findings](#findings) · [limits](#what-is-not-shown) · [plan](#plan)

## Inventory

The components the project models, and those left aside that are nearest to it.
Third-party code kept in the tree (mbedtls, kconfig, jsoncpp, cJSON, mxml, libusb,
ALSA and kernel headers, http_parser, the nginx slab allocator, most of libubox)
is not modelled.

| component | state | operations | what is hard | what makes it correct |
|---|---|---|---|---|
| mirror ring buffer, `fun_buffer/rt_ringbuffer.c` | pool, two 15-bit indices with a mirror bit each | put, put_force, get, putchar, putchar_force, getchar, reset, data_len | equal indices mean full or empty; exact fit at the end; forced puts move the reader | it is a bounded byte queue |
| fifo, `fun_buffer/fifo.c` | pool, `head`, `tail` (volatile, no lock) | write, read, get_data, consume, free/used space, is_full | writer and reader run at the same time on each other's old index, which `MIN` reads twice | it is a single-producer single-consumer queue |
| message queue, `fun_buffer/message_queue.c` | one block: bytes grow up, headers grow down | init, try_pack, register, clean, find | moving bytes and headers over each other; the header that is still to come | read through the headers it is a list of messages |
| MQTT client, `fun_protocol/mqtt/e_mqtt.c` | queue of staged packets, receive buffer, error, mutex, identifier register | connect, publish, subscribe, unsubscribe, ping, disconnect, sync (= reconnect, receive, send) | several threads, timeouts and late answers, QoS 2 handshakes in both directions, error returns half way, reconnects | QoS promises: what is complete was delivered, QoS 2 once and in order, every call settles |
| thread pool, `fun_threadpool/` | task array, eventfds, shutdown flag | create, add, worker loop, destroy | no lock at all, a counter both sides change; level-triggered wake-ups; slots used after they are given back; workers that sleep for ever | tasks are taken once and in order, none is left behind |
| TFTP client, `fun_network/net_protocol/tftp/` | block number, tries left, peer's port, file | read and write transfer | loss, duplicates, late packets, last try, block-number wrap | the file arrives complete, or an error is reported |
| ymodem, `fun_protocol/ymodem/` | sender's and receiver's position and error counts | transmit, receive | answers without numbers, early timeouts, packets that lose bytes and are read on byte by byte | blocks in order, each once; success means all |
| ubox event loop, `fun_event/ubox/event.c` | descriptors, timeouts, fetched events | add, delete, set, cancel, run | callbacks that change the lists being walked; rounding of times | timeouts fire, in order, not late |
| network event loop, `fun_network/libnet/source/net_event.c` | the same, and a mask per descriptor | the same | the mask is turned round on every event; rounding of times | readable descriptors are served; timeouts not late; cancelling ends the loop |
| selector, `fun_network/libnet/source/selector.c` | linked heap of timers, fd_sets, handlers, signal flags | start, stop, set and clear handlers, select loop | heap kept by pointers alone; signals at any point | a complete heap; no signal lost; every enabled descriptor is looked at |
| safe list, `fun_event/ubox/list_safe.c` | list, iterators chained on its nodes | add, delete, loop, break | deletion under several loops inside each other | each loop visits each element that stays, once |
| timer heap, `fun_timer/minheap.c` | array | insert, pop | the missing second child | it is a priority queue |
| timer hash, `fun_timer/timerfd_hash.c` | buckets, entries, current entry of a loop | add, delete, clear, foreach, iterators | callbacks that add and delete, growing meanwhile | it is a map |
| timerfd map, `fun_timer/timerfd.c` | hash of timers, epoll | create, start, stop, delete, add, del, listen | edge-triggered events, reused descriptor numbers, a second thread | an entry that is found leads to a living timer; its expirations are not lost |
| owner-tracking lock, `fun_thread/resalloc.c` | rwlock and owner | request, try, release | owner read and cleared outside the lock | the owner is the holder; nobody else is refused |
| memory pool, `fun_mempool/mempool.c` | free lists, chunk | alloc, free, refill | free-list links, rest of a chunk | not modelled, see below |
| other buffers, `fun_buffer/` | ring of items, growing buffers | insert, pop, append | power-of-two count, growth | planned |

The buffers, the heaps, the list and the lock are leaves: nothing in them calls
another component. The MQTT client contains a copy of the message queue
(`mqtt_mq_*`), to which it adds control type, identifier and send time; it calls
the application back (`publish_response_callback`, `reconnect_callback`) with its
mutex held and talks to a broker over TCP. The thread pool stacks `threadpool.c`
on `thread_async.c` on `thread_queue.c`. The selector's loop stands on its heap
and `timerfd.c` on the hash: there the lower module is shown to implement an
abstract one (`TimerSet`, `KeyMap`) and the upper one is modelled on that. All
event loops call the application, whose callbacks call the loop again. Everything
else is listed under `components` in `PROJECT.json` with the reason it is not
modelled: wrappers of system calls, parsers and printers, byte-level
computations, device access.

The hazards (what is hard to test, each at its line) are in `PROJECT.json`; a note
there says where a property is checked only under a condition.

## Modules and the code

| module | models | abstract specification |
|---|---|---|
| `RtRingBuffer` | `rt_ringbuffer.c`, one action per call | `ByteQueue` |
| `Fifo` | `fifo.c`, one action per access to shared memory | `SpscQueue` |
| `MessageQueue` | `message_queue.c/.h`, one action per call | `MessageList` |
| `MqttClient` | `e_mqtt.c` lines 46-884 and 1737-1868, with TCP and broker | |
| `MqttPid` | `__mqtt_next_pid`, bit by bit | |
| `ThreadPool` | `threadpool.c`, `thread_async.c`, `thread_queue.c`, one action per access to shared memory | |
| `TftpClient` | `start_client` and the packets of `tftp.c`, with network and server | |
| `Ymodem` | `Ymodem_Transmit` against `Ymodem_Receive` and `Receive_Packet`, with the serial line | |
| `EventTime` | the arithmetic of timeouts that `ubox/event.c` and `net_event.c` share | |
| `UboxEvent` | `ubox/event.c` (and `timer_list.c`, the same timeouts) | |
| `NetEvent` | `net_event.c` | |
| `Selector` | the loop of `selector.c` | |
| `SelectorHeap` | its timers, one action per turn of `send_up` and `send_down` | `TimerSet` |
| `MinHeap` | `minheap.c`, one action per turn of its loops | `PriorityQueue` |
| `TimerHash` | `timerfd_hash.c`, with `hash_foreach` and its callbacks | `KeyMap` |
| `TimerMap` | `timerfd.c`, with the kernel's timers and epoll | |
| `RwRes` | `resalloc.c`, one action per access to lock or owner | |
| `SafeList` | `list_safe.c` | |
| `RtRingBufferProofs`, `FifoProofs`, `MinHeapProofs`, `MqttClientProofs` | theorems about the module of that name | |
| `StructureProofs` | theorems about `MessageQueue` and `RwRes` | |
| `SharedProofs` | theorems about `ThreadPool`, `TimerMap` and `SafeList` | |
| `LoopProofs` | theorems about `UboxEvent`, `NetEvent` and `Selector` | |
| `ProtocolProofs` | theorems about `Ymodem` and `TftpClient` | |
| `MCRtRingBuffer`, `MCRtForce`, `MCFifo`, `MCMqttClient`, `MCMqtt` | instances for TLC | |
| `MCStructures`, `MCShared`, `MCLoops`, `MCProtocols` | several components' instances each, chosen by `scenario` | |

Definitions keep the names of the functions they translate. A definition whose name
begins with `Faulty`, or that is introduced as a variant that forgets something, is
a plausible bug used to show that a property can fail; it is not part of any
specification. The instances of small components share a run: the variable
`scenario`, chosen in the initial state, says which one a behaviour exercises, and
the variables of the others keep their initial values.

**RtRingBuffer.** Variables are the fields of `struct ringbuffer` and `reply`,
the last call with its result. The header says that the buffer has no
synchronisation, so a call is one step. `ByteQueue` is the promise: a bounded
first-in first-out queue; its constant `Exact` says whether a forced put may drop
more than it has to. The refinement mapping is `queue <- Contents`, the bytes from
the read position on. A size below 8 becomes 0 in `ringbuffer_init`, which is a
buffer without a cell, and is left out (`SizeAssumption`).

**Fifo.** `head` and `tail` (`head_index` and `tail_index` in the module) are shared;
the writer's and the reader's locals are variables too. A call is split where the other
side can run: reading the other index, each byte of a `memcpy`, storing the own index.
`MIN` of `fifo.h` is a macro and evaluates the argument it chooses a second time, and
with it the other side's volatile index: `WriteStart`, `ReadStart` and `GetData`
compare, `WriteRoom` and `ReadAvailable` read again, so that the amount may overshoot
what was asked for. What lies behind the block (`SourceBytes`) or the pool may be
anything. Memory accesses keep the program's order; the code has no barriers
(`fifo.c:82`), so what is shown holds for a build and a target that keep it. `get_data`
followed by `consume` is the second way to read: the user copies through the pointer.
`SpscQueue` is what can be promised: accepted bytes are those of the block, in order,
and any others come behind them; `PastEnd` is the peek that runs past the pool.

**MessageQueue.** `mem` is the block, cell by cell, so that a header and a
message that met would really overwrite each other. `mq_try_pack` is the macro
with the user's packer. The pointer a user holds across a `mq_clean` is not
modelled; users find their message again.

**MqttClient.** One action is one critical section of `client->mutex`;
`mqtt_sync` is split at its three, and `__mqtt_recv` is further split into one
action per response, with the mutex held. `__mqtt_send` is one action, because
nobody can look between its sends but the broker, which only takes packets in
order. What is abstracted:
 - a packet is a record with control type, identifier, message and two bits
   (the DUP flag, bit 3 of the length byte, because line 607 mixes them up); the
   send buffer has room for `Slots` packets instead of bytes, the layout in bytes
   being the subject of `MessageQueue`;
 - identifiers are numbered by their place in the cycle of the shift register.
   That the cycle is as long as can be is what `MqttPid` shows;
 - time: a message that waits for an answer may time out at any pass, and the
   keep-alive may be due in any pass that sent nothing. `Budget` bounds the
   number of timeouts, keep-alive pings, repeats of the broker and faults;
 - the identifier field of a CONNECT, PINGREQ or DISCONNECT is never set by the
   code; the model says `NoId`. What it may contain can only make
   `__mqtt_next_pid` pass over an identifier;
 - `inspector_callback`, `typical_response_time` and the counters are left out:
   nothing depends on them;
 - the reconnect callback does what the library's rules ask: closes, opens,
   `mqtt_reinit`, `mqtt_connect` with a clean session.

The broker and TCP are external: packets arrive in order, the broker answers as
MQTT 3.1.1 asks, may repeat its unanswered QoS 2 packets, may refuse, close at
any time or send something that does not fit or parse, and uses an identifier
again once its handshake is over. It closes the connection on a packet that does
not parse, which a PUBLISH with a changed length byte does not.

**MqttPid.** The register as a 16-bit integer; `steps` counts modulo the cycle.

**ThreadPool.** The adding thread and the workers; each load and store of `head`,
`tail` and `size` that another thread can see is a step, so that `size++` and `size--`
are two each and may lose one another's effect (`lost` counts the lost
increments). A task is stored, and read by the worker, in two halves, function
and argument, and the worker reads them after it has given the slot back. An eventfd is
its number while it is open; epoll is level-triggered, so every waiting worker may wake
for one that is not yet read. `queued` and `executed` record what was stored and what
was run. A failing `eventfd` or `epoll_ctl` is left out. `Workers` may be any set; the
properties are those of one worker (see findings).

**TftpClient.** The state is the locals of `start_client`. A packet is a record of
kind, block number, data and ports; a block of the file is its number. The network
is a set: packets arrive in any order, and are lost, repeated or late within the
bounds. The server answers each request from a new port and answers repeats, as RFC 1350
asks. All error paths are there: unknown port, error packet, wrong
opcode, disk errors, and the error packet that `error_package` does not write, which
goes out as whatever the buffer held.

**Ymodem.** One token of the line is a packet, a control byte, or what is left of a
packet that lost bytes. `sender.phase` is the loop of `Ymodem_Transmit` that is
running. `Receive_Packet` looks for a header in the byte that comes next: of a
packet without its start (`Remains`, some bytes) it reads one byte at a time, and each may be
nothing, EOT, `A`, CA (with another CA or without) or like a header (`ReceiveByte`; `Bytes` says
which occur), and each gets its answer. A packet that lacks later bytes, or a false header,
leaves it waiting for the missing ones (`inside`), which the next tokens or a timeout
supply. `Breaks`, `MaxBroken` and `RestBytes` bound this. A packet whose number or
complement changed is read whole and refused (`Garble`); data is not checked (`Flip`). A
timeout is early when the peer is about to answer. The size field, the contents of the
name and the flash writes, which are compiled out, are left out.

**UboxEvent, NetEvent, Selector.** The loop's thread is split wherever it calls the
application: the callback may make any call of the API before it returns. UboxEvent
and NetEvent count time in ticks finer than the milliseconds `tv_diff` tells apart, as
pairs of seconds and fractions (`EventTime`). `cur_fd`, the static index that is never set back, is a
variable, with its reads behind the fetched events (`DispatchOutside`). NetEvent
stops in a state of its own (`undefined`) where the code calls through an event_fd it
has freed. In Selector the signal handlers run between any two steps,
those that test the flag, clear it and call the user's handler included.

**SelectorHeap, MinHeap.** The loops that restore the order are steps of their own,
so that what is exchanged is seen half way. No other call comes in between, the code
being sequential. The refinement mappings are the set of timers in the tree and the
bag of nodes in the array, during the loops too.

**TimerHash.** A bucket is the sequence its `next` pointers run through. Entries are
reused blocks of memory. `NullCompare` is the call that would hand a null key to
`strcmp`; nothing is said about what follows.

**TimerMap.** The hash is the set of its entries. `addTimer` is several steps, in which
the loop goes on: the table may grow (`Grown`), the new entry is linked at the head of its bucket
without data, the data is stored, the descriptor is put into epoll. A walk of the loop
along a bucket has a beginning, which settles what it finds since entries are only linked
before it, and an end; when it overlaps a rehash, which moves the entries and frees the
table, the model stops in a state of its own (`torn`). `hash_key_dup` copies a key
without its final zero, so whether an entry compares equal to its key is open
(`matches`) from the start. The application keeps the order the library needs:
its own calls do not overlap, a timer is out of the map before it is stopped or deleted,
and the second thread only creates, starts and adds.

**RwRes.** The pthread lock is `writer` and `readers`; a thread holds it once.
`DetectsDeadlock` says whether the library answers EDEADLK to the holder.

**SafeList.** `i`, `next`, `next_i` and `head` of the iterators are the code's
pointers; `visits`, `since` and `missed` are histories for the properties.

## Runs

| run | module, cfg | checks | shows |
|---|---|---|---|
| `rt` | MCRtRingBuffer, Rt | TypeOK, LapOK, PlainCallsAreAQueue, AllCallsKeepOrder | indices never more than a lap apart; all calls but the forced put of a block are those of an exact byte queue; with it order is kept, though bytes may be lost |
| `rt_force` | MCRtForce, RtForce | ForcedPutDiscardsOnlyOldData | violated, see findings |
| `fifo_min` | MCFifo, FifoMin | CopiesAtMostTheBlock | violated, see findings |
| `mqtt_live` | MCMqtt, MqttLive | TypeOK, CompletedWasDelivered, Qos2OnceInOrder, OneQos2InFlight, EveryCallSettles | publishing with QoS 1 and 2 and timeouts; subscribe, unsubscribe, ping, keep-alive |
| `mqtt_safety` | MCMqtt, MqttSafety | AcksAreTrue, Qos2HandledOnce, UnknownAckIsExplained, IdsAreMaxLength | the other calls; receiving with repeats and timeouts; a fault and reconnects; the register has period 65,535 |
| `structures` | MCStructures, Structures | LayoutOK, IsAMessageList, ArrayHeapOrder, ImplementsQueue, TreeIsTimerSet, LockOK | the message queue, the array heap, the linked heap and the lock are what they promise |
| `shared` | MCShared, Shared | RunsInOrder, WaitingTasksStay, NoTaskLeft, FifoTypeOK, QueriesAgree, StaleIndexIsSafe, NoTornCopy, IsSpscQueue, NoLostEdge, TableIsMap, VisitsEachOnce, WorkIsDone | thread pool, fifo, timerfd map, hash and safe list while they are being used |
| `loops` | MCLoops, Loops | NetNoOverdue, NothingOverlooked, NoLoopOversleeps, TimeoutsServed, EventsServed | the three event loops under their callbacks |
| `protocols` | MCProtocols, Protocols | ReceivedIsPrefix, SuccessIsComplete, TransferIsRight, TransfersEnd | the two file transfers over bad lines |
| `mqtt_dup` | MCMqttClient, MqttDup | ResentCarriesDup | violated, see findings |
| `mqtt_reuse` | MCMqttClient, MqttReuse | EveryPublishIsHandled | violated, see findings |
| `ymodem_bytes` | Ymodem, YmodemBytes | SuccessIsTrue | violated, see findings |

The modules of `structures`, `shared`, `loops` and `protocols` extend the
components about which there are theorems (MessageQueue, MinHeap and RwRes; Fifo,
ThreadPool, TimerMap and SafeList; UboxEvent, NetEvent and Selector; Ymodem and TftpClient), with
the constants given in the cfg, so that TLC checks the very definitions the theorems
state. The other components, and further sizes of these, are instances with variables
of their own. Properties are gathered by what they say, type invariants included:
`TransferIsRight` is ReadIsPrefix, StoredIsPrefixInTransfer and WrittenIsComplete of
TftpClient; `NoLoopOversleeps` the order of UboxEvent's list and how long its loop
sleeps; `VisitsEachOnce` the chains of SafeList and what its loops visit; `TableIsMap`
TimerHash's LookupFindsKeys, IteratorVisitsAll, EmptiedIsCurrent, CurrentIsChained and
ForeachVisitsEach with the refinement of KeyMap; `TreeIsTimerSet` the shape and order of
SelectorHeap with that of TimerSet; `NoTaskLeft` that no wake-up is lost and that
`threadpool_destroy` drains the queue. `TimeoutsServed`, `EventsServed` and `TransfersEnd` also repeat the
safety properties of their components on the further instances.

**Bounds.**
 - *Buffers.* The code never looks at a byte, so one marked byte among plain ones
   is followed (`OneMark`): wherever a byte is lost, repeated or misplaced, some
   behaviour has the mark on it. The pool has 8 cells (the smallest
   `ringbuffer_init` gives) or 4; blocks of 0, 1, 3, 5, 8 and 9 bytes (0 to 4 for
   the fifo, where three fit) stop before, at and after the end from every index and overfill the
   pool. The theorems remove these bounds.
 - *Message queue.* 10 cells, headers of 2, messages of 1 and 2 bytes: up to three
   messages, every way to be a byte short of a message or of a header.
 - *MQTT.* Two or three slots, so that the buffer fills and is cleaned while
   handshakes are open; more identifiers (`LastId`) than a run takes, as the real
   65,535 are. With any free identifier allowed instead, or the lowest one (the
   mutant `LowestPid`), a late second PUBACK completes another message: the long
   cycle is what the code rests on, and in a client that takes all 65,535
   identifiers while one answer is late, that could still happen. Two timeouts in
   scenario `up`, so that a message is resent twice or two are resent; two repeats and
   a timeout in `down`, which has two QoS 2 messages and two identifiers;
   one fault of any kind and any number of reconnects in `faults`.
 - *Structures.* The array heap takes five nodes, with equal keys among
   them; the tree has six timers, the smallest number with which a timer
   moved from the third node's part to the second's has to go up; three threads
   at the lock, so that two wait while one releases.
 - *Shared.* `pool`: five tasks in a queue of two, so that it fills, is full when a
   task comes, and its array comes round twice, with the counter torn at every point.
   `ring`: the fifo. `map`: two timers, two descriptor numbers, nine calls from
   callbacks; `threads`: six, from a second thread too, and one event at a time. `hash`: three
   keys, two of which collide in every size of the table; `list`: three elements, loops
   three deep, six calls.
 - *Loops.* All clocks have two ticks to a millisecond and two milliseconds to a
   second, so that carries occur. `order`: three timeouts, so that insertion is at the front,
   in the middle and at the end; `late`, `watch`: the clock runs on long
   after the last call, so that what is due has to be served; `watch` has a descriptor
   and three places for events, which the index that is never set back leaves. More
   ready descriptors than places (`EVENT_MAX_EVENTS`) are left to the theorem.
   `fds`: two descriptors, one of which may fail, beside a timeout;
   `freed`: two that may fail and are freed then; `timeouts`: two timeouts, four calls. `signals`: a timer that is always started again and two signals;
   `handlers`: three descriptors, six calls.
 - *Protocols.* `tftp`: reading and writing three blocks, the last one short, one packet
   lost, one repeated, one timeout too early, a disk that may fail; `loss`: five blocks
   with two block numbers, three losses against five tries.
   `clean`: four ymodem blocks with two numbers, two early timeouts; `noisy`: two blocks, three
   lost tokens, one garbled, one changed and one broken packet, of which one or two bytes are
   left; `broken`: two packets that lose bytes anywhere, with bytes of every kind.

The runs on buffers, MQTT and structures check deadlock: none of these systems stops
by itself. In the other three a transfer ends, a loop returns, a pool is
destroyed or the bounded calls are used up.

## Fairness

*MQTT* (`mqtt_live`). The application calls
`mqtt_connect` and keeps calling `mqtt_sync`, as `e_mqtt.h:1268` asks ("every 200
ms or so"): weak fairness of the steps of the sync thread. TCP delivers: a packet
that lies there is not missed by every `__mqtt_recv` for ever (strong fairness of
`Recv`, since a receive may come before the packet). The broker reads what it was
sent (weak fairness of `BrokerTakes`). Nothing is assumed of the application's
other calls, of timeouts, repeats or faults.

*The others.* Weak fairness of the threads' steps, since the kernel schedules a
thread that can run, and of the return of a callback, since all loops rest on it. The
clock goes on (`Tick`, `Expire`). The network of TFTP drops or delivers what
it carries, and its losses are bounded by the tries the client has, where success is
claimed. The adding thread of the pool, and a thread that adds a timer, finish a call
they have begun; they need not call again. No fairness is given to application calls, faults, signals or events of
descriptors.

"Settles" means: completed, or the client in an error state, or the connection
closed. Without a reconnect callback the client stays in the error state, so more
is not promised.

## Proofs

`tlapm` proves these for every value of the constants that satisfies the
assumptions named with each component.

| theorem | states |
|---|---|
| `RtRingBufferProofs!TypeCorrect` | `Spec => []TypeOK` |
| `RtRingBufferProofs!LapSafe` | `Spec => []LapOK` |
| `RtRingBufferProofs!PlainRefinement` | `Spec => PlainCallsAreAQueue` |
| `RtRingBufferProofs!LossyRefinement` | `Spec => AllCallsKeepOrder` |
| `FifoProofs!TypeCorrect` | `RingSpec => []FifoTypeOK` |
| `FifoProofs!StaleIndexSafe` | `RingSpec => []StaleIndexIsSafe` |
| `FifoProofs!NeverTorn` | `RingSpec => []NoTornCopy` |
| `FifoProofs!QueriesAlwaysAgree` | `RingSpec => []QueriesAgree` |
| `FifoProofs!SpscRefinement` | `RingSpec => IsSpscQueue` |
| `StructureProofs!QueueKeepsLayout` | `Spec => []LayoutOK` (MessageQueue) |
| `StructureProofs!OwnerIsRight` | `RwSpec => []LockOK` |
| `MinHeapProofs!HeapIsOrdered` | `HeapSpec => []ArrayHeapOrder` |
| `MinHeapProofs!HeapIsQueue` | `HeapSpec => ImplementsQueue` |
| `SharedProofs!TasksRunInOrder` | `Spec => []RunsInOrder`, one worker (ThreadPool) |
| `SharedProofs!WaitingTasksAreKept` | `Spec => []WaitingTasksStay`, one worker |
| `SharedProofs!PoolLeavesNoTask` | `Spec => []NoTaskLeft`, one worker |
| `SharedProofs!MapLosesNoEdge` | `MapSpec => []NoLostEdge` (TimerMap) |
| `SharedProofs!SafeListVisitsEachOnce` | `SafeSpec => []VisitsEachOnce` (SafeList) |
| `LoopProofs!UboxNeverOversleeps` | `UboxSpec => []NoLoopOversleeps` (UboxEvent) |
| `LoopProofs!ReactorNeverOversleeps` | `Spec => []NetNoOverdue` (NetEvent) |
| `LoopProofs!SelectorOverlooksNothing` | `SelSpec => []NothingOverlooked` (Selector) |
| `MqttClientProofs!ClientTypes` | `Spec => []TypeOK` |
| `MqttClientProofs!Qos2OneAtATime` | `Spec => []OneQos2InFlight` |
| `MqttClientProofs!QueuedIdsDiffer` | `Spec => []OwnIds(mq)` |
| `MqttClientProofs!Qos2HandledAtMostOnce` | `Spec => []Qos2HandledOnce` |
| `MqttClientProofs!Qos2DeliveredOnceInOrder` | `Spec => []Qos2OnceInOrder` |
| `MqttClientProofs!CompletedPublishesWereDelivered` | `Spec /\ NeverComesRound => []CompletedWasDelivered` |
| `ProtocolProofs!YmodemReceivesPrefix` | `Spec => []ReceivedIsPrefix` (Ymodem) |
| `ProtocolProofs!YmodemSuccessIsTrue` | `Spec => []SuccessIsComplete` (Ymodem) |
| `ProtocolProofs!TftpTransfersRight` | `TftpSpec => []TransferIsRight`, fewer blocks than block numbers (TftpClient) |

*Ring buffer.* Assumptions: the size is a multiple of 8 between 8 and 32760, which
is what `ringbuffer_init` stores in an `int16_t`; callers pass sequences of bytes
and natural lengths, single bytes among them. The inductive invariant is
`TypeOK /\ LapOK`. TypeOK alone does not survive: `ringbuffer_data_len` is between
0 and the size only while the two positions are at most one lap apart, and the
amount a put or get moves comes from it. From the invariant, `DataLen` gives the
distance between the positions, `Moved` what moving an index does to that distance
with and without a wrap; the refinement proofs show for each call what becomes of
`Contents` and match it with the queue's step. The forced put is shown to leave a
suffix of old and new bytes, which is all that is true of it.

*Fifo.* Assumptions: the size is positive; blocks are sequences of bytes, lengths
natural. The inductive invariant is
`FifoTypeOK /\ StaleIndexIsSafe /\ NoTornCopy /\ IdleOK`. StaleIndexIsSafe is the heart: the
room the writer computed and the bytes the reader counted are still there when
they are used, because the other side only ever adds to them. That is true of the second
reading of `MIN` as of the first: it may find more than was asked for, never more than there
is. That is why no cell is written while it is read (NoTornCopy), which in turn is needed
to know what a completed read hands to its caller. IdleOK says that a side that is not
copying claims nothing. Most of the work is about the circle: `Apart` (two offsets below
the size are two cells) and `FromHead` (the writer's cells come behind the reader's).

*Message queue.* A header of at least one cell, a block that holds at least one, and
messages of at least one byte, as every packet of MQTT is: `curr_sz` is the room left
beside one more header, so an empty message would be taken where its header does not
fit. The invariant `MqInv` says that there is a number of headers, `Shape`, all of them
headers in memory, each starting where the one before ends, so that the starts never
decrease. LayoutOK says neither that the sizes are numbers nor, without an induction
over the headers, that the starts do not decrease; both are needed, since `mq_clean`
subtracts the start of the first unfinished message from all that follow and moves the
headers up over those of the finished ones. `CleanShape` follows the moves; it takes the
first unfinished message as the least of a set (`LeastNumber`). `LengthFacts` shows that
the macro's division gives back the number of headers.

*Lock.* Any finite set of threads, with and without a library that detects
deadlock. The inductive invariant adds `PlaceOK`, what a thread holds at each
place of the code: `rw_release` unlocks before it looks at `mtid` and clears it, and a
thread between the two holds nothing. That `mtid` may then be cleared over the next
owner's head is why OwnerHolds is stated one way only: who is named holds the lock, but not
every holder is named.

*Heap.* Integer keys, `maxNum` of at least 3 (with fewer no node fits). `HeapOrder` is
inductive as it stands, because it already makes the exception of the node on its way
and of its children: an exchange moves the exception one level. That the root has a least key follows by taking the
least place that is before its parent (`LeastNumber`). For the refinement `ExchangeCount`
shows that exchanging two places leaves the number of copies of each node
as it was.

*Thread pool.* One worker: with two nothing of this holds (see findings). Any capacity, any
number of calls, `size` torn. `RangeOK` is why the counter stays in its range although
both threads store what they made of an old value: the adding thread, which found it too
small to be full, sees it only shrink meanwhile, the worker, which found it too large to be empty,
only grow. `CountOK` is the balance: what is stored and not taken out is counted by `size`, but
for the lost increments, and each is matched by an event on its way, open or in the worker's
hands; and no more is popped than was stored, because every pop has used up an eventfd
sent after its store. `PositionOK` ties `head`, `tail` and the worker's slot to the numbers of
stored and executed tasks. With these the rest follows the slots: `SlotsOK`
(a slot holds, in each half, a task of its own rounds) gives RunsInOrder, and `WaitOK` (a
waiting task is in its slot while no increment was lost) WaitingTasksStay.

*timerfd map.* Any timers, descriptors, batch of `epoll_wait` and number of calls, with
and without a second thread that creates, starts and adds timers; stored keys compare equal
or not. The invariant adds `HashOK`, that a lookup finds one entry at most; `TableOK`, that
epoll watches exactly the timers of the map that no call is just putting in or taking out;
and `LoopOK`, on which thread a call is, that nothing is left to handle when the loop waits and
that the entry it follows stays in the table: only callbacks delete, and they run on its
thread. NoLostEdge alone is not inductive, as an expiration of a descriptor that is not
watched would be forgotten. What is said of edges is said of timers whose entry can be found,
and ends where a rehash of the second thread meets a walk of the loop.

*Safe list.* Any elements, any depth of loops within loops, any number of calls;
the list head is no element. `Linked` says that the iterators of the running loops form
doubly linked chains, each on the node its loop goes to next, and that a rank falls along a
chain. ChainsOK alone does not survive `safe_list_del`: two iterators that point at each
other, and hang on no node, satisfy every local condition, and then the loop that looks for
the end of a chain does not end. With the rank a chain has a first and a last iterator
(`ChainEnds`). `SetIteratorFacts`, `DelIteratorFacts` and `MoveChainFacts` show that the
pointer writes of the three functions keep the chains. `Counted` says what a loop has visited
so far: nothing before the node it goes to next, everything behind it that the loop found in
the list; deleting that node moves the loop to its successor, which changes neither side
(`CountRemove`).

*Ubox loop.* Any timeouts, descriptors, fetched events, resolution of the clock, length of a
second and number of calls. The list is sorted by what `tv_diff` can tell apart, milliseconds, while times have
a finer part: `Before(p, d)` says that `tv_diff` finds p not after d. It is no order of
the times themselves; what the insertion needs is that the time it goes past is before
the new one and the one it stops at is not, and that this carries on along the list. The
invariant adds the order of the list, that between `event_process_timeouts` and `epoll_wait`
its head is not due, whence none is, and that the deadline is less than two milliseconds
past every pending timeout, the most two roundings can add.

*Network event loop.* The same arithmetic (`EventTime`), and the same lemmas about it. The
invariant adds that the list is in order as far as `tv_diff` tells and holds each timeout at most
once, and that none was due when `event_process_timeouts` ended. Order alone is not inductive:
a timeout that was in the list twice would leave it unsorted when `event_timeout_set`
changes its time. `RemoveFacts` and `PlacedFacts` say what `list_del` and the insertion loop
leave, `NextTimeout` how far the rounded sleep may lie behind the first timeout.

*Selector.* Any number of descriptors and timeouts. `MaxfdOK` (no handler above `maxfd`)
is the strengthening of the first half; the second, that a signal is remembered
from its arrival until its handler is called, also between the test of its flag and the
clearing, is inductive as it stands. `HighestFacts` shows that the loop of `sel_clr_fd_handlers`
finds the next lower one in use.

*MQTT client.* More identifiers than slots, as 65,535 are; any number of messages,
timeouts, repeats and faults. `FirstQos2` is what OneQos2InFlight needs: an
unfinished QoS 2 PUBLISH behind another one has never been sent. It survives a send
pass because `__mqtt_send` holds back every later one in the same pass, and a
reconnect because that empties the queue. `OwnIds` needs that `__mqtt_next_pid`
ends: `NextPid` shows by the pigeonhole principle that a cycle longer than the queue
has an identifier no queued message uses (`CycleFacts`: counting on leads everywhere).
Qos2HandledOnce and Qos2OnceInOrder hold even where identifiers come round at once, which
the properties about late answers do not. `HandshakeOK` is why the first does, for each of
the broker's messages: as long as a copy of a handled message is on its way or may still be sent, the queue has its
PUBREC, not complete, so that `mqtt_mq_clean` keeps it; and a PUBREL under its identifier that
arrives before such a copy belongs to an earlier handshake, so that the message has not been
handled yet. The second part rests on the connection's order and on the broker: it sends
the PUBREL only when it no longer sends the PUBLISH, and no two open handshakes share
an identifier (`ActiveApart`). `AwaitsClean`, `AwaitsTryPack` and `AwaitsSent` show what leaves
that PUBREC alone; a late PUBREC of an earlier handshake, which `up` may hold, does no harm.
Qos2OnceInOrder is about the other direction. `Follows` is its core: the
QoS 2 messages that the broker has passed on, those on their way to it and the unfinished
ones of the queue follow one another in the order of `mqtt_publish`, and a second copy of
one comes under the identifier of the first with no PUBREL for that in between, so that
the broker, which reads in order, still has the identifier. Four things in the code
uphold it (`QueueOrder`, `SentFollows`): a PUBREL is staged only when its PUBLISH is complete,
which is then not sent again; `__mqtt_next_pid` avoids the identifier of a queued PUBREL;
a pass sends at most the first unfinished QoS 2 PUBLISH; and a reconnect, which makes the
broker forget, drops the queue and everything on its way. What a message is completed by
does not matter: a late PUBREC may complete a message the broker has not seen, then lost (see the bounds), but neither repeated nor overtaken.
CompletedWasDelivered excludes that and so needs `NeverComesRound`: each identifier taken comes
after the one before. That is a condition on behaviours rather than on the constants,
since `__mqtt_next_pid` also skips the identifiers of queued answers; a client that makes
fewer than 65,535 calls divided by one more than the slots always meets it, and so do the
instances of the runs. The invariant `AckInv` is
about names, the pairs of identifier and message in the queue and on the wire: none has an
identifier that is yet to be taken, no two share one, and what the broker has
confirmed under an identifier (a PUBACK or PUBREC on its way, or a QoS 2 identifier it
holds) it has passed on. Resends and repeated answers only repeat names and confirmations.

*ymodem.* Every number of blocks, errors and faults, and a modulus of the packet numbers
of at least 2. The types hold always; the rest holds in step (`InStep`): no packet was broken, or
packets lose bytes only from their start and none of those left looks like a header or a control byte
(`HarmlessBytes`). Then each of them is an error, answered with `C`, which no loop of the sender takes
for an acknowledgement. Answers carry no numbers, so the invariant counts: the sender's
place plus the ACKs on their way is at most what the receiver counts to, and that is at most
one past the sender's place (`SenderOK`). The packets on the line are in order and each is
the one the receiver counts to or the one before (`LineOK`); two numbers in a row differ
modulo anything above 1 (`NumbersDiffer`), so the number tells which it is. An EOT that
arrives has come after all blocks, and the sender, at most one ahead, cannot have got
past it before. What rests on this: with one ACK too many none of it holds, and a byte
of a broken packet that looks like EOT is enough to have one (see findings).

*TFTP.* Any file with fewer blocks than block numbers (below 32 MB for 16 bits;
`FewerBlocksThanNumbers`), whole blocks only or with a rest; any number of losses,
repeats, early timeouts and ports of the server; any outcome of the disk. The invariant is about what is under
way, since the network may deliver anything it has ever carried: a DATA packet carries the
block of its number; an ACK from a port stands for blocks the server behind that port has
stored; no server has more than the client has sent; the client is at the block its number
says, and has a try left while it runs. When the client gives up while it writes, an error
packet may be sent as a padded block (see findings), so what is said of the
servers ends there. Without the assumption a late DATA packet of an earlier round would be
taken for the block a round later.

Where an argument needs induction over data (a heap's levels, a list's places),
`LeastNumber` gives the least counterexample of a non-empty set of numbers and the
proof refutes that one; the library's induction rules, which take an operator, are out of
these provers' reach.

What TLC alone checks, and why:
 - every liveness property (`EveryCallSettles`, `WorkIsDone`, `TimeoutsServed`,
   `EventsServed`, `TransfersEnd`), which needs fairness and ENABLED;
 - `AcksAreTrue` and `UnknownAckIsExplained` of the MQTT client. The first joins
   CompletedWasDelivered, a theorem, with what the broker knows of its own messages, which is
   false when the broker may give an identifier to its next message while a PUBREC of the
   last one is still on its way; how soon it may is not the client's to say. The
   second counts: to each request that waits belongs one packet or one answer under way, a sum
   over two sequences;
 - `IdsAreMaxLength`, a computation of 65,535 steps;
 - `TableIsMap` and `TreeIsTimerSet`: rehash and unlinking are `FlattenSeq` and `SelectSeq`,
   and the next and previous place in the tree are found by climbing and descending
   (`Climb`, `Down`), all of them recursive: what they compute for every table or tree needs
   induction over data;
 - that the message queue `IsAMessageList`: what the list's messages cost is a sum over a
   sequence, a fold, about which every fact needs induction over data.

## Findings

Each is a run that is expected to be violated:

 - `rt_ringbuffer.c:131`, run `rt_force`: a forced put that wraps with the reader on
   the same side of the mirror as the writer leaves both mirrors and both indices equal,
   which is an empty buffer: the new data goes with the old. "When the buffer is
   full, it will discard the old data" (line 88).
 - `fifo.c:67`, run `fifo_min`: "Calculate the maximum amount we can copy" (line 66) takes the
   `MIN` of the block's length and the room, and the macro (`fifo.h:14`) computes the room
   twice. When the reader consumes in between, the amount is more than the block has: memory
   behind it is copied and published.
 - `e_mqtt.c:607`, run `mqtt_dup`: "set DUP flag for subsequent sends" sets bit 3 of
   the remaining length instead: a resent QoS 1 PUBLISH has no DUP flag, and another
   length unless that bit was set already.
 - `e_mqtt.c:743`, run `mqtt_reuse`: a finished PUBREC left in the queue makes a new
   QoS 2 message under a reused identifier look like a duplicate; it is dropped, and
   neither the callback nor the broker hears of it. `e_mqtt.h:1258` says the
   callback is called "when any MQTT_CONTROL_PUBLISH messages are received".
 - `ymodem.c:185`, run `ymodem_bytes`: a block that loses all but its last byte, which is 4,
   is read as EOT and acknowledged; the sender takes that for the block, moves on
   and returns 0, "file trasmitted successfully" (756), though the receiver never had it.

Conditions under which a property above does not hold, or a promise of the code that
it does not keep, met while choosing the instances. The runs stay within what holds;
these are its borders. Those with a constant named are reproduced by giving it that
value; the others follow from the modules' actions for the lines cited.

 - *Fifo.* `ring_buffer_read` overshoots as `ring_buffer_write` does, and then writes past the
   caller's data (95); `ring_buffer_get_data` past the end of the pool (51), and what is consumed there
   is lost (`PastEnd`).
 - *Thread pool.* With two workers (`Workers`) both pop the same slot, or one that was never
   filled, and none of the properties holds (`thread_queue.c:84-86`). A lost `size++` leaves a
   stored task for good (71), or lets a later one overwrite it. When the array comes round
   before a popped task is run, the newer task, or its function with the older argument, is
   run in its place (`threadpool.c:18`). `threadpool_add` returns 0 for a task a full queue did not take
   (`threadpool.c:96`). `threadpool_destroy` does not return while a worker sleeps in
   `epoll_wait`, whose timeout is always -1 (`thread_async.c:81`).
 - *TFTP.* A file of whole blocks is written without the empty block that ends it
   (`client.c:591`; WrittenIsComplete therefore asks that the server has seen the end only
   of files with a `Rest`). An answer on the last try is
   taken for a failure (480). A packet from another port changes the address the
   next packet goes to (410). Giving up, the client may send its last data
   packet, padded, in place of an error (710): `StoredIsPrefixInTransfer` therefore
   ends where the client gives up.
 - *ymodem.* The loop that sends the name counts no NAK, and may go on for ever once the
   receiver is past it, and so may the one that sends the empty name (569, 716; Ymodem's
   `Terminates` with losses), though "Resend packet if NAK for a count of 10 else end of
   commuincation" stands there (594, 731). Every block is copied to the
   same address (318). The CRC is not looked at (211).
   `STX_2KB` asks for more bytes than `packet_data` has room for (182).
 - *ubox loop.* `event_fd_delete` clears the number before it takes it out of epoll
   (78), so that the descriptor stays watched. `cur_fd` is never set back (349), so that
   from the second round on readable descriptors are not served.
 - *net_event.c.* A readable descriptor is reported as writable too (286); one
   registered for both is watched for reading only after its first events (296); a freed
   event_fd is still called through (269).
 - *Selector.* The timeout is stored relative and compared with the time of day (445):
   every timer is due at once, and a timer whose handler starts it again keeps
   the loop from select (699; Selector's `ReadyIsServed` with `Periodic`).
 - *Timers.* `hash_iter_prev` stops before bucket 0 (`timerfd_hash.c:308`). A stored key has no final
   zero (`timerfd.c:144-148`), so that its timer may never be found, and adding it again leaves
   two entries, though "添加一个key:value 如果key存在先删除再创建" (`timerfd_hash.c:177`). A second
   thread that adds may rehash while the loop walks along the table (`torn`). `hash_foreach`
   skips or repeats entries when a callback makes the table grow.
 - *Lock.* The answer for the owner who asks again is overwritten by the call that waits
   (`resalloc.c:76`), which matters where pthread does not detect it
   (`DetectsDeadlock` FALSE: deadlock).
 - *MQTT.* `mqtt_mq_clean` takes a CONNECT that awaits its CONNACK for finished
   (`e_mqtt.c:1767`); the CONNACK then stops the client. A refusal is overwritten by
   ACK_OF_UNKNOWN in the next `mqtt_sync` (727).

## What is not shown

 - Liveness is checked by TLC only, on the instances above; so are the results listed
   at the end of [proofs](#proofs).
 - The code's missing memory barriers: Fifo and ThreadPool keep the program's order.
 - The thread pool with more than one worker, of which nothing is claimed; that
   `threadpool_destroy` returns.
 - After a rehash has met a walk of the loop (`torn`), or a freed event_fd is called
   (`undefined`), nothing is claimed. A stored key that reads on into another number of the
   same bucket is not modelled, only one that is not found.
 - Of a registration for writing that it comes back (`net_event.c:296`): EventsServed speaks of
   reading.
 - Ymodem out of step (`InStep`) but for its types. The bytes of a packet that is misread as
   part of another are not counted: after any of them the packet may be complete. A CA that
   is the last byte of a rest is not joined with the byte that follows it. Answers are lost
   whole or arrive.
 - TFTP acknowledgements a whole round of block numbers old.
 - The packing and unpacking of MQTT packets, lines 886-1735, is not modelled yet; the
   16-bit variable for the remaining length is part of that.
 - A second thread in `mqtt_sync`, a callback that calls back into the client, and a
   reconnect callback that returns without `mqtt_connect` break the library's rules
   and are not modelled; neither is a call before the first `mqtt_sync` of a client
   made by `mqtt_init_reconnect`, which reads below a null pointer.
 - Allocation failure, `create` and `destroy` of the buffers.
 - `mempool.c`: its first refill adds objects where it means bytes (line 110) and writes
   outside its chunk, so that no state after the first allocation is defined.
 - `net_event.c`: `event_loop_delete` and the clearing functions; `timerfd.c`: times and
   `tv_nsec`, a second thread that deletes while the loop looks an entry up, and two threads
   that add at once;
   `selector.c`: descriptors outside FD_SETSIZE; a signal between the last test and
   `select`, which is served one event later.
 - The components listed as `not_modelled`: mostly third-party code (which is most of the
   repository's lines), wrappers of system calls, parsers, printers and computations over
   bytes.

## Plan

Done: buffers; message queue; MQTT client; thread pool; TFTP; ymodem; three
event loops; heaps, hash, timerfd map, lock and safe list. Next, in this order:

 1. Proofs: `SelectorHeap` as `MinHeap`, and `TimerHash` against `KeyMap`, once their
    recursive helpers are stated by what they find.
 2. `MqttCodec`: fixed header and variable length, pack and unpack against each other
    over bounded inputs, widths kept.
 3. `ringbuffer1.c`, `ringbuffer_simple.c`, the growing buffers, `deque.c`, `bsearch.c`
    against reference definitions; the lapi event and task loops; the modbus slave.
