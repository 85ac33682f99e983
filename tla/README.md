# Verification of the Micro XRCE-DDS Agent

TLA+ models of the agent, TLC runs that check them on small instances, and
theorems that TLAPS proves for every instance. Paths below are relative to the
root of the repository; `IA` stands for `include/uxr/agent` and `SC` for
`src/cpp`.

## 1. The system: parts, state, operations

The agent is a server for DDS-XRCE clients. Bytes come in through a transport
(UDP, TCP, serial, CAN, custom), become packets, and are queued for the
processing thread. The processor finds the client and its session, puts the
message in the stream it belongs to, pops what is in order and runs the
submessages: they create and delete clients and objects, write data to a
middleware (the DDS world) and read data from it. Answers and read data go out
through the session's output streams, a second queue and the sender thread. A
heartbeat thread drives retransmission and removes dead clients.

Threads: receiver, sender, processing, heartbeat and error handler of the
server; one thread for each active reader; the listener of a TCP agent; the
program's own threads that call the C++ API. They share the queues, the maps of
sessions and clients, the proxies with their sessions and streams, and the
topics of CED.

| part | source | state | operations |
|---|---|---|---|
| Sequence numbers | `IA/utils/SeqNum.hpp` | 16-bit number | order, `+`, `++`, `-` |
| Output streams | `IA/client/session/stream/OutputStream.hpp` | messages, `last_unacked_`, `last_sent_`, `first_unacked_` | push, get next, get, acknack, heartbeat, reset |
| Input streams | `IA/client/session/stream/InputStream.hpp` | messages, `last_handled_`, `last_announced_`, fragments | push, pop, heartbeat, acknack, fragments, reset |
| Session | `IA/client/session/Session.hpp` | one stream object per stream id | dispatch to the streams, reset |
| Processor | `SC/processor/Processor.cpp` | none of its own | one handler per submessage kind, heartbeat round |
| Root | `SC/Root.cpp` | `clients_`, `current_client_` | create, delete, get, iterate, reset |
| Proxy client | `SC/client/ProxyClient.cpp` | `objects_`, liveliness state, tries | create, delete objects; state |
| XRCE objects | `SC/{participant,topic,publisher,subscriber,datawriter,datareader,requester,replier}` | references to parents and children | create, matched, write, read |
| Reader | `IA/reader/Reader.hpp`, `IA/utils/TokenBucket.hpp` | running flag, thread, tokens | start, stop, read task |
| Middleware | `SC/middleware/{ced,fast,fastdds}` | entities; for CED topics with a ring of samples | create, delete, write, read |
| Session manager | `IA/transport/SessionManager.hpp` | two maps, endpoint to client and back | establish, destroy, look up |
| Packet scheduler | `IA/scheduler/PacketScheduler.hpp` | priority queues | push, pop, init, deinit |
| Server | `SC/transport/Server.cpp` | running flag, error code, threads | start, stop, five loops |
| Stream framing | `SC/transport/stream_framing/StreamFramingProtocol.cpp` | receive ring, decoder state | write, read a frame |
| TCP agents | `SC/transport/tcp/` | connection table, free and active ids | open, close, receive, send |
| Other transports | `SC/transport/{udp,serial,can,custom}` | a file descriptor | receive, send |
| Discovery, P2P | `SC/transport/{discovery,p2p}`, `SC/p2p` | threads, internal clients | announce, answer |
| Shared mutexes | `IA/utils/SharedMutex.hpp`, `SharedMutexPriority.hpp` | counter, owner, condition variable | lock, unlock |
| Agent (C++ API) | `SC/Agent.cpp` | none of its own | create, delete, write for local callers |
| Messages, types | `SC/message`, `SC/types`, `IA/types` | a buffer, a position, an endianness | write, read, size |
| Front end | `AgentInstance`, `ArgumentParser` | none | command line |

## 2. What is hard in it

Interleavings of the processing thread, the heartbeat thread, reader threads and
the thread that calls `stop`; packets that are lost, duplicated, reordered and
late against 16-bit numbers that wrap around; windows, rings, queues and tables
at their limits; a client deleted or replaced while another thread holds it;
condition variables without a predicate; submessages whose end nobody marks and
buffers whose size is computed apart from what goes in. `PROJECT.json` lists
each hazard at the line where it bites.

## 3. The modules at a glance

Each component has a module of operators or actions; components that share state
or threads are composed; the safety of the compositions is proved in modules of
their own.

| subject | modules | state |
|---|---|---|
| reliable streams | `SeqNum`, `StreamConfig`, `ReliableOutputStream`, `ReliableInputStream`, composed in `ReliableStream`; abstract: `SubmessageFifo` | checked; safety proved in `SeqNumTheorems`, `ReliableStreamProofs` |
| table of streams | `SharedMutex`, composed in `StreamTable`; abstract: `ReadersWriterLock` | checked; safety proved in `StreamTableProofs` |
| clients and sessions | `SessionManager`, `Root`, composed in `Clients` | checked; safety proved in `ClientsProofs` |
| server | `PacketScheduler`, composed in `Server` | checked; safety proved in `ServerProofs` |
| objects and CED entities | `ObjectTree` | checked; safety proved in `ObjectTreeProofs` |
| messages | `Cdr`, `XRCEConstants`, `XRCETypes`, `Fragmentation`, `Message`, composed in `Processor` | checked; the cutting into fragments proved in `SeqNumTheorems` |
| reading | `TokenBucket`, `CedGlobalTopic`, `FastDDSRequester`, composed in `Reading` | checked; safety proved in `ReaderProofs`, `RingProofs` |

`MCObjectTree`, `MCProcessor` and `MCReading` hold the values the runs give to
the constants.

## 4. The modules and the code

### Reliable streams

`SeqNum` has the operators of class `SeqNum` over numbers modulo `MAX = 2 *
Half` (`2^16` in the code, `Half` is `ADD_RANGE[1] + 1`). `ReliableOutputStream`
and `ReliableInputStream` have one operator for each member function; a variable
is the member of the same name (`last_unacked` is `last_unacked_`, and so on).
`ReliableStream` puts one output stream and the input stream at the other end
together:

| action | code |
|---|---|
| `Push` | `push_submessage`, fragments included |
| `SendNext` | the loops over `get_next_message` |
| `SendHeartbeat` | `check_heartbeats` for a stream (`fill_heartbeat`) |
| `RecvHeartbeat` | `process_heartbeat_submessage`: update, `fill_acknack`, answer |
| `RecvAcknack` | `process_acknack_submessage`: update, messages sent again |
| `RecvData` | `process_input_packet`: `push_input_message` |
| `Pop`, `EndDrain` | the loop over `pop_input_message`, with `push_fragment` and `pop_fragment_message` |
| `Lose` | a packet leaves the network |

The agent has both halves, one towards each direction; the client's half of a
stream is another program, which is taken to be the agent's own class. The
network is a set: packets are received in any order, any number of times, or
never. Its only promise is `Lifetime`: a packet is gone when the stream has
moved on by more than `Lifetime` messages. Without such a bound no window
protocol with numbers that wrap is correct. `Capacity` bounds the packets in the
network at a time; the proofs are for every capacity.

History variables say which position in the whole history a number stands for:
`log` (messages pushed), `delivered` (messages popped), `sent`, `acked`,
`submitted`, `processed`, and `pos` in messages and packets. No guard on the
code's state reads them, only `Lifetime` does.

A message is its number and which piece of which submessage it carries; sizes
and octets are left out. The time-out of `push_submessage` is a guard: a push
that times out changes nothing.

### The table of output streams

`Session::get_reliable_output_stream` looks a stream up under a shared lock;
when it is not there it gives the lock back, takes the exclusive lock, takes the
shared lock again, and creates the stream. `SharedMutex` has the two locks with
the condition variable as a set of sleeping threads: `notify_one` wakes any one,
`notify_all` all, and threads also wake up for no reason. `StreamTable` has the
stages of a call for any number of threads: those that use one stream, and
`get_output_streams`, which goes through the table (target `All`).
`ReadersWriterLock` is what the mutex promises: sets of readers and writers,
without counter, flag and condition variable. In `ImplementsLock` a thread is a
reader or a writer in it by the stage of its call.

### Clients and sessions

`SessionManager` has the two maps, `Root` the map of clients with its iterator
and the liveliness of a proxy. `Clients` has the threads. A step is one critical
section, and `proc`, `hb`, `api` hold where a thread is and its local variables:

- the processing thread: `RecvCreate` … `Establish` is
  `process_create_client_submessage`, `RecvPacket` … `Done` is what any other
  packet does to the client (`process_input_packet`, and
  `process_delete_submessage` of a client);
- the heartbeat thread: `NextClient`, `Rewind`, `GetState` … `RemoveDestroy` is
  the loop of `check_heartbeats`, with the unlocked read and write of the tries
  counter as two steps;
- a caller of `Agent::create_client` and `delete_client`: `LocalCreate`,
  `LocalFind`, `LocalErase`;
- `Silence`: a client is not heard of for `client_dead_time_`.

Proxies live on a heap, `proxy`; one that neither the map nor a thread refers to
is freed. `hard_liveliness_check_tries_` starts with any value of `Garbage`,
since the constructor does not set it, and counts modulo `TriesMod` (256).

### The server

`PacketScheduler` has the queues as records, `Server` the threads of
`Server<EndPoint>`: `Receiver`, `Sender`, `Processing`, `HeartbeatThread`,
`Handler`, and the thread that calls `start` and `stop`. Packets are numbers in
the order in which they arrive or are made. `waiting` is the wait set of
`error_cv_`, `handling` says that the error handler holds `error_mtx_`. The test
of the predicate in the handler's `error_cv_.wait` and its falling asleep are two
steps (`HandlerLock`, `HandlerSleep`), because `stop` changes `running_cond_` and
notifies without `error_mtx_`. A
transport may fail at any receive or send (`Errors`). The wait of
`PacketScheduler::pop` is a guard: one thread pops from each queue, and every
step that makes its predicate true notifies.

### Objects

`ObjectTree` has each client's `objects_` and CED maps, and the heap of CED
objects with their `shared_ptr` ownership: an object is destroyed by the step
that drops its last holder. A step is what happens between two acquisitions of
the mutex of `CedTopicManager`, through which clients meet; a global topic's
destructor waits for it, which is a state of its own (`unregistering`).

| action | code |
|---|---|
| `CreateObject` | `process_create_submessage`, `ProxyClient::create_object` with its four modes; creates directly, refuses, or deletes what is to be replaced |
| `Recreate` | the creation after that deletion |
| `DeleteObject` | `process_delete_submessage` of an object |
| `release`, `ReleaseObject` | `ProxyClient::release` by the heartbeat thread, object after object |
| `unregister_topic` | the end of `~CedGlobalTopic` |
| `Race` | the processing thread uses the `objects_` that are being cleared |

Three things the code can do are undefined behaviour: `Race`; the null topic of
`register_topic` when the entry has expired; a subscriber's reference to an
erased participant. Each sets `fault` and ends the behaviour, because nothing
can be said about what follows. The properties are about everything up to there.
Answers (`STATUS`) are left out.

The agent puts the kind of an object into its id and into the id of its parent,
whatever the client has sent there; `CREATE` is the set of creations that
remain. A CED object is named by its owner and a number (`Fresh`), so a number
is used again when its object is gone, as an address is.

### Messages

`Cdr` is what the agent uses of Fast-CDR, over descriptions of types: writing,
reading and measuring a value at a position of a buffer. `XRCEConstants` has the
protocol's constants, `XRCETypes` one
description for each class of `types/XRCETypes.hpp`: its members, the order in
which `serialize` and `deserialize` visit them and what `getCdrSerializedSize`
counts, which is another matter in many classes. `Message` has `OutputMessage`,
`InputMessage` and what `push_submessage` of the three kinds of output stream
does to octets, with the loop that cuts a large submessage in `Fragmentation`;
`Processor` has the handlers:

| action | code |
|---|---|
| `SendInSession`, `SendOutOfSession` | a client puts submessages into messages, in either endianness, whole or in fragments |
| `process_input_packet`, `process_input_message_end` | the loop over a message, and the ACKNACK after it |
| `process_create_client_submessage`, `process_delete_unknown`, `process_get_info_packet`, `process_discovery_packet`, `ignore_packet` | packets outside of sessions or of no client |
| `process_*_submessage`, `ignore_submessage` | the cases of `process_submessage` |
| `read_data_callback`, `read_request` | a reader delivers a sample or, at a replier, a request |
| `check_heartbeats` | HEARTBEAT or the ping of the liveliness check |
| `ClientsRead` | what was sent has been looked at; the next message may come |

Octets are numbers, integers of several octets are sequences of them. The
outcomes of calls into streams, objects and clients are chosen: the other
modules say which can happen. `written` and `handled` are what the client meant
and what the handlers got.

### Reading

`Reading` has one data reader or requester, its thread and the processing
thread. `thread_` is where the read task is, `processing` where the handler of
`READ_DATA` or of the deletion is.

| action | code |
|---|---|
| `begin_read`, `wait_ced`, `wait_reply` | `read_fn`: a sample at once, or one that comes while waiting, or the time-out |
| `consume`, `awake` | `TokenBucket::consume_tokens`, before and after its sleep |
| `push`, `push_times_out` | `read_data_callback` into the reliable stream |
| `stopped` | the loop's condition |
| `process_read_data`, `join`, `start_reading` | `process_read_data_submessage`: `stop_reading`, `start_reading` |
| `delete_datareader`, `delete_requester` | the destructors, which stop the thread at different moments |
| `process_write_request`, `record_request` | `FastDDSRequester::write`: the request is out before it is in the map |
| `write_topic`, `service`, `process_acknack`, `tick` | writers, repliers, the client, time |

`CedGlobalTopic` has the ring of samples with its numbers modulo `MAX`, lapped
readers included; `FastDDSRequester` the map of requests; `TokenBucket` the
bucket with its unsigned arithmetic, in ticks of which `Second` make a second.
Time is relative: `timer`, `left` and the bucket's age count ticks, so the
states stay finite. `taken`, `written`, `spent` and `served` are history.

## 5. The runs

| run | instance | checks |
|---|---|---|
| `stream_safety` | `ReliableStream.cfg`: 16 numbers, depth 2, up to 2 fragments, 4 submessages, 2 packets at a time | whole submessages in order, nothing dropped too early, no skipping, `at()` finds its message, bounded windows, sensible NACKs, refinement of `SubmessageFifo` |
| `stream_live` | `ReliableStreamLive.cfg`: one submessage of up to 2 messages, any number of packets | it is acknowledged in the end; refinement of the fair queue, so it is processed |
| `stream_capacity` | violation | the depth does not bound the messages kept |
| `stream_table` | 3 threads, 1 stream, 2 calls each | no data race, one object, no lost wakeup, every call returns |
| `clients_threads` | 1 key, both kinds of session id, liveliness checks and local calls | nothing freed is used, a silent client is removed |
| `clients_turns` | 2 keys, 2 endpoints, no liveliness checks | the iterator is valid, the maps agree, endpoints lead to clients, every client gets its turn |
| `server_queues` | queues of 2, 3 packets in, 3 out, errors | bounded queues; order of processing and of sending |
| `server_live` | queues of 1, errors and stop | errors are handled, `stop` returns or a thread sleeps at `error_cv_` |
| `server_stop_hangs` | violation | `stop` may not return |
| `objects` | 2 clients, 2 topic names, 1 domain | objects and entities match, one global topic, exact registers, writers at home, replacements |
| `messages` | `MCProcessor`: 2 clients, every kind of submessage | handlers get what clients wrote; what is sent arrives as it was meant |
| `reading` | `MCReading`: ring of 2, 5 samples, 2 reads, 2 requests, 3 replies | the thread is joined, the join ends, order of samples, nothing taken is lost, the rate is kept, replies name their requests |

`SentAsMeant` has one exception besides what is too large for a stream without
fragments: `check_heartbeats` computes the size of a ping from the header the
client before has left, and after a client without a key in its header the
buffer for one with a key is too small. `TakenInOrder` has two: a reader that is
lapped during one wait, whose place `read` does not fix, and one behind by a
whole turn of the numbers. `RateIsKept` is about rates above one octet per
second: at one, the wrapped difference in `consume_tokens` makes a negative wait
and the bucket grants at once. `ReadsWhatExists` is about data readers: the
destructors of requester and replier delete the middleware's object first and
stop the thread that reads from it afterwards. `RoutedToClients` is
about clients without keys in their headers and without liveliness checks and
local calls: a `DELETE` with a key may come from another endpoint, and the
heartbeat thread may remove a client before its session is established.

### Bounds, and why they are enough

- Streams: the windows (`Depth`, `MaxFragments`, `Lifetime`) are as large
  against the numbers as `StreamAssumption` and `LifetimeAssumption` allow, so a
  comparison one number off goes wrong. Numbers start at the last one before the
  wrap, so the first message wraps; that later turns are no different is what
  the proofs show. Four submessages fill a window of 2 and leave fragments
  across its end. Two packets at a time are enough to
  overtake and to repeat (a set needs one element for a repetition); the proofs
  are for any number.
- `stream_table`: three threads are two that miss at the same time and one that
  sleeps or goes through the table; two calls each let one return and find what
  it made.
- Clients: one key with two session ids is enough for a creation or a
  replacement to race with a removal, two addresses for a new proxy beside the
  one a thread still holds. Two keys are
  needed for the iterator and for endpoints that change clients. `TriesMod` of
  5 keeps the test `== 3` and the turn of the counter: from 4 it has to go
  round.
- `server_queues`: three packets overfill a queue of two. `start` after `stop`
  (`MaxStarts` 2) is in the model and outside the bounds of the runs.
- `objects`: `MCObjectTree` says which objects the clients create: one a
  participant, a topic that is given two names, a publisher and a writer with
  three ways to name its topic; the other a participant, a topic of the same
  name, subscriber, readers and a requester, which CED refuses. Names `a` and
  `b` under one id make replacements that do not match.
- `messages`: every branch of every union, optional members there and not
  there, strings and data of lengths that do and do not end at a multiple of
  four, in either endianness and followed by a submessage in the other; one
  client has a key in its headers and may come back without. The mtu of 16
  makes answers go out in fragments, the one of 64 whole. Octets of members
  differ, so an exchange of two shows.
- `reading`: `Half` 3 and a ring of 2 divide as 2^16 and 16 do. Five samples lap
  a reader and go nearly round the six numbers; a window of one makes the second
  push wait for an ACKNACK. Two `READ_DATA`s are one to stop. `MCSizes` are
  samples a rate of four lets through at once, later, and never. Two requests of
  one's own, one of another requester and three replies are enough for a reply
  that comes twice, before its entry, or to another. `max_samples` 0 is left to
  the proofs (`message_count` comes back to 0 after 2^16 samples).

### Fairness

- `ReliableStream!FairSpec`: weak fairness of the loops that send and pop and of
  the heartbeat thread's round (`HEARTBEAT_PERIOD`), which wait for nobody;
  strong fairness of receiving the current heartbeat, the current
  acknowledgement and the message that is due: what is sent over and over
  arrives some time. Nothing is assumed of any single packet.
- `StreamTable!FairSpec`: a thread inside a call runs. The mutex `mtx_` of
  `SharedMutex` is inside the steps.
- `Clients!FairSpec`: both threads run, and time passes. No packet needs to
  come.
- `Server!ThreadsRun`: every thread that can take a step does, and the processor
  ends each packet. `ErrorsEnd` adds strong fairness of getting `error_mtx_`
  (the handler gives it back after each error) and of `handle_error` succeeding
  in the end. Without the latter the handler's loop may go on for ever, as the
  code says it should.

- `Reading!Fairness`: both threads run and time passes. Nobody has to write,
  reply, acknowledge or come back; that is why `JoinEnds` says something: the
  join ends by the time-outs of the read task alone.

### Two disagreements

- A test says of a reliable stream that no more than `RELIABLE_STREAM_DEPTH`
  messages are pushed
  (`test/unittest/client/session/stream/OutputStreamTest.cpp:167`). Fragments
  are pushed together behind one test of the window, so there can be more;
  `BoundedOutput` is the bound that holds.
- `Server::stop` can wait for ever. It clears `running_cond_` and calls
  `notify_all` without `error_mtx_`, so both may come after the error handler has
  tested its predicate and before it sleeps: then nothing wakes it. No transport
  error is needed. After an error the same happens to the receiver and the
  sender, which test `running_cond_` before they wait, without a predicate.
  `StopReturnsOrSleeps` shows, and `StopIsKeptBySleepOnly` proves the safety half
  of it, that there is no reason besides a sleep at `error_cv_`.

## 6. The proofs

All theorems are for every value of the constants that satisfies the named
assumptions, and rest on safety (`Spec`) only.

- `SeqNumTheorems`: `operator<` on numbers is the order of the positions they
  stand for when those are less than `Half` apart (`SerialOrder`, from
  `HalfAssumption`). And about the loop of `push_submessage` that cuts a
  submessage of `size` octets into fragments of at most `max`: for every `size`
  below 2^16 and every `max`, the i-th turn begins at `(i - 1) * max`, where the
  one before ended, the last one ends at `size` and so the loop; no fragment is
  empty or too large, and every octet is in exactly one (`FragmentsTile`). The
  code tests the rest against `max` in each turn and adds up in 16 bits; the
  proof goes turn by turn (`OneTurn`) and finds a position's fragment by
  division. From 2^16 octets on the 16-bit offset never reaches `size`
  (`LargerNeverEnds`), so the bound is the code's own.
- `ReliableStreamProofs`: `InOrderDelivery` and the others are not inductive,
  for they say nothing about the numbers that guards compare. `IInv` ties every
  number to a position (`last_handled = NumberOf(Len(delivered))`, …), says that
  `acked =< Len(delivered)`, that the sender keeps exactly the positions after
  `acked`, that the receiver keeps some of the window after `delivered`, and
  that every packet says what was true when it was sent (`PacketTrue`). `acked`,
  `sent` and the pushed end are less than `Depth + MaxFragments` apart, and
  packets are at most `Lifetime` old, hence the positions that a guard compares
  are close enough for `SerialOrder`. Three more invariants rest on it.
  `AnnouncedInv`: the announced number, and the last one of a heartbeat, are
  those of messages that were pushed, which makes `NacksAreOutstanding` follow.
  `PiecesInv`: the log is the pieces of the submessages one after the other.
  `ReassemblyInv`: the buffer of fragments holds the pieces of the submessage
  that is due up to the message the receiver waits for; so a submessage is
  complete exactly when its last piece is popped (`WholeSubmessages`), and each
  step of the stream is a step of `SubmessageFifo` or a stutter
  (`StreamImplementsFifo`). `BoundedOutput` counts the positions after `acked`.
  Assumptions: `StreamAssumption` (the windows and the bitmap are smaller than
  half the number space) and `LifetimeAssumption`.
- `StreamTableProofs`: `shared_counter` is the number of threads in a stage that
  holds the shared lock (`LockInv`), sleepers are at the two locks only, and
  whoever could go on has been woken or another one that can has (`WaitInv`);
  what a thread knows of the table stays true (`TableInv`). Under the mapping
  that takes a thread's stage for what it holds, a step of a thread changes one
  of the two sets by that thread at most, and the mutex's tests mean what the
  lock's guards say because of `LockInv`: the counter is the number of readers.
  So the mutex implements `ReadersWriterLock` (`MutexIsALock`). Assumptions:
  `ThreadAssumption` (finitely many threads) and `TableAssumption`.
- `ClientsProofs`: the two maps (`SessionInv`), the map with its iterator
  (`RootInv`) and the local variables of the threads (`ProcLocals`) are each
  preserved by every operation of every thread; a proxy is freed only when no
  thread refers to it. `RoutedToClients` is proved under `Unchecked`, the
  conditions its comment names: then nobody but the processing thread erases
  clients or changes sessions (`Soft`), an endpoint leads to a client unless its
  session is the next thing to go, and what the handler has read of its endpoint
  is still so (`Routes`). `NobodyIsSkipped` is the safety behind
  `EveryClientHasItsTurn`: no step of any thread takes the iterator past a client
  without handing it to the heartbeat thread, or back to one, since erasing the
  element under the iterator moves it to the next one only (`Following`).
- `ServerProofs`: a queue holds packets in the order of their numbers, all after
  the last one taken (`Holds`), and the packet in the sender's hand lies between
  those sent and those queued (`InFlight`), so putting it back keeps the order
  and makes the queue one packet too long at most. Queues have their limits
  while any thread runs (`Sized`). For every size of queue, any number of
  packets and restarts. The error protocol has its own invariant
  (`ErrorInv`): who waits for the end of an error finds it still reported, and
  the handler sleeps, or is about to, only when no error is reported, hence
  alone. So the `notify_one` of the first report can wake nobody but the
  handler, the later ones find it awake, and only the handler takes a report
  back, waking all. That gives `ErrorsAreNoticed`, the safety behind `ErrorsAreHandled`. `StopInv` says
  how far `stop` has come in terms of the queues and `running_cond_`, which gives
  `StopIsKeptBySleepOnly`.
- `ReaderProofs`: `Life` says that `running_cond_` means that there is a thread
  to join, that it is false only without a thread or with the processing thread
  on its way to join, and that a data reader is in the middleware until the join
  is over. `Asking` says that the entries of the map and the reply in hand are
  for recorded requests that had no reply yet. For the rate, what is spent and
  what the bucket holds are together within the capacity, counted at the time
  `timestamp_` says, which lies ahead only while the thread sleeps until it
  (`Earned`); a negative time-out, which would grant tokens of the past as if of
  the future, is at most as long as time has passed since `timestamp_`
  (`Elapsed`).
- `RingProofs`: sample n is in the slot of its number (`Ring`), and the reader's
  number is that of a position up to which it has had all it may have (`Place`).
  That a search finds the next sample takes a least element (`LeastExists`, from
  well-founded order) and `SerialOrder`. Assumption: `HistoryAssumption`, the
  ring is smaller than half the number space and divides it. `RateKept` is here
  because the bucket is asked for the sizes of samples that a read found.
- `ObjectTreeProofs`: `TreeInv` says what each object refers to. An entity
  refers to a participant and a topic that exist, and a writer's topic is one of
  its own participant (`EntityInv`); a participant's register and the topics
  that name it are each other's inverse (`ParticipantInv`, `TopicInv`); a live
  global topic is the registered one of its key, and an entry whose topic is
  dead has a destructor waiting for it (`GlobalInv`, `EntryInv`); while a
  replacement is between its halves, the old object is gone (`ThreadsInv`). A
  destruction takes away exactly what no entity holds any more (`LiveFacts`),
  and what is left holds on to nothing that went. A new object needs a free
  address: a step adds one participant and one topic at most (`OneMore`), so
  they stay finitely many (`FiniteInv`), and among one more numbers than there
  are objects one is free (`FreshFacts`, by the pigeonhole principle).
  Assumptions: `CreationsAssumption` (creations are in `CREATE`) and
  `NoneAssumption` (`None` is not an address).
Assumptions on constants (`ServerAssumption`, `ReadingAssumption`,
`RequesterAssumption`, `SecondAssumption`, …) are types and the facts about the
code's constants named above.

Only model-checked: all liveness (fairness is out of the prover's reach), the
fair half of the refinement of `SubmessageFifo` included; that the loops of
`NobodyIsSkipped`, `ErrorsAreNoticed` and `StopIsKeptBySleepOnly` get anywhere,
which are the liveness properties beside them; and the messages
(`ReadAsWritten`, `SentAsMeant`), since what recursive definitions compute for
every value is an induction over data. Every other invariant and action property
that a run checks is also a theorem.

## 7. What is not modelled

- `reset` of streams and sessions: nothing says what becomes of packets and of a
  half-received submessage. The queues of none and best-effort streams.
- TCP connections and framing, `SharedMutexPriority` with the multi-serial
  agent: the hazards of the connection table are listed, no module models it.
- Fast RTPS, and Fast DDS beyond requester and replier; sockets and devices;
  the threads of discovery and P2P; callbacks: state of other programs and
  libraries, or plain I/O.
- Logging, command line, XML profiles: no state the properties concern.
- The octets of submessages of 64 KiB and more, where the 16-bit size in
  `push_submessage` wraps (`LargerNeverEnds` is about the loop only).
- Reader threads that push packets after `stop`, and local calls on objects from
  a second thread.
