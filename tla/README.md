# A TLA+ model of the msgr messenger

`msgr` is an asynchronous messenger library (an offspring of Ceph's
AsyncMessenger): applications exchange typed messages over TCP connections that
reconnect by themselves, keep their messages until they are acknowledged, and
resolve the races that arise when both ends connect, break and reset at the same
time. This directory holds TLA+ modules of its core, the TLC runs that check
them, and proofs for TLAPS.

Paths below are relative to the repository; `AsyncConnection.cc` and the like
are under `src/async/`.

## 1. Inventory

| Component | State it keeps | Operations | Talks to |
|---|---|---|---|
| AsyncConnection (`AsyncConnection.cc/.h`) | `state`, socket, `connect_seq`, `global_seq`, `peer_global_seq`, `in_seq`, `in_seq_acked`, `out_seq`, `out_q`, `sent`, `replacing*`, flags | `send_message`, `mark_down`, `stop`, the state machine in `do_process`/`_process_connection`, `handle_connect_msg`, `handle_connect_reply`, `do_replace`, `fault`, `_stop`, `handle_write` | the peer's connection through a socket; the registry and `global_seq` of its messenger; the dispatch queue; the policy's throttles |
| AsyncMessenger (`AsyncMessenger.cc/.h`) | `conns`, `accepting_conns`, `global_seq`, `started`, `did_bind`, `shutdown_called` | `bind`, `start`, `ready`, `shutdown`, `wait`, `rebind`, `get_connection`, `add_accept`, `mark_down_all` | connections, Processor, WorkerPool, DispatchQueue |
| DispatchQueue, FIFOQueue (`DispatchQueue.cc/.h`, `FIFOQueue.h`) | strict and ordinary queues, `stop_`, local messages, arrival times | `enqueue`, `fast_dispatch`, four notices, `discard_queue`, `entry`, `run_local_delivery`, `shutdown`, `wait` | event threads on one side, the application's dispatchers on the other |
| Throttle, SimpleThrottle (`Throttle.cc/.h`) | `count`, `max`, FIFO of waiters | `get`, `get` with callback, `wait`, `take`, `get_or_fail`, `put`, destructor | readers (blocking event threads), messages (destructor) |
| Worker, WorkerPool, EventCenter (`AsyncMessenger.cc`, `Event.cc`) | event loops, external events, `barrier_count` | run handlers, `barrier` | connections |
| Processor | listening socket | `bind`, `rebind`, `accept`, `stop` | AsyncMessenger |
| LocalConnection | `shutdown` | `send_message`, `stop` | DispatchQueue |
| Message, RefCountedObject, buffers, encoding, addresses, checksums, pthread wrappers, configuration, logging | see `PROJECT.json` | mostly sequential helpers | |

What is hard here, and what makes each part correct:

* **Session protocol.** Sockets break at any point of a handshake or a message;
  both ends may connect at once; an incoming attempt takes over an existing
  connection on a timer; locks are released in the middle of a handshake; a peer
  may have lost its state. Correct means: in order, once, no gap the sender does
  not know of, and everything settled in the end.
* **Dispatching.** Event threads, a dispatch thread, a local thread and a
  shutdown run at once; notices and messages share a queue. Correct means: order
  per connection, messages stay within the notices of their session, nothing
  sleeps while there is work, shutdown drains.
* **Throttles.** FIFO hand-over of wakeups, a limit that moves while callers
  sleep, callback requests. Correct means: the limit holds, no wakeup is lost,
  every waiter is served, `put` never trips its assertion.
* **Writing.** Application threads and the event thread write to one socket with
  the lock released during `sendmsg`, while faults and replaces queue messages
  again. Correct means: messages whole and in order, each kept in one place, what
  is left to the event thread scheduled, nobody waiting for himself.
* **Reading.** Reads cut short anywhere, a prefetch buffer the event loop does not
  see, units of two throttles taken on the way. Correct means: every byte used
  once, nothing stranded, units back on every path.
* **Life cycle.** Application threads call start, rebind, shutdown and wait at the
  same time; workers are reached through event queues and a barrier. Correct
  means: no assertion fails, shutdown leaves nothing behind, every call returns.
* **Buffers.** Lists of segments that share raw memory, appends in place, a cached
  iterator. Correct means: the same as on plain byte sequences.

## 2. Modules

| Module | What it is |
|---|---|
| `Session`, `MCSession` | the session protocol of AsyncConnection, two nodes; policies of `Messenger.h` and scenarios |
| `Delivery` | abstract specification: what a lossless connection promises two applications |
| `Writer`, `MCWriter` | the write side of one connection, at the level of its lock |
| `Reader`, `MCReader` | the read side of one connection: `do_process`, `read_until`, throttle units |
| `DispatchQueue`, `MCDispatchQueue` | DispatchQueue, the FIFOQueue operations it uses, LocalConnection, `AsyncMessenger::shutdown` |
| `Lifecycle`, `MCLifecycle` | AsyncMessenger, Processor, Worker and WorkerPool: calls of application threads, events, barrier |
| `Throttle`, `MCThrottle` | the counting throttle |
| `BufferList`, `MCBufferList` | `buffer::list`: segments, raws, append buffer, cached iterator |
| `ByteLists` | abstract specification: what `buffer::list` promises its callers |
| `Subsequences` | the subsequence of a sequence at given positions, with which queues are filtered |
| `ThrottleProofs`, `DispatchQueueProofs`, `ReaderProofs`, `LifecycleProofs`, `WriterProofs`, `SessionProofs`, `SessionDeliveryProofs`, `SubsequencesProofs` | theorems |

How they fit together: `Session` takes a socket as two queues of whole items and
a dispatch as one step. `Writer` and `Reader` open up what is between a connection
and its socket on either side, with the handshake as one exchange; `DispatchQueue`
opens up what follows a dispatch; `Lifecycle` keeps of connections only that they
are registered, stopped and released, and of the dispatch queue its threads.
`Throttle` is what `Reader` relies on when it takes units (`OverLimit` is the same
rule), `BufferList` what `Writer` relies on when it treats `outcoming_bl` as a
sequence that is appended to and trimmed.

A definition whose comment begins with "Mutant" is a deliberately wrong version
of the definition it precedes; no specification uses it. `PROJECT.json` says
which property notices each of them.

### Session

Two nodes, `1` and `2`; the smaller address is node 1, which is what decides a
connection race. `conn[n][i]` is a connection object, `conns[n]` the slot that is
registered for the peer's address (`AsyncMessenger::conns`), `sock[s]` a TCP
connection with one queue per direction. A step is what one handler does while it
holds `AsyncConnection::lock`:

| Code | Action |
|---|---|
| `AsyncMessenger::get_connection` + `send_message` | `send_message` (`send_existing`, `send_new`) |
| `mark_down`, then `C_stop` in the event thread | `mark_down`, `C_stop` |
| `STATE_CONNECTING` | `Connect` |
| `STATE_CONNECTING_WAIT_BANNER` ... `SEND_CONNECT_MSG` | `RecvBanner` |
| `handle_connect_reply`, `STATE_WAIT`, `CONNECTING_WAIT_ACK_SEQ`, `CONNECTING_READY` | `handle_connect_reply` (`reply_*`) |
| `Processor::accept`, `add_accept`, `STATE_ACCEPTING` | `add_accept` |
| `handle_connect_msg` up to the unlock before `_accept_conn` | `handle_connect_msg` (`Decide`, `_reply_accept`, `accept_replace`, `accept_open`) |
| the rest of it: announcing the connection, reply, `replacing = 0` | `accept_reply` |
| `STATE_ACCEPTING_WAIT_SEQ` | `RecvSeq` |
| `ev_replace` timer | `handle_replace` |
| message and ack tags | `RecvMessage`, `RecvAck` |
| `handle_write` | `WriteMessage`, `WriteAck` |
| read or write error: `do_replace` or `fault` | `SocketError` |
| the network | `Break` |
| a process that ends and starts again with the same address and nonce (`tests/client.cc` and `tests/server.cc` use fixed nonces): a new `AsyncMessenger` | `Restart` |

`ACCEPTING_REPLY` is the one state the code has no name for: the handshake
between releasing its locks and sending READY. In scenarios with `preempt` other
handshakes may run in that window, as they may in the code. Two steps of the code
that read nothing in between are one step here, banner and addresses are one
item, and all messages have one priority. Authorizers, feature and protocol
refusals, keepalives (also the one sent to the existing connection on the WAIT
path, `AsyncConnection.cc:1709`), TAG_CLOSE and the throttles are left out. A message counts
as dispatched when it is handed to the dispatch queue. `send_new` is
`get_connection` and `send_message` in one step: until something is queued the new
connection has nothing that another step of the model could read or change, and an
application that asks for a connection without sending is left out.

A failed write of the in_seq that answers SEQ ends as every failure in
`do_process` does, in `do_replace` if a replace waits and in `fault` otherwise
(`fail`), on the connection whose queue was already cut (`reply_SEQ`).
`queue_reset` is set where the connection is announced: not when another attempt
is to take it over, and either way when that attempt or `mark_down` comes
while the application is told (`Announces`).

`submitted`, `got`, `ever` and `dropped` are history: what the applications sent,
what was dispatched in the receiver's current session and ever, and what a sender
lost with its knowledge (it marked the connection down, is told of a reset, or
ended).

### Delivery and the refinement

`Delivery` has three actions: an application submits, a message is dispatched
that no owed message precedes and none in this session follows, a session ends
and what its owner had queued may be given up. `Session` is checked to implement
it (`ImplementsDelivery`); the mapping is the identity on the history variables.

### DispatchQueue

`high_queue` and `queue` are the two parts of FIFOQueue; `thread` and `local` are
the two threads, whose steps are the iterations of `entry()` and
`run_local_delivery()`; a connection's event thread announces it
(`queue_accept`), queues or fast-dispatches messages, and on a session reset or a
stop discards (`session_discard`, `stop_discard`) and announces
(`queue_remote_reset`, `queue_reset`) in two critical sections, as the code does.
`down` is the progress of `AsyncMessenger::shutdown()`: `mark_down_all`, barrier,
`LocalConnection::stop`, local thread joined, dispatch thread stopped. `held` counts,
for each message, the units of the policy's message throttle that are taken for it,
so that a unit returned twice shows. `seen` is what the application was told. A
connection that `mark_down()` stops discards its queue and announces nothing
(`stop_marked_down`); one that is stopped with `queue_reset` set announces its reset.
A connection whose handshake was under way may still be announced after
`mark_down_all` has asked it to stop. One that the application makes after
`mark_down_all` is stopped by nothing in the code, and is left out.

### Writer

`con` is what `AsyncConnection::lock` protects; the operators on a record are the
functions of the code. A step is what a thread does between two points at which
the lock is free: `sendmsg` inside `_try_send`, `cond.Wait` in `wait_sending` and
`mark_down`, and the gap before `_stop`. A message is two pieces on the wire, so
that it can be cut by a broken socket or mixed with another writer's.

| Code | Action |
|---|---|
| `send_message`: queue, or write directly | `send_message`, then `do_sendmsg`, `SentDirect` |
| `handle_write` of the event thread | `handle_write`, then `do_sendmsg`, `sent_event` |
| `send_keepalive`, received keepalives and messages that must be answered | actions of the same names |
| `fault`, `do_replace`, `requeue_sent` | `ReadError`, `handle_replace` |
| `mark_down`, `mark_disposable`, `_stop` | `mark_down` and the event thread's steps |

When `_stop`, `fault` or `do_replace` clears `outcoming_bl` under a thread inside
`sendmsg`, what that thread does next is undefined (it trims bytes that are not
there). `Intact(t)` guards its next step: behaviours are followed up to that
point, and run `writer_trim` shows that it is reached.

### Reader

Bytes are numbered by their position in the stream of the present socket;
`items` says what they mean. A step is one iteration of `do_process` or one
`read()`, which returns any part of what has arrived. `messages_taken` and
`bytes_taken` are the units and bytes taken from the policy's throttles, and `live`
the messages that exist. `mark_down` (or the `stop` of a shutdown) sets `stopping`,
which ends the loop of `do_process` where it is, and `C_stop` follows. `do_replace`
leaves a timer that was set earlier. Decoding and check sums are outcomes that the
stream names.

### Lifecycle

A thread runs a script of calls; a call is split where it waits or holds only
`start_lock`. `events[w]` is the queue of external events of worker `w`, served
in order; accepting takes a step of its own between `accept()` and `add_accept()`.
An assertion of the code that fails sets `aborted`, and the process ends.
`mark_down` posts `C_stop` once; the code posts it again each time it wakes up
without finding the connection closed, and all but the first find it closed.
`bind` always leaves the messenger with an address: binding to an empty one, which
keeps `need_addr` until a peer says what the address is, is left out.

### BufferList and ByteLists

`mem[r]` are the bytes of a raw, free when nothing refers to it; `bl[l]` has the
segments, `_len`, the append buffer and `last_p`. `last_p.p` is the segment it is
in, moved as nodes are put before it, `Gone` once its node was erased. The loops
of `advance`, `copy`, `substr_of`, `splice` and `zero` are recursive operators
that go from segment to segment as the code does. `ByteLists` knows only
sequences of locations and the byte at each; `ImplementsByteLists` maps a list to
the locations of its segments. Assigning to a list makes its `last_p` `Gone`, also
where the library's list would reuse the node; no program of the run looks at
`last_p` after that. `call` records what was called with what, so that
each step is compared with the operation it claims to be.

### Throttle

One call is several steps: locking and `_reset_max`, `_wait`, each iteration of
`signal_first`, adjusting `count`. `pc` says where a thread is in its call.
Waiters are threads on a condition variable or callback requests. `out` counts
units callers still have to return; the environment returns no more than it was
granted.

## 3. Runs

All bounds are constants in the `.cfg` files or fields of the scenarios in the MC
modules; a scenario is chosen in the initial state, so that one run covers several
of them. Deadlock checking is off where the system may finish: every message
dispatched, every script ended, or the throttle destroyed.

| Run | States | Checks | Shows |
|---|---|---|---|
| `session` | 729 355 | `TypeOK` `NoSilentLoss` `RepliesFit` `SameSession` `NoOldMessage` `EveryMessageSettled` `ImplementsDelivery` `NeverOlder` | lossless peers that connect to each other at once with a socket breaking anywhere; a sender whose sockets break twice, so that an acknowledgement is lost in a reconnect of a reconnect; a lossy client that faults, marks down, restarts and comes back; a lossless client of a stateful server whose process restarts, with one broken socket, where `was_session_reset` may pick a number below or above those in use and every message is to be settled |
| `writer` | 119 030 | `Framed` `SamePriorityInOrder` `KeptOnce` `Awake` `EveryMessageOut` `MarkDownReturns` | two application threads and the event thread; a broken socket before or after opening, a replace, keepalives and acknowledgements, mark_down twice, a lossy connection |
| `reader` | 858 477 | `Contiguous` `NothingStranded` `UnitsAccounted` `InSequence` `BytesFollowMessages` `EveryMessageDelivered` | two messages with parts smaller and larger than the prefetch buffer among other items, bad ones, a socket that breaks or is replaced at any byte, a connection that is stopped at any moment |
| `dispatch` | 517 545 | `TypeOK` `Fenced` `Conserved` `AllTold` `NothingLeft` `InOrder` `EveryItemHandled` `ShutdownEnds` | a connection with two messages of three priorities (one below LOW), a session reset and a local message, or two connections with two messages each, either of which may be discarded between those of the other; connections marked down, shutdown at any time |
| `lifecycle` | 154 417 | `NoAbort` `ShutdownComplete` `OldConnectionsStop` `ReleasedOnce` `CallsReturn` | a server run by one thread and shut down, unbound, marked down or used by another; a rebind whose bind fails; a client that is waited for, shut down twice and started again; two messengers shut down at once |
| `throttle` | 108 211 | `CountAccounted` `NoLostWakeup` `LimitRespected` `EveryWaiterServed` | every kind of call, amounts below, at and above the limit, a limit that moves, a callback request, the destructor |
| `buffers` | 148 948 | `TailPrivate` `CursorAgrees` `ImplementsByteLists` | programs of four to six calls on one or two lists: one that reads and writes at offsets, one that moves bytes between lists, one that cuts lists up, one that reshapes them |

Runs that exhibit a disagreement between the code and what it says of itself:

| Run | Property | What happens |
|---|---|---|
| `session_forget` | `NoOldMessage` | a client that marked down and connects again during a replace is taken for its old session; its messages are discarded as old and acknowledged |
| `reader_bytes` | `BytesReturned` | `pre_dispatch` sets `dispatch_throttle_size` to 0 (`DispatchQueue.cc:44`) before `~Message` returns that number (`Message.h:113`): the bytes of a message that was dispatched never go back to the byte throttle, against the comment at `Message.h:49` |
| `writer_trim` | `TrimSafe` | the output buffer is cleared under a thread inside `sendmsg` |
| `writer_queued` | `DataScheduled` | a message queued while another thread writes its own directly stays in `out_q` with no write scheduled |
| `lifecycle_restart` | `NoAbort` | the calls of FeatureTest: a client that is shut down, waited for and started again joins, in its second shutdown, a thread that was never started |

The exceptions that these force on the passing runs are part of the properties:
`Awake` and `EveryMessageOut` except a message queued during a direct send
(`late`), and `Awake` a connection that the event thread has given up and is about
to stop; `EveryMessageOut` and `MarkDownReturns` except the event thread waiting
for its own write (`WaitsForItself`) and a buffer cleared under a writer;
`BytesFollowMessages` excepts the destruction of a message that was dispatched, and
`EveryMessageDelivered` a byte throttle that such messages have used up
(`ByteStarved`); `CountAccounted` says that `count` is what callers hold only as long
as no callback request is made, and else that it is no less; `ShutdownComplete` and `CallsReturn` except two barriers
at once (`overlap`).

**Other counterexamples met while modelling**, for which no run is kept:

* `NoOldMessage` also fails for two lossless peers when one marks its connection
  down and the socket breaks after RETRY_SESSION: the mark `is_reset_from_peer` is
  overwritten by the next attempt. With `resetcheck` on both peers it fails without
  any break: the attempt of the restarted peer is matched against a connection
  that is still connecting, which opens and receives before the replace takes
  place. This is why the peers of `session` neither mark down nor restart and why
  in its last scenario it is the server that restarts: a server never connects, so
  its reset cannot be mistaken.
* A connection that was replaced and faults while accepting stands by with
  messages queued (`AsyncConnection.cc:2199`), although `Messenger.h:73` has a
  connection stand by "when idle". Of two lossless peers `EveryMessageSettled` is
  false for this reason; a client always reconnects, so the scenario in which it is
  checked does not get there.
* A second attempt during the first one's READY hands over its socket; clearing
  `replacing` (`AsyncConnection.cc:1875`) cancels it and the socket is never
  served, against the comment at line 1842.
* A callback request is counted when it queues and again when it is granted
  (`Throttle.cc:162`, `:108`), so `count` goes above the limit of `Throttle.h:54`.
* `mark_down` clears `queue_reset`, but a connection that opens at the same time
  sets it again (`AsyncConnection.cc:1266`) and announces a reset, which
  `Connection.h:121` excludes.
* A keepalive or acknowledgement that becomes due during a direct send loses its
  write event when that send stops the watcher (`AsyncConnection.cc:301`).
* Two messengers in `barrier()` share one counter (`AsyncMessenger.h:129`): a
  `C_barrier` that runs before its own `inc()` lets the other caller return early,
  and a counter that `inc()` brings to zero wakes nobody.
* `add_dispatcher` before `bind` never starts accepting; a `rebind` that fails
  leaves `did_bind` set; `wait()` before `shutdown()` on a bound messenger asserts.
* `rebuild()`, `operator=`, `push_front` and `claim_prepend` leave `last_p` in a
  node that was freed or moved; a `copy` at its offset then reads freed memory or
  other bytes. Nothing in the repository does both to one list, and neither do
  the programs of `buffers`.

**Bounds.** Three slots and three sockets per pair let an old, a registered and
an accepting connection coexist. `gseq` bounds connection attempts and is larger
than what the break and the restart of the scenario `Settle` can use up, where
liveness is asked. In `Race` it lets each peer connect twice: at first and after the broken socket. `cseq` bounds the
connect_seq of RETRY_SESSION answers: two crossing attempts can bid it up without
end, so an attempt that would be told more waits. RETRY_GLOBAL is answered to a
live attempt only after a restart of the peer; the lossy scenario has one.
`TakeBound` stops `take()`, which is not limited by the throttle. `msgs`,
`breaks`, `replaces`, `keepalives`, `received` and `ends` bound the events of a
`Writer` scenario; three messages are enough for one to be written, one queued
and one overtaking. `Reader` has a prefetch buffer of three bytes, segments of two
and parts of zero to four, so that parts end before, at and after either
boundary; `MaxBreaks` is one socket. `Lifecycle` has two workers and three
connections (two accepted, one made); scripts end. `BufferList` has pages of two
bytes, lists of at most `MaxLen` = 4 bytes in at most `MaxRaws` = 3 raws and
programs of `calls` calls: an append can end in, at and after a page, a list can
have three segments, and a cut can begin and end anywhere in them. Its `VIEW`
leaves out `out` and `call`, which no step reads; transitions are checked whether
or not they lead to a new state.

**Fairness.** Nothing is assumed of the application but that it goes on with a
call it began, and nothing of the network but that bytes on a socket that does
not break arrive.
`Session`: weak fairness of each connection's event handling and of accepting: an
event loop serves what is ready. Both the fairness and `EveryMessageSettled` are
stated for scenarios with `preempt` off, which is `Settle`: with it the cancelled
hand-over above strands a peer.
`Writer`: weak fairness of every thread, of the timers and of the peer's part of
the handshake. Strong fairness only of the event thread's `sendmsg`: it competes
with application threads for the lock, and a mutex that never serves it would
starve the whole worker.
`Reader`: the event thread, arriving bytes, the peer that reconnects, and the
dispatch thread that frees messages.
`DispatchQueue`: its threads run, an event thread finishes the announcement it
began and stops its connection when asked to, and `shutdown()` goes on once
called.
`Lifecycle`: threads go on, workers serve their events, an accepted socket is
registered and a dispatch thread that was told to stop ends.
`Throttle`: a thread that holds the lock or was signalled goes on, and units are
returned.

## 4. Proofs

`ThrottleProofs`, for any threads, requests, amounts and limits:

* `PutSafe` (`CountAccounted`) and `WakeupSafe` (`NoLostWakeup`), with `TypeCorrect`.
  None is inductive alone. `IInv` adds
  `LockInv` (the holder of the lock is exactly the thread in the middle of a
  call) and `QueueInv` (a queued thread sleeps, and is queued once): without them
  a step of `signal_first` could credit a thread that is not waiting. There is one
  lemma per action.
* `LimitSafe`: `Spec => LimitRespected` when no callback requests are made. With
  them it is false: see the double count below the runs.

The constants are assumed to be sets of positive numbers, with `Getters` among
the threads and `NoThread` not one of them (`ConstantsAssumption`).

`DispatchQueueProofs`, for any connections, priorities, messages and resets:

* `StopOrderInvariant`: the barrier, the local thread and the dispatch thread are
  passed in this order; a thread that has ended left its queue empty, and nothing
  can fill it again. `ShutdownDrains` (`NothingLeft`) follows: "the queue is empty"
  alone says nothing of who may still enqueue.
* `TypeCorrect`, `DeliveryFenced` (`Fenced`), `ThrottleConserved` (`Conserved`),
  `ResetsDelivered` (`AllTold`), `DeliveryInOrder` (`InOrder`), from one inductive
  invariant, `Invariant`. It says of every notice in the queue which session of its
  connection it ends (the history field `epoch`), so that "before" and "after" in
  the queue can be compared with what the application has seen, that a message is
  in one place and has one unit in `held` exactly while it is, that a connection
  that was marked down has no notice to come, and that the queues of a connection
  and priority are increasing. `discard_queue` takes messages out of the middle of a
  queue: that what is left keeps its order is the lemma `KeepProperties` of
  `SubsequencesProofs`, an argument about the least position at which an enumeration
  could go wrong.

`ReaderProofs`, for any sizes of the prefetch buffer, of segments and of message
parts (none included), and any streams of items whose messages are numbered
without gaps (`Numbered`), which is what the peer's `out_seq` gives:

* `BytesContiguous` (`Contiguous`), `NoBytesStranded` (`NothingStranded`),
  `UnitsConserved` (`UnitsAccounted`), `BytesConserved` (`BytesFollowMessages`) and
  `HandedOnInSequence` (`InSequence`), from
  `ReaderInvariant`: where the bytes at `p`, in the prefetch buffer and on the
  socket begin in each phase of `read_until`; which messages exist and with which
  units and bytes; and that what is still to be read begins at most one after `in_seq`, on
  this socket and on every later one. Without the last part a replaced socket could
  skip a number.

`LifecycleProofs`, for any messengers, threads, workers, connections
and scripts of calls:

* `ReferencesDroppedOnce` (`ReleasedOnce`) and `OldConnectionsToldToStop`
  (`OldConnectionsStop`), from `ConnectionsInvariant`. Its parts: a connection is
  registered with its messenger exactly until it is closed; `C_release` is in one
  queue, once, from the step that closes a connection to the one that drops the
  reference; a connection of before the last rebind or shutdown that is not closed
  has a `C_stop` on its way to its worker; the thread in the middle of a call is the
  holder of `start_lock` and finds the Processor as it left it; `C_ProcessorStop` is
  posted once, to the worker that accepts; a socket just accepted belongs to the
  present time. The last three are what keeps `add_accept()`, which runs in a
  worker under `AsyncMessenger::lock` only, from registering a connection that
  `mark_down_all()` has missed.
* `ShutdownLeavesNothing` (`ShutdownComplete`), from `ShutdownInvariant`: as long as
  no two barriers overlap, `barrier_count` is the number of workers with a
  `C_barrier` in their queue (one less between posting and counting it), and in a
  queue it comes after the `C_stop` of every old connection of that worker. When
  the count is zero, no worker below the number posted has one left, so no old
  connection is left open. The other half is that a messenger stays shut: the flags
  `started` and `shutdown_called` make the other calls return, `did_bind` is off so
  `ready()` starts nothing, and the threads of the dispatch queue are in step with
  `stop`.
* `NoAssertionFails` (`NoAbort`), from `UseInvariant`. `NoAbort` depends on what the
  application calls (`lifecycle_restart` violates it), so the theorem is about
  scripts that follow `ProperUse`: of the `start()` calls that a `shutdown()` may
  follow there is one, with an `add_dispatcher_head()` before it in the same thread;
  who waits for a messenger that is ever bound has started it and shut it down, and
  nobody starts it again before that; who calls `rebind()` has called `bind()` before
  any `start()`, and nobody calls `shutdown()` or `unbind()` before it. Everything
  else may be called by any thread at any moment. An `ASSUME` of `MCLifecycle` says
  that every scenario of run `lifecycle` follows these rules, and that the one of
  `lifecycle_restart` does not. The rules are about whole scripts; the invariant says
  what is left of each when some calls have been made. A start that is still to come
  finds the messenger not started, and its local delivery thread running or its
  `add_dispatcher_head()` still to come (`StartsLater`); a `shutdown()` that is still
  to come, or under way, has a thread to join (`JoinsRunning`); a `wait()` comes after
  a `shutdown()` that has been called or is still ahead of it in the same thread
  (`WaitsLater`); a messenger that `shutdown()` was called for is bound only while
  the thread that holds `start_lock` is stopping the Processor (`BoundUntil`), which
  is why `wait()`, which takes `start_lock`, never sees it bound.

Every part of these invariants was checked by TLC on the instance of run `lifecycle`
before it was proved.

`WriterProofs`, for any application threads, messages, priorities, numbers of
breaks, replaces, keepalives and ends of a scenario:

* `FramedAlways` (`Framed`), `SamePriorityInOrderAlways` (`SamePriorityInOrder`),
  `KeptOnceAlways` (`KeptOnce`) and `AwakeAlways` (`Awake`), from `WriterInvariant`.
  Its parts: at most one thread is between the two halves of `_try_send`, and
  `sending` is set while one is (`OneSender`); what that thread has still to write
  is all of `outcoming_bl` until `_stop` or `do_replace` clears the buffer under it,
  after which the buffer is empty or holds a new handshake (`EventSend`,
  `DirectSend`); after a `sendmsg` that failed the socket stays down until the
  buffer is cleared (`Failed`), so nothing follows a message that was cut;
  which states have a socket, sent messages and a buffer (`LinkOK`); each message is
  in one place, the sent list, the requeued messages and each queue are in order,
  one before the other, and what was written to the socket followed by what is left
  is whole messages in the order of their priority (`Stream`); and `Awake` itself
  (`Scheduled`).
* Every step is one of three kinds, with a lemma each: it leaves the stream alone,
  it ends the socket (fault, replace, stop), or it appends what a thread is about to
  write and releases the lock.
* `TrimSafe` is not a theorem: `writer_trim` violates it. `DirectSend` says what
  is left in that case, up to the point at which behaviours are followed.

TLC checked this invariant on the instance of run `writer` before it was proved.

`SessionProofs`, for any number of connections and sockets and any scenarios: any
policies of the two nodes, any number of messages, breaks, `mark_down` calls and
restarts, any number that `randomize_out_seq` may pick:

* `TypeCorrect` (`TypeOK`), `RepliesFitAlways` (`RepliesFit`), `SameSessionAlways`
  (`SameSession`) and `SameNumberAgain` (a message sent again goes out under the
  number it had), from `SessionInvariant`.
* `IInv` has a part for each connection and one for each socket. `Numbers`: the
  messages in `sent` are numbered up to `out_seq`; queued messages that had a number
  go on from there; none that had one is behind one that never had. That is what
  makes `requeue_sent` and `discard_requeued_up_to` restore the numbering, and why
  `out_seq` cannot go below zero. `Local`: which states have a socket, and that the
  reply kept while the locks are released confirms the connection's own connect_seq.
* `SockOK`: each end of a socket has one user, an owner or a connection that waits to
  take it over (`OneUser`); until an end is accepted nothing is on its way
  (`Unaccepted`); and when both ends have a user, they are at the same point of the
  handshake (`Paired`): one of them made the attempt, at most one request or reply is
  outstanding, and a reply on its way answers the attempt's connect_seq (`Inbox`,
  `Fits`). A socket handed to a connection that is being replaced is idle, and
  `replacing_cseq` is the connect_seq its peer waits with (`Handed`): otherwise the
  RETRY_SESSION of `do_replace`, sent long after the attempt was read, could ask for
  too little. `RepliesFit` and `SameSession` alone are not inductive: a reply is
  compared with the state its reader will be in.
* A step changes one connection and at most one socket in a way that matters: there
  is a lemma for each kind (read and written, left, taken over, handed over,
  attempted, accepted, broken), one for what each change makes of a connection, and
  one for each action. The handshake itself is a table of which exchanges lead
  from one point of it to the next (the lemmas named `...GoesOn`).

TLC checked this invariant on the instance of run `session` before it was proved.

What the protocol is for is proved in `SessionDeliveryProofs`, of the scenarios that
`Session.Steady` describes:
no policy with `lossy` or `resetcheck` (lossless_peer at both ends, for one), no
`mark_down` and no restart, so that the session never ends; sockets break as often as the scenario allows and wherever they like, both
sides connect at once, attempts cross and connections are replaced. The scenarios
`Race` and `Reconnect` of run `session` are of this kind. `Steady` is a hypothesis on
the initial state, not an assumption on the constants:

* `NoSilentLossSteady` (`NoSilentLoss`), `NoOldMessageSteady` (`NoOldMessage`),
  `NeverOlderSteady` (`NeverOlder`) and `DeliverySteady` (the refinement of
  `Delivery`), from `SteadyInvariant`.
* `NoSilentLoss` relates the queues of one node to what the other has dispatched,
  and says nothing of the sockets between them, so it is far from inductive. `SInv`
  adds to `IInv`: of each node (`Regs`), message *k* has number *k*, those neither
  kept in `sent` nor queued the peer has, and the peer's `in_seq` is a number that
  was given out (`Books`); the connections not registered hold nothing (`Spares`);
  what was dispatched is 1 .. `in_seq` of the registered connection (`Past`);
  whatever is under way on any socket, however old, is true of its sender: an
  acknowledgement or a SEQ reply names a number that was received, a message carries
  a number that was given (`Told`); and on each socket the messages follow on the
  reader's `in_seq` without a gap (`Flows`, whose parts are what one end may read,
  `EndOK`, and what ties it to the other end, `Link`).
* The subtle part is when numbers may start again. A READY reply, unlike SEQ, makes
  no one drop anything: it must only reach a connection that has no number yet
  (`Fresh`), also when a replacement decided it from a connect message and answers
  much later on behalf of another connection (`is_reset_from_peer` in `Waits`,
  `EndOK` and `Link`).
* `RecvMessage` is then the only step of the protocol that the applications see, and
  what it dispatches is the next message owed (`DispatchStep`, `EventSilent`).

TLC checked `SInv` on `Race`, on `Reconnect` and with other steady policies (a client
and a server without resetcheck, 858 320 states in all) before it was proved.

Only model-checked: of `Session`, `NoSilentLoss`, `NoOldMessage`, `NeverOlder` and
the refinement of `Delivery` in scenarios that are not steady, where a session ends
and another begins: lossy policies, `resetcheck`, `mark_down`, restarts
(`NoOldMessage` is not true of all of these: `session_forget` violates it); the
refinement of `ByteLists` and the rest of `BufferList`. All liveness
(`EveryMessageSettled` in `Settle`, `EveryMessageOut`, `MarkDownReturns`,
`EveryMessageDelivered`, `CallsReturn`, `EveryWaiterServed`, `EveryItemHandled`,
`ShutdownEnds`) stays with TLC, since liveness under fairness is out of the
prover's reach. `BufferList` follows loops with recursive operators, which the
prover cannot reason about either.

## 5. Not modelled

Feature, protocol-version and authorizer refusals (they end an attempt like a
fault); priorities in `Session` (`Writer` has them); time stamps of keepalives;
SimpleThrottle and OrderedThrottle, which nothing uses; iterators that callers of
`buffer::list` hold themselves, aligned rebuilds, file and pipe I/O of buffers;
encoding templates, checksums, address formatting, socket options, configuration
and logging, which are sequential and keep no state of their own. The vendored
gtest is more than half of the C and C++ lines of the repository and is no part of
the messenger. `PROJECT.json` gives the reason for each part.

The gap between two modules is not checked as such: a message is acknowledged
when it is queued for dispatch (`Session`), and may still be discarded from the
queue by a reset or a stop (`DispatchQueue`).

## 6. Plan

All parts that carry the messenger's own logic are modelled and checked, and the
safety of all but `BufferList` is proved, up to what section 4 lists as only
model-checked. What is left is proving what `Session` delivers when sessions end. A
reset on one side meets messages, acknowledgements and replies of the session before
on sockets that are still open, so `Told` and `Flows` need a session number as a
ghost, and `Past` what each application was told of (`dropped`).
