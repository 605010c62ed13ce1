---------------------------- MODULE DispatchQueue ----------------------------
(***************************************************************************)
(* DispatchQueue: received messages and connection notices go through one  *)
(* queue of priorities to a single dispatch thread; messages to oneself go *)
(* through a second thread; AsyncMessenger::shutdown() stops both.         *)
(*                                                                         *)
(* One step is one critical section of lock_ or local_delivery_lock_, or   *)
(* one call of the application.  What a connection does to the queue is    *)
(* done by its event thread, one thing after the other: it announces       *)
(* itself, queues messages, and discards and announces when its session is *)
(* reset or when it stops.                                                 *)
(***************************************************************************)
EXTENDS Integers, Sequences, FiniteSets, FiniteSetsExt, Subsequences

CONSTANTS
    Conns,          \* ids of connections; they are not 0
    Prios,          \* priorities of messages and notices
    LOW, HIGHEST,   \* MSGR_MSG_PRIO_LOW, MSGR_MSG_PRIO_HIGHEST
    MaxMsgs,        \* messages a connection receives
    Loads           \* model bounds: the connections that open, the resets of each
                    \* of them, and the messages sent to oneself

ASSUME ConstantsAssumption ==
    /\ Conns \subseteq Nat \ {0} /\ IsFiniteSet(Conns)
    /\ Prios \subseteq Nat /\ IsFiniteSet(Prios)
    /\ LOW \in Nat /\ HIGHEST \in Prios /\ \A p \in Prios : p <= HIGHEST
    /\ LOW <= HIGHEST
    /\ MaxMsgs \in Nat
    /\ Loads \subseteq [conns : SUBSET Conns, local : Nat, resets : Nat]

VARIABLES
    high_queue,     \* FIFOQueue::high_queue: per strict priority, the items
    queue,          \* FIFOQueue::queue
    thread,         \* the dispatch thread: "run", "sleep", "deliver", "end"
    item,           \* the item it has taken
    stop,           \* "yes" when stop_
    local_messages, \* DispatchQueue::local_messages_
    local,          \* the local delivery thread, as thread
    local_item,     \* the message it has taken
    stop_local,     \* "yes" when stop_local_delivery_
    conn,           \* per connection: what its event thread has done
    down,           \* how far AsyncMessenger::shutdown() is
    locals,         \* messages sent to oneself so far
    held,           \* per message: units of throttler_messages taken for it
    seen,           \* per connection: what the application was told
    load            \* which of Loads this behaviour has

vars == <<high_queue, queue, thread, item, stop, local_messages, local,
          local_item, stop_local, conn, down, locals, held, seen, load>>

dispatch_vars == <<high_queue, queue, thread, item, stop>>

local_vars == <<local_messages, local, local_item, stop_local, locals>>

\* The loopback connection; the class of its messages and of all notices.
Loopback == 0

High == {p \in Prios : p >= LOW}

Msg(c, p, num, epoch) ==
    [kind |-> "msg", con |-> c, prio |-> p, num |-> num, epoch |-> epoch]

\* Its epoch, the session of the connection it announces, is not in the code:
\* no step depends on it.
Notice(code, c) ==
    [kind |-> code, con |-> c, prio |-> HIGHEST, num |-> 0,
     epoch |-> IF c = Loopback THEN 0 ELSE conn[c].epoch]

NoItem == [kind |-> "none", con |-> 0, prio |-> 0, num |-> 0, epoch |-> 0]

\* The class an item was queued under.
Class(x) == IF x.kind = "msg" THEN x.con ELSE Loopback

\* The messages of connections, as <<connection, number>>.
MsgIds == Conns \X (1 .. MaxMsgs)

Empty == queue = <<>> /\ \A p \in High : high_queue[p] = <<>>

Init ==
    /\ high_queue = [p \in High |-> <<>>]
    /\ queue = <<>>
    /\ thread = "run" /\ item = NoItem /\ stop = "no"
    /\ local_messages = <<>> /\ local = "run" /\ local_item = NoItem
    /\ stop_local = "no"
    /\ conn = [c \in Conns |-> [state |-> "new", num |-> 0, epoch |-> 0]]
    /\ load \in Loads /\ down = "no" /\ locals = 0 /\ held = [x \in MsgIds |-> 0]
    /\ seen = [c \in Conns \cup {Loopback} |->
                 [told |-> IF c = Loopback THEN "open" ELSE "new",
                  epoch |-> 0, last |-> [p \in Prios |-> 0]]]

-----------------------------------------------------------------------------
(***************************************************************************)
(* The queue.                                                              *)
(***************************************************************************)
\* enqueue_strict() from priority LOW on, enqueue() below it.
Enqueue(x) ==
    IF x.prio >= LOW
    THEN /\ high_queue' = [high_queue EXCEPT ![x.prio] = Append(@, x)]
         /\ UNCHANGED queue
    ELSE /\ queue' = Append(queue, x)
         /\ UNCHANGED high_queue

\* cond_.Signal().
Signal == thread' = IF thread = "sleep" THEN "run" ELSE thread

\* Mutant: the dispatch thread is never signalled for a message.
enqueue_silent(x) == Enqueue(x) /\ UNCHANGED <<thread, item, stop>>

\* enqueue(): the dispatch thread is signalled when the queue was empty.
enqueue(x) ==
    /\ Enqueue(x)
    /\ IF Empty THEN Signal ELSE UNCHANGED thread
    /\ UNCHANGED <<item, stop>>

\* queue_connect(), queue_accept(), queue_remote_reset(), queue_reset().
queue_notice(code, c) ==
    IF stop = "yes" THEN UNCHANGED dispatch_vars
    ELSE Enqueue(Notice(code, c)) /\ Signal /\ UNCHANGED <<item, stop>>

NotOfClass(q, id) == Keep(q, {k \in DOMAIN q : Class(q[k]) # id})

\* The messages in a sequence of items.
Id(x) == <<x.con, x.num>>

IdsIn(q) == {Id(q[k]) : k \in {j \in 1 .. Len(q) : q[j].kind = "msg"}}

QueuedIds == IdsIn(queue) \cup UNION {IdsIn(high_queue[p]) : p \in High}

IdsOf(id) == {x \in QueuedIds : x[1] = id}

\* What is held after a unit was taken for each message of S, or returned with it.
Taken(S) == [x \in MsgIds |-> held[x] + (IF x \in S THEN 1 ELSE 0)]
Returned(S) == [x \in MsgIds |-> held[x] - (IF x \in S THEN 1 ELSE 0)]

\* Mutant: the message that is being dispatched returns its unit here as well.
discard_queue_twice(id) ==
    /\ queue' = NotOfClass(queue, id)
    /\ high_queue' = [p \in High |-> NotOfClass(high_queue[p], id)]
    /\ held' = Returned(IdsOf(id) \cup {Id(item)})
    /\ UNCHANGED <<thread, item, stop>>

\* Mutant: the throttle is not released.
discard_queue_kept(id) ==
    /\ queue' = NotOfClass(queue, id)
    /\ high_queue' = [p \in High |-> NotOfClass(high_queue[p], id)]
    /\ UNCHANGED <<thread, item, stop, held>>

\* Mutant: strict priorities are left alone.
discard_queue_low(id) ==
    /\ queue' = NotOfClass(queue, id)
    /\ held' = Returned(IdsIn(SelectSeq(queue, LAMBDA x : Class(x) = id)))
    /\ UNCHANGED <<high_queue, thread, item, stop>>

\* discard_queue(id): the messages removed are freed.
discard_queue(id) ==
    /\ queue' = NotOfClass(queue, id)
    /\ high_queue' = [p \in High |-> NotOfClass(high_queue[p], id)]
    /\ held' = Returned(IdsOf(id))
    /\ UNCHANGED <<thread, item, stop>>

-----------------------------------------------------------------------------
(***************************************************************************)
(* What the event thread of connection c does.                             *)
(***************************************************************************)
Set(c, state) == conn' = [conn EXCEPT ![c].state = state]

\* The connection opens, and is announced; it may have been asked to stop.
queue_accept(c) ==
    /\ conn[c].state = "new" /\ c \in load.conns /\ down \in {"no", "marked"}
    /\ Set(c, "open")
    /\ queue_notice("accept", c)
    /\ UNCHANGED <<local_vars, down, load, held, seen>>

\* A message of priority p is received and queued.
receive(c, p) ==
    LET x == Msg(c, p, conn[c].num + 1, conn[c].epoch) IN
    /\ conn[c].state = "open" /\ conn[c].num < MaxMsgs
    /\ conn' = [conn EXCEPT ![c].num = @ + 1]
    /\ enqueue(x)
    /\ held' = Taken({Id(x)})
    /\ UNCHANGED <<local_vars, down, load, seen>>

\* ... or dispatched at once by the event thread.  pre_dispatch has cleared
\* the size when the message is freed.
fast_dispatch(c) ==
    /\ conn[c].state = "open" /\ conn[c].num < MaxMsgs
    /\ conn' = [conn EXCEPT ![c].num = @ + 1]
    /\ UNCHANGED <<dispatch_vars, local_vars, down, load, held, seen>>

\* was_session_reset(): first the messages of the old session are discarded,
\* then the reset is announced.
session_discard(c) ==
    /\ conn[c].state = "open" /\ conn[c].epoch < load.resets
    /\ conn' = [conn EXCEPT ![c].state = "resetting", ![c].epoch = @ + 1]
    /\ discard_queue(c)
    /\ UNCHANGED <<local_vars, down, load, seen>>

queue_remote_reset(c) ==
    /\ conn[c].state = "resetting"
    /\ Set(c, "open")
    /\ queue_notice("remote_reset", c)
    /\ UNCHANGED <<local_vars, down, load, held, seen>>

\* _stop(), after an error or for mark_down_all(): likewise.
stop_discard(c) ==
    /\ conn[c].state = "open"
    /\ Set(c, "stopping")
    /\ discard_queue(c)
    /\ UNCHANGED <<local_vars, down, load, seen>>

\* _stop() after mark_down(), which has cleared queue_reset: no notice follows.
stop_marked_down(c) ==
    /\ conn[c].state = "open"
    /\ Set(c, "marked_down")
    /\ discard_queue(c)
    /\ UNCHANGED <<local_vars, down, load, seen>>

queue_reset(c) ==
    /\ conn[c].state = "stopping"
    /\ Set(c, "closed")
    /\ queue_notice("reset", c)
    /\ UNCHANGED <<local_vars, down, load, held, seen>>

EventThread(c) ==
    \/ queue_accept(c) \/ fast_dispatch(c) \/ session_discard(c)
    \/ queue_remote_reset(c) \/ stop_discard(c) \/ stop_marked_down(c) \/ queue_reset(c)
    \/ \E p \in Prios : receive(c, p)

-----------------------------------------------------------------------------
(***************************************************************************)
(* The dispatch thread: entry().                                           *)
(***************************************************************************)
\* Mutant: the newest item of the ordinary queue is taken.
dequeue_newest ==
    LET P == {p \in High : high_queue[p] # <<>>} IN
    /\ thread = "run" /\ ~Empty
    /\ IF P # {}
       THEN /\ item' = Head(high_queue[Max(P)])
            /\ high_queue' = [high_queue EXCEPT ![Max(P)] = Tail(@)]
            /\ UNCHANGED queue
       ELSE /\ item' = queue[Len(queue)]
            /\ queue' = SubSeq(queue, 1, Len(queue) - 1)
            /\ UNCHANGED high_queue
    /\ thread' = "deliver"
    /\ UNCHANGED <<stop, local_vars, conn, down, load, held, seen>>

\* FIFOQueue::dequeue(): the highest strict priority, then the others.
dequeue ==
    LET P == {p \in High : high_queue[p] # <<>>} IN
    /\ thread = "run" /\ ~Empty
    /\ IF P # {}
       THEN /\ item' = Head(high_queue[Max(P)])
            /\ high_queue' = [high_queue EXCEPT ![Max(P)] = Tail(@)]
            /\ UNCHANGED queue
       ELSE /\ item' = Head(queue)
            /\ queue' = Tail(queue)
            /\ UNCHANGED high_queue
    /\ thread' = "deliver"
    /\ UNCHANGED <<stop, local_vars, conn, down, load, held, seen>>

\* The queue is empty: the thread ends or waits.
idle ==
    /\ thread = "run" /\ Empty
    /\ thread' = IF stop = "yes" THEN "end" ELSE "sleep"
    /\ UNCHANGED <<high_queue, queue, item, stop, local_vars, conn, down, load, held, seen>>

\* A notice is given to the application.
deliver_notice ==
    LET c == item.con IN
    /\ thread = "deliver" /\ item.kind # "msg"
    /\ thread' = "run" /\ item' = NoItem
    /\ seen' = CASE item.kind = "accept" -> [seen EXCEPT ![c].told = "open"]
                 [] item.kind = "reset" -> [seen EXCEPT ![c].told = "closed"]
                 [] OTHER -> [seen EXCEPT ![c].epoch = @ + 1]
    /\ UNCHANGED <<high_queue, queue, stop, local_vars, conn, down, load, held>>

\* A message is given to the application, which frees it; pre_dispatch has
\* cleared the size that its destructor gives back to the byte throttle.
deliver_message ==
    /\ thread = "deliver" /\ item.kind = "msg" /\ stop = "no"
    /\ thread' = "run" /\ item' = NoItem
    /\ seen' = [seen EXCEPT ![item.con].last[item.prio] = item.num]
    /\ held' = Returned({Id(item)})
    /\ UNCHANGED <<high_queue, queue, stop, local_vars, conn, down, load>>

\* "stop flag set, discarding".
discard_message ==
    /\ thread = "deliver" /\ item.kind = "msg" /\ stop = "yes"
    /\ thread' = "run" /\ item' = NoItem
    /\ held' = Returned({Id(item)})
    /\ UNCHANGED <<high_queue, queue, stop, local_vars, conn, down, load, seen>>

\* cond_.Wait() may return without a signal.
spurious_wakeup ==
    /\ thread = "sleep"
    /\ thread' = "run"
    /\ UNCHANGED <<high_queue, queue, item, stop, local_vars, conn, down, load, held, seen>>

entry == dequeue \/ idle \/ deliver_notice \/ deliver_message \/ discard_message

-----------------------------------------------------------------------------
(***************************************************************************)
(* Messages to oneself.                                                    *)
(***************************************************************************)
\* LocalConnection::send_message() and local_delivery().
local_delivery(p) ==
    /\ locals < load.local /\ down \in {"no", "marked"}
    /\ locals' = locals + 1
    /\ local_messages' = Append(local_messages,
                                Msg(Loopback, p, locals + 1, 0))
    /\ local' = IF local_messages = <<>> /\ local = "sleep" THEN "run" ELSE local
    /\ UNCHANGED <<dispatch_vars, local_item, stop_local, conn, down, load, held, seen>>

local_take ==
    /\ local = "run" /\ local_messages # <<>>
    /\ local_item' = Head(local_messages)
    /\ local_messages' = Tail(local_messages)
    /\ local' = "deliver"
    /\ UNCHANGED <<dispatch_vars, stop_local, locals, conn, down, load, held,
                   seen>>

\* The message is queued, or dispatched at once.
local_deliver ==
    /\ local = "deliver"
    /\ local' = "run" /\ local_item' = NoItem
    /\ \/ enqueue(local_item)
       \/ UNCHANGED dispatch_vars
    /\ UNCHANGED <<local_messages, stop_local, locals, conn, down, load, held,
                   seen>>

local_idle ==
    /\ local = "run" /\ local_messages = <<>>
    /\ local' = IF stop_local = "yes" THEN "end" ELSE "sleep"
    /\ UNCHANGED <<dispatch_vars, local_messages, local_item, stop_local, locals,
                   conn, down, load, held, seen>>

run_local_delivery == local_take \/ local_deliver \/ local_idle

-----------------------------------------------------------------------------
(***************************************************************************)
(* AsyncMessenger::shutdown().                                             *)
(***************************************************************************)
\* mark_down_all() asks every connection to stop.
mark_down_all ==
    /\ down = "no"
    /\ down' = "marked"
    /\ UNCHANGED <<dispatch_vars, local_vars, conn, held, seen, load>>

\* Mutant: the event threads are not waited for.
Barrier_skipped == TRUE

\* pool->barrier(): the event threads have stopped their connections.
Barrier == \A c \in Conns : conn[c].state \in {"new", "closed", "marked_down"}

\* LocalConnection::stop(), once the barrier is passed.  The messages it would
\* discard are not queued under its own id.
local_stop ==
    /\ down = "marked" /\ Barrier
    /\ down' = "local"
    /\ queue_notice("reset", Loopback)
    /\ UNCHANGED <<local_vars, conn, held, seen, load>>

\* DispatchQueue::shutdown(): stop the local delivery thread ...
stop_local_delivery ==
    /\ down = "local"
    /\ down' = "joining"
    /\ stop_local' = "yes"
    /\ local' = IF local = "sleep" THEN "run" ELSE local
    /\ UNCHANGED <<dispatch_vars, local_messages, local_item, locals, conn, held, seen, load>>

\* Mutant: the thread is not joined.
Joined_skipped == TRUE

Joined == local = "end"

\* Mutant: the dispatch thread is not signalled.
stop_dispatch_silent ==
    /\ down = "joining" /\ Joined
    /\ down' = "done"
    /\ stop_local' = "no" /\ stop' = "yes"
    /\ UNCHANGED <<high_queue, queue, thread, item, local_messages, local,
                   local_item, locals, conn, held, seen, load>>

\* ... join it, and stop the dispatch thread.
stop_dispatch ==
    /\ down = "joining" /\ Joined
    /\ down' = "done"
    /\ stop_local' = "no" /\ stop' = "yes"
    /\ Signal
    /\ UNCHANGED <<high_queue, queue, item, local_messages, local, local_item,
                   locals, conn, held, seen, load>>

shutdown == mark_down_all \/ local_stop \/ stop_local_delivery \/ stop_dispatch

-----------------------------------------------------------------------------
Next ==
    \/ \E c \in Conns : EventThread(c)
    \/ entry \/ spurious_wakeup \/ run_local_delivery
    \/ \E p \in Prios : local_delivery(p)
    \/ shutdown

Spec == Init /\ [][Next]_vars

\* The threads run; a connection that began to announce something goes on,
\* and stops when it was asked to; shutdown() goes on once it was called.
Fairness ==
    /\ WF_vars(entry) /\ WF_vars(run_local_delivery)
    /\ \A c \in Conns :
          /\ WF_vars(queue_remote_reset(c)) /\ WF_vars(queue_reset(c))
          /\ WF_vars(down # "no" /\ (stop_discard(c) \/ stop_marked_down(c)))
    /\ WF_vars(local_stop \/ stop_local_delivery \/ stop_dispatch)

FairSpec == Spec /\ Fairness

-----------------------------------------------------------------------------
(***************************************************************************)
(* Properties.                                                             *)
(***************************************************************************)
Items ==
    [kind : {"msg", "accept", "remote_reset", "reset"},
     con : Conns \cup {Loopback}, prio : Prios, num : Nat, epoch : Nat]

ThreadStates == {"run", "sleep", "deliver", "end"}

ConnStates ==
    [state : {"new", "open", "resetting", "stopping", "closed", "marked_down"},
     num : Nat, epoch : Nat]

SeenStates ==
    [told : {"new", "open", "closed"}, epoch : Nat, last : [Prios -> Nat]]

\* Type correctness of the queue and the threads' state.
TypeOK ==
    /\ high_queue \in [High -> Seq(Items)] /\ queue \in Seq(Items)
    /\ thread \in ThreadStates /\ local \in ThreadStates
    /\ item \in Items \cup {NoItem} /\ local_item \in Items \cup {NoItem}
    /\ local_messages \in Seq(Items)
    /\ stop \in {"yes", "no"} /\ stop_local \in {"yes", "no"}
    /\ conn \in [Conns -> ConnStates]
    /\ down \in {"no", "marked", "local", "joining", "done"}
    /\ locals \in Nat
    /\ held \in [MsgIds -> Nat]
    /\ seen \in [Conns \cup {Loopback} -> SeenStates]

\* The application sees the messages of one connection and one priority in
\* the order in which they were queued, through discards and shutdown.
InOrder ==
    [][\A c \in Conns \cup {Loopback}, p \in Prios :
          seen'[c].last[p] >= seen[c].last[p]]_vars

\* The dispatch thread gives the application a message only between the
\* notices of its session: after the connection was announced, before its
\* reset was, and not after the notice that ended its session.
Fenced ==
    thread = "deliver" /\ item.kind = "msg" /\ item.con # Loopback =>
        /\ seen[item.con].told = "open"
        /\ item.epoch = seen[item.con].epoch

\* One unit of the message throttle is held for each message in the queue or in
\* the dispatch thread's hands and none for any other: discards and shutdown
\* return it as dispatching does, once.
Conserved ==
    LET pending == QueuedIds \cup (IF item.kind = "msg" THEN {Id(item)} ELSE {})
    IN  held = [x \in MsgIds |-> IF x \in pending THEN 1 ELSE 0]

\* mark_down_all "will generate a RESET event for each closed connections":
\* when the dispatch thread has ended, each reset was delivered.  mark_down "does
\* not generate any notifications": a connection that ended so has no reset.
AllTold ==
    thread = "end" =>
        /\ seen[Loopback].told = "closed"
        /\ \A c \in Conns : conn[c].state \notin {"new", "marked_down"} <=>
                              seen[c].told = "closed"

\* When the dispatch thread has ended nothing is left in either queue.
NothingLeft == thread = "end" => Empty /\ local_messages = <<>> /\ local = "end"

\* A queued item is taken out by the dispatch thread or discarded.
EveryItemHandled == ~Empty ~> Empty

\* shutdown() and wait() return.
ShutdownEnds == down # "no" ~> thread = "end"
=============================================================================
