------------------------------ MODULE Lifecycle ------------------------------
(***************************************************************************)
(* The life of an AsyncMessenger: bind, start, rebind, shutdown and wait,  *)
(* called by application threads; the Processor that accepts connections;  *)
(* and the workers, which all messengers of the process share, with the    *)
(* queue of external events through which the others reach them.           *)
(*                                                                         *)
(* A thread runs a script of calls.  A call is split where it waits or     *)
(* where it holds only start_lock: what is done under AsyncMessenger::lock *)
(* or within one event of a worker is one step.  An assertion that fails   *)
(* ends the process.                                                       *)
(*                                                                         *)
(* Of a connection only its registration and its end are kept (modules     *)
(* Session, Writer and Reader have the rest), of the dispatch queue its    *)
(* threads and its stop flag (module DispatchQueue).                       *)
(***************************************************************************)
EXTENDS Integers, Sequences, FiniteSets, SequencesExt

CONSTANTS
    Msgrs,          \* messengers of the process
    Threads,        \* application threads
    ConnIds,        \* model bound: connections that can be made
    Peers,          \* addresses of other messengers
    NumWorkers,     \* ms_async_op_threads
    Scenarios       \* scripts, and how many connections come in

None == "None"

Workers == 0 .. (NumWorkers - 1)

\* What a thread may call, and on which messenger or connection.
CallNames == {"bind", "add_dispatcher", "start", "rebind", "unbind", "shutdown",
              "wait", "mark_down_all", "get_connection", "mark_down"}

ASSUME ConstantsAssumption ==
    /\ NumWorkers \in Nat \ {0}
    /\ IsFiniteSet(ConnIds) /\ IsFiniteSet(Msgrs) /\ IsFiniteSet(Threads)
    /\ None \notin Threads \cup ConnIds \cup Msgrs
    /\ \A s \in Scenarios :
          /\ s.incoming \in Nat /\ s.failures \in Nat
          /\ s.script \in [Threads -> Seq([call : CallNames, m : Msgrs, peer : Peers])]

VARIABLES
    msgr,           \* the messengers
    start_lock,     \* per messenger: the thread that holds it, or None
    conn,           \* the connections
    events,         \* per worker: external_events
    seq,            \* WorkerPool::seq
    barrier_count,
    pc,             \* per thread: where it is in its call, and barrier()'s loop
    script,         \* per thread: the calls it has still to make
    overlap,        \* history: two barrier() calls were under way at one time
    aborted,        \* an assertion failed
    incoming,       \* connections that may still come in
    failures        \* binds that may still fail

vars == <<msgr, start_lock, conn, events, seq, barrier_count, pc, script, overlap,
          aborted, incoming, failures>>

env == <<incoming, failures>>
pool == <<seq, barrier_count, overlap>>

NewMsgr ==
    [flags |-> {"need_addr"},
     listen |-> FALSE,      \* listen_sd is open
     gen |-> 0,             \* history: times shutdown and rebind marked all down
     worker |-> -1,         \* Processor::worker
     stopped |-> FALSE,     \* Processor::stopped
     ev_read |-> FALSE,     \* the worker watches listen_sd
     accepted |-> -1,       \* gen of a socket in Processor::accept(), or -1
     conns |-> [p \in Peers |-> None],
     accepting |-> {},      \* accepting_conns
     local_up |-> TRUE,     \* ~LocalConnection::shutdown
     dispatch |-> "none",   \* dispatch_thread_
     local |-> "none",      \* local_delivery_thread_
     stop |-> FALSE]        \* DispatchQueue::stop_

FreeConn ==
    [state |-> "NONE", m |-> None, peer |-> None, worker |-> -1, stopping |-> FALSE,
     gen |-> 0, released |-> 0]

Idle == [at |-> "idle", m |-> None, call |-> None, i |-> 0, c |-> None]

Init ==
    /\ msgr = [m \in Msgrs |-> NewMsgr]
    /\ start_lock = [m \in Msgrs |-> None]
    /\ conn = [c \in ConnIds |-> FreeConn]
    /\ events = [w \in Workers |-> <<>>]
    /\ seq = 0 /\ barrier_count = 0
    /\ pc = [t \in Threads |-> Idle]
    /\ \E s \in Scenarios :
          script = s.script /\ incoming = s.incoming /\ failures = s.failures
    /\ overlap = FALSE /\ aborted = FALSE

Has(m, f) == f \in msgr[m].flags

-----------------------------------------------------------------------------
(***************************************************************************)
(* Helpers: each gives the next value of one variable.                     *)
(***************************************************************************)
\* WorkerPool::get_worker() and what it leaves of seq.
get_worker == (seq + 1) % NumWorkers

\* dispatch_event_external(e) on worker w.
Post(ev, w, kind, arg) == [ev EXCEPT ![w] = Append(@, [kind |-> kind, arg |-> arg])]

\* A connection that can be made, and the connection made.
NewConn(c, m, peer, state, w) ==
    [conn EXCEPT ![c] = [FreeConn EXCEPT
        !.state = state, !.m = m, !.peer = peer, !.worker = w, !.gen = msgr[m].gen]]

FreeId == {c \in ConnIds : conn[c].state = "NONE"}

\* _unregister_conn(conn).
_unregister_conn(M, c) ==
    [M EXCEPT !.conns = [p \in Peers |-> IF @[p] = c THEN None ELSE @[p]],
              !.accepting = @ \ {c}]

\* Mutant: a connection that is closed is stopped again.
_stop_again(c, ev) ==
    LET k == conn[c]
    IN  /\ msgr' = [msgr EXCEPT ![k.m] = _unregister_conn(@, c)]
        /\ conn' = [conn EXCEPT ![c].state = "CLOSED"]
        /\ events' = Post(ev, k.worker, "C_release", c)

\* AsyncConnection::_stop(), with the events ev.
_stop(c, ev) ==
    LET k == conn[c]
    IN  IF k.state = "CLOSED"
        THEN events' = ev /\ UNCHANGED <<msgr, conn>>
        ELSE /\ msgr' = [msgr EXCEPT ![k.m] = _unregister_conn(@, c)]
             /\ conn' = [conn EXCEPT ![c].state = "CLOSED"]
             /\ events' = Post(ev, k.worker, "C_release", c)

\* The connections mark_down_all() finds.
Known(m) == (msgr[m].accepting \cup Range(msgr[m].conns)) \ {None}

\* The events by which they stop, on worker w.
StopEvents(m, w) ==
    LET q == SetToSeq({c \in Known(m) : conn[c].state # "CLOSED" /\ conn[c].worker = w})
    IN  [i \in DOMAIN q |-> [kind |-> "C_stop", arg |-> q[i]]]

\* AsyncMessenger::mark_down_all(): stop() of each of them.
mark_down_all(m) ==
    /\ conn' = [c \in ConnIds |-> IF c \in Known(m) THEN [conn[c] EXCEPT !.stopping = TRUE]
                                                    ELSE conn[c]]
    /\ events' = [w \in Workers |-> events[w] \o StopEvents(m, w)]

-----------------------------------------------------------------------------
(***************************************************************************)
(* Threads.                                                                *)
(***************************************************************************)
\* The next call of thread t's script is call(m).
Calls(t, call, m) ==
    /\ ~aborted
    /\ pc[t].at = "idle" /\ script[t] # <<>>
    /\ Head(script[t]).call = call /\ Head(script[t]).m = m

\* Thread t begins it.
Begins(t, call, m) == Calls(t, call, m) /\ script' = [script EXCEPT ![t] = Tail(@)]

\* ... and takes start_lock for it.
Locks(t, call, m) == Begins(t, call, m) /\ start_lock[m] = None

\* Thread t is at a later point of its call.
At(t, where, m) == ~aborted /\ pc[t].at = where /\ pc[t].m = m

Goto(t, where) == pc' = [pc EXCEPT ![t].at = where]

\* The call is over.
Return(t) == pc' = [pc EXCEPT ![t] = Idle]

\* It goes on at a later point, holding start_lock.
Continue(t, m, where) ==
    /\ pc' = [pc EXCEPT ![t] = [Idle EXCEPT !.at = where, !.m = m,
                                            !.call = Head(script[t]).call]]
    /\ start_lock' = [start_lock EXCEPT ![m] = t]

Unlock(m) == start_lock' = [start_lock EXCEPT ![m] = None]

SetFlags(m, on, off) == [msgr EXCEPT ![m].flags = (@ \cup on) \ off]

\* An assertion fails.
Abort(t) ==
    /\ aborted' = TRUE /\ Return(t)
    /\ UNCHANGED <<msgr, start_lock, conn, events, pool, env>>

\* init_local_connection().
init_local_connection(M) == [M EXCEPT !.local_up = TRUE]

\* Processor::bind(): a socket, an address (learned_addr), the local connection.
Bound(M) == init_local_connection([M EXCEPT !.listen = TRUE,
                                            !.flags = (@ \cup {"did_bind"}) \ {"need_addr"}])

bind(t, m) ==
    /\ Locks(t, "bind", m)
    /\ msgr' = IF Has(m, "started") THEN msgr ELSE [msgr EXCEPT ![m] = Bound(@)]
    /\ Return(t)
    /\ UNCHANGED <<start_lock, conn, events, pool, aborted, env>>

\* No port can be had, and the application calls bind() again.
BindFails(t, m) ==
    /\ Calls(t, "bind", m) /\ start_lock[m] = None
    /\ ~Has(m, "started")
    /\ failures > 0 /\ failures' = failures - 1
    /\ UNCHANGED <<msgr, start_lock, conn, events, pool, pc, script, aborted, incoming>>

\* Processor::start(w).
Started(M, w) ==
    IF M.listen /\ M.worker = -1 THEN [M EXCEPT !.worker = w, !.ev_read = TRUE] ELSE M

\* add_dispatcher_head(): the first one calls ready(), which starts the threads of
\* the dispatch queue ...
add_dispatcher(t, m) ==
    /\ Begins(t, "add_dispatcher", m)
    /\ \/ /\ Has(m, "dispatcher")
          /\ Return(t)
          /\ UNCHANGED <<msgr, start_lock, conn, events, pool, aborted, env>>
       \/ /\ ~Has(m, "dispatcher")
          /\ msgr[m].stop \/ msgr[m].dispatch # "none"
          /\ Abort(t)
       \/ /\ ~Has(m, "dispatcher")
          /\ ~msgr[m].stop /\ msgr[m].dispatch = "none"
          /\ msgr' = [SetFlags(m, {"dispatcher"}, {}) EXCEPT
                         ![m].dispatch = "running", ![m].local = "running"]
          /\ pc' = [pc EXCEPT ![t] = [Idle EXCEPT !.at = "ready", !.m = m]]
          /\ UNCHANGED <<start_lock, conn, events, pool, aborted, env>>

\* ... and then has a worker accept connections.
ready(t, m) ==
    /\ At(t, "ready", m)
    /\ IF Has(m, "did_bind")
       THEN /\ seq' = get_worker
            /\ msgr' = [msgr EXCEPT ![m] = Started(@, get_worker)]
       ELSE UNCHANGED <<seq, msgr>>
    /\ Return(t)
    /\ UNCHANGED <<start_lock, conn, events, barrier_count, script, overlap, aborted, env>>

start(t, m) ==
    /\ Locks(t, "start", m)
    /\ msgr' = IF Has(m, "started") THEN msgr
               ELSE IF Has(m, "did_bind") THEN SetFlags(m, {"started"}, {})
               ELSE [SetFlags(m, {"started"}, {}) EXCEPT ![m] = init_local_connection(@)]
    /\ Return(t)
    /\ UNCHANGED <<start_lock, conn, events, pool, aborted, env>>

ShutsDown(m) == Has(m, "started") /\ ~Has(m, "shutdown_called")

\* Processor::stop() posts an event for the worker that accepts, if there is one,
\* and waits for it.
ProcessorStop(t, m, M) ==
    IF M.listen /\ M.worker # -1
    THEN /\ msgr' = [msgr EXCEPT ![m] = [M EXCEPT !.stopped = FALSE]]
         /\ events' = Post(events, M.worker, "C_ProcessorStop", m)
         /\ Continue(t, m, "listening")
    ELSE /\ msgr' = [msgr EXCEPT ![m] = [M EXCEPT !.listen = FALSE]]
         /\ Continue(t, m, "closed")
         /\ UNCHANGED events

\* shutdown(), rebind() and unbind() begin with it.
shutdown(t, m) ==
    /\ Locks(t, "shutdown", m)
    /\ IF ShutsDown(m)
       THEN ProcessorStop(t, m, [msgr[m] EXCEPT !.flags = @ \cup {"shutdown_called"}])
       ELSE Return(t) /\ UNCHANGED <<msgr, events, start_lock>>
    /\ UNCHANGED <<conn, pool, aborted, env>>

rebind(t, m) ==
    /\ Locks(t, "rebind", m)
    /\ \/ ~Has(m, "did_bind") /\ Abort(t)
       \/ /\ Has(m, "did_bind")
          /\ ProcessorStop(t, m, msgr[m])
          /\ UNCHANGED <<conn, pool, aborted, env>>

unbind(t, m) ==
    /\ Locks(t, "unbind", m)
    /\ IF Has(m, "did_bind")
       THEN ProcessorStop(t, m, msgr[m])
       ELSE Return(t) /\ UNCHANGED <<msgr, events, start_lock>>
    /\ UNCHANGED <<conn, pool, aborted, env>>

\* Mutant: Processor::stop() does not wait for the worker.
StopSeen_at_once(m) == TRUE

\* while (!stopped) cond.Wait(lock).
StopSeen(m) == msgr[m].stopped

ProcessorStopped(t, m) ==
    /\ At(t, "listening", m)
    /\ StopSeen(m)
    /\ msgr' = [msgr EXCEPT ![m].worker = -1, ![m].listen = FALSE]
    /\ Goto(t, "closed")
    /\ UNCHANGED <<start_lock, conn, events, pool, script, aborted, env>>

\* The rest of unbind().
Unbound(t, m) ==
    /\ At(t, "closed", m) /\ pc[t].call = "unbind"
    /\ msgr' = SetFlags(m, {}, {"did_bind"})
    /\ Return(t) /\ Unlock(m)
    /\ UNCHANGED <<conn, events, pool, script, aborted, env>>

\* Mutant: shutdown() leaves did_bind as it is.
Unbinds_no(call) == {}

\* shutdown() sets did_bind to false, rebind() does not.
Unbinds(call) == IF call = "shutdown" THEN {"did_bind"} ELSE {}

\* rebind() and shutdown() mark all connections down.
MarkAllDown(t, m) ==
    /\ At(t, "closed", m) /\ pc[t].call \in {"rebind", "shutdown"}
    /\ mark_down_all(m)
    /\ msgr' = [SetFlags(m, {}, Unbinds(pc[t].call)) EXCEPT ![m].gen = @ + 1]
    /\ Goto(t, IF pc[t].call = "rebind" THEN "rebind" ELSE "barrier")
    /\ UNCHANGED <<start_lock, pool, script, aborted, env>>

\* The rest of rebind(): another port, which may not be had, and a worker.
Rebound(t, m) ==
    /\ At(t, "rebind", m)
    /\ \/ /\ seq' = get_worker
          /\ msgr' = [msgr EXCEPT ![m] = Started(Bound(@), get_worker)]
          /\ UNCHANGED failures
       \/ /\ failures > 0 /\ failures' = failures - 1
          /\ UNCHANGED <<seq, msgr>>
    /\ Return(t) /\ Unlock(m)
    /\ UNCHANGED <<conn, events, barrier_count, script, overlap, aborted, incoming>>

\* WorkerPool::barrier(): an event for every worker, counted after it was posted.
InBarrier(t) == pc[t].at \in {"barrier", "inc", "barrier_wait", "barrier_sleep"}

barrier_post(t, m) ==
    /\ At(t, "barrier", m)
    /\ events' = Post(events, pc[t].i, "C_barrier", None)
    /\ Goto(t, "inc")
    /\ overlap' = (overlap \/ \E u \in Threads \ {t} : InBarrier(u))
    /\ UNCHANGED <<msgr, start_lock, conn, seq, barrier_count, script, aborted, env>>

barrier_inc(t, m) ==
    /\ At(t, "inc", m)
    /\ barrier_count' = barrier_count + 1
    /\ pc' = [pc EXCEPT ![t].i = @ + 1,
                        ![t].at = IF pc[t].i + 1 = NumWorkers THEN "barrier_wait"
                                                              ELSE "barrier"]
    /\ UNCHANGED <<msgr, start_lock, conn, events, seq, script, overlap, aborted, env>>

\* Mutant: barrier() does not wait.
BarrierPassed_at_once == TRUE

BarrierPassed == barrier_count = 0

barrier_wait(t, m) ==
    /\ At(t, "barrier_wait", m)
    /\ Goto(t, IF BarrierPassed THEN "finish" ELSE "barrier_sleep")
    /\ UNCHANGED <<msgr, start_lock, conn, events, pool, script, aborted, env>>

\* The rest of shutdown(): LocalConnection::stop() and DispatchQueue::shutdown(),
\* which joins the thread of local deliveries.
Finish(t, m) ==
    /\ At(t, "finish", m)
    /\ \/ msgr[m].local = "none" /\ Abort(t)
       \/ /\ msgr[m].local = "running"
          /\ msgr' = [msgr EXCEPT ![m].local_up = FALSE, ![m].local = "none",
                                  ![m].stop = TRUE]
          /\ Return(t) /\ Unlock(m)
          /\ UNCHANGED <<conn, events, pool, aborted, env>>
    /\ UNCHANGED script

\* wait() asserts that nothing is bound and lets go of start_lock while it joins
\* the dispatch thread.
wait(t, m) ==
    /\ Locks(t, "wait", m)
    /\ \/ /\ ~Has(m, "started") /\ Return(t)
          /\ UNCHANGED <<msgr, start_lock, conn, events, pool, aborted, env>>
       \/ Has(m, "started") /\ Has(m, "did_bind") /\ Abort(t)
       \/ /\ Has(m, "started") /\ ~Has(m, "did_bind") /\ msgr[m].dispatch # "none"
          /\ pc' = [pc EXCEPT ![t] = [Idle EXCEPT !.at = "join", !.m = m]]
          /\ UNCHANGED <<msgr, start_lock, conn, events, pool, aborted, env>>
       \/ /\ Has(m, "started") /\ ~Has(m, "did_bind") /\ msgr[m].dispatch = "none"
          /\ msgr' = SetFlags(m, {}, {"started", "shutdown_called"})
          /\ Return(t)
          /\ UNCHANGED <<start_lock, conn, events, pool, aborted, env>>

\* DispatchQueue::wait().
Joined(t, m) ==
    /\ At(t, "join", m)
    /\ msgr[m].dispatch = "ended"
    /\ msgr' = [msgr EXCEPT ![m].dispatch = "none", ![m].stop = FALSE]
    /\ Goto(t, "relock")
    /\ UNCHANGED <<start_lock, conn, events, pool, script, aborted, env>>

Waited(t, m) ==
    /\ At(t, "relock", m)
    /\ start_lock[m] = None
    /\ msgr' = SetFlags(m, {}, {"started", "shutdown_called"})
    /\ Return(t)
    /\ UNCHANGED <<start_lock, conn, events, pool, script, aborted, env>>

\* get_connection() and create_connect(): a connection that is being stopped is
\* still found.
get_connection(t, m) ==
    /\ Begins(t, "get_connection", m)
    /\ LET peer == Head(script[t]).peer
       IN  IF msgr[m].conns[peer] # None
           THEN UNCHANGED <<seq, conn, msgr>>
           ELSE \E c \in FreeId :
                  /\ c = CHOOSE f \in FreeId : TRUE
                  /\ seq' = get_worker
                  /\ conn' = NewConn(c, m, peer, "CONNECTING", get_worker)
                  /\ msgr' = [msgr EXCEPT ![m].conns[peer] = c]
    /\ Return(t)
    /\ UNCHANGED <<start_lock, events, barrier_count, overlap, aborted, env>>

\* Connection::mark_down() of a registered connection, which the worker closes.
mark_down(t, m) ==
    /\ Begins(t, "mark_down", m)
    /\ LET c == msgr[m].conns[Head(script[t]).peer]
       IN  IF c = None
           THEN Return(t) /\ UNCHANGED <<conn, events>>
           ELSE /\ conn' = [conn EXCEPT ![c].stopping = TRUE]
                /\ events' = Post(events, conn[c].worker, "C_stop", c)
                /\ pc' = [pc EXCEPT ![t] = [Idle EXCEPT !.at = "closing", !.m = m, !.c = c]]
    /\ UNCHANGED <<msgr, start_lock, pool, aborted, env>>

MarkedDown(t, m) ==
    /\ At(t, "closing", m)
    /\ conn[pc[t].c].state = "CLOSED"
    /\ Return(t)
    /\ UNCHANGED <<msgr, start_lock, conn, events, pool, script, aborted, env>>

\* The application calls mark_down_all().
CallMarkDownAll(t, m) ==
    /\ Begins(t, "mark_down_all", m)
    /\ mark_down_all(m)
    /\ Return(t)
    /\ UNCHANGED <<msgr, start_lock, pool, aborted, env>>

-----------------------------------------------------------------------------
(***************************************************************************)
(* Workers.                                                                *)
(***************************************************************************)
\* Processor::accept(): the worker takes a socket ...
accept(m) ==
    /\ ~aborted /\ incoming > 0
    /\ msgr[m].ev_read /\ msgr[m].accepted = -1
    /\ msgr' = [msgr EXCEPT ![m].accepted = msgr[m].gen]
    /\ incoming' = incoming - 1
    /\ UNCHANGED <<start_lock, conn, events, pool, pc, script, aborted, failures>>

\* ... and then AsyncMessenger::lock, to register a connection for it.
add_accept(m) ==
    /\ ~aborted /\ msgr[m].accepted # -1
    /\ \E c \in FreeId, peer \in Peers :
         /\ c = CHOOSE f \in FreeId : TRUE
         /\ seq' = get_worker
         /\ conn' = [NewConn(c, m, peer, "ACCEPTING", get_worker) EXCEPT
                        ![c].gen = msgr[m].accepted]
         /\ msgr' = [msgr EXCEPT ![m].accepting = @ \cup {c}, ![m].accepted = -1]
    /\ UNCHANGED <<start_lock, events, barrier_count, pc, script, overlap, aborted, env>>

\* The worker is in Processor::accept().
Accepting(w) == \E m \in Msgrs : msgr[m].worker = w /\ msgr[m].accepted # -1

\* _accept_conn(): the connection is registered and open; if another one of the
\* peer is, that one gets its socket, and it is stopped.
_accept_conn(c) ==
    /\ ~aborted /\ conn[c].state = "ACCEPTING"
    /\ LET m == conn[c].m
           free == msgr[m].conns[conn[c].peer] = None
       IN  IF free
           THEN /\ msgr' = [msgr EXCEPT ![m].accepting = @ \ {c},
                                        ![m].conns[conn[c].peer] = c]
                /\ conn' = [conn EXCEPT ![c].state = "OPEN"]
                /\ UNCHANGED events
           ELSE _stop(c, events)
    /\ UNCHANGED <<start_lock, pool, pc, script, aborted, env>>

\* A connection that was made here opens; the peer tells us our address.
ConnectDone(c) ==
    /\ ~aborted /\ conn[c].state = "CONNECTING"
    /\ conn' = [conn EXCEPT ![c].state = "OPEN"]
    /\ LET m == conn[c].m
       IN  msgr' = IF Has(m, "need_addr")
                   THEN [SetFlags(m, {}, {"need_addr"}) EXCEPT ![m] = init_local_connection(@)]
                   ELSE msgr
    /\ UNCHANGED <<start_lock, events, pool, pc, script, aborted, env>>

\* Mutant: C_barrier does not signal.
Signalled_none == pc

\* barrier_cond.Signal(), which wakes all who wait.
Signalled ==
    [t \in Threads |-> IF pc[t].at = "barrier_sleep" THEN [pc[t] EXCEPT !.at = "barrier_wait"]
                                                     ELSE pc[t]]

\* invoke_pending_cb(): the oldest external event.
DoRequest(w) ==
    /\ ~aborted /\ events[w] # <<>> /\ ~Accepting(w)
    /\ LET e == Head(events[w])
           rest == [events EXCEPT ![w] = Tail(@)]
       IN  \/ /\ e.kind = "C_stop"
              /\ _stop(e.arg, rest)
              /\ UNCHANGED <<barrier_count, pc>>
           \/ /\ e.kind = "C_release"
              /\ conn' = [conn EXCEPT ![e.arg].released = @ + 1]
              /\ events' = rest
              /\ UNCHANGED <<msgr, barrier_count, pc>>
           \/ /\ e.kind = "C_ProcessorStop"
              /\ msgr' = [msgr EXCEPT ![e.arg].stopped = TRUE, ![e.arg].ev_read = FALSE]
              /\ events' = rest
              /\ UNCHANGED <<conn, barrier_count, pc>>
           \/ /\ e.kind = "C_barrier"
              /\ barrier_count' = barrier_count - 1
              /\ pc' = Signalled
              /\ events' = rest
              /\ UNCHANGED <<msgr, conn>>
    /\ UNCHANGED <<start_lock, seq, script, overlap, aborted, env>>

\* The dispatch thread ends when it is told to and its queue is empty.
DispatchEnds(m) ==
    /\ ~aborted /\ msgr[m].dispatch = "running" /\ msgr[m].stop
    /\ msgr' = [msgr EXCEPT ![m].dispatch = "ended"]
    /\ UNCHANGED <<start_lock, conn, events, pool, pc, script, aborted, env>>

-----------------------------------------------------------------------------
Goes(t, m) ==
    \/ ready(t, m) \/ ProcessorStopped(t, m) \/ Unbound(t, m) \/ MarkAllDown(t, m)
    \/ Rebound(t, m) \/ barrier_post(t, m) \/ barrier_inc(t, m) \/ barrier_wait(t, m)
    \/ Finish(t, m) \/ Joined(t, m) \/ Waited(t, m) \/ MarkedDown(t, m)

MakesCall(t, m) ==
    \/ bind(t, m) \/ BindFails(t, m) \/ add_dispatcher(t, m) \/ start(t, m) \/ rebind(t, m) \/ unbind(t, m)
    \/ shutdown(t, m) \/ wait(t, m) \/ get_connection(t, m) \/ mark_down(t, m)
    \/ CallMarkDownAll(t, m)

Next ==
    \/ \E t \in Threads, m \in Msgrs : Goes(t, m) \/ MakesCall(t, m)
    \/ \E m \in Msgrs : accept(m) \/ add_accept(m) \/ DispatchEnds(m)
    \/ \E c \in ConnIds : _accept_conn(c) \/ ConnectDone(c)
    \/ \E w \in Workers : DoRequest(w)

Spec == Init /\ [][Next]_vars

\* Threads that can go on do, workers handle their events, the dispatch thread runs.
FairSpec ==
    /\ Spec
    /\ \A t \in Threads : WF_vars(\E m \in Msgrs : Goes(t, m) \/ MakesCall(t, m))
    /\ \A w \in Workers : WF_vars(DoRequest(w))
    /\ \A m \in Msgrs : WF_vars(DispatchEnds(m)) /\ WF_vars(add_accept(m))

-----------------------------------------------------------------------------
(***************************************************************************)
(* Properties.                                                             *)
(***************************************************************************)
\* No assertion of the life cycle fails: not those of rebind(), wait() and
\* DispatchQueue::start(), nor "join on thread that was never started".
NoAbort == ~aborted

\* Call k of thread t in the scripts S is call(m).
Listed(S, t, k, call, m) == k \in DOMAIN S[t] /\ S[t][k].call = call /\ S[t][k].m = m

\* call(m) comes nowhere but in thread t after its call k.
OnlyAfter(S, call, m, t, k) ==
    \A u \in Threads : \A j \in DOMAIN S[u] : Listed(S, u, j, call, m) => u = t /\ j > k

\* A shutdown() of m may come after call k of thread t.
ShutdownMayFollow(S, t, k, m) ==
    \E u \in Threads : \E j \in DOMAIN S[u] : Listed(S, u, j, "shutdown", m) /\ (u = t => j > k)

\* What the application has to do: of the start() calls that a shutdown() may follow
\* there is one, after an add_dispatcher() in the same thread; ...
StartsOnce(S, m) ==
    \A t \in Threads : \A k \in DOMAIN S[t] :
        Listed(S, t, k, "start", m) /\ ShutdownMayFollow(S, t, k, m) =>
            /\ \E j \in 1 .. (k - 1) : Listed(S, t, j, "add_dispatcher", m)
            /\ \A u \in Threads : \A j \in DOMAIN S[u] :
                  Listed(S, u, j, "start", m) /\ ShutdownMayFollow(S, u, j, m) => u = t /\ j = k

\* ... who waits for a messenger that is ever bound has started it and shut it down,
\* and it is not started again before that; ...
WaitsAfterShutdown(S, m) ==
    \A t \in Threads : \A k \in DOMAIN S[t] : Listed(S, t, k, "wait", m) =>
        \/ \A u \in Threads : \A j \in DOMAIN S[u] : ~Listed(S, u, j, "bind", m)
        \/ \E i, j \in 1 .. (k - 1) :
              /\ i < j /\ Listed(S, t, i, "start", m) /\ Listed(S, t, j, "shutdown", m)
              /\ \A u \in Threads : \A l \in DOMAIN S[u] :
                    Listed(S, u, l, "start", m) => u = t /\ (l = i \/ l > k)

\* ... who calls rebind() has called bind() before any start(), and nobody calls
\* shutdown() or unbind() before it.
RebindsBound(S, m) ==
    \A t \in Threads : \A k \in DOMAIN S[t] : Listed(S, t, k, "rebind", m) =>
        /\ \E j \in 1 .. (k - 1) : Listed(S, t, j, "bind", m) /\ OnlyAfter(S, "start", m, t, j)
        /\ OnlyAfter(S, "shutdown", m, t, k) /\ OnlyAfter(S, "unbind", m, t, k)

\* With such scripts NoAbort holds, whatever else the threads call at whatever moment.
ProperUse(S) ==
    \A m \in Msgrs : StartsOnce(S, m) /\ WaitsAfterShutdown(S, m) /\ RebindsBound(S, m)

Made(m) == {c \in ConnIds : conn[c].m = m}

\* When shutdown() has returned, every connection that was made or accepted before
\* it marked them down is closed and forgotten, no later one was accepted, and the
\* local connection is shut: what is left was asked for by the application since.
\* (Two barriers that overlap count for each other.)
ShutdownComplete ==
    \A m \in Msgrs :
        msgr[m].stop /\ ~overlap =>
            /\ \A c \in Made(m) : conn[c].gen < msgr[m].gen =>
                  conn[c].state = "CLOSED" /\ c \notin Known(m)
            /\ \A c \in Made(m) : conn[c].gen = msgr[m].gen => conn[c].state # "ACCEPTING"
            /\ msgr[m].local_up => \E c \in Made(m) : conn[c].gen = msgr[m].gen

\* After rebind() or shutdown() the connections of before are on their way down,
\* whoever accepted or registered them at the same time.
OldConnectionsStop ==
    \A c \in ConnIds :
        conn[c].m # None /\ conn[c].gen < msgr[conn[c].m].gen =>
            conn[c].stopping \/ conn[c].state = "CLOSED"

\* The workers' reference to a connection is dropped once, however often the
\* connection is stopped, and when it is closed.
ReleasedOnce ==
    \A c \in ConnIds :
        LET Waiting == {p \in UNION {{w} \X DOMAIN events[w] : w \in Workers} :
                          events[p[1]][p[2]] = [kind |-> "C_release", arg |-> c]}
        IN  conn[c].released + Cardinality(Waiting) =
               IF conn[c].state = "CLOSED" THEN 1 ELSE 0

\* A waiter that no shutdown() has come for.
WaitsInVain(t) == pc[t].at = "join" /\ ~msgr[pc[t].m].stop

\* Every call returns, but for wait() without shutdown() and for barriers that
\* overlap, one of which may miss its wakeup.
CallsReturn ==
    \A t \in Threads : pc[t].at # "idle" ~> pc[t].at = "idle" \/ overlap \/ WaitsInVain(t)
=============================================================================
