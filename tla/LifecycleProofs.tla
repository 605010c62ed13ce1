--------------------------- MODULE LifecycleProofs ---------------------------
(***************************************************************************)
(* Theorems about Lifecycle, for any number of messengers, threads and     *)
(* workers, and whatever calls the threads make in whatever order.         *)
(***************************************************************************)
EXTENDS Lifecycle, FiniteSetTheorems, TLAPS

Flags == {"need_addr", "did_bind", "started", "shutdown_called", "dispatcher"}

MsgrStates ==
    [flags : SUBSET Flags, listen : BOOLEAN, gen : Nat, worker : Workers \cup {-1},
     stopped : BOOLEAN, ev_read : BOOLEAN, accepted : Nat \cup {-1},
     conns : [Peers -> ConnIds \cup {None}], accepting : SUBSET ConnIds,
     local_up : BOOLEAN, dispatch : {"none", "running", "ended"},
     local : {"none", "running"}, stop : BOOLEAN]

ConnStates ==
    [state : {"NONE", "CONNECTING", "ACCEPTING", "OPEN", "CLOSED"},
     m : Msgrs \cup {None}, peer : Peers \cup {None}, worker : Workers \cup {-1},
     stopping : BOOLEAN, gen : Nat, released : Nat]

Events == [kind : {"C_stop", "C_release", "C_ProcessorStop"}, arg : ConnIds \cup Msgrs]
            \cup [kind : {"C_barrier"}, arg : {None}]

\* Where a thread holds start_lock: waiting for Processor::stop(), after it, and
\* from barrier() on.
InBarrierAt == {"barrier", "inc", "barrier_wait", "barrier_sleep"}
AfterStop == InBarrierAt \cup {"closed", "rebind", "finish"}
LockedAt == AfterStop \cup {"listening"}

Points == LockedAt \cup {"idle", "ready", "join", "relock", "closing"}

PcStates == [at : Points, m : Msgrs \cup {None}, call : CallNames \cup {None},
             i : Nat, c : ConnIds \cup {None}]

Types ==
    /\ msgr \in [Msgrs -> MsgrStates] /\ conn \in [ConnIds -> ConnStates]
    /\ events \in [Workers -> Seq(Events)] /\ pc \in [Threads -> PcStates]
    /\ start_lock \in [Msgrs -> Threads \cup {None}]
    /\ script \in [Threads -> Seq([call : CallNames, m : Msgrs, peer : Peers])]
    /\ seq \in Nat /\ barrier_count \in Int

-----------------------------------------------------------------------------
(***************************************************************************)
(* Events.                                                                 *)
(***************************************************************************)
release(c) == [kind |-> "C_release", arg |-> c]
stop(c) == [kind |-> "C_stop", arg |-> c]
processor_stop(m) == [kind |-> "C_ProcessorStop", arg |-> m]
barrier == [kind |-> "C_barrier", arg |-> None]

\* e is not posted, and e is posted once, in the events ev.
NotPosted(ev, e) == \A w \in Workers : \A k \in DOMAIN ev[w] : ev[w][k] # e
PostedOnce(ev, e) ==
    \E w \in Workers : \E k \in DOMAIN ev[w] :
        /\ ev[w][k] = e
        /\ \A v \in Workers : \A j \in DOMAIN ev[v] : ev[v][j] = e => v = w /\ j = k

\* Worker w has still to handle e.
Queued(ev, w, e) == \E k \in DOMAIN ev[w] : ev[w][k] = e

-----------------------------------------------------------------------------
(***************************************************************************)
(* The invariant.                                                          *)
(***************************************************************************)
\* A connection that was made has a messenger, a peer and a worker.
Made1 ==
    \A c \in ConnIds :
        IF conn[c].state = "NONE" THEN conn[c] = FreeConn
        ELSE /\ conn[c].m \in Msgrs /\ conn[c].peer \in Peers /\ conn[c].worker \in Workers
             /\ conn[c].gen <= msgr[conn[c].m].gen

\* It is registered with its messenger until it is closed, and nowhere else.
Registered ==
    /\ \A c \in ConnIds : conn[c].state = "ACCEPTING" => c \in msgr[conn[c].m].accepting
    /\ \A c \in ConnIds : conn[c].state \in {"CONNECTING", "OPEN"} =>
                             msgr[conn[c].m].conns[conn[c].peer] = c
    /\ \A m \in Msgrs : \A c \in ConnIds :
          c \in msgr[m].accepting => conn[c].m = m /\ conn[c].state = "ACCEPTING"
    /\ \A m \in Msgrs : \A p \in Peers : \A c \in ConnIds :
          msgr[m].conns[p] = c =>
              /\ conn[c].m = m /\ conn[c].peer = p
              /\ conn[c].state \in {"CONNECTING", "OPEN"}

\* Events are about connections that were made.
FitIn(ev) ==
    \A w \in Workers : \A k \in DOMAIN ev[w] :
        ev[w][k].kind \in {"C_stop", "C_release"} =>
            ev[w][k].arg \in ConnIds /\ conn[ev[w][k].arg].state # "NONE"

\* The workers' reference is dropped, or about to be, when a connection is closed.
ReleaseIn(ev, c) ==
    IF conn[c].state = "CLOSED"
    THEN \/ conn[c].released = 0 /\ PostedOnce(ev, release(c))
         \/ conn[c].released = 1 /\ NotPosted(ev, release(c))
    ELSE conn[c].released = 0 /\ NotPosted(ev, release(c))

\* A connection of before the last rebind() or shutdown() that is not closed ...
Stale(c) ==
    /\ conn[c].state \notin {"NONE", "CLOSED"}
    /\ conn[c].gen < msgr[conn[c].m].gen

\* ... is told to stop, by an event that is on its way.
StopsIn(ev, c) == Stale(c) => conn[c].stopping /\ Queued(ev, conn[c].worker, stop(c))

ConnInv ==
    /\ Made1 /\ Registered /\ FitIn(events)
    /\ \A c \in ConnIds : ReleaseIn(events, c) /\ StopsIn(events, c)

\* The thread that holds start_lock, and what it finds of the Processor.
Locking ==
    \A t \in Threads : pc[t].at \in LockedAt =>
        /\ pc[t].m \in Msgrs /\ start_lock[pc[t].m] = t
        /\ pc[t].at = "listening" =>
              /\ msgr[pc[t].m].listen /\ msgr[pc[t].m].worker # -1
              /\ msgr[pc[t].m].stopped => ~msgr[pc[t].m].ev_read
        /\ pc[t].at \in AfterStop =>
              ~msgr[pc[t].m].listen /\ msgr[pc[t].m].worker = -1

\* The Processor: who accepts, and sockets that belong to the present time.
Accepts ==
    \A m \in Msgrs :
        /\ msgr[m].worker # -1 => msgr[m].listen
        /\ msgr[m].ev_read => msgr[m].worker # -1
        /\ msgr[m].accepted # -1 => msgr[m].ev_read /\ msgr[m].accepted = msgr[m].gen

\* C_ProcessorStop is on its way to the worker that accepts, once, while a thread
\* waits for it.
StopsOne(m) ==
    \/ NotPosted(events, processor_stop(m))
    \/ /\ PostedOnce(events, processor_stop(m))
       /\ \E t \in Threads : pc[t].at = "listening" /\ pc[t].m = m
       /\ ~msgr[m].stopped
       /\ \A w \in Workers : \A k \in DOMAIN events[w] :
             events[w][k] = processor_stop(m) => msgr[m].worker = w

StopsOnce == \A m \in Msgrs : StopsOne(m)

ProcInv == Locking /\ Accepts /\ StopsOnce

-----------------------------------------------------------------------------
(***************************************************************************)
(* Queues of events.                                                       *)
(***************************************************************************)
\* ev2 is ev with e at the end of worker w's queue.
Added(ev, ev2, w, e) ==
    /\ ev2 \in [Workers -> Seq(Events)]
    /\ \A v \in Workers : \A k \in DOMAIN ev[v] : k \in DOMAIN ev2[v] /\ ev2[v][k] = ev[v][k]
    /\ \A v \in Workers : \A k \in DOMAIN ev2[v] :
          k \in DOMAIN ev[v] \/ (v = w /\ k = Len(ev[w]) + 1)
    /\ Len(ev[w]) + 1 \in DOMAIN ev2[w] /\ ev2[w][Len(ev[w]) + 1] = e
    /\ \A k \in DOMAIN ev[w] : k < Len(ev[w]) + 1

\* ev2 is ev without the first event of worker w's queue.
Taken(ev, ev2, w) ==
    /\ ev2 \in [Workers -> Seq(Events)]
    /\ \A v \in Workers : v # w => ev2[v] = ev[v]
    /\ \A k \in DOMAIN ev2[w] : k + 1 \in DOMAIN ev[w] /\ ev2[w][k] = ev[w][k + 1]
    /\ \A k \in DOMAIN ev[w] : k = 1 \/ (k - 1 \in DOMAIN ev2[w] /\ ev2[w][k - 1] = ev[w][k])
    /\ 1 \in DOMAIN ev[w] /\ Head(ev[w]) = ev[w][1] /\ Head(ev[w]) \in Events
    /\ DOMAIN ev[w] \subseteq Nat \ {0} /\ DOMAIN ev2[w] \subseteq Nat \ {0}

\* dispatch_event_external() adds to one queue.
LEMMA PostAdds ==
    ASSUME NEW ev \in [Workers -> Seq(Events)], NEW w \in Workers, NEW kind, NEW arg,
           [kind |-> kind, arg |-> arg] \in Events
    PROVE  Added(ev, Post(ev, w, kind, arg), w, [kind |-> kind, arg |-> arg])
<1> DEFINE e == [kind |-> kind, arg |-> arg]
           q == ev[w]
           ev2 == Post(ev, w, kind, arg)
<1>1. q \in Seq(Events) /\ e \in Events
  OBVIOUS
<1>2. ev2 = [ev EXCEPT ![w] = Append(q, e)]
  BY DEF Post
<1> HIDE DEF e
<1>3. /\ Append(q, e) \in Seq(Events) /\ Len(q) \in Nat
      /\ DOMAIN q = 1 .. Len(q) /\ DOMAIN Append(q, e) = 1 .. Len(q) + 1
      /\ \A k \in 1 .. Len(q) : Append(q, e)[k] = q[k]
      /\ Append(q, e)[Len(q) + 1] = e
  BY <1>1
<1>4. ev2 \in [Workers -> Seq(Events)] /\ ev2[w] = Append(q, e)
      /\ \A v \in Workers : v # w => ev2[v] = ev[v]
  BY <1>2, <1>3
<1> HIDE DEF ev2
<1>5. \A k \in DOMAIN q : k < Len(q) + 1
  BY <1>3
<1>6. ASSUME NEW v \in Workers, NEW k \in DOMAIN ev[v]
      PROVE  k \in DOMAIN ev2[v] /\ ev2[v][k] = ev[v][k]
  <2>1. CASE v = w
    <3>1. k \in 1 .. Len(q) /\ k \in 1 .. Len(q) + 1
      BY <1>3, <2>1
    <3> QED
      BY <1>3, <1>4, <2>1, <3>1
  <2>2. CASE v # w
    BY <1>4, <2>2
  <2> QED
    BY <2>1, <2>2
<1>7. \A v \in Workers : \A k \in DOMAIN ev2[v] :
          k \in DOMAIN ev[v] \/ (v = w /\ k = Len(q) + 1)
  BY <1>3, <1>4
<1>8. Len(q) + 1 \in DOMAIN ev2[w] /\ ev2[w][Len(q) + 1] = e
  BY <1>3, <1>4
<1> QED
  BY <1>4, <1>5, <1>6, <1>7, <1>8 DEF Added, e, ev2

\* A worker takes its oldest event.
LEMMA TakeTakes ==
    ASSUME NEW ev \in [Workers -> Seq(Events)], NEW w \in Workers, ev[w] # <<>>
    PROVE  Taken(ev, [ev EXCEPT ![w] = Tail(@)], w)
<1> DEFINE q == ev[w]
           ev2 == [ev EXCEPT ![w] = Tail(@)]
<1>1. q \in Seq(Events) /\ q # <<>>
  OBVIOUS
<1>2. /\ Tail(q) \in Seq(Events) /\ Len(q) \in Nat \ {0} /\ DOMAIN q = 1 .. Len(q)
      /\ DOMAIN Tail(q) = 1 .. Len(q) - 1
      /\ \A k \in 1 .. Len(q) - 1 : Tail(q)[k] = q[k + 1]
      /\ Head(q) = q[1] /\ q[1] \in Events
  BY <1>1
<1>3. /\ ev2 \in [Workers -> Seq(Events)] /\ ev2[w] = Tail(q)
      /\ \A v \in Workers : v # w => ev2[v] = ev[v]
  BY <1>2
<1> HIDE DEF ev2
<1>4. \A k \in DOMAIN ev2[w] : k + 1 \in DOMAIN q /\ ev2[w][k] = q[k + 1]
  BY <1>2, <1>3
<1>5. \A k \in DOMAIN q : k = 1 \/ (k - 1 \in DOMAIN ev2[w] /\ ev2[w][k - 1] = q[k])
  <2> SUFFICES ASSUME NEW k \in 1 .. Len(q), k # 1
               PROVE  k - 1 \in DOMAIN ev2[w] /\ ev2[w][k - 1] = q[k]
    BY <1>2
  <2>1. k - 1 \in 1 .. Len(q) - 1 /\ (k - 1) + 1 = k
    BY <1>2
  <2>2. Tail(q)[k - 1] = q[(k - 1) + 1]
    BY <1>2, <2>1
  <2> QED
    BY <1>2, <1>3, <2>1, <2>2
<1>6. 1 \in DOMAIN q /\ DOMAIN q \subseteq Nat \ {0} /\ DOMAIN ev2[w] \subseteq Nat \ {0}
  BY <1>2, <1>3
<1> QED
  BY <1>2, <1>3, <1>4, <1>5, <1>6 DEF Taken, ev2

\* What is posted of e is the same in ev and in ev2.
Kept(ev, ev2, e) ==
    /\ NotPosted(ev, e) => NotPosted(ev2, e)
    /\ PostedOnce(ev, e) => PostedOnce(ev2, e)
    /\ \A w \in Workers : Queued(ev2, w, e) <=> Queued(ev, w, e)

\* Every queue of ev2 is the one of ev with events from S at the end.
Grown(ev, ev2, S) ==
    /\ ev2 \in [Workers -> Seq(Events)]
    /\ \A v \in Workers : \A k \in DOMAIN ev[v] : k \in DOMAIN ev2[v] /\ ev2[v][k] = ev[v][k]
    /\ \A v \in Workers : \A k \in DOMAIN ev2[v] : k \in DOMAIN ev[v] \/ ev2[v][k] \in S

\* Other events do not matter to e.
LEMMA OthersGrown ==
    ASSUME NEW ev, NEW ev2, NEW S, NEW e, e \notin S, Grown(ev, ev2, S)
    PROVE  Kept(ev, ev2, e)
<1>1. ASSUME NEW v \in Workers, NEW k \in DOMAIN ev2[v], ev2[v][k] = e
      PROVE  k \in DOMAIN ev[v] /\ ev[v][k] = e
  BY <1>1 DEF Grown
<1>2. ASSUME NEW v \in Workers, NEW k \in DOMAIN ev[v]
      PROVE  k \in DOMAIN ev2[v] /\ ev2[v][k] = ev[v][k]
  BY DEF Grown
<1>3. NotPosted(ev, e) => NotPosted(ev2, e)
  BY <1>1 DEF NotPosted
<1>4. ASSUME PostedOnce(ev, e) PROVE PostedOnce(ev2, e)
  <2>0. PICK v \in Workers : \E k \in DOMAIN ev[v] :
           /\ ev[v][k] = e
           /\ \A u \in Workers : \A j \in DOMAIN ev[u] : ev[u][j] = e => u = v /\ j = k
    BY <1>4 DEF PostedOnce
  <2>1. PICK k \in DOMAIN ev[v] :
           /\ ev[v][k] = e
           /\ \A u \in Workers : \A j \in DOMAIN ev[u] : ev[u][j] = e => u = v /\ j = k
    BY <2>0
  <2>2. k \in DOMAIN ev2[v] /\ ev2[v][k] = e
    BY <1>2, <2>1
  <2>3. \A u \in Workers : \A j \in DOMAIN ev2[u] : ev2[u][j] = e => u = v /\ j = k
    BY <1>1, <2>1
  <2> QED
    BY <2>2, <2>3 DEF PostedOnce
<1>5. \A v \in Workers : Queued(ev2, v, e) <=> Queued(ev, v, e)
  BY <1>1, <1>2 DEF Queued
<1> QED
  BY <1>3, <1>4, <1>5 DEF Kept

\* Another event that is posted or handled changes nothing for e.
LEMMA OtherAdded ==
    ASSUME NEW ev, NEW ev2, NEW w \in Workers, NEW x, NEW e, x # e, Added(ev, ev2, w, x)
    PROVE  Kept(ev, ev2, e)
<1>1. Grown(ev, ev2, {x})
  BY DEF Added, Grown
<1> QED
  BY <1>1, OthersGrown

\* An event that is posted for the first time is there once.
LEMMA ThisAdded ==
    ASSUME NEW ev, NEW ev2, NEW w \in Workers, NEW e, Added(ev, ev2, w, e), NotPosted(ev, e)
    PROVE  PostedOnce(ev2, e)
<1>1. ASSUME NEW v \in Workers, NEW k \in DOMAIN ev2[v], ev2[v][k] = e
      PROVE  v = w /\ k = Len(ev[w]) + 1
  BY <1>1 DEF Added, NotPosted
<1>2. Len(ev[w]) + 1 \in DOMAIN ev2[w] /\ ev2[w][Len(ev[w]) + 1] = e
  BY DEF Added
<1> QED
  BY <1>1, <1>2 DEF PostedOnce

\* The same when another event is handled.
LEMMA OtherTaken ==
    ASSUME NEW ev, NEW ev2, NEW w \in Workers, NEW e, ev[w][1] # e, Taken(ev, ev2, w)
    PROVE  Kept(ev, ev2, e)
<1>1. ASSUME NotPosted(ev, e) PROVE NotPosted(ev2, e)
  <2> SUFFICES ASSUME NEW v \in Workers, NEW k \in DOMAIN ev2[v] PROVE ev2[v][k] # e
    BY DEF NotPosted
  <2>1. CASE v = w
    BY <1>1, <2>1 DEF Taken, NotPosted
  <2>2. CASE v # w
    BY <1>1, <2>2, SMTT(40) DEF Taken, NotPosted
  <2> QED
    BY <2>1, <2>2
<1>2. ASSUME PostedOnce(ev, e) PROVE PostedOnce(ev2, e)
  <2>0. PICK v \in Workers : \E k \in DOMAIN ev[v] :
           /\ ev[v][k] = e
           /\ \A u \in Workers : \A j \in DOMAIN ev[u] : ev[u][j] = e => u = v /\ j = k
    BY <1>2 DEF PostedOnce
  <2>1. PICK k \in DOMAIN ev[v] :
           /\ ev[v][k] = e
           /\ \A u \in Workers : \A j \in DOMAIN ev[u] : ev[u][j] = e => u = v /\ j = k
    BY <2>0
  <2>2. CASE v = w
    <3>1. k # 1 /\ k \in Nat /\ DOMAIN ev2[w] \subseteq Nat
      BY <2>1, <2>2 DEF Taken
    <3>2. k - 1 \in DOMAIN ev2[w] /\ ev2[w][k - 1] = e
      BY <2>1, <2>2, <3>1 DEF Taken
    <3>3. ASSUME NEW u \in Workers, NEW j \in DOMAIN ev2[u], ev2[u][j] = e
          PROVE  u = w /\ j = k - 1
      <4>1. u = w
        BY <2>1, <2>2, <3>3 DEF Taken
      <4>2. j \in Nat /\ j + 1 = k
        BY <2>1, <3>1, <3>3, <4>1 DEF Taken
      <4> QED
        BY <3>1, <4>1, <4>2
    <3> QED
      BY <3>2, <3>3 DEF PostedOnce
  <2>3. CASE v # w
    <3>1. k \in DOMAIN ev2[v] /\ ev2[v][k] = e
      BY <2>1, <2>3 DEF Taken
    <3>2. ASSUME NEW u \in Workers, NEW j \in DOMAIN ev2[u], ev2[u][j] = e
          PROVE  u = v /\ j = k
      <4>1. CASE u = w
        <5>1. j + 1 \in DOMAIN ev[w] /\ ev[w][j + 1] = e
          BY <3>2, <4>1 DEF Taken
        <5> QED
          BY <2>1, <2>3, <5>1
      <4>2. CASE u # w
        BY <2>1, <3>2, <4>2 DEF Taken
      <4> QED
        BY <4>1, <4>2
    <3> QED
      BY <3>1, <3>2 DEF PostedOnce
  <2> QED
    BY <2>2, <2>3
<1>3. ASSUME NEW v \in Workers PROVE Queued(ev2, v, e) <=> Queued(ev, v, e)
  <2>1. CASE v = w
    <3>1. ASSUME NEW k \in DOMAIN ev2[w], ev2[w][k] = e PROVE Queued(ev, w, e)
      BY <3>1 DEF Taken, Queued
    <3>2. ASSUME NEW k \in DOMAIN ev[w], ev[w][k] = e PROVE Queued(ev2, w, e)
      <4>1. k # 1
        BY <3>2
      <4> QED
        BY <3>2, <4>1 DEF Taken, Queued
    <3> QED
      BY <2>1, <3>1, <3>2 DEF Queued
  <2>2. CASE v # w
    BY <2>2 DEF Taken, Queued
  <2> QED
    BY <2>1, <2>2
<1> QED
  BY <1>1, <1>2, <1>3 DEF Kept

\* An event that was posted once is gone when it is handled.
LEMMA ThisTaken ==
    ASSUME NEW ev, NEW ev2, NEW w \in Workers, NEW e, ev[w][1] = e, Taken(ev, ev2, w),
           PostedOnce(ev, e)
    PROVE  NotPosted(ev2, e)
<1> SUFFICES ASSUME NEW v \in Workers, NEW k \in DOMAIN ev2[v], ev2[v][k] = e PROVE FALSE
  BY DEF NotPosted
<1>0. PICK u \in Workers : \E j \in DOMAIN ev[u] :
         \A x \in Workers : \A i \in DOMAIN ev[x] : ev[x][i] = e => x = u /\ i = j
  BY DEF PostedOnce
<1>1. PICK j \in DOMAIN ev[u] :
         \A x \in Workers : \A i \in DOMAIN ev[x] : ev[x][i] = e => x = u /\ i = j
  BY <1>0
<1>2. u = w /\ j = 1
  BY <1>1 DEF Taken
<1>3. CASE v = w
  <2>1. k \in Nat /\ k + 1 \in DOMAIN ev[w] /\ ev[w][k + 1] = e
    BY <1>3 DEF Taken
  <2>2. k + 1 = 1
    BY <1>1, <1>2, <2>1
  <2>3. k # 0
    BY <1>3 DEF Taken
  <2> QED
    BY <2>1, <2>2, <2>3
<1>4. CASE v # w
  BY <1>1, <1>2, <1>4 DEF Taken
<1> QED
  BY <1>3, <1>4

-----------------------------------------------------------------------------
(***************************************************************************)
(* What the operations make of a messenger.                                *)
(***************************************************************************)
\* The fields registration is about, and those of the Processor, are the same.
SameRegs(M, R) == R.conns = M.conns /\ R.accepting = M.accepting /\ R.gen = M.gen
SameProc(M, R) == /\ R.listen = M.listen /\ R.worker = M.worker /\ R.stopped = M.stopped
                  /\ R.ev_read = M.ev_read /\ R.accepted = M.accepted
SameQueue(M, R) == R.dispatch = M.dispatch /\ R.local = M.local /\ R.stop = M.stop

\* bind() on a socket and an address.
LEMMA BoundMsgr ==
    ASSUME NEW M \in MsgrStates
    PROVE  /\ Bound(M) \in MsgrStates /\ SameRegs(M, Bound(M)) /\ SameQueue(M, Bound(M))
           /\ Bound(M).listen = TRUE /\ Bound(M).worker = M.worker
           /\ Bound(M).stopped = M.stopped /\ Bound(M).ev_read = M.ev_read
           /\ Bound(M).accepted = M.accepted
           /\ Bound(M).flags = (M.flags \cup {"did_bind"}) \ {"need_addr"}
<1> DEFINE R == Bound(M)
<1>1. R = [M EXCEPT !.listen = TRUE, !.local_up = TRUE,
                    !.flags = (M.flags \cup {"did_bind"}) \ {"need_addr"}]
  BY DEF Bound, init_local_connection, MsgrStates
<1>2. (M.flags \cup {"did_bind"}) \ {"need_addr"} \in SUBSET Flags
  BY DEF MsgrStates, Flags
<1> HIDE DEF R
<1>3. R \in MsgrStates
  BY <1>1, <1>2 DEF MsgrStates
<1> QED
  BY <1>1, <1>3 DEF R, MsgrStates, SameRegs, SameQueue

\* A worker comes out of get_worker().
LEMMA WorkerChosen ==
    ASSUME Types
    PROVE  get_worker \in Workers /\ get_worker \in Nat
<1>1. NumWorkers \in Nat \ {0} /\ seq + 1 \in Nat
  BY ConstantsAssumption DEF Types
<1>2. (seq + 1) % NumWorkers \in 0 .. (NumWorkers - 1)
  BY <1>1
<1> QED
  BY <1>1, <1>2 DEF get_worker, Workers

\* SetToSeq lists the elements of a finite set.
LEMMA SetListed ==
    ASSUME NEW S, IsFiniteSet(S)
    PROVE  /\ SetToSeq(S) \in Seq(S)
           /\ \A x \in S : \E k \in DOMAIN SetToSeq(S) : SetToSeq(S)[k] = x
<1> DEFINE n == Cardinality(S)
<1>1. n \in Nat /\ ExistsBijection(1 .. n, S)
  BY FS_CardinalityType
<1>2. \E f \in [1 .. n -> S] : IsInjective(f)
  BY <1>1 DEF ExistsBijection, Bijection, Injection
<1>3. PICK f : f = SetToSeq(S)
  OBVIOUS
<1>4. f \in [1 .. n -> S] /\ IsInjective(f)
  BY <1>2, <1>3 DEF SetToSeq
<1>5. IsFiniteSet(1 .. n) /\ Cardinality(1 .. n) = n
  BY <1>1, FS_Interval
<1>6. f \in Injection(1 .. n, S)
  BY <1>4 DEF Injection
<1>7. f \in Surjection(1 .. n, S)
  BY <1>5, <1>6, FS_Injection
<1>8. \A x \in S : \E k \in 1 .. n : f[k] = x
  BY <1>7 DEF Surjection
<1> HIDE DEF n
<1>9. f \in Seq(S) /\ DOMAIN f = 1 .. n
  BY <1>1, <1>4
<1> QED
  BY <1>3, <1>8, <1>9

\* A messenger knows connections.
LEMMA KnownConns ==
    ASSUME Types, NEW m \in Msgrs
    PROVE  /\ Known(m) \subseteq ConnIds /\ IsFiniteSet(Known(m))
           /\ \A c \in ConnIds : c \in Known(m) <=>
                 c \in msgr[m].accepting \/ \E p \in Peers : msgr[m].conns[p] = c
<1>1. msgr[m] \in MsgrStates
  BY DEF Types
<1>2. /\ msgr[m].accepting \subseteq ConnIds /\ msgr[m].conns \in [Peers -> ConnIds \cup {None}]
      /\ None \notin ConnIds
  BY <1>1, ConstantsAssumption DEF MsgrStates
<1>3. Known(m) \in SUBSET ConnIds
  BY <1>2 DEF Known, Range
<1>4. IsFiniteSet(Known(m))
  BY <1>3, ConstantsAssumption, FS_Subset
<1>5. \A c \in ConnIds : c \in Known(m) <=>
                 c \in msgr[m].accepting \/ \E p \in Peers : msgr[m].conns[p] = c
  BY <1>2 DEF Known, Range
<1> QED
  BY <1>3, <1>4, <1>5

\* The events by which the connections of a messenger stop.
StopsOf(m) == {stop(c) : c \in Known(m)}

\* mark_down_all() adds them to the queues of the connections' workers.
LEMMA MarkDownAll ==
    ASSUME Types, NEW m \in Msgrs, mark_down_all(m)
    PROVE  /\ conn' \in [ConnIds -> ConnStates] /\ Grown(events, events', StopsOf(m))
           /\ \A c \in ConnIds :
                 /\ c \notin Known(m) => conn'[c] = conn[c]
                 /\ c \in Known(m) => conn'[c] = [conn[c] EXCEPT !.stopping = TRUE]
           /\ \A c \in Known(m) : conn[c].state # "CLOSED" /\ conn[c].worker \in Workers =>
                 Queued(events', conn[c].worker, stop(c))
<1>1. Known(m) \subseteq ConnIds /\ IsFiniteSet(Known(m))
  BY KnownConns
<1>2. conn' = [c \in ConnIds |-> IF c \in Known(m) THEN [conn[c] EXCEPT !.stopping = TRUE]
                                                    ELSE conn[c]]
  BY DEF mark_down_all
<1>3. \A c \in ConnIds : conn[c] \in ConnStates /\ [conn[c] EXCEPT !.stopping = TRUE] \in ConnStates
  <2> SUFFICES ASSUME NEW k \in ConnStates PROVE [k EXCEPT !.stopping = TRUE] \in ConnStates
    BY DEF Types
  <2> QED
    BY DEF ConnStates
<1>4. /\ conn' \in [ConnIds -> ConnStates]
      /\ \A c \in ConnIds :
            /\ c \notin Known(m) => conn'[c] = conn[c]
            /\ c \in Known(m) => conn'[c] = [conn[c] EXCEPT !.stopping = TRUE]
  BY <1>2, <1>3
<1>5. ASSUME NEW w \in Workers
      PROVE  /\ StopEvents(m, w) \in Seq(Events)
             /\ \A k \in DOMAIN StopEvents(m, w) : StopEvents(m, w)[k] \in StopsOf(m)
             /\ \A c \in Known(m) : conn[c].state # "CLOSED" /\ conn[c].worker = w =>
                   \E k \in DOMAIN StopEvents(m, w) : StopEvents(m, w)[k] = stop(c)
  <2> DEFINE S == {c \in Known(m) : conn[c].state # "CLOSED" /\ conn[c].worker = w}
  <2>1. S \in SUBSET Known(m) /\ IsFiniteSet(S)
    BY <1>1, FS_Subset
  <2>2. PICK q \in Seq(S) : /\ q = SetToSeq(S)
                            /\ \A x \in S : \E k \in DOMAIN q : q[k] = x
    <3> HIDE DEF S
    <3> QED
      BY <2>1, SetListed
  <2>3. StopEvents(m, w) = [i \in DOMAIN q |-> stop(q[i])]
    BY <2>2 DEF StopEvents, stop
  <2>4. \A c \in S : stop(c) \in Events /\ stop(c) \in StopsOf(m)
    BY <1>1, <2>1 DEF stop, Events, StopsOf
  <2>5. q \in Seq(S) /\ DOMAIN q = 1 .. Len(q) /\ Len(q) \in Nat /\ \A k \in DOMAIN q : q[k] \in S
    <3> HIDE DEF S
    <3> QED
      BY <2>2
  <2>6. StopEvents(m, w) \in Seq(Events) /\ DOMAIN StopEvents(m, w) = DOMAIN q
    <3>1. \A k \in 1 .. Len(q) : stop(q[k]) \in Events
      BY <2>4, <2>5
    <3>2. [i \in 1 .. Len(q) |-> stop(q[i])] \in Seq(Events)
      <4> HIDE DEF S
      <4> QED
        BY <2>5, <3>1
    <3> QED
      BY <2>3, <2>5, <3>2
  <2>7. \A k \in DOMAIN q : StopEvents(m, w)[k] = stop(q[k])
    BY <2>3
  <2>8. \A k \in DOMAIN StopEvents(m, w) : StopEvents(m, w)[k] \in StopsOf(m)
    BY <2>4, <2>5, <2>6, <2>7
  <2>9. ASSUME NEW c \in Known(m), conn[c].state # "CLOSED", conn[c].worker = w
        PROVE  \E k \in DOMAIN StopEvents(m, w) : StopEvents(m, w)[k] = stop(c)
    <3>1. c \in S
      BY <2>9
    <3>2. PICK k \in DOMAIN q : q[k] = c
      BY <2>2, <3>1
    <3> QED
      BY <2>6, <2>7, <3>2
  <2> QED
    BY <2>6, <2>8, <2>9
<1>6. events' = [w \in Workers |-> events[w] \o StopEvents(m, w)]
  BY DEF mark_down_all
<1>7. ASSUME NEW w \in Workers
      PROVE  /\ events'[w] \in Seq(Events)
             /\ \A k \in DOMAIN events[w] : k \in DOMAIN events'[w] /\ events'[w][k] = events[w][k]
             /\ \A k \in DOMAIN events'[w] : k \in DOMAIN events[w] \/ events'[w][k] \in StopsOf(m)
             /\ \A k \in DOMAIN StopEvents(m, w) :
                   \E j \in DOMAIN events'[w] : events'[w][j] = StopEvents(m, w)[k]
  <2>1. PICK a, b : a = events[w] /\ b = StopEvents(m, w)
    OBVIOUS
  <2>2. a \in Seq(Events) /\ b \in Seq(Events) /\ events'[w] = a \o b
    BY <1>5, <1>6, <2>1 DEF Types
  <2>3. /\ a \o b \in Seq(Events) /\ DOMAIN a = 1 .. Len(a) /\ DOMAIN b = 1 .. Len(b)
        /\ DOMAIN (a \o b) = 1 .. Len(a) + Len(b) /\ Len(a) \in Nat /\ Len(b) \in Nat
        /\ \A i \in 1 .. Len(a) : (a \o b)[i] = a[i]
        /\ \A i \in 1 .. Len(b) : (a \o b)[Len(a) + i] = b[i]
    BY <2>2
  <2>4. \A k \in 1 .. Len(a) : k \in 1 .. Len(a) + Len(b)
    BY <2>3
  <2>5. ASSUME NEW k \in 1 .. Len(a) + Len(b), k \notin 1 .. Len(a)
        PROVE  (a \o b)[k] \in StopsOf(m)
    <3>1. k - Len(a) \in 1 .. Len(b) /\ Len(a) + (k - Len(a)) = k
      BY <2>3, <2>5
    <3>2. (a \o b)[Len(a) + (k - Len(a))] = b[k - Len(a)]
      BY <2>3, <3>1
    <3> QED
      BY <1>5, <2>1, <2>3, <3>1, <3>2
  <2>6. \A k \in 1 .. Len(b) : Len(a) + k \in 1 .. Len(a) + Len(b)
    BY <2>3
  <2> QED
    BY <2>1, <2>2, <2>3, <2>4, <2>5, <2>6
<1>8. Grown(events, events', StopsOf(m))
  <2>1. events' \in [Workers -> Seq(Events)]
    BY <1>6, <1>7
  <2> QED
    BY <1>7, <2>1 DEF Grown
<1>9. ASSUME NEW c \in Known(m), conn[c].state # "CLOSED", conn[c].worker \in Workers
      PROVE  Queued(events', conn[c].worker, stop(c))
  BY <1>5, <1>7, <1>9 DEF Queued
<1> QED
  BY <1>4, <1>8, <1>9

-----------------------------------------------------------------------------
(***************************************************************************)
(* Connections.                                                            *)
(***************************************************************************)
\* The queues hold the same events about connections.
EventsKept ==
    /\ \A c \in ConnIds : Kept(events, events', release(c)) /\ Kept(events, events', stop(c))
    /\ \A w \in Workers : \A k \in DOMAIN events'[w] :
          events'[w][k].kind \in {"C_stop", "C_release"} => Queued(events, w, events'[w][k])

\* Events of other kinds come and go.
OtherEvents ==
    \/ events' = events
    \/ \E w \in Workers, e \in Events : e.kind \in {"C_ProcessorStop", "C_barrier"}
                                        /\ Added(events, events', w, e)
    \/ \E w \in Workers : /\ Taken(events, events', w)
                          /\ events[w][1].kind \in {"C_ProcessorStop", "C_barrier"}

\* ... and leave those about connections alone.
LEMMA OthersKeep ==
    ASSUME Types, OtherEvents
    PROVE  EventsKept
<1>0. \A c : release(c).kind = "C_release" /\ stop(c).kind = "C_stop"
  BY DEF release, stop
<1>1. CASE events' = events
  BY <1>1 DEF EventsKept, Kept, Queued
<1>2. ASSUME NEW w \in Workers, NEW e \in Events, e.kind \in {"C_ProcessorStop", "C_barrier"},
             Added(events, events', w, e)
      PROVE  EventsKept
  <2>1. ASSUME NEW c \in ConnIds
        PROVE  Kept(events, events', release(c)) /\ Kept(events, events', stop(c))
    <3>1. e # release(c) /\ e # stop(c)
      BY <1>0, <1>2
    <3> QED
      BY <1>2, <3>1, OtherAdded
  <2>2. ASSUME NEW v \in Workers, NEW k \in DOMAIN events'[v],
               events'[v][k].kind \in {"C_stop", "C_release"}
        PROVE  Queued(events, v, events'[v][k])
    BY <1>2, <2>2 DEF Added, Queued
  <2> QED
    BY <2>1, <2>2 DEF EventsKept
<1>3. ASSUME NEW w \in Workers, Taken(events, events', w),
             events[w][1].kind \in {"C_ProcessorStop", "C_barrier"}
      PROVE  EventsKept
  <2>1. ASSUME NEW c \in ConnIds
        PROVE  Kept(events, events', release(c)) /\ Kept(events, events', stop(c))
    <3>1. events[w][1] # release(c) /\ events[w][1] # stop(c)
      BY <1>0, <1>3
    <3> QED
      BY <1>3, <3>1, OtherTaken
  <2>2. ASSUME NEW v \in Workers, NEW k \in DOMAIN events'[v]
        PROVE  Queued(events, v, events'[v][k])
    <3>1. CASE v = w
      BY <1>3, <3>1 DEF Taken, Queued
    <3>2. CASE v # w
      BY <1>3, <3>2 DEF Taken, Queued
    <3> QED
      BY <3>1, <3>2
  <2> QED
    BY <2>1, <2>2 DEF EventsKept
<1> QED
  BY <1>1, <1>2, <1>3 DEF OtherEvents

\* Registration, in a step that does not change it.
LEMMA RegsFrame ==
    ASSUME Made1, Registered, conn' = conn, \A m \in Msgrs : SameRegs(msgr[m], msgr'[m])
    PROVE  Made1' /\ Registered'
<1>1. \A c \in ConnIds : conn[c].state # "NONE" => conn[c].m \in Msgrs
  BY DEF Made1
<1>2. Made1'
  BY <1>1 DEF Made1, SameRegs, FreeConn
<1>3. Registered'
  BY <1>1 DEF Registered, SameRegs
<1> QED
  BY <1>2, <1>3

\* A step that is not about connections.
LEMMA ConnFrame ==
    ASSUME Types, ConnInv, conn' = conn, EventsKept,
           \A m \in Msgrs : SameRegs(msgr[m], msgr'[m])
    PROVE  ConnInv'
<1>1. Made1' /\ Registered'
  BY RegsFrame DEF ConnInv
<1>2. FitIn(events)'
  <2> SUFFICES ASSUME NEW w \in Workers, NEW k \in DOMAIN events'[w],
                      events'[w][k].kind \in {"C_stop", "C_release"}
               PROVE  events'[w][k].arg \in ConnIds /\ conn[events'[w][k].arg].state # "NONE"
    BY DEF FitIn
  <2>1. PICK j \in DOMAIN events[w] : events[w][j] = events'[w][k]
    BY DEF EventsKept, Queued
  <2> QED
    BY <2>1 DEF ConnInv, FitIn
<1>3. ASSUME NEW c \in ConnIds PROVE ReleaseIn(events, c)' /\ StopsIn(events, c)'
  <2>1. ReleaseIn(events, c) /\ Kept(events, events', release(c))
    BY DEF ConnInv, EventsKept
  <2>2. ReleaseIn(events, c)'
    BY <2>1 DEF ReleaseIn, Kept, release
  <2>3. Stale(c)' => Stale(c) /\ conn[c].worker \in Workers
    BY DEF Stale, ConnInv, Made1, SameRegs
  <2>4. StopsIn(events, c)'
    BY <2>3 DEF StopsIn, ConnInv, EventsKept, Kept, stop
  <2> QED
    BY <2>2, <2>4
<1> QED
  BY <1>1, <1>2, <1>3 DEF ConnInv

-----------------------------------------------------------------------------
(***************************************************************************)
(* The Processor and start_lock.                                           *)
(***************************************************************************)
\* Threads hold start_lock as before.
LocksKept ==
    /\ \A t \in Threads : pc'[t].at \in LockedAt =>
          /\ pc'[t].m = pc[t].m /\ start_lock'[pc[t].m] = start_lock[pc[t].m]
          /\ pc'[t].at = "listening" => pc[t].at = "listening"
          /\ pc'[t].at \in AfterStop => pc[t].at \in AfterStop
    /\ \A t \in Threads : pc[t].at = "listening" => pc'[t].at = "listening" /\ pc'[t].m = pc[t].m

\* C_ProcessorStop events are left alone.
StopsKept == \A m \in Msgrs : Kept(events, events', processor_stop(m))

\* A step that is not about the Processor.
LEMMA ProcFrame ==
    ASSUME Types, ProcInv, LocksKept, StopsKept,
           \A m \in Msgrs : SameProc(msgr[m], msgr'[m]) /\ msgr'[m].gen = msgr[m].gen
    PROVE  ProcInv'
<1>1. Locking'
  <2> SUFFICES ASSUME NEW t \in Threads, pc'[t].at \in LockedAt
               PROVE  (/\ pc[t].m \in Msgrs /\ start_lock[pc[t].m] = t
                       /\ pc[t].at = "listening" =>
                             /\ msgr[pc[t].m].listen /\ msgr[pc[t].m].worker # -1
                             /\ msgr[pc[t].m].stopped => ~msgr[pc[t].m].ev_read
                       /\ pc[t].at \in AfterStop =>
                             ~msgr[pc[t].m].listen /\ msgr[pc[t].m].worker = -1)'
    BY DEF Locking
  <2>1. pc[t].at \in LockedAt
    BY DEF LocksKept, LockedAt
  <2>2. /\ pc[t].m \in Msgrs /\ start_lock[pc[t].m] = t
        /\ pc[t].at = "listening" =>
              /\ msgr[pc[t].m].listen /\ msgr[pc[t].m].worker # -1
              /\ msgr[pc[t].m].stopped => ~msgr[pc[t].m].ev_read
        /\ pc[t].at \in AfterStop => ~msgr[pc[t].m].listen /\ msgr[pc[t].m].worker = -1
    BY <2>1 DEF ProcInv, Locking
  <2>3. SameProc(msgr[pc[t].m], msgr'[pc[t].m])
    BY <2>2
  <2> QED
    BY <2>2, <2>3 DEF LocksKept, SameProc
<1>2. Accepts'
  BY DEF ProcInv, Accepts, SameProc
<1>3. StopsOnce'
  <2> SUFFICES ASSUME NEW m \in Msgrs
               PROVE  (\/ NotPosted(events, processor_stop(m))
                       \/ /\ PostedOnce(events, processor_stop(m))
                          /\ \E t \in Threads : pc[t].at = "listening" /\ pc[t].m = m
                          /\ ~msgr[m].stopped
                          /\ \A w \in Workers : \A k \in DOMAIN events[w] :
                                events[w][k] = processor_stop(m) => msgr[m].worker = w)'
    BY DEF StopsOnce, StopsOne
  <2>1. Kept(events, events', processor_stop(m)) /\ SameProc(msgr[m], msgr'[m])
    BY DEF StopsKept
  <2>2. CASE NotPosted(events, processor_stop(m))
    BY <2>1, <2>2 DEF Kept, processor_stop
  <2>3. CASE ~NotPosted(events, processor_stop(m))
    <3>1. /\ PostedOnce(events, processor_stop(m))
          /\ \E t \in Threads : pc[t].at = "listening" /\ pc[t].m = m
          /\ ~msgr[m].stopped
          /\ \A w \in Workers : Queued(events, w, processor_stop(m)) => msgr[m].worker = w
      BY <2>3 DEF ProcInv, StopsOnce, StopsOne, Queued
    <3>2. PostedOnce(events', processor_stop(m))
      BY <2>1, <3>1 DEF Kept
    <3>3. \A w \in Workers : Queued(events', w, processor_stop(m)) => msgr'[m].worker = w
      BY <2>1, <3>1 DEF Kept, SameProc
    <3>4. \E t \in Threads : pc'[t].at = "listening" /\ pc'[t].m = m
      BY <3>1 DEF LocksKept
    <3> QED
      BY <2>1, <3>1, <3>2, <3>3, <3>4 DEF SameProc, Queued, processor_stop
  <2> QED
    BY <2>2, <2>3
<1> QED
  BY <1>1, <1>2, <1>3 DEF ProcInv

\* Two threads are not in the parts of calls on one messenger that hold start_lock.
LEMMA OneLocker ==
    ASSUME Locking, NEW t \in Threads, NEW u \in Threads, pc[t].at \in LockedAt,
           pc[u].at \in LockedAt, pc[t].m = pc[u].m
    PROVE  t = u
BY DEF Locking

\* Nobody is there when start_lock is free.
LEMMA NoLocker ==
    ASSUME Locking, NEW m \in Msgrs, start_lock[m] = None
    PROVE  \A t \in Threads : pc[t].at \in LockedAt => pc[t].m # m
BY ConstantsAssumption DEF Locking

-----------------------------------------------------------------------------
(***************************************************************************)
(* Assignments.                                                            *)
(***************************************************************************)
\* One messenger changes.
LEMMA OneMsgr ==
    ASSUME Types, NEW m \in Msgrs, NEW R \in MsgrStates, msgr' = [msgr EXCEPT ![m] = R]
    PROVE  /\ msgr' \in [Msgrs -> MsgrStates] /\ msgr'[m] = R
           /\ \A n \in Msgrs : n # m => msgr'[n] = msgr[n]
BY DEF Types

\* One thread moves.
LEMMA OnePc ==
    ASSUME Types, NEW t \in Threads, NEW P \in PcStates, pc' = [pc EXCEPT ![t] = P]
    PROVE  /\ pc' \in [Threads -> PcStates] /\ pc'[t] = P
           /\ \A u \in Threads : u # t => pc'[u] = pc[u]
BY DEF Types

\* It returns ...
LEMMA Returned ==
    ASSUME Types, NEW t \in Threads, Return(t)
    PROVE  /\ pc' \in [Threads -> PcStates] /\ pc'[t] = Idle /\ pc'[t].at = "idle"
           /\ \A u \in Threads : u # t => pc'[u] = pc[u]
<1>1. Idle \in PcStates /\ Idle.at = "idle"
  BY DEF Idle, PcStates, Points
<1> QED
  BY <1>1, OnePc DEF Return

\* ... or goes on.
LEMMA Moved ==
    ASSUME Types, NEW t \in Threads, NEW where \in Points, Goto(t, where)
    PROVE  /\ pc' \in [Threads -> PcStates]
           /\ pc'[t].at = where /\ pc'[t].m = pc[t].m /\ pc'[t].i = pc[t].i
           /\ pc'[t].call = pc[t].call /\ pc'[t].c = pc[t].c
           /\ \A u \in Threads : u # t => pc'[u] = pc[u]
<1>1. pc[t] \in PcStates
  BY DEF Types
<1>2. PICK P : P = [pc[t] EXCEPT !.at = where]
  OBVIOUS
<1>3. P \in PcStates
  BY <1>1, <1>2 DEF PcStates
<1>4. P.at = where /\ P.m = pc[t].m /\ P.i = pc[t].i /\ P.call = pc[t].call /\ P.c = pc[t].c
  BY <1>1, <1>2 DEF PcStates
<1>5. pc' = [pc EXCEPT ![t] = P]
  BY <1>2 DEF Goto
<1> QED
  BY <1>3, <1>4, <1>5, OnePc

\* A call begins.
LEMMA Began ==
    ASSUME Types, NEW t \in Threads, NEW call, NEW m, Calls(t, call, m)
    PROVE  /\ pc[t].at = "idle" /\ script[t] # <<>>
           /\ Head(script[t]) \in [call : CallNames, m : Msgrs, peer : Peers]
           /\ Begins(t, call, m) =>
                 script' \in [Threads -> Seq([call : CallNames, m : Msgrs, peer : Peers])]
<1> DEFINE S == [call : CallNames, m : Msgrs, peer : Peers]
<1>1. script \in [Threads -> Seq(S)] /\ script[t] \in Seq(S)
  BY DEF Types
<1>2. pc[t].at = "idle" /\ script[t] # <<>>
  BY DEF Calls
<1> HIDE DEF S
<1>3. Head(script[t]) \in S /\ Tail(script[t]) \in Seq(S)
  BY <1>1, <1>2
<1>4. Begins(t, call, m) => script' \in [Threads -> Seq(S)]
  BY <1>1, <1>3 DEF Begins
<1> QED
  BY <1>2, <1>3, <1>4 DEF S

\* A thread that does not wait for the Processor moves, and holds start_lock after
\* it only if it did.
LEMMA LocksStay ==
    ASSUME Types, Locking, NEW t \in Threads, pc[t].at # "listening",
           \A u \in Threads : u # t => pc'[u] = pc[u],
           \/ start_lock' = start_lock /\ pc'[t].at \notin LockedAt
           \/ start_lock' = start_lock /\ pc[t].at \in AfterStop /\ pc'[t].at \in AfterStop
                                       /\ pc'[t].m = pc[t].m
           \/ pc[t].at \in AfterStop /\ pc'[t].at \notin LockedAt /\ Unlock(pc[t].m)
    PROVE  LocksKept
<1>1. pc'[t].at = "listening" => pc'[t].at \in LockedAt
  BY DEF LockedAt
<1>1a. pc'[t].at \in AfterStop => pc'[t].at \in LockedAt /\ pc'[t].at # "listening"
  BY DEF LockedAt, AfterStop, InBarrierAt
<1>1b. pc[t].at \in AfterStop => pc[t].at \in LockedAt
  BY DEF LockedAt
<1>2. ASSUME NEW u \in Threads, u # t, pc'[u].at \in LockedAt
      PROVE  pc'[u] = pc[u] /\ start_lock'[pc[u].m] = start_lock[pc[u].m]
  <2>1. pc'[u] = pc[u]
    BY <1>2
  <2>2. CASE start_lock' = start_lock
    BY <2>1, <2>2
  <2>3. CASE pc[t].at \in AfterStop /\ Unlock(pc[t].m)
    <3>1. pc[t].m # pc[u].m
      BY <1>1b, <1>2, <2>1, <2>3, OneLocker
    <3>2. start_lock' = [start_lock EXCEPT ![pc[t].m] = None]
      BY <2>3 DEF Unlock
    <3>3. pc[u].m \in Msgrs
      BY <1>2, <2>1 DEF Locking
    <3> QED
      BY <2>1, <3>1, <3>2, <3>3 DEF Types
  <2> QED
    BY <2>2, <2>3
<1>3. ASSUME NEW u \in Threads, pc'[u].at \in LockedAt
      PROVE  /\ pc'[u].m = pc[u].m /\ start_lock'[pc[u].m] = start_lock[pc[u].m]
             /\ pc'[u].at = "listening" => pc[u].at = "listening"
             /\ pc'[u].at \in AfterStop => pc[u].at \in AfterStop
  <2>1. CASE u = t
    BY <1>1, <1>1a, <1>3, <2>1
  <2>2. CASE u # t
    BY <1>2, <1>3, <2>2
  <2> QED
    BY <2>1, <2>2
<1>4. \A u \in Threads : pc[u].at = "listening" => pc'[u].at = "listening" /\ pc'[u].m = pc[u].m
  OBVIOUS
<1> QED
  BY <1>3, <1>4 DEF LocksKept

\* A step that leaves connections, their registration, the events and the Processor.
LEMMA PlainStep ==
    ASSUME Types, ConnInv, ProcInv, LocksKept, conn' = conn, events' = events,
           \A m \in Msgrs : SameRegs(msgr[m], msgr'[m]) /\ SameProc(msgr[m], msgr'[m])
    PROVE  ConnInv' /\ ProcInv'
<1>1. EventsKept
  BY OthersKeep DEF OtherEvents
<1>2. ConnInv'
  BY <1>1, ConnFrame
<1>3. StopsKept
  BY DEF StopsKept, Kept
<1>4. ProcInv'
  BY <1>3, ProcFrame DEF SameRegs
<1> QED
  BY <1>2, <1>4

\* The flags of a messenger are set.
LEMMA FlagsMsgr ==
    ASSUME NEW M \in MsgrStates, NEW F \in SUBSET Flags
    PROVE  LET R == [M EXCEPT !.flags = F]
           IN  /\ R \in MsgrStates /\ SameRegs(M, R) /\ SameProc(M, R) /\ SameQueue(M, R)
               /\ R.flags = F /\ R.local_up = M.local_up
<1>1. PICK R : R = [M EXCEPT !.flags = F]
  OBVIOUS
<1>2. R \in MsgrStates
  BY <1>1 DEF MsgrStates
<1> QED
  BY <1>1, <1>2 DEF MsgrStates, SameRegs, SameProc, SameQueue

\* The messengers are as they were, or one of them has changed in other respects.
LEMMA OtherMsgrs ==
    ASSUME Types, NEW m \in Msgrs, NEW R \in MsgrStates, msgr' = [msgr EXCEPT ![m] = R],
           SameRegs(msgr[m], R), SameProc(msgr[m], R)
    PROVE  /\ msgr' \in [Msgrs -> MsgrStates]
           /\ \A n \in Msgrs : SameRegs(msgr[n], msgr'[n]) /\ SameProc(msgr[n], msgr'[n])
<1>1. /\ msgr' \in [Msgrs -> MsgrStates] /\ msgr'[m] = R
      /\ \A n \in Msgrs : n # m => msgr'[n] = msgr[n]
  BY OneMsgr
<1> QED
  BY <1>1 DEF SameRegs, SameProc

-----------------------------------------------------------------------------
(***************************************************************************)
(* The steps, one by one.                                                  *)
(***************************************************************************)
Inv == Types /\ ConnInv /\ ProcInv

\* bind(): start_lock is free, so nobody is in Processor::stop() or after it.
LEMMA BindStep ==
    ASSUME Inv, NEW t \in Threads, NEW m \in Msgrs, bind(t, m)
    PROVE  Inv'
<1> USE DEF Inv
<1>1. /\ pc' \in [Threads -> PcStates] /\ pc'[t].at = "idle"
      /\ \A u \in Threads : u # t => pc'[u] = pc[u]
  BY Returned DEF bind
<1>2. Calls(t, "bind", m) /\ Begins(t, "bind", m) /\ start_lock[m] = None
  BY DEF bind, Locks, Begins
<1>3. pc[t].at = "idle" /\ script' \in [Threads -> Seq([call : CallNames, m : Msgrs, peer : Peers])]
  BY <1>2, Began
<1>4. PICK R : R = Bound(msgr[m])
  OBVIOUS
<1>5. msgr[m] \in MsgrStates
  BY DEF Types
<1>6. /\ R \in MsgrStates /\ SameRegs(msgr[m], R) /\ R.listen = TRUE
      /\ R.worker = msgr[m].worker /\ R.stopped = msgr[m].stopped
      /\ R.ev_read = msgr[m].ev_read /\ R.accepted = msgr[m].accepted
  BY <1>4, <1>5, BoundMsgr
<1>7. start_lock' = start_lock /\ conn' = conn /\ events' = events /\ seq' = seq
      /\ barrier_count' = barrier_count
  BY DEF bind, pool
<1>8. LocksKept
  BY <1>1, <1>3, <1>7, LocksStay DEF ProcInv, LockedAt, AfterStop, InBarrierAt
<1>9. CASE msgr' = msgr
  <2>1. ConnInv' /\ ProcInv'
    BY <1>7, <1>8, <1>9, PlainStep DEF SameRegs, SameProc
  <2> QED
    BY <1>1, <1>3, <1>7, <1>9, <2>1 DEF Types
<1>10. CASE msgr' = [msgr EXCEPT ![m] = R]
  <2>1. /\ msgr' \in [Msgrs -> MsgrStates] /\ msgr'[m] = R
        /\ \A n \in Msgrs : n # m => msgr'[n] = msgr[n]
    BY <1>6, <1>10, OneMsgr
  <2>2. \A n \in Msgrs : SameRegs(msgr[n], msgr'[n])
    BY <1>6, <2>1 DEF SameRegs
  <2>3. ConnInv'
    BY <1>7, <2>2, OthersKeep, ConnFrame DEF OtherEvents
  <2>4. \A u \in Threads : pc'[u].at \in LockedAt => pc'[u] = pc[u] /\ pc[u].m # m
    BY <1>1, <1>2, NoLocker DEF ProcInv, LockedAt, AfterStop, InBarrierAt
  <2>5. Locking'
    BY <1>7, <2>1, <2>4 DEF ProcInv, Locking
  <2>6. Accepts'
    BY <1>6, <2>1 DEF ProcInv, Accepts, SameRegs
  <2>7. \A u \in Threads : pc[u].at = "listening" => pc'[u] = pc[u]
    BY <1>1, <1>3
  <2>8. \A n \in Msgrs : msgr'[n].stopped = msgr[n].stopped /\ msgr'[n].worker = msgr[n].worker
    BY <1>6, <2>1
  <2>9. StopsOnce'
    BY <1>7, <2>7, <2>8 DEF ProcInv, StopsOnce, StopsOne, NotPosted, PostedOnce, processor_stop
  <2> QED
    BY <1>1, <1>3, <1>7, <2>1, <2>3, <2>5, <2>6, <2>9 DEF Types, ProcInv
<1> QED
  BY <1>4, <1>9, <1>10 DEF bind

\* A thread moves, and a messenger changes in other respects.
LEMMA QuietStep ==
    ASSUME Inv, NEW t \in Threads, pc[t].at # "listening",
           pc' \in [Threads -> PcStates], \A u \in Threads : u # t => pc'[u] = pc[u],
           \/ start_lock' = start_lock /\ pc'[t].at \notin LockedAt
           \/ start_lock' = start_lock /\ pc[t].at \in AfterStop /\ pc'[t].at \in AfterStop
                                       /\ pc'[t].m = pc[t].m
           \/ pc[t].at \in AfterStop /\ pc'[t].at \notin LockedAt /\ Unlock(pc[t].m),
           NEW m \in Msgrs, NEW R \in MsgrStates, SameRegs(msgr[m], R), SameProc(msgr[m], R),
           msgr' = [msgr EXCEPT ![m] = R], conn' = conn, events' = events,
           script' \in [Threads -> Seq([call : CallNames, m : Msgrs, peer : Peers])],
           seq' = seq, barrier_count' \in Int
    PROVE  Inv'
<1> USE DEF Inv
<1>1. LocksKept
  BY LocksStay DEF ProcInv
<1>2. /\ msgr' \in [Msgrs -> MsgrStates]
      /\ \A n \in Msgrs : SameRegs(msgr[n], msgr'[n]) /\ SameProc(msgr[n], msgr'[n])
  BY OtherMsgrs
<1>3. ConnInv' /\ ProcInv'
  BY <1>1, <1>2, PlainStep
<1>4. start_lock' \in [Msgrs -> Threads \cup {None}]
  <2>1. CASE start_lock' = start_lock
    BY <2>1 DEF Types
  <2>2. CASE Unlock(pc[t].m)
    BY <2>2 DEF Types, Unlock
  <2> QED
    BY <2>1, <2>2
<1> QED
  BY <1>2, <1>3, <1>4 DEF Types

\* ... or none does.
LEMMA QuietMove ==
    ASSUME Inv, NEW t \in Threads, pc[t].at # "listening",
           pc' \in [Threads -> PcStates], \A u \in Threads : u # t => pc'[u] = pc[u],
           \/ start_lock' = start_lock /\ pc'[t].at \notin LockedAt
           \/ start_lock' = start_lock /\ pc[t].at \in AfterStop /\ pc'[t].at \in AfterStop
                                       /\ pc'[t].m = pc[t].m
           \/ pc[t].at \in AfterStop /\ pc'[t].at \notin LockedAt /\ Unlock(pc[t].m),
           NEW m \in Msgrs,
           msgr' = msgr, conn' = conn, events' = events,
           script' \in [Threads -> Seq([call : CallNames, m : Msgrs, peer : Peers])],
           seq' = seq, barrier_count' \in Int
    PROVE  Inv'
<1>1. PICK R : R = msgr[m]
  OBVIOUS
<1>2. R \in MsgrStates /\ msgr' = [msgr EXCEPT ![m] = R] /\ SameRegs(msgr[m], R) /\ SameProc(msgr[m], R)
  BY <1>1 DEF Inv, Types, SameRegs, SameProc
<1> QED
  BY <1>2, QuietStep

\* An assertion fails.
LEMMA AbortStep ==
    ASSUME Inv, NEW t \in Threads, NEW m \in Msgrs, pc[t].at # "listening", Abort(t),
           script' \in [Threads -> Seq([call : CallNames, m : Msgrs, peer : Peers])]
    PROVE  Inv'
<1>1. /\ pc' \in [Threads -> PcStates] /\ pc'[t].at = "idle"
      /\ \A u \in Threads : u # t => pc'[u] = pc[u]
  BY Returned DEF Abort, Inv
<1>2. "idle" \notin LockedAt
  BY DEF LockedAt, AfterStop, InBarrierAt
<1>3. barrier_count \in Int
  BY DEF Inv, Types
<1> QED
  BY <1>1, <1>2, <1>3, QuietMove DEF Abort, pool

\* The flags of a messenger after SetFlags.
LEMMA FlagsSet ==
    ASSUME Types, NEW m \in Msgrs, NEW on \in SUBSET Flags, NEW off
    PROVE  \E R \in MsgrStates :
              /\ SetFlags(m, on, off) = [msgr EXCEPT ![m] = R]
              /\ SameRegs(msgr[m], R) /\ SameProc(msgr[m], R) /\ SameQueue(msgr[m], R)
              /\ R.flags = (msgr[m].flags \cup on) \ off /\ R.local_up = msgr[m].local_up
<1> DEFINE F == (msgr[m].flags \cup on) \ off
<1>1. msgr[m] \in MsgrStates
  BY DEF Types
<1>2. F \in SUBSET Flags
  BY <1>1 DEF MsgrStates
<1>3. PICK R : R = [msgr[m] EXCEPT !.flags = F]
  OBVIOUS
<1>4. SetFlags(m, on, off) = [msgr EXCEPT ![m] = R]
  BY <1>3 DEF SetFlags
<1> HIDE DEF F
<1>5. /\ R \in MsgrStates /\ SameRegs(msgr[m], R) /\ SameProc(msgr[m], R)
      /\ SameQueue(msgr[m], R) /\ R.flags = F /\ R.local_up = msgr[m].local_up
  BY <1>1, <1>2, <1>3, FlagsMsgr
<1> QED
  BY <1>4, <1>5 DEF F

\* What calls of the application are about when they do not wait for a worker.
LEMMA PlainCalls ==
    ASSUME Inv, NEW t \in Threads, NEW m \in Msgrs,
           BindFails(t, m) \/ add_dispatcher(t, m) \/ start(t, m) \/ wait(t, m)
    PROVE  Inv'
<1> USE DEF Inv
<1>0. "idle" \notin LockedAt /\ "ready" \notin LockedAt /\ "join" \notin LockedAt
      /\ barrier_count \in Int
  BY DEF Types, LockedAt, AfterStop, InBarrierAt
<1>1. CASE BindFails(t, m)
  <2>1. /\ msgr' = msgr /\ start_lock' = start_lock /\ conn' = conn /\ events' = events
        /\ seq' = seq /\ barrier_count' = barrier_count /\ pc' = pc /\ script' = script
        /\ pc[t].at = "idle"
    BY <1>1 DEF BindFails, pool, Calls
  <2> QED
    BY <1>0, <2>1, QuietMove DEF Types
<1>2. CASE add_dispatcher(t, m)
  <2>1. pc[t].at = "idle" /\ script' \in [Threads -> Seq([call : CallNames, m : Msgrs, peer : Peers])]
    BY <1>2, Began DEF add_dispatcher, Begins
  <2>2. CASE Return(t) /\ UNCHANGED <<msgr, start_lock, conn, events, pool, aborted, env>>
    BY <1>0, <2>1, <2>2, Returned, QuietMove DEF pool
  <2>3. CASE Abort(t)
    BY <2>1, <2>3, AbortStep
  <2>4. ASSUME msgr' = [SetFlags(m, {"dispatcher"}, {}) EXCEPT
                          ![m].dispatch = "running", ![m].local = "running"],
               pc' = [pc EXCEPT ![t] = [Idle EXCEPT !.at = "ready", !.m = m]],
               UNCHANGED <<start_lock, conn, events, pool, aborted, env>>
        PROVE  Inv'
    <3>1. PICK Q \in MsgrStates :
             /\ SetFlags(m, {"dispatcher"}, {}) = [msgr EXCEPT ![m] = Q]
             /\ SameRegs(msgr[m], Q) /\ SameProc(msgr[m], Q)
      <4>1. {"dispatcher"} \in SUBSET Flags
        BY DEF Flags
      <4> QED
        BY <4>1, FlagsSet
    <3>2. PICK R : R = [Q EXCEPT !.dispatch = "running", !.local = "running"]
      OBVIOUS
    <3>3. R \in MsgrStates
      BY <3>2 DEF MsgrStates
    <3>4. SameRegs(msgr[m], R) /\ SameProc(msgr[m], R)
      BY <3>1, <3>2 DEF MsgrStates, SameRegs, SameProc
    <3>5. msgr' = [msgr EXCEPT ![m] = R]
      BY <2>4, <3>1, <3>2 DEF Types
    <3>6. PICK P : P = [Idle EXCEPT !.at = "ready", !.m = m]
      OBVIOUS
    <3>7. P \in PcStates /\ P.at = "ready"
      BY <3>6 DEF Idle, PcStates, Points
    <3>8. /\ pc' \in [Threads -> PcStates] /\ pc'[t] = P
          /\ \A u \in Threads : u # t => pc'[u] = pc[u]
      BY <2>4, <3>6, <3>7, OnePc
    <3> QED
      BY <1>0, <2>1, <2>4, <3>3, <3>4, <3>5, <3>7, <3>8, QuietStep DEF pool
  <2> QED
    BY <1>2, <2>2, <2>3, <2>4 DEF add_dispatcher
<1>3. CASE start(t, m)
  <2>1. pc[t].at = "idle" /\ script' \in [Threads -> Seq([call : CallNames, m : Msgrs, peer : Peers])]
    BY <1>3, Began DEF start, Locks, Begins
  <2>2. /\ pc' \in [Threads -> PcStates] /\ pc'[t].at = "idle"
        /\ \A u \in Threads : u # t => pc'[u] = pc[u]
    BY <1>3, Returned DEF start
  <2>3. PICK Q \in MsgrStates :
           /\ SetFlags(m, {"started"}, {}) = [msgr EXCEPT ![m] = Q]
           /\ SameRegs(msgr[m], Q) /\ SameProc(msgr[m], Q)
    <3>1. {"started"} \in SUBSET Flags
      BY DEF Flags
    <3> QED
      BY <3>1, FlagsSet
  <2>4. PICK R : R = [Q EXCEPT !.local_up = TRUE]
    OBVIOUS
  <2>5. R \in MsgrStates
    BY <2>4 DEF MsgrStates
  <2>6. SameRegs(msgr[m], R) /\ SameProc(msgr[m], R)
    BY <2>3, <2>4 DEF MsgrStates, SameRegs, SameProc
  <2>7. msgr' = msgr \/ msgr' = [msgr EXCEPT ![m] = Q] \/ msgr' = [msgr EXCEPT ![m] = R]
    <3>1. [SetFlags(m, {"started"}, {}) EXCEPT ![m] = init_local_connection(@)] = [msgr EXCEPT ![m] = R]
      BY <2>3, <2>4 DEF init_local_connection, Types
    <3> QED
      BY <1>3, <2>3, <3>1 DEF start
  <2>8. start_lock' = start_lock /\ conn' = conn /\ events' = events /\ seq' = seq
        /\ barrier_count' = barrier_count
    BY <1>3 DEF start, pool
  <2>9. CASE msgr' = msgr
    BY <1>0, <2>1, <2>2, <2>8, <2>9, QuietMove
  <2>10. CASE msgr' = [msgr EXCEPT ![m] = Q]
    BY <1>0, <2>1, <2>2, <2>3, <2>8, <2>10, QuietStep
  <2>11. CASE msgr' = [msgr EXCEPT ![m] = R]
    BY <1>0, <2>1, <2>2, <2>5, <2>6, <2>8, <2>11, QuietStep
  <2> QED
    BY <2>7, <2>9, <2>10, <2>11
<1>4. CASE wait(t, m)
  <2>1. pc[t].at = "idle" /\ script' \in [Threads -> Seq([call : CallNames, m : Msgrs, peer : Peers])]
    BY <1>4, Began DEF wait, Locks, Begins
  <2>2. CASE Return(t) /\ UNCHANGED <<msgr, start_lock, conn, events, pool, aborted, env>>
    BY <1>0, <2>1, <2>2, Returned, QuietMove DEF pool
  <2>3. CASE Abort(t)
    BY <2>1, <2>3, AbortStep
  <2>4. ASSUME pc' = [pc EXCEPT ![t] = [Idle EXCEPT !.at = "join", !.m = m]],
               UNCHANGED <<msgr, start_lock, conn, events, pool, aborted, env>>
        PROVE  Inv'
    <3>1. PICK P : P = [Idle EXCEPT !.at = "join", !.m = m]
      OBVIOUS
    <3>2. P \in PcStates /\ P.at = "join"
      BY <3>1 DEF Idle, PcStates, Points
    <3>3. /\ pc' \in [Threads -> PcStates] /\ pc'[t] = P
          /\ \A u \in Threads : u # t => pc'[u] = pc[u]
      BY <2>4, <3>1, <3>2, OnePc
    <3> QED
      BY <1>0, <2>1, <2>4, <3>2, <3>3, QuietMove DEF pool
  <2>5. ASSUME msgr' = SetFlags(m, {}, {"started", "shutdown_called"}), Return(t),
               UNCHANGED <<start_lock, conn, events, pool, aborted, env>>
        PROVE  Inv'
    <3>1. PICK R \in MsgrStates : msgr' = [msgr EXCEPT ![m] = R]
             /\ SameRegs(msgr[m], R) /\ SameProc(msgr[m], R)
      <4>1. {} \in SUBSET Flags
        OBVIOUS
      <4> QED
        BY <2>5, <4>1, FlagsSet
    <3> QED
      BY <1>0, <2>1, <2>5, <3>1, Returned, QuietStep DEF pool
  <2> QED
    BY <1>4, <2>2, <2>3, <2>4, <2>5 DEF wait
<1> QED
  BY <1>1, <1>2, <1>3, <1>4

\* Later points of calls.
LEMMA PlainGoes ==
    ASSUME Inv, NEW t \in Threads, NEW m \in Msgrs,
           \/ Unbound(t, m) \/ barrier_inc(t, m) \/ barrier_wait(t, m) \/ Finish(t, m)
           \/ Joined(t, m) \/ Waited(t, m) \/ MarkedDown(t, m)
    PROVE  Inv'
<1> USE DEF Inv
<1>0. /\ "idle" \notin LockedAt /\ "relock" \notin LockedAt /\ barrier_count \in Int
      /\ {"closed", "finish", "barrier", "inc", "barrier_wait", "barrier_sleep"} \subseteq AfterStop
      /\ AfterStop \subseteq Points /\ "relock" \in Points /\ "listening" \notin AfterStop
      /\ script \in [Threads -> Seq([call : CallNames, m : Msgrs, peer : Peers])]
  BY DEF Types, Points, LockedAt, AfterStop, InBarrierAt
<1>1. CASE Unbound(t, m)
  <2>1. PICK R \in MsgrStates : msgr' = [msgr EXCEPT ![m] = R]
           /\ SameRegs(msgr[m], R) /\ SameProc(msgr[m], R)
    <3>1. {} \in SUBSET Flags
      OBVIOUS
    <3> QED
      BY <1>1, <3>1, FlagsSet DEF Unbound
  <2>2. /\ pc[t].at = "closed" /\ pc[t].m = m /\ Return(t) /\ Unlock(m)
        /\ conn' = conn /\ events' = events /\ seq' = seq /\ barrier_count' = barrier_count
        /\ script' = script
    BY <1>1 DEF Unbound, At, pool
  <2> QED
    BY <1>0, <2>1, <2>2, Returned, QuietStep
<1>2. CASE barrier_inc(t, m)
  <2>1. PICK P : P = [pc[t] EXCEPT !.i = @ + 1,
                        !.at = IF pc[t].i + 1 = NumWorkers THEN "barrier_wait" ELSE "barrier"]
    OBVIOUS
  <2>2. pc[t] \in PcStates
    BY DEF Types
  <2>3. P \in PcStates /\ P.at \in AfterStop /\ P.m = pc[t].m
    <3>1. pc[t].i + 1 \in Nat
      BY <2>2 DEF PcStates
    <3>2. (IF pc[t].i + 1 = NumWorkers THEN "barrier_wait" ELSE "barrier") \in Points
      BY <1>0
    <3>3. P \in PcStates
      BY <2>1, <2>2, <3>1, <3>2 DEF PcStates
    <3>4. P.at = (IF pc[t].i + 1 = NumWorkers THEN "barrier_wait" ELSE "barrier") /\ P.m = pc[t].m
      BY <2>1, <2>2, <3>3 DEF PcStates
    <3> QED
      BY <1>0, <3>3, <3>4
  <2>4. pc' = [pc EXCEPT ![t] = P]
    BY <1>2, <2>1 DEF barrier_inc, Types
  <2>5. /\ pc[t].at = "inc" /\ pc[t].m = m /\ start_lock' = start_lock
        /\ msgr' = msgr /\ conn' = conn /\ events' = events /\ seq' = seq
        /\ barrier_count' = barrier_count + 1 /\ script' = script
    BY <1>2 DEF barrier_inc, At
  <2>6. barrier_count' \in Int
    BY <1>0, <2>5
  <2>7. /\ pc' \in [Threads -> PcStates] /\ pc'[t] = P
        /\ \A u \in Threads : u # t => pc'[u] = pc[u]
    BY <2>3, <2>4, OnePc
  <2> QED
    BY <1>0, <2>3, <2>5, <2>6, <2>7, QuietMove
<1>3. CASE barrier_wait(t, m)
  <2>1. PICK where \in {"finish", "barrier_sleep"} : Goto(t, where)
    BY <1>3 DEF barrier_wait
  <2>2. /\ pc[t].at = "barrier_wait" /\ pc[t].m = m /\ start_lock' = start_lock
        /\ msgr' = msgr /\ conn' = conn /\ events' = events /\ seq' = seq
        /\ barrier_count' = barrier_count /\ script' = script
    BY <1>3 DEF barrier_wait, At, pool
  <2>3. where \in Points /\ where \in AfterStop
    BY <1>0
  <2>4. /\ pc' \in [Threads -> PcStates] /\ pc'[t].at = where /\ pc'[t].m = pc[t].m
        /\ \A u \in Threads : u # t => pc'[u] = pc[u]
    BY <2>1, <2>3, Moved
  <2> QED
    BY <1>0, <2>2, <2>3, <2>4, QuietMove
<1>4. CASE Finish(t, m)
  <2>1. pc[t].at = "finish" /\ pc[t].m = m /\ script' = script
    BY <1>4 DEF Finish, At
  <2>2. CASE Abort(t)
    BY <1>0, <2>1, <2>2, AbortStep
  <2>3. ASSUME msgr' = [msgr EXCEPT ![m].local_up = FALSE, ![m].local = "none", ![m].stop = TRUE],
               Return(t), Unlock(m), UNCHANGED <<conn, events, pool, aborted, env>>
        PROVE  Inv'
    <3>1. PICK R : R = [msgr[m] EXCEPT !.local_up = FALSE, !.local = "none", !.stop = TRUE]
      OBVIOUS
    <3>2. msgr[m] \in MsgrStates
      BY DEF Types
    <3>3. R \in MsgrStates
      BY <3>1, <3>2 DEF MsgrStates
    <3>4. SameRegs(msgr[m], R) /\ SameProc(msgr[m], R)
      BY <3>1, <3>2 DEF MsgrStates, SameRegs, SameProc
    <3>5. msgr' = [msgr EXCEPT ![m] = R]
      BY <2>3, <3>1 DEF Types
    <3>6. /\ pc' \in [Threads -> PcStates] /\ pc'[t].at = "idle"
          /\ \A u \in Threads : u # t => pc'[u] = pc[u]
      BY <2>3, Returned
    <3>7. conn' = conn /\ events' = events /\ seq' = seq /\ barrier_count' = barrier_count
      BY <2>3 DEF pool
    <3>8. pc[t].at \in AfterStop /\ pc[t].at # "listening" /\ Unlock(pc[t].m)
          /\ pc'[t].at \notin LockedAt
      BY <1>0, <2>1, <2>3, <3>6
    <3> QED
      BY <1>0, <2>1, <3>3, <3>4, <3>5, <3>6, <3>7, <3>8, QuietStep
  <2> QED
    BY <1>4, <2>2, <2>3 DEF Finish
<1>5. CASE Joined(t, m)
  <2>1. PICK R : R = [msgr[m] EXCEPT !.dispatch = "none", !.stop = FALSE]
    OBVIOUS
  <2>2. msgr[m] \in MsgrStates
    BY DEF Types
  <2>3. R \in MsgrStates
    BY <2>1, <2>2 DEF MsgrStates
  <2>4. SameRegs(msgr[m], R) /\ SameProc(msgr[m], R)
    BY <2>1, <2>2 DEF MsgrStates, SameRegs, SameProc
  <2>5. msgr' = [msgr EXCEPT ![m] = R]
    BY <1>5, <2>1 DEF Types, Joined
  <2>6. /\ pc[t].at = "join" /\ start_lock' = start_lock /\ Goto(t, "relock")
        /\ conn' = conn /\ events' = events /\ seq' = seq
        /\ barrier_count' = barrier_count /\ script' = script
    BY <1>5 DEF Joined, At, pool
  <2> QED
    BY <1>0, <2>3, <2>4, <2>5, <2>6, Moved, QuietStep
<1>6. CASE Waited(t, m)
  <2>1. PICK R \in MsgrStates : msgr' = [msgr EXCEPT ![m] = R]
           /\ SameRegs(msgr[m], R) /\ SameProc(msgr[m], R)
    <3>1. {} \in SUBSET Flags
      OBVIOUS
    <3> QED
      BY <1>6, <3>1, FlagsSet DEF Waited
  <2>2. /\ pc[t].at = "relock" /\ start_lock' = start_lock /\ Return(t)
        /\ conn' = conn /\ events' = events /\ seq' = seq
        /\ barrier_count' = barrier_count /\ script' = script
    BY <1>6 DEF Waited, At, pool
  <2>3. /\ pc' \in [Threads -> PcStates] /\ pc'[t].at = "idle"
        /\ \A u \in Threads : u # t => pc'[u] = pc[u]
    BY <2>2, Returned
  <2> QED
    BY <1>0, <2>1, <2>2, <2>3, QuietStep
<1>7. CASE MarkedDown(t, m)
  <2>2. /\ pc[t].at = "closing" /\ start_lock' = start_lock /\ Return(t)
        /\ conn' = conn /\ events' = events /\ seq' = seq /\ msgr' = msgr
        /\ barrier_count' = barrier_count /\ script' = script
    BY <1>7 DEF MarkedDown, At, pool
  <2>3. /\ pc' \in [Threads -> PcStates] /\ pc'[t].at = "idle"
        /\ \A u \in Threads : u # t => pc'[u] = pc[u]
    BY <2>2, Returned
  <2> QED
    BY <1>0, <2>2, <2>3, QuietMove
<1> QED
  BY <1>1, <1>2, <1>3, <1>4, <1>5, <1>6, <1>7

\* The dispatch thread ends.
LEMMA DispatchEndsStep ==
    ASSUME Inv, NEW m \in Msgrs, DispatchEnds(m)
    PROVE  Inv'
<1> USE DEF Inv
<1>1. PICK R : R = [msgr[m] EXCEPT !.dispatch = "ended"]
  OBVIOUS
<1>2. msgr[m] \in MsgrStates
  BY DEF Types
<1>3. R \in MsgrStates
  BY <1>1, <1>2 DEF MsgrStates
<1>4. SameRegs(msgr[m], R) /\ SameProc(msgr[m], R)
  BY <1>1, <1>2 DEF MsgrStates, SameRegs, SameProc
<1>5. msgr' = [msgr EXCEPT ![m] = R]
  BY <1>1 DEF Types, DispatchEnds
<1>6. /\ start_lock' = start_lock /\ pc' = pc /\ conn' = conn /\ events' = events
      /\ seq' = seq /\ barrier_count' = barrier_count /\ script' = script
  BY DEF DispatchEnds, pool
<1>7. LocksKept
  BY <1>6 DEF LocksKept
<1>8. /\ msgr' \in [Msgrs -> MsgrStates]
      /\ \A n \in Msgrs : SameRegs(msgr[n], msgr'[n]) /\ SameProc(msgr[n], msgr'[n])
  BY <1>3, <1>4, <1>5, OtherMsgrs
<1>9. ConnInv' /\ ProcInv'
  BY <1>6, <1>7, <1>8, PlainStep
<1> QED
  BY <1>6, <1>8, <1>9 DEF Types

\* barrier() posts its event.
LEMMA BarrierPostStep ==
    ASSUME Inv, NEW t \in Threads, NEW m \in Msgrs, barrier_post(t, m)
    PROVE  Inv'
<1> USE DEF Inv
<1>1. /\ pc[t].at = "barrier" /\ start_lock' = start_lock /\ msgr' = msgr /\ conn' = conn
      /\ seq' = seq /\ barrier_count' = barrier_count /\ script' = script
      /\ events' = Post(events, pc[t].i, "C_barrier", None) /\ Goto(t, "inc")
  BY DEF barrier_post, At
<1>2. barrier \in Events /\ barrier.kind = "C_barrier" /\ \A x : barrier # processor_stop(x)
  BY DEF barrier, Events, processor_stop
<1>3. \/ events' = events
      \/ pc[t].i \in Workers /\ Added(events, events', pc[t].i, barrier)
  <2>1. CASE pc[t].i \in Workers
    BY <1>1, <1>2, <2>1, PostAdds DEF barrier, Types
  <2>2. CASE pc[t].i \notin Workers
    BY <1>1, <2>2 DEF Post, Types
  <2> QED
    BY <2>1, <2>2
<1>4. OtherEvents
  BY <1>2, <1>3 DEF OtherEvents
<1>5. "inc" \in Points /\ {"barrier", "inc"} \subseteq AfterStop
  BY DEF Points, LockedAt, AfterStop, InBarrierAt
<1>6. /\ pc' \in [Threads -> PcStates] /\ pc'[t].at = "inc" /\ pc'[t].m = pc[t].m
      /\ \A u \in Threads : u # t => pc'[u] = pc[u]
  BY <1>1, <1>5, Moved
<1>7. LocksKept
  BY <1>1, <1>5, <1>6, LocksStay DEF ProcInv
<1>8. ConnInv'
  BY <1>1, <1>4, OthersKeep, ConnFrame DEF SameRegs
<1>9. ProcInv'
  <2>1. StopsKept
    BY <1>2, <1>3, OtherAdded DEF StopsKept, Kept
  <2> QED
    BY <1>1, <1>7, <2>1, ProcFrame DEF SameProc
<1>10. events' \in [Workers -> Seq(Events)]
  BY <1>3 DEF Added, Types
<1> QED
  BY <1>1, <1>6, <1>8, <1>9, <1>10 DEF Types

\* Processor::start() on a socket that no worker watches.
LEMMA StartedMsgr ==
    ASSUME NEW M \in MsgrStates, NEW w \in Workers
    PROVE  /\ Started(M, w) \in MsgrStates /\ SameRegs(M, Started(M, w))
           /\ SameQueue(M, Started(M, w)) /\ Started(M, w).flags = M.flags
           /\ Started(M, w).local_up = M.local_up
           /\ Started(M, w).listen = M.listen /\ Started(M, w).stopped = M.stopped
           /\ Started(M, w).accepted = M.accepted
           /\ \/ Started(M, w) = M
              \/ M.listen /\ M.worker = -1 /\ Started(M, w).worker = w /\ Started(M, w).ev_read = TRUE
<1>1. CASE ~(M.listen /\ M.worker = -1)
  BY <1>1 DEF Started, SameRegs, SameQueue
<1>2. CASE M.listen /\ M.worker = -1
  <2>1. PICK R : R = [M EXCEPT !.worker = w, !.ev_read = TRUE]
    OBVIOUS
  <2>2. R \in MsgrStates
    BY <2>1 DEF MsgrStates
  <2>3. Started(M, w) = R
    BY <1>2, <2>1 DEF Started
  <2>4. /\ SameRegs(M, R) /\ SameQueue(M, R) /\ R.flags = M.flags /\ R.local_up = M.local_up
        /\ R.listen = M.listen /\ R.stopped = M.stopped /\ R.accepted = M.accepted
        /\ R.worker = w /\ R.ev_read = TRUE
    BY <2>1, <2>2 DEF MsgrStates, SameRegs, SameQueue
  <2> QED
    BY <1>2, <2>2, <2>3, <2>4
<1> QED
  BY <1>1, <1>2

\* A step that changes one messenger, but nothing of its registrations.
LEMMA OneMsgrConns ==
    ASSUME Types, ConnInv, NEW m \in Msgrs, NEW R \in MsgrStates, SameRegs(msgr[m], R),
           msgr' = [msgr EXCEPT ![m] = R], conn' = conn, OtherEvents
    PROVE  ConnInv'
<1>1. /\ msgr'[m] = R /\ \A n \in Msgrs : n # m => msgr'[n] = msgr[n]
  BY OneMsgr
<1>2. \A n \in Msgrs : SameRegs(msgr[n], msgr'[n])
  BY <1>1 DEF SameRegs
<1> QED
  BY <1>2, OthersKeep, ConnFrame

\* Only the Processor of m is concerned.
LEMMA OneProcessor ==
    ASSUME StopsOnce, NEW m \in Msgrs, StopsOne(m)',
           \A n \in Msgrs : n # m => /\ Kept(events, events', processor_stop(n))
                                    /\ msgr'[n] = msgr[n],
           \A u \in Threads : pc[u].at = "listening" /\ pc[u].m # m => pc'[u] = pc[u]
    PROVE  StopsOnce'
<1> SUFFICES ASSUME NEW n \in Msgrs, n # m PROVE StopsOne(n)'
  BY DEF StopsOnce
<1>1. Kept(events, events', processor_stop(n)) /\ msgr'[n] = msgr[n] /\ StopsOne(n)
  BY DEF StopsOnce
<1>2. CASE NotPosted(events, processor_stop(n))
  BY <1>1, <1>2 DEF Kept, StopsOne, processor_stop
<1>3. CASE ~NotPosted(events, processor_stop(n))
  <2>1. /\ PostedOnce(events, processor_stop(n))
        /\ \E t \in Threads : pc[t].at = "listening" /\ pc[t].m = n
        /\ ~msgr[n].stopped
        /\ \A w \in Workers : Queued(events, w, processor_stop(n)) => msgr[n].worker = w
    BY <1>1, <1>3 DEF StopsOne, Queued
  <2>2. PostedOnce(events', processor_stop(n))
        /\ \A w \in Workers : Queued(events', w, processor_stop(n)) => msgr'[n].worker = w
    BY <1>1, <2>1 DEF Kept
  <2>3. \E t \in Threads : pc'[t].at = "listening" /\ pc'[t].m = n
    BY <2>1
  <2> QED
    BY <1>1, <2>1, <2>2, <2>3 DEF StopsOne, Queued, processor_stop
<1> QED
  BY <1>2, <1>3

\* A worker comes to watch the socket: nobody waits for Processor::stop() then.
LEMMA ReadyStep ==
    ASSUME Inv, NEW t \in Threads, NEW m \in Msgrs, ready(t, m)
    PROVE  Inv'
<1> USE DEF Inv
<1>1. /\ pc[t].at = "ready" /\ Return(t) /\ start_lock' = start_lock /\ conn' = conn
      /\ events' = events /\ barrier_count' = barrier_count /\ script' = script
  BY DEF ready, At
<1>2. /\ pc' \in [Threads -> PcStates] /\ pc'[t].at = "idle"
      /\ \A u \in Threads : u # t => pc'[u] = pc[u]
  BY <1>1, Returned
<1>3. "idle" \notin LockedAt /\ "ready" \notin LockedAt
  BY DEF LockedAt, AfterStop, InBarrierAt
<1>4. LocksKept
  BY <1>1, <1>2, <1>3, LocksStay DEF ProcInv
<1>5. get_worker \in Workers /\ get_worker \in Nat
  BY WorkerChosen
<1>6. PICK R : R = Started(msgr[m], get_worker)
  OBVIOUS
<1>7. msgr[m] \in MsgrStates
  BY DEF Types
<1>8. /\ R \in MsgrStates /\ SameRegs(msgr[m], R)
      /\ R.listen = msgr[m].listen /\ R.stopped = msgr[m].stopped
      /\ R.accepted = msgr[m].accepted
      /\ R = msgr[m] \/ (msgr[m].listen /\ msgr[m].worker = -1 /\ R.worker \in Workers /\ R.ev_read = TRUE)
  BY <1>5, <1>6, <1>7, StartedMsgr
<1>9. CASE msgr' = msgr /\ seq' \in Nat
  <2>1. ConnInv' /\ ProcInv'
    BY <1>1, <1>4, <1>9, PlainStep DEF SameRegs, SameProc
  <2> QED
    BY <1>1, <1>2, <1>9, <2>1 DEF Types
<1>10. CASE msgr' = [msgr EXCEPT ![m] = R] /\ seq' = get_worker
             /\ msgr[m].listen /\ msgr[m].worker = -1 /\ R.worker \in Workers /\ R.ev_read = TRUE
  <2>1. /\ msgr' \in [Msgrs -> MsgrStates] /\ msgr'[m] = R
        /\ \A n \in Msgrs : n # m => msgr'[n] = msgr[n]
    BY <1>8, <1>10, OneMsgr
  <2>2. ConnInv'
    BY <1>1, <1>8, <1>10, OneMsgrConns DEF OtherEvents
  <2>3. \A u \in Threads : pc'[u].at \in LockedAt => pc'[u] = pc[u] /\ pc[u].m # m
    BY <1>2, <1>3, <1>10 DEF ProcInv, Locking, LockedAt
  <2>4. Locking'
    BY <1>1, <2>1, <2>3 DEF ProcInv, Locking
  <2>5. R.worker # -1
    BY <1>10 DEF Workers
  <2>6. Accepts'
    BY <1>8, <1>10, <2>1, <2>5 DEF ProcInv, Accepts, SameRegs
  <2>7. NotPosted(events, processor_stop(m))
    <3>1. msgr[m].worker \notin Workers
      BY <1>10 DEF Workers
    <3> QED
      BY <3>1 DEF ProcInv, StopsOnce, StopsOne, PostedOnce
  <2>8. \A u \in Threads : pc[u].at = "listening" => pc'[u] = pc[u]
    BY <1>1, <1>2
  <2>9. StopsOnce'
    BY <1>1, <2>1, <2>7, <2>8 DEF ProcInv, StopsOnce, StopsOne, NotPosted, PostedOnce, processor_stop
  <2> QED
    BY <1>1, <1>2, <1>5, <1>10, <2>1, <2>2, <2>4, <2>6, <2>9 DEF Types, ProcInv
<1>11. \/ msgr' = msgr /\ seq' \in Nat
       \/ msgr' = [msgr EXCEPT ![m] = R] /\ seq' = get_worker
  BY <1>6 DEF ready, Types
<1>12. msgr' = [msgr EXCEPT ![m] = R] /\ R = msgr[m] => msgr' = msgr
  BY DEF Types
<1> QED
  BY <1>5, <1>8, <1>9, <1>10, <1>11, <1>12

\* Processor::stop() has its answer: the worker does not watch the socket.
LEMMA ProcessorStoppedStep ==
    ASSUME Inv, NEW t \in Threads, NEW m \in Msgrs, ProcessorStopped(t, m)
    PROVE  Inv'
<1> USE DEF Inv
<1>1. /\ pc[t].at = "listening" /\ pc[t].m = m /\ Goto(t, "closed") /\ msgr[m].stopped
      /\ msgr' = [msgr EXCEPT ![m].worker = -1, ![m].listen = FALSE]
      /\ start_lock' = start_lock /\ conn' = conn /\ events' = events
      /\ seq' = seq /\ barrier_count' = barrier_count /\ script' = script
  BY DEF ProcessorStopped, At, pool, StopSeen
<1>2. "closed" \in Points /\ "closed" \in AfterStop /\ "listening" \in LockedAt /\ AfterStop \subseteq LockedAt
      /\ "listening" \notin AfterStop
  BY DEF Points, LockedAt, AfterStop, InBarrierAt
<1>3. /\ pc' \in [Threads -> PcStates] /\ pc'[t].at = "closed" /\ pc'[t].m = m
      /\ \A u \in Threads : u # t => pc'[u] = pc[u]
  BY <1>1, <1>2, Moved
<1>4. PICK R : R = [msgr[m] EXCEPT !.worker = -1, !.listen = FALSE]
  OBVIOUS
<1>5. msgr[m] \in MsgrStates
  BY DEF Types
<1>6. R \in MsgrStates
  BY <1>4, <1>5 DEF MsgrStates
<1>7. /\ SameRegs(msgr[m], R) /\ R.worker = -1 /\ R.listen = FALSE
      /\ R.stopped = msgr[m].stopped /\ R.ev_read = msgr[m].ev_read
      /\ R.accepted = msgr[m].accepted
  BY <1>4, <1>5 DEF MsgrStates, SameRegs
<1>8. msgr' = [msgr EXCEPT ![m] = R]
  BY <1>1, <1>4 DEF Types
<1>9. /\ msgr' \in [Msgrs -> MsgrStates] /\ msgr'[m] = R
      /\ \A n \in Msgrs : n # m => msgr'[n] = msgr[n]
  BY <1>6, <1>8, OneMsgr
<1>10. ConnInv'
  BY <1>1, <1>6, <1>7, <1>8, OneMsgrConns DEF OtherEvents
<1>11. start_lock[m] = t /\ ~msgr[m].ev_read
  BY <1>1, <1>2 DEF ProcInv, Locking
<1>12. \A u \in Threads : u # t /\ pc'[u].at \in LockedAt => pc'[u] = pc[u] /\ pc[u].m # m
  BY <1>1, <1>2, <1>3, OneLocker DEF ProcInv
<1>13. Locking'
  <2> SUFFICES ASSUME NEW u \in Threads, pc'[u].at \in LockedAt
               PROVE  (/\ pc[u].m \in Msgrs /\ start_lock[pc[u].m] = u
                       /\ pc[u].at = "listening" =>
                             /\ msgr[pc[u].m].listen /\ msgr[pc[u].m].worker # -1
                             /\ msgr[pc[u].m].stopped => ~msgr[pc[u].m].ev_read
                       /\ pc[u].at \in AfterStop =>
                             ~msgr[pc[u].m].listen /\ msgr[pc[u].m].worker = -1)'
    BY DEF Locking
  <2>1. CASE u = t
    BY <1>1, <1>2, <1>3, <1>7, <1>9, <1>11, <2>1
  <2>2. CASE u # t
    BY <1>1, <1>9, <1>12, <2>2 DEF ProcInv, Locking
  <2> QED
    BY <2>1, <2>2
<1>14. Accepts'
  BY <1>7, <1>9, <1>11 DEF ProcInv, Accepts, SameRegs
<1>15. NotPosted(events, processor_stop(m))
  BY <1>1 DEF ProcInv, StopsOnce, StopsOne
<1>16. \A u \in Threads : pc[u].at = "listening" /\ pc[u].m # m => pc'[u] = pc[u]
  BY <1>1, <1>3
<1>17. StopsOnce'
  <2>1. StopsOne(m)'
    BY <1>1, <1>15 DEF StopsOne, processor_stop
  <2>2. \A n \in Msgrs : Kept(events, events', processor_stop(n))
    BY <1>1 DEF Kept
  <2> QED
    BY <1>9, <1>16, <2>1, <2>2, OneProcessor DEF ProcInv
<1> QED
  BY <1>1, <1>3, <1>9, <1>10, <1>13, <1>14, <1>17 DEF Types, ProcInv

\* A thread goes on with start_lock.
LEMMA Continued ==
    ASSUME Types, NEW t \in Threads, NEW m \in Msgrs, NEW where \in Points,
           Head(script[t]).call \in CallNames, Continue(t, m, where)
    PROVE  /\ pc' \in [Threads -> PcStates] /\ pc'[t].at = where /\ pc'[t].m = m
           /\ pc'[t].call = Head(script[t]).call /\ pc'[t].i = 0
           /\ \A u \in Threads : u # t => pc'[u] = pc[u]
           /\ start_lock' \in [Msgrs -> Threads \cup {None}] /\ start_lock'[m] = t
           /\ \A n \in Msgrs : n # m => start_lock'[n] = start_lock[n]
<1>1. PICK P : P = [Idle EXCEPT !.at = where, !.m = m, !.call = Head(script[t]).call]
  OBVIOUS
<1>2. P \in PcStates /\ P.at = where /\ P.m = m /\ P.call = Head(script[t]).call /\ P.i = 0
  BY <1>1 DEF Idle, PcStates
<1>3. pc' = [pc EXCEPT ![t] = P] /\ start_lock' = [start_lock EXCEPT ![m] = t]
  BY <1>1 DEF Continue
<1>4. /\ pc' \in [Threads -> PcStates] /\ pc'[t] = P
      /\ \A u \in Threads : u # t => pc'[u] = pc[u]
  BY <1>2, <1>3, OnePc
<1>5. /\ start_lock' \in [Msgrs -> Threads \cup {None}] /\ start_lock'[m] = t
      /\ \A n \in Msgrs : n # m => start_lock'[n] = start_lock[n]
  BY <1>3 DEF Types
<1> QED
  BY <1>2, <1>4, <1>5

\* Locking after thread t came to hold the lock of m.
LEMMA LockTaken ==
    ASSUME Locking, NEW t \in Threads, NEW m \in Msgrs, start_lock[m] = None,
           pc'[t].at \in {"listening", "closed"}, pc'[t].m = m,
           \A u \in Threads : u # t => pc'[u] = pc[u],
           start_lock'[m] = t, \A n \in Msgrs : n # m => start_lock'[n] = start_lock[n],
           \A n \in Msgrs : n # m => msgr'[n] = msgr[n],
           pc'[t].at = "listening" =>
              msgr'[m].listen /\ msgr'[m].worker # -1 /\ ~msgr'[m].stopped,
           pc'[t].at = "closed" => ~msgr'[m].listen /\ msgr'[m].worker = -1
    PROVE  Locking'
<1> SUFFICES ASSUME NEW u \in Threads, pc'[u].at \in LockedAt
             PROVE  (/\ pc[u].m \in Msgrs /\ start_lock[pc[u].m] = u
                     /\ pc[u].at = "listening" =>
                           /\ msgr[pc[u].m].listen /\ msgr[pc[u].m].worker # -1
                           /\ msgr[pc[u].m].stopped => ~msgr[pc[u].m].ev_read
                     /\ pc[u].at \in AfterStop =>
                           ~msgr[pc[u].m].listen /\ msgr[pc[u].m].worker = -1)'
  BY DEF Locking
<1>1. "listening" \notin AfterStop
  BY DEF AfterStop, InBarrierAt
<1>2. CASE u = t
  BY <1>1, <1>2
<1>3. CASE u # t
  <2>1. pc'[u] = pc[u] /\ pc[u].m # m
    BY <1>3, NoLocker
  <2> QED
    BY <2>1 DEF Locking
<1> QED
  BY <1>2, <1>3

\* Processor::stop() begins: it posts its event, or has nothing to wait for.
LEMMA ProcessorStopStep ==
    ASSUME Inv, NEW t \in Threads, NEW m \in Msgrs, NEW M \in MsgrStates,
           SameRegs(msgr[m], M), SameProc(msgr[m], M), pc[t].at = "idle",
           Head(script[t]).call \in CallNames, start_lock[m] = None, ProcessorStop(t, m, M),
           script' \in [Threads -> Seq([call : CallNames, m : Msgrs, peer : Peers])],
           conn' = conn, seq' = seq, barrier_count' = barrier_count
    PROVE  Inv'
<1> USE DEF Inv
<1>0. "listening" \in LockedAt /\ "listening" \in Points /\ "closed" \in Points
      /\ "closed" \in AfterStop
  BY DEF Points, LockedAt, AfterStop, InBarrierAt
<1>1. NotPosted(events, processor_stop(m))
  BY <1>0, NoLocker, SMTT(40) DEF ProcInv, StopsOnce, StopsOne
<1>1a. \A u \in Threads : pc[u].at = "listening" => pc[u].m # m /\ u # t
  BY <1>0, NoLocker DEF ProcInv
<1>2. CASE M.listen /\ M.worker # -1
  <2>1. PICK R : R = [M EXCEPT !.stopped = FALSE]
    OBVIOUS
  <2>2. R \in MsgrStates
    BY <2>1 DEF MsgrStates
  <2>3. /\ SameRegs(msgr[m], R) /\ R.stopped = FALSE /\ R.listen = msgr[m].listen
        /\ R.worker = msgr[m].worker /\ R.ev_read = msgr[m].ev_read
        /\ R.accepted = msgr[m].accepted
    BY <2>1 DEF MsgrStates, SameRegs, SameProc
  <2>4. /\ msgr' = [msgr EXCEPT ![m] = R] /\ Continue(t, m, "listening")
        /\ events' = Post(events, M.worker, "C_ProcessorStop", m)
    BY <1>2, <2>1 DEF ProcessorStop
  <2>5. /\ pc' \in [Threads -> PcStates] /\ pc'[t].at = "listening" /\ pc'[t].m = m
        /\ \A u \in Threads : u # t => pc'[u] = pc[u]
        /\ start_lock' \in [Msgrs -> Threads \cup {None}] /\ start_lock'[m] = t
        /\ \A n \in Msgrs : n # m => start_lock'[n] = start_lock[n]
    BY <1>0, <2>4, Continued
  <2>6. /\ msgr' \in [Msgrs -> MsgrStates] /\ msgr'[m] = R
        /\ \A n \in Msgrs : n # m => msgr'[n] = msgr[n]
    BY <2>2, <2>4, OneMsgr
  <2>7. M.worker \in Workers /\ M.worker = msgr[m].worker
    BY <1>2 DEF MsgrStates, SameProc
  <2>8. processor_stop(m) \in Events /\ processor_stop(m).kind = "C_ProcessorStop"
        /\ \A n : n # m => processor_stop(m) # processor_stop(n)
    BY DEF processor_stop, Events
  <2>9. Added(events, events', M.worker, processor_stop(m))
    BY <2>4, <2>7, <2>8, PostAdds DEF processor_stop, Types
  <2>10. OtherEvents
    BY <2>7, <2>8, <2>9 DEF OtherEvents
  <2>11. ConnInv'
    BY <2>2, <2>3, <2>4, <2>10, OneMsgrConns
  <2>12. Locking'
    BY <1>2, <2>3, <2>5, <2>6, LockTaken DEF ProcInv, SameProc
  <2>13. Accepts'
    BY <2>3, <2>6 DEF ProcInv, Accepts, SameRegs
  <2>14. StopsOne(m)'
    <3>1. PostedOnce(events', processor_stop(m))
      BY <1>1, <2>7, <2>9, ThisAdded
    <3>2. \A w \in Workers : \A k \in DOMAIN events'[w] :
             events'[w][k] = processor_stop(m) => M.worker = w
      BY <1>1, <2>9 DEF Added, NotPosted
    <3>3. ~msgr'[m].stopped /\ msgr'[m].worker = M.worker
      BY <2>3, <2>6, <2>7
    <3> QED
      BY <2>5, <3>1, <3>2, <3>3 DEF StopsOne, processor_stop
  <2>15. \A n \in Msgrs : n # m => Kept(events, events', processor_stop(n))
    BY <2>7, <2>8, <2>9, OtherAdded
  <2>16. StopsOnce'
    BY <1>1a, <2>5, <2>6, <2>14, <2>15, OneProcessor DEF ProcInv
  <2>17. events' \in [Workers -> Seq(Events)]
    BY <2>9 DEF Added
  <2> QED
    BY <2>5, <2>6, <2>11, <2>12, <2>13, <2>16, <2>17 DEF Types, ProcInv
<1>3. CASE ~(M.listen /\ M.worker # -1)
  <2>1. PICK R : R = [M EXCEPT !.listen = FALSE]
    OBVIOUS
  <2>2. R \in MsgrStates
    BY <2>1 DEF MsgrStates
  <2>3. /\ SameRegs(msgr[m], R) /\ R.listen = FALSE /\ R.stopped = msgr[m].stopped
        /\ R.worker = msgr[m].worker /\ R.ev_read = msgr[m].ev_read
        /\ R.accepted = msgr[m].accepted
    BY <2>1 DEF MsgrStates, SameRegs, SameProc
  <2>4. /\ msgr' = [msgr EXCEPT ![m] = R] /\ Continue(t, m, "closed") /\ events' = events
    BY <1>3, <2>1 DEF ProcessorStop
  <2>5. /\ pc' \in [Threads -> PcStates] /\ pc'[t].at = "closed" /\ pc'[t].m = m
        /\ \A u \in Threads : u # t => pc'[u] = pc[u]
        /\ start_lock' \in [Msgrs -> Threads \cup {None}] /\ start_lock'[m] = t
        /\ \A n \in Msgrs : n # m => start_lock'[n] = start_lock[n]
    BY <1>0, <2>4, Continued
  <2>6. /\ msgr' \in [Msgrs -> MsgrStates] /\ msgr'[m] = R
        /\ \A n \in Msgrs : n # m => msgr'[n] = msgr[n]
    BY <2>2, <2>4, OneMsgr
  <2>7. R.worker = -1
    BY <1>3, <2>3 DEF ProcInv, Accepts, SameProc
  <2>8. ConnInv'
    BY <2>2, <2>3, <2>4, OneMsgrConns DEF OtherEvents
  <2>9. Locking'
    BY <2>3, <2>5, <2>6, <2>7, LockTaken DEF ProcInv
  <2>10. Accepts'
    BY <2>3, <2>6, <2>7 DEF ProcInv, Accepts, SameRegs
  <2>11. StopsOne(m)'
    BY <1>1, <2>4 DEF StopsOne, processor_stop
  <2>12. \A n \in Msgrs : Kept(events, events', processor_stop(n))
    BY <2>4 DEF Kept
  <2>13. StopsOnce'
    BY <1>1a, <2>5, <2>6, <2>11, <2>12, OneProcessor DEF ProcInv
  <2> QED
    BY <2>4, <2>5, <2>6, <2>8, <2>9, <2>10, <2>13 DEF Types, ProcInv
<1> QED
  BY <1>2, <1>3

\* shutdown(), rebind() and unbind() begin.
LEMMA StopCalls ==
    ASSUME Inv, NEW t \in Threads, NEW m \in Msgrs,
           shutdown(t, m) \/ rebind(t, m) \/ unbind(t, m)
    PROVE  Inv'
<1> USE DEF Inv
<1>0. "idle" \notin LockedAt /\ barrier_count \in Int
  BY DEF Types, LockedAt, AfterStop, InBarrierAt
<1>1. PICK call \in {"shutdown", "rebind", "unbind"} : Locks(t, call, m)
  BY DEF shutdown, rebind, unbind
<1>2. /\ pc[t].at = "idle" /\ start_lock[m] = None
      /\ script' \in [Threads -> Seq([call : CallNames, m : Msgrs, peer : Peers])]
      /\ Head(script[t]).call \in CallNames
  BY <1>1, Began DEF Locks, Begins
<1>3. msgr[m] \in MsgrStates /\ SameRegs(msgr[m], msgr[m]) /\ SameProc(msgr[m], msgr[m])
  BY DEF Types, SameRegs, SameProc
<1>4. CASE Return(t) /\ UNCHANGED <<msgr, events, start_lock>> /\ UNCHANGED <<conn, pool, aborted, env>>
  <2>1. /\ pc' \in [Threads -> PcStates] /\ pc'[t].at = "idle"
        /\ \A u \in Threads : u # t => pc'[u] = pc[u]
    BY <1>4, Returned
  <2>2. /\ msgr' = msgr /\ events' = events /\ start_lock' = start_lock /\ conn' = conn
        /\ seq' = seq /\ barrier_count' = barrier_count
    BY <1>4 DEF pool
  <2> QED
    BY <1>0, <1>2, <2>1, <2>2, QuietMove
<1>5. CASE Abort(t)
  BY <1>2, <1>5, AbortStep
<1>6. ASSUME NEW M \in MsgrStates, SameRegs(msgr[m], M), SameProc(msgr[m], M),
             ProcessorStop(t, m, M), UNCHANGED <<conn, pool, aborted, env>>
      PROVE  Inv'
  <2>1. conn' = conn /\ seq' = seq /\ barrier_count' = barrier_count
    BY <1>6 DEF pool
  <2> QED
    BY <1>2, <1>6, <2>1, ProcessorStopStep
<1>7. ASSUME NEW M, M = [msgr[m] EXCEPT !.flags = @ \cup {"shutdown_called"}]
      PROVE  M \in MsgrStates /\ SameRegs(msgr[m], M) /\ SameProc(msgr[m], M)
  <2>1. M \in MsgrStates
    BY <1>3, <1>7 DEF MsgrStates, Flags
  <2> QED
    BY <1>3, <1>7, <2>1 DEF MsgrStates, SameRegs, SameProc
<1>8. CASE shutdown(t, m)
  BY <1>4, <1>6, <1>7, <1>8 DEF shutdown
<1>9. CASE rebind(t, m)
  BY <1>3, <1>5, <1>6, <1>9 DEF rebind
<1>10. CASE unbind(t, m)
  BY <1>3, <1>4, <1>6, <1>10 DEF unbind
<1> QED
  BY <1>8, <1>9, <1>10

\* rebind() ends: with a port and a worker, or without.
LEMMA ReboundStep ==
    ASSUME Inv, NEW t \in Threads, NEW m \in Msgrs, Rebound(t, m)
    PROVE  Inv'
<1> USE DEF Inv
<1>1. /\ pc[t].at = "rebind" /\ pc[t].m = m /\ Return(t) /\ Unlock(m) /\ conn' = conn
      /\ events' = events /\ barrier_count' = barrier_count /\ script' = script
  BY DEF Rebound, At
<1>2. /\ pc' \in [Threads -> PcStates] /\ pc'[t].at = "idle"
      /\ \A u \in Threads : u # t => pc'[u] = pc[u]
  BY <1>1, Returned
<1>3. "idle" \notin LockedAt /\ "rebind" \in AfterStop /\ "rebind" \in LockedAt
  BY DEF LockedAt, AfterStop, InBarrierAt
<1>4. CASE seq' = seq /\ msgr' = msgr
  BY <1>1, <1>2, <1>3, <1>4, QuietMove DEF Types
<1>5. CASE seq' = get_worker /\ msgr' = [msgr EXCEPT ![m] = Started(Bound(@), get_worker)]
  <2>1. PICK Q : Q = Bound(msgr[m])
    OBVIOUS
  <2>2. PICK R : R = Started(Q, get_worker)
    OBVIOUS
  <2>3. msgr[m] \in MsgrStates /\ get_worker \in Workers /\ get_worker \in Nat
    BY WorkerChosen DEF Types
  <2>4. /\ Q \in MsgrStates /\ SameRegs(msgr[m], Q) /\ Q.listen = TRUE
        /\ Q.worker = msgr[m].worker /\ Q.accepted = msgr[m].accepted
    BY <2>1, <2>3, BoundMsgr
  <2>5. msgr[m].worker = -1 /\ msgr[m].accepted = -1
    BY <1>1, <1>3 DEF ProcInv, Locking, Accepts
  <2>6. /\ R \in MsgrStates /\ SameRegs(Q, R) /\ R.listen = TRUE /\ R.accepted = -1
        /\ R = Q \/ (R.worker \in Workers /\ R.ev_read = TRUE)
    BY <2>2, <2>3, <2>4, <2>5, StartedMsgr
  <2>7. R.worker \in Workers /\ R.worker # -1 /\ R.ev_read = TRUE
    <3>1. R = [Q EXCEPT !.worker = get_worker, !.ev_read = TRUE]
      BY <2>2, <2>4, <2>5 DEF Started
    <3> QED
      BY <2>3, <2>4, <3>1 DEF MsgrStates, Workers
  <2>8. SameRegs(msgr[m], R)
    BY <2>4, <2>6 DEF SameRegs
  <2>9. msgr' = [msgr EXCEPT ![m] = R]
    BY <1>5, <2>1, <2>2
  <2>10. /\ msgr' \in [Msgrs -> MsgrStates] /\ msgr'[m] = R
         /\ \A n \in Msgrs : n # m => msgr'[n] = msgr[n]
    BY <2>6, <2>9, OneMsgr
  <2>11. ConnInv'
    BY <1>1, <2>6, <2>8, <2>9, OneMsgrConns DEF OtherEvents
  <2>12. \A u \in Threads : pc'[u].at \in LockedAt => pc'[u] = pc[u] /\ pc[u].m # m
    BY <1>1, <1>2, <1>3, OneLocker DEF ProcInv
  <2>13. start_lock' \in [Msgrs -> Threads \cup {None}]
         /\ \A n \in Msgrs : n # m => start_lock'[n] = start_lock[n]
    BY <1>1 DEF Unlock, Types
  <2>14. Locking'
    BY <2>10, <2>12, <2>13 DEF ProcInv, Locking
  <2>15. Accepts'
    BY <2>6, <2>7, <2>10 DEF ProcInv, Accepts
  <2>16. NotPosted(events, processor_stop(m))
    <3>1. msgr[m].worker \notin Workers
      BY <2>5 DEF Workers
    <3> QED
      BY <3>1 DEF ProcInv, StopsOnce, StopsOne, PostedOnce
  <2>17. StopsOnce'
    <3>1. StopsOne(m)'
      BY <1>1, <2>16 DEF StopsOne, processor_stop
    <3>2. \A n \in Msgrs : Kept(events, events', processor_stop(n))
      BY <1>1 DEF Kept
    <3>3. \A u \in Threads : pc[u].at = "listening" => pc'[u] = pc[u]
      BY <1>1, <1>2
    <3> QED
      BY <2>10, <3>1, <3>2, <3>3, OneProcessor DEF ProcInv
  <2> QED
    BY <1>1, <1>2, <1>5, <2>3, <2>10, <2>11, <2>13, <2>14, <2>15, <2>17 DEF Types, ProcInv
<1> QED
  BY <1>4, <1>5 DEF Rebound

\* Processor::accept() takes a socket.
LEMMA AcceptStep ==
    ASSUME Inv, NEW m \in Msgrs, accept(m)
    PROVE  Inv'
<1> USE DEF Inv
<1>1. /\ msgr[m].ev_read /\ msgr' = [msgr EXCEPT ![m].accepted = msgr[m].gen]
      /\ start_lock' = start_lock /\ pc' = pc /\ conn' = conn /\ events' = events
      /\ seq' = seq /\ barrier_count' = barrier_count /\ script' = script
  BY DEF accept, pool
<1>2. PICK R : R = [msgr[m] EXCEPT !.accepted = msgr[m].gen]
  OBVIOUS
<1>3. msgr[m] \in MsgrStates
  BY DEF Types
<1>4. R \in MsgrStates
  BY <1>2, <1>3 DEF MsgrStates
<1>5. /\ SameRegs(msgr[m], R) /\ R.listen = msgr[m].listen /\ R.worker = msgr[m].worker
      /\ R.stopped = msgr[m].stopped /\ R.ev_read = msgr[m].ev_read
      /\ R.accepted = msgr[m].gen
  BY <1>2, <1>3 DEF MsgrStates, SameRegs
<1>6. msgr' = [msgr EXCEPT ![m] = R]
  BY <1>1, <1>2
<1>7. /\ msgr' \in [Msgrs -> MsgrStates] /\ msgr'[m] = R
      /\ \A n \in Msgrs : n # m => msgr'[n] = msgr[n]
  BY <1>4, <1>6, OneMsgr
<1>8. ConnInv'
  BY <1>1, <1>4, <1>5, <1>6, OneMsgrConns DEF OtherEvents
<1>9. \A n \in Msgrs : /\ msgr'[n].listen = msgr[n].listen /\ msgr'[n].worker = msgr[n].worker
                       /\ msgr'[n].stopped = msgr[n].stopped /\ msgr'[n].ev_read = msgr[n].ev_read
  BY <1>5, <1>7
<1>10. Locking'
  BY <1>1, <1>9 DEF ProcInv, Locking
<1>11. Accepts'
  BY <1>1, <1>5, <1>7 DEF ProcInv, Accepts, SameRegs
<1>12. StopsOnce'
  BY <1>1, <1>9 DEF ProcInv, StopsOnce, StopsOne, NotPosted, PostedOnce, processor_stop
<1> QED
  BY <1>1, <1>7, <1>8, <1>10, <1>11, <1>12 DEF Types, ProcInv

\* The worker handles C_ProcessorStop: it is not in Processor::accept().
LEMMA ProcessorStopEvent ==
    ASSUME Inv, NEW w \in Workers, DoRequest(w), Head(events[w]).kind = "C_ProcessorStop"
    PROVE  Inv'
<1> USE DEF Inv
<1>1. /\ start_lock' = start_lock /\ seq' = seq /\ script' = script /\ ~Accepting(w)
      /\ conn' = conn /\ barrier_count' = barrier_count /\ pc' = pc
      /\ events' = [events EXCEPT ![w] = Tail(@)] /\ events[w] # <<>>
  BY DEF DoRequest
<1>1a. Taken(events, events', w)
  BY <1>1, TakeTakes DEF Types
<1>1b. PICK m : m = events[w][1].arg
  OBVIOUS
<1>1c. events[w][1].kind = "C_ProcessorStop" /\ Head(events[w]) = events[w][1]
  BY <1>1a DEF Taken
<1>1d. msgr' = [msgr EXCEPT ![m].stopped = TRUE, ![m].ev_read = FALSE]
  BY <1>1b, <1>1c DEF DoRequest
<1>2. OtherEvents
  BY <1>1a, <1>1c DEF OtherEvents
<1>3. events' \in [Workers -> Seq(Events)]
  BY <1>1a DEF Taken
<1>4. \A n : n # m => events[w][1] # processor_stop(n)
  BY <1>1b DEF processor_stop
<1>5. \A n : n # m => Kept(events, events', processor_stop(n))
  BY <1>1a, <1>4, OtherTaken
<1>6. CASE m \notin Msgrs
  <2>1. msgr' = msgr
    BY <1>1d, <1>6 DEF Types
  <2>2. ConnInv'
    BY <1>1, <1>2, <2>1, OthersKeep, ConnFrame DEF SameRegs
  <2>3. StopsKept
    BY <1>5, <1>6 DEF StopsKept
  <2>4. ProcInv'
    BY <1>1, <2>1, <2>3, ProcFrame DEF LocksKept, SameProc
  <2> QED
    BY <1>1, <1>3, <2>1, <2>2, <2>4 DEF Types
<1>7. CASE m \in Msgrs
  <2>0. events[w][1] = processor_stop(m)
    <3>1. events[w][1] \in Events
      BY <1>1a, <1>1c DEF Taken
    <3> QED
      BY <1>1b, <1>1c, <3>1 DEF Events, processor_stop
  <2>1. /\ PostedOnce(events, processor_stop(m)) /\ msgr[m].worker = w
        /\ ~msgr[m].stopped
    <3>1. 1 \in DOMAIN events[w]
      BY <1>1a DEF Taken
    <3> QED
      BY <1>7, <2>0, <3>1 DEF ProcInv, StopsOnce, StopsOne, NotPosted
  <2>2. msgr[m].accepted = -1
    BY <1>1, <1>7, <2>1 DEF Accepting
  <2>3. PICK R : R = [msgr[m] EXCEPT !.stopped = TRUE, !.ev_read = FALSE]
    OBVIOUS
  <2>4. msgr[m] \in MsgrStates
    BY <1>7 DEF Types
  <2>5. R \in MsgrStates
    BY <2>3, <2>4 DEF MsgrStates
  <2>6. /\ SameRegs(msgr[m], R) /\ R.listen = msgr[m].listen /\ R.worker = msgr[m].worker
        /\ R.stopped = TRUE /\ R.ev_read = FALSE /\ R.accepted = msgr[m].accepted
    BY <2>3, <2>4 DEF MsgrStates, SameRegs
  <2>7. msgr' = [msgr EXCEPT ![m] = R]
    BY <1>1d, <1>7, <2>3 DEF Types
  <2>8. /\ msgr' \in [Msgrs -> MsgrStates] /\ msgr'[m] = R
        /\ \A n \in Msgrs : n # m => msgr'[n] = msgr[n]
    BY <1>7, <2>5, <2>7, OneMsgr
  <2>9. ConnInv'
    <3>1. \A n \in Msgrs : SameRegs(msgr[n], msgr'[n])
      BY <2>6, <2>8 DEF SameRegs
    <3>2. EventsKept
      BY <1>2, OthersKeep
    <3> QED
      BY <1>1, <3>1, <3>2, ConnFrame
  <2>10. Locking'
    <3>1. \A n \in Msgrs : /\ msgr'[n].listen = msgr[n].listen /\ msgr'[n].worker = msgr[n].worker
                            /\ \/ msgr'[n].stopped = msgr[n].stopped /\ msgr'[n].ev_read = msgr[n].ev_read
                               \/ msgr'[n].ev_read = FALSE
      BY <2>6, <2>8
    <3> QED
      BY <1>1, <3>1 DEF ProcInv, Locking
  <2>11. Accepts'
    BY <2>2, <2>6, <2>8 DEF ProcInv, Accepts
  <2>12. StopsOne(m)'
    <3>1. NotPosted(events', processor_stop(m))
      BY <1>1a, <2>0, <2>1, ThisTaken
    <3> QED
      BY <3>1 DEF StopsOne, processor_stop
  <2>13. StopsOnce'
    BY <1>1, <1>5, <1>7, <2>8, <2>12, OneProcessor DEF ProcInv
  <2> QED
    BY <1>1, <1>3, <2>8, <2>9, <2>10, <2>11, <2>13 DEF Types, ProcInv
<1> QED
  BY <1>6, <1>7

\* A worker comes to the barrier.
LEMMA BarrierEvent ==
    ASSUME Inv, NEW w \in Workers, events[w][1].kind = "C_barrier",
           Taken(events, events', w), pc' = Signalled, barrier_count' = barrier_count - 1,
           msgr' = msgr, conn' = conn, start_lock' = start_lock, seq' = seq, script' = script
    PROVE  Inv'
<1> USE DEF Inv
<1>1. OtherEvents
  BY DEF OtherEvents
<1>2. StopsKept
  <2>1. \A n : events[w][1] # processor_stop(n)
    BY DEF processor_stop
  <2> QED
    BY <2>1, OtherTaken DEF StopsKept
<1>3. ConnInv'
  BY <1>1, OthersKeep, ConnFrame DEF SameRegs
<1>4. ASSUME NEW t \in Threads
      PROVE  /\ pc'[t] \in PcStates /\ pc'[t].m = pc[t].m
             /\ \/ pc'[t] = pc[t]
                \/ pc[t].at = "barrier_sleep" /\ pc'[t].at = "barrier_wait"
  <2>1. pc[t] \in PcStates /\ "barrier_wait" \in Points
    BY DEF Types, Points, LockedAt, AfterStop, InBarrierAt
  <2>2. pc'[t] = IF pc[t].at = "barrier_sleep" THEN [pc[t] EXCEPT !.at = "barrier_wait"]
                                               ELSE pc[t]
    BY DEF Signalled
  <2>3. [pc[t] EXCEPT !.at = "barrier_wait"] \in PcStates
    BY <2>1 DEF PcStates
  <2>4. /\ [pc[t] EXCEPT !.at = "barrier_wait"].at = "barrier_wait"
        /\ [pc[t] EXCEPT !.at = "barrier_wait"].m = pc[t].m
    BY <2>1 DEF PcStates
  <2> QED
    BY <2>1, <2>2, <2>3, <2>4
<1>5. pc' \in [Threads -> PcStates]
  BY <1>4 DEF Signalled
<1>6. {"barrier_sleep", "barrier_wait"} \subseteq AfterStop
  BY DEF AfterStop, InBarrierAt
<1>7. LocksKept
  BY <1>4, <1>6 DEF LocksKept
<1>8. ProcInv'
  BY <1>2, <1>7, ProcFrame DEF SameProc
<1>9. barrier_count' \in Int /\ events' \in [Workers -> Seq(Events)]
  BY DEF Types, Taken
<1>10. Types'
  BY <1>5, <1>9 DEF Types
<1> QED
  BY <1>3, <1>8, <1>10

\* AsyncConnection::_stop(), with the events ev left: the connection is closed and
\* its C_release posted, if it was not closed before.
LEMMA StopConn ==
    ASSUME Types, Made1, Registered, NEW ev \in [Workers -> Seq(Events)], FitIn(ev),
           NEW c \in ConnIds, conn[c].state # "NONE", _stop(c, ev),
           \A d \in ConnIds : ReleaseIn(ev, d) /\ (d # c => StopsIn(ev, d))
    PROVE  /\ ConnInv' /\ msgr' \in [Msgrs -> MsgrStates] /\ conn' \in [ConnIds -> ConnStates]
           /\ events' \in [Workers -> Seq(Events)]
           /\ \A n \in Msgrs : SameProc(msgr[n], msgr'[n]) /\ msgr'[n].gen = msgr[n].gen
           /\ \A n \in Msgrs : Kept(ev, events', processor_stop(n))
<1>0. PICK k : k = conn[c]
  OBVIOUS
<1>1. /\ k \in ConnStates /\ k.m \in Msgrs /\ k.peer \in Peers /\ k.worker \in Workers
      /\ msgr[k.m] \in MsgrStates
  BY <1>0 DEF Types, Made1
<1>2. CASE k.state = "CLOSED"
  <2>1. events' = ev /\ msgr' = msgr /\ conn' = conn
    BY <1>0, <1>2 DEF _stop
  <2>2. Made1' /\ Registered'
    BY <2>1, RegsFrame DEF SameRegs
  <2>3. FitIn(events)'
    BY <2>1 DEF FitIn
  <2>4. ASSUME NEW d \in ConnIds PROVE ReleaseIn(events, d)' /\ StopsIn(events, d)'
    <3>1. ReleaseIn(ev, d)
      OBVIOUS
    <3>2. ReleaseIn(events, d)'
      BY <2>1, <3>1 DEF ReleaseIn, PostedOnce, NotPosted, release
    <3>3. StopsIn(ev, d)
      BY <1>0, <1>2 DEF StopsIn, Stale
    <3> QED
      BY <2>1, <3>2, <3>3 DEF StopsIn, Stale, Queued, stop
  <2> QED
    BY <2>1, <2>2, <2>3, <2>4 DEF ConnInv, Types, SameProc, Kept
<1>3. CASE k.state # "CLOSED"
  <2>1. PICK R : R = _unregister_conn(msgr[k.m], c)
    OBVIOUS
  <2>2. PICK K : K = [k EXCEPT !.state = "CLOSED"]
    OBVIOUS
  <2>3. K \in ConnStates
    BY <1>1, <2>2 DEF ConnStates
  <2>4. /\ K.state = "CLOSED" /\ K.m = k.m /\ K.peer = k.peer /\ K.worker = k.worker
        /\ K.gen = k.gen /\ K.released = k.released
    BY <1>1, <2>2 DEF ConnStates
  <2>5. /\ msgr' = [msgr EXCEPT ![k.m] = R] /\ conn' = [conn EXCEPT ![c] = K]
        /\ events' = Post(ev, k.worker, "C_release", c)
    BY <1>0, <1>3, <2>1, <2>2 DEF _stop
  <2>6. PICK cs : cs = [p \in Peers |-> IF msgr[k.m].conns[p] = c THEN None ELSE msgr[k.m].conns[p]]
    OBVIOUS
  <2>7. R = [msgr[k.m] EXCEPT !.conns = cs, !.accepting = msgr[k.m].accepting \ {c}]
    BY <2>1, <2>6 DEF _unregister_conn
  <2>8. cs \in [Peers -> ConnIds \cup {None}] /\ msgr[k.m].accepting \ {c} \in SUBSET ConnIds
        /\ \A p \in Peers : cs[p] = IF msgr[k.m].conns[p] = c THEN None ELSE msgr[k.m].conns[p]
    BY <1>1, <2>6 DEF MsgrStates
  <2>9. R \in MsgrStates
    BY <1>1, <2>7, <2>8 DEF MsgrStates
  <2>10. /\ R.conns = cs /\ R.accepting = msgr[k.m].accepting \ {c} /\ R.gen = msgr[k.m].gen
         /\ SameProc(msgr[k.m], R)
    BY <1>1, <2>7, <2>9 DEF MsgrStates, SameProc
  <2>11. /\ msgr' \in [Msgrs -> MsgrStates] /\ msgr'[k.m] = R
         /\ \A n \in Msgrs : n # k.m => msgr'[n] = msgr[n]
    BY <1>1, <2>5, <2>9, OneMsgr
  <2>12. /\ conn' \in [ConnIds -> ConnStates] /\ conn'[c] = K
         /\ \A d \in ConnIds : d # c => conn'[d] = conn[d]
    BY <2>3, <2>5 DEF Types
  <2>13. release(c) \in Events /\ \A x : x # c => release(c) # release(x)
    BY DEF release, Events
  <2>13a. \A x : release(c) # stop(x) /\ release(c) # processor_stop(x)
    BY DEF release, stop, processor_stop
  <2>14. Added(ev, events', k.worker, release(c))
    BY <1>1, <2>5, <2>13, PostAdds DEF release
  <2>15. \A n \in Msgrs : SameProc(msgr[n], msgr'[n]) /\ msgr'[n].gen = msgr[n].gen
    BY <2>10, <2>11 DEF SameProc
  <2>16. \A n \in Msgrs : Kept(ev, events', processor_stop(n))
    BY <1>1, <2>13a, <2>14, OtherAdded
  <2>17. \A d \in ConnIds : /\ conn'[d].m = conn[d].m /\ conn'[d].peer = conn[d].peer
                            /\ conn'[d].worker = conn[d].worker /\ conn'[d].gen = conn[d].gen
                            /\ conn'[d].state = "NONE" <=> conn[d].state = "NONE"
    BY <1>0, <2>4, <2>12
  <2>18. Made1'
    <3> SUFFICES ASSUME NEW d \in ConnIds
                 PROVE  (IF conn[d].state = "NONE" THEN conn[d] = FreeConn
                         ELSE /\ conn[d].m \in Msgrs /\ conn[d].peer \in Peers
                              /\ conn[d].worker \in Workers
                              /\ conn[d].gen <= msgr[conn[d].m].gen)'
      BY DEF Made1
    <3>1. CASE conn[d].state = "NONE"
      BY <2>12, <2>17, <3>1 DEF Made1, FreeConn
    <3>2. CASE conn[d].state # "NONE"
      BY <2>15, <2>17, <3>2 DEF Made1
    <3> QED
      BY <3>1, <3>2
  <2>19. Registered'
    <3>1. ASSUME NEW d \in ConnIds, conn'[d].state = "ACCEPTING"
          PROVE  d \in msgr'[conn'[d].m].accepting
      BY <2>4, <2>10, <2>11, <2>12, <2>17, <3>1, SMTT(40) DEF Registered, Made1
    <3>2. ASSUME NEW d \in ConnIds, conn'[d].state \in {"CONNECTING", "OPEN"}
          PROVE  msgr'[conn'[d].m].conns[conn'[d].peer] = d
      <4>1. d # c /\ conn'[d] = conn[d]
        BY <2>4, <2>12, <3>2
      <4>2. conn[d].m \in Msgrs /\ conn[d].peer \in Peers /\ msgr[conn[d].m].conns[conn[d].peer] = d
        BY <3>2, <4>1 DEF Registered, Made1
      <4> QED
        BY <2>8, <2>10, <2>11, <4>1, <4>2
    <3>3. ASSUME NEW n \in Msgrs, NEW d \in ConnIds, d \in msgr'[n].accepting
          PROVE  conn'[d].m = n /\ conn'[d].state = "ACCEPTING"
      <4>1. d \in msgr[n].accepting /\ (n = k.m => d # c)
        BY <2>10, <2>11, <3>3
      <4>2. conn[d].m = n /\ conn[d].state = "ACCEPTING"
        BY <4>1 DEF Registered
      <4>3. d # c
        BY <1>0, <4>1, <4>2
      <4> QED
        BY <2>12, <4>2, <4>3
    <3>4. ASSUME NEW n \in Msgrs, NEW p \in Peers, NEW d \in ConnIds, msgr'[n].conns[p] = d
          PROVE  /\ conn'[d].m = n /\ conn'[d].peer = p
                 /\ conn'[d].state \in {"CONNECTING", "OPEN"}
      <4>0. None \notin ConnIds
        BY ConstantsAssumption
      <4>1. msgr[n].conns[p] = d /\ (n = k.m => d # c)
        BY <2>8, <2>10, <2>11, <3>4, <4>0
      <4>2. conn[d].m = n /\ conn[d].peer = p /\ conn[d].state \in {"CONNECTING", "OPEN"}
        BY <4>1 DEF Registered
      <4>3. d # c
        BY <1>0, <4>1, <4>2
      <4> QED
        BY <2>12, <4>2, <4>3
    <3> QED
      BY <3>1, <3>2, <3>3, <3>4 DEF Registered
  <2>20. FitIn(events)'
    <3> SUFFICES ASSUME NEW w \in Workers, NEW j \in DOMAIN events'[w],
                        events'[w][j].kind \in {"C_stop", "C_release"}
                 PROVE  events'[w][j].arg \in ConnIds /\ conn'[events'[w][j].arg].state # "NONE"
      BY DEF FitIn
    <3>1. CASE j \in DOMAIN ev[w]
      <4>1. ev[w][j] = events'[w][j]
        BY <2>14, <3>1 DEF Added
      <4> QED
        BY <2>17, <3>1, <4>1 DEF FitIn
    <3>2. CASE j \notin DOMAIN ev[w]
      <4>1. events'[w][j] = release(c)
        BY <2>14, <3>2 DEF Added
      <4> QED
        BY <2>4, <2>12, <4>1 DEF release
    <3> QED
      BY <3>1, <3>2
  <2>21. ReleaseIn(events, c)' /\ StopsIn(events, c)'
    <3>1. conn[c].released = 0 /\ NotPosted(ev, release(c))
      BY <1>0, <1>3 DEF ReleaseIn
    <3>2. PostedOnce(events', release(c))
      BY <1>1, <2>14, <3>1, ThisAdded
    <3>3. conn'[c].released = 0 /\ conn'[c].state = "CLOSED"
      BY <1>0, <2>4, <2>12, <3>1
    <3> QED
      BY <3>2, <3>3 DEF ReleaseIn, StopsIn, Stale, release
  <2>22. ASSUME NEW d \in ConnIds, d # c PROVE ReleaseIn(events, d)' /\ StopsIn(events, d)'
    <3>1. Kept(ev, events', release(d)) /\ Kept(ev, events', stop(d))
      BY <1>1, <2>13, <2>13a, <2>14, <2>22, OtherAdded
    <3>2. ReleaseIn(ev, d) /\ conn'[d] = conn[d] /\ StopsIn(ev, d)
      BY <2>12, <2>22
    <3>3. ReleaseIn(events, d)'
      BY <3>1, <3>2 DEF ReleaseIn, Kept, release
    <3>4. Stale(d)' => Stale(d) /\ conn[d].worker \in Workers
      BY <2>15, <3>2 DEF Stale, Made1
    <3> QED
      BY <3>1, <3>2, <3>3, <3>4 DEF StopsIn, Kept, stop
  <2>23. events' \in [Workers -> Seq(Events)]
    BY <2>14 DEF Added
  <2> QED
    BY <2>11, <2>12, <2>15, <2>16, <2>18, <2>19, <2>20, <2>21, <2>22, <2>23 DEF ConnInv
<1> QED
  BY <1>2, <1>3

\* A connection is made: it is registered, and there are no events about it.
LEMMA ConnMade ==
    ASSUME Types, ConnInv, NEW c \in ConnIds, conn[c].state = "NONE", NEW m \in Msgrs,
           NEW K \in ConnStates, K.m = m, K.peer \in Peers, K.worker \in Workers,
           K.gen = msgr[m].gen, K.released = 0, conn' = [conn EXCEPT ![c] = K],
           events' = events, NEW R \in MsgrStates, msgr' = [msgr EXCEPT ![m] = R],
           R.gen = msgr[m].gen,
           \/ /\ K.state = "CONNECTING" /\ msgr[m].conns[K.peer] = None
              /\ R.conns = [msgr[m].conns EXCEPT ![K.peer] = c]
              /\ R.accepting = msgr[m].accepting
           \/ /\ K.state = "ACCEPTING" /\ R.conns = msgr[m].conns
              /\ R.accepting = msgr[m].accepting \cup {c}
    PROVE  ConnInv' /\ msgr' \in [Msgrs -> MsgrStates] /\ conn' \in [ConnIds -> ConnStates]
<1>1. /\ msgr' \in [Msgrs -> MsgrStates] /\ msgr'[m] = R
      /\ \A n \in Msgrs : n # m => msgr'[n] = msgr[n]
  BY OneMsgr
<1>2. /\ conn' \in [ConnIds -> ConnStates] /\ conn'[c] = K
      /\ \A d \in ConnIds : d # c => conn'[d] = conn[d]
  BY DEF Types
<1>3. \A n \in Msgrs : msgr'[n].gen = msgr[n].gen /\ msgr[n].gen \in Nat
  BY <1>1 DEF Types, MsgrStates
<1>4. /\ msgr[m].conns \in [Peers -> ConnIds \cup {None}] /\ None \notin ConnIds
  BY ConstantsAssumption DEF Types, MsgrStates
<1>5. Made1'
  <2> SUFFICES ASSUME NEW d \in ConnIds
               PROVE  (IF conn[d].state = "NONE" THEN conn[d] = FreeConn
                       ELSE /\ conn[d].m \in Msgrs /\ conn[d].peer \in Peers
                            /\ conn[d].worker \in Workers
                            /\ conn[d].gen <= msgr[conn[d].m].gen)'
    BY DEF Made1
  <2>1. CASE d = c
    BY <1>2, <1>3, <2>1
  <2>2. CASE d # c
    BY <1>2, <1>3, <2>2 DEF ConnInv, Made1, FreeConn
  <2> QED
    BY <2>1, <2>2
<1>6. Registered'
  <2>1. ASSUME NEW d \in ConnIds, conn'[d].state = "ACCEPTING"
        PROVE  d \in msgr'[conn'[d].m].accepting
    <3>1. CASE d = c
      BY <1>1, <1>2, <2>1, <3>1
    <3>2. CASE d # c
      <4>1. conn'[d] = conn[d] /\ conn[d].m \in Msgrs /\ d \in msgr[conn[d].m].accepting
        BY <1>2, <2>1, <3>2 DEF ConnInv, Registered, Made1
      <4> QED
        BY <1>1, <4>1
    <3> QED
      BY <3>1, <3>2
  <2>2. ASSUME NEW d \in ConnIds, conn'[d].state \in {"CONNECTING", "OPEN"}
        PROVE  msgr'[conn'[d].m].conns[conn'[d].peer] = d
    <3>1. CASE d = c
      BY <1>1, <1>2, <1>4, <2>2, <3>1
    <3>2. CASE d # c
      <4>1. /\ conn'[d] = conn[d] /\ conn[d].m \in Msgrs /\ conn[d].peer \in Peers
            /\ msgr[conn[d].m].conns[conn[d].peer] = d
        BY <1>2, <2>2, <3>2 DEF ConnInv, Registered, Made1
      <4> QED
        BY <1>1, <1>4, <4>1
    <3> QED
      BY <3>1, <3>2
  <2>3. ASSUME NEW n \in Msgrs, NEW d \in ConnIds, d \in msgr'[n].accepting
        PROVE  conn'[d].m = n /\ conn'[d].state = "ACCEPTING"
    <3>1. d \in msgr[n].accepting => conn[d].m = n /\ conn[d].state = "ACCEPTING"
      BY DEF ConnInv, Registered
    <3>2. d \in msgr[n].accepting \/ (n = m /\ d = c /\ K.state = "ACCEPTING")
      BY <1>1, <2>3
    <3> QED
      BY <1>2, <3>1, <3>2
  <2>4. ASSUME NEW n \in Msgrs, NEW p \in Peers, NEW d \in ConnIds, msgr'[n].conns[p] = d
        PROVE  /\ conn'[d].m = n /\ conn'[d].peer = p
               /\ conn'[d].state \in {"CONNECTING", "OPEN"}
    <3>1. msgr[n].conns[p] = d =>
             conn[d].m = n /\ conn[d].peer = p /\ conn[d].state \in {"CONNECTING", "OPEN"}
      BY DEF ConnInv, Registered
    <3>2. msgr[n].conns[p] = d \/ (n = m /\ d = c /\ p = K.peer /\ K.state = "CONNECTING")
      BY <1>1, <1>4, <2>4
    <3> QED
      BY <1>2, <3>1, <3>2
  <2> QED
    BY <2>1, <2>2, <2>3, <2>4 DEF Registered
<1>7. FitIn(events)'
  BY <1>2 DEF ConnInv, FitIn
<1>8. ReleaseIn(events, c)' /\ StopsIn(events, c)'
  <2>1. NotPosted(events, release(c))
    BY DEF ConnInv, ReleaseIn
  <2>2. ReleaseIn(events, c)'
    BY <1>2, <2>1 DEF ReleaseIn, release
  <2>3. ~Stale(c)'
    BY <1>2, <1>3 DEF Stale
  <2> QED
    BY <2>2, <2>3 DEF StopsIn
<1>9. ASSUME NEW d \in ConnIds, d # c PROVE ReleaseIn(events, d)' /\ StopsIn(events, d)'
  <2>1. ReleaseIn(events, d) /\ StopsIn(events, d) /\ conn'[d] = conn[d]
    BY <1>2, <1>9 DEF ConnInv
  <2>2. ReleaseIn(events, d)'
    BY <2>1 DEF ReleaseIn, release
  <2>3. Stale(d)' => Stale(d)
    BY <1>3, <2>1 DEF Stale, ConnInv, Made1
  <2> QED
    BY <2>1, <2>2, <2>3 DEF StopsIn, Queued, stop
<1> QED
  BY <1>1, <1>2, <1>5, <1>6, <1>7, <1>8, <1>9 DEF ConnInv

\* A connection opens: where it was connecting, or instead of being accepted.
LEMMA ConnOpens ==
    ASSUME Types, ConnInv, NEW c \in ConnIds, NEW m \in Msgrs, conn[c].m = m,
           conn' = [conn EXCEPT ![c].state = "OPEN"],
           events' = events, NEW R \in MsgrStates, msgr' = [msgr EXCEPT ![m] = R],
           R.gen = msgr[m].gen,
           \/ /\ conn[c].state = "CONNECTING" /\ R.conns = msgr[m].conns
              /\ R.accepting = msgr[m].accepting
           \/ /\ conn[c].state = "ACCEPTING" /\ msgr[m].conns[conn[c].peer] = None
              /\ R.conns = [msgr[m].conns EXCEPT ![conn[c].peer] = c]
              /\ R.accepting = msgr[m].accepting \ {c}
    PROVE  ConnInv' /\ msgr' \in [Msgrs -> MsgrStates] /\ conn' \in [ConnIds -> ConnStates]
<1>0. PICK k : k = conn[c]
  OBVIOUS
<1>0a. k \in ConnStates /\ k.peer \in Peers /\ k.worker \in Workers /\ k.m = m
       /\ k.gen <= msgr[m].gen
  BY <1>0 DEF ConnInv, Made1, Types
<1>0b. PICK K : K = [k EXCEPT !.state = "OPEN"]
  OBVIOUS
<1>0c. K \in ConnStates
  BY <1>0a, <1>0b DEF ConnStates
<1>0d. /\ K.state = "OPEN" /\ K.m = m /\ K.peer = k.peer /\ K.worker = k.worker
       /\ K.gen = k.gen /\ K.released = k.released /\ K.stopping = k.stopping
  BY <1>0a, <1>0b DEF ConnStates
<1>1. /\ msgr' \in [Msgrs -> MsgrStates] /\ msgr'[m] = R
      /\ \A n \in Msgrs : n # m => msgr'[n] = msgr[n]
  BY OneMsgr
<1>2. /\ conn' \in [ConnIds -> ConnStates] /\ conn'[c] = K
      /\ \A d \in ConnIds : d # c => conn'[d] = conn[d]
  <2>1. conn' = [conn EXCEPT ![c] = K]
    BY <1>0, <1>0b
  <2> QED
    BY <1>0c, <2>1 DEF Types
<1>3. \A n \in Msgrs : msgr'[n].gen = msgr[n].gen
  BY <1>1
<1>4. /\ msgr[m].conns \in [Peers -> ConnIds \cup {None}] /\ None \notin ConnIds
  BY ConstantsAssumption DEF Types, MsgrStates
<1>5. Made1'
  <2> SUFFICES ASSUME NEW d \in ConnIds
               PROVE  (IF conn[d].state = "NONE" THEN conn[d] = FreeConn
                       ELSE /\ conn[d].m \in Msgrs /\ conn[d].peer \in Peers
                            /\ conn[d].worker \in Workers
                            /\ conn[d].gen <= msgr[conn[d].m].gen)'
    BY DEF Made1
  <2>1. CASE d = c
    <3>1. /\ conn'[d].state = "OPEN" /\ conn'[d].m = m /\ conn'[d].peer \in Peers
          /\ conn'[d].worker \in Workers /\ conn'[d].gen = k.gen
      BY <1>0a, <1>0d, <1>2, <2>1
    <3>2. msgr'[m].gen = msgr[m].gen
      BY <1>3
    <3> QED
      BY <1>0a, <3>1, <3>2
  <2>2. CASE d # c
    BY <1>2, <1>3, <2>2 DEF ConnInv, Made1, FreeConn
  <2> QED
    BY <2>1, <2>2
<1>6. Registered'
  <2>1. ASSUME NEW d \in ConnIds, conn'[d].state = "ACCEPTING"
        PROVE  d \in msgr'[conn'[d].m].accepting
    <3>1. d # c
      BY <1>0d, <1>2, <2>1
    <3>2. conn'[d] = conn[d] /\ conn[d].m \in Msgrs /\ d \in msgr[conn[d].m].accepting
      BY <1>2, <2>1, <3>1 DEF ConnInv, Registered, Made1
    <3> QED
      BY <1>1, <3>1, <3>2
  <2>2. ASSUME NEW d \in ConnIds, conn'[d].state \in {"CONNECTING", "OPEN"}
        PROVE  msgr'[conn'[d].m].conns[conn'[d].peer] = d
    <3>1. CASE d = c
      <4>1. R.conns[k.peer] = c
        BY <1>0, <1>0a, <1>4 DEF ConnInv, Registered
      <4> QED
        BY <1>0d, <1>1, <1>2, <3>1, <4>1
    <3>2. CASE d # c
      <4>1. /\ conn'[d] = conn[d] /\ conn[d].m \in Msgrs /\ conn[d].peer \in Peers
            /\ msgr[conn[d].m].conns[conn[d].peer] = d
        BY <1>2, <2>2, <3>2 DEF ConnInv, Registered, Made1
      <4> QED
        BY <1>1, <1>4, <4>1
    <3> QED
      BY <3>1, <3>2
  <2>3. ASSUME NEW n \in Msgrs, NEW d \in ConnIds, d \in msgr'[n].accepting
        PROVE  conn'[d].m = n /\ conn'[d].state = "ACCEPTING"
    <3>1. d \in msgr[n].accepting
      BY <1>1, <2>3
    <3>2. conn[d].m = n /\ conn[d].state = "ACCEPTING"
      BY <3>1 DEF ConnInv, Registered
    <3>3. d # c
      BY <1>1, <2>3, <3>2
    <3> QED
      BY <1>2, <3>2, <3>3
  <2>4. ASSUME NEW n \in Msgrs, NEW p \in Peers, NEW d \in ConnIds, msgr'[n].conns[p] = d
        PROVE  /\ conn'[d].m = n /\ conn'[d].peer = p
               /\ conn'[d].state \in {"CONNECTING", "OPEN"}
    <3>1. msgr[n].conns[p] = d =>
             conn[d].m = n /\ conn[d].peer = p /\ conn[d].state \in {"CONNECTING", "OPEN"}
      BY DEF ConnInv, Registered
    <3>2. msgr[n].conns[p] = d \/ (n = m /\ d = c /\ p = k.peer)
      BY <1>0, <1>1, <1>4, <2>4
    <3> QED
      BY <1>0, <1>0d, <1>2, <3>1, <3>2
  <2> QED
    BY <2>1, <2>2, <2>3, <2>4 DEF Registered
<1>7. \A d \in ConnIds : conn[d].state # "NONE" => conn'[d].state # "NONE"
  BY <1>0d, <1>2
<1>8. FitIn(events)'
  BY <1>7 DEF ConnInv, FitIn
<1>9. ASSUME NEW d \in ConnIds PROVE ReleaseIn(events, d)' /\ StopsIn(events, d)'
  <2>1. /\ conn'[d].state = "CLOSED" <=> conn[d].state = "CLOSED"
        /\ conn'[d].released = conn[d].released /\ conn'[d].stopping = conn[d].stopping
        /\ conn'[d].worker = conn[d].worker /\ conn'[d].m = conn[d].m
        /\ conn'[d].gen = conn[d].gen
        /\ conn'[d].state = "NONE" <=> conn[d].state = "NONE"
    BY <1>0, <1>0a, <1>0d, <1>2
  <2>2. ReleaseIn(events, d) /\ StopsIn(events, d)
    BY DEF ConnInv
  <2>3. ReleaseIn(events, d)'
    BY <2>1, <2>2 DEF ReleaseIn, release
  <2>4. Stale(d)' => Stale(d)
    BY <1>3, <2>1 DEF Stale, ConnInv, Made1
  <2> QED
    BY <2>1, <2>2, <2>3, <2>4 DEF StopsIn, Queued, stop
<1> QED
  BY <1>1, <1>2, <1>5, <1>6, <1>8, <1>9 DEF ConnInv

\* Nothing has changed of a connection but that it may be stopping.
SameConn(k, K) ==
    /\ K.state = k.state /\ K.m = k.m /\ K.peer = k.peer /\ K.worker = k.worker
    /\ K.gen = k.gen /\ K.released = k.released /\ k.gen \in Nat

\* stop() of a connection.
LEMMA StoppingConn ==
    ASSUME Types, NEW c \in ConnIds, NEW K, K = [conn[c] EXCEPT !.stopping = TRUE]
    PROVE  K \in ConnStates /\ SameConn(conn[c], K) /\ K.stopping
<1>1. conn[c] \in ConnStates
  BY DEF Types
<1>2. K \in ConnStates
  BY <1>1 DEF ConnStates
<1> QED
  BY <1>1, <1>2 DEF ConnStates, SameConn

\* mark_down_all() does it to those it knows.
LEMMA MarkedConns ==
    ASSUME Types, NEW m \in Msgrs, mark_down_all(m)
    PROVE  \A c \in ConnIds : SameConn(conn[c], conn'[c]) /\ (c \in Known(m) => conn'[c].stopping)
<1> SUFFICES ASSUME NEW c \in ConnIds
             PROVE  SameConn(conn[c], conn'[c]) /\ (c \in Known(m) => conn'[c].stopping)
  OBVIOUS
<1>1. CASE c \in Known(m)
  <2>1. PICK K : K = conn'[c]
    OBVIOUS
  <2>2. K = [conn[c] EXCEPT !.stopping = TRUE]
    BY <1>1, <2>1, MarkDownAll
  <2> QED
    BY <2>1, <2>2, StoppingConn
<1>2. CASE c \notin Known(m)
  <2>1. conn'[c] = conn[c] /\ conn[c] \in ConnStates
    BY <1>2, MarkDownAll DEF Types
  <2> QED
    BY <1>2, <2>1 DEF SameConn, ConnStates
<1> QED
  BY <1>1, <1>2

\* Connections T are told to stop; a messenger whose connections become old ones
\* tells all of its own.
LEMMA ConnsMarked ==
    ASSUME Types, ConnInv, NEW T \in SUBSET ConnIds, \A c \in T : conn[c].state # "NONE",
           \A c \in ConnIds : SameConn(conn[c], conn'[c]),
           \A c \in ConnIds \ T : conn'[c] = conn[c], \A c \in T : conn'[c].stopping,
           Grown(events, events', {stop(c) : c \in T}),
           \A n \in Msgrs : /\ msgr'[n].conns = msgr[n].conns
                            /\ msgr'[n].accepting = msgr[n].accepting
                            /\ msgr[n].gen \in Nat /\ msgr'[n].gen \in Nat
                            /\ msgr'[n].gen >= msgr[n].gen,
           \A n \in Msgrs : msgr'[n].gen # msgr[n].gen =>
              \A c \in ConnIds : conn[c].m = n /\ conn[c].state \notin {"NONE", "CLOSED"} =>
                 c \in T /\ Queued(events', conn[c].worker, stop(c))
    PROVE  ConnInv' /\ StopsKept
<1>1. \A c \in ConnIds : SameConn(conn[c], conn'[c])
  OBVIOUS
<1>1a. \A c \in ConnIds : conn'[c].state = conn[c].state
  BY <1>1 DEF SameConn
<1>2. Made1'
  <2> SUFFICES ASSUME NEW d \in ConnIds
               PROVE  (IF conn[d].state = "NONE" THEN conn[d] = FreeConn
                       ELSE /\ conn[d].m \in Msgrs /\ conn[d].peer \in Peers
                            /\ conn[d].worker \in Workers
                            /\ conn[d].gen <= msgr[conn[d].m].gen)'
    BY DEF Made1
  <2>1. CASE conn[d].state = "NONE"
    <3>1. conn'[d] = conn[d] /\ conn[d] = FreeConn
      BY <2>1 DEF ConnInv, Made1
    <3> QED
      BY <3>1 DEF FreeConn
  <2>2. CASE conn[d].state # "NONE"
    <3>1. /\ conn[d].m \in Msgrs /\ conn[d].peer \in Peers
          /\ conn[d].worker \in Workers /\ conn[d].gen <= msgr[conn[d].m].gen
      BY <2>2 DEF ConnInv, Made1
    <3>2. msgr'[conn[d].m].gen >= msgr[conn[d].m].gen /\ msgr[conn[d].m].gen \in Nat
          /\ msgr'[conn[d].m].gen \in Nat
      BY <3>1
    <3>3. SameConn(conn[d], conn'[d])
      BY <1>1
    <3>4. conn'[d].gen <= msgr'[conn'[d].m].gen
      BY <3>1, <3>2, <3>3 DEF SameConn
    <3> QED
      BY <2>2, <3>1, <3>3, <3>4 DEF SameConn
  <2> QED
    BY <2>1, <2>2
<1>3. Registered'
  <2>1. \A c \in ConnIds : conn'[c].state = "ACCEPTING" => c \in msgr'[conn'[c].m].accepting
    BY <1>1 DEF ConnInv, Registered, Made1, SameConn
  <2>2. \A c \in ConnIds : conn'[c].state \in {"CONNECTING", "OPEN"} =>
                             msgr'[conn'[c].m].conns[conn'[c].peer] = c
    BY <1>1 DEF ConnInv, Registered, Made1, SameConn
  <2>3. \A m \in Msgrs : \A c \in ConnIds :
          c \in msgr'[m].accepting => conn'[c].m = m /\ conn'[c].state = "ACCEPTING"
    BY <1>1 DEF ConnInv, Registered, SameConn
  <2>4. \A m \in Msgrs : \A p \in Peers : \A c \in ConnIds :
          msgr'[m].conns[p] = c =>
              conn'[c].m = m /\ conn'[c].peer = p /\ conn'[c].state \in {"CONNECTING", "OPEN"}
    BY <1>1 DEF ConnInv, Registered, SameConn
  <2> QED
    BY <2>1, <2>2, <2>3, <2>4 DEF Registered
<1>4. FitIn(events)'
  <2> SUFFICES ASSUME NEW w \in Workers, NEW j \in DOMAIN events'[w],
                      events'[w][j].kind \in {"C_stop", "C_release"}
               PROVE  events'[w][j].arg \in ConnIds /\ conn'[events'[w][j].arg].state # "NONE"
    BY DEF FitIn
  <2>1. CASE j \in DOMAIN events[w]
    <3>1. events[w][j] = events'[w][j]
      BY <2>1 DEF Grown
    <3> QED
      BY <1>1a, <2>1, <3>1 DEF ConnInv, FitIn
  <2>2. CASE j \notin DOMAIN events[w]
    <3>1. PICK c \in T : events'[w][j] = stop(c)
      BY <2>2 DEF Grown
    <3> QED
      BY <1>1a, <3>1 DEF stop
  <2> QED
    BY <2>1, <2>2
<1>5. ASSUME NEW c \in ConnIds PROVE ReleaseIn(events, c)' /\ StopsIn(events, c)'
  <2>1. release(c) \notin {stop(d) : d \in T}
    BY DEF stop, release
  <2>2. Kept(events, events', release(c))
    BY <2>1, OthersGrown
  <2>3. ReleaseIn(events, c)'
    <3>1. ReleaseIn(events, c)
      BY DEF ConnInv
    <3> QED
      BY <1>1, <2>2, <3>1 DEF ReleaseIn, Kept, release, SameConn
  <2>4. ASSUME Stale(c)'
        PROVE  conn'[c].stopping /\ Queued(events', conn'[c].worker, stop(c))
    <3>1. /\ conn[c].state \notin {"NONE", "CLOSED"} /\ conn[c].m \in Msgrs
          /\ conn[c].worker \in Workers /\ conn[c].gen < msgr'[conn[c].m].gen
      BY <1>1, <2>4 DEF Stale, ConnInv, Made1, SameConn
    <3>2. CASE msgr'[conn[c].m].gen # msgr[conn[c].m].gen
      BY <1>1, <3>1, <3>2 DEF SameConn
    <3>3. CASE msgr'[conn[c].m].gen = msgr[conn[c].m].gen
      <4>1. conn[c].stopping /\ Queued(events, conn[c].worker, stop(c))
        BY <3>1, <3>3 DEF Stale, ConnInv, StopsIn
      <4>2. Queued(events', conn[c].worker, stop(c))
        BY <3>1, <4>1 DEF Queued, Grown
      <4>3. conn'[c].stopping
        BY <4>1
      <4> QED
        BY <1>1, <4>2, <4>3 DEF SameConn
    <3> QED
      BY <3>2, <3>3
  <2> QED
    BY <2>3, <2>4 DEF StopsIn, stop
<1>6. StopsKept
  <2>1. \A n : processor_stop(n) \notin {stop(d) : d \in T}
    BY DEF stop, processor_stop
  <2> QED
    BY <2>1, OthersGrown DEF StopsKept
<1> QED
  BY <1>2, <1>3, <1>4, <1>5, <1>6 DEF ConnInv

\* The connections a messenger knows were made, and are those that are not closed.
LEMMA KnownMade ==
    ASSUME Types, Made1, Registered, NEW m \in Msgrs
    PROVE  /\ \A c \in Known(m) : /\ conn[c].state \notin {"NONE", "CLOSED"} /\ conn[c].m = m
                                  /\ conn[c].worker \in Workers
           /\ \A c \in ConnIds : conn[c].m = m /\ conn[c].state \notin {"NONE", "CLOSED"} =>
                 c \in Known(m)
<1>1. ASSUME NEW c \in Known(m)
      PROVE  /\ conn[c].state \notin {"NONE", "CLOSED"} /\ conn[c].m = m
             /\ conn[c].worker \in Workers
  <2>1. c \in ConnIds /\ (c \in msgr[m].accepting \/ \E p \in Peers : msgr[m].conns[p] = c)
    BY KnownConns
  <2>2. conn[c].state \notin {"NONE", "CLOSED"} /\ conn[c].m = m
    BY <2>1 DEF Registered
  <2> QED
    BY <2>1, <2>2 DEF Made1
<1>2. ASSUME NEW c \in ConnIds, conn[c].m = m, conn[c].state \notin {"NONE", "CLOSED"}
      PROVE  c \in Known(m)
  <2>1. conn[c].state \in {"CONNECTING", "ACCEPTING", "OPEN"} /\ conn[c].peer \in Peers
    BY <1>2 DEF Types, ConnStates, Made1
  <2>2. c \in msgr[m].accepting \/ msgr[m].conns[conn[c].peer] = c
    BY <1>2, <2>1 DEF Registered
  <2> QED
    BY <2>1, <2>2, KnownConns
<1> QED
  BY <1>1, <1>2

\* mark_down_all() by the application.
LEMMA CallMarkDownAllStep ==
    ASSUME Inv, NEW t \in Threads, NEW m \in Msgrs, CallMarkDownAll(t, m)
    PROVE  Inv'
<1> USE DEF Inv
<1>1. /\ mark_down_all(m) /\ Return(t) /\ msgr' = msgr /\ start_lock' = start_lock
      /\ seq' = seq /\ barrier_count' = barrier_count
  BY DEF CallMarkDownAll, pool
<1>2. /\ pc[t].at = "idle"
      /\ script' \in [Threads -> Seq([call : CallNames, m : Msgrs, peer : Peers])]
  BY Began DEF CallMarkDownAll, Begins
<1>3. /\ pc' \in [Threads -> PcStates] /\ pc'[t].at = "idle"
      /\ \A u \in Threads : u # t => pc'[u] = pc[u]
  BY <1>1, Returned
<1>4. /\ conn' \in [ConnIds -> ConnStates] /\ Grown(events, events', {stop(c) : c \in Known(m)})
      /\ \A c \in ConnIds \ Known(m) : conn'[c] = conn[c]
      /\ Known(m) \in SUBSET ConnIds
      /\ \A c \in Known(m) : conn'[c] = [conn[c] EXCEPT !.stopping = TRUE]
  BY <1>1, MarkDownAll, KnownConns DEF StopsOf
<1>5a. \A c \in ConnIds : SameConn(conn[c], conn'[c]) /\ (c \in Known(m) => conn'[c].stopping)
  BY <1>1, MarkedConns
<1>5. \A c \in Known(m) : conn[c].state # "NONE"
  BY KnownMade DEF ConnInv
<1>6. \A n \in Msgrs : /\ msgr'[n].conns = msgr[n].conns
                       /\ msgr'[n].accepting = msgr[n].accepting
                       /\ msgr[n].gen \in Nat /\ msgr'[n].gen \in Nat
                       /\ msgr'[n].gen >= msgr[n].gen /\ msgr'[n].gen = msgr[n].gen
  BY <1>1 DEF Types, MsgrStates
<1>7. ConnInv' /\ StopsKept
  BY <1>4, <1>5, <1>5a, <1>6, ConnsMarked
<1>8. LocksKept
  BY <1>1, <1>2, <1>3, LocksStay DEF ProcInv, LockedAt, AfterStop, InBarrierAt
<1>9. ProcInv'
  BY <1>1, <1>7, <1>8, ProcFrame DEF SameProc
<1>10. Types'
  BY <1>1, <1>2, <1>3, <1>4 DEF Types, Grown
<1> QED
  BY <1>7, <1>9, <1>10

\* rebind() and shutdown() mark all down, when no worker can be in
\* Processor::accept(): every connection of before is told to stop.
LEMMA MarkAllDownStep ==
    ASSUME Inv, NEW t \in Threads, NEW m \in Msgrs, MarkAllDown(t, m)
    PROVE  Inv'
<1> USE DEF Inv
<1>1. /\ mark_down_all(m) /\ pc[t].at = "closed" /\ pc[t].m = m /\ start_lock' = start_lock
      /\ seq' = seq /\ barrier_count' = barrier_count /\ script' = script
      /\ msgr' = [SetFlags(m, {}, Unbinds(pc[t].call)) EXCEPT ![m].gen = @ + 1]
  BY DEF MarkAllDown, At, pool
<1>2. PICK where \in {"rebind", "barrier"} : Goto(t, where)
  BY DEF MarkAllDown
<1>3. /\ where \in Points /\ where \in AfterStop /\ "closed" \in AfterStop /\ "closed" \in LockedAt
  BY DEF Points, LockedAt, AfterStop, InBarrierAt
<1>4. /\ pc' \in [Threads -> PcStates] /\ pc'[t].at = where /\ pc'[t].m = pc[t].m
      /\ \A u \in Threads : u # t => pc'[u] = pc[u]
  BY <1>2, <1>3, Moved
<1>5. /\ conn' \in [ConnIds -> ConnStates] /\ Grown(events, events', {stop(c) : c \in Known(m)})
      /\ \A c \in ConnIds \ Known(m) : conn'[c] = conn[c]
      /\ Known(m) \in SUBSET ConnIds
      /\ \A c \in Known(m) : conn'[c] = [conn[c] EXCEPT !.stopping = TRUE]
  <2>1. /\ conn' \in [ConnIds -> ConnStates] /\ Grown(events, events', StopsOf(m))
        /\ \A c \in ConnIds :
              /\ c \notin Known(m) => conn'[c] = conn[c]
              /\ c \in Known(m) => conn'[c] = [conn[c] EXCEPT !.stopping = TRUE]
    BY <1>1, MarkDownAll, Zenon
  <2>2. Known(m) \subseteq ConnIds
    BY KnownConns
  <2> QED
    BY <2>1, <2>2, Zenon DEF StopsOf
<1>5a. \A c \in ConnIds : SameConn(conn[c], conn'[c]) /\ (c \in Known(m) => conn'[c].stopping)
  BY <1>1, MarkedConns
<1>6. /\ \A c \in Known(m) : conn[c].state \notin {"NONE", "CLOSED"} /\ conn[c].worker \in Workers
      /\ \A c \in ConnIds : conn[c].m = m /\ conn[c].state \notin {"NONE", "CLOSED"} => c \in Known(m)
  BY KnownMade DEF ConnInv
<1>7. \A c \in Known(m) : Queued(events', conn[c].worker, stop(c))
  BY <1>1, <1>6, MarkDownAll
<1>8. PICK Q \in MsgrStates :
         /\ SetFlags(m, {}, Unbinds(pc[t].call)) = [msgr EXCEPT ![m] = Q]
         /\ SameRegs(msgr[m], Q) /\ SameProc(msgr[m], Q)
  <2>1. {} \in SUBSET Flags
    OBVIOUS
  <2>2. PICK off : off = Unbinds(pc[t].call)
    OBVIOUS
  <2>3. \E Q \in MsgrStates :
           /\ SetFlags(m, {}, off) = [msgr EXCEPT ![m] = Q]
           /\ SameRegs(msgr[m], Q) /\ SameProc(msgr[m], Q)
    BY <2>1, FlagsSet
  <2> QED
    BY <2>2, <2>3
<1>9. PICK R : R = [Q EXCEPT !.gen = Q.gen + 1]
  OBVIOUS
<1>10. Q.gen \in Nat /\ Q.gen = msgr[m].gen /\ Q.gen + 1 \in Nat
  BY <1>8 DEF MsgrStates, SameRegs
<1>11. R \in MsgrStates
  BY <1>9, <1>10 DEF MsgrStates
<1>12. /\ R.conns = msgr[m].conns /\ R.accepting = msgr[m].accepting
       /\ R.gen = msgr[m].gen + 1 /\ SameProc(msgr[m], R)
  BY <1>8, <1>9, <1>10, <1>11 DEF MsgrStates, SameRegs, SameProc
<1>13. msgr' = [msgr EXCEPT ![m] = R]
  BY <1>1, <1>8, <1>9 DEF Types
<1>14. /\ msgr' \in [Msgrs -> MsgrStates] /\ msgr'[m] = R
       /\ \A n \in Msgrs : n # m => msgr'[n] = msgr[n]
  BY <1>11, <1>13, OneMsgr
<1>15. \A n \in Msgrs : /\ msgr'[n].conns = msgr[n].conns
                        /\ msgr'[n].accepting = msgr[n].accepting
                        /\ msgr[n].gen \in Nat /\ msgr'[n].gen \in Nat
                        /\ msgr'[n].gen >= msgr[n].gen
  <2>1. \A n \in Msgrs : msgr[n].gen \in Nat
    BY DEF Types, MsgrStates
  <2>2. \A n \in Msgrs : /\ msgr'[n].conns = msgr[n].conns
                         /\ msgr'[n].accepting = msgr[n].accepting
                         /\ msgr'[n].gen = msgr[n].gen \/ msgr'[n].gen = msgr[n].gen + 1
    BY <1>12, <1>14
  <2> QED
    BY <2>1, <2>2
<1>16. \A n \in Msgrs : msgr'[n].gen # msgr[n].gen =>
          \A c \in ConnIds : conn[c].m = n /\ conn[c].state \notin {"NONE", "CLOSED"} =>
             c \in Known(m) /\ Queued(events', conn[c].worker, stop(c))
  BY <1>6, <1>7, <1>14
<1>17. ConnInv' /\ StopsKept
  BY <1>5, <1>5a, <1>6, <1>15, <1>16, ConnsMarked
<1>18. LocksKept
  BY <1>1, <1>3, <1>4, LocksStay DEF ProcInv
<1>19. Locking'
  <2>1. \A n \in Msgrs : /\ msgr'[n].listen = msgr[n].listen /\ msgr'[n].worker = msgr[n].worker
                         /\ msgr'[n].stopped = msgr[n].stopped /\ msgr'[n].ev_read = msgr[n].ev_read
    BY <1>12, <1>14 DEF SameProc
  <2> SUFFICES ASSUME NEW u \in Threads, pc'[u].at \in LockedAt
               PROVE  (/\ pc[u].m \in Msgrs /\ start_lock[pc[u].m] = u
                       /\ pc[u].at = "listening" =>
                             /\ msgr[pc[u].m].listen /\ msgr[pc[u].m].worker # -1
                             /\ msgr[pc[u].m].stopped => ~msgr[pc[u].m].ev_read
                       /\ pc[u].at \in AfterStop =>
                             ~msgr[pc[u].m].listen /\ msgr[pc[u].m].worker = -1)'
    BY DEF Locking
  <2>2. /\ pc[u].at \in LockedAt /\ pc'[u].m = pc[u].m
        /\ pc'[u].at = "listening" => pc[u].at = "listening"
        /\ pc'[u].at \in AfterStop => pc[u].at \in AfterStop
    BY <1>18 DEF LocksKept, LockedAt
  <2> QED
    BY <1>1, <2>1, <2>2 DEF ProcInv, Locking
<1>20. msgr[m].accepted = -1
  BY <1>1, <1>3 DEF ProcInv, Locking, Accepts
<1>21. Accepts'
  BY <1>12, <1>14, <1>20 DEF ProcInv, Accepts, SameProc
<1>22. StopsOnce'
  <2>1. \A u \in Threads : pc[u].at = "listening" => pc'[u] = pc[u]
    BY <1>1, <1>4
  <2>2. NotPosted(events, processor_stop(m))
    <3>1. msgr[m].worker \notin Workers
      BY <1>1, <1>3 DEF ProcInv, Locking, Workers
    <3> QED
      BY <3>1 DEF ProcInv, StopsOnce, StopsOne, PostedOnce
  <2>3. StopsOne(m)'
    BY <1>17, <2>2 DEF StopsKept, Kept, StopsOne, processor_stop
  <2> QED
    BY <1>14, <1>17, <2>1, <2>3, OneProcessor DEF ProcInv, StopsKept
<1>23. Types'
  BY <1>1, <1>4, <1>5, <1>14 DEF Types, Grown
<1> QED
  BY <1>17, <1>19, <1>21, <1>22, <1>23 DEF ProcInv

\* mark_down() of a registered connection.
LEMMA MarkDownStep ==
    ASSUME Inv, NEW t \in Threads, NEW m \in Msgrs, mark_down(t, m)
    PROVE  Inv'
<1> USE DEF Inv
<1>1. /\ msgr' = msgr /\ start_lock' = start_lock /\ seq' = seq
      /\ barrier_count' = barrier_count
  BY DEF mark_down, pool
<1>2. /\ pc[t].at = "idle"
      /\ script' \in [Threads -> Seq([call : CallNames, m : Msgrs, peer : Peers])]
      /\ Head(script[t]) \in [call : CallNames, m : Msgrs, peer : Peers]
  BY Began DEF mark_down, Begins
<1>3. PICK c : c = msgr[m].conns[Head(script[t]).peer]
  OBVIOUS
<1>4. "idle" \notin LockedAt /\ "closing" \notin LockedAt /\ barrier_count \in Int
  BY DEF Types, LockedAt, AfterStop, InBarrierAt
<1>5. CASE c = None
  <2>1. Return(t) /\ conn' = conn /\ events' = events
    BY <1>3, <1>5 DEF mark_down
  <2>2. /\ pc' \in [Threads -> PcStates] /\ pc'[t].at = "idle"
        /\ \A u \in Threads : u # t => pc'[u] = pc[u]
    BY <2>1, Returned
  <2> QED
    BY <1>1, <1>2, <1>4, <2>1, <2>2, QuietMove
<1>6. CASE c # None
  <2>1. Head(script[t]).peer \in Peers /\ msgr[m].conns \in [Peers -> ConnIds \cup {None}]
    BY <1>2 DEF Types, MsgrStates
  <2>2. c \in ConnIds
    BY <1>3, <1>6, <2>1
  <2>3. PICK k \in ConnStates : k = conn[c]
    BY <2>2 DEF Types
  <2>4. PICK K : K = [k EXCEPT !.stopping = TRUE]
    BY Zenon
  <2>5. PICK P : P = [Idle EXCEPT !.at = "closing", !.m = m, !.c = c]
    OBVIOUS
  <2>5a. /\ conn' = [conn EXCEPT ![c] = K] /\ pc' = [pc EXCEPT ![t] = P]
         /\ events' = Post(events, conn[c].worker, "C_stop", c)
    <3> DEFINE d == msgr[m].conns[Head(script[t]).peer]
    <3>1. /\ conn' = [conn EXCEPT ![d].stopping = TRUE]
          /\ pc' = [pc EXCEPT ![t] = [Idle EXCEPT !.at = "closing", !.m = m, !.c = d]]
          /\ events' = Post(events, conn[d].worker, "C_stop", d)
      BY <1>3, <1>6, Zenon DEF mark_down
    <3>1a. d = c
      BY <1>3
    <3> HIDE DEF d
    <3>2. conn' = [conn EXCEPT ![c] = K]
      BY <2>3, <2>4, <3>1, <3>1a, Zenon
    <3>3. pc' = [pc EXCEPT ![t] = P] /\ events' = Post(events, conn[c].worker, "C_stop", c)
      BY <2>5, <3>1, <3>1a, Zenon
    <3> QED
      BY <3>2, <3>3
  <2>6. conn[c].state # "NONE" /\ conn[c].worker \in Workers
    BY <1>3, <2>1, <2>2 DEF ConnInv, Registered, Made1
  <2>7. K \in ConnStates /\ SameConn(conn[c], K) /\ K.stopping
    BY <2>2, <2>3, <2>4, StoppingConn
  <2>8. P \in PcStates /\ P.at = "closing"
    BY <2>2, <2>5 DEF Idle, PcStates, Points
  <2>9. /\ pc' \in [Threads -> PcStates] /\ pc'[t] = P
        /\ \A u \in Threads : u # t => pc'[u] = pc[u]
    BY <2>5a, <2>8, OnePc
  <2>10. /\ conn' \in [ConnIds -> ConnStates] /\ conn'[c] = K
         /\ \A d \in ConnIds \ {c} : conn'[d] = conn[d]
    BY <2>2, <2>5a, <2>7 DEF Types
  <2>11. \A d \in ConnIds : SameConn(conn[d], conn'[d])
    BY <2>7, <2>10 DEF SameConn, Types, ConnStates
  <2>12. stop(c) \in Events
    BY <2>2 DEF stop, Events
  <2>13. Added(events, events', conn[c].worker, stop(c))
    BY <2>5a, <2>6, <2>12, PostAdds DEF stop, Types
  <2>14. Grown(events, events', {stop(d) : d \in {c}})
    BY <2>13 DEF Added, Grown
  <2>15. \A n \in Msgrs : /\ msgr'[n].conns = msgr[n].conns
                          /\ msgr'[n].accepting = msgr[n].accepting
                          /\ msgr[n].gen \in Nat /\ msgr'[n].gen \in Nat
                          /\ msgr'[n].gen >= msgr[n].gen /\ msgr'[n].gen = msgr[n].gen
    BY <1>1 DEF Types, MsgrStates
  <2>16. ConnInv' /\ StopsKept
    <3>1. {c} \in SUBSET ConnIds /\ (\A d \in {c} : conn[d].state # "NONE" /\ conn'[d].stopping)
      BY <2>2, <2>6, <2>7, <2>10
    <3> QED
      BY <2>10, <2>11, <2>14, <2>15, <3>1, ConnsMarked
  <2>17. LocksKept
    BY <1>1, <1>2, <1>4, <2>8, <2>9, LocksStay DEF ProcInv
  <2>18. ProcInv'
    BY <1>1, <2>16, <2>17, ProcFrame DEF SameProc
  <2>19. Types'
    BY <1>1, <1>2, <2>9, <2>10, <2>14 DEF Types, Grown
  <2> QED
    BY <2>16, <2>18, <2>19
<1> QED
  BY <1>5, <1>6

\* get_connection() finds a connection or makes one.
LEMMA GetConnectionStep ==
    ASSUME Inv, NEW t \in Threads, NEW m \in Msgrs, get_connection(t, m)
    PROVE  Inv'
<1> USE DEF Inv
<1>1. /\ start_lock' = start_lock /\ events' = events /\ barrier_count' = barrier_count
      /\ Return(t)
  BY DEF get_connection
<1>2. /\ pc[t].at = "idle"
      /\ script' \in [Threads -> Seq([call : CallNames, m : Msgrs, peer : Peers])]
      /\ Head(script[t]) \in [call : CallNames, m : Msgrs, peer : Peers]
  BY Began DEF get_connection, Begins
<1>3. /\ pc' \in [Threads -> PcStates] /\ pc'[t].at = "idle"
      /\ \A u \in Threads : u # t => pc'[u] = pc[u]
  BY <1>1, Returned
<1>4. "idle" \notin LockedAt /\ barrier_count \in Int
  BY DEF Types, LockedAt, AfterStop, InBarrierAt
<1>5. CASE seq' = seq /\ conn' = conn /\ msgr' = msgr
  BY <1>1, <1>2, <1>3, <1>4, <1>5, QuietMove
<1>6. CASE msgr[m].conns[Head(script[t]).peer] = None
  <2>0. PICK peer \in Peers : peer = Head(script[t]).peer
    BY <1>2
  <2>1. PICK c \in FreeId :
           /\ seq' = get_worker /\ conn' = NewConn(c, m, peer, "CONNECTING", get_worker)
           /\ msgr' = [msgr EXCEPT ![m].conns[peer] = c]
    BY <1>6, <2>0 DEF get_connection
  <2>2. c \in ConnIds /\ conn[c].state = "NONE"
    BY DEF FreeId
  <2>3. get_worker \in Workers /\ get_worker \in Nat /\ msgr[m] \in MsgrStates /\ msgr[m].gen \in Nat
        /\ msgr[m].conns \in [Peers -> ConnIds \cup {None}]
    BY WorkerChosen DEF Types, MsgrStates
  <2>4. PICK K : K = [FreeConn EXCEPT !.state = "CONNECTING", !.m = m, !.peer = peer,
                                      !.worker = get_worker, !.gen = msgr[m].gen]
    OBVIOUS
  <2>5. /\ K \in ConnStates /\ K.m = m /\ K.peer = peer /\ K.worker \in Workers
        /\ K.gen = msgr[m].gen /\ K.released = 0 /\ K.state = "CONNECTING"
    BY <2>3, <2>4 DEF FreeConn, ConnStates
  <2>6. conn' = [conn EXCEPT ![c] = K]
    BY <2>1, <2>4 DEF NewConn
  <2>7. PICK R : R = [msgr[m] EXCEPT !.conns = [msgr[m].conns EXCEPT ![peer] = c]]
    OBVIOUS
  <2>8. R \in MsgrStates
    BY <2>2, <2>3, <2>7 DEF MsgrStates
  <2>9. /\ R.conns = [msgr[m].conns EXCEPT ![peer] = c] /\ R.accepting = msgr[m].accepting
        /\ R.gen = msgr[m].gen /\ SameProc(msgr[m], R)
    BY <2>3, <2>7 DEF MsgrStates, SameProc
  <2>10. msgr' = [msgr EXCEPT ![m] = R]
    BY <2>1, <2>7
  <2>11. ConnInv' /\ msgr' \in [Msgrs -> MsgrStates] /\ conn' \in [ConnIds -> ConnStates]
    <3>1. /\ K.peer \in Peers /\ msgr[m].conns[K.peer] = None
          /\ R.conns = [msgr[m].conns EXCEPT ![K.peer] = c]
      BY <1>6, <2>0, <2>5, <2>9
    <3> QED
      BY <1>1, <2>2, <2>5, <2>6, <2>8, <2>9, <2>10, <3>1, ConnMade
  <2>12. \A n \in Msgrs : SameProc(msgr[n], msgr'[n]) /\ msgr'[n].gen = msgr[n].gen
    <3>1. msgr'[m] = R /\ \A n \in Msgrs : n # m => msgr'[n] = msgr[n]
      BY <2>8, <2>10, OneMsgr
    <3> QED
      BY <2>9, <3>1 DEF SameProc
  <2>13. LocksKept
    BY <1>1, <1>2, <1>3, <1>4, LocksStay DEF ProcInv
  <2>14. StopsKept
    BY <1>1 DEF StopsKept, Kept
  <2>15. ProcInv'
    BY <2>12, <2>13, <2>14, ProcFrame
  <2>16. Types'
    BY <1>1, <1>2, <1>3, <2>1, <2>3, <2>11 DEF Types
  <2> QED
    BY <2>11, <2>15, <2>16
<1> QED
  BY <1>5, <1>6 DEF get_connection

\* add_accept(): the socket is of the present time.
LEMMA AddAcceptStep ==
    ASSUME Inv, NEW m \in Msgrs, add_accept(m)
    PROVE  Inv'
<1> USE DEF Inv
<1>1. /\ start_lock' = start_lock /\ events' = events /\ barrier_count' = barrier_count
      /\ pc' = pc /\ script' = script /\ msgr[m].accepted # -1
  BY DEF add_accept
<1>2. PICK c \in FreeId, peer \in Peers :
         /\ seq' = get_worker
         /\ conn' = [NewConn(c, m, peer, "ACCEPTING", get_worker) EXCEPT
                        ![c].gen = msgr[m].accepted]
         /\ msgr' = [msgr EXCEPT ![m].accepting = @ \cup {c}, ![m].accepted = -1]
  BY DEF add_accept
<1>3. c \in ConnIds /\ conn[c].state = "NONE"
  BY DEF FreeId
<1>4. /\ get_worker \in Workers /\ get_worker \in Nat /\ msgr[m] \in MsgrStates
      /\ msgr[m].gen \in Nat /\ msgr[m].accepting \cup {c} \in SUBSET ConnIds
  BY <1>3, WorkerChosen DEF Types, MsgrStates
<1>5. msgr[m].accepted = msgr[m].gen
  BY <1>1 DEF ProcInv, Accepts
<1>6. PICK K : K = [FreeConn EXCEPT !.state = "ACCEPTING", !.m = m, !.peer = peer,
                                    !.worker = get_worker, !.gen = msgr[m].gen]
  OBVIOUS
<1>7. /\ K \in ConnStates /\ K.m = m /\ K.peer = peer /\ K.worker \in Workers
      /\ K.gen = msgr[m].gen /\ K.released = 0 /\ K.state = "ACCEPTING"
  BY <1>4, <1>6 DEF FreeConn, ConnStates
<1>8. conn' = [conn EXCEPT ![c] = K]
  <2>1. NewConn(c, m, peer, "ACCEPTING", get_worker) = [conn EXCEPT ![c] = K]
    BY <1>6 DEF NewConn
  <2>2. [K EXCEPT !.gen = msgr[m].accepted] = K
    BY <1>5, <1>7 DEF ConnStates
  <2> QED
    BY <1>2, <1>3, <2>1, <2>2 DEF Types
<1>9. PICK R : R = [msgr[m] EXCEPT !.accepting = msgr[m].accepting \cup {c}, !.accepted = -1]
  OBVIOUS
<1>10. R \in MsgrStates
  BY <1>4, <1>9 DEF MsgrStates
<1>11. /\ R.accepting = msgr[m].accepting \cup {c} /\ R.conns = msgr[m].conns
       /\ R.gen = msgr[m].gen /\ R.listen = msgr[m].listen /\ R.worker = msgr[m].worker
       /\ R.stopped = msgr[m].stopped /\ R.ev_read = msgr[m].ev_read /\ R.accepted = -1
  BY <1>4, <1>9 DEF MsgrStates
<1>12. msgr' = [msgr EXCEPT ![m] = R]
  BY <1>2, <1>9 DEF Types
<1>13. ConnInv' /\ msgr' \in [Msgrs -> MsgrStates] /\ conn' \in [ConnIds -> ConnStates]
  BY <1>1, <1>3, <1>7, <1>8, <1>10, <1>11, <1>12, ConnMade
<1>14. msgr'[m] = R /\ \A n \in Msgrs : n # m => msgr'[n] = msgr[n]
  BY <1>10, <1>12, OneMsgr
<1>15. \A n \in Msgrs : /\ msgr'[n].listen = msgr[n].listen /\ msgr'[n].worker = msgr[n].worker
                        /\ msgr'[n].stopped = msgr[n].stopped /\ msgr'[n].ev_read = msgr[n].ev_read
  BY <1>11, <1>14
<1>16. Locking'
  BY <1>1, <1>15 DEF ProcInv, Locking
<1>17. Accepts'
  BY <1>11, <1>14 DEF ProcInv, Accepts
<1>18. StopsOnce'
  BY <1>1, <1>15 DEF ProcInv, StopsOnce, StopsOne, NotPosted, PostedOnce, processor_stop
<1>19. Types'
  BY <1>1, <1>2, <1>4, <1>13 DEF Types
<1> QED
  BY <1>13, <1>16, <1>17, <1>18, <1>19 DEF ProcInv

\* _accept_conn(): the connection opens, or is stopped for another one.
LEMMA AcceptConnStep ==
    ASSUME Inv, NEW c \in ConnIds, _accept_conn(c)
    PROVE  Inv'
<1> USE DEF Inv
<1>1. /\ start_lock' = start_lock /\ seq' = seq /\ barrier_count' = barrier_count
      /\ pc' = pc /\ script' = script /\ conn[c].state = "ACCEPTING"
  BY DEF _accept_conn, pool
<1>2. PICK m \in Msgrs : m = conn[c].m
  BY <1>1 DEF ConnInv, Made1
<1>3. PICK p \in Peers : p = conn[c].peer
  BY <1>1 DEF ConnInv, Made1
<1>4. LocksKept
  BY <1>1 DEF LocksKept
<1>5. CASE msgr[m].conns[p] = None
  <2>1. /\ msgr' = [msgr EXCEPT ![m].accepting = @ \ {c}, ![m].conns[p] = c]
        /\ conn' = [conn EXCEPT ![c].state = "OPEN"] /\ events' = events
    BY <1>2, <1>3, <1>5 DEF _accept_conn
  <2>2. PICK R : R = [msgr[m] EXCEPT !.accepting = msgr[m].accepting \ {c},
                                     !.conns = [msgr[m].conns EXCEPT ![p] = c]]
    OBVIOUS
  <2>3. /\ msgr[m] \in MsgrStates /\ msgr[m].accepting \ {c} \in SUBSET ConnIds
        /\ [msgr[m].conns EXCEPT ![p] = c] \in [Peers -> ConnIds \cup {None}]
    BY DEF Types, MsgrStates
  <2>4. R \in MsgrStates
    BY <2>2, <2>3 DEF MsgrStates
  <2>5. /\ R.accepting = msgr[m].accepting \ {c} /\ R.conns = [msgr[m].conns EXCEPT ![p] = c]
        /\ R.gen = msgr[m].gen /\ SameProc(msgr[m], R)
    BY <2>2, <2>3, <2>4 DEF MsgrStates, SameProc
  <2>6. msgr' = [msgr EXCEPT ![m] = R]
    <3>1. [msgr EXCEPT ![m].accepting = @ \ {c}, ![m].conns[p] = c]
             = [msgr EXCEPT ![m] = [[msgr[m] EXCEPT !.accepting = @ \ {c}] EXCEPT !.conns[p] = c]]
      BY DEF Types
    <3>2. [[msgr[m] EXCEPT !.accepting = @ \ {c}] EXCEPT !.conns[p] = c] = R
      BY <2>2, <2>3 DEF MsgrStates
    <3> QED
      BY <2>1, <3>1, <3>2
  <2>7. ConnInv' /\ msgr' \in [Msgrs -> MsgrStates] /\ conn' \in [ConnIds -> ConnStates]
    <3>1. /\ msgr[m].conns[conn[c].peer] = None /\ conn[c].m = m /\ conn[c].state = "ACCEPTING"
          /\ R.conns = [msgr[m].conns EXCEPT ![conn[c].peer] = c]
          /\ R.accepting = msgr[m].accepting \ {c} /\ R.gen = msgr[m].gen
      BY <1>1, <1>2, <1>3, <1>5, <2>5
    <3>2. conn' = [conn EXCEPT ![c].state = "OPEN"] /\ events' = events
      BY <2>1
    <3> QED
      BY <2>4, <2>6, <3>1, <3>2, ConnOpens, Zenon
  <2>8. \A n \in Msgrs : SameProc(msgr[n], msgr'[n]) /\ msgr'[n].gen = msgr[n].gen
    <3>1. msgr'[m] = R /\ \A n \in Msgrs : n # m => msgr'[n] = msgr[n]
      BY <2>4, <2>6, OneMsgr
    <3> QED
      BY <2>5, <3>1 DEF SameProc
  <2>9. StopsKept
    BY <2>1 DEF StopsKept, Kept
  <2>10. ProcInv'
    BY <1>4, <2>8, <2>9, ProcFrame
  <2>11. Types'
    BY <1>1, <2>1, <2>7 DEF Types
  <2> QED
    BY <2>7, <2>10, <2>11
<1>6. CASE msgr[m].conns[p] # None
  <2>1. _stop(c, events)
    BY <1>2, <1>3, <1>6 DEF _accept_conn
  <2>2. events \in [Workers -> Seq(Events)] /\ conn[c].state # "NONE"
    BY <1>1 DEF Types
  <2>3. /\ ConnInv' /\ msgr' \in [Msgrs -> MsgrStates] /\ conn' \in [ConnIds -> ConnStates]
        /\ events' \in [Workers -> Seq(Events)]
        /\ \A n \in Msgrs : SameProc(msgr[n], msgr'[n]) /\ msgr'[n].gen = msgr[n].gen
        /\ \A n \in Msgrs : Kept(events, events', processor_stop(n))
    BY <2>1, <2>2, StopConn DEF ConnInv
  <2>4. ProcInv'
    BY <1>4, <2>3, ProcFrame DEF StopsKept
  <2>5. Types'
    BY <1>1, <2>3 DEF Types
  <2> QED
    BY <2>3, <2>4, <2>5
<1> QED
  BY <1>5, <1>6

\* A connection that was made here opens.
LEMMA ConnectDoneStep ==
    ASSUME Inv, NEW c \in ConnIds, ConnectDone(c)
    PROVE  Inv'
<1> USE DEF Inv
<1>1. /\ start_lock' = start_lock /\ seq' = seq /\ barrier_count' = barrier_count
      /\ pc' = pc /\ script' = script /\ events' = events /\ conn[c].state = "CONNECTING"
      /\ conn' = [conn EXCEPT ![c].state = "OPEN"]
  BY DEF ConnectDone, pool
<1>2. PICK m \in Msgrs : m = conn[c].m
  BY <1>1 DEF ConnInv, Made1
<1>3. LocksKept
  BY <1>1 DEF LocksKept
<1>4. PICK R \in MsgrStates : /\ msgr' = [msgr EXCEPT ![m] = R]
                              /\ SameRegs(msgr[m], R) /\ SameProc(msgr[m], R)
  <2>1. CASE msgr' = msgr
    BY <2>1 DEF Types, SameRegs, SameProc
  <2>2. CASE msgr' = [SetFlags(m, {}, {"need_addr"}) EXCEPT ![m] = init_local_connection(@)]
    <3>1. {} \in SUBSET Flags
      OBVIOUS
    <3>2. PICK Q \in MsgrStates :
             /\ SetFlags(m, {}, {"need_addr"}) = [msgr EXCEPT ![m] = Q]
             /\ SameRegs(msgr[m], Q) /\ SameProc(msgr[m], Q)
      BY <3>1, FlagsSet
    <3>3. PICK R : R = [Q EXCEPT !.local_up = TRUE]
      OBVIOUS
    <3>4. R \in MsgrStates
      BY <3>3 DEF MsgrStates
    <3>5. SameRegs(msgr[m], R) /\ SameProc(msgr[m], R)
      BY <3>2, <3>3 DEF MsgrStates, SameRegs, SameProc
    <3>6. msgr' = [msgr EXCEPT ![m] = R]
      BY <2>2, <3>2, <3>3 DEF init_local_connection, Types
    <3> QED
      BY <3>4, <3>5, <3>6
  <2> QED
    BY <1>2, <2>1, <2>2 DEF ConnectDone
<1>5. R.gen = msgr[m].gen /\ R.conns = msgr[m].conns /\ R.accepting = msgr[m].accepting
  BY <1>4 DEF SameRegs
<1>6. ConnInv' /\ msgr' \in [Msgrs -> MsgrStates] /\ conn' \in [ConnIds -> ConnStates]
  BY <1>1, <1>2, <1>4, <1>5, ConnOpens
<1>7. \A n \in Msgrs : SameProc(msgr[n], msgr'[n]) /\ msgr'[n].gen = msgr[n].gen
  BY <1>4, OtherMsgrs DEF SameRegs
<1>8. StopsKept
  BY <1>1 DEF StopsKept, Kept
<1>9. ProcInv'
  BY <1>3, <1>7, <1>8, ProcFrame
<1>10. Types'
  BY <1>1, <1>6 DEF Types
<1> QED
  BY <1>6, <1>9, <1>10

\* The worker handles C_stop.
LEMMA StopEvent ==
    ASSUME Inv, NEW w \in Workers, DoRequest(w), Head(events[w]).kind = "C_stop"
    PROVE  Inv'
<1> USE DEF Inv
<1>1. PICK ev : ev = [events EXCEPT ![w] = Tail(@)]
  OBVIOUS
<1>2. PICK c : c = Head(events[w]).arg
  OBVIOUS
<1>3. /\ start_lock' = start_lock /\ seq' = seq /\ script' = script /\ events[w] # <<>>
      /\ barrier_count' = barrier_count /\ pc' = pc /\ _stop(c, ev)
  BY <1>1, <1>2 DEF DoRequest
<1>4. Taken(events, ev, w) /\ ev \in [Workers -> Seq(Events)]
  BY <1>1, <1>3, TakeTakes DEF Types, Taken
<1>5. 1 \in DOMAIN events[w] /\ Head(events[w]) = events[w][1] /\ Head(events[w]) \in Events
  BY <1>4 DEF Taken
<1>6. c \in ConnIds /\ conn[c].state # "NONE"
  BY <1>2, <1>5 DEF ConnInv, FitIn
<1>7. events[w][1] = stop(c)
  BY <1>2, <1>5 DEF Events, stop
<1>8. /\ \A d : stop(c) # release(d) /\ stop(c) # processor_stop(d)
      /\ \A d : d # c => stop(c) # stop(d)
  BY DEF stop, release, processor_stop
<1>9. FitIn(ev)
  <2> SUFFICES ASSUME NEW v \in Workers, NEW k \in DOMAIN ev[v],
                      ev[v][k].kind \in {"C_stop", "C_release"}
               PROVE  ev[v][k].arg \in ConnIds /\ conn[ev[v][k].arg].state # "NONE"
    BY DEF FitIn
  <2>1. PICK j \in DOMAIN events[v] : events[v][j] = ev[v][k]
    <3>1. CASE v = w
      BY <1>4, <3>1 DEF Taken
    <3>2. CASE v # w
      BY <1>4, <3>2 DEF Taken
    <3> QED
      BY <3>1, <3>2
  <2> QED
    BY <2>1 DEF ConnInv, FitIn
<1>10. \A d \in ConnIds : ReleaseIn(ev, d) /\ (d # c => StopsIn(ev, d))
  <2> SUFFICES ASSUME NEW d \in ConnIds PROVE ReleaseIn(ev, d) /\ (d # c => StopsIn(ev, d))
    OBVIOUS
  <2>1. Kept(events, ev, release(d))
    BY <1>4, <1>7, <1>8, OtherTaken
  <2>2. ReleaseIn(ev, d)
    BY <2>1 DEF ConnInv, ReleaseIn, Kept
  <2>3. ASSUME d # c PROVE StopsIn(ev, d)
    <3>1. Kept(events, ev, stop(d))
      BY <1>4, <1>7, <1>8, <2>3, OtherTaken
    <3>2. Stale(d) => conn[d].worker \in Workers
      BY DEF Stale, ConnInv, Made1
    <3> QED
      BY <3>1, <3>2 DEF ConnInv, StopsIn, Kept
  <2> QED
    BY <2>2, <2>3
<1>11. /\ ConnInv' /\ msgr' \in [Msgrs -> MsgrStates] /\ conn' \in [ConnIds -> ConnStates]
       /\ events' \in [Workers -> Seq(Events)]
       /\ \A n \in Msgrs : SameProc(msgr[n], msgr'[n]) /\ msgr'[n].gen = msgr[n].gen
       /\ \A n \in Msgrs : Kept(ev, events', processor_stop(n))
  BY <1>3, <1>4, <1>6, <1>9, <1>10, StopConn DEF ConnInv
<1>12. StopsKept
  <2>1. \A n \in Msgrs : Kept(events, ev, processor_stop(n))
    BY <1>4, <1>7, <1>8, OtherTaken
  <2> QED
    BY <1>11, <2>1 DEF StopsKept, Kept
<1>13. ProcInv'
  BY <1>3, <1>11, <1>12, ProcFrame DEF LocksKept
<1>14. Types'
  BY <1>3, <1>11 DEF Types
<1> QED
  BY <1>11, <1>13, <1>14

\* The worker handles C_release: the reference is dropped, and no other event for it
\* is left.
LEMMA ReleaseEvent ==
    ASSUME Inv, NEW w \in Workers, DoRequest(w), Head(events[w]).kind = "C_release"
    PROVE  Inv'
<1> USE DEF Inv
<1>2. PICK c : c = Head(events[w]).arg
  OBVIOUS
<1>3. /\ start_lock' = start_lock /\ seq' = seq /\ script' = script /\ events[w] # <<>>
      /\ barrier_count' = barrier_count /\ pc' = pc /\ msgr' = msgr
      /\ events' = [events EXCEPT ![w] = Tail(@)]
      /\ conn' = [conn EXCEPT ![c].released = @ + 1]
  BY <1>2 DEF DoRequest
<1>4. Taken(events, events', w) /\ events' \in [Workers -> Seq(Events)]
  BY <1>3, TakeTakes DEF Types, Taken
<1>5. 1 \in DOMAIN events[w] /\ Head(events[w]) = events[w][1] /\ Head(events[w]) \in Events
  BY <1>4 DEF Taken
<1>6. c \in ConnIds /\ conn[c].state # "NONE"
  BY <1>2, <1>5 DEF ConnInv, FitIn
<1>7. events[w][1] = release(c)
  BY <1>2, <1>5 DEF Events, release
<1>8. /\ \A d : release(c) # stop(d) /\ release(c) # processor_stop(d)
      /\ \A d : d # c => release(c) # release(d)
  BY DEF stop, release, processor_stop
<1>9. PICK k \in ConnStates : k = conn[c]
  BY <1>6 DEF Types
<1>10. PICK K : K = [k EXCEPT !.released = k.released + 1]
  OBVIOUS
<1>11. k.released + 1 \in Nat
  BY DEF ConnStates
<1>12. K \in ConnStates
  BY <1>10, <1>11 DEF ConnStates
<1>13. /\ K.state = k.state /\ K.m = k.m /\ K.peer = k.peer /\ K.worker = k.worker
       /\ K.gen = k.gen /\ K.stopping = k.stopping /\ K.released = k.released + 1
  BY <1>10, <1>11 DEF ConnStates
<1>14. /\ conn' \in [ConnIds -> ConnStates] /\ conn'[c] = K
       /\ \A d \in ConnIds : d # c => conn'[d] = conn[d]
  BY <1>3, <1>6, <1>9, <1>10, <1>12 DEF Types
<1>15. \A d \in ConnIds : /\ conn'[d].state = conn[d].state /\ conn'[d].m = conn[d].m
                          /\ conn'[d].peer = conn[d].peer /\ conn'[d].worker = conn[d].worker
                          /\ conn'[d].gen = conn[d].gen /\ conn'[d].stopping = conn[d].stopping
  BY <1>9, <1>13, <1>14
<1>16. Made1'
  <2> SUFFICES ASSUME NEW d \in ConnIds
               PROVE  (IF conn[d].state = "NONE" THEN conn[d] = FreeConn
                       ELSE /\ conn[d].m \in Msgrs /\ conn[d].peer \in Peers
                            /\ conn[d].worker \in Workers
                            /\ conn[d].gen <= msgr[conn[d].m].gen)'
    BY DEF Made1
  <2>1. CASE conn[d].state = "NONE"
    BY <1>6, <1>14, <2>1 DEF ConnInv, Made1, FreeConn
  <2>2. CASE conn[d].state # "NONE"
    BY <1>3, <1>15, <2>2 DEF ConnInv, Made1
  <2> QED
    BY <2>1, <2>2
<1>17. Registered'
  BY <1>3, <1>15 DEF ConnInv, Registered
<1>18. FitIn(events)'
  <2> SUFFICES ASSUME NEW v \in Workers, NEW j \in DOMAIN events'[v],
                      events'[v][j].kind \in {"C_stop", "C_release"}
               PROVE  events'[v][j].arg \in ConnIds /\ conn'[events'[v][j].arg].state # "NONE"
    BY DEF FitIn
  <2>1. PICK i \in DOMAIN events[v] : events[v][i] = events'[v][j]
    <3>1. CASE v = w
      BY <1>4, <3>1 DEF Taken
    <3>2. CASE v # w
      BY <1>4, <3>2 DEF Taken
    <3> QED
      BY <3>1, <3>2
  <2> QED
    BY <1>15, <2>1 DEF ConnInv, FitIn
<1>19. ReleaseIn(events, c)'
  <2>1. ~NotPosted(events, release(c))
    BY <1>5, <1>7 DEF NotPosted
  <2>2. conn[c].state = "CLOSED" /\ conn[c].released = 0 /\ PostedOnce(events, release(c))
    BY <1>6, <2>1 DEF ConnInv, ReleaseIn
  <2>3. NotPosted(events', release(c))
    BY <1>4, <1>7, <2>2, ThisTaken
  <2>4. conn'[c].state = "CLOSED" /\ conn'[c].released = 1
    BY <1>9, <1>13, <1>14, <2>2
  <2> QED
    BY <2>3, <2>4 DEF ReleaseIn, release
<1>20. ASSUME NEW d \in ConnIds, d # c PROVE ReleaseIn(events, d)'
  <2>1. Kept(events, events', release(d)) /\ conn'[d] = conn[d] /\ ReleaseIn(events, d)
    BY <1>4, <1>7, <1>8, <1>14, <1>20, OtherTaken DEF ConnInv
  <2> QED
    BY <2>1 DEF ReleaseIn, Kept, release
<1>21. ASSUME NEW d \in ConnIds PROVE StopsIn(events, d)'
  <2>1. Kept(events, events', stop(d))
    BY <1>4, <1>7, <1>8, OtherTaken
  <2>2. Stale(d)' => Stale(d) /\ conn[d].worker \in Workers
    BY <1>3, <1>15 DEF Stale, ConnInv, Made1
  <2> QED
    BY <1>15, <2>1, <2>2 DEF ConnInv, StopsIn, Kept, stop
<1>22. ConnInv'
  BY <1>16, <1>17, <1>18, <1>19, <1>20, <1>21 DEF ConnInv
<1>23. StopsKept
  BY <1>4, <1>7, <1>8, OtherTaken DEF StopsKept
<1>24. ProcInv'
  BY <1>3, <1>23, ProcFrame DEF LocksKept, SameProc
<1>25. Types'
  BY <1>3, <1>4, <1>14 DEF Types
<1> QED
  BY <1>22, <1>24, <1>25

\* A worker handles its oldest event.
LEMMA DoRequestStep ==
    ASSUME Inv, NEW w \in Workers, DoRequest(w)
    PROVE  Inv'
<1>1. CASE Head(events[w]).kind = "C_stop"
  BY <1>1, StopEvent
<1>2. CASE Head(events[w]).kind = "C_release"
  BY <1>2, ReleaseEvent
<1>3. CASE Head(events[w]).kind = "C_ProcessorStop"
  BY <1>3, ProcessorStopEvent
<1>4. CASE Head(events[w]).kind = "C_barrier"
  <2>1. /\ start_lock' = start_lock /\ seq' = seq /\ script' = script /\ events[w] # <<>>
        /\ barrier_count' = barrier_count - 1 /\ pc' = Signalled /\ msgr' = msgr
        /\ conn' = conn /\ events' = [events EXCEPT ![w] = Tail(@)]
    BY <1>4 DEF DoRequest
  <2>2. Taken(events, events', w)
    BY <2>1, TakeTakes DEF Inv, Types
  <2>3. events[w][1].kind = "C_barrier"
    BY <1>4, <2>2 DEF Taken
  <2> QED
    BY <2>1, <2>2, <2>3, BarrierEvent
<1> QED
  BY <1>1, <1>2, <1>3, <1>4 DEF DoRequest

\* Every step keeps the invariant.
LEMMA NextStep ==
    ASSUME Inv, [Next]_vars
    PROVE  Inv'
<1>1. CASE UNCHANGED vars
  <2>1. /\ msgr' = msgr /\ conn' = conn /\ events' = events /\ start_lock' = start_lock
        /\ pc' = pc /\ script' = script /\ seq' = seq /\ barrier_count' = barrier_count
    BY <1>1 DEF vars
  <2>2. LocksKept
    BY <2>1 DEF LocksKept
  <2>3. ConnInv' /\ ProcInv'
    BY <2>1, <2>2, PlainStep DEF Inv, SameRegs, SameProc
  <2>4. Types'
    BY <2>1 DEF Inv, Types
  <2> QED
    BY <2>3, <2>4 DEF Inv
<1>2. ASSUME NEW t \in Threads, NEW m \in Msgrs, Goes(t, m) PROVE Inv'
  BY <1>2, ReadyStep, ProcessorStoppedStep, MarkAllDownStep, ReboundStep, BarrierPostStep,
     PlainGoes DEF Goes
<1>3. ASSUME NEW t \in Threads, NEW m \in Msgrs, MakesCall(t, m) PROVE Inv'
  BY <1>3, BindStep, PlainCalls, StopCalls, GetConnectionStep, MarkDownStep,
     CallMarkDownAllStep DEF MakesCall
<1>4. ASSUME NEW m \in Msgrs, accept(m) \/ add_accept(m) \/ DispatchEnds(m) PROVE Inv'
  BY <1>4, AcceptStep, AddAcceptStep, DispatchEndsStep
<1>5. ASSUME NEW c \in ConnIds, _accept_conn(c) \/ ConnectDone(c) PROVE Inv'
  BY <1>5, AcceptConnStep, ConnectDoneStep
<1>6. ASSUME NEW w \in Workers, DoRequest(w) PROVE Inv'
  BY <1>6, DoRequestStep
<1> QED
  BY <1>1, <1>2, <1>3, <1>4, <1>5, <1>6 DEF Next

\* It holds when the process starts.
LEMMA InitInv ==
    ASSUME Init
    PROVE  Inv
<1>0. None \notin ConnIds
  BY ConstantsAssumption
<1>1. NewMsgr \in MsgrStates
  BY DEF NewMsgr, MsgrStates, Flags
<1>2. FreeConn \in ConnStates
  BY DEF FreeConn, ConnStates
<1>3. Idle \in PcStates
  BY DEF Idle, PcStates, Points
<1>4. /\ \A m \in Msgrs : msgr[m] = NewMsgr
      /\ \A c \in ConnIds : conn[c] = FreeConn
      /\ \A t \in Threads : pc[t] = Idle
      /\ \A w \in Workers : events[w] = <<>>
  BY DEF Init
<1>5. Types
  <2>1. script \in [Threads -> Seq([call : CallNames, m : Msgrs, peer : Peers])]
    BY ConstantsAssumption DEF Init
  <2>2. events \in [Workers -> Seq(Events)]
    BY DEF Init
  <2>3. msgr \in [Msgrs -> MsgrStates] /\ conn \in [ConnIds -> ConnStates]
        /\ pc \in [Threads -> PcStates]
    BY <1>1, <1>2, <1>3 DEF Init
  <2>4. start_lock \in [Msgrs -> Threads \cup {None}] /\ seq \in Nat /\ barrier_count \in Int
    BY DEF Init
  <2> QED
    BY <2>1, <2>2, <2>3, <2>4 DEF Types
<1>6. \A e : NotPosted(events, e)
  BY <1>4 DEF NotPosted
<1>7. ConnInv
  <2>1. FreeConn.state = "NONE" /\ FreeConn.released = 0
    BY DEF FreeConn
  <2>2. Made1
    BY <1>4, <2>1 DEF Made1
  <2>3. NewMsgr.accepting = {} /\ \A p \in Peers : NewMsgr.conns[p] = None
    BY DEF NewMsgr
  <2>4. Registered
    BY <1>0, <1>4, <2>1, <2>3 DEF Registered
  <2>5. FitIn(events)
    BY <1>4 DEF FitIn
  <2>6. \A c \in ConnIds : ReleaseIn(events, c) /\ StopsIn(events, c)
    BY <1>4, <1>6, <2>1 DEF ReleaseIn, StopsIn, Stale
  <2> QED
    BY <2>2, <2>4, <2>5, <2>6 DEF ConnInv
<1>8. ProcInv
  <2>1. Idle.at \notin LockedAt
    BY DEF Idle, LockedAt, AfterStop, InBarrierAt
  <2>2. Locking
    BY <1>4, <2>1 DEF Locking
  <2>3. Accepts
    BY <1>4 DEF Accepts, NewMsgr
  <2>4. StopsOnce
    BY <1>6 DEF StopsOnce, StopsOne
  <2> QED
    BY <2>2, <2>3, <2>4 DEF ProcInv
<1> QED
  BY <1>5, <1>7, <1>8 DEF Inv

-----------------------------------------------------------------------------
(***************************************************************************)
(* The theorems.                                                           *)
(***************************************************************************)
\* Connections are registered until they are closed, the workers' references to them
\* are accounted for, and Processor::stop() and the worker that accepts agree.
THEOREM ConnectionsInvariant == Spec => []Inv
<1>1. Init => Inv
  BY InitInv
<1>2. Inv /\ [Next]_vars => Inv'
  BY NextStep
<1> QED
  BY <1>1, <1>2, PTL DEF Spec

\* After rebind() or shutdown() no connection of before is left that has not been
\* told to stop, although Processor::accept() registers connections in a worker while
\* the caller only holds start_lock.
THEOREM OldConnectionsToldToStop == Spec => []OldConnectionsStop
<1>1. Inv => OldConnectionsStop
  <2> SUFFICES ASSUME Inv, NEW c \in ConnIds, conn[c].m # None,
                      conn[c].gen < msgr[conn[c].m].gen, conn[c].state # "CLOSED"
               PROVE  conn[c].stopping
    BY DEF OldConnectionsStop
  <2>1. conn[c].state # "NONE"
    BY DEF Inv, ConnInv, Made1, FreeConn
  <2>2. Stale(c)
    BY <2>1 DEF Stale
  <2> QED
    BY <2>2 DEF Inv, ConnInv, StopsIn
<1> QED
  BY <1>1, ConnectionsInvariant, PTL

\* C_release is posted at most once for a connection, by the step that closes it, so
\* the workers' reference is dropped exactly once.
THEOREM ReferencesDroppedOnce == Spec => []ReleasedOnce
<1>1. ASSUME Inv, NEW c \in ConnIds, NEW W,
             W = {p \in UNION {{w} \X DOMAIN events[w] : w \in Workers} :
                    events[p[1]][p[2]] = [kind |-> "C_release", arg |-> c]}
      PROVE  conn[c].released + Cardinality(W) = IF conn[c].state = "CLOSED" THEN 1 ELSE 0
  <2>1. ReleaseIn(events, c)
    BY <1>1 DEF Inv, ConnInv
  <2>2. \A p : p \in W <=> \E w \in Workers : \E k \in DOMAIN events[w] :
                              p = <<w, k>> /\ events[w][k] = release(c)
    <3>1. \A p : p \in UNION {{w} \X DOMAIN events[w] : w \in Workers} <=>
                   \E w \in Workers : \E k \in DOMAIN events[w] : p = <<w, k>>
      OBVIOUS
    <3> QED
      BY <1>1, <3>1 DEF release
  <2>3. ASSUME NotPosted(events, release(c)) PROVE Cardinality(W) = 0
    <3>1. W = {}
      BY <2>2, <2>3 DEF NotPosted
    <3> QED
      BY <3>1, FS_EmptySet
  <2>4. ASSUME PostedOnce(events, release(c)) PROVE Cardinality(W) = 1
    <3>1. PICK w \in Workers : \E k \in DOMAIN events[w] :
             /\ events[w][k] = release(c)
             /\ \A v \in Workers : \A j \in DOMAIN events[v] :
                   events[v][j] = release(c) => v = w /\ j = k
      BY <2>4 DEF PostedOnce
    <3>2. PICK k \in DOMAIN events[w] :
             /\ events[w][k] = release(c)
             /\ \A v \in Workers : \A j \in DOMAIN events[v] :
                   events[v][j] = release(c) => v = w /\ j = k
      BY <3>1
    <3>3. \A p : p \in W <=> p = <<w, k>>
      BY <2>2, <3>2
    <3>4. W = {<<w, k>>}
      BY <3>3
    <3> QED
      BY <3>4, FS_Singleton
  <2>5. CASE conn[c].state = "CLOSED"
    BY <2>1, <2>3, <2>4, <2>5 DEF ReleaseIn
  <2>6. CASE conn[c].state # "CLOSED"
    BY <2>1, <2>3, <2>6 DEF ReleaseIn
  <2> QED
    BY <2>5, <2>6
<1>2. Inv => ReleasedOnce
  BY <1>1 DEF ReleasedOnce
<1> QED
  BY <1>2, ConnectionsInvariant, PTL

-----------------------------------------------------------------------------
(***************************************************************************)
(* shutdown() leaves nothing behind: the theorem about ShutdownComplete,   *)
(* on top of the invariant above.                                          *)
(*                                                                         *)
(* mark_down_all() posts C_stop for every connection, and barrier() then   *)
(* posts C_barrier to every worker; a worker handles its events in order,  *)
(* so when barrier_count is back at zero every C_stop was handled.  That   *)
(* barrier_count tells this needs that each barrier() is alone: while two  *)
(* overlap one may be let go by the events of the other.                   *)
(***************************************************************************)

(***************************************************************************)
(* The barrier.                                                            *)
(***************************************************************************)
\* Thread t has posted C_barrier events, to the workers below Posted(t).
Active(t) == pc[t].at \in InBarrierAt /\ (pc[t].at = "barrier" => pc[t].i > 0)
Posted(t) == IF pc[t].at = "inc" THEN pc[t].i + 1 ELSE pc[t].i

\* Worker w has at most one C_barrier to handle.
Single(ev, w) ==
    \A j, k \in DOMAIN ev[w] : ev[w][j] = barrier /\ ev[w][k] = barrier => j = k

\* It has a C_stop of connection c, and C_barrier after it.
Ordered(ev, w, c) ==
    \E j, k \in DOMAIN ev[w] : j < k /\ ev[w][j] = stop(c) /\ ev[w][k] = barrier

\* The workers that have still to come to the barrier, and the thread that has
\* posted an event it has not counted yet.
Pending == {w \in Workers : Queued(events, w, barrier)}
Uncounted == {t \in Threads : pc[t].at = "inc"}

LoopBounds ==
    \A t \in Threads :
        /\ pc[t].at \in {"barrier", "inc"} => pc[t].i < NumWorkers
        /\ pc[t].at \in {"barrier_wait", "barrier_sleep"} => pc[t].i = NumWorkers
        /\ pc[t].at \in {"closed", "listening"} => pc[t].i = 0

\* As long as no two barriers overlap, barrier_count is the number of workers that
\* have still to come to the barrier.
Barriers ==
    ~overlap =>
        /\ \A t, u \in Threads : Active(t) /\ Active(u) => t = u
        /\ \A w \in Workers : Single(events, w)
        /\ \A w \in Pending : \E t \in Threads : Active(t) /\ w < Posted(t)
        /\ Cardinality(Pending) = barrier_count + (IF Uncounted = {} THEN 0 ELSE 1)

\* The barrier follows the events by which old connections stop.
StopsFirst ==
    ~overlap =>
        \A t \in Threads : \A c \in ConnIds :
            Active(t) /\ Stale(c) /\ conn[c].m = pc[t].m /\ conn[c].worker < Posted(t) =>
                Ordered(events, conn[c].worker, c)

LoopInv == LoopBounds /\ Barriers /\ StopsFirst

-----------------------------------------------------------------------------
(***************************************************************************)
(* Messengers that are shut down.                                          *)
(***************************************************************************)
\* shutdown() has marked all connections down, or is over.
ShutAt == InBarrierAt \cup {"finish"}
Shut(m) == msgr[m].stop \/ \E t \in Threads : pc[t].at \in ShutAt /\ pc[t].m = m

\* A thread that shuts m down and has not marked the connections down yet.
Shutting(t, m) ==
    pc[t].at \in {"listening", "closed"} /\ pc[t].m = m /\ pc[t].call = "shutdown"

\* Nothing is bound then and nothing was accepted since; the calls that would
\* change this do nothing.
ShutDown(m) ==
    /\ Shut(m) =>
          /\ "did_bind" \notin msgr[m].flags
          /\ "started" \in msgr[m].flags /\ "shutdown_called" \in msgr[m].flags
          /\ ~msgr[m].listen /\ msgr[m].worker = -1
          /\ \A c \in ConnIds : conn[c].m = m /\ conn[c].state = "ACCEPTING" =>
                conn[c].gen # msgr[m].gen
    /\ msgr[m].stop => \A t \in Threads : pc[t].at \in LockedAt => pc[t].m # m
    /\ \A t \in Threads : Shutting(t, m) =>
          "started" \in msgr[m].flags /\ "shutdown_called" \in msgr[m].flags

\* The threads of the dispatch queue.
Queues(m) ==
    /\ "dispatcher" \notin msgr[m].flags =>
          msgr[m].dispatch = "none" /\ msgr[m].local = "none" /\ ~msgr[m].stop
    /\ msgr[m].local = "running" => msgr[m].dispatch = "running" /\ ~msgr[m].stop
    /\ msgr[m].dispatch = "none" => ~msgr[m].stop /\ msgr[m].local = "none"
    /\ \A t \in Threads : pc[t].at = "relock" /\ pc[t].m = m =>
          "dispatcher" \in msgr[m].flags /\ msgr[m].dispatch = "none"

\* The connections of before are closed when shutdown() has passed its barrier, and
\* the local connection comes back only with a connection made since.
Passed(m) == msgr[m].stop \/ \E t \in Threads : pc[t].at = "finish" /\ pc[t].m = m

Closed(m) ==
    ~overlap =>
        /\ Passed(m) => \A c \in ConnIds : conn[c].m = m => ~Stale(c)
        /\ msgr[m].stop /\ msgr[m].local_up =>
              \E c \in ConnIds : conn[c].m = m /\ conn[c].gen = msgr[m].gen

Status(m) == ShutDown(m) /\ Queues(m) /\ Closed(m)

ShutInv == LoopInv /\ \A m \in Msgrs : Status(m)

SInv == Inv /\ ShutInv

-----------------------------------------------------------------------------
(***************************************************************************)
(* Queues of events.                                                       *)
(***************************************************************************)
\* What the barrier needs of the queues is the same in ev and in ev2.
KeptLoop(ev, ev2) ==
    \A w \in Workers : /\ Single(ev, w) => Single(ev2, w)
                       /\ Queued(ev2, w, barrier) <=> Queued(ev, w, barrier)

KeptOrder(ev, ev2, c) == \A w \in Workers : Ordered(ev, w, c) => Ordered(ev2, w, c)

\* Events other than C_barrier are added at the end.
LEMMA GrownLoop ==
    ASSUME NEW ev, NEW ev2, NEW S, barrier \notin S, Grown(ev, ev2, S)
    PROVE  KeptLoop(ev, ev2) /\ \A c : KeptOrder(ev, ev2, c)
<1>1. ASSUME NEW w \in Workers PROVE Queued(ev2, w, barrier) <=> Queued(ev, w, barrier)
  BY OthersGrown DEF Kept
<1>2. ASSUME NEW w \in Workers, Single(ev, w) PROVE Single(ev2, w)
  <2>1. \A k \in DOMAIN ev2[w] : ev2[w][k] = barrier =>
           k \in DOMAIN ev[w] /\ ev[w][k] = barrier
    BY DEF Grown
  <2> QED
    BY <1>2, <2>1 DEF Single
<1>3. ASSUME NEW c, NEW w \in Workers, Ordered(ev, w, c) PROVE Ordered(ev2, w, c)
  <2>1. \A k \in DOMAIN ev[w] : k \in DOMAIN ev2[w] /\ ev2[w][k] = ev[w][k]
    BY DEF Grown
  <2>2. PICK j, k \in DOMAIN ev[w] : j < k /\ ev[w][j] = stop(c) /\ ev[w][k] = barrier
    BY <1>3 DEF Ordered
  <2> QED
    BY <2>1, <2>2 DEF Ordered
<1> QED
  BY <1>1, <1>2, <1>3 DEF KeptLoop, KeptOrder

\* One event other than C_barrier is.
LEMMA AddedLoop ==
    ASSUME NEW ev, NEW ev2, NEW w \in Workers, NEW e, e # barrier, Added(ev, ev2, w, e)
    PROVE  KeptLoop(ev, ev2) /\ \A c : KeptOrder(ev, ev2, c)
<1>1. Grown(ev, ev2, {e}) /\ barrier \notin {e}
  BY DEF Added, Grown
<1> QED
  BY <1>1, GrownLoop

\* An event other than C_barrier is handled.
LEMMA TakenLoop ==
    ASSUME NEW ev, NEW ev2, NEW w \in Workers, ev[w][1] # barrier, Taken(ev, ev2, w)
    PROVE  KeptLoop(ev, ev2) /\ \A c : ev[w][1] # stop(c) => KeptOrder(ev, ev2, c)
<1>1. ASSUME NEW v \in Workers PROVE Queued(ev2, v, barrier) <=> Queued(ev, v, barrier)
  BY OtherTaken DEF Kept
<1>2. ASSUME NEW v \in Workers, Single(ev, v) PROVE Single(ev2, v)
  <2>1. CASE v = w
    <3> SUFFICES ASSUME NEW j \in DOMAIN ev2[w], NEW k \in DOMAIN ev2[w],
                        ev2[w][j] = barrier, ev2[w][k] = barrier
                 PROVE  j = k
      BY <2>1 DEF Single
    <3>1. /\ j \in Nat /\ k \in Nat /\ j + 1 \in DOMAIN ev[w] /\ k + 1 \in DOMAIN ev[w]
          /\ ev[w][j + 1] = barrier /\ ev[w][k + 1] = barrier
      BY DEF Taken
    <3>2. j + 1 = k + 1
      BY <1>2, <2>1, <3>1 DEF Single
    <3> QED
      BY <3>1, <3>2
  <2>2. CASE v # w
    BY <1>2, <2>2 DEF Taken, Single
  <2> QED
    BY <2>1, <2>2
<1>3. ASSUME NEW c, ev[w][1] # stop(c), NEW v \in Workers, Ordered(ev, v, c)
      PROVE  Ordered(ev2, v, c)
  <2>1. CASE v = w
    <3>1. PICK j, k \in DOMAIN ev[w] : j < k /\ ev[w][j] = stop(c) /\ ev[w][k] = barrier
      BY <1>3, <2>1 DEF Ordered
    <3>2. j # 1 /\ k # 1 /\ j \in Nat /\ k \in Nat
      BY <1>3, <3>1 DEF Taken
    <3>3. /\ j - 1 \in DOMAIN ev2[w] /\ ev2[w][j - 1] = stop(c)
          /\ k - 1 \in DOMAIN ev2[w] /\ ev2[w][k - 1] = barrier
      BY <3>1, <3>2 DEF Taken
    <3>4. j - 1 < k - 1
      BY <3>1, <3>2
    <3> QED
      BY <2>1, <3>3, <3>4 DEF Ordered
  <2>2. CASE v # w
    BY <1>3, <2>2 DEF Taken, Ordered
  <2> QED
    BY <2>1, <2>2
<1> QED
  BY <1>1, <1>2, <1>3 DEF KeptLoop, KeptOrder

\* Nothing is.
LEMMA SameLoop ==
    ASSUME events' = events
    PROVE  KeptLoop(events, events') /\ \A c : KeptOrder(events, events', c)
BY DEF KeptLoop, KeptOrder

-----------------------------------------------------------------------------
(***************************************************************************)
(* Steps that are not about the barrier.                                   *)
(***************************************************************************)
\* Every thread is where it was in barrier().
LoopSame ==
    \A t \in Threads : /\ Active(t)' <=> Active(t)
                       /\ Active(t) => pc'[t].m = pc[t].m /\ Posted(t)' = Posted(t)
                       /\ pc'[t].at = "inc" <=> pc[t].at = "inc"

\* Connection c did not become an old one, and what was ordered before still is.
StaysStale(c) ==
    Stale(c)' => /\ Stale(c) /\ conn'[c].m = conn[c].m /\ conn'[c].worker = conn[c].worker
                 /\ KeptOrder(events, events', c)

\* The invariant of the loop stays.
LEMMA LoopFrame ==
    ASSUME Made1, LoopInv, LoopBounds', LoopSame, overlap' = overlap,
           barrier_count' = barrier_count, KeptLoop(events, events'),
           \A t \in Threads : \A c \in ConnIds :
              Active(t) /\ conn'[c].m = pc[t].m => StaysStale(c)
    PROVE  LoopInv'
<1>1. Barriers'
  <2> SUFFICES ASSUME ~overlap PROVE Barriers'
    BY DEF Barriers
  <2>1. \A t, u \in Threads : Active(t)' /\ Active(u)' => t = u
    BY DEF LoopInv, Barriers, LoopSame
  <2>2. \A w \in Workers : Single(events', w)
    BY DEF LoopInv, Barriers, KeptLoop
  <2>3. Pending' = Pending
    BY DEF Pending, KeptLoop
  <2>4. Uncounted' = Uncounted
    BY DEF Uncounted, LoopSame
  <2>5. \A w \in Pending' : \E t \in Threads : Active(t)' /\ w < Posted(t)'
    <3> SUFFICES ASSUME NEW w \in Pending PROVE \E t \in Threads : Active(t)' /\ w < Posted(t)'
      BY <2>3
    <3>1. PICK t \in Threads : Active(t) /\ w < Posted(t)
      BY DEF LoopInv, Barriers
    <3>2. Active(t)' /\ Posted(t)' = Posted(t)
      BY <3>1 DEF LoopSame
    <3> QED
      BY <3>1, <3>2
  <2>6. Cardinality(Pending) = barrier_count + (IF Uncounted = {} THEN 0 ELSE 1)
    BY DEF LoopInv, Barriers
  <2>7. Cardinality(Pending') = barrier_count' + (IF Uncounted' = {} THEN 0 ELSE 1)
    BY <2>3, <2>4, <2>6
  <2> QED
    BY <2>1, <2>2, <2>5, <2>7 DEF Barriers
<1>2. StopsFirst'
  <2> SUFFICES ASSUME ~overlap, NEW t \in Threads, NEW c \in ConnIds, Active(t)', Stale(c)',
                      conn'[c].m = pc'[t].m, conn'[c].worker < Posted(t)'
               PROVE  Ordered(events', conn'[c].worker, c)
    BY DEF StopsFirst
  <2>1. Active(t) /\ pc'[t].m = pc[t].m /\ Posted(t)' = Posted(t)
    BY DEF LoopSame
  <2>2. /\ Stale(c) /\ conn'[c].m = conn[c].m /\ conn'[c].worker = conn[c].worker
        /\ KeptOrder(events, events', c)
    BY <2>1 DEF StaysStale
  <2>3. conn[c].worker \in Workers
    BY <2>2 DEF Made1, Stale
  <2>4. Ordered(events, conn[c].worker, c)
    BY <2>1, <2>2 DEF LoopInv, StopsFirst
  <2> QED
    BY <2>2, <2>3, <2>4 DEF KeptOrder
<1> QED
  BY <1>1, <1>2 DEF LoopInv

\* Thread t moves, outside barrier().
LEMMA ThreadLoop ==
    ASSUME LoopBounds, NEW t \in Threads, \A u \in Threads : u # t => pc'[u] = pc[u],
           pc[t].at \notin InBarrierAt, pc'[t].at \notin InBarrierAt,
           pc'[t].at \in {"closed", "listening"} => pc'[t].i = 0
    PROVE  LoopSame /\ LoopBounds'
<1>1. LoopSame
  <2> SUFFICES ASSUME NEW u \in Threads
               PROVE  /\ Active(u)' <=> Active(u)
                      /\ Active(u) => pc'[u].m = pc[u].m /\ Posted(u)' = Posted(u)
                      /\ pc'[u].at = "inc" <=> pc[u].at = "inc"
    BY DEF LoopSame
  <2>1. CASE u = t
    BY <2>1 DEF Active, InBarrierAt
  <2>2. CASE u # t
    BY <2>2 DEF Active, Posted
  <2> QED
    BY <2>1, <2>2
<1>2. LoopBounds'
  BY DEF LoopBounds, InBarrierAt
<1> QED
  BY <1>1, <1>2

\* No thread moves.
LEMMA NoThreadLoop ==
    ASSUME LoopBounds, pc' = pc
    PROVE  LoopSame /\ LoopBounds'
BY DEF LoopSame, LoopBounds, Active, Posted

\* Connections stay as they are, and so does the time of their messengers.
LEMMA ConnsStay ==
    ASSUME conn' = conn, \A n \in Msgrs : msgr'[n].gen = msgr[n].gen, Made1,
           NEW c \in ConnIds, KeptOrder(events, events', c)
    PROVE  StaysStale(c)
<1>1. Stale(c)' => Stale(c)
  BY DEF Stale, Made1
<1> QED
  BY <1>1 DEF StaysStale

-----------------------------------------------------------------------------
(***************************************************************************)
(* Steps that leave a messenger as it is, as far as shutdown() goes.       *)
(***************************************************************************)
ThreadsKeep(n) ==
    \A u \in Threads : pc'[u].m = n =>
        /\ pc'[u].at \in LockedAt => pc[u].m = n /\ pc[u].at \in LockedAt
        /\ pc'[u].at \in ShutAt => pc[u].m = n /\ pc[u].at \in ShutAt
        /\ pc'[u].at = "finish" => pc[u].m = n /\ pc[u].at = "finish"
        /\ pc'[u].at = "relock" => pc[u].m = n /\ pc[u].at = "relock"
        /\ Shutting(u, n)' => Shutting(u, n)

ConnsKeep(n) ==
    \A c \in ConnIds :
        /\ conn'[c].m = n /\ conn'[c].state = "ACCEPTING" /\ conn'[c].gen = msgr'[n].gen =>
              conn[c].m = n /\ conn[c].state = "ACCEPTING" /\ conn[c].gen = msgr[n].gen
        /\ conn'[c].m = n /\ Stale(c)' => conn[c].m = n /\ Stale(c)
        /\ conn[c].m = n /\ conn[c].gen = msgr[n].gen =>
              conn'[c].m = n /\ conn'[c].gen = msgr'[n].gen

\* R is as much shut down as M, and its local connection is.
StillShut(M, R) ==
    /\ R.stop => M.stop
    /\ "did_bind" \in R.flags => "did_bind" \in M.flags
    /\ "started" \in M.flags => "started" \in R.flags
    /\ "shutdown_called" \in M.flags => "shutdown_called" \in R.flags
    /\ R.listen => M.listen
    /\ M.worker = -1 => R.worker = -1

MsgrKeeps(M, R) == StillShut(M, R) /\ (R.local_up => M.local_up)

\* A messenger that is not concerned.
LEMMA SameKeeps ==
    ASSUME NEW M
    PROVE  MsgrKeeps(M, M)
BY DEF MsgrKeeps, StillShut

\* shutdown() of it, if there was one, is as complete as before; the local connection
\* may have come back with a connection made since.
LEMMA StatusStays ==
    ASSUME NEW n \in Msgrs, Status(n), ThreadsKeep(n), ConnsKeep(n),
           StillShut(msgr[n], msgr'[n]), overlap => overlap', Queues(n)',
           msgr'[n].stop /\ msgr'[n].local_up /\ ~overlap => msgr[n].local_up
              \/ \E c \in ConnIds : conn'[c].m = n /\ conn'[c].gen = msgr'[n].gen
    PROVE  Status(n)'
<1>1. msgr'[n].stop => msgr[n].stop
  BY DEF StillShut
<1>2. Shut(n)' => Shut(n)
  BY <1>1 DEF Shut, ThreadsKeep
<1>3. ShutDown(n)'
  <2>1. ASSUME Shut(n)'
        PROVE  /\ "did_bind" \notin msgr'[n].flags
               /\ "started" \in msgr'[n].flags /\ "shutdown_called" \in msgr'[n].flags
               /\ ~msgr'[n].listen /\ msgr'[n].worker = -1
    BY <1>2, <2>1 DEF Status, ShutDown, StillShut
  <2>2. ASSUME Shut(n)', NEW c \in ConnIds, conn'[c].m = n, conn'[c].state = "ACCEPTING"
        PROVE  conn'[c].gen # msgr'[n].gen
    BY <1>2, <2>2 DEF Status, ShutDown, ConnsKeep
  <2>3. msgr'[n].stop => \A t \in Threads : pc'[t].at \in LockedAt => pc'[t].m # n
    BY <1>1 DEF Status, ShutDown, ThreadsKeep
  <2>4. \A t \in Threads : Shutting(t, n)' =>
           "started" \in msgr'[n].flags /\ "shutdown_called" \in msgr'[n].flags
    <3> SUFFICES ASSUME NEW t \in Threads, Shutting(t, n)'
                 PROVE  "started" \in msgr'[n].flags /\ "shutdown_called" \in msgr'[n].flags
      OBVIOUS
    <3>1. pc'[t].m = n
      BY DEF Shutting
    <3>2. Shutting(t, n)
      BY <3>1 DEF ThreadsKeep
    <3> QED
      BY <3>2 DEF Status, ShutDown, StillShut
  <2> QED
    BY <2>1, <2>2, <2>3, <2>4 DEF ShutDown
<1>5. Closed(n)'
  <2> SUFFICES ASSUME ~overlap, ~overlap' PROVE Closed(n)'
    BY DEF Closed
  <2>1. Passed(n)' => Passed(n)
    BY <1>1 DEF Passed, ThreadsKeep
  <2>2. ASSUME Passed(n)', NEW c \in ConnIds, conn'[c].m = n PROVE ~Stale(c)'
    <3>1. \A d \in ConnIds : conn[d].m = n => ~Stale(d)
      BY <2>1, <2>2 DEF Status, Closed
    <3> QED
      BY <2>2, <3>1 DEF ConnsKeep
  <2>3. ASSUME msgr'[n].stop, msgr'[n].local_up
        PROVE  \E c \in ConnIds : conn'[c].m = n /\ conn'[c].gen = msgr'[n].gen
    <3> SUFFICES ASSUME msgr[n].local_up
                 PROVE  \E c \in ConnIds : conn'[c].m = n /\ conn'[c].gen = msgr'[n].gen
      BY <2>3
    <3>1. msgr[n].stop
      BY <1>1, <2>3
    <3>2. PICK c \in ConnIds : conn[c].m = n /\ conn[c].gen = msgr[n].gen
      BY <3>1 DEF Status, Closed
    <3> QED
      BY <3>2 DEF ConnsKeep
  <2> QED
    BY <2>2, <2>3 DEF Closed
<1> QED
  BY <1>3, <1>5 DEF Status

\* ... or it has not.
LEMMA StatusFrame ==
    ASSUME NEW n \in Msgrs, Status(n), ThreadsKeep(n), ConnsKeep(n),
           MsgrKeeps(msgr[n], msgr'[n]), overlap => overlap', Queues(n)'
    PROVE  Status(n)'
BY StatusStays DEF MsgrKeeps

\* A messenger that is not shut down, nor on the way to it.
LEMMA OpenStatus ==
    ASSUME NEW n \in Msgrs, ~Shut(n)', Queues(n)',
           \A t \in Threads : Shutting(t, n)' =>
              "started" \in msgr'[n].flags /\ "shutdown_called" \in msgr'[n].flags
    PROVE  Status(n)'
<1>1. ~msgr'[n].stop /\ ~Passed(n)'
  BY DEF Shut, Passed, ShutAt
<1>2. ShutDown(n)'
  BY <1>1 DEF ShutDown
<1>3. Closed(n)'
  BY <1>1 DEF Closed
<1> QED
  BY <1>2, <1>3 DEF Status

\* Threads that are where they were, or where they are nobody's concern.
LEMMA ThreadsStay ==
    ASSUME \A u \in Threads : pc'[u] = pc[u] \/ pc'[u].at \notin LockedAt \cup {"relock"},
           NEW n
    PROVE  ThreadsKeep(n)
<1> SUFFICES ASSUME NEW u \in Threads, pc'[u].m = n
             PROVE  /\ pc'[u].at \in LockedAt => pc[u].m = n /\ pc[u].at \in LockedAt
                    /\ pc'[u].at \in ShutAt => pc[u].m = n /\ pc[u].at \in ShutAt
                    /\ pc'[u].at = "finish" => pc[u].m = n /\ pc[u].at = "finish"
                    /\ pc'[u].at = "relock" => pc[u].m = n /\ pc[u].at = "relock"
                    /\ Shutting(u, n)' => Shutting(u, n)
  BY DEF ThreadsKeep
<1>1. CASE pc'[u] = pc[u]
  BY <1>1 DEF Shutting
<1>2. CASE pc'[u].at \notin LockedAt \cup {"relock"}
  BY <1>2 DEF Shutting, LockedAt, AfterStop, ShutAt
<1> QED
  BY <1>1, <1>2

\* Connections that are as they were.
LEMMA ConnsSame ==
    ASSUME conn' = conn, \A n \in Msgrs : msgr'[n].gen = msgr[n].gen, Made1,
           NEW n \in Msgrs
    PROVE  ConnsKeep(n)
<1>1. \A c \in ConnIds : Stale(c)' => Stale(c)
  BY DEF Stale, Made1
<1> QED
  BY <1>1 DEF ConnsKeep

\* The dispatch queue of a messenger, when neither it nor those who wait for it changed.
LEMMA QueuesKept ==
    ASSUME NEW n \in Msgrs, Status(n), SameQueue(msgr[n], msgr'[n]), ThreadsKeep(n),
           "dispatcher" \in msgr'[n].flags <=> "dispatcher" \in msgr[n].flags
    PROVE  Queues(n)'
BY DEF Status, Queues, SameQueue, ThreadsKeep

\* A messenger that did not change.
LEMMA StatusSame ==
    ASSUME NEW n \in Msgrs, Status(n), ThreadsKeep(n), ConnsKeep(n), msgr'[n] = msgr[n],
           overlap => overlap'
    PROVE  Status(n)'
<1>1. MsgrKeeps(msgr[n], msgr'[n]) /\ Queues(n)'
  BY SameKeeps, QueuesKept DEF SameQueue
<1> QED
  BY <1>1, StatusFrame

-----------------------------------------------------------------------------
(***************************************************************************)
(* Calls that leave connections and events alone.                          *)
(***************************************************************************)
\* Thread t moves outside barrier(), and messenger m changes so that what was shut
\* down still is, or is not shut down.
LEMMA SimpleStep ==
    ASSUME SInv, NEW t \in Threads, NEW m \in Msgrs,
           \A u \in Threads : u # t => pc'[u] = pc[u],
           pc[t].at \notin InBarrierAt, pc'[t].at \notin LockedAt \cup {"relock"},
           conn' = conn, events' = events, overlap' = overlap, barrier_count' = barrier_count,
           \A n \in Msgrs : n # m => msgr'[n] = msgr[n], msgr'[m].gen = msgr[m].gen,
           Queues(m)',
           \/ MsgrKeeps(msgr[m], msgr'[m])
           \/ /\ ~Shut(m) /\ ~msgr'[m].stop
              /\ \A u \in Threads : Shutting(u, m)' =>
                    "started" \in msgr'[m].flags /\ "shutdown_called" \in msgr'[m].flags
    PROVE  ShutInv'
<1>1. Made1 /\ LoopInv /\ LoopBounds /\ \A n \in Msgrs : Status(n)
  BY DEF SInv, ShutInv, Inv, ConnInv, LoopInv
<1>2. \A n \in Msgrs : msgr'[n].gen = msgr[n].gen
  OBVIOUS
<1>3. LoopInv'
  <2>1. pc'[t].at \notin InBarrierAt /\ pc'[t].at \notin {"closed", "listening"}
    BY DEF LockedAt, AfterStop
  <2>2. LoopSame /\ LoopBounds'
    BY <1>1, <2>1, ThreadLoop
  <2>3. KeptLoop(events, events') /\ \A c : KeptOrder(events, events', c)
    BY SameLoop
  <2>4. \A c \in ConnIds : StaysStale(c)
    BY <1>1, <1>2, <2>3, ConnsStay
  <2> QED
    BY <1>1, <2>2, <2>3, <2>4, LoopFrame
<1>4. \A n \in Msgrs : ThreadsKeep(n) /\ ConnsKeep(n)
  <2>1. \A u \in Threads : pc'[u] = pc[u] \/ pc'[u].at \notin LockedAt \cup {"relock"}
    OBVIOUS
  <2> QED
    BY <1>1, <1>2, <2>1, ThreadsStay, ConnsSame
<1>5. ASSUME NEW n \in Msgrs, n # m PROVE Status(n)'
  BY <1>1, <1>4, <1>5, StatusSame
<1>6. Status(m)'
  <2>1. CASE MsgrKeeps(msgr[m], msgr'[m])
    BY <1>1, <1>4, <2>1, StatusFrame
  <2>2. CASE /\ ~Shut(m) /\ ~msgr'[m].stop
             /\ \A u \in Threads : Shutting(u, m)' =>
                   "started" \in msgr'[m].flags /\ "shutdown_called" \in msgr'[m].flags
    <3>1. ~Shut(m)'
      BY <1>4, <2>2 DEF Shut, ThreadsKeep
    <3> QED
      BY <2>2, <3>1, OpenStatus
  <2> QED
    BY <2>1, <2>2
<1> QED
  BY <1>3, <1>5, <1>6 DEF ShutInv

\* Nothing is shut down by a thread when start_lock is free.
LEMMA NobodyShuts ==
    ASSUME Locking, NEW m \in Msgrs, start_lock[m] = None
    PROVE  \A t \in Threads : /\ ~Shutting(t, m)
                              /\ ~(pc[t].at \in ShutAt /\ pc[t].m = m)
<1>1. \A t \in Threads : pc[t].at \in LockedAt => pc[t].m # m
  BY NoLocker
<1> QED
  BY <1>1 DEF Shutting, ShutAt, LockedAt, AfterStop

\* An assertion fails.
LEMMA AbortShut ==
    ASSUME SInv, NEW t \in Threads, NEW m \in Msgrs, pc[t].at \notin InBarrierAt, Abort(t)
    PROVE  ShutInv'
<1>1. Types /\ pc' \in [Threads -> PcStates] /\ pc'[t].at = "idle"
      /\ \A u \in Threads : u # t => pc'[u] = pc[u]
  BY Returned DEF SInv, Inv, Abort
<1>2. /\ conn' = conn /\ events' = events /\ overlap' = overlap /\ msgr' = msgr
      /\ barrier_count' = barrier_count
  BY DEF Abort, pool
<1>3. pc'[t].at \notin LockedAt \cup {"relock"}
  BY <1>1 DEF LockedAt, AfterStop, InBarrierAt
<1>4. MsgrKeeps(msgr[m], msgr'[m]) /\ msgr'[m].gen = msgr[m].gen
      /\ \A n \in Msgrs : n # m => msgr'[n] = msgr[n]
  BY <1>2, SameKeeps
<1>5. Queues(m)'
  BY <1>1, <1>2, <1>3, ThreadsStay, QueuesKept DEF SInv, ShutInv, SameQueue
<1> QED
  BY <1>1, <1>2, <1>3, <1>4, <1>5, SimpleStep

\* A call that has nothing to do.
LEMMA NothingDone ==
    ASSUME SInv, NEW t \in Threads, NEW m \in Msgrs, pc[t].at \notin InBarrierAt, Return(t),
           conn' = conn, events' = events, msgr' = msgr, UNCHANGED <<barrier_count, overlap>>
    PROVE  ShutInv'
<1>1. Types /\ pc' \in [Threads -> PcStates] /\ pc'[t].at = "idle"
      /\ \A u \in Threads : u # t => pc'[u] = pc[u]
  BY Returned DEF SInv, Inv
<1>3. pc'[t].at \notin LockedAt \cup {"relock"}
  BY <1>1 DEF LockedAt, AfterStop, InBarrierAt
<1>4. MsgrKeeps(msgr[m], msgr'[m]) /\ msgr'[m].gen = msgr[m].gen
      /\ \A n \in Msgrs : n # m => msgr'[n] = msgr[n]
  BY SameKeeps
<1>5. Queues(m)'
  BY <1>1, <1>3, ThreadsStay, QueuesKept DEF SInv, ShutInv, SameQueue
<1> QED
  BY <1>1, <1>3, <1>4, <1>5, SimpleStep

\* A call returns or comes to a point where start_lock is not held.
LEMMA Outside ==
    ASSUME NEW at, at \in {"idle", "ready", "join", "closing"}
    PROVE  at \notin LockedAt \cup {"relock"} /\ at \notin InBarrierAt
BY DEF LockedAt, AfterStop, InBarrierAt

\* bind() does nothing to a messenger that was started, so not to one that is shut.
LEMMA BindShut ==
    ASSUME SInv, NEW t \in Threads, NEW m \in Msgrs, bind(t, m)
    PROVE  ShutInv'
<1>1. Types /\ Locking /\ Status(m)
  BY DEF SInv, Inv, ProcInv, ShutInv
<1>2. pc[t].at = "idle" /\ start_lock[m] = None
  BY DEF bind, Locks, Begins, Calls
<1>3. pc' \in [Threads -> PcStates] /\ pc'[t].at = "idle" /\ \A u \in Threads : u # t => pc'[u] = pc[u]
  BY <1>1, Returned DEF bind
<1>4. /\ conn' = conn /\ events' = events /\ overlap' = overlap /\ barrier_count' = barrier_count
      /\ Return(t)
  BY DEF bind, pool
<1>5. CASE Has(m, "started")
  <2>1. msgr' = msgr
    BY <1>5 DEF bind
  <2> QED
    BY <1>2, <1>4, <2>1, NothingDone DEF InBarrierAt
<1>6. CASE ~Has(m, "started")
  <2>1. PICK R : R = Bound(msgr[m])
    OBVIOUS
  <2>2. R \in MsgrStates /\ SameRegs(msgr[m], R) /\ SameQueue(msgr[m], R)
        /\ R.flags = (msgr[m].flags \cup {"did_bind"}) \ {"need_addr"}
    BY <1>1, <2>1, BoundMsgr DEF Types
  <2>3. msgr' = [msgr EXCEPT ![m] = R]
    BY <1>6, <2>1 DEF bind
  <2>4. msgr'[m] = R /\ \A n \in Msgrs : n # m => msgr'[n] = msgr[n]
    BY <1>1, <2>2, <2>3, OneMsgr
  <2>5. ~Shut(m) /\ ~msgr[m].stop
    BY <1>1, <1>6 DEF Status, ShutDown, Has, Shut
  <2>6. \A u \in Threads : ~Shutting(u, m)'
    BY <1>1, <1>2, <1>3, NobodyShuts DEF Shutting
  <2>7. ~msgr'[m].stop /\ msgr'[m].gen = msgr[m].gen /\ SameQueue(msgr[m], msgr'[m])
    BY <2>2, <2>4, <2>5 DEF SameQueue, SameRegs
  <2>8. "dispatcher" \in msgr'[m].flags <=> "dispatcher" \in msgr[m].flags
    BY <2>2, <2>4
  <2>9. Queues(m)'
    BY <1>1, <1>3, <2>7, <2>8, Outside, ThreadsStay, QueuesKept
  <2> QED
    BY <1>2, <1>3, <1>4, <2>4, <2>5, <2>6, <2>7, <2>9, Outside, SimpleStep
<1> QED
  BY <1>5, <1>6

\* The flags of m are set, and nothing else of the messengers.
LEMMA FlagsChange ==
    ASSUME Types, NEW m \in Msgrs, NEW F \in SUBSET Flags, msgr' = [msgr EXCEPT ![m].flags = F]
    PROVE  /\ msgr'[m] \in MsgrStates /\ msgr'[m].flags = F
           /\ SameRegs(msgr[m], msgr'[m]) /\ SameProc(msgr[m], msgr'[m])
           /\ SameQueue(msgr[m], msgr'[m]) /\ msgr'[m].local_up = msgr[m].local_up
           /\ \A n \in Msgrs : n # m => msgr'[n] = msgr[n]
<1>1. PICK R : R = [msgr[m] EXCEPT !.flags = F]
  OBVIOUS
<1>2. msgr[m] \in MsgrStates
  BY DEF Types
<1>3. /\ R \in MsgrStates /\ SameRegs(msgr[m], R) /\ SameProc(msgr[m], R)
      /\ SameQueue(msgr[m], R) /\ R.flags = F /\ R.local_up = msgr[m].local_up
  BY <1>1, <1>2, FlagsMsgr
<1>4. msgr' = [msgr EXCEPT ![m] = R]
  BY <1>1
<1>5. msgr'[m] = R /\ \A n \in Msgrs : n # m => msgr'[n] = msgr[n]
  BY <1>3, <1>4, OneMsgr
<1> QED
  BY <1>3, <1>5

\* A thread returns and the flags of m are set.
LEMMA FlagsShut ==
    ASSUME SInv, NEW t \in Threads, NEW m \in Msgrs, pc[t].at \notin InBarrierAt, Return(t),
           conn' = conn, events' = events, UNCHANGED <<barrier_count, overlap>>,
           NEW on \in SUBSET Flags, NEW off \in SUBSET Flags, msgr' = SetFlags(m, on, off),
           "dispatcher" \notin on \cup off,
           ~Shut(m), \A u \in Threads : u # t => ~Shutting(u, m)
    PROVE  ShutInv'
<1>1. Types /\ Status(m)
  BY DEF SInv, Inv, ShutInv
<1>2. /\ pc' \in [Threads -> PcStates] /\ pc'[t].at = "idle"
      /\ \A u \in Threads : u # t => pc'[u] = pc[u]
  BY <1>1, Returned
<1>3. PICK F : F = (msgr[m].flags \cup on) \ off
  OBVIOUS
<1>4. F \in SUBSET Flags /\ msgr' = [msgr EXCEPT ![m].flags = F]
  BY <1>1, <1>3 DEF SetFlags, Types, MsgrStates
<1>9. /\ msgr'[m] \in MsgrStates /\ msgr'[m].flags = F
      /\ SameRegs(msgr[m], msgr'[m]) /\ SameQueue(msgr[m], msgr'[m])
      /\ \A n \in Msgrs : n # m => msgr'[n] = msgr[n]
  BY <1>1, <1>4, FlagsChange
<1>5. \A u \in Threads : ~Shutting(u, m)'
  BY <1>2 DEF Shutting
<1>6. ~msgr'[m].stop /\ msgr'[m].gen = msgr[m].gen /\ SameQueue(msgr[m], msgr'[m])
  BY <1>9 DEF SameQueue, SameRegs, Shut
<1>7. "dispatcher" \in msgr'[m].flags <=> "dispatcher" \in msgr[m].flags
  BY <1>3, <1>9
<1>8. Queues(m)'
  BY <1>1, <1>2, <1>6, <1>7, Outside, ThreadsStay, QueuesKept
<1> QED
  BY <1>2, <1>5, <1>6, <1>8, <1>9, Outside, SimpleStep

\* start() likewise.
LEMMA StartShut ==
    ASSUME SInv, NEW t \in Threads, NEW m \in Msgrs, start(t, m)
    PROVE  ShutInv'
<1>1. Types /\ Locking /\ Status(m)
  BY DEF SInv, Inv, ProcInv, ShutInv
<1>2. pc[t].at = "idle" /\ start_lock[m] = None /\ pc[t].at \notin InBarrierAt
  BY Outside DEF start, Locks, Begins, Calls
<1>3. /\ conn' = conn /\ events' = events /\ overlap' = overlap /\ barrier_count' = barrier_count
      /\ Return(t)
  BY DEF start, pool
<1>4. \A u \in Threads : ~Shutting(u, m)
  BY <1>1, <1>2, NobodyShuts
<1>5. CASE Has(m, "started")
  <2>1. msgr' = msgr
    BY <1>5 DEF start
  <2> QED
    BY <1>2, <1>3, <2>1, NothingDone
<1>6. CASE ~Has(m, "started")
  <2>1. ~Shut(m)
    BY <1>1, <1>6 DEF Status, ShutDown, Has
  <2>2. CASE Has(m, "did_bind")
    <3>1. msgr' = SetFlags(m, {"started"}, {})
      BY <1>6, <2>2 DEF start
    <3>2. {"started"} \in SUBSET Flags /\ {} \in SUBSET Flags /\ "dispatcher" \notin {"started"} \cup {}
      BY DEF Flags
    <3> QED
      BY <1>2, <1>3, <1>4, <2>1, <3>1, <3>2, FlagsShut
  <2>3. CASE ~Has(m, "did_bind")
    <3>1. msgr' = [SetFlags(m, {"started"}, {}) EXCEPT ![m] = init_local_connection(@)]
      BY <1>6, <2>3 DEF start
    <3>2. PICK Q : Q = [msgr[m] EXCEPT !.flags = msgr[m].flags \cup {"started"}, !.local_up = TRUE]
      OBVIOUS
    <3>3. msgr[m] \in MsgrStates /\ msgr[m].flags \cup {"started"} \in SUBSET Flags
      BY <1>1 DEF Types, MsgrStates, Flags
    <3>4. msgr' = [msgr EXCEPT ![m] = Q]
      BY <1>1, <3>1, <3>2, <3>3 DEF Types, SetFlags, init_local_connection, MsgrStates
    <3>5. Q \in MsgrStates /\ SameRegs(msgr[m], Q) /\ SameQueue(msgr[m], Q)
          /\ Q.flags = msgr[m].flags \cup {"started"}
      BY <3>2, <3>3 DEF MsgrStates, SameRegs, SameQueue
    <3>6. msgr'[m] = Q /\ \A n \in Msgrs : n # m => msgr'[n] = msgr[n]
      BY <1>1, <3>4, <3>5, OneMsgr
    <3>7. /\ pc' \in [Threads -> PcStates] /\ pc'[t].at = "idle"
          /\ \A u \in Threads : u # t => pc'[u] = pc[u]
      BY <1>1, <1>3, Returned
    <3>8. ~msgr'[m].stop /\ msgr'[m].gen = msgr[m].gen /\ SameQueue(msgr[m], msgr'[m])
      BY <2>1, <3>5, <3>6 DEF SameQueue, SameRegs, Shut
    <3>9. "dispatcher" \in msgr'[m].flags <=> "dispatcher" \in msgr[m].flags
      BY <3>5, <3>6
    <3>10. Queues(m)'
      BY <1>1, <3>7, <3>8, <3>9, Outside, ThreadsStay, QueuesKept
    <3>11. \A u \in Threads : ~Shutting(u, m)'
      BY <1>4, <3>7 DEF Shutting
    <3> QED
      BY <1>2, <1>3, <2>1, <3>6, <3>7, <3>8, <3>10, <3>11, Outside, SimpleStep
  <2> QED
    BY <2>2, <2>3
<1> QED
  BY <1>5, <1>6

\* The first dispatcher starts the threads of the dispatch queue.
LEMMA AddDispatcherShut ==
    ASSUME SInv, NEW t \in Threads, NEW m \in Msgrs, add_dispatcher(t, m)
    PROVE  ShutInv'
<1>1. Types /\ Status(m)
  BY DEF SInv, Inv, ShutInv
<1>2. pc[t].at = "idle" /\ pc[t].at \notin InBarrierAt
  BY Outside DEF add_dispatcher, Begins, Calls
<1>3. CASE Return(t) /\ UNCHANGED <<msgr, start_lock, conn, events, pool, aborted, env>>
  BY <1>2, <1>3, NothingDone DEF pool
<1>4. CASE Abort(t)
  BY <1>2, <1>4, AbortShut
<1>5. CASE /\ ~Has(m, "dispatcher")
           /\ ~msgr[m].stop /\ msgr[m].dispatch = "none"
           /\ msgr' = [SetFlags(m, {"dispatcher"}, {}) EXCEPT
                         ![m].dispatch = "running", ![m].local = "running"]
           /\ pc' = [pc EXCEPT ![t] = [Idle EXCEPT !.at = "ready", !.m = m]]
           /\ UNCHANGED <<start_lock, conn, events, pool, aborted, env>>
  <2>1. PICK R : R = [msgr[m] EXCEPT !.flags = msgr[m].flags \cup {"dispatcher"},
                                     !.dispatch = "running", !.local = "running"]
    OBVIOUS
  <2>2. msgr[m] \in MsgrStates /\ msgr[m].flags \cup {"dispatcher"} \in SUBSET Flags
    BY <1>1 DEF Types, MsgrStates, Flags
  <2>3. msgr' = [msgr EXCEPT ![m] = R]
    BY <1>1, <1>5, <2>1, <2>2 DEF Types, SetFlags, MsgrStates
  <2>4. /\ R \in MsgrStates /\ SameRegs(msgr[m], R) /\ R.flags = msgr[m].flags \cup {"dispatcher"}
        /\ R.dispatch = "running" /\ R.local = "running" /\ R.stop = msgr[m].stop
        /\ R.listen = msgr[m].listen /\ R.worker = msgr[m].worker /\ R.local_up = msgr[m].local_up
    BY <2>1, <2>2 DEF MsgrStates, SameRegs
  <2>5. msgr'[m] = R /\ \A n \in Msgrs : n # m => msgr'[n] = msgr[n]
    BY <1>1, <2>3, <2>4, OneMsgr
  <2>6. [Idle EXCEPT !.at = "ready", !.m = m] \in PcStates
    BY DEF Idle, PcStates, Points
  <2>7. pc'[t].at = "ready" /\ \A u \in Threads : u # t => pc'[u] = pc[u]
    BY <1>1, <1>5, <2>6, OnePc DEF Idle
  <2>8. MsgrKeeps(msgr[m], msgr'[m])
    BY <2>4, <2>5 DEF MsgrKeeps, StillShut
  <2>9. \A u \in Threads : pc'[u].at = "relock" => pc[u] = pc'[u]
    BY <2>7
  <2>10. \A u \in Threads : ~(pc[u].at = "relock" /\ pc[u].m = m)
    BY <1>1, <1>5 DEF Status, Queues, Has
  <2>11. Queues(m)'
    BY <1>5, <2>4, <2>5, <2>9, <2>10 DEF Queues
  <2>12. msgr'[m].gen = msgr[m].gen
    BY <2>4, <2>5 DEF SameRegs
  <2> QED
    BY <1>2, <1>5, <2>5, <2>7, <2>8, <2>11, <2>12, Outside, SimpleStep DEF pool
<1> QED
  BY <1>3, <1>4, <1>5 DEF add_dispatcher

\* ready() starts the Processor, if something is bound.
LEMMA ReadyShut ==
    ASSUME SInv, NEW t \in Threads, NEW m \in Msgrs, ready(t, m)
    PROVE  ShutInv'
<1>1. Types /\ Status(m)
  BY DEF SInv, Inv, ShutInv
<1>2. pc[t].at = "ready" /\ pc[t].at \notin InBarrierAt
  BY Outside DEF ready, At
<1>3. /\ conn' = conn /\ events' = events /\ overlap' = overlap /\ barrier_count' = barrier_count
      /\ Return(t)
  BY DEF ready
<1>4. CASE ~Has(m, "did_bind")
  <2>1. msgr' = msgr
    BY <1>4 DEF ready
  <2> QED
    BY <1>2, <1>3, <2>1, NothingDone
<1>5. CASE Has(m, "did_bind")
  <2>1. PICK w : w = get_worker
    OBVIOUS
  <2>2. w \in Workers
    BY <1>1, <2>1, WorkerChosen
  <2>3. PICK R : R = Started(msgr[m], w)
    OBVIOUS
  <2>4. R \in MsgrStates /\ SameRegs(msgr[m], R) /\ SameQueue(msgr[m], R) /\ R.flags = msgr[m].flags
    BY <1>1, <2>2, <2>3, StartedMsgr DEF Types
  <2>5. msgr' = [msgr EXCEPT ![m] = R]
    BY <1>5, <2>1, <2>3 DEF ready
  <2>6. msgr'[m] = R /\ \A n \in Msgrs : n # m => msgr'[n] = msgr[n]
    BY <1>1, <2>4, <2>5, OneMsgr
  <2>7. ~Shut(m)
    BY <1>1, <1>5 DEF Status, ShutDown, Has
  <2>8. /\ pc' \in [Threads -> PcStates] /\ pc'[t].at = "idle"
        /\ \A u \in Threads : u # t => pc'[u] = pc[u]
    BY <1>1, <1>3, Returned
  <2>9. ~msgr'[m].stop /\ msgr'[m].gen = msgr[m].gen /\ SameQueue(msgr[m], msgr'[m])
    BY <2>4, <2>6, <2>7 DEF SameQueue, SameRegs, Shut
  <2>10. Queues(m)'
    BY <1>1, <2>4, <2>6, <2>8, <2>9, Outside, ThreadsStay, QueuesKept
  <2>11. \A u \in Threads : Shutting(u, m)' => Shutting(u, m)
    BY <2>8 DEF Shutting
  <2>12. \A u \in Threads : Shutting(u, m)' =>
            "started" \in msgr'[m].flags /\ "shutdown_called" \in msgr'[m].flags
    BY <1>1, <2>4, <2>6, <2>11 DEF Status, ShutDown
  <2> QED
    BY <1>2, <1>3, <2>6, <2>7, <2>8, <2>9, <2>10, <2>12, Outside, SimpleStep
<1> QED
  BY <1>4, <1>5

\* wait() of a messenger that has no dispatch thread, or nothing to wait for.
LEMMA WaitShut ==
    ASSUME SInv, NEW t \in Threads, NEW m \in Msgrs, wait(t, m)
    PROVE  ShutInv'
<1>1. Types /\ Locking /\ Status(m)
  BY DEF SInv, Inv, ProcInv, ShutInv
<1>2. pc[t].at = "idle" /\ start_lock[m] = None /\ pc[t].at \notin InBarrierAt
  BY Outside DEF wait, Locks, Begins, Calls
<1>3. CASE Return(t) /\ UNCHANGED <<msgr, start_lock, conn, events, pool, aborted, env>>
  BY <1>2, <1>3, NothingDone DEF pool
<1>4. CASE Abort(t)
  BY <1>2, <1>4, AbortShut
<1>5. CASE /\ pc' = [pc EXCEPT ![t] = [Idle EXCEPT !.at = "join", !.m = m]]
           /\ UNCHANGED <<msgr, start_lock, conn, events, pool, aborted, env>>
  <2>1. [Idle EXCEPT !.at = "join", !.m = m] \in PcStates
    BY DEF Idle, PcStates, Points
  <2>2. pc'[t].at = "join" /\ \A u \in Threads : u # t => pc'[u] = pc[u]
    BY <1>1, <1>5, <2>1, OnePc DEF Idle
  <2>3. MsgrKeeps(msgr[m], msgr'[m]) /\ SameQueue(msgr[m], msgr'[m])
    BY <1>5, SameKeeps DEF SameQueue
  <2>4. Queues(m)'
    BY <1>1, <1>5, <2>2, <2>3, Outside, ThreadsStay, QueuesKept
  <2> QED
    BY <1>2, <1>5, <2>2, <2>3, <2>4, Outside, SimpleStep DEF pool
<1>6. CASE /\ msgr[m].dispatch = "none"
           /\ msgr' = SetFlags(m, {}, {"started", "shutdown_called"})
           /\ Return(t)
           /\ UNCHANGED <<start_lock, conn, events, pool, aborted, env>>
  <2>1. ~msgr[m].stop
    BY <1>1, <1>6 DEF Status, Queues
  <2>2. ~Shut(m) /\ \A u \in Threads : ~Shutting(u, m)
    BY <1>1, <1>2, <2>1, NobodyShuts DEF Shut
  <2>3. /\ {} \in SUBSET Flags /\ {"started", "shutdown_called"} \in SUBSET Flags
        /\ "dispatcher" \notin {} \cup {"started", "shutdown_called"}
    BY DEF Flags
  <2>4. /\ conn' = conn /\ events' = events /\ overlap' = overlap /\ barrier_count' = barrier_count
    BY <1>6 DEF pool
  <2> QED
    BY <1>2, <1>6, <2>2, <2>3, <2>4, FlagsShut
<1> QED
  BY <1>3, <1>4, <1>5, <1>6 DEF wait

\* wait() ends: nobody can have shut the messenger down again.
LEMMA WaitedShut ==
    ASSUME SInv, NEW t \in Threads, NEW m \in Msgrs, Waited(t, m)
    PROVE  ShutInv'
<1>1. Types /\ Locking /\ Status(m)
  BY DEF SInv, Inv, ProcInv, ShutInv
<1>2. pc[t].at = "relock" /\ pc[t].m = m /\ start_lock[m] = None /\ pc[t].at \notin InBarrierAt
  BY DEF Waited, At, InBarrierAt
<1>3. ~msgr[m].stop
  BY <1>1, <1>2 DEF Status, Queues
<1>4. ~Shut(m) /\ \A u \in Threads : ~Shutting(u, m)
  BY <1>1, <1>2, <1>3, NobodyShuts DEF Shut
<1>5. /\ {} \in SUBSET Flags /\ {"started", "shutdown_called"} \in SUBSET Flags
      /\ "dispatcher" \notin {} \cup {"started", "shutdown_called"}
  BY DEF Flags
<1>6. /\ conn' = conn /\ events' = events /\ overlap' = overlap /\ barrier_count' = barrier_count
      /\ Return(t) /\ msgr' = SetFlags(m, {}, {"started", "shutdown_called"})
  BY DEF Waited, pool
<1> QED
  BY <1>2, <1>4, <1>5, <1>6, FlagsShut

\* A thread that holds start_lock and has not come to shutdown()'s barrier: the
\* messenger is not shut, and nobody else is shutting it down.
LEMMA NotYetShut ==
    ASSUME SInv, NEW t \in Threads, NEW m \in Msgrs, pc[t].m = m,
           pc[t].at \in {"listening", "closed", "rebind"}
    PROVE  ~msgr[m].stop /\ ~Shut(m) /\ \A u \in Threads : u # t => ~Shutting(u, m)
<1>1. Locking /\ Status(m)
  BY DEF SInv, Inv, ProcInv, ShutInv
<1>2. pc[t].at \in LockedAt
  BY DEF LockedAt, AfterStop
<1>3. ~msgr[m].stop
  BY <1>1, <1>2 DEF Status, ShutDown
<1>4. \A u \in Threads : pc[u].at \in LockedAt /\ pc[u].m = m => u = t
  BY <1>1, <1>2, OneLocker
<1>5. \A u \in Threads : ~(pc[u].at \in ShutAt /\ pc[u].m = m)
  BY <1>4 DEF ShutAt, LockedAt, AfterStop, InBarrierAt
<1>6. \A u \in Threads : u # t => ~Shutting(u, m)
  BY <1>4 DEF Shutting, LockedAt, AfterStop
<1> QED
  BY <1>3, <1>5, <1>6 DEF Shut

\* unbind() ends.
LEMMA UnboundShut ==
    ASSUME SInv, NEW t \in Threads, NEW m \in Msgrs, Unbound(t, m)
    PROVE  ShutInv'
<1>1. pc[t].at = "closed" /\ pc[t].m = m /\ pc[t].at \notin InBarrierAt
  BY DEF Unbound, At, InBarrierAt
<1>2. ~Shut(m) /\ \A u \in Threads : u # t => ~Shutting(u, m)
  BY <1>1, NotYetShut
<1>3. {} \in SUBSET Flags /\ {"did_bind"} \in SUBSET Flags /\ "dispatcher" \notin {} \cup {"did_bind"}
  BY DEF Flags
<1>4. /\ conn' = conn /\ events' = events /\ overlap' = overlap /\ barrier_count' = barrier_count
      /\ Return(t) /\ msgr' = SetFlags(m, {}, {"did_bind"})
  BY DEF Unbound, pool
<1> QED
  BY <1>1, <1>2, <1>3, <1>4, FlagsShut

\* rebind() ends.
LEMMA ReboundShut ==
    ASSUME SInv, NEW t \in Threads, NEW m \in Msgrs, Rebound(t, m)
    PROVE  ShutInv'
<1>1. pc[t].at = "rebind" /\ pc[t].m = m /\ pc[t].at \notin InBarrierAt
  BY DEF Rebound, At, InBarrierAt
<1>2. Types /\ Status(m)
  BY DEF SInv, Inv, ShutInv
<1>3. ~Shut(m) /\ ~msgr[m].stop /\ \A u \in Threads : u # t => ~Shutting(u, m)
  BY <1>1, NotYetShut
<1>4. /\ conn' = conn /\ events' = events /\ overlap' = overlap /\ barrier_count' = barrier_count
      /\ Return(t)
  BY DEF Rebound
<1>5. CASE msgr' = msgr
  BY <1>1, <1>4, <1>5, NothingDone
<1>6. CASE msgr' = [msgr EXCEPT ![m] = Started(Bound(@), get_worker)]
  <2>1. PICK w : w = get_worker
    OBVIOUS
  <2>2. w \in Workers
    BY <1>2, <2>1, WorkerChosen
  <2>3. PICK B : B = Bound(msgr[m])
    OBVIOUS
  <2>4. B \in MsgrStates /\ SameRegs(msgr[m], B) /\ SameQueue(msgr[m], B)
        /\ B.flags = (msgr[m].flags \cup {"did_bind"}) \ {"need_addr"}
    BY <1>2, <2>3, BoundMsgr DEF Types
  <2>5. PICK R : R = Started(B, w)
    OBVIOUS
  <2>6. R \in MsgrStates /\ SameRegs(B, R) /\ SameQueue(B, R) /\ R.flags = B.flags
    BY <2>2, <2>4, <2>5, StartedMsgr
  <2>7. msgr' = [msgr EXCEPT ![m] = R]
    BY <1>6, <2>1, <2>3, <2>5
  <2>8. msgr'[m] = R /\ \A n \in Msgrs : n # m => msgr'[n] = msgr[n]
    BY <1>2, <2>6, <2>7, OneMsgr
  <2>9. /\ pc' \in [Threads -> PcStates] /\ pc'[t].at = "idle"
        /\ \A u \in Threads : u # t => pc'[u] = pc[u]
    BY <1>2, <1>4, Returned
  <2>10. ~msgr'[m].stop /\ msgr'[m].gen = msgr[m].gen /\ SameQueue(msgr[m], msgr'[m])
    BY <1>3, <2>4, <2>6, <2>8 DEF SameQueue, SameRegs
  <2>11. "dispatcher" \in msgr'[m].flags <=> "dispatcher" \in msgr[m].flags
    BY <2>4, <2>6, <2>8
  <2>12. Queues(m)'
    BY <1>2, <2>9, <2>10, <2>11, Outside, ThreadsStay, QueuesKept
  <2>13. \A u \in Threads : ~Shutting(u, m)'
    BY <1>3, <2>9 DEF Shutting
  <2> QED
    BY <1>1, <1>3, <1>4, <2>8, <2>9, <2>10, <2>12, <2>13, Outside, SimpleStep
<1> QED
  BY <1>5, <1>6 DEF Rebound

\* mark_down() returns.
LEMMA MarkedDownShut ==
    ASSUME SInv, NEW t \in Threads, NEW m \in Msgrs, MarkedDown(t, m)
    PROVE  ShutInv'
<1>1. pc[t].at = "closing" /\ pc[t].at \notin InBarrierAt
  BY Outside DEF MarkedDown, At
<1>2. /\ conn' = conn /\ events' = events /\ overlap' = overlap /\ barrier_count' = barrier_count
      /\ Return(t) /\ msgr' = msgr
  BY DEF MarkedDown, pool
<1> QED
  BY <1>1, <1>2, NothingDone

-----------------------------------------------------------------------------
(***************************************************************************)
(* Steps of workers and of the dispatch thread, and calls about connections. *)
(***************************************************************************)
\* Thread t moves outside barrier(), or none does; connections do not become old
\* ones; the events that come and go are not the barrier's.
LEMMA ConnStep ==
    ASSUME SInv, NEW t \in Threads, \A u \in Threads : u # t => pc'[u] = pc[u],
           pc'[t] = pc[t] \/ (pc[t].at \notin InBarrierAt /\ pc'[t].at \notin LockedAt \cup {"relock"}),
           overlap' = overlap, barrier_count' = barrier_count, KeptLoop(events, events'),
           \A c \in ConnIds : StaysStale(c)
    PROVE  LoopInv' /\ \A n : ThreadsKeep(n)
<1>1. Made1 /\ LoopInv /\ LoopBounds
  BY DEF SInv, ShutInv, Inv, ConnInv, LoopInv
<1>2. LoopSame /\ LoopBounds'
  <2>1. CASE pc'[t] = pc[t]
    <3>1. \A u \in Threads : pc'[u] = pc[u]
      BY <2>1
    <3> QED
      BY <1>1, <3>1 DEF LoopSame, LoopBounds, Active, Posted
  <2>2. CASE pc[t].at \notin InBarrierAt /\ pc'[t].at \notin LockedAt \cup {"relock"}
    <3>1. pc'[t].at \notin InBarrierAt /\ pc'[t].at \notin {"closed", "listening"}
      BY <2>2 DEF LockedAt, AfterStop
    <3> QED
      BY <1>1, <2>2, <3>1, ThreadLoop
  <2> QED
    BY <2>1, <2>2
<1>3. LoopInv'
  BY <1>1, <1>2, LoopFrame
<1>4. \A u \in Threads : pc'[u] = pc[u] \/ pc'[u].at \notin LockedAt \cup {"relock"}
  OBVIOUS
<1> QED
  BY <1>3, <1>4, ThreadsStay

\* No thread moves.
LEMMA WorkerStep ==
    ASSUME SInv, pc' = pc, overlap' = overlap, barrier_count' = barrier_count,
           KeptLoop(events, events'), \A c \in ConnIds : StaysStale(c)
    PROVE  LoopInv' /\ \A n : ThreadsKeep(n)
<1>1. Made1 /\ LoopInv /\ LoopBounds
  BY DEF SInv, ShutInv, Inv, ConnInv, LoopInv
<1>2. LoopSame /\ LoopBounds'
  BY <1>1, NoThreadLoop
<1>3. LoopInv'
  BY <1>1, <1>2, LoopFrame
<1> QED
  BY <1>3, ThreadsStay

\* Nothing happens.
LEMMA NothingShut ==
    ASSUME SInv, UNCHANGED <<msgr, conn, events, barrier_count, pc, overlap>>
    PROVE  ShutInv'
<1>1. Made1 /\ \A n \in Msgrs : Status(n)
  BY DEF SInv, ShutInv, Inv, ConnInv
<1>2. KeptLoop(events, events') /\ \A c : KeptOrder(events, events', c)
  BY SameLoop
<1>3. \A c \in ConnIds : StaysStale(c)
  BY <1>1, <1>2, ConnsStay
<1>4. LoopInv' /\ \A n : ThreadsKeep(n)
  BY <1>2, <1>3, WorkerStep
<1>5. \A n \in Msgrs : Status(n)'
  BY <1>1, <1>4, ConnsSame, StatusSame
<1> QED
  BY <1>4, <1>5 DEF ShutInv

\* A messenger changes, in a step of a worker or of the dispatch thread that is not
\* about connections.
LEMMA MsgrStep ==
    ASSUME SInv, NEW m \in Msgrs, pc' = pc, conn' = conn, overlap' = overlap,
           barrier_count' = barrier_count, KeptLoop(events, events'),
           \A c : KeptOrder(events, events', c),
           \A n \in Msgrs : n # m => msgr'[n] = msgr[n], msgr'[m].gen = msgr[m].gen,
           MsgrKeeps(msgr[m], msgr'[m]), Queues(m)'
    PROVE  ShutInv'
<1>1. Made1 /\ \A n \in Msgrs : Status(n)
  BY DEF SInv, ShutInv, Inv, ConnInv
<1>2. \A n \in Msgrs : msgr'[n].gen = msgr[n].gen
  OBVIOUS
<1>3. \A c \in ConnIds : StaysStale(c)
  BY <1>1, <1>2, ConnsStay
<1>4. LoopInv' /\ \A n : ThreadsKeep(n)
  BY <1>3, WorkerStep
<1>5. \A n \in Msgrs : ConnsKeep(n)
  BY <1>1, <1>2, ConnsSame
<1>6. \A n \in Msgrs : n # m => Status(n)'
  BY <1>1, <1>4, <1>5, StatusSame
<1>7. Status(m)'
  BY <1>1, <1>4, <1>5, StatusFrame
<1> QED
  BY <1>4, <1>6, <1>7 DEF ShutInv

\* Processor::accept() takes a socket.
LEMMA AcceptShut ==
    ASSUME SInv, NEW m \in Msgrs, accept(m)
    PROVE  ShutInv'
<1>1. Types /\ Status(m)
  BY DEF SInv, Inv, ShutInv
<1>2. PICK R : R = [msgr[m] EXCEPT !.accepted = msgr[m].gen]
  OBVIOUS
<1>3. msgr[m] \in MsgrStates
  BY <1>1 DEF Types
<1>4. /\ R \in MsgrStates /\ SameRegs(msgr[m], R) /\ SameQueue(msgr[m], R)
      /\ R.flags = msgr[m].flags /\ MsgrKeeps(msgr[m], R)
  BY <1>2, <1>3 DEF MsgrStates, SameRegs, SameQueue, MsgrKeeps, StillShut
<1>5. msgr' = [msgr EXCEPT ![m] = R]
  BY <1>2 DEF accept
<1>6. msgr'[m] = R /\ \A n \in Msgrs : n # m => msgr'[n] = msgr[n]
  BY <1>1, <1>4, <1>5, OneMsgr
<1>7. /\ pc' = pc /\ conn' = conn /\ events' = events /\ overlap' = overlap
      /\ barrier_count' = barrier_count
  BY DEF accept, pool
<1>8. Queues(m)'
  BY <1>1, <1>4, <1>6, <1>7, ThreadsStay, QueuesKept
<1> QED
  BY <1>4, <1>6, <1>7, <1>8, SameLoop, MsgrStep DEF SameRegs

\* The dispatch thread ends, when shutdown() has stopped it.
LEMMA DispatchEndsShut ==
    ASSUME SInv, NEW m \in Msgrs, DispatchEnds(m)
    PROVE  ShutInv'
<1>1. Types /\ Status(m)
  BY DEF SInv, Inv, ShutInv
<1>2. PICK R : R = [msgr[m] EXCEPT !.dispatch = "ended"]
  OBVIOUS
<1>3. msgr[m] \in MsgrStates /\ msgr[m].dispatch = "running" /\ msgr[m].stop
  BY <1>1 DEF Types, DispatchEnds
<1>4. /\ R \in MsgrStates /\ SameRegs(msgr[m], R) /\ R.dispatch = "ended" /\ R.stop = msgr[m].stop
      /\ R.local = msgr[m].local /\ R.flags = msgr[m].flags /\ MsgrKeeps(msgr[m], R)
  BY <1>2, <1>3 DEF MsgrStates, SameRegs, MsgrKeeps, StillShut
<1>5. msgr' = [msgr EXCEPT ![m] = R]
  BY <1>2 DEF DispatchEnds
<1>6. msgr'[m] = R /\ \A n \in Msgrs : n # m => msgr'[n] = msgr[n]
  BY <1>1, <1>4, <1>5, OneMsgr
<1>7. /\ pc' = pc /\ conn' = conn /\ events' = events /\ overlap' = overlap
      /\ barrier_count' = barrier_count
  BY DEF DispatchEnds, pool
<1>8. Queues(m)'
  BY <1>1, <1>3, <1>4, <1>6, <1>7 DEF Status, Queues
<1> QED
  BY <1>4, <1>6, <1>7, <1>8, SameLoop, MsgrStep DEF SameRegs

\* The worker has seen Processor::stop().
LEMMA ProcessorStopShut ==
    ASSUME SInv, NEW w \in Workers, DoRequest(w), Head(events[w]).kind = "C_ProcessorStop"
    PROVE  ShutInv'
<1>1. Types
  BY DEF SInv, Inv
<1>2. PICK m : m = Head(events[w]).arg
  OBVIOUS
<1>3. /\ events[w] # <<>> /\ events' = [events EXCEPT ![w] = Tail(@)]
      /\ msgr' = [msgr EXCEPT ![m].stopped = TRUE, ![m].ev_read = FALSE]
      /\ conn' = conn /\ barrier_count' = barrier_count /\ pc' = pc /\ overlap' = overlap
  BY <1>2 DEF DoRequest
<1>4. Taken(events, events', w)
  BY <1>1, <1>3, TakeTakes DEF Types
<1>5. events[w][1].kind = "C_ProcessorStop"
  BY <1>4 DEF Taken
<1>6. events[w][1] # barrier /\ \A c : events[w][1] # stop(c)
  BY <1>5 DEF barrier, stop
<1>7. KeptLoop(events, events') /\ \A c : KeptOrder(events, events', c)
  BY <1>4, <1>6, TakenLoop
<1>8. CASE m \notin Msgrs
  <2>1. msgr' = msgr
    BY <1>1, <1>3, <1>8 DEF Types
  <2>2. Made1 /\ \A n \in Msgrs : Status(n)
    BY DEF SInv, ShutInv, Inv, ConnInv
  <2>3. \A c \in ConnIds : StaysStale(c)
    BY <1>3, <1>7, <2>1, <2>2, ConnsStay
  <2>4. LoopInv' /\ \A n : ThreadsKeep(n)
    BY <1>3, <1>7, <2>3, WorkerStep
  <2>5. \A n \in Msgrs : Status(n)'
    BY <1>3, <2>1, <2>2, <2>4, ConnsSame, StatusSame
  <2> QED
    BY <2>4, <2>5 DEF ShutInv
<1>9. CASE m \in Msgrs
  <2>1. PICK R : R = [msgr[m] EXCEPT !.stopped = TRUE, !.ev_read = FALSE]
    OBVIOUS
  <2>2. msgr[m] \in MsgrStates
    BY <1>1, <1>9 DEF Types
  <2>3. /\ R \in MsgrStates /\ SameRegs(msgr[m], R) /\ SameQueue(msgr[m], R)
        /\ R.flags = msgr[m].flags /\ MsgrKeeps(msgr[m], R)
    BY <2>1, <2>2 DEF MsgrStates, SameRegs, SameQueue, MsgrKeeps, StillShut
  <2>4. msgr' = [msgr EXCEPT ![m] = R]
    BY <1>1, <1>3, <1>9, <2>1 DEF Types
  <2>5. msgr'[m] = R /\ \A n \in Msgrs : n # m => msgr'[n] = msgr[n]
    BY <1>1, <1>9, <2>3, <2>4, OneMsgr
  <2>6. Queues(m)'
    BY <1>3, <1>9, <2>3, <2>5, ThreadsStay, QueuesKept DEF SInv, ShutInv
  <2> QED
    BY <1>3, <1>7, <1>9, <2>3, <2>5, <2>6, MsgrStep DEF SameRegs
<1> QED
  BY <1>8, <1>9

-----------------------------------------------------------------------------
(***************************************************************************)
(* Processor::stop().                                                      *)
(***************************************************************************)
\* Thread t comes to hold start_lock of m, or goes on with it, before the barrier.
LEMMA StopStep ==
    ASSUME SInv, NEW t \in Threads, NEW m \in Msgrs,
           \A u \in Threads : u # t => pc'[u] = pc[u],
           pc[t].at \notin InBarrierAt, pc'[t].at \in {"listening", "closed"},
           pc'[t].i = 0, pc'[t].m = m,
           conn' = conn, overlap' = overlap, barrier_count' = barrier_count,
           KeptLoop(events, events'), \A c : KeptOrder(events, events', c),
           \A n \in Msgrs : n # m => msgr'[n] = msgr[n], msgr'[m].gen = msgr[m].gen,
           SameQueue(msgr[m], msgr'[m]), ~Shut(m),
           "dispatcher" \in msgr'[m].flags <=> "dispatcher" \in msgr[m].flags,
           \A u \in Threads : Shutting(u, m)' =>
              "started" \in msgr'[m].flags /\ "shutdown_called" \in msgr'[m].flags
    PROVE  ShutInv'
<1>1. Made1 /\ LoopInv /\ LoopBounds /\ \A n \in Msgrs : Status(n)
  BY DEF SInv, ShutInv, Inv, ConnInv, LoopInv
<1>2. \A n \in Msgrs : msgr'[n].gen = msgr[n].gen
  OBVIOUS
<1>3. LoopInv'
  <2>1. pc'[t].at \notin InBarrierAt
    BY DEF InBarrierAt
  <2>2. LoopSame /\ LoopBounds'
    BY <1>1, <2>1, ThreadLoop
  <2>3. \A c \in ConnIds : StaysStale(c)
    BY <1>1, <1>2, ConnsStay
  <2> QED
    BY <1>1, <2>2, <2>3, LoopFrame
<1>4. \A n \in Msgrs : ConnsKeep(n)
  BY <1>1, <1>2, ConnsSame
<1>5. ASSUME NEW n \in Msgrs, n # m PROVE ThreadsKeep(n)
  BY <1>5 DEF ThreadsKeep, Shutting
<1>6. \A n \in Msgrs : n # m => Status(n)'
  BY <1>1, <1>4, <1>5, StatusSame
<1>7. ~Shut(m)'
  BY DEF Shut, ShutAt, InBarrierAt, SameQueue
<1>8. Queues(m)'
  BY <1>1 DEF Status, Queues, SameQueue
<1>9. Status(m)'
  BY <1>7, <1>8, OpenStatus
<1> QED
  BY <1>3, <1>6, <1>9 DEF ShutInv

\* Processor::stop() begins.
LEMMA StopBegins ==
    ASSUME SInv, NEW t \in Threads, NEW m \in Msgrs, NEW M \in MsgrStates,
           SameRegs(msgr[m], M), SameProc(msgr[m], M), SameQueue(msgr[m], M),
           "dispatcher" \in M.flags <=> "dispatcher" \in msgr[m].flags,
           pc[t].at = "idle", Head(script[t]).call \in CallNames, start_lock[m] = None,
           ~Shut(m), ProcessorStop(t, m, M),
           Head(script[t]).call = "shutdown" => "started" \in M.flags /\ "shutdown_called" \in M.flags,
           conn' = conn, overlap' = overlap, barrier_count' = barrier_count
    PROVE  ShutInv'
<1>1. Types /\ Locking /\ msgr[m] \in MsgrStates
  BY DEF SInv, Inv, ProcInv, Types
<1>2. pc[t].at \notin InBarrierAt
  BY DEF InBarrierAt
<1>3. \A u \in Threads : ~Shutting(u, m)
  BY <1>1, NobodyShuts
<1>4. CASE /\ M.listen /\ M.worker # -1
           /\ msgr' = [msgr EXCEPT ![m] = [M EXCEPT !.stopped = FALSE]]
           /\ events' = Post(events, M.worker, "C_ProcessorStop", m)
           /\ Continue(t, m, "listening")
  <2>1. PICK R : R = [M EXCEPT !.stopped = FALSE]
    OBVIOUS
  <2>2. R \in MsgrStates /\ SameRegs(msgr[m], R) /\ SameQueue(msgr[m], R) /\ R.flags = M.flags
    BY <2>1 DEF MsgrStates, SameRegs, SameQueue
  <2>3. msgr' = [msgr EXCEPT ![m] = R]
    BY <1>4, <2>1
  <2>4. msgr'[m] = R /\ \A n \in Msgrs : n # m => msgr'[n] = msgr[n]
    BY <1>1, <2>2, <2>3, OneMsgr
  <2>5. pc'[t].at = "listening" /\ pc'[t].m = m /\ pc'[t].i = 0
        /\ pc'[t].call = Head(script[t]).call /\ \A u \in Threads : u # t => pc'[u] = pc[u]
    BY <1>1, <1>4, Continued DEF Points, LockedAt
  <2>6. KeptLoop(events, events') /\ \A c : KeptOrder(events, events', c)
    <3>1. PICK w : w = M.worker
      OBVIOUS
    <3>2. w \in Workers /\ events' = Post(events, w, "C_ProcessorStop", m)
      BY <1>4, <3>1 DEF MsgrStates
    <3>3. processor_stop(m) \in Events /\ processor_stop(m) # barrier
      BY DEF processor_stop, barrier, Events
    <3>4. Added(events, events', w, processor_stop(m))
      BY <1>1, <3>2, <3>3, PostAdds DEF processor_stop, Types
    <3> QED
      BY <3>2, <3>3, <3>4, AddedLoop
  <2>7. \A u \in Threads : Shutting(u, m)' =>
           "started" \in msgr'[m].flags /\ "shutdown_called" \in msgr'[m].flags
    BY <1>3, <2>2, <2>4, <2>5 DEF Shutting
  <2> QED
    BY <1>2, <2>2, <2>4, <2>5, <2>6, <2>7, StopStep DEF SameRegs
<1>5. CASE /\ msgr' = [msgr EXCEPT ![m] = [M EXCEPT !.listen = FALSE]]
           /\ Continue(t, m, "closed")
           /\ UNCHANGED events
  <2>1. PICK R : R = [M EXCEPT !.listen = FALSE]
    OBVIOUS
  <2>2. R \in MsgrStates /\ SameRegs(msgr[m], R) /\ SameQueue(msgr[m], R) /\ R.flags = M.flags
    BY <2>1 DEF MsgrStates, SameRegs, SameQueue
  <2>3. msgr' = [msgr EXCEPT ![m] = R]
    BY <1>5, <2>1
  <2>4. msgr'[m] = R /\ \A n \in Msgrs : n # m => msgr'[n] = msgr[n]
    BY <1>1, <2>2, <2>3, OneMsgr
  <2>5. pc'[t].at = "closed" /\ pc'[t].m = m /\ pc'[t].i = 0
        /\ pc'[t].call = Head(script[t]).call /\ \A u \in Threads : u # t => pc'[u] = pc[u]
    BY <1>1, <1>5, Continued DEF Points, LockedAt, AfterStop
  <2>6. KeptLoop(events, events') /\ \A c : KeptOrder(events, events', c)
    BY <1>5, SameLoop
  <2>7. \A u \in Threads : Shutting(u, m)' =>
           "started" \in msgr'[m].flags /\ "shutdown_called" \in msgr'[m].flags
    BY <1>3, <2>2, <2>4, <2>5 DEF Shutting
  <2> QED
    BY <1>2, <2>2, <2>4, <2>5, <2>6, <2>7, StopStep DEF SameRegs
<1> QED
  BY <1>4, <1>5 DEF ProcessorStop

\* shutdown(), rebind() and unbind() begin: not on a messenger that is shut.
LEMMA StopCallsShut ==
    ASSUME SInv, NEW t \in Threads, NEW m \in Msgrs,
           shutdown(t, m) \/ rebind(t, m) \/ unbind(t, m)
    PROVE  ShutInv'
<1>1. Types /\ Status(m) /\ msgr[m] \in MsgrStates
  BY DEF SInv, Inv, ShutInv, Types
<1>2. ASSUME NEW call, Locks(t, call, m)
      PROVE  /\ pc[t].at = "idle" /\ start_lock[m] = None /\ pc[t].at \notin InBarrierAt
             /\ Head(script[t]).call = call /\ Head(script[t]).call \in CallNames
  <2>1. Calls(t, call, m) /\ start_lock[m] = None
    BY <1>2 DEF Locks, Begins
  <2>2. pc[t].at = "idle" /\ Head(script[t]) \in [call : CallNames, m : Msgrs, peer : Peers]
    BY <1>1, <2>1, Began
  <2> QED
    BY <2>1, <2>2, Outside DEF Calls
<1>3. SameRegs(msgr[m], msgr[m]) /\ SameProc(msgr[m], msgr[m]) /\ SameQueue(msgr[m], msgr[m])
  BY DEF SameRegs, SameProc, SameQueue
<1>4. CASE shutdown(t, m)
  <2>1. Locks(t, "shutdown", m) /\ conn' = conn /\ overlap' = overlap /\ barrier_count' = barrier_count
    BY <1>4 DEF shutdown, pool
  <2>2. CASE ShutsDown(m)
    <3>1. ProcessorStop(t, m, [msgr[m] EXCEPT !.flags = @ \cup {"shutdown_called"}])
      BY <1>4, <2>2 DEF shutdown
    <3>2. PICK F : F = msgr[m].flags \cup {"shutdown_called"}
      OBVIOUS
    <3>3. F \in SUBSET Flags /\ "started" \in msgr[m].flags
      BY <1>1, <2>2, <3>2 DEF MsgrStates, Flags, ShutsDown, Has
    <3>4. PICK M : M = [msgr[m] EXCEPT !.flags = F]
      OBVIOUS
    <3>5. /\ M \in MsgrStates /\ SameRegs(msgr[m], M) /\ SameProc(msgr[m], M)
          /\ SameQueue(msgr[m], M) /\ M.flags = F
      BY <1>1, <3>3, <3>4, FlagsMsgr
    <3>6. ProcessorStop(t, m, M)
      BY <3>1, <3>2, <3>4
    <3>7. ~Shut(m)
      BY <1>1, <2>2 DEF Status, ShutDown, ShutsDown, Has
    <3>8. /\ "dispatcher" \in M.flags <=> "dispatcher" \in msgr[m].flags
          /\ "started" \in M.flags /\ "shutdown_called" \in M.flags
      BY <3>2, <3>3, <3>5
    <3> QED
      BY <1>2, <2>1, <3>5, <3>6, <3>7, <3>8, StopBegins
  <2>3. CASE ~ShutsDown(m)
    <3>1. Return(t) /\ UNCHANGED <<msgr, events>>
      BY <1>4, <2>3 DEF shutdown
    <3> QED
      BY <1>2, <2>1, <3>1, NothingDone
  <2> QED
    BY <2>2, <2>3
<1>5. CASE rebind(t, m)
  <2>1. Locks(t, "rebind", m)
    BY <1>5 DEF rebind
  <2>2. CASE Abort(t)
    BY <1>2, <2>1, <2>2, AbortShut
  <2>3. CASE /\ Has(m, "did_bind")
             /\ ProcessorStop(t, m, msgr[m])
             /\ UNCHANGED <<conn, pool, aborted, env>>
    <3>1. ~Shut(m)
      BY <1>1, <2>3 DEF Status, ShutDown, Has
    <3> QED
      BY <1>1, <1>2, <1>3, <2>1, <2>3, <3>1, StopBegins DEF pool
  <2> QED
    BY <1>5, <2>2, <2>3 DEF rebind
<1>6. CASE unbind(t, m)
  <2>1. Locks(t, "unbind", m) /\ conn' = conn /\ overlap' = overlap /\ barrier_count' = barrier_count
    BY <1>6 DEF unbind, pool
  <2>2. CASE Has(m, "did_bind")
    <3>1. ProcessorStop(t, m, msgr[m])
      BY <1>6, <2>2 DEF unbind
    <3>2. ~Shut(m)
      BY <1>1, <2>2 DEF Status, ShutDown, Has
    <3> QED
      BY <1>1, <1>2, <1>3, <2>1, <3>1, <3>2, StopBegins
  <2>3. CASE ~Has(m, "did_bind")
    <3>1. Return(t) /\ UNCHANGED <<msgr, events>>
      BY <1>6, <2>3 DEF unbind
    <3> QED
      BY <1>2, <2>1, <3>1, NothingDone
  <2> QED
    BY <2>2, <2>3
<1> QED
  BY <1>4, <1>5, <1>6

\* Processor::stop() ends.
LEMMA ProcessorStoppedShut ==
    ASSUME SInv, NEW t \in Threads, NEW m \in Msgrs, ProcessorStopped(t, m)
    PROVE  ShutInv'
<1>1. Types /\ Status(m) /\ LoopBounds /\ msgr[m] \in MsgrStates
  BY DEF SInv, Inv, ShutInv, LoopInv, Types
<1>2. pc[t].at = "listening" /\ pc[t].m = m /\ pc[t].at \notin InBarrierAt
  BY DEF ProcessorStopped, At, InBarrierAt
<1>3. pc[t].i = 0
  BY <1>1, <1>2 DEF LoopBounds
<1>4. Goto(t, "closed") /\ "closed" \in Points
  BY DEF ProcessorStopped, Points, LockedAt, AfterStop
<1>5. /\ pc'[t].at = "closed" /\ pc'[t].m = m /\ pc'[t].i = 0 /\ pc'[t].call = pc[t].call
      /\ \A u \in Threads : u # t => pc'[u] = pc[u]
  BY <1>1, <1>2, <1>3, <1>4, Moved
<1>6. PICK R : R = [msgr[m] EXCEPT !.worker = -1, !.listen = FALSE]
  OBVIOUS
<1>7. /\ R \in MsgrStates /\ SameRegs(msgr[m], R) /\ SameQueue(msgr[m], R)
      /\ R.flags = msgr[m].flags
  BY <1>1, <1>6 DEF MsgrStates, SameRegs, SameQueue
<1>8. msgr' = [msgr EXCEPT ![m] = R]
  BY <1>1, <1>6 DEF ProcessorStopped, Types
<1>9. msgr'[m] = R /\ \A n \in Msgrs : n # m => msgr'[n] = msgr[n]
  BY <1>1, <1>7, <1>8, OneMsgr
<1>10. ~Shut(m)
  BY <1>2, NotYetShut
<1>11. \A u \in Threads : Shutting(u, m)' => Shutting(u, m)
  BY <1>2, <1>5 DEF Shutting
<1>12. \A u \in Threads : Shutting(u, m)' =>
          "started" \in msgr'[m].flags /\ "shutdown_called" \in msgr'[m].flags
  BY <1>1, <1>7, <1>9, <1>11 DEF Status, ShutDown
<1>13. conn' = conn /\ events' = events /\ overlap' = overlap /\ barrier_count' = barrier_count
  BY DEF ProcessorStopped, pool
<1>14. KeptLoop(events, events') /\ \A c : KeptOrder(events, events', c)
  BY <1>13, SameLoop
<1> QED
  BY <1>2, <1>5, <1>7, <1>9, <1>10, <1>12, <1>13, <1>14, StopStep DEF SameRegs

-----------------------------------------------------------------------------
(***************************************************************************)
(* mark_down_all().                                                        *)
(***************************************************************************)
\* Connections may be stopping now, but are else as they were.
LEMMA ConnsAlike ==
    ASSUME \A c \in ConnIds : SameConn(conn[c], conn'[c]), NEW n \in Msgrs,
           msgr'[n].gen = msgr[n].gen
    PROVE  ConnsKeep(n)
<1> SUFFICES ASSUME NEW c \in ConnIds
             PROVE  /\ conn'[c].m = n /\ conn'[c].state = "ACCEPTING" /\ conn'[c].gen = msgr'[n].gen =>
                          conn[c].m = n /\ conn[c].state = "ACCEPTING" /\ conn[c].gen = msgr[n].gen
                    /\ conn'[c].m = n /\ Stale(c)' => conn[c].m = n /\ Stale(c)
                    /\ conn[c].m = n /\ conn[c].gen = msgr[n].gen =>
                          conn'[c].m = n /\ conn'[c].gen = msgr'[n].gen
  BY DEF ConnsKeep
<1>1. conn'[c].m = conn[c].m /\ conn'[c].state = conn[c].state /\ conn'[c].gen = conn[c].gen
  BY DEF SameConn
<1>2. conn'[c].m = n /\ Stale(c)' => Stale(c)
  BY <1>1 DEF Stale
<1> QED
  BY <1>1, <1>2

\* So is one of them whose messenger has not marked all down.
LEMMA StaleAlike ==
    ASSUME NEW c \in ConnIds, SameConn(conn[c], conn'[c]),
           msgr'[conn[c].m].gen = msgr[conn[c].m].gen, KeptOrder(events, events', c)
    PROVE  StaysStale(c)
<1>1. /\ conn'[c].m = conn[c].m /\ conn'[c].state = conn[c].state /\ conn'[c].gen = conn[c].gen
      /\ conn'[c].worker = conn[c].worker
  BY DEF SameConn
<1>2. Stale(c)' => Stale(c)
  BY <1>1 DEF Stale
<1> QED
  BY <1>1, <1>2 DEF StaysStale

\* C_stop is not C_barrier.
LEMMA StopsNotBarrier ==
    ASSUME NEW m
    PROVE  barrier \notin StopsOf(m)
BY DEF StopsOf, stop, barrier

\* The application calls mark_down_all().
LEMMA CallMarkDownAllShut ==
    ASSUME SInv, NEW t \in Threads, NEW m \in Msgrs, CallMarkDownAll(t, m)
    PROVE  ShutInv'
<1>1. Types /\ Made1 /\ \A n \in Msgrs : Status(n)
  BY DEF SInv, ShutInv, Inv, ConnInv
<1>2. pc[t].at = "idle" /\ pc[t].at \notin InBarrierAt
  BY Outside DEF CallMarkDownAll, Begins, Calls
<1>3. mark_down_all(m) /\ Return(t) /\ msgr' = msgr /\ overlap' = overlap /\ barrier_count' = barrier_count
  BY DEF CallMarkDownAll, pool
<1>4. pc'[t].at = "idle" /\ \A u \in Threads : u # t => pc'[u] = pc[u]
  BY <1>1, <1>3, Returned
<1>5. Grown(events, events', StopsOf(m))
  BY <1>1, <1>3, MarkDownAll
<1>6. KeptLoop(events, events') /\ \A c : KeptOrder(events, events', c)
  BY <1>5, StopsNotBarrier, GrownLoop
<1>7. \A c \in ConnIds : SameConn(conn[c], conn'[c])
  BY <1>1, <1>3, MarkedConns
<1>8. \A c \in ConnIds : StaysStale(c)
  BY <1>3, <1>6, <1>7, StaleAlike
<1>9. LoopInv' /\ \A n : ThreadsKeep(n)
  BY <1>2, <1>3, <1>4, <1>6, <1>8, Outside, ConnStep
<1>10. \A n \in Msgrs : ConnsKeep(n)
  BY <1>3, <1>7, ConnsAlike
<1>11. \A n \in Msgrs : Status(n)'
  BY <1>1, <1>3, <1>9, <1>10, StatusSame
<1> QED
  BY <1>9, <1>11 DEF ShutInv

\* rebind() and shutdown() call it: all connections become old ones.
LEMMA MarkAllDownShut ==
    ASSUME SInv, NEW t \in Threads, NEW m \in Msgrs, MarkAllDown(t, m)
    PROVE  ShutInv'
<1>1. /\ Types /\ Made1 /\ Locking /\ LoopInv /\ LoopBounds /\ \A n \in Msgrs : Status(n)
      /\ msgr[m] \in MsgrStates
  BY DEF SInv, ShutInv, Inv, ConnInv, ProcInv, LoopInv, Types
<1>2. pc[t].at = "closed" /\ pc[t].m = m /\ pc[t].call \in {"rebind", "shutdown"}
  BY DEF MarkAllDown, At
<1>3. mark_down_all(m) /\ overlap' = overlap /\ barrier_count' = barrier_count
  BY DEF MarkAllDown, pool
<1>4. PICK where : where = IF pc[t].call = "rebind" THEN "rebind" ELSE "barrier"
  OBVIOUS
<1>5. Goto(t, where) /\ where \in Points
  BY <1>4 DEF MarkAllDown, Points, LockedAt, AfterStop, InBarrierAt
<1>6. /\ pc'[t].at = where /\ pc'[t].m = m /\ pc'[t].i = 0 /\ pc'[t].call = pc[t].call
      /\ \A u \in Threads : u # t => pc'[u] = pc[u]
  <2>1. pc[t].i = 0
    BY <1>1, <1>2 DEF LoopBounds
  <2> QED
    BY <1>1, <1>2, <1>5, <2>1, Moved
<1>7. PICK off : off = Unbinds(pc[t].call)
  OBVIOUS
<1>8. PICK R : R = [msgr[m] EXCEPT !.flags = msgr[m].flags \ off, !.gen = msgr[m].gen + 1]
  OBVIOUS
<1>9. msgr[m].gen \in Nat /\ msgr[m].gen + 1 \in Nat /\ msgr[m].flags \ off \in SUBSET Flags
  BY <1>1 DEF MsgrStates
<1>10. /\ R \in MsgrStates /\ SameProc(msgr[m], R) /\ SameQueue(msgr[m], R)
       /\ R.flags = msgr[m].flags \ off /\ R.gen = msgr[m].gen + 1
  BY <1>1, <1>8, <1>9 DEF MsgrStates, SameProc, SameQueue
<1>11. msgr' = [msgr EXCEPT ![m] = R]
  BY <1>1, <1>7, <1>8 DEF MarkAllDown, SetFlags, Types
<1>12. msgr'[m] = R /\ \A n \in Msgrs : n # m => msgr'[n] = msgr[n]
  BY <1>1, <1>10, <1>11, OneMsgr
<1>13. KeptLoop(events, events') /\ \A c : KeptOrder(events, events', c)
  BY <1>1, <1>3, MarkDownAll, StopsNotBarrier, GrownLoop
<1>14. \A c \in ConnIds : SameConn(conn[c], conn'[c])
  BY <1>1, <1>3, MarkedConns
<1>15. \A u \in Threads : pc[u].at \in LockedAt /\ pc[u].m = m => u = t
  BY <1>1, <1>2, OneLocker DEF LockedAt, AfterStop
<1>16. LoopSame /\ LoopBounds'
  <2>1. ~Active(t) /\ ~Active(t)'
    BY <1>2, <1>4, <1>6 DEF Active, InBarrierAt
  <2>2. pc[t].at # "inc" /\ pc'[t].at # "inc"
    BY <1>2, <1>4, <1>6
  <2>3. LoopSame
    BY <1>6, <2>1, <2>2 DEF LoopSame, Active, Posted
  <2>4. 0 < NumWorkers
    BY ConstantsAssumption
  <2>5. LoopBounds'
    BY <1>1, <1>4, <1>6, <2>4 DEF LoopBounds
  <2> QED
    BY <2>3, <2>5
<1>17. ASSUME NEW u \in Threads, NEW c \in ConnIds, Active(u), conn'[c].m = pc[u].m
       PROVE  StaysStale(c)
  <2>1. pc[u].at \in LockedAt /\ u # t
    BY <1>2, <1>17 DEF Active, LockedAt, AfterStop, InBarrierAt
  <2>2. conn[c].m # m /\ pc[u].m \in Msgrs
    BY <1>1, <1>14, <1>15, <1>17, <2>1 DEF SameConn, Locking
  <2>3. conn[c].m \in Msgrs
    BY <1>14, <1>17, <2>2 DEF SameConn
  <2>4. msgr'[conn[c].m].gen = msgr[conn[c].m].gen
    BY <1>12, <2>2, <2>3
  <2> QED
    BY <1>13, <1>14, <2>4, StaleAlike
<1>18. LoopInv'
  BY <1>1, <1>3, <1>13, <1>16, <1>17, LoopFrame
<1>19. ASSUME NEW n \in Msgrs, n # m PROVE Status(n)'
  <2>1. ThreadsKeep(n)
    BY <1>6, <1>19 DEF ThreadsKeep, Shutting
  <2>2. ConnsKeep(n)
    BY <1>12, <1>14, <1>19, ConnsAlike
  <2> QED
    BY <1>1, <1>3, <1>12, <1>19, <2>1, <2>2, StatusSame
<1>20. ~msgr[m].stop /\ ~Shut(m) /\ \A u \in Threads : u # t => ~Shutting(u, m)
  BY <1>2, NotYetShut
<1>21. ~msgr'[m].stop /\ SameQueue(msgr[m], msgr'[m])
  BY <1>10, <1>12, <1>20 DEF SameQueue
<1>22. \A u \in Threads : ~Shutting(u, m)'
  BY <1>4, <1>6, <1>20 DEF Shutting
<1>23. Queues(m)'
  <2>1. "dispatcher" \in msgr'[m].flags <=> "dispatcher" \in msgr[m].flags
    BY <1>7, <1>10, <1>12 DEF Unbinds
  <2>2. \A u \in Threads : pc'[u].at = "relock" => pc'[u] = pc[u]
    BY <1>4, <1>6
  <2> QED
    BY <1>1, <1>21, <2>1, <2>2 DEF Status, Queues, SameQueue
<1>24. CASE pc[t].call = "rebind"
  <2>1. ~Shut(m)'
    BY <1>4, <1>6, <1>20, <1>21, <1>24 DEF Shut, ShutAt, InBarrierAt
  <2>2. Status(m)'
    BY <1>22, <1>23, <2>1, OpenStatus
  <2> QED
    BY <1>18, <1>19, <2>2 DEF ShutInv
<1>25. CASE pc[t].call = "shutdown"
  <2>1. "started" \in msgr[m].flags /\ "shutdown_called" \in msgr[m].flags
    BY <1>1, <1>2, <1>25 DEF Status, ShutDown, Shutting
  <2>2. /\ "did_bind" \notin msgr'[m].flags
        /\ "started" \in msgr'[m].flags /\ "shutdown_called" \in msgr'[m].flags
    BY <1>7, <1>10, <1>12, <1>25, <2>1 DEF Unbinds
  <2>3. ~msgr'[m].listen /\ msgr'[m].worker = -1
    <3>1. ~msgr[m].listen /\ msgr[m].worker = -1
      BY <1>1, <1>2 DEF Locking, LockedAt, AfterStop
    <3> QED
      BY <1>10, <1>12, <3>1 DEF SameProc
  <2>4. ASSUME NEW c \in ConnIds, conn'[c].m = m, conn'[c].state = "ACCEPTING"
        PROVE  conn'[c].gen # msgr'[m].gen
    <3>1. conn[c].m = m /\ conn[c].state # "NONE" /\ conn'[c].gen = conn[c].gen /\ conn[c].gen \in Nat
      BY <1>14, <2>4 DEF SameConn
    <3>2. conn[c].gen <= msgr[m].gen
      BY <1>1, <3>1 DEF Made1
    <3> QED
      BY <1>9, <1>10, <1>12, <3>1, <3>2
  <2>5. ShutDown(m)'
    BY <1>21, <1>22, <2>2, <2>3, <2>4 DEF ShutDown
  <2>6. ~Passed(m)'
    <3>1. \A u \in Threads : ~(pc'[u].at = "finish" /\ pc'[u].m = m)
      BY <1>4, <1>6, <1>15, <1>25 DEF LockedAt, AfterStop
    <3> QED
      BY <1>21, <3>1 DEF Passed
  <2>7. Closed(m)'
    BY <1>21, <2>6 DEF Closed
  <2> QED
    BY <1>18, <1>19, <1>23, <2>5, <2>7 DEF ShutInv, Status
<1> QED
  BY <1>2, <1>24, <1>25

-----------------------------------------------------------------------------
(***************************************************************************)
(* barrier().                                                              *)
(***************************************************************************)
\* The workers that have still to come to the barrier are finitely many.
LEMMA PendingFinite ==
    IsFiniteSet(Workers) /\ IsFiniteSet(Pending) /\ IsFiniteSet(Pending')
<1>1. NumWorkers \in Nat \ {0}
  BY ConstantsAssumption
<1>2. 0 \in Int /\ NumWorkers - 1 \in Int
  BY <1>1
<1>3. IsFiniteSet(Workers)
  BY <1>2, FS_Interval DEF Workers
<1>4. Pending \subseteq Workers /\ Pending' \subseteq Workers
  BY DEF Pending
<1> QED
  BY <1>3, <1>4, FS_Subset

\* A thread goes on in barrier(), so messengers are shut as before.
LEMMA BarrierStatus ==
    ASSUME SInv, NEW t \in Threads, \A u \in Threads : u # t => pc'[u] = pc[u],
           pc[t].at \in InBarrierAt, pc'[t].at \in InBarrierAt, pc'[t].m = pc[t].m,
           msgr' = msgr, conn' = conn, overlap => overlap'
    PROVE  \A n \in Msgrs : Status(n)'
<1>1. Made1 /\ \A n \in Msgrs : Status(n)
  BY DEF SInv, ShutInv, Inv, ConnInv
<1>2. \A n \in Msgrs : ThreadsKeep(n)
  <2>1. pc[t].at \in LockedAt /\ pc[t].at \in ShutAt
    BY DEF LockedAt, AfterStop, ShutAt
  <2>2. pc'[t].at \notin {"finish", "relock", "listening", "closed"}
    BY DEF InBarrierAt
  <2>3. ASSUME NEW n \in Msgrs, NEW u \in Threads, pc'[u].m = n
        PROVE  /\ pc'[u].at \in LockedAt => pc[u].m = n /\ pc[u].at \in LockedAt
               /\ pc'[u].at \in ShutAt => pc[u].m = n /\ pc[u].at \in ShutAt
               /\ pc'[u].at = "finish" => pc[u].m = n /\ pc[u].at = "finish"
               /\ pc'[u].at = "relock" => pc[u].m = n /\ pc[u].at = "relock"
               /\ Shutting(u, n)' => Shutting(u, n)
    <3>1. CASE u = t
      BY <2>1, <2>2, <2>3, <3>1 DEF Shutting
    <3>2. CASE u # t
      BY <2>3, <3>2 DEF Shutting
    <3> QED
      BY <3>1, <3>2
  <2> QED
    BY <2>3 DEF ThreadsKeep
<1>3. \A n \in Msgrs : ConnsKeep(n)
  BY <1>1, ConnsSame
<1> QED
  BY <1>1, <1>2, <1>3, StatusSame

\* barrier() posts C_barrier to worker i, which has none if it is alone there: what
\* the worker had to stop comes first.
LEMMA BarrierPostShut ==
    ASSUME SInv, NEW t \in Threads, NEW m \in Msgrs, barrier_post(t, m)
    PROVE  ShutInv'
<1>1. /\ Types /\ Made1 /\ LoopBounds /\ Barriers /\ StopsFirst
      /\ \A c \in ConnIds : StopsIn(events, c)
  BY DEF SInv, ShutInv, Inv, ConnInv, LoopInv
<1>2. pc[t].at = "barrier" /\ pc[t].m = m /\ Goto(t, "inc") /\ "inc" \in Points
  BY DEF barrier_post, At, Points, LockedAt, AfterStop, InBarrierAt
<1>3. /\ msgr' = msgr /\ conn' = conn /\ barrier_count' = barrier_count
      /\ overlap' = (overlap \/ \E u \in Threads \ {t} : InBarrier(u))
  BY DEF barrier_post
<1>4. PICK i : i = pc[t].i
  OBVIOUS
<1>5. i \in Nat /\ i < NumWorkers /\ i \in Workers
  <2>1. pc[t] \in PcStates
    BY <1>1 DEF Types
  <2>2. i \in Nat /\ i < NumWorkers /\ NumWorkers \in Nat
    BY <1>1, <1>2, <1>4, <2>1, ConstantsAssumption DEF PcStates, LoopBounds
  <2>3. i \in 0 .. (NumWorkers - 1)
    BY <2>2
  <2> QED
    BY <2>2, <2>3 DEF Workers
<1>6. /\ pc'[t].at = "inc" /\ pc'[t].m = pc[t].m /\ pc'[t].i = i
      /\ \A u \in Threads : u # t => pc'[u] = pc[u]
  BY <1>1, <1>2, <1>4, Moved
<1>7. barrier \in Events
  BY DEF barrier, Events
<1>8. events' = Post(events, i, "C_barrier", None)
  BY <1>4 DEF barrier_post
<1>9. Added(events, events', i, barrier)
  BY <1>1, <1>5, <1>7, <1>8, PostAdds DEF Types, barrier
<1>10. \A n \in Msgrs : Status(n)'
  BY <1>2, <1>3, <1>6, BarrierStatus DEF InBarrierAt
<1>11. LoopBounds'
  BY <1>1, <1>2, <1>4, <1>5, <1>6 DEF LoopBounds
<1>12. CASE overlap'
  BY <1>10, <1>11, <1>12 DEF ShutInv, LoopInv, Barriers, StopsFirst
<1>13. CASE ~overlap'
  <2>1. ~overlap /\ \A u \in Threads : u # t => pc[u].at \notin InBarrierAt
    BY <1>3, <1>13 DEF InBarrier, InBarrierAt
  <2>2. /\ \A u \in Threads : Active(u) \/ Active(u)' => u = t
        /\ Active(t)' /\ Posted(t)' = i + 1
    BY <1>6, <2>1 DEF Active, Posted, InBarrierAt
  <2>3. Active(t) <=> i > 0
    BY <1>2, <1>4 DEF Active, InBarrierAt
  <2>4. Posted(t) = i
    BY <1>2, <1>4 DEF Posted
  <2>5. ~Queued(events, i, barrier)
    <3> SUFFICES ASSUME Queued(events, i, barrier) PROVE FALSE
      OBVIOUS
    <3>1. i \in Pending
      BY <1>5 DEF Pending
    <3>2. PICK u \in Threads : Active(u) /\ i < Posted(u)
      BY <1>1, <2>1, <3>1 DEF Barriers
    <3>3. i < i
      BY <2>2, <2>4, <3>2
    <3> QED
      BY <1>5, <3>3
  <2>6. \A w \in Workers : Single(events', w)
    <3>1. \A w \in Workers : Single(events, w)
      BY <1>1, <2>1 DEF Barriers
    <3>2. \A k \in DOMAIN events[i] : events[i][k] # barrier
      BY <2>5 DEF Queued
    <3> SUFFICES ASSUME NEW w \in Workers, NEW j \in DOMAIN events'[w], NEW k \in DOMAIN events'[w],
                        events'[w][j] = barrier, events'[w][k] = barrier
                 PROVE  j = k
      BY DEF Single
    <3>3. CASE w = i
      <4>1. j = Len(events[i]) + 1 /\ k = Len(events[i]) + 1
        BY <1>9, <3>2, <3>3 DEF Added
      <4> QED
        BY <4>1
    <3>4. CASE w # i
      <4>1. j \in DOMAIN events[w] /\ k \in DOMAIN events[w]
            /\ events[w][j] = barrier /\ events[w][k] = barrier
        BY <1>9, <3>4 DEF Added
      <4> QED
        BY <3>1, <4>1 DEF Single
    <3> QED
      BY <3>3, <3>4
  <2>7. Pending' = Pending \cup {i} /\ i \notin Pending
    <3>1. i \notin Pending
      BY <2>5 DEF Pending
    <3>2. ASSUME NEW w \in Workers
          PROVE  Queued(events', w, barrier) <=> Queued(events, w, barrier) \/ w = i
      <4>1. CASE w = i
        BY <1>9, <4>1 DEF Queued, Added
      <4>2. CASE w # i
        BY <1>9, <4>2 DEF Queued, Added
      <4> QED
        BY <4>1, <4>2
    <3> QED
      BY <1>5, <3>1, <3>2 DEF Pending
  <2>8. \A w \in Pending' : \E u \in Threads : Active(u)' /\ w < Posted(u)'
    <3> SUFFICES ASSUME NEW w \in Pending' PROVE w < i + 1
      BY <2>2
    <3>1. CASE w = i
      BY <1>5, <3>1
    <3>2. CASE w \in Pending
      <4>1. PICK u \in Threads : Active(u) /\ w < Posted(u)
        BY <1>1, <2>1, <3>2 DEF Barriers
      <4>2. w < i /\ w \in Int
        BY <2>2, <2>4, <3>2, <4>1 DEF Pending, Workers
      <4> QED
        BY <1>5, <4>2
    <3> QED
      BY <2>7, <3>1, <3>2
  <2>9. Uncounted = {} /\ Uncounted' # {}
    BY <1>2, <1>6, <2>1 DEF Uncounted, InBarrierAt
  <2>10. Cardinality(Pending') = Cardinality(Pending) + 1
    BY <2>7, PendingFinite, FS_AddElement
  <2>11. Cardinality(Pending) = barrier_count + 0
    BY <1>1, <2>1, <2>9 DEF Barriers
  <2>12. Cardinality(Pending') = barrier_count' + 1
    BY <1>1, <1>3, <2>10, <2>11 DEF Types
  <2>13. Barriers'
    BY <2>2, <2>6, <2>8, <2>9, <2>12 DEF Barriers
  <2>14. StopsFirst'
    <3> SUFFICES ASSUME NEW u \in Threads, NEW c \in ConnIds, Active(u)', Stale(c)',
                        conn'[c].m = pc'[u].m, conn'[c].worker < Posted(u)'
                 PROVE  Ordered(events', conn'[c].worker, c)
      BY DEF StopsFirst
    <3>1. u = t /\ Stale(c) /\ conn[c].m = pc[t].m /\ conn[c].worker < i + 1
      BY <1>3, <1>6, <2>2 DEF Stale
    <3>2. PICK w \in Workers : w = conn[c].worker
      BY <1>1, <3>1 DEF Made1, Stale
    <3>3. w \in Nat
      BY <3>2 DEF Workers
    <3>4. CASE w = i
      <4>1. Queued(events, w, stop(c))
        BY <1>1, <3>1, <3>2 DEF StopsIn
      <4>2. PICK j \in DOMAIN events[i] : events[i][j] = stop(c)
        BY <3>4, <4>1 DEF Queued
      <4>3. /\ j \in DOMAIN events'[i] /\ events'[i][j] = stop(c) /\ j < Len(events[i]) + 1
            /\ Len(events[i]) + 1 \in DOMAIN events'[i]
            /\ events'[i][Len(events[i]) + 1] = barrier
        BY <1>5, <1>9, <4>2 DEF Added
      <4>4. Ordered(events', i, c)
        BY <4>3 DEF Ordered
      <4> QED
        BY <1>3, <3>2, <3>4, <4>4
    <3>5. CASE w # i
      <4>1. w < i /\ i > 0
        BY <1>5, <3>1, <3>2, <3>3, <3>5
      <4>2. Ordered(events, w, c)
        BY <1>1, <2>1, <2>3, <2>4, <3>1, <3>2, <4>1 DEF StopsFirst
      <4>3. PICK j, k \in DOMAIN events[w] :
               j < k /\ events[w][j] = stop(c) /\ events[w][k] = barrier
        BY <4>2 DEF Ordered
      <4>4. j \in DOMAIN events'[w] /\ k \in DOMAIN events'[w]
            /\ events'[w][j] = stop(c) /\ events'[w][k] = barrier
        BY <1>9, <4>3 DEF Added
      <4>5. Ordered(events', w, c)
        BY <4>3, <4>4 DEF Ordered
      <4> QED
        BY <1>3, <3>2, <4>5
    <3> QED
      BY <3>4, <3>5
  <2> QED
    BY <1>10, <1>11, <2>13, <2>14 DEF ShutInv, LoopInv
<1> QED
  BY <1>12, <1>13

\* barrier() counts it.
LEMMA BarrierIncShut ==
    ASSUME SInv, NEW t \in Threads, NEW m \in Msgrs, barrier_inc(t, m)
    PROVE  ShutInv'
<1>1. Types /\ Made1 /\ LoopBounds /\ Barriers /\ StopsFirst
  BY DEF SInv, ShutInv, Inv, ConnInv, LoopInv
<1>2. pc[t].at = "inc" /\ pc[t].m = m
  BY DEF barrier_inc, At
<1>3. /\ msgr' = msgr /\ conn' = conn /\ events' = events /\ overlap' = overlap
      /\ barrier_count' = barrier_count + 1
  BY DEF barrier_inc
<1>4. PICK i : i = pc[t].i
  OBVIOUS
<1>5. i \in Nat /\ i < NumWorkers /\ NumWorkers \in Nat /\ pc[t] \in PcStates
  BY <1>1, <1>2, <1>4, ConstantsAssumption DEF Types, PcStates, LoopBounds
<1>6. PICK where : where = IF i + 1 = NumWorkers THEN "barrier_wait" ELSE "barrier"
  OBVIOUS
<1>7. PICK P : P = [pc[t] EXCEPT !.i = i + 1, !.at = where]
  OBVIOUS
<1>8. where \in Points /\ i + 1 \in Nat
  BY <1>5, <1>6 DEF Points, LockedAt, AfterStop, InBarrierAt
<1>9. P \in PcStates /\ P.at = where /\ P.i = i + 1 /\ P.m = pc[t].m
  BY <1>5, <1>7, <1>8 DEF PcStates
<1>10. pc' = [pc EXCEPT ![t] = P]
  BY <1>1, <1>4, <1>6, <1>7 DEF barrier_inc, Types
<1>11. pc'[t] = P /\ \A u \in Threads : u # t => pc'[u] = pc[u]
  BY <1>1, <1>9, <1>10, OnePc
<1>12. pc'[t].at \in {"barrier", "barrier_wait"} /\ pc'[t].i = i + 1 /\ pc'[t].m = pc[t].m
  BY <1>6, <1>9, <1>11
<1>13. \A n \in Msgrs : Status(n)'
  BY <1>2, <1>3, <1>11, <1>12, BarrierStatus DEF InBarrierAt
<1>14. LoopBounds'
  <2>1. pc'[t].at = "barrier" => i + 1 < NumWorkers
    BY <1>5, <1>6, <1>9, <1>11
  <2>2. pc'[t].at = "barrier_wait" => i + 1 = NumWorkers
    BY <1>6, <1>9, <1>11
  <2> QED
    BY <1>1, <1>11, <1>12, <2>1, <2>2 DEF LoopBounds
<1>15. \A u \in Threads : /\ Active(u)' <=> Active(u)
                          /\ Active(u) => pc'[u].m = pc[u].m /\ Posted(u)' = Posted(u)
  <2> SUFFICES ASSUME NEW u \in Threads
               PROVE  /\ Active(u)' <=> Active(u)
                      /\ Active(u) => pc'[u].m = pc[u].m /\ Posted(u)' = Posted(u)
    OBVIOUS
  <2>1. CASE u = t
    <3>1. i + 1 > 0
      BY <1>5
    <3>2. Active(t) /\ Posted(t) = i + 1
      BY <1>2, <1>4 DEF Active, Posted, InBarrierAt
    <3>3. Active(t)' /\ Posted(t)' = i + 1
      BY <1>12, <3>1 DEF Active, Posted, InBarrierAt
    <3> QED
      BY <1>12, <2>1, <3>2, <3>3
  <2>2. CASE u # t
    BY <1>11, <2>2 DEF Active, Posted
  <2> QED
    BY <2>1, <2>2
<1>16. Barriers'
  <2> SUFFICES ASSUME ~overlap PROVE Barriers'
    BY <1>3 DEF Barriers
  <2>1. \A u, v \in Threads : Active(u) /\ Active(v) => u = v
    BY <1>1 DEF Barriers
  <2>2. \A u, v \in Threads : Active(u)' /\ Active(v)' => u = v
    BY <1>15, <2>1
  <2>3. Pending' = Pending /\ \A w \in Workers : Single(events', w)
    BY <1>1, <1>3 DEF Pending, Barriers
  <2>4. \A w \in Pending' : \E u \in Threads : Active(u)' /\ w < Posted(u)'
    BY <1>1, <1>15, <2>3 DEF Barriers
  <2>5. Uncounted = {t} /\ Uncounted' = {}
    <3>1. \A u \in Threads : pc[u].at = "inc" => Active(u)
      BY DEF Active, InBarrierAt
    <3>2. \A u \in Threads : pc[u].at = "inc" => u = t
      BY <1>2, <2>1, <3>1
    <3>3. \A u \in Threads : pc'[u].at # "inc"
      BY <1>11, <1>12, <3>2
    <3> QED
      BY <1>2, <3>2, <3>3 DEF Uncounted
  <2>6. Cardinality(Pending) = barrier_count + 1
    BY <1>1, <2>5 DEF Barriers
  <2>7. Cardinality(Pending') = barrier_count' + 0
    BY <1>1, <1>3, <2>3, <2>6 DEF Types
  <2> QED
    BY <2>2, <2>3, <2>4, <2>5, <2>7 DEF Barriers
<1>17. StopsFirst'
  <2> SUFFICES ASSUME ~overlap, NEW u \in Threads, NEW c \in ConnIds, Active(u)', Stale(c)',
                      conn'[c].m = pc'[u].m, conn'[c].worker < Posted(u)'
               PROVE  Ordered(events', conn'[c].worker, c)
    BY <1>3 DEF StopsFirst
  <2>1. Active(u) /\ conn[c].m = pc[u].m /\ conn[c].worker < Posted(u) /\ Stale(c)
    BY <1>3, <1>15 DEF Stale
  <2> QED
    BY <1>1, <1>3, <2>1 DEF StopsFirst
<1> QED
  BY <1>13, <1>14, <1>16, <1>17 DEF ShutInv, LoopInv

\* A thread that waits in barrier(), alone, and finds barrier_count at zero: every
\* worker has come, so nothing of before is left open.
LEMMA BarrierDone ==
    ASSUME SInv, NEW t \in Threads, pc[t].at = "barrier_wait", ~overlap, barrier_count = 0
    PROVE  Pending = {} /\ \A c \in ConnIds : conn[c].m = pc[t].m => ~Stale(c)
<1>1. Made1 /\ LoopBounds /\ Barriers /\ StopsFirst
  BY DEF SInv, ShutInv, Inv, ConnInv, LoopInv
<1>2. Active(t) /\ Posted(t) = NumWorkers
  BY <1>1 DEF Active, Posted, LoopBounds, InBarrierAt
<1>3. Uncounted = {}
  <2>1. \A u \in Threads : pc[u].at = "inc" => Active(u)
    BY DEF Active, InBarrierAt
  <2>2. \A u \in Threads : pc[u].at = "inc" => u = t
    BY <1>1, <1>2, <2>1 DEF Barriers
  <2> QED
    BY <2>2 DEF Uncounted
<1>4. Cardinality(Pending) = 0
  BY <1>1, <1>3 DEF Barriers
<1>5. Pending = {}
  BY <1>4, PendingFinite, FS_EmptySet
<1>6. ASSUME NEW c \in ConnIds, conn[c].m = pc[t].m, Stale(c) PROVE FALSE
  <2>1. PICK w \in Workers : w = conn[c].worker
    BY <1>1, <1>6 DEF Made1, Stale
  <2>2. w < NumWorkers
    BY <2>1, ConstantsAssumption DEF Workers
  <2>3. Ordered(events, w, c)
    BY <1>1, <1>2, <1>6, <2>1, <2>2 DEF StopsFirst
  <2>4. Queued(events, w, barrier)
    BY <2>3 DEF Ordered, Queued
  <2> QED
    BY <1>5, <2>4 DEF Pending
<1> QED
  BY <1>5, <1>6

\* barrier() waits, or is over.
LEMMA BarrierWaitShut ==
    ASSUME SInv, NEW t \in Threads, NEW m \in Msgrs, barrier_wait(t, m)
    PROVE  ShutInv'
<1>1. Types /\ Made1 /\ Locking /\ LoopInv /\ LoopBounds /\ Barriers /\ StopsFirst
      /\ \A n \in Msgrs : Status(n)
  BY DEF SInv, ShutInv, Inv, ConnInv, ProcInv, LoopInv
<1>2. pc[t].at = "barrier_wait" /\ pc[t].m = m
  BY DEF barrier_wait, At
<1>3. /\ msgr' = msgr /\ conn' = conn /\ events' = events /\ overlap' = overlap
      /\ barrier_count' = barrier_count
  BY DEF barrier_wait, pool
<1>4. CASE ~BarrierPassed
  <2>1. Goto(t, "barrier_sleep") /\ "barrier_sleep" \in Points
    BY <1>4 DEF barrier_wait, Points, LockedAt, AfterStop, InBarrierAt
  <2>2. /\ pc'[t].at = "barrier_sleep" /\ pc'[t].m = pc[t].m /\ pc'[t].i = pc[t].i
        /\ \A u \in Threads : u # t => pc'[u] = pc[u]
    BY <1>1, <2>1, Moved
  <2>3. LoopSame /\ LoopBounds'
    <3>1. Active(t) /\ Active(t)' /\ Posted(t)' = Posted(t)
      BY <1>2, <2>2 DEF Active, Posted, InBarrierAt
    <3>2. LoopSame
      BY <1>2, <2>2, <3>1 DEF LoopSame, Active, Posted
    <3>3. LoopBounds'
      BY <1>1, <1>2, <2>2 DEF LoopBounds
    <3> QED
      BY <3>2, <3>3
  <2>4. KeptLoop(events, events') /\ \A c : KeptOrder(events, events', c)
    BY <1>3, SameLoop
  <2>5. \A c \in ConnIds : StaysStale(c)
    BY <1>1, <1>3, <2>4, ConnsStay
  <2>6. LoopInv'
    BY <1>1, <1>3, <2>3, <2>4, <2>5, LoopFrame
  <2>7. \A n \in Msgrs : Status(n)'
    BY <1>2, <1>3, <2>2, BarrierStatus DEF InBarrierAt
  <2> QED
    BY <2>6, <2>7 DEF ShutInv
<1>5. CASE BarrierPassed
  <2>1. Goto(t, "finish") /\ "finish" \in Points
    BY <1>5 DEF barrier_wait, Points, LockedAt, AfterStop
  <2>2. /\ pc'[t].at = "finish" /\ pc'[t].m = m /\ pc'[t].i = pc[t].i
        /\ \A u \in Threads : u # t => pc'[u] = pc[u]
    BY <1>1, <1>2, <2>1, Moved
  <2>3. LoopBounds'
    BY <1>1, <2>2 DEF LoopBounds
  <2>4. Barriers' /\ StopsFirst'
    <3> SUFFICES ASSUME ~overlap PROVE Barriers' /\ StopsFirst'
      BY <1>3 DEF Barriers, StopsFirst
    <3>1. barrier_count = 0
      BY <1>5 DEF BarrierPassed
    <3>2. Pending = {}
      BY <1>2, <3>1, BarrierDone
    <3>3. Active(t)
      BY <1>2 DEF Active, InBarrierAt
    <3>4. \A u \in Threads : ~Active(u)'
      <4>1. \A u \in Threads : u # t => ~Active(u)
        BY <1>1, <3>3 DEF Barriers
      <4> QED
        BY <2>2, <4>1 DEF Active, InBarrierAt
    <3>5. Pending' = {}
      BY <1>3, <3>2 DEF Pending
    <3>6. Uncounted' = {}
      BY <3>4 DEF Uncounted, Active, InBarrierAt
    <3>7. Cardinality(Pending') = barrier_count' + 0
      <4>1. Cardinality({}) = 0
        BY FS_EmptySet
      <4> QED
        BY <1>3, <3>1, <3>5, <4>1
    <3>8. \A w \in Workers : Single(events', w)
      BY <1>1, <1>3 DEF Barriers
    <3> QED
      BY <3>4, <3>5, <3>6, <3>7, <3>8 DEF Barriers, StopsFirst
  <2>5. ASSUME NEW n \in Msgrs, n # m PROVE Status(n)'
    <3>1. ThreadsKeep(n)
      BY <2>2, <2>5 DEF ThreadsKeep, Shutting
    <3>2. ConnsKeep(n)
      BY <1>1, <1>3, ConnsSame
    <3> QED
      BY <1>1, <1>3, <3>1, <3>2, StatusSame
  <2>6. Shut(m) /\ pc[t].at \in LockedAt
    BY <1>2 DEF Shut, ShutAt, InBarrierAt, LockedAt, AfterStop
  <2>7. \A u \in Threads : Shutting(u, m)' => Shutting(u, m)
    BY <2>2 DEF Shutting
  <2>8. ~msgr[m].stop
    BY <1>1, <1>2, <2>6 DEF Status, ShutDown
  <2>9. ShutDown(m)'
    <3>1. ShutDown(m)
      BY <1>1 DEF Status
    <3> QED
      BY <1>3, <2>6, <2>7, <2>8, <3>1 DEF ShutDown
  <2>10. Queues(m)'
    BY <1>1, <1>3, <2>2 DEF Status, Queues
  <2>11. Closed(m)'
    <3> SUFFICES ASSUME ~overlap PROVE Closed(m)'
      BY <1>3 DEF Closed
    <3>1. \A c \in ConnIds : conn[c].m = m => ~Stale(c)
      BY <1>2, <1>5, BarrierDone DEF BarrierPassed
    <3>2. \A c \in ConnIds : conn'[c].m = m => ~Stale(c)'
      BY <1>3, <3>1 DEF Stale
    <3> QED
      BY <1>3, <2>8, <3>2 DEF Closed
  <2> QED
    BY <2>3, <2>4, <2>5, <2>9, <2>10, <2>11 DEF ShutInv, LoopInv, Status
<1> QED
  BY <1>4, <1>5

\* A worker comes to the barrier: it has no other C_barrier, and nothing to stop
\* behind it.
LEMMA BarrierEventShut ==
    ASSUME SInv, NEW w \in Workers, DoRequest(w), Head(events[w]).kind = "C_barrier"
    PROVE  ShutInv'
<1>1. Types /\ Made1 /\ LoopBounds /\ Barriers /\ StopsFirst /\ \A n \in Msgrs : Status(n)
  BY DEF SInv, ShutInv, Inv, ConnInv, LoopInv
<1>2. /\ events[w] # <<>> /\ barrier_count' = barrier_count - 1 /\ pc' = Signalled /\ msgr' = msgr
      /\ conn' = conn /\ events' = [events EXCEPT ![w] = Tail(@)] /\ overlap' = overlap
  BY DEF DoRequest
<1>3. Taken(events, events', w)
  BY <1>1, <1>2, TakeTakes DEF Types
<1>4. 1 \in DOMAIN events[w] /\ events[w][1] = barrier
  BY <1>3 DEF Taken, Events, barrier
<1>5. ASSUME NEW t \in Threads
      PROVE  /\ pc'[t].m = pc[t].m /\ pc'[t].i = pc[t].i /\ pc'[t].call = pc[t].call
             /\ \/ pc'[t].at = pc[t].at
                \/ pc[t].at = "barrier_sleep" /\ pc'[t].at = "barrier_wait"
  <2>1. pc[t] \in PcStates
    BY <1>1 DEF Types
  <2>2. pc'[t] = IF pc[t].at = "barrier_sleep" THEN [pc[t] EXCEPT !.at = "barrier_wait"]
                                               ELSE pc[t]
    BY <1>2 DEF Signalled
  <2>3. PICK P : P = [pc[t] EXCEPT !.at = "barrier_wait"]
    OBVIOUS
  <2>4. P.at = "barrier_wait" /\ P.m = pc[t].m /\ P.i = pc[t].i /\ P.call = pc[t].call
    BY <2>1, <2>3 DEF PcStates
  <2> QED
    BY <2>2, <2>3, <2>4
<1>6. LoopSame
  BY <1>5 DEF LoopSame, Active, Posted, InBarrierAt
<1>7. LoopBounds'
  BY <1>1, <1>5 DEF LoopBounds
<1>8. \A n \in Msgrs : ThreadsKeep(n)
  BY <1>5 DEF ThreadsKeep, Shutting, LockedAt, AfterStop, InBarrierAt, ShutAt
<1>9. \A n \in Msgrs : Status(n)'
  BY <1>1, <1>2, <1>8, ConnsSame, StatusSame
<1>10. CASE overlap
  BY <1>2, <1>7, <1>9, <1>10 DEF ShutInv, LoopInv, Barriers, StopsFirst
<1>11. CASE ~overlap
  <2>1. \A k \in DOMAIN events[w] : events[w][k] = barrier => k = 1
    BY <1>1, <1>4, <1>11 DEF Barriers, Single
  <2>2. ~Queued(events', w, barrier)
    <3> SUFFICES ASSUME NEW k \in DOMAIN events'[w], events'[w][k] = barrier PROVE FALSE
      BY DEF Queued
    <3>1. k \in Nat \ {0} /\ k + 1 \in DOMAIN events[w] /\ events[w][k + 1] = barrier
      BY <1>3 DEF Taken
    <3>2. k + 1 = 1
      BY <2>1, <3>1
    <3> QED
      BY <3>1, <3>2
  <2>3. \A v \in Workers : v # w => events'[v] = events[v]
    BY <1>3 DEF Taken
  <2>4. \A v \in Workers : Single(events', v)
    <3>1. Single(events', w)
      BY <2>2 DEF Queued, Single
    <3>2. \A v \in Workers : v # w => Single(events', v)
      BY <1>1, <1>11, <2>3 DEF Barriers, Single
    <3> QED
      BY <3>1, <3>2
  <2>5. w \in Pending /\ Pending' = Pending \ {w}
    BY <1>4, <2>2, <2>3 DEF Pending, Queued
  <2>6. Cardinality(Pending') = Cardinality(Pending) - 1
    BY <2>5, PendingFinite, FS_RemoveElement
  <2>7. \A v \in Pending' : \E t \in Threads : Active(t)' /\ v < Posted(t)'
    <3> SUFFICES ASSUME NEW v \in Pending' PROVE \E t \in Threads : Active(t)' /\ v < Posted(t)'
      OBVIOUS
    <3>1. PICK t \in Threads : Active(t) /\ v < Posted(t)
      BY <1>1, <1>11, <2>5 DEF Barriers
    <3> QED
      BY <1>6, <3>1 DEF LoopSame
  <2>8. Uncounted' = Uncounted
    BY <1>6 DEF LoopSame, Uncounted
  <2>9. PICK one \in {0, 1} : one = IF Uncounted = {} THEN 0 ELSE 1
    OBVIOUS
  <2>10. Cardinality(Pending) = barrier_count + one
    BY <1>1, <1>11, <2>9 DEF Barriers
  <2>11. Cardinality(Pending') = barrier_count' + one
    <3>1. barrier_count \in Int
      BY <1>1 DEF Types
    <3> QED
      BY <1>2, <2>6, <2>10, <3>1
  <2>12. \A t, u \in Threads : Active(t)' /\ Active(u)' => t = u
    BY <1>1, <1>6, <1>11 DEF Barriers, LoopSame
  <2>13. Barriers'
    BY <2>4, <2>7, <2>8, <2>9, <2>11, <2>12 DEF Barriers
  <2>14. StopsFirst'
    <3> SUFFICES ASSUME NEW t \in Threads, NEW c \in ConnIds, Active(t)', Stale(c)',
                        conn'[c].m = pc'[t].m, conn'[c].worker < Posted(t)'
                 PROVE  Ordered(events', conn'[c].worker, c)
      BY DEF StopsFirst
    <3>1. Active(t) /\ Stale(c) /\ conn[c].m = pc[t].m /\ conn[c].worker < Posted(t)
      BY <1>2, <1>6 DEF Stale, LoopSame
    <3>2. PICK v \in Workers : v = conn[c].worker
      BY <1>1, <3>1 DEF Made1, Stale
    <3>3. Ordered(events, v, c)
      BY <1>1, <1>11, <3>1, <3>2 DEF StopsFirst
    <3>4. v # w
      <4> SUFFICES ASSUME v = w PROVE FALSE
        OBVIOUS
      <4>1. PICK j, k \in DOMAIN events[w] : j < k /\ events[w][k] = barrier
        BY <3>3 DEF Ordered
      <4>2. j \in Nat \ {0} /\ k = 1
        BY <1>3, <2>1, <4>1 DEF Taken
      <4> QED
        BY <4>1, <4>2
    <3> QED
      BY <1>2, <2>3, <3>2, <3>3, <3>4 DEF Ordered
  <2> QED
    BY <1>7, <1>9, <2>13, <2>14 DEF ShutInv, LoopInv
<1> QED
  BY <1>10, <1>11

-----------------------------------------------------------------------------
(***************************************************************************)
(* The end of shutdown(), and wait().                                      *)
(***************************************************************************)
\* shutdown() stops the dispatch queue and the local connection.
LEMMA FinishShut ==
    ASSUME SInv, NEW t \in Threads, NEW m \in Msgrs, Finish(t, m)
    PROVE  ShutInv'
<1>1. /\ Types /\ Made1 /\ Locking /\ LoopInv /\ LoopBounds /\ msgr[m] \in MsgrStates
      /\ \A n \in Msgrs : Status(n)
  BY DEF SInv, ShutInv, Inv, ConnInv, ProcInv, LoopInv, Types
<1>2. pc[t].at = "finish" /\ pc[t].m = m /\ pc[t].at \notin InBarrierAt /\ pc[t].at \in LockedAt
  BY DEF Finish, At, InBarrierAt, LockedAt, AfterStop
<1>3. CASE Abort(t)
  BY <1>2, <1>3, AbortShut
<1>4. CASE /\ msgr[m].local = "running"
           /\ msgr' = [msgr EXCEPT ![m].local_up = FALSE, ![m].local = "none",
                                   ![m].stop = TRUE]
           /\ Return(t) /\ Unlock(m)
           /\ UNCHANGED <<conn, events, pool, aborted, env>>
  <2>1. PICK R : R = [msgr[m] EXCEPT !.local_up = FALSE, !.local = "none", !.stop = TRUE]
    OBVIOUS
  <2>2. /\ R \in MsgrStates /\ SameRegs(msgr[m], R) /\ R.flags = msgr[m].flags
        /\ R.dispatch = msgr[m].dispatch /\ R.local = "none" /\ R.stop /\ ~R.local_up
        /\ R.listen = msgr[m].listen /\ R.worker = msgr[m].worker
    BY <1>1, <2>1 DEF MsgrStates, SameRegs
  <2>3. msgr' = [msgr EXCEPT ![m] = R]
    BY <1>1, <1>4, <2>1 DEF Types
  <2>4. msgr'[m] = R /\ \A n \in Msgrs : n # m => msgr'[n] = msgr[n]
    BY <1>1, <2>2, <2>3, OneMsgr
  <2>5. pc'[t].at = "idle" /\ \A u \in Threads : u # t => pc'[u] = pc[u]
    BY <1>1, <1>4, Returned
  <2>6. /\ conn' = conn /\ events' = events /\ overlap' = overlap /\ barrier_count' = barrier_count
        /\ \A n \in Msgrs : msgr'[n].gen = msgr[n].gen
    BY <1>4, <2>2, <2>4 DEF pool, SameRegs
  <2>7. KeptLoop(events, events') /\ \A c : KeptOrder(events, events', c)
    BY <2>6, SameLoop
  <2>8. \A c \in ConnIds : StaysStale(c)
    BY <1>1, <2>6, <2>7, ConnsStay
  <2>9. LoopInv' /\ \A n : ThreadsKeep(n)
    BY <1>2, <2>5, <2>6, <2>7, <2>8, Outside, ConnStep
  <2>10. \A n \in Msgrs : ConnsKeep(n)
    BY <1>1, <2>6, ConnsSame
  <2>11. \A n \in Msgrs : n # m => Status(n)'
    BY <1>1, <2>4, <2>6, <2>9, <2>10, StatusSame
  <2>12. Shut(m) /\ Passed(m)
    BY <1>2 DEF Shut, ShutAt, Passed
  <2>13. ShutDown(m)'
    <3>1. /\ "did_bind" \notin msgr'[m].flags
          /\ "started" \in msgr'[m].flags /\ "shutdown_called" \in msgr'[m].flags
          /\ ~msgr'[m].listen /\ msgr'[m].worker = -1
      BY <1>1, <2>2, <2>4, <2>12 DEF Status, ShutDown
    <3>2. \A c \in ConnIds : conn'[c].m = m /\ conn'[c].state = "ACCEPTING" =>
             conn'[c].gen # msgr'[m].gen
      BY <1>1, <2>6, <2>12 DEF Status, ShutDown
    <3>3. \A u \in Threads : pc'[u].at \in LockedAt => pc'[u].m # m
      <4>1. \A u \in Threads : u # t /\ pc[u].at \in LockedAt => pc[u].m # m
        BY <1>1, <1>2, OneLocker
      <4> QED
        BY <2>5, <4>1, Outside
    <3>4. \A u \in Threads : ~Shutting(u, m)'
      BY <3>3 DEF Shutting, LockedAt, AfterStop
    <3> QED
      BY <3>1, <3>2, <3>3, <3>4 DEF ShutDown
  <2>14. Queues(m)'
    <3>1. msgr[m].dispatch = "running" /\ "dispatcher" \in msgr[m].flags
      BY <1>1, <1>4 DEF Status, Queues
    <3>2. \A u \in Threads : ~(pc'[u].at = "relock" /\ pc'[u].m = m)
      BY <1>1, <2>5, <3>1 DEF Status, Queues
    <3> QED
      BY <2>2, <2>4, <3>1, <3>2 DEF Queues
  <2>15. Closed(m)'
    <3> SUFFICES ASSUME ~overlap PROVE Closed(m)'
      BY <2>6 DEF Closed
    <3>1. \A c \in ConnIds : conn[c].m = m => ~Stale(c)
      BY <1>1, <2>12 DEF Status, Closed
    <3>2. \A c \in ConnIds : conn'[c].m = m => ~Stale(c)'
      BY <2>10, <3>1 DEF ConnsKeep
    <3>3. ~msgr'[m].local_up
      BY <2>2, <2>4
    <3> QED
      BY <3>2, <3>3 DEF Closed
  <2> QED
    BY <2>9, <2>11, <2>13, <2>14, <2>15 DEF ShutInv, Status
<1> QED
  BY <1>3, <1>4 DEF Finish

\* wait() has joined the dispatch thread, which can be started again.
LEMMA JoinedShut ==
    ASSUME SInv, NEW t \in Threads, NEW m \in Msgrs, Joined(t, m)
    PROVE  ShutInv'
<1>1. /\ Types /\ Made1 /\ LoopInv /\ LoopBounds /\ msgr[m] \in MsgrStates
      /\ \A n \in Msgrs : Status(n)
  BY DEF SInv, ShutInv, Inv, ConnInv, LoopInv, Types
<1>2. pc[t].at = "join" /\ pc[t].m = m /\ pc[t].at \notin InBarrierAt /\ msgr[m].dispatch = "ended"
  BY Outside DEF Joined, At
<1>3. Goto(t, "relock") /\ "relock" \in Points
  BY DEF Joined, Points
<1>4. pc'[t].at = "relock" /\ pc'[t].m = m /\ \A u \in Threads : u # t => pc'[u] = pc[u]
  BY <1>1, <1>2, <1>3, Moved
<1>5. PICK R : R = [msgr[m] EXCEPT !.dispatch = "none", !.stop = FALSE]
  OBVIOUS
<1>6. /\ R \in MsgrStates /\ SameRegs(msgr[m], R) /\ R.flags = msgr[m].flags
      /\ R.dispatch = "none" /\ R.local = msgr[m].local /\ ~R.stop /\ R.local_up = msgr[m].local_up
      /\ R.listen = msgr[m].listen /\ R.worker = msgr[m].worker
  BY <1>1, <1>5 DEF MsgrStates, SameRegs
<1>7. msgr' = [msgr EXCEPT ![m] = R]
  BY <1>1, <1>5 DEF Joined, Types
<1>8. msgr'[m] = R /\ \A n \in Msgrs : n # m => msgr'[n] = msgr[n]
  BY <1>1, <1>6, <1>7, OneMsgr
<1>9. /\ conn' = conn /\ events' = events /\ overlap' = overlap /\ barrier_count' = barrier_count
      /\ \A n \in Msgrs : msgr'[n].gen = msgr[n].gen
  BY <1>6, <1>8 DEF Joined, pool, SameRegs
<1>10. KeptLoop(events, events') /\ \A c : KeptOrder(events, events', c)
  BY <1>9, SameLoop
<1>11. \A c \in ConnIds : StaysStale(c)
  BY <1>1, <1>9, <1>10, ConnsStay
<1>12. LoopInv'
  <2>1. pc'[t].at \notin InBarrierAt /\ pc'[t].at \notin {"closed", "listening"}
    BY <1>4 DEF InBarrierAt
  <2>2. LoopSame /\ LoopBounds'
    BY <1>1, <1>2, <1>4, <2>1, ThreadLoop
  <2> QED
    BY <1>1, <1>9, <1>10, <1>11, <2>2, LoopFrame
<1>13. \A n \in Msgrs : ConnsKeep(n)
  BY <1>1, <1>9, ConnsSame
<1>14. ASSUME NEW n \in Msgrs, n # m PROVE Status(n)'
  <2>1. ThreadsKeep(n)
    BY <1>4, <1>14 DEF ThreadsKeep, Shutting
  <2> QED
    BY <1>1, <1>8, <1>9, <1>13, <1>14, <2>1, StatusSame
<1>15. /\ \A u \in Threads : pc'[u].at \in LockedAt => pc'[u] = pc[u]
       /\ ShutAt \subseteq LockedAt
  BY <1>4 DEF LockedAt, AfterStop, InBarrierAt, ShutAt
<1>16. Shut(m)' => Shut(m)
  BY <1>6, <1>8, <1>15 DEF Shut
<1>17. \A u \in Threads : Shutting(u, m)' => Shutting(u, m)
  BY <1>15 DEF Shutting, LockedAt, AfterStop
<1>18. ShutDown(m)'
  <2>1. ShutDown(m) /\ ~msgr'[m].stop
    BY <1>1, <1>6, <1>8 DEF Status
  <2> QED
    BY <1>6, <1>8, <1>9, <1>16, <1>17, <2>1 DEF ShutDown
<1>19. Queues(m)'
  <2>1. "dispatcher" \in msgr[m].flags /\ msgr[m].local = "none"
    BY <1>1, <1>2 DEF Status, Queues, MsgrStates
  <2> QED
    BY <1>6, <1>8, <2>1 DEF Queues
<1>20. Closed(m)'
  <2> SUFFICES ASSUME ~overlap PROVE Closed(m)'
    BY <1>9 DEF Closed
  <2>1. Passed(m)' => Passed(m)
    BY <1>4, <1>6, <1>8 DEF Passed
  <2>2. Passed(m)' => \A c \in ConnIds : conn'[c].m = m => ~Stale(c)'
    BY <1>1, <1>13, <2>1 DEF Status, Closed, ConnsKeep
  <2> QED
    BY <1>6, <1>8, <2>2 DEF Closed
<1> QED
  BY <1>12, <1>14, <1>18, <1>19, <1>20 DEF ShutInv, Status

-----------------------------------------------------------------------------
(***************************************************************************)
(* Steps that change one connection.                                       *)
(***************************************************************************)
\* The others do not become old ones.
LEMMA OthersStale ==
    ASSUME Made1, \A n \in Msgrs : msgr'[n].gen = msgr[n].gen, NEW c \in ConnIds,
           \A d \in ConnIds : d # c => conn'[d] = conn[d] /\ KeptOrder(events, events', d),
           StaysStale(c)
    PROVE  \A d \in ConnIds : StaysStale(d)
<1> SUFFICES ASSUME NEW d \in ConnIds, d # c PROVE StaysStale(d)
  OBVIOUS
<1>1. Stale(d)' => Stale(d)
  BY DEF Stale, Made1
<1> QED
  BY <1>1 DEF StaysStale

\* Messenger n has the connections it had.
LEMMA OneConnKeeps ==
    ASSUME Made1, \A k \in Msgrs : msgr'[k].gen = msgr[k].gen, NEW c \in ConnIds,
           \A d \in ConnIds : d # c => conn'[d] = conn[d], \A d \in ConnIds : StaysStale(d),
           NEW n \in Msgrs,
           conn'[c].m = n /\ conn'[c].state = "ACCEPTING" =>
              conn[c].m = n /\ conn[c].state = "ACCEPTING" /\ conn'[c].gen = conn[c].gen,
           conn[c].m = n => conn'[c].m = n /\ conn'[c].gen = conn[c].gen
    PROVE  ConnsKeep(n)
<1> SUFFICES ASSUME NEW d \in ConnIds
             PROVE  /\ conn'[d].m = n /\ conn'[d].state = "ACCEPTING" /\ conn'[d].gen = msgr'[n].gen =>
                          conn[d].m = n /\ conn[d].state = "ACCEPTING" /\ conn[d].gen = msgr[n].gen
                    /\ conn'[d].m = n /\ Stale(d)' => conn[d].m = n /\ Stale(d)
                    /\ conn[d].m = n /\ conn[d].gen = msgr[n].gen =>
                          conn'[d].m = n /\ conn'[d].gen = msgr'[n].gen
  BY DEF ConnsKeep
<1>1. conn'[d].m = n /\ Stale(d)' => conn[d].m = n /\ Stale(d)
  BY DEF StaysStale
<1>2. msgr'[n].gen = msgr[n].gen
  OBVIOUS
<1>3. CASE d = c
  BY <1>1, <1>2, <1>3
<1>4. CASE d # c
  BY <1>1, <1>2, <1>4
<1> QED
  BY <1>3, <1>4

\* A step of a worker or of a thread outside barrier() that changes one connection.
LEMMA OneConnStep ==
    ASSUME SInv, NEW c \in ConnIds, \A n \in Msgrs : msgr'[n].gen = msgr[n].gen,
           \A d \in ConnIds : d # c => conn'[d] = conn[d] /\ KeptOrder(events, events', d),
           StaysStale(c), KeptLoop(events, events'), LoopInv', \A n : ThreadsKeep(n),
           overlap' = overlap,
           \A n \in Msgrs : SameQueue(msgr[n], msgr'[n]) /\ MsgrKeeps(msgr[n], msgr'[n])
                            /\ ("dispatcher" \in msgr'[n].flags <=> "dispatcher" \in msgr[n].flags),
           \A n \in Msgrs :
              /\ conn'[c].m = n /\ conn'[c].state = "ACCEPTING" =>
                    conn[c].m = n /\ conn[c].state = "ACCEPTING" /\ conn'[c].gen = conn[c].gen
              /\ conn[c].m = n => conn'[c].m = n /\ conn'[c].gen = conn[c].gen
    PROVE  ShutInv'
<1>1. Made1 /\ \A n \in Msgrs : Status(n)
  BY DEF SInv, ShutInv, Inv, ConnInv
<1>2. \A d \in ConnIds : StaysStale(d)
  BY <1>1, OthersStale
<1>3. ASSUME NEW n \in Msgrs PROVE Status(n)'
  <2>1. ConnsKeep(n)
    BY <1>1, <1>2, OneConnKeeps
  <2>2. Queues(n)'
    BY <1>1, QueuesKept
  <2> QED
    BY <1>1, <2>1, <2>2, StatusFrame
<1> QED
  BY <1>3 DEF ShutInv

\* mark_down() of a registered connection.
LEMMA MarkDownShut ==
    ASSUME SInv, NEW t \in Threads, NEW m \in Msgrs, mark_down(t, m)
    PROVE  ShutInv'
<1>0. Types /\ Made1 /\ Registered /\ \A n \in Msgrs : Status(n)
  BY DEF SInv, ShutInv, Inv, ConnInv
<1>1. /\ msgr' = msgr /\ overlap' = overlap /\ barrier_count' = barrier_count
  BY DEF mark_down, pool
<1>2. /\ pc[t].at = "idle"
      /\ Head(script[t]) \in [call : CallNames, m : Msgrs, peer : Peers]
  BY <1>0, Began DEF mark_down, Begins
<1>3. PICK c : c = msgr[m].conns[Head(script[t]).peer]
  OBVIOUS
<1>4. "idle" \notin InBarrierAt /\ "idle" \notin LockedAt \cup {"relock"} /\ "closing" \notin LockedAt \cup {"relock"}
  BY DEF LockedAt, AfterStop, InBarrierAt
<1>5. CASE c = None
  <2>1. Return(t) /\ conn' = conn /\ events' = events
    BY <1>3, <1>5 DEF mark_down
  <2>2. /\ pc' \in [Threads -> PcStates] /\ pc'[t].at = "idle"
        /\ \A u \in Threads : u # t => pc'[u] = pc[u]
    BY <1>0, <2>1, Returned
  <2>3. Queues(m)'
    <3>1. \A u \in Threads : pc'[u] = pc[u] \/ pc'[u].at \notin LockedAt \cup {"relock"}
      BY <1>4, <2>2
    <3>2. ThreadsKeep(m)
      BY <3>1, ThreadsStay
    <3> QED
      BY <1>0, <1>1, <3>2, QueuesKept DEF SameQueue
  <2> QED
    BY <1>1, <1>2, <1>4, <2>1, <2>2, <2>3, SameKeeps, SimpleStep
<1>6. CASE c # None
  <2>1. Head(script[t]).peer \in Peers /\ msgr[m].conns \in [Peers -> ConnIds \cup {None}]
    BY <1>0, <1>2 DEF Types, MsgrStates
  <2>2. c \in ConnIds
    BY <1>3, <1>6, <2>1
  <2>3. PICK k \in ConnStates : k = conn[c]
    BY <1>0, <2>2 DEF Types
  <2>4. PICK K : K = [k EXCEPT !.stopping = TRUE]
    BY Zenon
  <2>5. PICK P : P = [Idle EXCEPT !.at = "closing", !.m = m, !.c = c]
    OBVIOUS
  <2>5a. /\ conn' = [conn EXCEPT ![c] = K] /\ pc' = [pc EXCEPT ![t] = P]
         /\ events' = Post(events, conn[c].worker, "C_stop", c)
    <3> DEFINE d == msgr[m].conns[Head(script[t]).peer]
    <3>1. /\ conn' = [conn EXCEPT ![d].stopping = TRUE]
          /\ pc' = [pc EXCEPT ![t] = [Idle EXCEPT !.at = "closing", !.m = m, !.c = d]]
          /\ events' = Post(events, conn[d].worker, "C_stop", d)
      BY <1>3, <1>6, Zenon DEF mark_down
    <3>1a. d = c
      BY <1>3
    <3> HIDE DEF d
    <3>2. conn' = [conn EXCEPT ![c] = K]
      BY <2>3, <2>4, <3>1, <3>1a, Zenon
    <3>3. pc' = [pc EXCEPT ![t] = P] /\ events' = Post(events, conn[c].worker, "C_stop", c)
      BY <2>5, <3>1, <3>1a, Zenon
    <3> QED
      BY <3>2, <3>3
  <2>6. conn[c].worker \in Workers
    BY <1>0, <1>3, <2>1, <2>2 DEF Registered, Made1
  <2>7. K \in ConnStates /\ SameConn(conn[c], K)
    BY <1>0, <2>2, <2>3, <2>4, StoppingConn
  <2>8. P \in PcStates /\ P.at = "closing"
    BY <2>2, <2>5 DEF Idle, PcStates, Points
  <2>9. pc'[t] = P /\ \A u \in Threads : u # t => pc'[u] = pc[u]
    BY <1>0, <2>5a, <2>8, OnePc
  <2>10. conn'[c] = K /\ \A d \in ConnIds \ {c} : conn'[d] = conn[d]
    BY <1>0, <2>2, <2>5a, <2>7 DEF Types
  <2>11. \A d \in ConnIds : SameConn(conn[d], conn'[d])
    BY <1>0, <2>7, <2>10 DEF SameConn, Types, ConnStates
  <2>12. stop(c) \in Events /\ stop(c) # barrier
    BY <2>2 DEF stop, Events, barrier
  <2>13. Added(events, events', conn[c].worker, stop(c))
    BY <1>0, <2>5a, <2>6, <2>12, PostAdds DEF stop, Types
  <2>14. KeptLoop(events, events') /\ \A d : KeptOrder(events, events', d)
    BY <2>6, <2>12, <2>13, AddedLoop
  <2>15. \A d \in ConnIds : StaysStale(d)
    BY <1>1, <2>11, <2>14, StaleAlike
  <2>16. pc[t].at \notin InBarrierAt /\ pc'[t].at \notin LockedAt \cup {"relock"}
    BY <1>2, <1>4, <2>8, <2>9
  <2>17. LoopInv' /\ \A n : ThreadsKeep(n)
    BY <1>1, <2>9, <2>14, <2>15, <2>16, ConnStep
  <2>18. \A n \in Msgrs : ConnsKeep(n)
    BY <1>1, <2>11, ConnsAlike
  <2>19. \A n \in Msgrs : Status(n)'
    BY <1>0, <1>1, <2>17, <2>18, StatusSame
  <2> QED
    BY <2>17, <2>19 DEF ShutInv
<1> QED
  BY <1>5, <1>6

\* A connection is made: of the present time, so not an old one.
LEMMA NewConnStale ==
    ASSUME NEW c \in ConnIds, NEW m \in Msgrs, conn'[c].m = m, conn'[c].gen = msgr'[m].gen,
           msgr'[m].gen \in Nat
    PROVE  StaysStale(c)
BY DEF StaysStale, Stale

\* get_connection() makes one, if there is none for the peer.
LEMMA GetConnectionShut ==
    ASSUME SInv, NEW t \in Threads, NEW m \in Msgrs, get_connection(t, m)
    PROVE  ShutInv'
<1>0. Types /\ Made1 /\ None \notin Msgrs /\ \A n \in Msgrs : Status(n)
  BY ConstantsAssumption DEF SInv, ShutInv, Inv, ConnInv
<1>1. /\ events' = events /\ barrier_count' = barrier_count /\ overlap' = overlap
      /\ Return(t)
  BY DEF get_connection
<1>2. pc[t].at = "idle" /\ Head(script[t]) \in [call : CallNames, m : Msgrs, peer : Peers]
  BY <1>0, Began DEF get_connection, Begins
<1>3. pc'[t].at = "idle" /\ \A u \in Threads : u # t => pc'[u] = pc[u]
  BY <1>0, <1>1, Returned
<1>4. "idle" \notin InBarrierAt /\ "idle" \notin LockedAt \cup {"relock"}
  BY DEF LockedAt, AfterStop, InBarrierAt
<1>5. CASE conn' = conn /\ msgr' = msgr
  <2>1. \A u \in Threads : pc'[u] = pc[u] \/ pc'[u].at \notin LockedAt \cup {"relock"}
    BY <1>3, <1>4
  <2>2. ThreadsKeep(m)
    BY <2>1, ThreadsStay
  <2>3. Queues(m)'
    BY <1>0, <1>5, <2>2, QueuesKept DEF SameQueue
  <2> QED
    BY <1>1, <1>2, <1>3, <1>4, <1>5, <2>3, SameKeeps, SimpleStep
<1>6. CASE msgr[m].conns[Head(script[t]).peer] = None
  <2>0. PICK peer \in Peers : peer = Head(script[t]).peer
    BY <1>2
  <2>1. PICK c \in FreeId :
           /\ seq' = get_worker /\ conn' = NewConn(c, m, peer, "CONNECTING", get_worker)
           /\ msgr' = [msgr EXCEPT ![m].conns[peer] = c]
    BY <1>6, <2>0 DEF get_connection
  <2>2. c \in ConnIds /\ conn[c] = FreeConn
    BY <1>0 DEF FreeId, Made1
  <2>3. msgr[m] \in MsgrStates /\ msgr[m].gen \in Nat /\ get_worker \in Workers
        /\ msgr[m].conns \in [Peers -> ConnIds \cup {None}]
    BY <1>0, WorkerChosen DEF Types, MsgrStates
  <2>4. PICK K : K = [FreeConn EXCEPT !.state = "CONNECTING", !.m = m, !.peer = peer,
                                      !.worker = get_worker, !.gen = msgr[m].gen]
    OBVIOUS
  <2>5. K \in ConnStates /\ K.m = m /\ K.gen = msgr[m].gen /\ K.state = "CONNECTING"
    BY <2>3, <2>4 DEF FreeConn, ConnStates
  <2>6. conn' = [conn EXCEPT ![c] = K]
    BY <2>1, <2>4 DEF NewConn
  <2>7. PICK R : R = [msgr[m] EXCEPT !.conns = [msgr[m].conns EXCEPT ![peer] = c]]
    OBVIOUS
  <2>8. R \in MsgrStates
    BY <2>2, <2>3, <2>7 DEF MsgrStates
  <2>9. /\ R.gen = msgr[m].gen /\ SameQueue(msgr[m], R) /\ MsgrKeeps(msgr[m], R)
        /\ R.flags = msgr[m].flags
    BY <2>3, <2>7 DEF MsgrStates, SameQueue, MsgrKeeps, StillShut
  <2>10. msgr' = [msgr EXCEPT ![m] = R]
    BY <2>1, <2>7
  <2>11. msgr'[m] = R /\ \A n \in Msgrs : n # m => msgr'[n] = msgr[n]
    BY <1>0, <2>8, <2>10, OneMsgr
  <2>12. conn'[c] = K /\ \A d \in ConnIds : d # c => conn'[d] = conn[d]
    BY <1>0, <2>2, <2>5, <2>6 DEF Types
  <2>13. \A n \in Msgrs : /\ msgr'[n].gen = msgr[n].gen
                          /\ SameQueue(msgr[n], msgr'[n]) /\ MsgrKeeps(msgr[n], msgr'[n])
                          /\ ("dispatcher" \in msgr'[n].flags <=> "dispatcher" \in msgr[n].flags)
    BY <2>9, <2>11, SameKeeps DEF SameQueue
  <2>14. StaysStale(c)
    BY <2>2, <2>3, <2>5, <2>9, <2>11, <2>12, NewConnStale
  <2>15. KeptLoop(events, events') /\ \A d : KeptOrder(events, events', d)
    BY <1>1, SameLoop
  <2>16. \A d \in ConnIds : StaysStale(d)
    BY <1>0, <2>2, <2>12, <2>13, <2>14, <2>15, OthersStale
  <2>17. LoopInv' /\ \A n : ThreadsKeep(n)
    BY <1>1, <1>2, <1>3, <1>4, <2>15, <2>16, ConnStep
  <2>18. \A n \in Msgrs :
            /\ conn'[c].m = n /\ conn'[c].state = "ACCEPTING" =>
                  conn[c].m = n /\ conn[c].state = "ACCEPTING" /\ conn'[c].gen = conn[c].gen
            /\ conn[c].m = n => conn'[c].m = n /\ conn'[c].gen = conn[c].gen
    BY <1>0, <2>2, <2>5, <2>12 DEF FreeConn
  <2> QED
    BY <1>1, <2>2, <2>12, <2>13, <2>14, <2>15, <2>17, <2>18, OneConnStep
<1> QED
  BY <1>5, <1>6 DEF get_connection

\* add_accept() makes one, for a messenger that is not shut down.
LEMMA AddAcceptShut ==
    ASSUME SInv, NEW m \in Msgrs, add_accept(m)
    PROVE  ShutInv'
<1>0. Types /\ Made1 /\ Accepts /\ None \notin Msgrs /\ \A n \in Msgrs : Status(n)
  BY ConstantsAssumption DEF SInv, ShutInv, Inv, ConnInv, ProcInv
<1>1. /\ events' = events /\ barrier_count' = barrier_count /\ overlap' = overlap
      /\ pc' = pc /\ msgr[m].accepted # -1
  BY DEF add_accept
<1>2. PICK c \in FreeId, peer \in Peers :
         /\ seq' = get_worker
         /\ conn' = [NewConn(c, m, peer, "ACCEPTING", get_worker) EXCEPT
                        ![c].gen = msgr[m].accepted]
         /\ msgr' = [msgr EXCEPT ![m].accepting = @ \cup {c}, ![m].accepted = -1]
  BY DEF add_accept
<1>3. c \in ConnIds /\ conn[c] = FreeConn
  BY <1>0 DEF FreeId, Made1
<1>4. /\ get_worker \in Workers /\ msgr[m] \in MsgrStates
      /\ msgr[m].gen \in Nat /\ msgr[m].accepting \cup {c} \in SUBSET ConnIds
  BY <1>0, <1>3, WorkerChosen DEF Types, MsgrStates
<1>5. msgr[m].accepted = msgr[m].gen /\ msgr[m].worker # -1
  BY <1>0, <1>1 DEF Accepts
<1>6. PICK K : K = [FreeConn EXCEPT !.state = "ACCEPTING", !.m = m, !.peer = peer,
                                    !.worker = get_worker, !.gen = msgr[m].gen]
  OBVIOUS
<1>7. K \in ConnStates /\ K.m = m /\ K.gen = msgr[m].gen
  BY <1>4, <1>6 DEF FreeConn, ConnStates
<1>8. conn' = [conn EXCEPT ![c] = K]
  <2>1. NewConn(c, m, peer, "ACCEPTING", get_worker) = [conn EXCEPT ![c] = K]
    BY <1>6 DEF NewConn
  <2>2. [K EXCEPT !.gen = msgr[m].accepted] = K
    BY <1>5, <1>7 DEF ConnStates
  <2> QED
    BY <1>0, <1>2, <1>3, <2>1, <2>2 DEF Types
<1>9. PICK R : R = [msgr[m] EXCEPT !.accepting = msgr[m].accepting \cup {c}, !.accepted = -1]
  OBVIOUS
<1>10. R \in MsgrStates
  BY <1>4, <1>9 DEF MsgrStates
<1>11. R.gen = msgr[m].gen /\ SameQueue(msgr[m], R) /\ R.flags = msgr[m].flags
  BY <1>4, <1>9 DEF MsgrStates, SameQueue
<1>12. msgr' = [msgr EXCEPT ![m] = R]
  BY <1>0, <1>2, <1>9 DEF Types
<1>13. msgr'[m] = R /\ \A n \in Msgrs : n # m => msgr'[n] = msgr[n]
  BY <1>0, <1>10, <1>12, OneMsgr
<1>14. conn'[c] = K /\ \A d \in ConnIds : d # c => conn'[d] = conn[d]
  BY <1>0, <1>3, <1>7, <1>8 DEF Types
<1>15. \A n \in Msgrs : msgr'[n].gen = msgr[n].gen
  BY <1>11, <1>13
<1>16. StaysStale(c)
  BY <1>3, <1>4, <1>7, <1>14, <1>15, NewConnStale
<1>17. KeptLoop(events, events') /\ \A d : KeptOrder(events, events', d)
  BY <1>1, SameLoop
<1>18. \A d \in ConnIds : StaysStale(d)
  BY <1>0, <1>3, <1>14, <1>15, <1>16, <1>17, OthersStale
<1>19. LoopInv' /\ \A n : ThreadsKeep(n)
  BY <1>1, <1>17, <1>18, WorkerStep
<1>20. ASSUME NEW n \in Msgrs, n # m PROVE Status(n)'
  <2>1. /\ conn'[c].m = n /\ conn'[c].state = "ACCEPTING" =>
              conn[c].m = n /\ conn[c].state = "ACCEPTING" /\ conn'[c].gen = conn[c].gen
        /\ conn[c].m = n => conn'[c].m = n /\ conn'[c].gen = conn[c].gen
    BY <1>0, <1>3, <1>7, <1>14, <1>20 DEF FreeConn
  <2>2. ConnsKeep(n)
    BY <1>0, <1>3, <1>14, <1>15, <1>18, <2>1, OneConnKeeps
  <2> QED
    BY <1>0, <1>1, <1>13, <1>19, <1>20, <2>2, StatusSame
<1>21. Status(m)'
  <2>1. ~Shut(m)
    BY <1>0, <1>5 DEF Status, ShutDown
  <2>2. ~Shut(m)'
    BY <1>1, <1>11, <1>13, <2>1 DEF Shut, SameQueue
  <2>3. Queues(m)'
    BY <1>0, <1>11, <1>13, <1>19, QueuesKept
  <2>4. \A t \in Threads : Shutting(t, m)' =>
           "started" \in msgr'[m].flags /\ "shutdown_called" \in msgr'[m].flags
    BY <1>0, <1>1, <1>11, <1>13 DEF Status, ShutDown, Shutting
  <2> QED
    BY <2>2, <2>3, <2>4, OpenStatus
<1> QED
  BY <1>19, <1>20, <1>21 DEF ShutInv

\* AsyncConnection::_stop(), with the events ev: the connection is closed.
LEMMA StopChanges ==
    ASSUME Types, Made1, NEW ev \in [Workers -> Seq(Events)], NEW c \in ConnIds,
           conn[c].state # "NONE", _stop(c, ev)
    PROVE  /\ conn'[c].state = "CLOSED" /\ conn'[c].m = conn[c].m /\ conn'[c].gen = conn[c].gen
           /\ \A d \in ConnIds : d # c => conn'[d] = conn[d]
           /\ KeptLoop(ev, events') /\ \A d : KeptOrder(ev, events', d)
           /\ \A n \in Msgrs : /\ msgr'[n].gen = msgr[n].gen
                               /\ SameQueue(msgr[n], msgr'[n]) /\ MsgrKeeps(msgr[n], msgr'[n])
                               /\ ("dispatcher" \in msgr'[n].flags <=> "dispatcher" \in msgr[n].flags)
<1>0. PICK k : k = conn[c]
  OBVIOUS
<1>1. /\ k \in ConnStates /\ k.m \in Msgrs /\ k.worker \in Workers /\ msgr[k.m] \in MsgrStates
  BY <1>0 DEF Types, Made1
<1>2. CASE k.state = "CLOSED"
  <2>1. events' = ev /\ msgr' = msgr /\ conn' = conn
    BY <1>0, <1>2 DEF _stop
  <2>2. KeptLoop(ev, events') /\ \A d : KeptOrder(ev, events', d)
    BY <2>1 DEF KeptLoop, KeptOrder
  <2> QED
    BY <1>0, <1>2, <2>1, <2>2, SameKeeps DEF SameQueue
<1>3. CASE k.state # "CLOSED"
  <2>1. PICK R : R = _unregister_conn(msgr[k.m], c)
    OBVIOUS
  <2>2. PICK K : K = [k EXCEPT !.state = "CLOSED"]
    OBVIOUS
  <2>3. K \in ConnStates
    BY <1>1, <2>2 DEF ConnStates
  <2>4. K.state = "CLOSED" /\ K.m = k.m /\ K.gen = k.gen
    BY <1>1, <2>2 DEF ConnStates
  <2>5. /\ msgr' = [msgr EXCEPT ![k.m] = R] /\ conn' = [conn EXCEPT ![c] = K]
        /\ events' = Post(ev, k.worker, "C_release", c)
    BY <1>0, <1>3, <2>1, <2>2 DEF _stop
  <2>6. PICK cs : cs = [p \in Peers |-> IF msgr[k.m].conns[p] = c THEN None ELSE msgr[k.m].conns[p]]
    OBVIOUS
  <2>7. R = [msgr[k.m] EXCEPT !.conns = cs, !.accepting = msgr[k.m].accepting \ {c}]
    BY <2>1, <2>6 DEF _unregister_conn
  <2>8. cs \in [Peers -> ConnIds \cup {None}] /\ msgr[k.m].accepting \ {c} \in SUBSET ConnIds
    BY <1>1, <2>6 DEF MsgrStates
  <2>9. R \in MsgrStates
    BY <1>1, <2>7, <2>8 DEF MsgrStates
  <2>10. /\ R.gen = msgr[k.m].gen /\ SameQueue(msgr[k.m], R) /\ MsgrKeeps(msgr[k.m], R)
         /\ R.flags = msgr[k.m].flags
    BY <1>1, <2>7, <2>9 DEF MsgrStates, SameQueue, MsgrKeeps, StillShut
  <2>11. msgr'[k.m] = R /\ \A n \in Msgrs : n # k.m => msgr'[n] = msgr[n]
    BY <1>1, <2>5, <2>9, OneMsgr
  <2>12. conn'[c] = K /\ \A d \in ConnIds : d # c => conn'[d] = conn[d]
    BY <2>3, <2>5 DEF Types
  <2>13. release(c) \in Events /\ release(c) # barrier
    BY DEF release, Events, barrier
  <2>14. Added(ev, events', k.worker, release(c))
    BY <1>1, <2>5, <2>13, PostAdds DEF release
  <2>15. KeptLoop(ev, events') /\ \A d : KeptOrder(ev, events', d)
    BY <1>1, <2>13, <2>14, AddedLoop
  <2>16. \A n \in Msgrs : /\ msgr'[n].gen = msgr[n].gen
                          /\ SameQueue(msgr[n], msgr'[n]) /\ MsgrKeeps(msgr[n], msgr'[n])
                          /\ ("dispatcher" \in msgr'[n].flags <=> "dispatcher" \in msgr[n].flags)
    BY <2>10, <2>11, SameKeeps DEF SameQueue
  <2> QED
    BY <1>0, <2>4, <2>12, <2>15, <2>16
<1> QED
  BY <1>2, <1>3

\* ... with which nothing is lost that shutdown() needs: the C_stop events of the
\* other connections are in ev as they were.
LEMMA StopShut ==
    ASSUME SInv, NEW ev \in [Workers -> Seq(Events)], NEW c \in ConnIds,
           conn[c].state # "NONE", _stop(c, ev), pc' = pc, overlap' = overlap,
           barrier_count' = barrier_count, KeptLoop(events, ev),
           \A d \in ConnIds : d # c => KeptOrder(events, ev, d)
    PROVE  ShutInv'
<1>0. Types /\ Made1
  BY DEF SInv, Inv, ConnInv
<1>1. /\ conn'[c].state = "CLOSED" /\ conn'[c].m = conn[c].m /\ conn'[c].gen = conn[c].gen
      /\ \A d \in ConnIds : d # c => conn'[d] = conn[d]
      /\ KeptLoop(ev, events') /\ \A d : KeptOrder(ev, events', d)
      /\ \A n \in Msgrs : /\ msgr'[n].gen = msgr[n].gen
                          /\ SameQueue(msgr[n], msgr'[n]) /\ MsgrKeeps(msgr[n], msgr'[n])
                          /\ ("dispatcher" \in msgr'[n].flags <=> "dispatcher" \in msgr[n].flags)
  BY <1>0, StopChanges
<1>2. KeptLoop(events, events')
  BY <1>1 DEF KeptLoop
<1>3. \A d \in ConnIds : d # c => conn'[d] = conn[d] /\ KeptOrder(events, events', d)
  BY <1>1 DEF KeptOrder
<1>4. StaysStale(c)
  BY <1>1 DEF StaysStale, Stale
<1>5. \A d \in ConnIds : StaysStale(d)
  BY <1>0, <1>1, <1>3, <1>4, OthersStale
<1>6. LoopInv' /\ \A n : ThreadsKeep(n)
  BY <1>2, <1>5, WorkerStep
<1>7. \A n \in Msgrs :
         /\ conn'[c].m = n /\ conn'[c].state = "ACCEPTING" =>
               conn[c].m = n /\ conn[c].state = "ACCEPTING" /\ conn'[c].gen = conn[c].gen
         /\ conn[c].m = n => conn'[c].m = n /\ conn'[c].gen = conn[c].gen
  BY <1>1
<1> QED
  BY <1>1, <1>2, <1>3, <1>4, <1>6, <1>7, OneConnStep

\* The worker handles C_stop.
LEMMA StopEventShut ==
    ASSUME SInv, NEW w \in Workers, DoRequest(w), Head(events[w]).kind = "C_stop"
    PROVE  ShutInv'
<1>0. Types /\ FitIn(events)
  BY DEF SInv, Inv, ConnInv
<1>1. PICK ev : ev = [events EXCEPT ![w] = Tail(@)]
  OBVIOUS
<1>2. PICK c : c = Head(events[w]).arg
  OBVIOUS
<1>3. /\ events[w] # <<>> /\ barrier_count' = barrier_count /\ pc' = pc /\ _stop(c, ev)
      /\ overlap' = overlap
  BY <1>1, <1>2 DEF DoRequest
<1>4. Taken(events, ev, w) /\ ev \in [Workers -> Seq(Events)]
  BY <1>0, <1>1, <1>3, TakeTakes DEF Types, Taken
<1>5. 1 \in DOMAIN events[w] /\ Head(events[w]) = events[w][1] /\ Head(events[w]) \in Events
  BY <1>4 DEF Taken
<1>6. c \in ConnIds /\ conn[c].state # "NONE"
  BY <1>0, <1>2, <1>5 DEF FitIn
<1>7. events[w][1] = stop(c)
  BY <1>2, <1>5 DEF Events, stop
<1>8. stop(c) # barrier /\ \A d : d # c => stop(c) # stop(d)
  BY DEF stop, barrier
<1>9. KeptLoop(events, ev) /\ \A d \in ConnIds : d # c => KeptOrder(events, ev, d)
  BY <1>4, <1>7, <1>8, TakenLoop
<1> QED
  BY <1>3, <1>4, <1>6, <1>9, StopShut

\* The worker handles C_release.
LEMMA ReleaseEventShut ==
    ASSUME SInv, NEW w \in Workers, DoRequest(w), Head(events[w]).kind = "C_release"
    PROVE  ShutInv'
<1>0. Types /\ Made1 /\ FitIn(events) /\ \A n \in Msgrs : Status(n)
  BY DEF SInv, ShutInv, Inv, ConnInv
<1>2. PICK c : c = Head(events[w]).arg
  OBVIOUS
<1>3. /\ events[w] # <<>> /\ barrier_count' = barrier_count /\ pc' = pc /\ msgr' = msgr
      /\ overlap' = overlap /\ events' = [events EXCEPT ![w] = Tail(@)]
      /\ conn' = [conn EXCEPT ![c].released = @ + 1]
  BY <1>2 DEF DoRequest
<1>4. Taken(events, events', w)
  BY <1>0, <1>3, TakeTakes DEF Types
<1>5. 1 \in DOMAIN events[w] /\ Head(events[w]) = events[w][1] /\ Head(events[w]) \in Events
  BY <1>4 DEF Taken
<1>6. c \in ConnIds
  BY <1>0, <1>2, <1>5 DEF FitIn
<1>7. events[w][1] # barrier /\ \A d : events[w][1] # stop(d)
  BY <1>5 DEF stop, barrier
<1>8. KeptLoop(events, events') /\ \A d : KeptOrder(events, events', d)
  BY <1>4, <1>7, TakenLoop
<1>9. PICK k \in ConnStates : k = conn[c]
  BY <1>0, <1>6 DEF Types
<1>10. PICK K : K = [k EXCEPT !.released = k.released + 1]
  OBVIOUS
<1>11. /\ K.state = k.state /\ K.m = k.m /\ K.worker = k.worker /\ K.gen = k.gen
  BY <1>10 DEF ConnStates
<1>12. conn'[c] = K /\ \A d \in ConnIds : d # c => conn'[d] = conn[d]
  BY <1>0, <1>3, <1>6, <1>9, <1>10 DEF Types
<1>13. StaysStale(c)
  <2>1. Stale(c)' => Stale(c)
    BY <1>3, <1>9, <1>11, <1>12 DEF Stale
  <2> QED
    BY <1>8, <1>9, <1>11, <1>12, <2>1 DEF StaysStale
<1>14. \A d \in ConnIds : StaysStale(d)
  BY <1>0, <1>3, <1>6, <1>8, <1>12, <1>13, OthersStale
<1>15. LoopInv' /\ \A n : ThreadsKeep(n)
  BY <1>3, <1>8, <1>14, WorkerStep
<1>16. ASSUME NEW n \in Msgrs PROVE Status(n)'
  <2>1. ConnsKeep(n)
    BY <1>0, <1>3, <1>6, <1>9, <1>11, <1>12, <1>14, OneConnKeeps
  <2> QED
    BY <1>0, <1>3, <1>15, <2>1, StatusSame
<1> QED
  BY <1>15, <1>16 DEF ShutInv

\* A worker handles its oldest event.
LEMMA DoRequestShut ==
    ASSUME SInv, NEW w \in Workers, DoRequest(w)
    PROVE  ShutInv'
<1>1. CASE Head(events[w]).kind = "C_stop"
  BY <1>1, StopEventShut
<1>2. CASE Head(events[w]).kind = "C_release"
  BY <1>2, ReleaseEventShut
<1>3. CASE Head(events[w]).kind = "C_ProcessorStop"
  BY <1>3, ProcessorStopShut
<1>4. CASE Head(events[w]).kind = "C_barrier"
  BY <1>4, BarrierEventShut
<1> QED
  BY <1>1, <1>2, <1>3, <1>4 DEF DoRequest

\* A connection opens.
LEMMA OpensConn ==
    ASSUME Types, Made1, NEW c \in ConnIds, conn[c].state # "NONE", conn[c].state # "CLOSED",
           conn' = [conn EXCEPT ![c].state = "OPEN"], events' = events,
           \A n \in Msgrs : msgr'[n].gen = msgr[n].gen
    PROVE  /\ conn'[c].state = "OPEN" /\ conn'[c].m = conn[c].m /\ conn'[c].gen = conn[c].gen
           /\ \A d \in ConnIds : d # c => conn'[d] = conn[d]
           /\ StaysStale(c)
<1>1. PICK k \in ConnStates : k = conn[c]
  BY DEF Types
<1>2. PICK K : K = [k EXCEPT !.state = "OPEN"]
  OBVIOUS
<1>3. /\ K.state = "OPEN" /\ K.m = k.m /\ K.worker = k.worker /\ K.gen = k.gen
  BY <1>2 DEF ConnStates
<1>4. conn'[c] = K /\ \A d \in ConnIds : d # c => conn'[d] = conn[d]
  BY <1>1, <1>2 DEF Types
<1>5. conn[c].m \in Msgrs /\ KeptOrder(events, events', c)
  BY SameLoop DEF Made1
<1>6. Stale(c)' => Stale(c)
  BY <1>1, <1>3, <1>4, <1>5 DEF Stale
<1> QED
  BY <1>1, <1>3, <1>4, <1>5, <1>6 DEF StaysStale

\* _accept_conn(): the connection opens, or is stopped for another one.
LEMMA AcceptConnShut ==
    ASSUME SInv, NEW c \in ConnIds, _accept_conn(c)
    PROVE  ShutInv'
<1>0. Types /\ Made1
  BY DEF SInv, Inv, ConnInv
<1>1. /\ barrier_count' = barrier_count /\ overlap' = overlap /\ pc' = pc
      /\ conn[c].state = "ACCEPTING"
  BY DEF _accept_conn, pool
<1>2. PICK m \in Msgrs : m = conn[c].m
  BY <1>0, <1>1 DEF Made1
<1>3. PICK p \in Peers : p = conn[c].peer
  BY <1>0, <1>1 DEF Made1
<1>4. KeptLoop(events, events) /\ \A d : KeptOrder(events, events, d)
  BY DEF KeptLoop, KeptOrder
<1>5. CASE msgr[m].conns[p] = None
  <2>1. /\ msgr' = [msgr EXCEPT ![m].accepting = @ \ {c}, ![m].conns[p] = c]
        /\ conn' = [conn EXCEPT ![c].state = "OPEN"] /\ events' = events
    BY <1>2, <1>3, <1>5 DEF _accept_conn
  <2>2. PICK R : R = [msgr[m] EXCEPT !.accepting = msgr[m].accepting \ {c},
                                     !.conns = [msgr[m].conns EXCEPT ![p] = c]]
    OBVIOUS
  <2>3. /\ msgr[m] \in MsgrStates /\ msgr[m].accepting \ {c} \in SUBSET ConnIds
        /\ [msgr[m].conns EXCEPT ![p] = c] \in [Peers -> ConnIds \cup {None}]
    BY <1>0 DEF Types, MsgrStates
  <2>4. R \in MsgrStates
    BY <2>2, <2>3 DEF MsgrStates
  <2>5. /\ R.gen = msgr[m].gen /\ SameQueue(msgr[m], R) /\ MsgrKeeps(msgr[m], R)
        /\ R.flags = msgr[m].flags
    BY <2>2, <2>3, <2>4 DEF MsgrStates, SameQueue, MsgrKeeps, StillShut
  <2>6. msgr' = [msgr EXCEPT ![m] = R]
    <3>1. [msgr EXCEPT ![m].accepting = @ \ {c}, ![m].conns[p] = c]
             = [msgr EXCEPT ![m] = [[msgr[m] EXCEPT !.accepting = @ \ {c}] EXCEPT !.conns[p] = c]]
      BY <1>0 DEF Types
    <3>2. [[msgr[m] EXCEPT !.accepting = @ \ {c}] EXCEPT !.conns[p] = c] = R
      BY <2>2, <2>3 DEF MsgrStates
    <3> QED
      BY <2>1, <3>1, <3>2
  <2>7. msgr'[m] = R /\ \A n \in Msgrs : n # m => msgr'[n] = msgr[n]
    BY <1>0, <2>4, <2>6, OneMsgr
  <2>8. \A n \in Msgrs : /\ msgr'[n].gen = msgr[n].gen
                         /\ SameQueue(msgr[n], msgr'[n]) /\ MsgrKeeps(msgr[n], msgr'[n])
                         /\ ("dispatcher" \in msgr'[n].flags <=> "dispatcher" \in msgr[n].flags)
    BY <2>5, <2>7, SameKeeps DEF SameQueue
  <2>9. /\ conn'[c].state = "OPEN" /\ conn'[c].m = conn[c].m /\ conn'[c].gen = conn[c].gen
        /\ \A d \in ConnIds : d # c => conn'[d] = conn[d]
        /\ StaysStale(c)
    BY <1>0, <1>1, <2>1, <2>8, OpensConn
  <2>10. \A d \in ConnIds : StaysStale(d)
    BY <1>0, <1>4, <2>1, <2>8, <2>9, OthersStale
  <2>11. LoopInv' /\ \A n : ThreadsKeep(n)
    BY <1>1, <1>4, <2>1, <2>10, WorkerStep
  <2>12. \A n \in Msgrs :
            /\ conn'[c].m = n /\ conn'[c].state = "ACCEPTING" =>
                  conn[c].m = n /\ conn[c].state = "ACCEPTING" /\ conn'[c].gen = conn[c].gen
            /\ conn[c].m = n => conn'[c].m = n /\ conn'[c].gen = conn[c].gen
    BY <2>9
  <2> QED
    BY <1>1, <1>4, <2>1, <2>8, <2>9, <2>11, <2>12, OneConnStep
<1>6. CASE msgr[m].conns[p] # None
  <2>1. _stop(c, events)
    BY <1>2, <1>3, <1>6 DEF _accept_conn
  <2>2. events \in [Workers -> Seq(Events)] /\ conn[c].state # "NONE"
    BY <1>0, <1>1 DEF Types
  <2> QED
    BY <1>1, <1>4, <2>1, <2>2, StopShut
<1> QED
  BY <1>5, <1>6

\* A connection that was made here opens, and the local connection may come back with
\* it: when shutdown() is past its barrier it is one made since.
LEMMA ConnectDoneShut ==
    ASSUME SInv, NEW c \in ConnIds, ConnectDone(c)
    PROVE  ShutInv'
<1>0. Types /\ Made1 /\ \A n \in Msgrs : Status(n)
  BY DEF SInv, ShutInv, Inv, ConnInv
<1>1. /\ barrier_count' = barrier_count /\ overlap' = overlap /\ pc' = pc /\ events' = events
      /\ conn[c].state = "CONNECTING" /\ conn' = [conn EXCEPT ![c].state = "OPEN"]
  BY DEF ConnectDone, pool
<1>2. PICK m \in Msgrs : m = conn[c].m
  BY <1>0, <1>1 DEF Made1
<1>3. msgr[m] \in MsgrStates
  BY <1>0 DEF Types
<1>4. PICK R : /\ R \in MsgrStates /\ msgr' = [msgr EXCEPT ![m] = R]
               /\ R.gen = msgr[m].gen /\ SameQueue(msgr[m], R) /\ StillShut(msgr[m], R)
               /\ ("dispatcher" \in R.flags <=> "dispatcher" \in msgr[m].flags)
  <2>1. CASE msgr' = msgr
    <3>1. msgr' = [msgr EXCEPT ![m] = msgr[m]]
      BY <1>0, <2>1 DEF Types
    <3> QED
      BY <1>3, <3>1 DEF SameQueue, StillShut
  <2>2. CASE msgr' = [SetFlags(m, {}, {"need_addr"}) EXCEPT ![m] = init_local_connection(@)]
    <3>1. PICK F : F = (msgr[m].flags \cup {}) \ {"need_addr"}
      OBVIOUS
    <3>2. F \in SUBSET Flags /\ F = msgr[m].flags \ {"need_addr"}
      BY <1>3, <3>1 DEF MsgrStates
    <3>3. PICK R : R = [msgr[m] EXCEPT !.flags = F, !.local_up = TRUE]
      OBVIOUS
    <3>4. R \in MsgrStates
      BY <1>3, <3>2, <3>3 DEF MsgrStates
    <3>5. /\ R.flags = F /\ R.gen = msgr[m].gen /\ SameQueue(msgr[m], R)
          /\ R.listen = msgr[m].listen /\ R.worker = msgr[m].worker
      BY <1>3, <3>2, <3>3 DEF MsgrStates, SameQueue
    <3>6. StillShut(msgr[m], R) /\ ("dispatcher" \in R.flags <=> "dispatcher" \in msgr[m].flags)
      BY <3>2, <3>5 DEF StillShut, SameQueue
    <3>7. msgr' = [msgr EXCEPT ![m] = R]
      <4>1. SetFlags(m, {}, {"need_addr"}) = [msgr EXCEPT ![m].flags = F]
        BY <3>1 DEF SetFlags
      <4>2. msgr' = [msgr EXCEPT ![m] = [[msgr[m] EXCEPT !.flags = F] EXCEPT !.local_up = TRUE]]
        BY <1>0, <2>2, <4>1 DEF init_local_connection, Types
      <4>3. [[msgr[m] EXCEPT !.flags = F] EXCEPT !.local_up = TRUE] = R
        BY <1>3, <3>3 DEF MsgrStates
      <4> QED
        BY <4>2, <4>3
    <3> QED
      BY <3>4, <3>5, <3>6, <3>7
  <2> QED
    BY <1>2, <2>1, <2>2 DEF ConnectDone
<1>5. msgr'[m] = R /\ \A n \in Msgrs : n # m => msgr'[n] = msgr[n]
  BY <1>0, <1>4, OneMsgr
<1>6. \A n \in Msgrs : msgr'[n].gen = msgr[n].gen
  BY <1>4, <1>5
<1>7. KeptLoop(events, events') /\ \A d : KeptOrder(events, events', d)
  BY <1>1, SameLoop
<1>8. /\ conn'[c].state = "OPEN" /\ conn'[c].m = conn[c].m /\ conn'[c].gen = conn[c].gen
      /\ \A d \in ConnIds : d # c => conn'[d] = conn[d]
      /\ StaysStale(c)
  BY <1>0, <1>1, <1>6, OpensConn
<1>9. \A d \in ConnIds : StaysStale(d)
  BY <1>0, <1>6, <1>7, <1>8, OthersStale
<1>10. LoopInv' /\ \A n : ThreadsKeep(n)
  BY <1>1, <1>7, <1>9, WorkerStep
<1>11. \A n \in Msgrs : ConnsKeep(n)
  BY <1>0, <1>6, <1>8, <1>9, OneConnKeeps
<1>12. ASSUME NEW n \in Msgrs, n # m PROVE Status(n)'
  BY <1>0, <1>1, <1>5, <1>10, <1>11, <1>12, StatusSame
<1>13. Status(m)'
  <2>1. Queues(m)'
    BY <1>0, <1>4, <1>5, <1>10, QueuesKept
  <2>2. ASSUME msgr'[m].stop, ~overlap PROVE conn'[c].gen = msgr'[m].gen
    <3>1. Passed(m)
      BY <1>4, <1>5, <2>2 DEF Passed, SameQueue
    <3>2. ~Stale(c)
      BY <1>0, <1>2, <2>2, <3>1 DEF Status, Closed
    <3>3. conn[c].gen <= msgr[m].gen /\ conn[c].gen \in Nat /\ msgr[m].gen \in Nat
      BY <1>0, <1>1, <1>2 DEF Made1, Types, MsgrStates, ConnStates
    <3>4. ~(conn[c].gen < msgr[m].gen)
      BY <1>1, <1>2, <3>2 DEF Stale
    <3> QED
      BY <1>6, <1>8, <3>3, <3>4
  <2>3. msgr'[m].stop /\ msgr'[m].local_up /\ ~overlap => msgr[m].local_up
              \/ \E d \in ConnIds : conn'[d].m = m /\ conn'[d].gen = msgr'[m].gen
    BY <1>2, <1>8, <2>2
  <2> QED
    BY <1>0, <1>1, <1>4, <1>5, <1>10, <1>11, <2>1, <2>3, StatusStays
<1> QED
  BY <1>10, <1>12, <1>13 DEF ShutInv

-----------------------------------------------------------------------------
(***************************************************************************)
(* The theorems.                                                           *)
(***************************************************************************)
\* Every step keeps the invariant.
LEMMA NextShut ==
    ASSUME SInv, [Next]_vars
    PROVE  SInv'
<1>0. Inv'
  BY NextStep DEF SInv
<1>1. CASE UNCHANGED vars
  <2>1. ShutInv'
    BY <1>1, NothingShut DEF vars
  <2> QED
    BY <1>0, <2>1 DEF SInv
<1>2. ASSUME NEW t \in Threads, NEW m \in Msgrs, Goes(t, m) PROVE ShutInv'
  BY <1>2, ReadyShut, ProcessorStoppedShut, UnboundShut, MarkAllDownShut, ReboundShut,
     BarrierPostShut, BarrierIncShut, BarrierWaitShut, FinishShut, JoinedShut, WaitedShut,
     MarkedDownShut DEF Goes
<1>3. ASSUME NEW t \in Threads, NEW m \in Msgrs, BindFails(t, m) PROVE ShutInv'
  BY <1>3, NothingShut DEF BindFails, pool
<1>4. ASSUME NEW t \in Threads, NEW m \in Msgrs, MakesCall(t, m) PROVE ShutInv'
  BY <1>3, <1>4, BindShut, AddDispatcherShut, StartShut, StopCallsShut, WaitShut,
     GetConnectionShut, MarkDownShut, CallMarkDownAllShut DEF MakesCall
<1>5. ASSUME NEW m \in Msgrs, accept(m) \/ add_accept(m) \/ DispatchEnds(m) PROVE ShutInv'
  BY <1>5, AcceptShut, AddAcceptShut, DispatchEndsShut
<1>6. ASSUME NEW c \in ConnIds, _accept_conn(c) \/ ConnectDone(c) PROVE ShutInv'
  BY <1>6, AcceptConnShut, ConnectDoneShut
<1>7. ASSUME NEW w \in Workers, DoRequest(w) PROVE ShutInv'
  BY <1>7, DoRequestShut
<1>8. CASE Next
  BY <1>0, <1>2, <1>4, <1>5, <1>6, <1>7, <1>8 DEF Next, SInv
<1> QED
  BY <1>1, <1>8

\* It holds when the process starts.
LEMMA InitShut ==
    ASSUME Init
    PROVE  SInv
<1>1. /\ \A m \in Msgrs : msgr[m] = NewMsgr
      /\ \A c \in ConnIds : conn[c] = FreeConn
      /\ \A t \in Threads : pc[t] = Idle
      /\ \A w \in Workers : events[w] = <<>>
      /\ barrier_count = 0
  BY DEF Init
<1>2. /\ NewMsgr.stop = FALSE /\ NewMsgr.dispatch = "none" /\ NewMsgr.local = "none"
      /\ FreeConn.state = "NONE" /\ Idle.at = "idle"
  BY DEF NewMsgr, FreeConn, Idle
<1>3. \A t \in Threads : pc[t].at = "idle" /\ ~Active(t)
  BY <1>1, <1>2 DEF Active, InBarrierAt
<1>4. Pending = {} /\ Uncounted = {}
  BY <1>1, <1>3 DEF Pending, Uncounted, Queued
<1>5. Cardinality(Pending) = 0
  BY <1>4, FS_EmptySet
<1>6. LoopInv
  <2>1. LoopBounds
    BY <1>3 DEF LoopBounds
  <2>2. \A w \in Workers : Single(events, w)
    BY <1>1 DEF Single
  <2>3. Barriers
    BY <1>1, <1>3, <1>4, <1>5, <2>2 DEF Barriers
  <2>4. StopsFirst
    BY <1>3 DEF StopsFirst
  <2> QED
    BY <2>1, <2>3, <2>4 DEF LoopInv
<1>7. ASSUME NEW m \in Msgrs PROVE Status(m)
  <2>1. ~msgr[m].stop /\ ~Shut(m) /\ ~Passed(m) /\ \A t \in Threads : ~Shutting(t, m)
    BY <1>1, <1>2, <1>3 DEF Shut, ShutAt, InBarrierAt, Passed, Shutting
  <2>2. Queues(m)
    BY <1>1, <1>2, <1>3 DEF Queues
  <2> QED
    BY <2>1, <2>2 DEF Status, ShutDown, Closed
<1> QED
  BY <1>6, <1>7, InitInv DEF SInv, ShutInv

\* As long as no two barriers overlap, barrier_count counts the workers that have
\* still to come to the barrier, and each of them handles the C_stop events of old
\* connections before it; a messenger that is shut down stays shut.
THEOREM ShutdownInvariant == Spec => []SInv
<1>1. Init => SInv
  BY InitShut
<1>2. SInv /\ [Next]_vars => SInv'
  BY NextShut
<1> QED
  BY <1>1, <1>2, PTL DEF Spec

\* When shutdown() has returned, and its barrier did not overlap with another one,
\* the connections of before are closed and forgotten, none was accepted since, and
\* the local connection is shut unless the application made a connection again.
THEOREM ShutdownLeavesNothing == Spec => []ShutdownComplete
<1>1. SInv => ShutdownComplete
  <2> SUFFICES ASSUME SInv, NEW m \in Msgrs, msgr[m].stop, ~overlap
               PROVE  /\ \A c \in Made(m) : conn[c].gen < msgr[m].gen =>
                            conn[c].state = "CLOSED" /\ c \notin Known(m)
                      /\ \A c \in Made(m) : conn[c].gen = msgr[m].gen => conn[c].state # "ACCEPTING"
                      /\ msgr[m].local_up => \E c \in Made(m) : conn[c].gen = msgr[m].gen
    BY DEF ShutdownComplete
  <2>1. Made1 /\ Registered /\ Types /\ Status(m) /\ None \notin Msgrs
    BY ConstantsAssumption DEF SInv, Inv, ConnInv, ShutInv
  <2>2. Shut(m) /\ Passed(m)
    BY DEF Shut, Passed
  <2>3. ASSUME NEW c \in Made(m), conn[c].gen < msgr[m].gen
        PROVE  conn[c].state = "CLOSED" /\ c \notin Known(m)
    <3>1. c \in ConnIds /\ conn[c].m = m
      BY DEF Made
    <3>2. conn[c].state # "NONE"
      BY <2>1, <3>1 DEF Made1, FreeConn
    <3>3. ~Stale(c)
      BY <2>1, <2>2, <3>1 DEF Status, Closed
    <3>4. conn[c].state = "CLOSED"
      BY <2>3, <3>1, <3>2, <3>3 DEF Stale
    <3>5. c \notin Known(m)
      BY <2>1, <3>1, <3>4, KnownMade
    <3> QED
      BY <3>4, <3>5
  <2>4. \A c \in Made(m) : conn[c].gen = msgr[m].gen => conn[c].state # "ACCEPTING"
    BY <2>1, <2>2 DEF Made, Status, ShutDown
  <2>5. msgr[m].local_up => \E c \in Made(m) : conn[c].gen = msgr[m].gen
    BY <2>1 DEF Made, Status, Closed
  <2> QED
    BY <2>3, <2>4, <2>5
<1> QED
  BY <1>1, ShutdownInvariant, PTL

-----------------------------------------------------------------------------
(***************************************************************************)
(* Assertions: how an application that follows ProperUse keeps them.  The  *)
(* rules are about scripts; the invariant says what is left of them when   *)
(* some calls have been made.                                              *)
(***************************************************************************)
\* What a thread that holds start_lock is about: shutdown() before and after it
\* has marked the connections down, rebind(), unbind().
Late(t, m) == pc[t].at \in ShutAt /\ pc[t].m = m
Rebinding(t, m) ==
    /\ pc[t].m = m
    /\ pc[t].at = "rebind" \/ (pc[t].at \in {"listening", "closed"} /\ pc[t].call = "rebind")
Unbinding(t, m) ==
    pc[t].at \in {"listening", "closed"} /\ pc[t].m = m /\ pc[t].call = "unbind"

\* start() has still to come, and a shutdown() may follow it.
StartsLater(m) ==
    \A t \in Threads : \A k \in DOMAIN script[t] :
        Listed(script, t, k, "start", m) /\ ShutdownMayFollow(script, t, k, m) =>
            /\ ~Has(m, "started")
            /\ Has(m, "dispatcher") => msgr[m].local = "running"
            /\ Has(m, "dispatcher") \/ \E j \in 1 .. (k - 1) : Listed(script, t, j, "add_dispatcher", m)
            /\ \A u \in Threads : \A j \in DOMAIN script[u] :
                  Listed(script, u, j, "start", m) /\ ShutdownMayFollow(script, u, j, m) =>
                      u = t /\ j = k

\* shutdown() has still to come, or is under way: it finds the thread to join.
ShutdownListed(m) == \E t \in Threads : \E k \in DOMAIN script[t] : Listed(script, t, k, "shutdown", m)

JoinsRunning(m) ==
    /\ ShutdownListed(m) /\ ShutsDown(m) => msgr[m].local = "running"
    /\ \A t \in Threads : Shutting(t, m) \/ Late(t, m) => msgr[m].local = "running"

\* wait() has still to come.
NeverBound(m) ==
    /\ ~Has(m, "did_bind")
    /\ \A u \in Threads : \A j \in DOMAIN script[u] : ~Listed(script, u, j, "bind", m)

StartThenShutdown(t, k, m) ==
    \E i, j \in 1 .. (k - 1) :
        /\ i < j /\ Listed(script, t, i, "start", m) /\ Listed(script, t, j, "shutdown", m)
        /\ \A u \in Threads : \A l \in DOMAIN script[u] :
              Listed(script, u, l, "start", m) => u = t /\ (l = i \/ l > k)

ShutdownFirst(t, k, m) ==
    /\ OnlyAfter(script, "start", m, t, k)
    /\ \/ Has(m, "started") => Has(m, "shutdown_called")
       \/ \E j \in 1 .. (k - 1) : Listed(script, t, j, "shutdown", m)

WaitsLater(m) ==
    \A t \in Threads : \A k \in DOMAIN script[t] : Listed(script, t, k, "wait", m) =>
        NeverBound(m) \/ StartThenShutdown(t, k, m) \/ ShutdownFirst(t, k, m)

\* rebind() has still to come.
BindFirst(t, k, m) ==
    /\ ~Has(m, "started")
    /\ \E j \in 1 .. (k - 1) : Listed(script, t, j, "bind", m) /\ OnlyAfter(script, "start", m, t, j)

RebindsLater(m) ==
    \A t \in Threads : \A k \in DOMAIN script[t] : Listed(script, t, k, "rebind", m) =>
        /\ Has(m, "did_bind") \/ BindFirst(t, k, m)
        /\ OnlyAfter(script, "shutdown", m, t, k) /\ OnlyAfter(script, "unbind", m, t, k)
        /\ \A u \in Threads : ~Shutting(u, m) /\ ~Unbinding(u, m)

\* A messenger that shutdown() was called for is bound only until that call has
\* marked its connections down; rebind() is under way on bound ones.
BoundUntil(m) ==
    /\ Has(m, "shutdown_called") => Has(m, "started")
    /\ Has(m, "shutdown_called") /\ Has(m, "did_bind") => \E t \in Threads : Shutting(t, m)
    /\ \A t \in Threads : Rebinding(t, m) => Has(m, "did_bind")

UseOf(m) ==
    StartsLater(m) /\ JoinsRunning(m) /\ WaitsLater(m) /\ RebindsLater(m) /\ BoundUntil(m)

UseInv == ~aborted /\ \A m \in Msgrs : UseOf(m)


-----------------------------------------------------------------------------
(***************************************************************************)
(* What is left of the rules after a step in which thread t makes a call   *)
(* (d = 1) or no call is made (d = 0).                                     *)
(***************************************************************************)
Ahead(t, d, u) == IF u = t THEN d ELSE 0

Follows(t, d) ==
    /\ t \in Threads /\ d \in {0, 1}
    /\ \A u \in Threads : DOMAIN script[u] \subseteq Nat \ {0} /\ DOMAIN script'[u] \subseteq Nat \ {0}
    /\ \A u \in Threads : \A k \in DOMAIN script'[u] : \A call, m :
          Listed(script', u, k, call, m) => Listed(script, u, k + Ahead(t, d, u), call, m)
    /\ \A u \in Threads : \A k \in DOMAIN script[u] : \A call, m :
          Listed(script, u, k, call, m) =>
              \/ d = 1 /\ u = t /\ k = 1
              \/ Listed(script', u, k - Ahead(t, d, u), call, m)

Takes(t, d, call, m) == d = 1 /\ Listed(script, t, 1, call, m)

\* No call is made.
LEMMA NoCall ==
    ASSUME Types, script' = script, NEW t \in Threads
    PROVE  Follows(t, 0) /\ \A call, m : ~Takes(t, 0, call, m)
<1>1. \A u \in Threads : DOMAIN script[u] \subseteq Nat \ {0}
  BY DEF Types
<1>2. \A k \in Nat : k + 0 = k /\ k - 0 = k
  OBVIOUS
<1>3. \A u \in Threads : Ahead(t, 0, u) = 0
  BY DEF Ahead
<1>4. \A u \in Threads : \A k \in DOMAIN script[u] :
         k + Ahead(t, 0, u) = k /\ k - Ahead(t, 0, u) = k
  BY <1>1, <1>2, <1>3
<1>5. 0 \in {0, 1} /\ ~(0 = 1)
  OBVIOUS
<1> QED
  BY <1>1, <1>4, <1>5 DEF Follows, Takes

\* The next call of the script is made.
LEMMA OneCall ==
    ASSUME Types, NEW t \in Threads, NEW call, NEW m, Begins(t, call, m)
    PROVE  /\ Follows(t, 1) /\ Takes(t, 1, call, m)
           /\ \A c, n : Takes(t, 1, c, n) => c = call /\ n = m
<1> DEFINE S == [call : CallNames, m : Msgrs, peer : Peers]
<1>1. script \in [Threads -> Seq(S)] /\ script[t] \in Seq(S) /\ script[t] # <<>>
  BY DEF Types, Begins, Calls
<1>2. script' = [script EXCEPT ![t] = Tail(script[t])]
  BY DEF Begins
<1>3. Head(script[t]) = script[t][1] /\ 1 \in DOMAIN script[t]
  BY <1>1
<1>4. script[t][1].call = call /\ script[t][1].m = m
  BY <1>3 DEF Begins, Calls
<1>5. script'[t] = Tail(script[t]) /\ \A u \in Threads : u # t => script'[u] = script[u]
  BY <1>1, <1>2
<1>6. \A u \in Threads : script[u] \in Seq(S) /\ script'[u] \in Seq(S)
  <2> HIDE DEF S
  <2>1. Tail(script[t]) \in Seq(S)
    BY <1>1
  <2> QED
    BY <1>1, <1>5, <2>1
<1>7. \A u \in Threads : DOMAIN script[u] \subseteq Nat \ {0} /\ DOMAIN script'[u] \subseteq Nat \ {0}
  BY <1>6
<1>8. \A k \in DOMAIN script'[t] : k + 1 \in DOMAIN script[t] /\ script'[t][k] = script[t][k + 1]
  BY <1>1, <1>5
<1>9. \A k \in DOMAIN script[t] : k # 1 => k - 1 \in DOMAIN script'[t] /\ script'[t][k - 1] = script[t][k]
  BY <1>1, <1>5
<1> HIDE DEF S
<1>10. ASSUME NEW u \in Threads, NEW k \in DOMAIN script'[u], NEW c, NEW n,
              Listed(script', u, k, c, n)
       PROVE  Listed(script, u, k + Ahead(t, 1, u), c, n)
  <2>1. CASE u = t
    BY <1>8, <1>10, <2>1 DEF Listed, Ahead
  <2>2. CASE u # t
    <3>1. k + 0 = k
      BY <1>7
    <3> QED
      BY <1>5, <1>10, <2>2, <3>1 DEF Listed, Ahead
  <2> QED
    BY <2>1, <2>2
<1>11. ASSUME NEW u \in Threads, NEW k \in DOMAIN script[u], NEW c, NEW n,
              Listed(script, u, k, c, n), ~(u = t /\ k = 1)
       PROVE  Listed(script', u, k - Ahead(t, 1, u), c, n)
  <2>1. CASE u = t
    BY <1>9, <1>11, <2>1 DEF Listed, Ahead
  <2>2. CASE u # t
    <3>1. k - 0 = k
      BY <1>7
    <3> QED
      BY <1>5, <1>11, <2>2, <3>1 DEF Listed, Ahead
  <2> QED
    BY <2>1, <2>2
<1>12. Follows(t, 1)
  BY <1>7, <1>10, <1>11 DEF Follows
<1> QED
  BY <1>3, <1>4, <1>12 DEF Takes, Listed

\* A shutdown() that may follow could follow before.
LEMMA MayFollow ==
    ASSUME NEW t, NEW d, Follows(t, d), NEW m, NEW u \in Threads, NEW k \in DOMAIN script'[u],
           ShutdownMayFollow(script', u, k, m)
    PROVE  /\ ShutdownMayFollow(script, u, k + Ahead(t, d, u), m)
           /\ d = 1 => ShutdownMayFollow(script, t, 1, m)
<1>1. PICK v \in Threads : \E j \in DOMAIN script'[v] :
              Listed(script', v, j, "shutdown", m) /\ (v = u => j > k)
  BY DEF ShutdownMayFollow
<1>2. PICK j \in DOMAIN script'[v] : Listed(script', v, j, "shutdown", m) /\ (v = u => j > k)
  BY <1>1
<1>3. Listed(script, v, j + Ahead(t, d, v), "shutdown", m)
  BY <1>2 DEF Follows
<1>4. j + Ahead(t, d, v) \in DOMAIN script[v]
  BY <1>3 DEF Listed
<1>5. j \in Nat \ {0} /\ k \in Nat \ {0} /\ d \in {0, 1}
  BY DEF Follows
<1>6. v = u => j + Ahead(t, d, v) > k + Ahead(t, d, u)
  BY <1>2, <1>5 DEF Ahead
<1>7. d = 1 /\ v = t => j + Ahead(t, d, v) > 1
  BY <1>5 DEF Ahead
<1> QED
  BY <1>3, <1>4, <1>6, <1>7 DEF ShutdownMayFollow

\* The first call of a script comes before every later one.
LEMMA FirstCall ==
    ASSUME NEW t, NEW d, Follows(t, d), NEW u \in Threads, NEW k \in DOMAIN script'[u]
    PROVE  /\ k \in Nat /\ k >= 1 /\ k + Ahead(t, d, u) \in Nat /\ k + Ahead(t, d, u) >= 1
           /\ d = 1 /\ u = t => k + Ahead(t, d, u) > 1
<1>1. k \in Nat \ {0} /\ d \in {0, 1}
  BY DEF Follows
<1> QED
  BY <1>1 DEF Ahead

\* Calls that only come after a later call of a thread still do.
LEMMA StaysAfter ==
    ASSUME NEW t, NEW d, Follows(t, d), NEW call, NEW m, NEW u \in Threads, NEW k \in Nat,
           k + Ahead(t, d, u) \in Nat, OnlyAfter(script, call, m, u, k + Ahead(t, d, u))
    PROVE  OnlyAfter(script', call, m, u, k)
<1> SUFFICES ASSUME NEW v \in Threads, NEW j \in DOMAIN script'[v], Listed(script', v, j, call, m)
             PROVE  v = u /\ j > k
  BY DEF OnlyAfter
<1>1. Listed(script, v, j + Ahead(t, d, v), call, m)
  BY DEF Follows
<1>2. j + Ahead(t, d, v) \in DOMAIN script[v]
  BY <1>1 DEF Listed
<1>3. v = u /\ j + Ahead(t, d, v) > k + Ahead(t, d, u)
  BY <1>1, <1>2 DEF OnlyAfter
<1>4. j \in Nat /\ d \in {0, 1}
  BY DEF Follows
<1> QED
  BY <1>3, <1>4 DEF Ahead


\* StartsLater after a step.
LEMMA StartsLaterStep ==
    ASSUME NEW t, NEW d, Follows(t, d), NEW m \in Msgrs, StartsLater(m),
           "started" \in msgr'[m].flags => Has(m, "started") \/ Takes(t, d, "start", m),
           Has(m, "dispatcher") \/ Takes(t, d, "add_dispatcher", m) => "dispatcher" \in msgr'[m].flags,
           ~Has(m, "started") /\ "dispatcher" \in msgr'[m].flags =>
              \/ Has(m, "dispatcher") /\ msgr'[m].local = msgr[m].local
              \/ msgr'[m].local = "running"
    PROVE  StartsLater(m)'
<1> SUFFICES ASSUME NEW u \in Threads, NEW k \in DOMAIN script'[u],
                    Listed(script', u, k, "start", m), ShutdownMayFollow(script', u, k, m)
             PROVE  /\ "started" \notin msgr'[m].flags
                    /\ "dispatcher" \in msgr'[m].flags => msgr'[m].local = "running"
                    /\ \/ "dispatcher" \in msgr'[m].flags
                       \/ \E j \in 1 .. (k - 1) : Listed(script', u, j, "add_dispatcher", m)
                    /\ \A v \in Threads : \A j \in DOMAIN script'[v] :
                          /\ Listed(script', v, j, "start", m)
                          /\ ShutdownMayFollow(script', v, j, m)
                          => v = u /\ j = k
  BY DEF StartsLater, Has, Listed, ShutdownMayFollow
<1> DEFINE K == k + Ahead(t, d, u)
<1>1. ShutdownMayFollow(script, u, K, m) /\ (d = 1 => ShutdownMayFollow(script, t, 1, m))
  BY MayFollow
<1>2. Listed(script, u, K, "start", m) /\ K \in DOMAIN script[u]
  BY DEF Follows, Listed
<1>3. /\ k \in Nat /\ K \in Nat /\ k >= 1 /\ K >= 1
      /\ d = 1 /\ u = t => K > 1
  BY FirstCall
<1>4. /\ ~Has(m, "started")
      /\ Has(m, "dispatcher") => msgr[m].local = "running"
      /\ Has(m, "dispatcher") \/ \E j \in 1 .. (K - 1) : Listed(script, u, j, "add_dispatcher", m)
      /\ \A v \in Threads : \A j \in DOMAIN script[v] :
            Listed(script, v, j, "start", m) /\ ShutdownMayFollow(script, v, j, m) => v = u /\ j = K
  BY <1>1, <1>2 DEF StartsLater
<1>5. ~Takes(t, d, "start", m)
  <2> SUFFICES ASSUME Takes(t, d, "start", m)
               PROVE  FALSE
    OBVIOUS
  <2>1. d = 1 /\ Listed(script, t, 1, "start", m) /\ 1 \in DOMAIN script[t] /\ t \in Threads
    BY DEF Takes, Listed, Follows
  <2>2. t = u /\ 1 = K
    BY <1>1, <1>4, <2>1
  <2> QED
    BY <1>3, <2>1, <2>2
<1>6. "started" \notin msgr'[m].flags
  BY <1>4, <1>5
<1>7. "dispatcher" \in msgr'[m].flags => msgr'[m].local = "running"
  BY <1>4
<1>8. \/ "dispatcher" \in msgr'[m].flags
      \/ \E j \in 1 .. (k - 1) : Listed(script', u, j, "add_dispatcher", m)
  <2>1. CASE Has(m, "dispatcher")
    BY <2>1
  <2>2. ASSUME NEW j \in 1 .. (K - 1), Listed(script, u, j, "add_dispatcher", m)
        PROVE  \/ "dispatcher" \in msgr'[m].flags
               \/ \E i \in 1 .. (k - 1) : Listed(script', u, i, "add_dispatcher", m)
    <3>1. CASE d = 1 /\ u = t /\ j = 1
      BY <2>2, <3>1 DEF Takes
    <3>2. CASE ~(d = 1 /\ u = t /\ j = 1)
      <4>1. Listed(script', u, j - Ahead(t, d, u), "add_dispatcher", m)
        BY <2>2, <3>2 DEF Follows, Listed
      <4>2. d \in {0, 1}
        BY DEF Follows
      <4>3. j - Ahead(t, d, u) \in 1 .. (k - 1)
        BY <1>3, <3>2, <4>2 DEF Ahead
      <4> QED
        BY <4>1, <4>3
    <3> QED
      BY <3>1, <3>2
  <2> QED
    BY <1>4, <2>1, <2>2
<1>9. ASSUME NEW v \in Threads, NEW j \in DOMAIN script'[v], Listed(script', v, j, "start", m),
             ShutdownMayFollow(script', v, j, m)
      PROVE  v = u /\ j = k
  <2>1. Listed(script, v, j + Ahead(t, d, v), "start", m) /\ j + Ahead(t, d, v) \in DOMAIN script[v]
    BY <1>9 DEF Follows, Listed
  <2>2. ShutdownMayFollow(script, v, j + Ahead(t, d, v), m)
    BY <1>9, MayFollow
  <2>3. v = u /\ j + Ahead(t, d, v) = K
    BY <1>4, <2>1, <2>2
  <2>4. j \in Nat /\ d \in {0, 1}
    BY DEF Follows
  <2> QED
    BY <1>3, <2>3, <2>4 DEF Ahead
<1> QED
  BY <1>6, <1>7, <1>8, <1>9

\* JoinsRunning after a step.
LEMMA JoinsStep ==
    ASSUME NEW t, NEW d, Follows(t, d), NEW m \in Msgrs, StartsLater(m), JoinsRunning(m),
           ShutsDown(m)' =>
              /\ ShutsDown(m) \/ Takes(t, d, "start", m)
              /\ msgr[m].local = "running" => msgr'[m].local = "running",
           \A u \in Threads : Shutting(u, m)' \/ Late(u, m)' => msgr'[m].local = "running"
    PROVE  JoinsRunning(m)'
<1>1. ASSUME ShutdownListed(m)', ShutsDown(m)'
      PROVE  msgr'[m].local = "running"
  <2>1. PICK u \in Threads : \E k \in DOMAIN script'[u] : Listed(script', u, k, "shutdown", m)
    BY <1>1 DEF ShutdownListed, Listed
  <2>2. PICK k \in DOMAIN script'[u] : Listed(script', u, k, "shutdown", m)
    BY <2>1
  <2>3. Listed(script, u, k + Ahead(t, d, u), "shutdown", m) /\ k + Ahead(t, d, u) \in DOMAIN script[u]
    BY <2>2 DEF Follows, Listed
  <2>4. CASE ShutsDown(m)
    <3>1. ShutdownListed(m)
      BY <2>3 DEF ShutdownListed
    <3> QED
      BY <1>1, <2>4, <3>1 DEF JoinsRunning
  <2>5. CASE Takes(t, d, "start", m)
    <3>1. d = 1 /\ Listed(script, t, 1, "start", m) /\ 1 \in DOMAIN script[t] /\ t \in Threads
      BY <2>5 DEF Takes, Listed, Follows
    <3>2. d = 1 /\ u = t => k + Ahead(t, d, u) > 1
      BY FirstCall
    <3>3. ShutdownMayFollow(script, t, 1, m)
      BY <2>3, <3>1, <3>2 DEF ShutdownMayFollow
    <3>4. Has(m, "dispatcher") \/ \E j \in 1 .. (1 - 1) : Listed(script, t, j, "add_dispatcher", m)
      BY <3>1, <3>3 DEF StartsLater
    <3>5. Has(m, "dispatcher") => msgr[m].local = "running"
      BY <3>1, <3>3 DEF StartsLater
    <3> QED
      BY <1>1, <3>4, <3>5
  <2> QED
    BY <1>1, <2>4, <2>5
<1> QED
  BY <1>1 DEF JoinsRunning


\* WaitsLater after a step.
LEMMA WaitsStep ==
    ASSUME NEW t, NEW d, Follows(t, d), NEW m \in Msgrs, WaitsLater(m),
           "did_bind" \in msgr'[m].flags => Has(m, "did_bind") \/ Takes(t, d, "bind", m),
           (Has(m, "started") => Has(m, "shutdown_called")) =>
              \/ "started" \in msgr'[m].flags => "shutdown_called" \in msgr'[m].flags
              \/ Takes(t, d, "start", m),
           Takes(t, d, "shutdown", m) =>
              ("started" \in msgr'[m].flags => "shutdown_called" \in msgr'[m].flags)
    PROVE  WaitsLater(m)'
<1> SUFFICES ASSUME NEW u \in Threads, NEW k \in DOMAIN script'[u],
                    Listed(script', u, k, "wait", m)
             PROVE  NeverBound(m)' \/ StartThenShutdown(u, k, m)' \/ ShutdownFirst(u, k, m)'
  BY DEF WaitsLater, Listed
<1> DEFINE K == k + Ahead(t, d, u)
<1>1. Listed(script, u, K, "wait", m) /\ K \in DOMAIN script[u]
  BY DEF Follows, Listed
<1>2. /\ k \in Nat /\ K \in Nat /\ k >= 1 /\ K >= 1
      /\ d = 1 /\ u = t => K > 1
  BY FirstCall
<1>3. d \in {0, 1} /\ t \in Threads
  BY DEF Follows
<1>4. NeverBound(m) \/ StartThenShutdown(u, K, m) \/ ShutdownFirst(u, K, m)
  BY <1>1 DEF WaitsLater
<1> HIDE DEF K
<1>5. CASE NeverBound(m)
  <2>1. ~Takes(t, d, "bind", m)
    BY <1>3, <1>5 DEF NeverBound, Takes, Listed
  <2>2. "did_bind" \notin msgr'[m].flags
    BY <1>5, <2>1 DEF NeverBound
  <2>3. ASSUME NEW v \in Threads, NEW j \in DOMAIN script'[v], Listed(script', v, j, "bind", m)
        PROVE  FALSE
    <3>1. Listed(script, v, j + Ahead(t, d, v), "bind", m) /\ j + Ahead(t, d, v) \in DOMAIN script[v]
      BY <2>3 DEF Follows, Listed
    <3> QED
      BY <1>5, <3>1 DEF NeverBound
  <2>4. NeverBound(m)'
    BY <2>2, <2>3 DEF NeverBound, Has, Listed
  <2> QED
    BY <2>4
<1>6. CASE StartThenShutdown(u, K, m)
  <2>1. PICK i \in 1 .. (K - 1) : \E j \in 1 .. (K - 1) :
           /\ i < j /\ Listed(script, u, i, "start", m) /\ Listed(script, u, j, "shutdown", m)
           /\ \A v \in Threads : \A l \in DOMAIN script[v] :
                 Listed(script, v, l, "start", m) => v = u /\ (l = i \/ l > K)
    BY <1>6 DEF StartThenShutdown
  <2>2. PICK j \in 1 .. (K - 1) :
           /\ i < j /\ Listed(script, u, i, "start", m) /\ Listed(script, u, j, "shutdown", m)
           /\ \A v \in Threads : \A l \in DOMAIN script[v] :
                 Listed(script, v, l, "start", m) => v = u /\ (l = i \/ l > K)
    BY <2>1
  <2>3. i \in DOMAIN script[u] /\ j \in DOMAIN script[u]
    BY <2>2 DEF Listed
  <2>4. Listed(script', u, j - Ahead(t, d, u), "shutdown", m)
    <3>1. ~(d = 1 /\ u = t /\ j = 1)
      BY <1>2, <2>2
    <3> QED
      BY <2>2, <2>3, <3>1 DEF Follows
  <2>5. j - Ahead(t, d, u) \in 1 .. (k - 1)
    BY <1>2, <1>3, <2>2 DEF Ahead, K
  <2>6. ASSUME NEW v \in Threads, NEW l \in DOMAIN script'[v], Listed(script', v, l, "start", m)
        PROVE  /\ v = u /\ (l + Ahead(t, d, u) = i \/ l + Ahead(t, d, u) > K)
               /\ l \in Nat /\ l >= 1
    <3>1. Listed(script, v, l + Ahead(t, d, v), "start", m) /\ l + Ahead(t, d, v) \in DOMAIN script[v]
      BY <2>6 DEF Follows, Listed
    <3>2. v = u /\ (l + Ahead(t, d, v) = i \/ l + Ahead(t, d, v) > K)
      BY <2>2, <3>1
    <3>3. l \in Nat /\ l >= 1
      BY FirstCall
    <3> QED
      BY <3>2, <3>3
  <2>7. CASE d = 1 /\ u = t /\ i = 1
    <3>1. ASSUME NEW v \in Threads, NEW l \in DOMAIN script'[v], Listed(script', v, l, "start", m)
          PROVE  v = u /\ l > k
      BY <1>2, <2>6, <2>7, <3>1 DEF Ahead, K
    <3>2. OnlyAfter(script', "start", m, u, k)
      BY <3>1 DEF OnlyAfter
    <3>3. ShutdownFirst(u, k, m)'
      BY <2>4, <2>5, <3>2 DEF ShutdownFirst, OnlyAfter, Listed
    <3> QED
      BY <3>3
  <2>8. CASE ~(d = 1 /\ u = t /\ i = 1)
    <3> DEFINE I == i - Ahead(t, d, u)
               J == j - Ahead(t, d, u)
    <3>1. Listed(script', u, I, "start", m)
      BY <2>2, <2>3, <2>8 DEF Follows
    <3>2. I \in 1 .. (k - 1) /\ I < J
      BY <1>2, <1>3, <2>2, <2>8 DEF Ahead, K
    <3>3. ASSUME NEW v \in Threads, NEW l \in DOMAIN script'[v], Listed(script', v, l, "start", m)
          PROVE  v = u /\ (l = I \/ l > k)
      BY <1>2, <1>3, <2>6, <3>3 DEF Ahead, K
    <3> HIDE DEF I, J
    <3>4. Listed(script', u, J, "shutdown", m) /\ J \in 1 .. (k - 1)
      BY <2>4, <2>5 DEF J
    <3>5. StartThenShutdown(u, k, m)'
      BY <3>1, <3>2, <3>3, <3>4 DEF StartThenShutdown, Listed
    <3> QED
      BY <3>5
  <2> QED
    BY <2>7, <2>8
<1>7. CASE ShutdownFirst(u, K, m)
  <2>1. OnlyAfter(script', "start", m, u, k)
    BY <1>2, <1>7, StaysAfter DEF ShutdownFirst, K
  <2>2. ~Takes(t, d, "start", m)
    <3> SUFFICES ASSUME Takes(t, d, "start", m)
                 PROVE  FALSE
      OBVIOUS
    <3>1. d = 1 /\ Listed(script, t, 1, "start", m) /\ 1 \in DOMAIN script[t]
      BY DEF Takes, Listed
    <3>2. t = u /\ 1 > K
      BY <1>3, <1>7, <3>1 DEF ShutdownFirst, OnlyAfter
    <3> QED
      BY <1>2, <3>2
  <2>3. \/ "started" \in msgr'[m].flags => "shutdown_called" \in msgr'[m].flags
        \/ \E j \in 1 .. (k - 1) : Listed(script', u, j, "shutdown", m)
    <3>1. CASE Has(m, "started") => Has(m, "shutdown_called")
      BY <2>2, <3>1
    <3>2. ASSUME NEW j \in 1 .. (K - 1), Listed(script, u, j, "shutdown", m)
          PROVE  \/ "started" \in msgr'[m].flags => "shutdown_called" \in msgr'[m].flags
                 \/ \E i \in 1 .. (k - 1) : Listed(script', u, i, "shutdown", m)
      <4>1. CASE d = 1 /\ u = t /\ j = 1
        BY <3>2, <4>1 DEF Takes
      <4>2. CASE ~(d = 1 /\ u = t /\ j = 1)
        <5>1. Listed(script', u, j - Ahead(t, d, u), "shutdown", m)
          BY <3>2, <4>2 DEF Follows, Listed
        <5>2. j - Ahead(t, d, u) \in 1 .. (k - 1)
          BY <1>2, <1>3, <4>2 DEF Ahead, K
        <5> QED
          BY <5>1, <5>2
      <4> QED
        BY <4>1, <4>2
    <3> QED
      BY <1>7, <3>1, <3>2 DEF ShutdownFirst
  <2>4. ShutdownFirst(u, k, m)'
    BY <2>1, <2>3 DEF ShutdownFirst, OnlyAfter, Listed, Has
  <2> QED
    BY <2>4
<1> QED
  BY <1>4, <1>5, <1>6, <1>7

\* RebindsLater after a step.
LEMMA RebindsStep ==
    ASSUME NEW t, NEW d, Follows(t, d), NEW m \in Msgrs, RebindsLater(m),
           Has(m, "did_bind") => \/ "did_bind" \in msgr'[m].flags
                                 \/ \E v \in Threads : Shutting(v, m) \/ Unbinding(v, m),
           Takes(t, d, "bind", m) /\ ~Has(m, "started") => "did_bind" \in msgr'[m].flags,
           "started" \in msgr'[m].flags => Has(m, "started") \/ Takes(t, d, "start", m),
           \A v \in Threads :
              /\ Shutting(v, m)' => Shutting(v, m) \/ Takes(t, d, "shutdown", m)
              /\ Unbinding(v, m)' => Unbinding(v, m) \/ Takes(t, d, "unbind", m)
    PROVE  RebindsLater(m)'
<1> SUFFICES ASSUME NEW u \in Threads, NEW k \in DOMAIN script'[u],
                    Listed(script', u, k, "rebind", m)
             PROVE  /\ "did_bind" \in msgr'[m].flags \/ BindFirst(u, k, m)'
                    /\ OnlyAfter(script', "shutdown", m, u, k) /\ OnlyAfter(script', "unbind", m, u, k)
                    /\ \A v \in Threads : ~Shutting(v, m)' /\ ~Unbinding(v, m)'
  BY DEF RebindsLater, Listed, OnlyAfter, Has
<1> DEFINE K == k + Ahead(t, d, u)
<1>1. Listed(script, u, K, "rebind", m) /\ K \in DOMAIN script[u]
  BY DEF Follows, Listed
<1>2. /\ k \in Nat /\ K \in Nat /\ k >= 1 /\ K >= 1
      /\ d = 1 /\ u = t => K > 1
  BY FirstCall
<1>3. d \in {0, 1} /\ t \in Threads
  BY DEF Follows
<1>4. /\ Has(m, "did_bind") \/ BindFirst(u, K, m)
      /\ OnlyAfter(script, "shutdown", m, u, K) /\ OnlyAfter(script, "unbind", m, u, K)
      /\ \A v \in Threads : ~Shutting(v, m) /\ ~Unbinding(v, m)
  BY <1>1 DEF RebindsLater
<1>5. OnlyAfter(script', "shutdown", m, u, k) /\ OnlyAfter(script', "unbind", m, u, k)
  BY <1>2, <1>4, StaysAfter
<1>6. ASSUME NEW call, OnlyAfter(script, call, m, u, K)
      PROVE  ~Takes(t, d, call, m)
  <2> SUFFICES ASSUME Takes(t, d, call, m)
               PROVE  FALSE
    OBVIOUS
  <2>1. d = 1 /\ Listed(script, t, 1, call, m) /\ 1 \in DOMAIN script[t]
    BY DEF Takes, Listed
  <2>2. t = u /\ 1 > K
    BY <1>3, <1>6, <2>1 DEF OnlyAfter
  <2> QED
    BY <1>2, <2>2
<1>7. \A v \in Threads : ~Shutting(v, m)' /\ ~Unbinding(v, m)'
  BY <1>4, <1>6
<1>8. "did_bind" \in msgr'[m].flags \/ BindFirst(u, k, m)'
  <2>1. CASE Has(m, "did_bind")
    BY <1>4, <2>1
  <2>2. CASE BindFirst(u, K, m)
    <3>1. PICK j \in 1 .. (K - 1) : Listed(script, u, j, "bind", m) /\ OnlyAfter(script, "start", m, u, j)
      BY <2>2 DEF BindFirst
    <3>2. ~Has(m, "started") /\ j \in Nat /\ j >= 1 /\ j < K
      BY <1>2, <2>2 DEF BindFirst
    <3>3. ~Takes(t, d, "start", m)
      <4> SUFFICES ASSUME Takes(t, d, "start", m)
                   PROVE  FALSE
        OBVIOUS
      <4>1. d = 1 /\ Listed(script, t, 1, "start", m) /\ 1 \in DOMAIN script[t]
        BY DEF Takes, Listed
      <4>2. t = u /\ 1 > j
        BY <1>3, <3>1, <4>1 DEF OnlyAfter
      <4> QED
        BY <3>2, <4>2
    <3>4. CASE d = 1 /\ u = t /\ j = 1
      BY <3>1, <3>2, <3>4 DEF Takes
    <3>5. CASE ~(d = 1 /\ u = t /\ j = 1)
      <4> DEFINE J == j - Ahead(t, d, u)
      <4>1. Listed(script', u, J, "bind", m)
        BY <3>1, <3>5 DEF Follows, Listed
      <4>2. J \in 1 .. (k - 1) /\ J \in Nat /\ J + Ahead(t, d, u) = j
        BY <1>2, <1>3, <3>2, <3>5 DEF Ahead
      <4>3. OnlyAfter(script', "start", m, u, J)
        BY <3>1, <3>2, <4>2, StaysAfter
      <4> HIDE DEF J
      <4>4. BindFirst(u, k, m)'
        BY <3>2, <3>3, <4>1, <4>2, <4>3 DEF BindFirst, OnlyAfter, Listed, Has
      <4> QED
        BY <4>4
    <3> QED
      BY <3>4, <3>5
  <2> QED
    BY <1>4, <2>1, <2>2
<1> QED
  BY <1>5, <1>7, <1>8


\* Nothing that the rules are about has changed for messenger m.
UseFlags == {"started", "did_bind", "shutdown_called", "dispatcher"}
SameUse(m) ==
    /\ \A f \in UseFlags : f \in msgr'[m].flags <=> f \in msgr[m].flags
    /\ msgr'[m].local = msgr[m].local
SameAt(m) ==
    \A u \in Threads : /\ Shutting(u, m)' <=> Shutting(u, m)
                       /\ Late(u, m)' <=> Late(u, m)
                       /\ Rebinding(u, m)' <=> Rebinding(u, m)
                       /\ Unbinding(u, m)' <=> Unbinding(u, m)

\* Then they hold as before.
LEMMA UseSame ==
    ASSUME NEW t, NEW d, Follows(t, d), NEW m \in Msgrs, UseOf(m), SameUse(m), SameAt(m),
           \A c \in {"start", "add_dispatcher", "bind", "shutdown", "unbind"} : ~Takes(t, d, c, m)
    PROVE  UseOf(m)'
<1>1. /\ "started" \in msgr'[m].flags <=> Has(m, "started")
      /\ "did_bind" \in msgr'[m].flags <=> Has(m, "did_bind")
      /\ "shutdown_called" \in msgr'[m].flags <=> Has(m, "shutdown_called")
      /\ "dispatcher" \in msgr'[m].flags <=> Has(m, "dispatcher")
      /\ msgr'[m].local = msgr[m].local
  BY DEF SameUse, UseFlags, Has
<1>2. ShutsDown(m)' <=> ShutsDown(m)
  BY <1>1 DEF ShutsDown, Has
<1>3. StartsLater(m) /\ JoinsRunning(m) /\ WaitsLater(m) /\ RebindsLater(m) /\ BoundUntil(m)
  BY DEF UseOf
<1>4. StartsLater(m)'
  BY <1>1, <1>3, StartsLaterStep
<1>5. JoinsRunning(m)'
  <2>1. \A u \in Threads : Shutting(u, m)' \/ Late(u, m)' => msgr'[m].local = "running"
    BY <1>1, <1>3 DEF SameAt, JoinsRunning
  <2> QED
    BY <1>1, <1>2, <1>3, <2>1, JoinsStep
<1>6. WaitsLater(m)'
  BY <1>1, <1>3, WaitsStep
<1>7. RebindsLater(m)'
  <2>1. \A v \in Threads :
           /\ Shutting(v, m)' => Shutting(v, m) \/ Takes(t, d, "shutdown", m)
           /\ Unbinding(v, m)' => Unbinding(v, m) \/ Takes(t, d, "unbind", m)
    BY DEF SameAt
  <2> QED
    BY <1>1, <1>3, <2>1, RebindsStep
<1>8. BoundUntil(m)'
  BY <1>1, <1>3 DEF BoundUntil, SameAt, Has
<1> QED
  BY <1>4, <1>5, <1>6, <1>7, <1>8 DEF UseOf

\* Where a thread is not in such a part of a call on n, neither before nor after.
LEMMA OthersAt ==
    ASSUME NEW n, NEW t, \A u \in Threads : u # t => pc'[u] = pc[u],
           pc[t].at \notin LockedAt \/ pc[t].m # n,
           pc'[t].at \notin LockedAt \/ pc'[t].m # n
    PROVE  SameAt(n)
<1>1. \A u \in Threads : u # t =>
         /\ Shutting(u, n)' <=> Shutting(u, n)
         /\ Late(u, n)' <=> Late(u, n)
         /\ Rebinding(u, n)' <=> Rebinding(u, n)
         /\ Unbinding(u, n)' <=> Unbinding(u, n)
  BY DEF Shutting, Late, Rebinding, Unbinding
<1>2. ShutAt \subseteq LockedAt /\ {"listening", "closed", "rebind"} \subseteq LockedAt
  BY DEF ShutAt, LockedAt, AfterStop
<1>3. /\ ~Shutting(t, n) /\ ~Late(t, n) /\ ~Rebinding(t, n) /\ ~Unbinding(t, n)
      /\ ~Shutting(t, n)' /\ ~Late(t, n)' /\ ~Rebinding(t, n)' /\ ~Unbinding(t, n)'
  BY <1>2 DEF Shutting, Late, Rebinding, Unbinding
<1> QED
  BY <1>1, <1>3 DEF SameAt

\* A step in which no call begins and nothing of this changes.
LEMMA QuietUse ==
    ASSUME UseInv, Types, script' = script, aborted' = aborted,
           \A m \in Msgrs : SameUse(m) /\ SameAt(m)
    PROVE  UseInv'
<1>1. ~aborted' /\ \A m \in Msgrs : UseOf(m)
  BY DEF UseInv
<1>2. ASSUME NEW m \in Msgrs PROVE UseOf(m)'
  <2>1. CASE Threads = {}
    <3>1. BoundUntil(m) /\ ShutsDown(m)' = ShutsDown(m)
      BY <1>1, <1>2 DEF UseOf, SameUse, UseFlags, ShutsDown, Has
    <3>2. BoundUntil(m)'
      BY <1>2, <2>1, <3>1 DEF BoundUntil, SameUse, UseFlags, Has
    <3>3. (StartsLater(m) /\ JoinsRunning(m) /\ WaitsLater(m) /\ RebindsLater(m))'
      BY <2>1 DEF StartsLater, JoinsRunning, ShutdownListed, WaitsLater, RebindsLater
    <3> QED
      BY <3>2, <3>3 DEF UseOf
  <2>2. ASSUME NEW t \in Threads PROVE UseOf(m)'
    BY <1>1, <1>2, NoCall, UseSame
  <2> QED
    BY <2>1, <2>2
<1> QED
  BY <1>1, <1>2 DEF UseInv

\* Thread t begins a call on m: what is left of the rules for other messengers.
LEMMA CallUse ==
    ASSUME UseInv, Types, NEW t \in Threads, NEW m \in Msgrs, NEW call, Begins(t, call, m),
           aborted' = aborted, \A n \in Msgrs : n # m => msgr'[n] = msgr[n],
           \A u \in Threads : u # t => pc'[u] = pc[u],
           pc'[t].at \notin LockedAt \/ pc'[t].m = m, UseOf(m)'
    PROVE  UseInv'
<1>1. pc[t].at = "idle" /\ "idle" \notin LockedAt
  BY Began DEF Begins, LockedAt, AfterStop, InBarrierAt
<1>2. /\ Follows(t, 1) /\ Takes(t, 1, call, m)
      /\ \A c, n : Takes(t, 1, c, n) => c = call /\ n = m
  BY OneCall
<1>3. ASSUME NEW n \in Msgrs, n # m PROVE UseOf(n)'
  <2>1. SameAt(n)
    BY <1>1, <1>3, OthersAt
  <2>2. SameUse(n)
    BY <1>3 DEF SameUse
  <2>3. UseOf(n)
    BY DEF UseInv
  <2> QED
    BY <1>2, <1>3, <2>1, <2>2, <2>3, UseSame
<1> QED
  BY <1>3 DEF UseInv

\* A thread that is in a call on m goes on.
LEMMA GoUse ==
    ASSUME UseInv, Types, NEW t \in Threads, NEW m \in Msgrs, pc[t].m = m, script' = script,
           aborted' = aborted, \A n \in Msgrs : n # m => msgr'[n] = msgr[n],
           \A u \in Threads : u # t => pc'[u] = pc[u],
           pc'[t].at \notin LockedAt \/ pc'[t].m = m, UseOf(m)'
    PROVE  UseInv'
<1>1. Follows(t, 0) /\ \A c, n : ~Takes(t, 0, c, n)
  BY NoCall
<1>2. ASSUME NEW n \in Msgrs, n # m PROVE UseOf(n)'
  <2>1. SameAt(n)
    BY <1>2, OthersAt
  <2>2. SameUse(n)
    BY <1>2 DEF SameUse
  <2>3. UseOf(n)
    BY DEF UseInv
  <2> QED
    BY <1>1, <1>2, <2>1, <2>2, <2>3, UseSame
<1> QED
  BY <1>2 DEF UseInv


\* The messengers keep their flags and the threads of their dispatch queues.
KeepsUse == \A n \in Msgrs : msgr'[n].flags = msgr[n].flags /\ msgr'[n].local = msgr[n].local

\* One messenger does so, and no other one changes.
LEMMA OneKeepsUse ==
    ASSUME Types, NEW m \in Msgrs, NEW R, msgr' = [msgr EXCEPT ![m] = R],
           R.flags = msgr[m].flags, R.local = msgr[m].local
    PROVE  KeepsUse
BY DEF KeepsUse, Types

\* Threads that stay in the same part of a call.
SamePart(u) ==
    \/ pc'[u] = pc[u]
    \/ pc[u].at \notin LockedAt /\ pc'[u].at \notin LockedAt
    \/ pc[u].at \in ShutAt /\ pc'[u].at \in ShutAt /\ pc'[u].m = pc[u].m
    \/ /\ pc[u].at \in {"listening", "closed"} /\ pc'[u].at \in {"listening", "closed"}
       /\ pc'[u].m = pc[u].m /\ pc'[u].call = pc[u].call

LEMMA SameParts ==
    ASSUME \A u \in Threads : SamePart(u)
    PROVE  \A n : SameAt(n)
<1> SUFFICES ASSUME NEW n, NEW u \in Threads
             PROVE  /\ Shutting(u, n)' <=> Shutting(u, n)
                    /\ Late(u, n)' <=> Late(u, n)
                    /\ Rebinding(u, n)' <=> Rebinding(u, n)
                    /\ Unbinding(u, n)' <=> Unbinding(u, n)
  BY DEF SameAt
<1>1. CASE pc'[u] = pc[u]
  BY <1>1 DEF Shutting, Late, Rebinding, Unbinding
<1>2. CASE pc[u].at \notin LockedAt /\ pc'[u].at \notin LockedAt
  <2>1. ShutAt \subseteq LockedAt /\ {"listening", "closed", "rebind"} \subseteq LockedAt
    BY DEF ShutAt, LockedAt, AfterStop
  <2> QED
    BY <1>2, <2>1 DEF Shutting, Late, Rebinding, Unbinding
<1>3. CASE pc[u].at \in ShutAt /\ pc'[u].at \in ShutAt /\ pc'[u].m = pc[u].m
  <2>1. "listening" \notin ShutAt /\ "closed" \notin ShutAt /\ "rebind" \notin ShutAt
    BY DEF ShutAt, InBarrierAt
  <2> QED
    BY <1>3, <2>1 DEF Shutting, Late, Rebinding, Unbinding
<1>4. CASE /\ pc[u].at \in {"listening", "closed"} /\ pc'[u].at \in {"listening", "closed"}
           /\ pc'[u].m = pc[u].m /\ pc'[u].call = pc[u].call
  <2>1. "listening" \notin ShutAt /\ "closed" \notin ShutAt
    BY DEF ShutAt, InBarrierAt
  <2> QED
    BY <1>4, <2>1 DEF Shutting, Late, Rebinding, Unbinding
<1> QED
  BY <1>1, <1>2, <1>3, <1>4 DEF SamePart

\* Such steps.
LEMMA PartsUse ==
    ASSUME UseInv, Types, script' = script, aborted' = aborted, KeepsUse,
           \A u \in Threads : SamePart(u)
    PROVE  UseInv'
<1>1. \A m \in Msgrs : SameAt(m)
  BY SameParts
<1>2. \A m \in Msgrs : SameUse(m)
  BY DEF SameUse, KeepsUse
<1> QED
  BY <1>1, <1>2, QuietUse

\* One thread of them moves.
LEMMA OnePart ==
    ASSUME NEW t \in Threads, \A u \in Threads : u # t => pc'[u] = pc[u], SamePart(t)
    PROVE  \A u \in Threads : SamePart(u)
BY DEF SamePart

\* The points of calls.
LEMMA UsePoints ==
    /\ \A at \in {"idle", "ready", "join", "relock", "closing"} : at \notin LockedAt
    /\ InBarrierAt \cup {"finish"} = ShutAt /\ ShutAt \subseteq LockedAt
    /\ {"listening", "closed", "rebind"} \subseteq LockedAt
    /\ \A at \in {"listening", "closed", "rebind"} : at \notin ShutAt
BY DEF LockedAt, AfterStop, InBarrierAt, ShutAt

\* Calls that go on without a change of this.
LEMMA GoesUse ==
    ASSUME SInv, UseInv, NEW t \in Threads, NEW m \in Msgrs,
           \/ ready(t, m) \/ ProcessorStopped(t, m) \/ barrier_post(t, m) \/ barrier_inc(t, m)
           \/ barrier_wait(t, m) \/ Joined(t, m) \/ MarkedDown(t, m)
    PROVE  UseInv'
<1>0. Types /\ msgr[m] \in MsgrStates /\ pc[t] \in PcStates
  BY DEF SInv, Inv, Types
<1>1. CASE ready(t, m)
  <2>1. script' = script /\ aborted' = aborted /\ pc[t].at = "ready" /\ Return(t)
    BY <1>1 DEF ready, At
  <2>2. SamePart(t) /\ \A u \in Threads : u # t => pc'[u] = pc[u]
    BY <1>0, <2>1, Returned, UsePoints DEF SamePart
  <2>3. KeepsUse
    <3>1. CASE Has(m, "did_bind")
      <4>1. msgr' = [msgr EXCEPT ![m] = Started(msgr[m], get_worker)]
        BY <1>1, <3>1 DEF ready
      <4>2. /\ Started(msgr[m], get_worker).flags = msgr[m].flags
            /\ Started(msgr[m], get_worker).local = msgr[m].local
        BY <1>0, StartedMsgr, WorkerChosen DEF SameQueue
      <4> QED
        BY <1>0, <4>1, <4>2, OneKeepsUse
    <3>2. CASE ~Has(m, "did_bind")
      BY <1>1, <3>2 DEF ready, KeepsUse
    <3> QED
      BY <3>1, <3>2
  <2> QED
    BY <1>0, <2>1, <2>2, <2>3, OnePart, PartsUse
<1>2. CASE ProcessorStopped(t, m)
  <2>1. script' = script /\ aborted' = aborted /\ pc[t].at = "listening" /\ Goto(t, "closed")
    BY <1>2 DEF ProcessorStopped, At
  <2>2. SamePart(t) /\ \A u \in Threads : u # t => pc'[u] = pc[u]
    BY <1>0, <2>1, Moved DEF SamePart, Points, LockedAt, AfterStop
  <2>3. PICK R : R = [msgr[m] EXCEPT !.worker = -1, !.listen = FALSE]
    OBVIOUS
  <2>4. msgr' = [msgr EXCEPT ![m] = R]
    BY <1>2, <2>3 DEF ProcessorStopped
  <2>5. R.flags = msgr[m].flags /\ R.local = msgr[m].local
    BY <1>0, <2>3 DEF MsgrStates
  <2>6. KeepsUse
    BY <1>0, <2>4, <2>5, OneKeepsUse
  <2> QED
    BY <1>0, <2>1, <2>2, <2>6, OnePart, PartsUse
<1>3. CASE barrier_post(t, m)
  <2>1. /\ script' = script /\ aborted' = aborted /\ msgr' = msgr
        /\ pc[t].at = "barrier" /\ Goto(t, "inc")
    BY <1>3 DEF barrier_post, At
  <2>2. SamePart(t) /\ \A u \in Threads : u # t => pc'[u] = pc[u]
    BY <1>0, <2>1, Moved DEF SamePart, Points, LockedAt, AfterStop, InBarrierAt, ShutAt
  <2>3. KeepsUse
    BY <2>1 DEF KeepsUse
  <2> QED
    BY <1>0, <2>1, <2>2, <2>3, OnePart, PartsUse
<1>4. CASE barrier_inc(t, m)
  <2>1. /\ script' = script /\ aborted' = aborted /\ msgr' = msgr /\ pc[t].at = "inc"
    BY <1>4 DEF barrier_inc, At
  <2>2. PICK P : P = [pc[t] EXCEPT !.i = pc[t].i + 1,
                        !.at = IF pc[t].i + 1 = NumWorkers THEN "barrier_wait" ELSE "barrier"]
    OBVIOUS
  <2>3. pc' = [pc EXCEPT ![t] = P]
    BY <1>4, <2>2 DEF barrier_inc
  <2>4. P.at \in ShutAt /\ P.m = pc[t].m
    BY <1>0, <2>2 DEF PcStates, ShutAt, InBarrierAt
  <2>5. SamePart(t) /\ \A u \in Threads : u # t => pc'[u] = pc[u]
    BY <1>0, <2>1, <2>3, <2>4 DEF SamePart, Types, ShutAt, InBarrierAt
  <2>6. KeepsUse
    BY <2>1 DEF KeepsUse
  <2> QED
    BY <1>0, <2>1, <2>5, <2>6, OnePart, PartsUse
<1>5. CASE barrier_wait(t, m)
  <2>1. /\ script' = script /\ aborted' = aborted /\ msgr' = msgr /\ pc[t].at = "barrier_wait"
        /\ Goto(t, IF BarrierPassed THEN "finish" ELSE "barrier_sleep")
    BY <1>5 DEF barrier_wait, At
  <2>2. PICK where \in {"finish", "barrier_sleep"} : Goto(t, where)
    BY <2>1
  <2>3. SamePart(t) /\ \A u \in Threads : u # t => pc'[u] = pc[u]
    BY <1>0, <2>1, <2>2, Moved DEF SamePart, Points, LockedAt, AfterStop, InBarrierAt, ShutAt
  <2>4. KeepsUse
    BY <2>1 DEF KeepsUse
  <2> QED
    BY <1>0, <2>1, <2>3, <2>4, OnePart, PartsUse
<1>6. CASE Joined(t, m)
  <2>1. script' = script /\ aborted' = aborted /\ pc[t].at = "join" /\ Goto(t, "relock")
    BY <1>6 DEF Joined, At
  <2>2. SamePart(t) /\ \A u \in Threads : u # t => pc'[u] = pc[u]
    BY <1>0, <2>1, Moved, UsePoints DEF SamePart, Points
  <2>3. PICK R : R = [msgr[m] EXCEPT !.dispatch = "none", !.stop = FALSE]
    OBVIOUS
  <2>4. msgr' = [msgr EXCEPT ![m] = R]
    BY <1>6, <2>3 DEF Joined
  <2>5. R.flags = msgr[m].flags /\ R.local = msgr[m].local
    BY <1>0, <2>3 DEF MsgrStates
  <2>6. KeepsUse
    BY <1>0, <2>4, <2>5, OneKeepsUse
  <2> QED
    BY <1>0, <2>1, <2>2, <2>6, OnePart, PartsUse
<1>7. CASE MarkedDown(t, m)
  <2>1. script' = script /\ aborted' = aborted /\ msgr' = msgr /\ pc[t].at = "closing" /\ Return(t)
    BY <1>7 DEF MarkedDown, At
  <2>2. SamePart(t) /\ \A u \in Threads : u # t => pc'[u] = pc[u]
    BY <1>0, <2>1, Returned, UsePoints DEF SamePart
  <2>3. KeepsUse
    BY <2>1 DEF KeepsUse
  <2> QED
    BY <1>0, <2>1, <2>2, <2>3, OnePart, PartsUse
<1> QED
  BY <1>1, <1>2, <1>3, <1>4, <1>5, <1>6, <1>7


\* _stop() changes only what is registered.
LEMMA StopKeepsUse ==
    ASSUME Types, Made1, NEW ev, NEW c \in ConnIds, conn[c].state # "NONE", _stop(c, ev)
    PROVE  KeepsUse
<1>1. PICK m \in Msgrs : m = conn[c].m
  BY DEF Made1
<1>2. msgr[m] \in MsgrStates
  BY DEF Types
<1>3. CASE conn[c].state = "CLOSED"
  BY <1>3 DEF _stop, KeepsUse
<1>4. CASE conn[c].state # "CLOSED"
  <2>1. PICK R : R = _unregister_conn(msgr[m], c)
    OBVIOUS
  <2>2. msgr' = [msgr EXCEPT ![m] = R]
    BY <1>1, <1>4, <2>1 DEF _stop
  <2>3. R.flags = msgr[m].flags /\ R.local = msgr[m].local
    BY <1>2, <2>1 DEF _unregister_conn, MsgrStates
  <2> QED
    BY <2>2, <2>3, OneKeepsUse
<1> QED
  BY <1>3, <1>4

\* The Processor, the dispatch thread and the connections.
LEMMA WorkersUse ==
    ASSUME SInv, UseInv,
           \/ \E m \in Msgrs : accept(m) \/ add_accept(m) \/ DispatchEnds(m)
           \/ \E c \in ConnIds : _accept_conn(c)
    PROVE  UseInv'
<1>0. Types /\ Made1
  BY DEF SInv, Inv, ConnInv
<1>1. script' = script /\ aborted' = aborted /\ pc' = pc
  BY ZenonT(40) DEF accept, add_accept, DispatchEnds, _accept_conn
<1>2. \A u \in Threads : SamePart(u)
  BY <1>1 DEF SamePart
<1>3. ASSUME NEW m \in Msgrs, accept(m) PROVE KeepsUse
  <2>1. PICK R : R = [msgr[m] EXCEPT !.accepted = msgr[m].gen]
    OBVIOUS
  <2>2. msgr' = [msgr EXCEPT ![m] = R]
    BY <1>3, <2>1 DEF accept
  <2>3. R.flags = msgr[m].flags /\ R.local = msgr[m].local
    BY <1>0, <2>1 DEF Types, MsgrStates
  <2> QED
    BY <1>0, <2>2, <2>3, OneKeepsUse
<1>4. ASSUME NEW m \in Msgrs, add_accept(m) PROVE KeepsUse
  <2>0. PICK c : msgr' = [msgr EXCEPT ![m].accepting = @ \cup {c}, ![m].accepted = -1]
    BY <1>4 DEF add_accept
  <2>1. PICK R : R = [msgr[m] EXCEPT !.accepting = msgr[m].accepting \cup {c}, !.accepted = -1]
    OBVIOUS
  <2>2. msgr' = [msgr EXCEPT ![m] = R]
    BY <1>0, <2>0, <2>1 DEF Types, MsgrStates
  <2>3. R.flags = msgr[m].flags /\ R.local = msgr[m].local
    BY <1>0, <2>1 DEF Types, MsgrStates
  <2> QED
    BY <1>0, <2>2, <2>3, OneKeepsUse
<1>5. ASSUME NEW m \in Msgrs, DispatchEnds(m) PROVE KeepsUse
  <2>1. PICK R : R = [msgr[m] EXCEPT !.dispatch = "ended"]
    OBVIOUS
  <2>2. msgr' = [msgr EXCEPT ![m] = R]
    BY <1>5, <2>1 DEF DispatchEnds
  <2>3. R.flags = msgr[m].flags /\ R.local = msgr[m].local
    BY <1>0, <2>1 DEF Types, MsgrStates
  <2> QED
    BY <1>0, <2>2, <2>3, OneKeepsUse
<1>6. ASSUME NEW c \in ConnIds, _accept_conn(c) PROVE KeepsUse
  <2>1. conn[c].state = "ACCEPTING"
    BY <1>6, ZenonT(40) DEF _accept_conn
  <2>2. PICK m \in Msgrs : m = conn[c].m
    BY <1>0, <2>1 DEF Made1
  <2>3. PICK p \in Peers : p = conn[c].peer
    BY <1>0, <2>1 DEF Made1
  <2>4. CASE msgr[m].conns[p] = None
    <3>1. msgr' = [msgr EXCEPT ![m].accepting = @ \ {c}, ![m].conns[p] = c]
      BY <1>6, <2>2, <2>3, <2>4, ZenonT(40) DEF _accept_conn
    <3>2. PICK R : R = [[msgr[m] EXCEPT !.accepting = @ \ {c}] EXCEPT !.conns[p] = c]
      OBVIOUS
    <3>3. msgr' = [msgr EXCEPT ![m] = R]
      BY <1>0, <3>1, <3>2 DEF Types
    <3>4. R.flags = msgr[m].flags /\ R.local = msgr[m].local
      BY <1>0, <3>2 DEF Types, MsgrStates
    <3> QED
      BY <1>0, <3>3, <3>4, OneKeepsUse
  <2>5. CASE msgr[m].conns[p] # None
    <3>1. _stop(c, events)
      BY <1>6, <2>2, <2>3, <2>5, ZenonT(40) DEF _accept_conn
    <3> QED
      BY <1>0, <2>1, <3>1, StopKeepsUse
  <2> QED
    BY <2>4, <2>5
<1>7. KeepsUse
  BY <1>3, <1>4, <1>5, <1>6
<1> QED
  BY <1>0, <1>1, <1>2, <1>7, PartsUse

\* A connection opens, and the messenger learns its address.
LEMMA ConnectDoneUse ==
    ASSUME SInv, UseInv, NEW c \in ConnIds, ConnectDone(c)
    PROVE  UseInv'
<1>0. Types /\ Made1
  BY DEF SInv, Inv, ConnInv
<1>1. script' = script /\ aborted' = aborted /\ pc' = pc /\ conn[c].state = "CONNECTING"
  BY DEF ConnectDone
<1>2. PICK m \in Msgrs : m = conn[c].m
  BY <1>0, <1>1 DEF Made1
<1>3. \A n \in Msgrs : SameAt(n)
  BY <1>1, SameParts DEF SamePart
<1>4. \A n \in Msgrs : SameUse(n)
  <2>1. CASE ~Has(m, "need_addr")
    <3>1. msgr' = msgr
      BY <1>2, <2>1 DEF ConnectDone
    <3> QED
      BY <3>1 DEF SameUse
  <2>2. CASE Has(m, "need_addr")
    <3>1. PICK F : F = (msgr[m].flags \cup {}) \ {"need_addr"}
      OBVIOUS
    <3>2. PICK R : R = [msgr[m] EXCEPT !.flags = F]
      OBVIOUS
    <3>3. PICK Q : Q = init_local_connection(R)
      OBVIOUS
    <3>4. msgr' = [msgr EXCEPT ![m] = Q]
      BY <1>0, <1>2, <2>2, <3>1, <3>2, <3>3 DEF ConnectDone, SetFlags, Types
    <3>5. Q.flags = msgr[m].flags \ {"need_addr"} /\ Q.local = msgr[m].local
      BY <1>0, <3>1, <3>2, <3>3 DEF init_local_connection, MsgrStates, Types
    <3>6. "need_addr" \notin UseFlags
      BY DEF UseFlags
    <3> QED
      BY <1>0, <3>4, <3>5, <3>6 DEF SameUse, Types
  <2> QED
    BY <2>1, <2>2
<1> QED
  BY <1>0, <1>1, <1>3, <1>4, QuietUse

\* The events of the workers.
LEMMA DoRequestUse ==
    ASSUME SInv, UseInv, NEW w \in Workers, DoRequest(w)
    PROVE  UseInv'
<1>0. Types /\ Made1 /\ FitIn(events) /\ StopsOnce
  BY DEF SInv, Inv, ConnInv, ProcInv
<1>1. script' = script /\ aborted' = aborted /\ events[w] # <<>>
  BY DEF DoRequest
<1>2. PICK e : e = Head(events[w])
  OBVIOUS
<1>3. 1 \in DOMAIN events[w] /\ e = events[w][1] /\ e \in Events
  BY <1>0, <1>1, <1>2 DEF Types
<1>4. CASE e.kind = "C_stop"
  <2>1. PICK ev : _stop(e.arg, ev) /\ pc' = pc
    BY <1>2, <1>4 DEF DoRequest
  <2>2. e.arg \in ConnIds /\ conn[e.arg].state # "NONE"
    BY <1>0, <1>3, <1>4 DEF FitIn
  <2>3. KeepsUse
    BY <1>0, <2>1, <2>2, StopKeepsUse
  <2>4. \A u \in Threads : SamePart(u)
    BY <2>1 DEF SamePart
  <2> QED
    BY <1>0, <1>1, <2>3, <2>4, PartsUse
<1>5. CASE e.kind = "C_release"
  <2>1. msgr' = msgr /\ pc' = pc
    BY <1>2, <1>5 DEF DoRequest
  <2>2. KeepsUse /\ \A u \in Threads : SamePart(u)
    BY <2>1 DEF KeepsUse, SamePart
  <2> QED
    BY <1>0, <1>1, <2>2, PartsUse
<1>6. CASE e.kind = "C_ProcessorStop"
  <2>1. /\ msgr' = [msgr EXCEPT ![e.arg].stopped = TRUE, ![e.arg].ev_read = FALSE] /\ pc' = pc
    BY <1>2, <1>6 DEF DoRequest
  <2>2. CASE e.arg \notin Msgrs
    <3>1. KeepsUse /\ \A u \in Threads : SamePart(u)
      BY <1>0, <2>1, <2>2 DEF KeepsUse, SamePart, Types
    <3> QED
      BY <1>0, <1>1, <3>1, PartsUse
  <2>3. CASE e.arg \in Msgrs
    <3>1. PICK m \in Msgrs : m = e.arg
      BY <2>3
    <3>2. PICK R : R = [msgr[m] EXCEPT !.stopped = TRUE, !.ev_read = FALSE]
      OBVIOUS
    <3>3. msgr' = [msgr EXCEPT ![m] = R]
      BY <1>0, <2>1, <3>1, <3>2 DEF Types
    <3>4. R.flags = msgr[m].flags /\ R.local = msgr[m].local
      BY <1>0, <3>2 DEF Types, MsgrStates
    <3>5. KeepsUse
      BY <1>0, <3>3, <3>4, OneKeepsUse
    <3>6. \A u \in Threads : SamePart(u)
      BY <2>1 DEF SamePart
    <3> QED
      BY <1>0, <1>1, <3>5, <3>6, PartsUse
  <2> QED
    BY <2>2, <2>3
<1>7. CASE e.kind = "C_barrier"
  <2>1. msgr' = msgr /\ pc' = Signalled
    BY <1>2, <1>7 DEF DoRequest
  <2>2. ASSUME NEW u \in Threads PROVE SamePart(u)
    <3>1. CASE pc[u].at = "barrier_sleep"
      <4>1. pc'[u] = [pc[u] EXCEPT !.at = "barrier_wait"]
        BY <2>1, <3>1 DEF Signalled
      <4>2. pc'[u].at = "barrier_wait" /\ pc'[u].m = pc[u].m
        BY <1>0, <4>1 DEF Types, PcStates
      <4> QED
        BY <3>1, <4>2 DEF SamePart, ShutAt, InBarrierAt
    <3>2. CASE pc[u].at # "barrier_sleep"
      BY <2>1, <3>2 DEF Signalled, SamePart
    <3> QED
      BY <3>1, <3>2
  <2>3. KeepsUse
    BY <2>1 DEF KeepsUse
  <2> QED
    BY <1>0, <1>1, <2>2, <2>3, PartsUse
<1>8. e.kind \in {"C_stop", "C_release", "C_ProcessorStop", "C_barrier"}
  BY <1>3 DEF Events
<1> QED
  BY <1>4, <1>5, <1>6, <1>7, <1>8


\* The flags and the threads of messenger m change as the rules foresee.
FlagsMove(t, d, m) ==
    /\ "started" \in msgr'[m].flags => Has(m, "started") \/ Takes(t, d, "start", m)
    /\ Has(m, "dispatcher") \/ Takes(t, d, "add_dispatcher", m) => "dispatcher" \in msgr'[m].flags
    /\ ~Has(m, "started") /\ "dispatcher" \in msgr'[m].flags =>
          \/ Has(m, "dispatcher") /\ msgr'[m].local = msgr[m].local
          \/ msgr'[m].local = "running"
    /\ ShutsDown(m)' =>
          /\ ShutsDown(m) \/ Takes(t, d, "start", m)
          /\ msgr[m].local = "running" => msgr'[m].local = "running"
    /\ "did_bind" \in msgr'[m].flags => Has(m, "did_bind") \/ Takes(t, d, "bind", m)
    /\ (Has(m, "started") => Has(m, "shutdown_called")) =>
          \/ "started" \in msgr'[m].flags => "shutdown_called" \in msgr'[m].flags
          \/ Takes(t, d, "start", m)
    /\ Takes(t, d, "shutdown", m) =>
          ("started" \in msgr'[m].flags => "shutdown_called" \in msgr'[m].flags)
    /\ Has(m, "did_bind") => \/ "did_bind" \in msgr'[m].flags
                             \/ \E v \in Threads : Shutting(v, m) \/ Unbinding(v, m)
    /\ Takes(t, d, "bind", m) /\ ~Has(m, "started") => "did_bind" \in msgr'[m].flags

ThreadsMove(t, d, m) ==
    \A u \in Threads :
        /\ Shutting(u, m)' \/ Late(u, m)' => msgr'[m].local = "running"
        /\ Shutting(u, m)' => Shutting(u, m) \/ Takes(t, d, "shutdown", m)
        /\ Unbinding(u, m)' => Unbinding(u, m) \/ Takes(t, d, "unbind", m)

LEMMA UseStep ==
    ASSUME NEW t, NEW d, Follows(t, d), NEW m \in Msgrs, UseOf(m), FlagsMove(t, d, m),
           ThreadsMove(t, d, m), BoundUntil(m)'
    PROVE  UseOf(m)'
<1>1. StartsLater(m) /\ JoinsRunning(m) /\ WaitsLater(m) /\ RebindsLater(m)
  BY DEF UseOf
<1>2. StartsLater(m)'
  BY <1>1, StartsLaterStep DEF FlagsMove
<1>3. JoinsRunning(m)'
  BY <1>1, JoinsStep DEF FlagsMove, ThreadsMove
<1>4. WaitsLater(m)'
  BY <1>1, WaitsStep DEF FlagsMove
<1>5. RebindsLater(m)'
  BY <1>1, RebindsStep DEF FlagsMove, ThreadsMove
<1> QED
  BY <1>2, <1>3, <1>4, <1>5 DEF UseOf

\* The parts of a call that hold start_lock: one thread is there.
LEMMA OneInPart ==
    ASSUME SInv, NEW t \in Threads, NEW m \in Msgrs, pc[t].at \in LockedAt, pc[t].m = m,
           NEW u \in Threads,
           Shutting(u, m) \/ Late(u, m) \/ Rebinding(u, m) \/ Unbinding(u, m)
    PROVE  u = t
<1>1. pc[u].at \in LockedAt /\ pc[u].m = m
  BY UsePoints DEF Shutting, Late, Rebinding, Unbinding
<1> QED
  BY <1>1, OneLocker DEF SInv, Inv, ProcInv

\* The messenger of a step, with its flags F and its local delivery thread L.
Becomes(m, F, L) ==
    /\ msgr'[m].flags = F /\ msgr'[m].local = L
    /\ \A n \in Msgrs : n # m => msgr'[n] = msgr[n]

LEMMA BecomesOne ==
    ASSUME Types, NEW m \in Msgrs, NEW R, msgr' = [msgr EXCEPT ![m] = R]
    PROVE  Becomes(m, R.flags, R.local)
BY DEF Becomes, Types

\* SetFlags.
LEMMA BecomesSet ==
    ASSUME Types, NEW m \in Msgrs, NEW on, NEW off, msgr' = SetFlags(m, on, off)
    PROVE  Becomes(m, (msgr[m].flags \cup on) \ off, msgr[m].local)
<1>1. PICK F : F = (msgr[m].flags \cup on) \ off
  OBVIOUS
<1>2. PICK R : R = [msgr[m] EXCEPT !.flags = F]
  OBVIOUS
<1>3. msgr' = [msgr EXCEPT ![m] = R]
  BY <1>1, <1>2 DEF SetFlags
<1>4. R.flags = F /\ R.local = msgr[m].local
  BY <1>2 DEF Types, MsgrStates
<1> QED
  BY <1>1, <1>3, <1>4, BecomesOne

\* The rest of unbind().
LEMMA UnboundUse ==
    ASSUME SInv, UseInv, NEW t \in Threads, NEW m \in Msgrs, Unbound(t, m)
    PROVE  UseInv'
<1>0. Types /\ UseOf(m) /\ BoundUntil(m) /\ JoinsRunning(m)
  BY DEF SInv, Inv, UseInv, UseOf
<1>1. /\ pc[t].at = "closed" /\ pc[t].m = m /\ pc[t].call = "unbind" /\ Return(t)
      /\ script' = script /\ aborted' = aborted /\ msgr' = SetFlags(m, {}, {"did_bind"})
  BY DEF Unbound, At
<1>2. Becomes(m, (msgr[m].flags \cup {}) \ {"did_bind"}, msgr[m].local)
  BY <1>0, <1>1, BecomesSet
<1>3. pc'[t].at = "idle" /\ \A u \in Threads : u # t => pc'[u] = pc[u]
  BY <1>0, <1>1, Returned
<1>4. Unbinding(t, m) /\ pc[t].at \in LockedAt /\ pc'[t].at \notin LockedAt
  BY <1>1, <1>3, UsePoints DEF Unbinding
<1>5. ~Shutting(t, m) /\ ~Rebinding(t, m) /\ ~Late(t, m)
  BY <1>1, UsePoints DEF Shutting, Rebinding, Late
<1>6. \A u \in Threads : ~Shutting(u, m)' /\ ~Rebinding(u, m)' /\ ~Late(u, m)' /\ ~Unbinding(u, m)'
  <2>1. \A u \in Threads : u # t =>
           ~Shutting(u, m) /\ ~Rebinding(u, m) /\ ~Late(u, m) /\ ~Unbinding(u, m)
    BY <1>1, <1>4, OneInPart
  <2>2. /\ ~Shutting(t, m)' /\ ~Rebinding(t, m)' /\ ~Late(t, m)' /\ ~Unbinding(t, m)'
    BY <1>3, <1>4, UsePoints DEF Shutting, Rebinding, Late, Unbinding
  <2> QED
    BY <1>3, <2>1, <2>2 DEF Shutting, Rebinding, Late, Unbinding
<1>7. Follows(t, 0) /\ \A c, n : ~Takes(t, 0, c, n)
  BY <1>0, <1>1, NoCall
<1>8. FlagsMove(t, 0, m)
  BY <1>2, <1>4, <1>7 DEF FlagsMove, Becomes, Has, ShutsDown
<1>9. ThreadsMove(t, 0, m)
  BY <1>6 DEF ThreadsMove
<1>10. BoundUntil(m)'
  BY <1>0, <1>2, <1>6 DEF BoundUntil, Becomes, Has
<1>11. UseOf(m)'
  BY <1>0, <1>7, <1>8, <1>9, <1>10, UseStep
<1> QED
  BY <1>0, <1>1, <1>2, <1>3, <1>4, <1>11, GoUse DEF Becomes

\* shutdown() and rebind() mark the connections down.
LEMMA MarkAllDownUse ==
    ASSUME SInv, UseInv, NEW t \in Threads, NEW m \in Msgrs, MarkAllDown(t, m)
    PROVE  UseInv'
<1>0. Types /\ UseOf(m) /\ BoundUntil(m) /\ JoinsRunning(m) /\ Status(m)
  BY DEF SInv, Inv, ShutInv, UseInv, UseOf
<1>1. /\ pc[t].at = "closed" /\ pc[t].m = m /\ pc[t].call \in {"rebind", "shutdown"}
      /\ Goto(t, IF pc[t].call = "rebind" THEN "rebind" ELSE "barrier")
      /\ script' = script /\ aborted' = aborted
      /\ msgr' = [SetFlags(m, {}, Unbinds(pc[t].call)) EXCEPT ![m].gen = @ + 1]
  BY DEF MarkAllDown, At
<1>2. Becomes(m, msgr[m].flags \ Unbinds(pc[t].call), msgr[m].local)
  <2>1. PICK F : F = (msgr[m].flags \cup {}) \ Unbinds(pc[t].call)
    OBVIOUS
  <2>2. PICK R : R = [msgr[m] EXCEPT !.flags = F]
    OBVIOUS
  <2>3. PICK Q : Q = [R EXCEPT !.gen = @ + 1]
    OBVIOUS
  <2>4. msgr' = [msgr EXCEPT ![m] = Q]
    BY <1>0, <1>1, <2>1, <2>2, <2>3, ZenonT(60) DEF SetFlags, Types
  <2>5. Q.flags = F /\ Q.local = msgr[m].local
    BY <1>0, <2>2, <2>3 DEF Types, MsgrStates
  <2>6. F = msgr[m].flags \ Unbinds(pc[t].call)
    BY <2>1
  <2> QED
    BY <1>0, <2>4, <2>5, <2>6, BecomesOne
<1>3. pc[t].at \in LockedAt /\ \A u \in Threads : u # t =>
           ~Shutting(u, m) /\ ~Rebinding(u, m) /\ ~Late(u, m) /\ ~Unbinding(u, m)
  BY <1>1, UsePoints, OneInPart
<1>4. Follows(t, 0) /\ \A c, n : ~Takes(t, 0, c, n)
  BY <1>0, <1>1, NoCall
<1>5. CASE pc[t].call = "rebind"
  <2>1. pc'[t].at = "rebind" /\ pc'[t].m = m /\ \A u \in Threads : u # t => pc'[u] = pc[u]
    BY <1>0, <1>1, <1>5, Moved DEF Points, LockedAt, AfterStop
  <2>2. Becomes(m, msgr[m].flags, msgr[m].local)
    <3>1. Unbinds(pc[t].call) = {} /\ msgr[m].flags \ {} = msgr[m].flags
      BY <1>5 DEF Unbinds
    <3> QED
      BY <1>2, <3>1
  <2>3. Rebinding(t, m) /\ ~Shutting(t, m)' /\ ~Late(t, m)' /\ ~Unbinding(t, m)'
    BY <1>1, <1>5, <2>1, UsePoints DEF Rebinding, Shutting, Late, Unbinding
  <2>4. \A u \in Threads : ~Shutting(u, m)' /\ ~Late(u, m)' /\ ~Unbinding(u, m)'
    BY <1>3, <2>1, <2>3 DEF Shutting, Late, Unbinding
  <2>5. FlagsMove(t, 0, m)
    BY <1>4, <2>2 DEF FlagsMove, Becomes, Has, ShutsDown
  <2>6. ThreadsMove(t, 0, m)
    BY <2>4 DEF ThreadsMove
  <2>7. BoundUntil(m)'
    <3>1. ~Has(m, "shutdown_called")
      BY <1>0, <1>1, <1>3, <1>5, <2>3 DEF BoundUntil, Shutting
    <3>2. Has(m, "did_bind")
      BY <1>0, <2>3 DEF BoundUntil
    <3> QED
      BY <2>2, <3>1, <3>2 DEF BoundUntil, Becomes, Has
  <2>8. UseOf(m)'
    BY <1>0, <1>4, <2>5, <2>6, <2>7, UseStep
  <2> QED
    BY <1>0, <1>1, <2>1, <2>2, <2>8, GoUse DEF Becomes
<1>6. CASE pc[t].call = "shutdown"
  <2>1. pc'[t].at = "barrier" /\ pc'[t].m = m /\ \A u \in Threads : u # t => pc'[u] = pc[u]
    BY <1>0, <1>1, <1>6, Moved DEF Points, LockedAt, AfterStop, InBarrierAt
  <2>2. Becomes(m, msgr[m].flags \ {"did_bind"}, msgr[m].local)
    BY <1>2, <1>6 DEF Unbinds
  <2>3. Shutting(t, m) /\ ~Shutting(t, m)' /\ ~Rebinding(t, m)' /\ ~Unbinding(t, m)'
    BY <1>1, <1>6, <2>1 DEF Rebinding, Shutting, Unbinding
  <2>4. \A u \in Threads : ~Shutting(u, m)' /\ ~Rebinding(u, m)' /\ ~Unbinding(u, m)'
    BY <1>3, <2>1, <2>3 DEF Shutting, Rebinding, Unbinding
  <2>5. FlagsMove(t, 0, m)
    BY <1>4, <2>2, <2>3 DEF FlagsMove, Becomes, Has, ShutsDown
  <2>6. ThreadsMove(t, 0, m)
    <3>1. msgr'[m].local = "running"
      BY <1>0, <2>2, <2>3 DEF JoinsRunning, Becomes
    <3> QED
      BY <2>4, <3>1 DEF ThreadsMove
  <2>7. BoundUntil(m)'
    BY <1>0, <2>2, <2>4 DEF BoundUntil, Becomes, Has
  <2>8. UseOf(m)'
    BY <1>0, <1>4, <2>5, <2>6, <2>7, UseStep
  <2> QED
    BY <1>0, <1>1, <2>1, <2>2, <2>8, GoUse DEF Becomes
<1> QED
  BY <1>1, <1>5, <1>6


\* The rest of rebind(): the messenger was bound and stays so.
LEMMA ReboundUse ==
    ASSUME SInv, UseInv, NEW t \in Threads, NEW m \in Msgrs, Rebound(t, m)
    PROVE  UseInv'
<1>0. Types /\ UseOf(m) /\ BoundUntil(m) /\ msgr[m] \in MsgrStates
  BY DEF SInv, Inv, UseInv, UseOf, Types
<1>1. /\ pc[t].at = "rebind" /\ pc[t].m = m /\ Return(t)
      /\ script' = script /\ aborted' = aborted
      /\ \/ msgr' = [msgr EXCEPT ![m] = Started(Bound(@), get_worker)]
         \/ msgr' = msgr
  BY DEF Rebound, At
<1>2. Rebinding(t, m) /\ Has(m, "did_bind") /\ pc[t].at \in LockedAt
  BY <1>0, <1>1, UsePoints DEF Rebinding, BoundUntil
<1>3. Becomes(m, msgr'[m].flags, msgr[m].local) /\ SameUse(m)
  <2>1. CASE msgr' = msgr
    BY <2>1 DEF Becomes, SameUse
  <2>2. CASE msgr' = [msgr EXCEPT ![m] = Started(Bound(msgr[m]), get_worker)]
    <3>1. PICK R : R = Started(Bound(msgr[m]), get_worker)
      OBVIOUS
    <3>2. Bound(msgr[m]) \in MsgrStates /\ SameQueue(msgr[m], Bound(msgr[m]))
          /\ Bound(msgr[m]).flags = (msgr[m].flags \cup {"did_bind"}) \ {"need_addr"}
      BY <1>0, BoundMsgr
    <3>3. R.flags = Bound(msgr[m]).flags /\ SameQueue(Bound(msgr[m]), R)
      BY <1>0, <3>1, <3>2, StartedMsgr, WorkerChosen
    <3>4. Becomes(m, R.flags, R.local) /\ R.local = msgr[m].local
      BY <1>0, <2>2, <3>1, <3>2, <3>3, BecomesOne DEF SameQueue
    <3> QED
      BY <1>2, <3>2, <3>3, <3>4 DEF Becomes, SameUse, UseFlags, Has
  <2> QED
    BY <1>1, <2>1, <2>2
<1>4. pc'[t].at = "idle" /\ \A u \in Threads : u # t => pc'[u] = pc[u]
  BY <1>0, <1>1, Returned
<1>5. \A u \in Threads : ~Shutting(u, m)' /\ ~Rebinding(u, m)' /\ ~Late(u, m)' /\ ~Unbinding(u, m)'
  <2>1. \A u \in Threads : u # t =>
           ~Shutting(u, m) /\ ~Rebinding(u, m) /\ ~Late(u, m) /\ ~Unbinding(u, m)
    BY <1>1, <1>2, OneInPart
  <2>2. /\ ~Shutting(t, m)' /\ ~Rebinding(t, m)' /\ ~Late(t, m)' /\ ~Unbinding(t, m)'
    BY <1>4, UsePoints DEF Shutting, Rebinding, Late, Unbinding
  <2> QED
    BY <1>4, <2>1, <2>2 DEF Shutting, Rebinding, Late, Unbinding
<1>6. Follows(t, 0) /\ \A c, n : ~Takes(t, 0, c, n)
  BY <1>0, <1>1, NoCall
<1>7. FlagsMove(t, 0, m)
  BY <1>3, <1>6 DEF FlagsMove, Becomes, SameUse, UseFlags, Has, ShutsDown
<1>8. ThreadsMove(t, 0, m)
  BY <1>5 DEF ThreadsMove
<1>9. BoundUntil(m)'
  <2>1. ~Has(m, "shutdown_called")
    <3>1. ~Shutting(t, m)
      BY <1>1 DEF Shutting
    <3>2. \A u \in Threads : ~Shutting(u, m)
      BY <1>1, <1>2, <3>1, OneInPart
    <3> QED
      BY <1>0, <1>2, <3>2 DEF BoundUntil
  <2> QED
    BY <1>3, <1>5, <2>1 DEF BoundUntil, SameUse, UseFlags, Has
<1>10. UseOf(m)'
  BY <1>0, <1>6, <1>7, <1>8, <1>9, UseStep
<1> QED
  BY <1>0, <1>1, <1>3, <1>4, <1>10, UsePoints, GoUse DEF Becomes

\* The end of shutdown(): the local delivery thread is there to join.
LEMMA FinishUse ==
    ASSUME SInv, UseInv, NEW t \in Threads, NEW m \in Msgrs, Finish(t, m)
    PROVE  UseInv'
<1>0. Types /\ UseOf(m) /\ BoundUntil(m) /\ JoinsRunning(m) /\ Status(m)
  BY DEF SInv, Inv, ShutInv, UseInv, UseOf
<1>1. pc[t].at = "finish" /\ pc[t].m = m /\ script' = script
  BY DEF Finish, At
<1>2. Late(t, m) /\ pc[t].at \in LockedAt /\ Shut(m)
  BY <1>1, UsePoints DEF Late, Shut
<1>3. msgr[m].local = "running"
  BY <1>0, <1>2 DEF JoinsRunning
<1>4. /\ aborted' = aborted /\ Return(t)
      /\ msgr' = [msgr EXCEPT ![m].local_up = FALSE, ![m].local = "none", ![m].stop = TRUE]
  BY <1>3 DEF Finish
<1>5. PICK R : R = [msgr[m] EXCEPT !.local_up = FALSE, !.local = "none", !.stop = TRUE]
  OBVIOUS
<1>6. msgr' = [msgr EXCEPT ![m] = R]
  BY <1>0, <1>4, <1>5 DEF Types
<1>7. R.flags = msgr[m].flags
  BY <1>0, <1>5 DEF Types, MsgrStates
<1>8. Becomes(m, msgr[m].flags, R.local)
  BY <1>0, <1>6, <1>7, BecomesOne
<1>9. pc'[t].at = "idle" /\ \A u \in Threads : u # t => pc'[u] = pc[u]
  BY <1>0, <1>4, Returned
<1>10. \A u \in Threads : ~Shutting(u, m)' /\ ~Rebinding(u, m)' /\ ~Late(u, m)' /\ ~Unbinding(u, m)'
  <2>1. \A u \in Threads : u # t =>
           ~Shutting(u, m) /\ ~Rebinding(u, m) /\ ~Late(u, m) /\ ~Unbinding(u, m)
    BY <1>1, <1>2, OneInPart
  <2>2. /\ ~Shutting(t, m)' /\ ~Rebinding(t, m)' /\ ~Late(t, m)' /\ ~Unbinding(t, m)'
    BY <1>9, UsePoints DEF Shutting, Rebinding, Late, Unbinding
  <2> QED
    BY <1>9, <2>1, <2>2 DEF Shutting, Rebinding, Late, Unbinding
<1>11. Has(m, "started") /\ Has(m, "shutdown_called") /\ ~Has(m, "did_bind")
  BY <1>0, <1>2 DEF Status, ShutDown, Has
<1>12. Follows(t, 0) /\ \A c, n : ~Takes(t, 0, c, n)
  BY <1>0, <1>1, NoCall
<1>13. FlagsMove(t, 0, m)
  BY <1>8, <1>11, <1>12 DEF FlagsMove, Becomes, Has, ShutsDown
<1>14. ThreadsMove(t, 0, m)
  BY <1>10 DEF ThreadsMove
<1>15. BoundUntil(m)'
  BY <1>8, <1>10, <1>11 DEF BoundUntil, Becomes, Has
<1>16. UseOf(m)'
  BY <1>0, <1>12, <1>13, <1>14, <1>15, UseStep
<1> QED
  BY <1>0, <1>1, <1>4, <1>8, <1>9, <1>16, UsePoints, GoUse DEF Becomes

\* What follows for the threads when one of them stays outside these parts.
LEMMA OutsideMove ==
    ASSUME NEW t \in Threads, NEW d, NEW m \in Msgrs, JoinsRunning(m),
           \A u \in Threads : u # t => pc'[u] = pc[u],
           pc[t].at \notin LockedAt, pc'[t].at \notin LockedAt,
           msgr[m].local = "running" => msgr'[m].local = "running"
    PROVE  SameAt(m) /\ ThreadsMove(t, d, m)
<1>1. SameAt(m)
  BY OthersAt
<1> QED
  BY <1>1 DEF SameAt, ThreadsMove, JoinsRunning

\* wait() is over and forgets that the messenger was started.
LEMMA ClearsUse ==
    ASSUME Types, NEW t \in Threads, NEW d, NEW m \in Msgrs, UseOf(m), Follows(t, d),
           msgr' = SetFlags(m, {}, {"started", "shutdown_called"}),
           \A u \in Threads : u # t => pc'[u] = pc[u],
           pc[t].at \notin LockedAt, pc'[t].at \notin LockedAt,
           \A c \in {"start", "add_dispatcher", "bind", "shutdown"} : ~Takes(t, d, c, m)
    PROVE  UseOf(m)'
<1>1. Becomes(m, (msgr[m].flags \cup {}) \ {"started", "shutdown_called"}, msgr[m].local)
  BY BecomesSet
<1>2. SameAt(m) /\ ThreadsMove(t, d, m)
  BY <1>1, OutsideMove DEF UseOf, Becomes
<1>3. FlagsMove(t, d, m)
  BY <1>1 DEF FlagsMove, Becomes, Has, ShutsDown
<1>4. BoundUntil(m)'
  BY <1>1, <1>2 DEF BoundUntil, UseOf, Becomes, Has, SameAt
<1> QED
  BY <1>2, <1>3, <1>4, UseStep

LEMMA WaitedUse ==
    ASSUME SInv, UseInv, NEW t \in Threads, NEW m \in Msgrs, Waited(t, m)
    PROVE  UseInv'
<1>0. Types /\ UseOf(m)
  BY DEF SInv, Inv, UseInv
<1>1. /\ pc[t].at = "relock" /\ pc[t].m = m /\ Return(t)
      /\ script' = script /\ aborted' = aborted
      /\ msgr' = SetFlags(m, {}, {"started", "shutdown_called"})
  BY DEF Waited, At
<1>2. /\ pc'[t].at = "idle" /\ \A u \in Threads : u # t => pc'[u] = pc[u]
      /\ pc[t].at \notin LockedAt /\ pc'[t].at \notin LockedAt
  BY <1>0, <1>1, Returned, UsePoints
<1>3. Follows(t, 0) /\ \A c, n : ~Takes(t, 0, c, n)
  BY <1>0, <1>1, NoCall
<1>4. UseOf(m)'
  BY <1>0, <1>1, <1>2, <1>3, ClearsUse
<1>5. \A n \in Msgrs : n # m => msgr'[n] = msgr[n]
  BY <1>0, <1>1, BecomesSet DEF Becomes
<1> QED
  BY <1>0, <1>1, <1>2, <1>4, <1>5, GoUse


\* A call begins: the thread was outside these parts, and the call was the first of
\* its script.
LEMMA CallBegins ==
    ASSUME Types, NEW t \in Threads, NEW m, NEW call, Begins(t, call, m)
    PROVE  /\ pc[t].at = "idle" /\ pc[t].at \notin LockedAt
           /\ Follows(t, 1) /\ Listed(script, t, 1, call, m) /\ 1 \in DOMAIN script[t]
           /\ \A c, n : Takes(t, 1, c, n) => c = call /\ n = m
           /\ Head(script[t]).call = call
<1>1. pc[t].at = "idle" /\ Head(script[t]).call = call
  BY DEF Begins, Calls
<1>2. /\ Follows(t, 1) /\ Takes(t, 1, call, m)
      /\ \A c, n : Takes(t, 1, c, n) => c = call /\ n = m
  BY OneCall
<1>3. Listed(script, t, 1, call, m) /\ 1 \in DOMAIN script[t]
  BY <1>2 DEF Takes, Listed
<1> QED
  BY <1>1, <1>2, <1>3, UsePoints

\* A call that returns, or goes on without start_lock, and changes nothing of this.
LEMMA IdleCallUse ==
    ASSUME SInv, UseInv, NEW t \in Threads, NEW m \in Msgrs, NEW call, Begins(t, call, m),
           aborted' = aborted, KeepsUse, \A n \in Msgrs : n # m => msgr'[n] = msgr[n],
           \A u \in Threads : u # t => pc'[u] = pc[u], pc'[t].at \notin LockedAt,
           \/ call \notin {"start", "add_dispatcher", "bind", "shutdown"}
           \/ call = "add_dispatcher" /\ Has(m, "dispatcher")
           \/ call \in {"start", "bind"} /\ Has(m, "started")
           \/ call = "shutdown" /\ ~ShutsDown(m)
    PROVE  UseInv'
<1>0. Types /\ UseOf(m) /\ JoinsRunning(m) /\ BoundUntil(m)
  BY DEF SInv, Inv, UseInv, UseOf
<1>1. /\ pc[t].at \notin LockedAt /\ Follows(t, 1)
      /\ \A c, n : Takes(t, 1, c, n) => c = call /\ n = m
  BY <1>0, CallBegins
<1>2. msgr'[m].flags = msgr[m].flags /\ msgr'[m].local = msgr[m].local
  BY DEF KeepsUse
<1>3. SameAt(m) /\ ThreadsMove(t, 1, m)
  BY <1>0, <1>1, <1>2, OutsideMove
<1>4. FlagsMove(t, 1, m)
  BY <1>1, <1>2 DEF FlagsMove, Has, ShutsDown
<1>5. BoundUntil(m)'
  BY <1>0, <1>2, <1>3 DEF BoundUntil, SameAt, Has
<1>6. UseOf(m)'
  BY <1>0, <1>1, <1>3, <1>4, <1>5, UseStep
<1> QED
  BY <1>0, <1>6, CallUse

\* bind().
LEMMA BindUse ==
    ASSUME SInv, UseInv, NEW t \in Threads, NEW m \in Msgrs, bind(t, m)
    PROVE  UseInv'
<1>0. Types /\ UseOf(m) /\ JoinsRunning(m) /\ BoundUntil(m) /\ msgr[m] \in MsgrStates
  BY DEF SInv, Inv, UseInv, UseOf, Types
<1>1. /\ Begins(t, "bind", m) /\ Return(t) /\ aborted' = aborted
      /\ msgr' = IF Has(m, "started") THEN msgr ELSE [msgr EXCEPT ![m] = Bound(@)]
  BY DEF bind, Locks
<1>2. /\ pc[t].at \notin LockedAt /\ Follows(t, 1)
      /\ \A c, n : Takes(t, 1, c, n) => c = "bind" /\ n = m
  BY <1>0, <1>1, CallBegins
<1>3. pc'[t].at \notin LockedAt /\ \A u \in Threads : u # t => pc'[u] = pc[u]
  BY <1>0, <1>1, Returned, UsePoints
<1>4. CASE Has(m, "started")
  <2>1. KeepsUse /\ \A n \in Msgrs : msgr'[n] = msgr[n]
    BY <1>1, <1>4 DEF KeepsUse
  <2> QED
    BY <1>1, <1>3, <1>4, <2>1, IdleCallUse
<1>5. CASE ~Has(m, "started")
  <2>1. PICK R : R = Bound(msgr[m])
    OBVIOUS
  <2>2. R.flags = (msgr[m].flags \cup {"did_bind"}) \ {"need_addr"} /\ R.local = msgr[m].local
    BY <1>0, <2>1, BoundMsgr DEF SameQueue
  <2>3. Becomes(m, R.flags, R.local)
    BY <1>0, <1>1, <1>5, <2>1, BecomesOne
  <2>4. SameAt(m) /\ ThreadsMove(t, 1, m)
    BY <1>0, <1>2, <1>3, <2>2, <2>3, OutsideMove DEF Becomes
  <2>5. Has(m, "dispatcher") => "dispatcher" \in R.flags
    BY <2>2 DEF Has
  <2>6. "dispatcher" \in R.flags => Has(m, "dispatcher")
    BY <2>2 DEF Has
  <2>7. "started" \notin R.flags /\ "shutdown_called" \notin R.flags /\ "did_bind" \in R.flags
    BY <1>0, <1>5, <2>2 DEF Has, BoundUntil
  <2>8. \A c \in {"start", "add_dispatcher", "shutdown"} : ~Takes(t, 1, c, m)
    BY <1>2
  <2>8a. (Has(m, "started") => Has(m, "shutdown_called")) =>
             ("started" \in R.flags => "shutdown_called" \in R.flags)
    BY <2>7
  <2>8b. ~ShutsDown(m)'
    BY <2>3, <2>7 DEF ShutsDown, Becomes, Has
  <2>8c. "did_bind" \in R.flags => Has(m, "did_bind") \/ Takes(t, 1, "bind", m)
    BY <1>0, <1>1, CallBegins DEF Takes
  <2>9. FlagsMove(t, 1, m)
    BY <2>2, <2>3, <2>5, <2>6, <2>7, <2>8, <2>8b, <2>8c DEF FlagsMove, Becomes
  <2>10. BoundUntil(m)'
    BY <1>0, <2>3, <2>4, <2>7 DEF BoundUntil, SameAt, Becomes, Has
  <2>11. UseOf(m)'
    BY <1>0, <1>2, <2>4, <2>9, <2>10, UseStep
  <2> QED
    BY <1>0, <1>1, <1>3, <2>3, <2>11, CallUse DEF Becomes
<1> QED
  BY <1>4, <1>5

\* add_dispatcher(): the threads are started when there were none.
LEMMA AddDispatcherUse ==
    ASSUME SInv, UseInv, NEW t \in Threads, NEW m \in Msgrs, add_dispatcher(t, m)
    PROVE  UseInv'
<1>0. Types /\ UseOf(m) /\ JoinsRunning(m) /\ BoundUntil(m) /\ Status(m) /\ msgr[m] \in MsgrStates
  BY DEF SInv, Inv, ShutInv, UseInv, UseOf, Types
<1>1. Begins(t, "add_dispatcher", m)
  BY DEF add_dispatcher
<1>2. /\ pc[t].at \notin LockedAt /\ Follows(t, 1)
      /\ \A c, n : Takes(t, 1, c, n) => c = "add_dispatcher" /\ n = m
  BY <1>0, <1>1, CallBegins
<1>3. CASE Has(m, "dispatcher")
  <2>1. Return(t) /\ msgr' = msgr /\ aborted' = aborted
    BY <1>3 DEF add_dispatcher
  <2>2. pc'[t].at \notin LockedAt /\ \A u \in Threads : u # t => pc'[u] = pc[u]
    BY <1>0, <2>1, Returned, UsePoints
  <2>3. KeepsUse /\ \A n \in Msgrs : msgr'[n] = msgr[n]
    BY <2>1 DEF KeepsUse
  <2> QED
    BY <1>1, <1>3, <2>1, <2>2, <2>3, IdleCallUse
<1>4. CASE ~Has(m, "dispatcher")
  <2>1. ~msgr[m].stop /\ msgr[m].dispatch = "none"
    BY <1>0, <1>4 DEF Status, Queues, Has
  <2>2. /\ msgr' = [SetFlags(m, {"dispatcher"}, {}) EXCEPT
                       ![m].dispatch = "running", ![m].local = "running"]
        /\ pc' = [pc EXCEPT ![t] = [Idle EXCEPT !.at = "ready", !.m = m]]
        /\ aborted' = aborted
    BY <1>4, <2>1 DEF add_dispatcher
  <2>3. pc'[t].at \notin LockedAt /\ \A u \in Threads : u # t => pc'[u] = pc[u]
    <3>1. PICK P : P = [Idle EXCEPT !.at = "ready", !.m = m]
      OBVIOUS
    <3>2. P.at = "ready"
      BY <3>1 DEF Idle
    <3> QED
      BY <1>0, <2>2, <3>1, <3>2, UsePoints DEF Types
  <2>4. PICK F : F = (msgr[m].flags \cup {"dispatcher"}) \ {}
    OBVIOUS
  <2>5. PICK R : R = [msgr[m] EXCEPT !.flags = F]
    OBVIOUS
  <2>6. PICK Q : Q = [R EXCEPT !.dispatch = "running", !.local = "running"]
    OBVIOUS
  <2>7. msgr' = [msgr EXCEPT ![m] = Q]
    BY <1>0, <2>2, <2>4, <2>5, <2>6 DEF SetFlags, Types
  <2>8. Q.flags = msgr[m].flags \cup {"dispatcher"} /\ Q.local = "running"
    BY <1>0, <2>4, <2>5, <2>6 DEF MsgrStates
  <2>9. Becomes(m, Q.flags, Q.local)
    BY <1>0, <2>7, BecomesOne
  <2>10. SameAt(m) /\ ThreadsMove(t, 1, m)
    BY <1>0, <1>2, <2>3, <2>8, <2>9, OutsideMove DEF Becomes
  <2>11. \A c \in {"start", "bind", "shutdown"} : ~Takes(t, 1, c, m)
    BY <1>2
  <2>12. FlagsMove(t, 1, m)
    BY <2>8, <2>9, <2>11 DEF FlagsMove, Becomes, Has, ShutsDown
  <2>13. BoundUntil(m)'
    BY <1>0, <2>8, <2>9, <2>10 DEF BoundUntil, SameAt, Becomes, Has
  <2>14. UseOf(m)'
    BY <1>0, <1>2, <2>10, <2>12, <2>13, UseStep
  <2> QED
    BY <1>0, <1>1, <2>2, <2>3, <2>9, <2>14, CallUse DEF Becomes
<1> QED
  BY <1>3, <1>4

\* start().
LEMMA StartUse ==
    ASSUME SInv, UseInv, NEW t \in Threads, NEW m \in Msgrs, start(t, m)
    PROVE  UseInv'
<1>0. Types /\ UseOf(m) /\ JoinsRunning(m) /\ BoundUntil(m) /\ msgr[m] \in MsgrStates
  BY DEF SInv, Inv, UseInv, UseOf, Types
<1>1. /\ Begins(t, "start", m) /\ Return(t) /\ aborted' = aborted
      /\ msgr' = IF Has(m, "started") THEN msgr
                 ELSE IF Has(m, "did_bind") THEN SetFlags(m, {"started"}, {})
                 ELSE [SetFlags(m, {"started"}, {}) EXCEPT ![m] = init_local_connection(@)]
  BY DEF start, Locks
<1>2. /\ pc[t].at \notin LockedAt /\ Follows(t, 1) /\ Takes(t, 1, "start", m)
      /\ \A c, n : Takes(t, 1, c, n) => c = "start" /\ n = m
  BY <1>0, <1>1, CallBegins DEF Takes
<1>3. pc'[t].at \notin LockedAt /\ \A u \in Threads : u # t => pc'[u] = pc[u]
  BY <1>0, <1>1, Returned, UsePoints
<1>4. CASE Has(m, "started")
  <2>1. KeepsUse /\ \A n \in Msgrs : msgr'[n] = msgr[n]
    BY <1>1, <1>4 DEF KeepsUse
  <2> QED
    BY <1>1, <1>3, <1>4, <2>1, IdleCallUse
<1>5. CASE ~Has(m, "started")
  <2>1. PICK F : F = (msgr[m].flags \cup {"started"}) \ {}
    OBVIOUS
  <2>2. PICK R : R = [msgr[m] EXCEPT !.flags = F]
    OBVIOUS
  <2>3. PICK Q : Q = IF Has(m, "did_bind") THEN R ELSE init_local_connection(R)
    OBVIOUS
  <2>4. msgr' = [msgr EXCEPT ![m] = Q]
    BY <1>0, <1>1, <1>5, <2>1, <2>2, <2>3 DEF SetFlags, Types
  <2>5. Q.flags = msgr[m].flags \cup {"started"} /\ Q.local = msgr[m].local
    BY <1>0, <2>1, <2>2, <2>3 DEF MsgrStates, init_local_connection
  <2>6. Becomes(m, Q.flags, Q.local)
    BY <1>0, <2>4, BecomesOne
  <2>7. SameAt(m) /\ ThreadsMove(t, 1, m)
    BY <1>0, <1>2, <1>3, <2>5, <2>6, OutsideMove DEF Becomes
  <2>8. \A c \in {"add_dispatcher", "bind", "shutdown"} : ~Takes(t, 1, c, m)
    BY <1>2
  <2>9. FlagsMove(t, 1, m)
    BY <1>2, <2>5, <2>6, <2>8 DEF FlagsMove, Becomes, Has, ShutsDown
  <2>10. BoundUntil(m)'
    BY <1>0, <2>5, <2>6, <2>7 DEF BoundUntil, SameAt, Becomes, Has
  <2>11. UseOf(m)'
    BY <1>0, <1>2, <2>7, <2>9, <2>10, UseStep
  <2> QED
    BY <1>0, <1>1, <1>3, <2>6, <2>11, CallUse DEF Becomes
<1> QED
  BY <1>4, <1>5

\* A thread takes start_lock for a call: no other one is in these parts.
LEMMA LockedAlone ==
    ASSUME SInv, NEW m \in Msgrs, start_lock[m] = None, NEW u \in Threads
    PROVE  ~Shutting(u, m) /\ ~Late(u, m) /\ ~Rebinding(u, m) /\ ~Unbinding(u, m)
<1>1. pc[u].at \in LockedAt => pc[u].m # m
  BY NoLocker DEF SInv, Inv, ProcInv
<1> QED
  BY <1>1, UsePoints DEF Shutting, Late, Rebinding, Unbinding

\* Processor::stop() leaves what the rules are about alone.
LEMMA StopBecomes ==
    ASSUME SInv, NEW t \in Threads, NEW m \in Msgrs, NEW M \in MsgrStates,
           Head(script[t]).call \in CallNames, ProcessorStop(t, m, M)
    PROVE  /\ Becomes(m, M.flags, M.local)
           /\ pc'[t].at \in {"listening", "closed"} /\ pc'[t].m = m
           /\ pc'[t].call = Head(script[t]).call
           /\ \A u \in Threads : u # t => pc'[u] = pc[u]
<1>0. Types /\ {"listening", "closed"} \subseteq Points
  BY DEF SInv, Inv, Points, LockedAt, AfterStop
<1>1. CASE M.listen /\ M.worker # -1
  <2>1. PICK R : R = [M EXCEPT !.stopped = FALSE]
    OBVIOUS
  <2>2. msgr' = [msgr EXCEPT ![m] = R] /\ Continue(t, m, "listening")
    BY <1>1, <2>1 DEF ProcessorStop
  <2>3. R.flags = M.flags /\ R.local = M.local
    BY <2>1 DEF MsgrStates
  <2>4. Becomes(m, M.flags, M.local)
    BY <1>0, <2>2, <2>3, BecomesOne
  <2>5. /\ pc'[t].at = "listening" /\ pc'[t].m = m /\ pc'[t].call = Head(script[t]).call
        /\ \A u \in Threads : u # t => pc'[u] = pc[u]
    BY <1>0, <2>2, Continued
  <2> QED
    BY <2>4, <2>5
<1>2. CASE ~(M.listen /\ M.worker # -1)
  <2>1. PICK R : R = [M EXCEPT !.listen = FALSE]
    OBVIOUS
  <2>2. msgr' = [msgr EXCEPT ![m] = R] /\ Continue(t, m, "closed")
    BY <1>2, <2>1 DEF ProcessorStop
  <2>3. R.flags = M.flags /\ R.local = M.local
    BY <2>1 DEF MsgrStates
  <2>4. Becomes(m, M.flags, M.local)
    BY <1>0, <2>2, <2>3, BecomesOne
  <2>5. /\ pc'[t].at = "closed" /\ pc'[t].m = m /\ pc'[t].call = Head(script[t]).call
        /\ \A u \in Threads : u # t => pc'[u] = pc[u]
    BY <1>0, <2>2, Continued
  <2> QED
    BY <2>4, <2>5
<1> QED
  BY <1>1, <1>2

\* shutdown(), rebind() or unbind() begins with it.
LEMMA StopUse ==
    ASSUME SInv, UseInv, NEW t \in Threads, NEW m \in Msgrs,
           NEW call \in {"shutdown", "rebind", "unbind"}, Locks(t, call, m), aborted' = aborted,
           NEW M \in MsgrStates, ProcessorStop(t, m, M), M.local = msgr[m].local,
           \A f \in UseFlags :
              f \in M.flags <=> Has(m, f) \/ (call = "shutdown" /\ f = "shutdown_called"),
           call = "shutdown" => ShutsDown(m),
           call # "shutdown" => Has(m, "did_bind")
    PROVE  UseInv'
<1>0. Types /\ UseOf(m) /\ JoinsRunning(m) /\ BoundUntil(m)
  BY DEF SInv, Inv, UseInv, UseOf
<1>1. Begins(t, call, m) /\ start_lock[m] = None
  BY DEF Locks
<1>2. /\ Follows(t, 1) /\ Takes(t, 1, call, m) /\ Head(script[t]).call = call
      /\ Listed(script, t, 1, call, m) /\ 1 \in DOMAIN script[t]
      /\ \A c, n : Takes(t, 1, c, n) => c = call /\ n = m
  BY <1>0, <1>1, CallBegins DEF Takes
<1>3. Head(script[t]).call \in CallNames
  BY <1>2 DEF CallNames
<1>4. /\ Becomes(m, M.flags, msgr[m].local)
      /\ pc'[t].at \in {"listening", "closed"} /\ pc'[t].m = m /\ pc'[t].call = call
      /\ \A u \in Threads : u # t => pc'[u] = pc[u]
  BY <1>2, <1>3, StopBecomes
<1>5. \A u \in Threads : ~Shutting(u, m) /\ ~Late(u, m) /\ ~Rebinding(u, m) /\ ~Unbinding(u, m)
  BY <1>1, LockedAlone
<1>6. \A u \in Threads : u # t =>
         ~Shutting(u, m)' /\ ~Late(u, m)' /\ ~Rebinding(u, m)' /\ ~Unbinding(u, m)'
  BY <1>4, <1>5 DEF Shutting, Late, Rebinding, Unbinding
<1>7. /\ Shutting(t, m)' <=> call = "shutdown"
      /\ Rebinding(t, m)' <=> call = "rebind"
      /\ Unbinding(t, m)' <=> call = "unbind"
      /\ ~Late(t, m)'
  BY <1>4, UsePoints DEF Shutting, Late, Rebinding, Unbinding
<1>8. /\ "started" \in M.flags <=> Has(m, "started")
      /\ "did_bind" \in M.flags <=> Has(m, "did_bind")
      /\ "dispatcher" \in M.flags <=> Has(m, "dispatcher")
      /\ "shutdown_called" \in M.flags <=> Has(m, "shutdown_called") \/ call = "shutdown"
  BY DEF UseFlags
<1>9. \A c \in {"start", "add_dispatcher", "bind"} : ~Takes(t, 1, c, m)
  BY <1>2
<1>10. FlagsMove(t, 1, m)
  <2>1. Takes(t, 1, "shutdown", m) => call = "shutdown"
    BY <1>2
  <2>2. ShutsDown(m)' => ShutsDown(m)
    BY <1>4, <1>8 DEF ShutsDown, Becomes, Has
  <2> QED
    BY <1>4, <1>8, <1>9, <2>1, <2>2 DEF FlagsMove, Becomes
<1>11. ThreadsMove(t, 1, m)
  <2>1. call = "shutdown" => msgr[m].local = "running"
    BY <1>0, <1>2 DEF JoinsRunning, ShutdownListed
  <2> QED
    BY <1>2, <1>4, <1>6, <1>7, <2>1 DEF ThreadsMove, Becomes
<1>12. BoundUntil(m)'
  <2>1. call # "shutdown" => ~Has(m, "shutdown_called")
    BY <1>0, <1>5 DEF BoundUntil
  <2>2. call = "shutdown" => Has(m, "started")
    BY DEF ShutsDown
  <2> QED
    BY <1>4, <1>6, <1>7, <1>8, <2>1, <2>2 DEF BoundUntil, Becomes, Has
<1>13. UseOf(m)'
  BY <1>0, <1>2, <1>10, <1>11, <1>12, UseStep
<1> QED
  BY <1>0, <1>1, <1>4, <1>13, CallUse DEF Becomes

\* shutdown(), rebind() and unbind(): who rebinds is bound.
LEMMA StopCallsUse ==
    ASSUME SInv, UseInv, NEW t \in Threads, NEW m \in Msgrs,
           shutdown(t, m) \/ rebind(t, m) \/ unbind(t, m)
    PROVE  UseInv'
<1>0. Types /\ msgr[m] \in MsgrStates /\ RebindsLater(m)
  BY DEF SInv, Inv, Types, UseInv, UseOf
<1>1. ASSUME Return(t)
      PROVE  pc'[t].at \notin LockedAt /\ \A u \in Threads : u # t => pc'[u] = pc[u]
  BY <1>0, <1>1, Returned, UsePoints
<1>2. ASSUME msgr' = msgr PROVE KeepsUse /\ \A n \in Msgrs : msgr'[n] = msgr[n]
  BY <1>2 DEF KeepsUse
<1>3. \A f \in UseFlags : f \in msgr[m].flags <=> Has(m, f)
  BY DEF Has
<1>4. CASE shutdown(t, m)
  <2>1. Locks(t, "shutdown", m) /\ Begins(t, "shutdown", m) /\ aborted' = aborted
    BY <1>4 DEF shutdown, Locks
  <2>2. CASE ShutsDown(m)
    <3>1. PICK F : F = msgr[m].flags \cup {"shutdown_called"}
      OBVIOUS
    <3>2. F \in SUBSET Flags
      BY <1>0, <3>1 DEF MsgrStates, Flags
    <3>3. PICK M : M = [msgr[m] EXCEPT !.flags = F]
      OBVIOUS
    <3>4. M \in MsgrStates /\ M.flags = F /\ M.local = msgr[m].local
      BY <1>0, <3>2, <3>3, FlagsMsgr DEF SameQueue
    <3>5. ProcessorStop(t, m, M)
      BY <1>4, <2>2, <3>1, <3>3 DEF shutdown
    <3>6. \A f \in UseFlags : f \in M.flags <=> Has(m, f) \/ f = "shutdown_called"
      BY <3>1, <3>4 DEF Has
    <3> QED
      BY <2>1, <2>2, <3>4, <3>5, <3>6, StopUse
  <2>3. CASE ~ShutsDown(m)
    <3>1. Return(t) /\ msgr' = msgr
      BY <1>4, <2>3 DEF shutdown
    <3> QED
      BY <1>1, <1>2, <2>1, <2>3, <3>1, IdleCallUse
  <2> QED
    BY <2>2, <2>3
<1>5. CASE rebind(t, m)
  <2>1. Locks(t, "rebind", m) /\ Begins(t, "rebind", m)
    BY <1>5 DEF rebind, Locks
  <2>2. Listed(script, t, 1, "rebind", m) /\ 1 \in DOMAIN script[t]
    BY <1>0, <2>1, CallBegins
  <2>3. ~BindFirst(t, 1, m)
    BY DEF BindFirst
  <2>4. Has(m, "did_bind")
    BY <1>0, <2>2, <2>3 DEF RebindsLater
  <2>5. ProcessorStop(t, m, msgr[m]) /\ aborted' = aborted
    BY <1>5, <2>4 DEF rebind
  <2> QED
    BY <1>0, <1>3, <2>1, <2>4, <2>5, StopUse
<1>6. CASE unbind(t, m)
  <2>1. Locks(t, "unbind", m) /\ Begins(t, "unbind", m) /\ aborted' = aborted
    BY <1>6 DEF unbind, Locks
  <2>2. CASE Has(m, "did_bind")
    <3>1. ProcessorStop(t, m, msgr[m])
      BY <1>6, <2>2 DEF unbind
    <3> QED
      BY <1>0, <1>3, <2>1, <2>2, <3>1, StopUse
  <2>3. CASE ~Has(m, "did_bind")
    <3>1. Return(t) /\ msgr' = msgr
      BY <1>6, <2>3 DEF unbind
    <3> QED
      BY <1>1, <1>2, <2>1, <3>1, IdleCallUse
  <2> QED
    BY <2>2, <2>3
<1> QED
  BY <1>4, <1>5, <1>6

\* wait(): what is waited for was shut down, and is not bound.
LEMMA WaitUse ==
    ASSUME SInv, UseInv, NEW t \in Threads, NEW m \in Msgrs, wait(t, m)
    PROVE  UseInv'
<1>0. Types /\ UseOf(m) /\ WaitsLater(m) /\ BoundUntil(m)
  BY DEF SInv, Inv, UseInv, UseOf
<1>1. Begins(t, "wait", m) /\ start_lock[m] = None
  BY DEF wait, Locks
<1>2. /\ Follows(t, 1) /\ Listed(script, t, 1, "wait", m) /\ 1 \in DOMAIN script[t]
      /\ \A c, n : Takes(t, 1, c, n) => c = "wait" /\ n = m
      /\ pc[t].at \notin LockedAt
  BY <1>0, <1>1, CallBegins
<1>3. ASSUME Return(t)
      PROVE  pc'[t].at \notin LockedAt /\ \A u \in Threads : u # t => pc'[u] = pc[u]
  BY <1>0, <1>3, Returned, UsePoints
<1>4. ASSUME msgr' = msgr PROVE KeepsUse /\ \A n \in Msgrs : msgr'[n] = msgr[n]
  BY <1>4 DEF KeepsUse
<1>5. Has(m, "started") => ~Has(m, "did_bind")
  <2>1. \A u \in Threads : ~Shutting(u, m)
    BY <1>1, LockedAlone
  <2>2. Has(m, "shutdown_called") => ~Has(m, "did_bind")
    BY <1>0, <2>1 DEF BoundUntil
  <2>3. \A j : j \notin 1 .. (1 - 1)
    OBVIOUS
  <2>4. ~StartThenShutdown(t, 1, m)
    BY <2>3 DEF StartThenShutdown
  <2>5. NeverBound(m) \/ ShutdownFirst(t, 1, m)
    BY <1>0, <1>2, <2>4 DEF WaitsLater
  <2> QED
    BY <2>2, <2>3, <2>5 DEF NeverBound, ShutdownFirst
<1>6. CASE ~Has(m, "started")
  <2>1. Return(t) /\ msgr' = msgr /\ aborted' = aborted
    BY <1>6 DEF wait
  <2> QED
    BY <1>1, <1>3, <1>4, <2>1, IdleCallUse
<1>7. CASE Has(m, "started") /\ msgr[m].dispatch # "none"
  <2>1. /\ pc' = [pc EXCEPT ![t] = [Idle EXCEPT !.at = "join", !.m = m]]
        /\ msgr' = msgr /\ aborted' = aborted
    BY <1>5, <1>7 DEF wait
  <2>2. pc'[t].at \notin LockedAt /\ \A u \in Threads : u # t => pc'[u] = pc[u]
    <3>1. PICK P : P = [Idle EXCEPT !.at = "join", !.m = m]
      OBVIOUS
    <3>2. P.at = "join"
      BY <3>1 DEF Idle
    <3> QED
      BY <1>0, <2>1, <3>1, <3>2, UsePoints DEF Types
  <2> QED
    BY <1>1, <1>4, <2>1, <2>2, IdleCallUse
<1>8. CASE Has(m, "started") /\ msgr[m].dispatch = "none"
  <2>1. /\ msgr' = SetFlags(m, {}, {"started", "shutdown_called"})
        /\ Return(t) /\ aborted' = aborted
    BY <1>5, <1>8 DEF wait
  <2>2. \A c \in {"start", "add_dispatcher", "bind", "shutdown"} : ~Takes(t, 1, c, m)
    BY <1>2
  <2>3. UseOf(m)'
    BY <1>0, <1>2, <1>3, <2>1, <2>2, ClearsUse
  <2>4. \A n \in Msgrs : n # m => msgr'[n] = msgr[n]
    BY <1>0, <2>1, BecomesSet DEF Becomes
  <2> QED
    BY <1>0, <1>1, <1>3, <2>1, <2>3, <2>4, CallUse
<1> QED
  BY <1>6, <1>7, <1>8

\* mark_down().
LEMMA MarkDownUse ==
    ASSUME SInv, UseInv, NEW t \in Threads, NEW m \in Msgrs, mark_down(t, m)
    PROVE  UseInv'
<1>0. Types
  BY DEF SInv, Inv
<1>1. Begins(t, "mark_down", m) /\ msgr' = msgr /\ aborted' = aborted
  BY ZenonT(30) DEF mark_down
<1>2. PICK c : c = msgr[m].conns[Head(script[t]).peer]
  OBVIOUS
<1>3. KeepsUse /\ \A n \in Msgrs : msgr'[n] = msgr[n]
  BY <1>1 DEF KeepsUse
<1>4. pc'[t].at \notin LockedAt /\ \A u \in Threads : u # t => pc'[u] = pc[u]
  <2>1. CASE c = None
    <3>1. Return(t)
      BY <1>2, <2>1 DEF mark_down
    <3> QED
      BY <1>0, <3>1, Returned, UsePoints
  <2>2. CASE c # None
    <3>1. pc' = [pc EXCEPT ![t] = [Idle EXCEPT !.at = "closing", !.m = m, !.c = c]]
      BY <1>2, <2>2, ZenonT(40) DEF mark_down
    <3>2. PICK P : P = [Idle EXCEPT !.at = "closing", !.m = m, !.c = c]
      OBVIOUS
    <3>3. P.at = "closing"
      BY <3>2 DEF Idle
    <3> QED
      BY <1>0, <3>1, <3>2, <3>3, UsePoints DEF Types
  <2> QED
    BY <2>1, <2>2
<1> QED
  BY <1>1, <1>3, <1>4, IdleCallUse

\* The calls that are about connections, and a bind() that fails.
LEMMA OtherCallsUse ==
    ASSUME SInv, UseInv, NEW t \in Threads, NEW m \in Msgrs,
           \/ get_connection(t, m) \/ mark_down(t, m) \/ CallMarkDownAll(t, m)
           \/ BindFails(t, m)
    PROVE  UseInv'
<1>0. Types /\ msgr[m] \in MsgrStates
  BY DEF SInv, Inv, Types
<1>1. ASSUME Return(t)
      PROVE  pc'[t].at \notin LockedAt /\ \A u \in Threads : u # t => pc'[u] = pc[u]
  BY <1>0, <1>1, Returned, UsePoints
<1>2. ASSUME msgr' = msgr PROVE KeepsUse /\ \A n \in Msgrs : msgr'[n] = msgr[n]
  BY <1>2 DEF KeepsUse
<1>3. CASE get_connection(t, m)
  <2>1. /\ Begins(t, "get_connection", m) /\ Return(t) /\ aborted' = aborted
        /\ \/ msgr' = msgr
           \/ \E c : msgr' = [msgr EXCEPT ![m].conns[Head(script[t]).peer] = c]
    BY <1>3 DEF get_connection
  <2>2. KeepsUse /\ \A n \in Msgrs : n # m => msgr'[n] = msgr[n]
    <3>1. CASE msgr' = msgr
      BY <1>2, <3>1
    <3>2. ASSUME NEW c, msgr' = [msgr EXCEPT ![m].conns[Head(script[t]).peer] = c]
          PROVE  KeepsUse /\ \A n \in Msgrs : n # m => msgr'[n] = msgr[n]
      <4>1. PICK C : C = [msgr[m].conns EXCEPT ![Head(script[t]).peer] = c]
        OBVIOUS
      <4>2. PICK R : R = [msgr[m] EXCEPT !.conns = C]
        OBVIOUS
      <4>3. msgr' = [msgr EXCEPT ![m] = R]
        BY <3>2, <4>1, <4>2
      <4>4. R.flags = msgr[m].flags /\ R.local = msgr[m].local
        BY <1>0, <4>2 DEF MsgrStates
      <4> QED
        BY <1>0, <4>3, <4>4, OneKeepsUse, BecomesOne DEF Becomes
    <3> QED
      BY <2>1, <3>1, <3>2
  <2> QED
    BY <1>1, <2>1, <2>2, IdleCallUse
<1>4. CASE mark_down(t, m)
  BY <1>4, MarkDownUse
<1>5. CASE CallMarkDownAll(t, m)
  <2>1. Begins(t, "mark_down_all", m) /\ Return(t) /\ msgr' = msgr /\ aborted' = aborted
    BY <1>5 DEF CallMarkDownAll
  <2> QED
    BY <1>1, <1>2, <2>1, IdleCallUse
<1>6. CASE BindFails(t, m)
  <2>1. UNCHANGED <<msgr, pc, script, aborted>>
    BY <1>6 DEF BindFails
  <2>2. \A u \in Threads : SamePart(u)
    BY <2>1 DEF SamePart
  <2> QED
    BY <1>0, <1>2, <2>1, <2>2, PartsUse
<1> QED
  BY <1>3, <1>4, <1>5, <1>6

-----------------------------------------------------------------------------
\* Every step keeps what is left of the rules.
LEMMA NextUse ==
    ASSUME SInv, UseInv, [Next]_vars
    PROVE  UseInv'
<1>1. CASE UNCHANGED vars
  <2>1. UNCHANGED <<msgr, pc, script, aborted>> /\ Types
    BY <1>1 DEF vars, SInv, Inv
  <2>2. KeepsUse /\ \A u \in Threads : SamePart(u)
    BY <2>1 DEF KeepsUse, SamePart
  <2> QED
    BY <2>1, <2>2, PartsUse
<1>2. ASSUME NEW t \in Threads, NEW m \in Msgrs, Goes(t, m) PROVE UseInv'
  BY <1>2, GoesUse, UnboundUse, MarkAllDownUse, ReboundUse, FinishUse, WaitedUse DEF Goes
<1>3. ASSUME NEW t \in Threads, NEW m \in Msgrs, MakesCall(t, m) PROVE UseInv'
  BY <1>3, BindUse, AddDispatcherUse, StartUse, StopCallsUse, WaitUse, OtherCallsUse
     DEF MakesCall
<1>4. ASSUME NEW m \in Msgrs, accept(m) \/ add_accept(m) \/ DispatchEnds(m) PROVE UseInv'
  BY <1>4, WorkersUse
<1>5. ASSUME NEW c \in ConnIds, _accept_conn(c) \/ ConnectDone(c) PROVE UseInv'
  BY <1>5, WorkersUse, ConnectDoneUse
<1>6. ASSUME NEW w \in Workers, DoRequest(w) PROVE UseInv'
  BY <1>6, DoRequestUse
<1>7. CASE Next
  BY <1>2, <1>3, <1>4, <1>5, <1>6, <1>7 DEF Next
<1> QED
  BY <1>1, <1>7

\* They hold when the process starts.
LEMMA InitUse ==
    ASSUME Init, ProperUse(script)
    PROVE  UseInv
<1>1. ~aborted /\ \A m \in Msgrs : msgr[m] = NewMsgr
  BY DEF Init
<1>2. \A t \in Threads : pc[t].at = "idle"
  BY DEF Init, Idle
<1>3. ASSUME NEW m \in Msgrs PROVE UseOf(m)
  <2>1. \A f \in UseFlags : ~Has(m, f)
    BY <1>1 DEF Has, NewMsgr, UseFlags
  <2>2. /\ ~Has(m, "started") /\ ~Has(m, "did_bind")
        /\ ~Has(m, "shutdown_called") /\ ~Has(m, "dispatcher")
    BY <2>1 DEF UseFlags
  <2>3. \A t \in Threads : ~Shutting(t, m) /\ ~Late(t, m) /\ ~Rebinding(t, m) /\ ~Unbinding(t, m)
    BY <1>2, UsePoints DEF Shutting, Late, Rebinding, Unbinding
  <2>4. StartsOnce(script, m) /\ WaitsAfterShutdown(script, m) /\ RebindsBound(script, m)
    BY DEF ProperUse
  <2>5. StartsLater(m)
    BY <2>2, <2>4 DEF StartsOnce, StartsLater
  <2>6. JoinsRunning(m)
    BY <2>2, <2>3 DEF JoinsRunning, ShutsDown
  <2>7. WaitsLater(m)
    BY <2>2, <2>4 DEF WaitsAfterShutdown, WaitsLater, NeverBound, StartThenShutdown
  <2>8. RebindsLater(m)
    BY <2>2, <2>3, <2>4 DEF RebindsBound, RebindsLater, BindFirst
  <2>9. BoundUntil(m)
    BY <2>2, <2>3 DEF BoundUntil
  <2> QED
    BY <2>5, <2>6, <2>7, <2>8, <2>9 DEF UseOf
<1> QED
  BY <1>1, <1>3 DEF UseInv

\* An application that follows ProperUse: at every moment the calls that are still to
\* come fit the flags, the thread a shutdown() joins runs, and a messenger that was
\* shut down is bound only while that call is stopping it.
THEOREM UseInvariant == Spec /\ ProperUse(script) => []UseInv
<1>1. Init /\ ProperUse(script) => UseInv
  BY InitUse
<1>2. SInv /\ UseInv /\ [Next]_vars => UseInv'
  BY NextUse
<1> QED
  BY <1>1, <1>2, ShutdownInvariant, PTL DEF Spec

\* No assertion of the life cycle fails for an application that follows ProperUse:
\* rebind() finds the messenger bound, wait() finds it not bound, add_dispatcher_head()
\* finds no dispatch thread, and shutdown() a local delivery thread to join, whatever
\* else the threads, the workers and the peers do at the same time.
THEOREM NoAssertionFails == Spec /\ ProperUse(script) => []NoAbort
<1>1. UseInv => NoAbort
  BY DEF UseInv, NoAbort
<1> QED
  BY <1>1, UseInvariant, PTL

=============================================================================
