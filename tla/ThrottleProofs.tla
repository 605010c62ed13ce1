--------------------------- MODULE ThrottleProofs ---------------------------
(***************************************************************************)
(* Proofs about Throttle for any set of threads, requests, amounts and     *)
(* limits.                                                                 *)
(***************************************************************************)
EXTENDS Throttle, TLAPS

\* The thread that holds the lock is exactly the one in the middle of a call,
\* and signal_first() only runs under the lock.
LockInv ==
    /\ phase = "signalling" => lock # NoThread
    /\ \A t \in Threads : pc[t] = "getcb" => want[t] \in Amounts
    /\ \A t \in Threads :
          lock = t <=> pc[t] \in {"get", "wait", "getcb", "got", "waited", "put"}

\* A thread in the queue sleeps in cv->Wait, and is in the queue only once.
QueueInv ==
    /\ \A i \in 1 .. Len(wait_queue) :
          wait_queue[i].kind = "cv"
             => pc[wait_queue[i].who] \in {"blocked", "waiting0"}
    /\ \A i, j \in 1 .. Len(wait_queue) :
          wait_queue[i].kind = "cv" /\ wait_queue[i].who = wait_queue[j].who
             => i = j

\* The invariant that is inductive.
IInv == TypeOK /\ LockInv /\ QueueInv /\ PutNeverAsserts /\ NoLostWakeup

\* The two kinds of struct Waiter, taken apart.
LEMMA WaiterFields ==
  ASSUME NEW w \in Waiters
  PROVE  /\ w.c \in Nat
         /\ w.kind \in {"cv", "cb"}
         /\ w.kind = "cv" => w.who \in Threads /\ w = CvWaiter(w.who)
         /\ w.kind = "cb" => w.who \in Requests
  <1>1. CASE w \in [kind : {"cv"}, who : Threads, c : {0}]
    BY <1>1 DEF CvWaiter
  <1>2. CASE w \in [kind : {"cb"}, who : Requests, c : Amounts]
    <2>1. w.c \in Amounts
      BY <1>2
    <2> QED BY <1>2, <2>1, ConstantsAssumption
  <1> QED BY <1>1, <1>2 DEF Waiters

\* OverLimit is monotone in the count.
LEMMA OverLimitMonotone ==
  ASSUME NEW cur \in Nat, NEW more \in Nat, more >= cur,
         NEW m \in Nat, NEW c \in Nat, OverLimit(cur, m, c)
  PROVE  OverLimit(more, m, c)
  BY DEF OverLimit

\* Sums of amounts, for the steps that add to or take from the count.
LEMMA AddOrReturn ==
  ASSUME NEW cur \in Nat, NEW o \in Nat, NEW c \in Nat, cur >= o
  PROVE  /\ cur + c \in Nat /\ o + c \in Nat
         /\ cur + c >= o + c /\ cur + c >= o /\ cur + c >= cur
         /\ c <= o => cur - c \in Nat /\ o - c \in Nat /\ cur - c >= o - c
  OBVIOUS

-----------------------------------------------------------------------------
\* The invariant holds at the start.
LEMMA InitInv == Init => IInv
  <1> SUFFICES ASSUME Init PROVE IInv
    OBVIOUS
  <1>1. TypeOK
    BY ConstantsAssumption DEF Init, TypeOK, PCs
  <1>2. LockInv
    BY ConstantsAssumption DEF Init, LockInv
  <1>3. QueueInv /\ PutNeverAsserts /\ NoLostWakeup
    BY DEF Init, QueueInv, PutNeverAsserts, NoLostWakeup
  <1> QED BY <1>1, <1>2, <1>3 DEF IInv

\* Types are preserved; put() needs count >= out to stay a natural number.
LEMMA TypeStep ==
  ASSUME TypeOK, LockInv, PutNeverAsserts, [Next]_vars
  PROVE  TypeOK'
  <1> USE DEF TypeOK
  <1>0. Amounts \subseteq Nat /\ TakeAmounts \subseteq Nat /\ NewMax \subseteq Nat
    BY ConstantsAssumption
  <1>p. {"idle", "get", "wait", "getcb", "blocked", "waiting0", "got", "waited",
         "put"} \subseteq PCs
    BY DEF PCs
  <1>1. CASE signal_first
    <2>1. CASE wait_queue = <<>>
      BY <1>1, <2>1 DEF signal_first
    <2>2. CASE wait_queue # <<>>
      <3> DEFINE w == Head(wait_queue)
      <3>1. w \in Waiters /\ Tail(wait_queue) \in Seq(Waiters)
        BY <2>2
      <3>2. /\ w.c \in Nat
            /\ w.kind = "cv" => w.who \in Threads
            /\ w.kind = "cb" => w.who \in Requests
        BY <3>1, WaiterFields
      <3>3. CASE w.kind = "cv"
        <4>1. woken' \subseteq Threads
          BY <1>1, <2>2, <3>2, <3>3 DEF signal_first
        <4> QED BY <1>1, <2>2, <3>3, <4>1 DEF signal_first
      <3>4. CASE w.kind = "cb"
        <4>1. CASE _should_wait(w.c)
          BY <1>1, <2>2, <3>4, <4>1 DEF signal_first
        <4>2. CASE ~_should_wait(w.c)
          <5>1. count' \in Nat /\ out' \in Nat
            BY <1>1, <2>2, <3>2, <3>4, <4>2 DEF signal_first
          <5> QED BY <1>1, <2>2, <3>1, <3>2, <3>4, <4>2, <5>1 DEF signal_first
        <4> QED BY <4>1, <4>2
      <3> QED BY <1>1, <2>2, <3>3, <3>4 DEF signal_first
    <2> QED BY <2>1, <2>2
  <1>2. ASSUME NEW t \in Threads, Inside(t) PROVE TypeOK'
    <2>0. want[t] \in Nat /\ count + want[t] \in Nat /\ out + want[t] \in Nat
      OBVIOUS
    <2>1. CASE get_block(t) \/ wait_block(t)
      <3>1. CvWaiter(t) \in Waiters
        BY DEF CvWaiter, Waiters
      <3>2. Append(wait_queue, CvWaiter(t)) \in Seq(Waiters)
        BY <3>1
      <3>3. CASE get_block(t)
        BY <1>p, <3>2, <3>3 DEF get_block, _wait_block, Unlock
      <3>4. CASE wait_block(t)
        BY <1>p, <3>2, <3>4 DEF wait_block, _wait_block, Unlock
      <3> QED BY <2>1, <3>3, <3>4
    <2>2. CASE get_now(t)
      BY <1>p, <2>0, <2>2 DEF get_now, Unlock
    <2>3. CASE wait_now(t)
      BY <1>p, <2>3 DEF wait_now, Unlock
    <2>4. CASE get_done(t)
      BY <1>p, <2>0, <2>4 DEF get_done, Unlock
    <2>5. CASE wait_done(t)
      BY <1>p, <2>5 DEF wait_done, Unlock
    <2>6. CASE put_done(t)
      BY <1>p, <2>6 DEF put_done, Unlock
    <2>7. CASE _wait_again(t)
      BY <2>7 DEF _wait_again
    <2>8. CASE _wait_leave(t)
      BY <1>p, <2>8 DEF _wait_leave, MayLeave
    <2>9. ASSUME NEW r \in Requests, get_cb_wait(t, r) PROVE TypeOK'
      <3>1. want[t] \in Amounts
        BY <2>9 DEF get_cb_wait, Holds, LockInv
      <3>2. Append(wait_queue, CbWaiter(r, want[t])) \in Seq(Waiters)
        BY <3>1 DEF CbWaiter, Waiters
      <3>3. CASE MustQueue(want[t])
        BY <1>p, <2>0, <2>9, <3>2, <3>3 DEF get_cb_wait, Unlock
      <3>4. CASE ~MustQueue(want[t])
        BY <1>p, <2>0, <2>9, <3>4 DEF get_cb_wait, Unlock
      <3> QED BY <3>3, <3>4
    <2> QED BY <1>2, <2>1, <2>2, <2>3, <2>4, <2>5, <2>6, <2>7, <2>8, <2>9 DEF Inside
  <1>3. ASSUME NEW t \in Threads, Call(t) PROVE TypeOK'
    <2>1. ASSUME NEW where \in PCs, NEW c \in Nat, Lock(t, where, c) PROVE TypeOK'
      BY <1>0, <2>1 DEF Lock
    <2>2. CASE get(t) \/ wait(t) \/ get_cb(t)
      BY <1>0, <1>p, <2>1, <2>2 DEF get, wait, get_cb
    <2>3. CASE take(t)
      BY <1>0, <2>3 DEF take
    <2>4. CASE get_or_fail(t)
      BY <1>0, <2>4 DEF get_or_fail
    <2>5. CASE put(t)
      <3>1. PICK c \in Amounts \cup TakeAmounts :
               c <= out /\ count' = count - c /\ out' = out - c
        BY <2>5 DEF put
      <3>2. count' \in Nat /\ out' \in Nat
        BY <1>0, <3>1, AddOrReturn DEF PutNeverAsserts
      <3> QED BY <1>p, <2>5, <3>2 DEF put
    <2> QED BY <1>3, <2>2, <2>3, <2>4, <2>5 DEF Call
  <1>4. ASSUME NEW t \in Threads, SpuriousWakeup(t) PROVE TypeOK'
    BY <1>4 DEF SpuriousWakeup
  <1>5. CASE Destroy
    BY <1>5 DEF Destroy
  <1>6. CASE UNCHANGED vars
    BY <1>6 DEF vars
  <1> QED BY <1>1, <1>2, <1>3, <1>4, <1>5, <1>6 DEF Next

\* The holder of the lock is the thread in the middle of a call.
LEMMA LockStep ==
  ASSUME TypeOK, LockInv, [Next]_vars
  PROVE  LockInv'
  <1> USE DEF TypeOK, LockInv
  <1>0. \A t \in Threads : t # NoThread
    BY ConstantsAssumption
  <1>1. CASE signal_first
    BY <1>1 DEF signal_first
  <1>2. ASSUME NEW t \in Threads, Inside(t) PROVE LockInv'
    <2>1. CASE get_block(t)
      BY <1>0, <2>1 DEF get_block, _wait_block, Unlock, Holds
    <2>2. CASE wait_block(t)
      BY <1>0, <2>2 DEF wait_block, _wait_block, Unlock, Holds
    <2>3. CASE get_now(t)
      BY <1>0, <2>3 DEF get_now, Unlock, Holds
    <2>4. CASE wait_now(t)
      BY <1>0, <2>4 DEF wait_now, Unlock, Holds
    <2>5. CASE get_done(t)
      BY <1>0, <2>5 DEF get_done, Unlock, Holds
    <2>6. CASE wait_done(t)
      BY <1>0, <2>6 DEF wait_done, Unlock, Holds
    <2>7. CASE put_done(t)
      BY <1>0, <2>7 DEF put_done, Unlock, Holds
    <2>8. CASE _wait_again(t)
      BY <2>8 DEF _wait_again
    <2>9. CASE _wait_leave(t)
      BY <1>0, <2>9 DEF _wait_leave
    <2>10. ASSUME NEW r \in Requests, get_cb_wait(t, r) PROVE LockInv'
      BY <1>0, <2>10 DEF get_cb_wait, Unlock, Holds
    <2> QED BY <1>2, <2>1, <2>2, <2>3, <2>4, <2>5, <2>6, <2>7, <2>8, <2>9, <2>10
            DEF Inside
  <1>3. ASSUME NEW t \in Threads, Call(t) PROVE LockInv'
    <2>1. ASSUME NEW where \in {"get", "wait", "getcb"}, NEW c,
                 where = "getcb" => c \in Amounts, Lock(t, where, c)
          PROVE  LockInv'
      BY <1>0, <2>1 DEF Lock, CanLock
    <2>2. CASE get(t) \/ wait(t) \/ get_cb(t)
      BY <2>1, <2>2 DEF get, wait, get_cb
    <2>3. CASE take(t)
      BY <2>3 DEF take
    <2>4. CASE get_or_fail(t)
      BY <2>4 DEF get_or_fail
    <2>5. CASE put(t)
      BY <1>0, <2>5 DEF put, CanLock
    <2> QED BY <1>3, <2>2, <2>3, <2>4, <2>5 DEF Call
  <1>4. ASSUME NEW t \in Threads, SpuriousWakeup(t) PROVE LockInv'
    BY <1>4 DEF SpuriousWakeup
  <1>5. CASE Destroy
    BY <1>5 DEF Destroy
  <1>6. CASE UNCHANGED vars
    BY <1>6 DEF vars
  <1> QED BY <1>1, <1>2, <1>3, <1>4, <1>5, <1>6 DEF Next

\* Sleeping threads are queued once.  Only three kinds of step move the queue.
LEMMA QueueStep ==
  ASSUME TypeOK, LockInv, QueueInv, [Next]_vars
  PROVE  QueueInv'
  <1> USE DEF TypeOK
  <1> DEFINE Asleep(t) == pc[t] \in {"blocked", "waiting0"}
  <1>q. \A i \in 1 .. Len(wait_queue) :
           wait_queue[i] \in Waiters
    OBVIOUS
  <1>w. \A i \in 1 .. Len(wait_queue) :
           /\ wait_queue[i].kind \in {"cv", "cb"}
           /\ wait_queue[i].kind = "cv" => wait_queue[i].who \in Threads
           /\ wait_queue[i].kind = "cb" => wait_queue[i].who \in Requests
    BY <1>q, WaiterFields
  \* a step of a thread that is awake and leaves the queue alone
  <1>a. ASSUME NEW t \in Threads, ~Asleep(t), wait_queue' = wait_queue,
               \A u \in Threads \ {t} : pc'[u] = pc[u]
        PROVE  QueueInv'
    BY <1>a, <1>w DEF QueueInv
  \* the step pops the head
  <1>b. ASSUME wait_queue # <<>>, wait_queue' = Tail(wait_queue),
               \A u \in Threads : Asleep(u) /\ u # Head(wait_queue).who => pc'[u] = pc[u],
               Head(wait_queue).kind = "cb" => pc' = pc
        PROVE  QueueInv'
    <2>1. \A i \in 1 .. Len(wait_queue') :
             i + 1 \in 1 .. Len(wait_queue) /\ wait_queue'[i] = wait_queue[i + 1]
      BY <1>b
    <2>2. Head(wait_queue) = wait_queue[1] /\ 1 \in 1 .. Len(wait_queue)
      BY <1>b
    <2>3. ASSUME NEW i \in 1 .. Len(wait_queue'), wait_queue'[i].kind = "cv"
          PROVE  pc'[wait_queue'[i].who] \in {"blocked", "waiting0"}
      <3>1. i + 1 \in 1 .. Len(wait_queue) /\ wait_queue'[i] = wait_queue[i + 1] /\ i + 1 # 1
        BY <2>1
      <3>2. wait_queue[i + 1].who # wait_queue[1].who
        BY <2>2, <2>3, <3>1 DEF QueueInv
      <3> QED BY <1>b, <1>w, <2>2, <2>3, <3>1, <3>2 DEF QueueInv
    <2>4. ASSUME NEW i \in 1 .. Len(wait_queue'), NEW j \in 1 .. Len(wait_queue'),
                 wait_queue'[i].kind = "cv", wait_queue'[i].who = wait_queue'[j].who
          PROVE  i = j
      <3>1. i + 1 = j + 1
        BY <2>1, <2>4 DEF QueueInv
      <3> QED BY <3>1
    <2> QED BY <2>3, <2>4 DEF QueueInv
  \* the step appends a waiter that is not in the queue
  <1>c. ASSUME NEW w, wait_queue' = Append(wait_queue, w),
               \A i \in 1 .. Len(wait_queue) :
                  "cv" \in {wait_queue[i].kind, w.kind} => wait_queue[i].who # w.who,
               w.kind = "cv" => pc'[w.who] \in {"blocked", "waiting0"},
               \A u \in Threads : Asleep(u) => pc'[u] = pc[u]
        PROVE  QueueInv'
    <2>1. Len(wait_queue') = Len(wait_queue) + 1 /\ wait_queue'[Len(wait_queue) + 1] = w
          /\ \A i \in 1 .. Len(wait_queue) : wait_queue'[i] = wait_queue[i]
      BY <1>c
    <2>2. \A i \in 1 .. Len(wait_queue') :
             i \in 1 .. Len(wait_queue) \/ i = Len(wait_queue) + 1
      BY <2>1
    <2>3. ASSUME NEW i \in 1 .. Len(wait_queue'), wait_queue'[i].kind = "cv"
          PROVE  pc'[wait_queue'[i].who] \in {"blocked", "waiting0"}
      <3>1. CASE i = Len(wait_queue) + 1
        BY <1>c, <2>1, <2>3, <3>1
      <3>2. CASE i \in 1 .. Len(wait_queue)
        BY <1>c, <1>w, <2>1, <2>3, <3>2 DEF QueueInv
      <3> QED BY <2>2, <3>1, <3>2
    <2>4. ASSUME NEW i \in 1 .. Len(wait_queue'), NEW j \in 1 .. Len(wait_queue'),
                 wait_queue'[i].kind = "cv", wait_queue'[i].who = wait_queue'[j].who
          PROVE  i = j
      <3>1. CASE i \in 1 .. Len(wait_queue) /\ j \in 1 .. Len(wait_queue)
        BY <2>1, <2>4, <3>1 DEF QueueInv
      <3>2. CASE i = Len(wait_queue) + 1 /\ j \in 1 .. Len(wait_queue)
        BY <1>c, <2>1, <2>4, <3>2
      <3>3. CASE i \in 1 .. Len(wait_queue) /\ j = Len(wait_queue) + 1
        BY <1>c, <2>1, <2>4, <3>3
      <3> QED BY <2>2, <3>1, <3>2, <3>3
    <2> QED BY <2>3, <2>4 DEF QueueInv
  <1>d. Threads \cap Requests = {}
    BY ConstantsAssumption
  <1>1. CASE signal_first
    <2>1. CASE wait_queue' = wait_queue
      BY <1>1, <2>1 DEF signal_first, QueueInv
    <2>2. CASE wait_queue' # wait_queue
      <3>1. wait_queue # <<>> /\ wait_queue' = Tail(wait_queue) /\ pc' = pc
        BY <1>1, <2>2 DEF signal_first
      <3> QED BY <1>b, <3>1
    <2> QED BY <2>1, <2>2
  <1>2. ASSUME NEW t \in Threads, Inside(t) PROVE QueueInv'
    <2>1. CASE get_block(t) \/ wait_block(t)
      <3>1. ~Asleep(t) /\ wait_queue' = Append(wait_queue, CvWaiter(t))
            /\ pc'[t] \in {"blocked", "waiting0"}
            /\ \A u \in Threads \ {t} : pc'[u] = pc[u]
        BY <2>1 DEF get_block, wait_block, _wait_block, Unlock, Holds
      <3>2. \A i \in 1 .. Len(wait_queue) : wait_queue[i].who # t
        BY <1>w, <1>d, <3>1 DEF QueueInv
      <3>3. CvWaiter(t).who = t
        BY DEF CvWaiter
      <3> QED BY <1>c, <3>1, <3>2, <3>3
    <2>2. CASE get_now(t) \/ wait_now(t) \/ get_done(t) \/ wait_done(t) \/ put_done(t)
      <3>1. ~Asleep(t) /\ wait_queue' = wait_queue /\ \A u \in Threads \ {t} : pc'[u] = pc[u]
        BY <2>2 DEF get_now, wait_now, get_done, wait_done, put_done, Unlock, Holds
      <3> QED BY <1>a, <3>1
    <2>3. CASE _wait_again(t)
      BY <2>3 DEF _wait_again, QueueInv
    <2>4. CASE _wait_leave(t)
      <3>1. wait_queue # <<>> /\ wait_queue' = Tail(wait_queue)
            /\ Head(wait_queue) = CvWaiter(t)
            /\ \A u \in Threads \ {t} : pc'[u] = pc[u]
        BY <2>4 DEF _wait_leave, MayLeave
      <3>2. CvWaiter(t).who = t /\ CvWaiter(t).kind = "cv"
        BY DEF CvWaiter
      <3> QED BY <1>b, <3>1, <3>2
    <2>5. ASSUME NEW r \in Requests, get_cb_wait(t, r) PROVE QueueInv'
      <3>1. /\ ~Asleep(t)
            /\ \A u \in Threads \ {t} : pc'[u] = pc[u]
            /\ wait_queue' = wait_queue \/ wait_queue' = Append(wait_queue, CbWaiter(r, want[t]))
        BY <2>5 DEF get_cb_wait, Unlock, Holds
      <3>2. CbWaiter(r, want[t]).who = r /\ CbWaiter(r, want[t]).kind = "cb"
        BY DEF CbWaiter
      <3>3. \A i \in 1 .. Len(wait_queue) :
               wait_queue[i].kind = "cv" => wait_queue[i].who # r
        BY <1>w, <1>d
      <3> QED BY <1>a, <1>c, <3>1, <3>2, <3>3
    <2> QED BY <1>2, <2>1, <2>2, <2>3, <2>4, <2>5 DEF Inside
  <1>3. ASSUME NEW t \in Threads, Call(t) PROVE QueueInv'
    <2>1. ~Asleep(t) /\ wait_queue' = wait_queue /\ \A u \in Threads \ {t} : pc'[u] = pc[u]
      BY <1>3 DEF Call, get, wait, get_cb, Lock, take, get_or_fail, put
    <2> QED BY <1>a, <2>1
  <1>4. ASSUME NEW t \in Threads, SpuriousWakeup(t) PROVE QueueInv'
    BY <1>4 DEF SpuriousWakeup, QueueInv
  <1>5. CASE Destroy
    BY <1>5 DEF Destroy, QueueInv
  <1>6. CASE UNCHANGED vars
    BY <1>6 DEF vars, QueueInv
  <1> QED BY <1>1, <1>2, <1>3, <1>4, <1>5, <1>6 DEF Next

\* Every step adds at least as much to count as to what callers hold.
LEMMA CountStep ==
  ASSUME TypeOK, TypeOK', PutNeverAsserts, [Next]_vars
  PROVE  PutNeverAsserts'
  <1> USE DEF TypeOK, PutNeverAsserts
  <1>0. Amounts \subseteq Nat /\ TakeAmounts \subseteq Nat
    BY ConstantsAssumption
  <1>1. ASSUME NEW c \in Nat, count' = count + c, out' = out + c \/ out' = out
        PROVE  PutNeverAsserts'
    BY <1>1, AddOrReturn
  <1>2. CASE count' = count /\ out' = out
    BY <1>2
  <1>3. CASE signal_first
    <2>1. CASE wait_queue = <<>>
      BY <1>2, <1>3, <2>1 DEF signal_first
    <2>2. CASE wait_queue # <<>>
      <3>1. Head(wait_queue) \in Waiters
        BY <2>2
      <3>2. Head(wait_queue).c \in Nat
        BY <3>1, WaiterFields
      <3> QED BY <1>1, <1>2, <1>3, <3>2 DEF signal_first
    <2> QED BY <2>1, <2>2
  <1>4. ASSUME NEW t \in Threads, Inside(t) PROVE PutNeverAsserts'
    <2>1. want[t] \in Nat
      OBVIOUS
    <2>2. CASE get_now(t) \/ get_done(t) \/ \E r \in Requests : get_cb_wait(t, r)
      BY <1>1, <2>1, <2>2 DEF get_now, get_done, get_cb_wait
    <2>3. CASE get_block(t) \/ wait_block(t) \/ wait_now(t) \/ wait_done(t)
                 \/ put_done(t) \/ _wait_again(t) \/ _wait_leave(t)
      BY <1>2, <2>3 DEF get_block, wait_block, _wait_block, wait_now, wait_done,
                        put_done, _wait_again, _wait_leave
    <2> QED BY <1>4, <2>2, <2>3 DEF Inside
  <1>5. ASSUME NEW t \in Threads, Call(t) PROVE PutNeverAsserts'
    <2>1. CASE get(t) \/ wait(t) \/ get_cb(t)
      BY <1>2, <2>1 DEF get, wait, get_cb, Lock
    <2>2. CASE take(t) \/ get_or_fail(t)
      BY <1>0, <1>1, <2>2 DEF take, get_or_fail
    <2>3. CASE put(t)
      BY <1>0, <2>3, AddOrReturn DEF put
    <2> QED BY <1>5, <2>1, <2>2, <2>3 DEF Call
  <1>6. CASE Destroy \/ UNCHANGED vars \/ \E t \in Threads : SpuriousWakeup(t)
    BY <1>2, <1>6 DEF Destroy, vars, SpuriousWakeup
  <1> QED BY <1>3, <1>4, <1>5, <1>6 DEF Next

\* A wakeup is never lost.  SettledIn names the state Settled is about, so that
\* the two ends of a step can be compared.
SettledIn(w, wk, wt, cur, m) ==
    IF w.kind = "cv" THEN w.who \in wk \/ OverLimit(cur, m, wt[w.who])
                     ELSE OverLimit(cur, m, w.c)

\* No step loses a wakeup: after it the waiter at the front is woken, or the
\* throttle is too full for it.
LEMMA WakeupStep ==
  ASSUME IInv, TypeOK', [Next]_vars
  PROVE  NoLostWakeup'
  <1>i. TypeOK /\ LockInv /\ QueueInv /\ NoLostWakeup
    BY DEF IInv
  <1>0. Amounts \subseteq Nat /\ TakeAmounts \subseteq Nat
    BY ConstantsAssumption
  <1>t. /\ count \in Nat /\ count' \in Nat /\ max \in Nat /\ want \in [Threads -> Nat]
        /\ wait_queue \in Seq(Waiters)
    BY <1>i DEF TypeOK
  <1> DEFINE h == Head(wait_queue)
  <1> DEFINE Good == SettledIn(Head(wait_queue'), woken', want', count', max')
  <1>old. phase # "signalling" /\ wait_queue # <<>>
             => SettledIn(h, woken, want, count, max)
    BY <1>i DEF NoLostWakeup, Settled, SettledIn, _should_wait
  <1>new. SUFFICES ASSUME phase' # "signalling", wait_queue' # <<>> PROVE Good
    BY DEF NoLostWakeup, Settled, SettledIn, _should_wait
  <1> HIDE DEF Good
  <1>h. wait_queue # <<>> =>
          /\ h \in Waiters /\ h.c \in Nat
          /\ h.kind \in {"cv", "cb"}
          /\ h.kind = "cv" => /\ h.who \in Threads /\ h = CvWaiter(h.who)
                              /\ want[h.who] \in Nat
                              /\ pc[h.who] \in {"blocked", "waiting0"}
    <2>1. ASSUME wait_queue # <<>>
          PROVE  h \in Waiters /\ h = wait_queue[1] /\ 1 \in 1 .. Len(wait_queue)
      BY <1>t, <2>1
    <2> QED BY <1>i, <1>t, <2>1, WaiterFields DEF QueueInv
  <1> HIDE DEF h
  \* the head stays, count does not fall and the head's thread is not touched
  <1>k. ASSUME phase # "signalling", wait_queue # <<>>,
               Head(wait_queue') = h, count' >= count, max' = max,
               h.kind = "cv" => want'[h.who] = want[h.who]
                                  /\ (h.who \in woken => h.who \in woken')
        PROVE  Good
    <2>1. SettledIn(h, woken, want, count, max)
      BY <1>old, <1>k
    <2>2. CASE h.kind = "cv"
      <3>1. h.who \in woken' \/ OverLimit(count', max, want[h.who])
        BY <1>h, <1>k, <1>t, <2>1, <2>2, OverLimitMonotone DEF SettledIn
      <3> QED BY <1>k, <2>2, <3>1 DEF SettledIn, Good
    <2>3. CASE h.kind # "cv"
      <3>1. OverLimit(count', max, h.c)
        BY <1>h, <1>k, <1>t, <2>1, <2>3, OverLimitMonotone DEF SettledIn
      <3> QED BY <1>k, <2>3, <3>1 DEF SettledIn, Good
    <2> QED BY <2>2, <2>3
  \* a step that leaves the queue, the limit and the sleepers alone
  <1>l. ASSUME phase # "signalling", wait_queue' = wait_queue, count' >= count,
               max' = max,
               \A t \in Threads : pc[t] \in {"blocked", "waiting0"}
                  => want'[t] = want[t] /\ (t \in woken => t \in woken')
        PROVE  Good
    <2>1. wait_queue # <<>> /\ Head(wait_queue') = h
      BY <1>l, <1>new DEF h
    <2> QED BY <1>h, <1>k, <1>l, <2>1
  <1>c. \A c \in Nat : count + c >= count
    BY <1>t, AddOrReturn
  <1>e. count >= count
    BY <1>t
  <1>1. CASE signal_first
    <2>1. CASE wait_queue = <<>>
      BY <1>1, <1>new, <2>1 DEF signal_first
    <2>2. CASE wait_queue # <<>>
      <3>1. Head(wait_queue') = h /\ count' = count /\ max' = max /\ want' = want
        BY <1>1, <1>h, <1>new, <2>2 DEF signal_first, h
      <3>2. CASE h.kind = "cv"
        <4>1. h.who \in woken'
          BY <1>1, <2>2, <3>2 DEF signal_first, h
        <4> QED BY <3>1, <3>2, <4>1 DEF SettledIn, Good
      <3>3. CASE h.kind = "cb"
        <4>1. OverLimit(count, max, h.c)
          BY <1>1, <1>new, <2>2, <3>3 DEF signal_first, h, _should_wait
        <4> QED BY <3>1, <3>3, <4>1 DEF SettledIn, Good
      <3> QED BY <1>h, <2>2, <3>2, <3>3
    <2> QED BY <2>1, <2>2
  <1>2. ASSUME NEW t \in Threads, Inside(t) PROVE Good
    <2>0. want[t] \in Nat /\ count + want[t] >= count
      BY <1>t, <1>c
    <2>1. CASE get_block(t) \/ wait_block(t)
      <3>1. /\ phase = "body" /\ MustQueue(want[t])
            /\ wait_queue' = Append(wait_queue, CvWaiter(t))
            /\ count' = count /\ max' = max /\ want' = want /\ woken' = woken
        BY <2>1 DEF get_block, wait_block, _wait_block, Holds
      <3>2. CASE wait_queue = <<>>
        <4>1. OverLimit(count, max, want[t])
          BY <3>1, <3>2 DEF MustQueue, _should_wait
        <4>2. Head(wait_queue') = CvWaiter(t)
          BY <1>t, <3>1, <3>2
        <4> QED BY <3>1, <4>1, <4>2 DEF SettledIn, CvWaiter, Good
      <3>3. CASE wait_queue # <<>>
        <4>1. Head(wait_queue') = h
          BY <1>t, <3>1, <3>3 DEF h
        <4> QED BY <1>e, <1>k, <3>1, <3>3, <4>1
      <3> QED BY <3>2, <3>3
    <2>2. CASE get_now(t) \/ wait_now(t) \/ get_done(t) \/ wait_done(t) \/ put_done(t)
      <3>1. phase = "body" /\ wait_queue' = wait_queue /\ count' \in {count, count + want[t]}
            /\ max' = max /\ want' = want /\ woken' = woken
        BY <2>2 DEF get_now, wait_now, get_done, wait_done, put_done, Holds
      <3>2. count' >= count
        BY <1>e, <2>0, <3>1
      <3> QED BY <1>l, <3>1, <3>2
    <2>3. CASE _wait_again(t)
      <3>1. phase # "signalling" /\ wait_queue' = wait_queue /\ count' = count
            /\ max' = max /\ want' = want /\ woken' = woken \ {t} /\ ~MayLeave(t)
        BY <1>i, <2>3 DEF _wait_again, LockInv
      <3>2. wait_queue # <<>> /\ Head(wait_queue') = h
        BY <1>new, <3>1 DEF h
      <3>3. CASE h # CvWaiter(t)
        <4>1. h.kind = "cv" => h.who # t
          BY <1>h, <3>2, <3>3
        <4> QED BY <1>e, <1>k, <3>1, <3>2, <4>1
      <3>4. CASE h = CvWaiter(t)
        <4>1. OverLimit(count, max, want[t])
          BY <3>1, <3>2, <3>4 DEF MayLeave, _should_wait, h
        <4> QED BY <3>1, <3>2, <3>4, <4>1 DEF SettledIn, CvWaiter, Good
      <3> QED BY <3>3, <3>4
    <2>4. CASE _wait_leave(t)
      BY <1>new, <2>4 DEF _wait_leave
    <2>5. ASSUME NEW r \in Requests, get_cb_wait(t, r) PROVE Good
      <3>1. phase = "body" /\ count' = count + want[t]
            /\ max' = max /\ want' = want /\ woken' = woken
        BY <2>5 DEF get_cb_wait, Holds
      <3>0. count' >= count
        BY <2>0, <3>1
      <3>2. CASE MustQueue(want[t])
        <4>0. wait_queue' = Append(wait_queue, CbWaiter(r, want[t]))
          BY <2>5, <3>2 DEF get_cb_wait
        <4>1. CASE wait_queue = <<>>
          <5>1. OverLimit(count, max, want[t])
            BY <3>2, <4>1 DEF MustQueue, _should_wait
          <5>2. OverLimit(count', max, want[t])
            BY <1>t, <2>0, <3>0, <5>1, OverLimitMonotone
          <5>3. Head(wait_queue') = CbWaiter(r, want[t])
            BY <1>t, <4>0, <4>1
          <5> QED BY <3>1, <5>2, <5>3 DEF SettledIn, CbWaiter, Good
        <4>2. CASE wait_queue # <<>>
          <5>1. Head(wait_queue') = h
            BY <1>t, <4>0, <4>2 DEF h
          <5> QED BY <1>k, <3>0, <3>1, <4>2, <5>1
        <4> QED BY <4>1, <4>2
      <3>3. CASE ~MustQueue(want[t])
        <4>1. wait_queue' = wait_queue
          BY <2>5, <3>3 DEF get_cb_wait
        <4> QED BY <1>l, <3>0, <3>1, <4>1
      <3> QED BY <3>2, <3>3
    <2> QED BY <1>2, <2>1, <2>2, <2>3, <2>4, <2>5 DEF Inside
  <1>3. ASSUME NEW t \in Threads, Call(t) PROVE Good
    <2>1. ASSUME NEW where, NEW c, Lock(t, where, c) PROVE Good
      <3>1. /\ phase # "signalling" /\ pc[t] = "idle"
            /\ wait_queue' = wait_queue /\ count' = count /\ max' = max
            /\ woken' = woken /\ \A u \in Threads \ {t} : want'[u] = want[u]
        BY <1>i, <1>new, <1>t, <2>1 DEF Lock, CanLock, LockInv
      <3> QED BY <1>e, <1>l, <3>1
    <2>2. CASE get(t) \/ wait(t) \/ get_cb(t)
      BY <2>1, <2>2 DEF get, wait, get_cb
    <2>3. CASE take(t) \/ get_or_fail(t)
      <3>1. /\ phase # "signalling" /\ wait_queue' = wait_queue
            /\ \E c \in Amounts \cup TakeAmounts : count' = count + c
            /\ max' = max /\ woken' = woken /\ want' = want
        BY <1>i, <2>3 DEF take, get_or_fail, CanLock, LockInv
      <3>2. count' >= count
        BY <1>0, <1>c, <3>1
      <3> QED BY <1>l, <3>1, <3>2
    <2>4. CASE put(t)
      BY <1>new, <2>4 DEF put
    <2> QED BY <1>3, <2>2, <2>3, <2>4 DEF Call
  <1>4. ASSUME NEW t \in Threads, SpuriousWakeup(t) PROVE Good
    <2>1. /\ wait_queue' = wait_queue /\ count' = count /\ max' = max /\ want' = want
          /\ phase # "signalling" /\ woken \subseteq woken'
      BY <1>4, <1>new DEF SpuriousWakeup
    <2> QED BY <1>e, <1>l, <2>1
  <1>5. CASE Destroy
    BY <1>5, <1>new DEF Destroy
  <1>6. CASE UNCHANGED vars
    <2>1. /\ wait_queue' = wait_queue /\ count' = count /\ max' = max /\ want' = want
          /\ phase # "signalling" /\ woken = woken'
      BY <1>6, <1>new DEF vars
    <2> QED BY <1>e, <1>l, <2>1
  <1> QED BY <1>1, <1>2, <1>3, <1>4, <1>5, <1>6 DEF Next

-----------------------------------------------------------------------------
\* The invariant holds in every reachable state.
THEOREM Invariance == Spec => []IInv
  <1>1. IInv /\ [Next]_vars => IInv'
    BY TypeStep, LockStep, QueueStep, CountStep, WakeupStep DEF IInv
  <1> QED BY InitInv, <1>1, PTL DEF Spec

\* The variables of the throttle keep their types: count and out stay natural
\* numbers, and only threads and requests ever wait.
THEOREM TypeCorrect == Spec => []TypeOK
  BY Invariance, PTL DEF IInv

\* No interleaving of get, wait, put, callback requests and limit changes
\* leaves the head of the wait queue asleep while it could proceed.
THEOREM WakeupSafe == Spec => []NoLostWakeup
  BY Invariance, PTL DEF IInv

-----------------------------------------------------------------------------
\* A thread that left the queue still fits under the limit while it holds the
\* lock, and a throttle with a call in progress is on, as long as no callback
\* request was made.
GrantInv == OnlyBlocking =>
    /\ \A t \in Threads : pc[t] = "got" => ~OverLimit(count, max, want[t])
    /\ \A t \in Threads : pc[t] # "idle" => max # 0

\* What not being over the limit means for the count after the grant.
LEMMA GrantFits ==
  ASSUME NEW cur \in Nat, NEW m \in Nat \ {0}, NEW c \in Nat, ~OverLimit(cur, m, c)
  PROVE  cur + c <= m \/ (cur <= m /\ (cur + c) - cur >= m)
  BY DEF OverLimit

\* A step after which no callback request was made is not about one: fired stays
\* as it is, and signal_first() has no request to grant.
LEMMA BlockingStep ==
  ASSUME TypeOK, [Next]_vars, OnlyBlocking'
  PROVE  /\ OnlyBlocking
         /\ \A t \in Threads, r \in Requests : ~get_cb_wait(t, r)
         /\ signal_first => UNCHANGED <<count, max, pc, want>>
  <1> USE DEF TypeOK, OnlyBlocking
  <1>1. \A t \in Threads, r \in Requests : ~get_cb_wait(t, r)
    BY DEF get_cb_wait
  <1>2. ASSUME signal_first
        PROVE  OnlyBlocking /\ UNCHANGED <<count, max, pc, want>>
    <2>1. wait_queue # <<>> => Head(wait_queue) \in Waiters
      OBVIOUS
    <2>2. wait_queue # <<>> /\ Head(wait_queue).kind = "cb"
             => Head(wait_queue).who \in Requests
      BY <2>1, WaiterFields
    <2>3. UNCHANGED fired /\ UNCHANGED <<count, max, pc, want>>
      BY <1>2, <2>2 DEF signal_first
    <2> QED BY <2>3
  <1>3. ASSUME NEW t \in Threads, Inside(t) \/ Call(t) \/ SpuriousWakeup(t)
        PROVE  OnlyBlocking
    <2>1. UNCHANGED fired
      BY <1>1, <1>3 DEF Inside, get_block, get_now, wait_block, wait_now, _wait_block,
         _wait_again, _wait_leave, get_done, wait_done, put_done, Call, get, wait, take,
         get_or_fail, put, get_cb, Lock, SpuriousWakeup
    <2> QED BY <2>1
  <1>4. Destroy => OnlyBlocking
    BY DEF Destroy
  <1>5. UNCHANGED vars => OnlyBlocking
    BY DEF vars
  <1>6. OnlyBlocking
    BY <1>2, <1>3, <1>4, <1>5 DEF Next
  <1>7. signal_first => UNCHANGED <<count, max, pc, want>>
    BY <1>2
  <1> QED BY <1>1, <1>6, <1>7

\* Without callback requests every step adds to count what it hands out.
LEMMA ExactStep ==
  ASSUME TypeOK, OnlyBlocking => count = out, [Next]_vars, OnlyBlocking'
  PROVE  count' = out'
  <1> USE DEF TypeOK
  <1>b. /\ OnlyBlocking
        /\ \A t \in Threads, r \in Requests : ~get_cb_wait(t, r)
        /\ signal_first => UNCHANGED <<count, max, pc, want>>
    BY BlockingStep
  <1>0. count = out /\ Amounts \subseteq Nat /\ TakeAmounts \subseteq Nat
    BY <1>b, ConstantsAssumption
  <1>1. CASE signal_first
    <2>1. count' = count
      BY <1>1, <1>b
    <2>2. out' = out
      <3>1. CASE out' = out
        BY <3>1
      <3>2. CASE wait_queue # <<>> /\ count' = count + Head(wait_queue).c
                   /\ out' = out + Head(wait_queue).c
        BY <1>0, <2>1, <3>2
      <3> QED BY <1>1, <3>1, <3>2 DEF signal_first
    <2> QED BY <1>0, <2>1, <2>2
  <1>2. ASSUME NEW t \in Threads, Inside(t) PROVE count' = out'
    BY <1>0, <1>2, <1>b DEF Inside, get_block, wait_block, _wait_block, get_now, wait_now,
          get_done, wait_done, put_done, _wait_again, _wait_leave
  <1>3. ASSUME NEW t \in Threads, Call(t) PROVE count' = out'
    BY <1>0, <1>3 DEF Call, get, wait, get_cb, Lock, take, get_or_fail, put
  <1>4. CASE Destroy \/ UNCHANGED vars \/ \E t \in Threads : SpuriousWakeup(t)
    BY <1>0, <1>4 DEF Destroy, vars, SpuriousWakeup
  <1> QED BY <1>1, <1>2, <1>3, <1>4 DEF Next

\* The assertion in Throttle::put() never fails, whatever the callers do, as
\* long as they return no more than they were granted; and count is what they
\* hold as long as they only make blocking calls.
THEOREM PutSafe == Spec => []CountAccounted
  <1> DEFINE Exact == OnlyBlocking => count = out
  <1>1. Init => Exact
    BY DEF Init
  <1>2. IInv /\ Exact /\ [Next]_vars => Exact'
    BY ExactStep DEF IInv
  <1>3. IInv /\ Exact => CountAccounted
    BY DEF IInv, CountAccounted
  <1> QED BY <1>1, <1>2, <1>3, Invariance, PTL DEF Spec

\* Every step keeps GrantInv.
LEMMA GrantStep ==
  ASSUME IInv, GrantInv, [Next]_vars
  PROVE  GrantInv'
  <1> SUFFICES ASSUME OnlyBlocking' PROVE GrantInv'
    BY DEF GrantInv
  <1>i. TypeOK /\ LockInv
    BY DEF IInv
  <1>b. /\ OnlyBlocking
        /\ \A t \in Threads, r \in Requests : ~get_cb_wait(t, r)
        /\ signal_first => UNCHANGED <<count, max, pc, want>>
    BY <1>i, BlockingStep
  <1>0. NewMax \subseteq Nat \ {0} /\ \A t \in Threads : t # NoThread
    BY ConstantsAssumption
  <1> USE DEF TypeOK, LockInv, GrantInv
  <1>1. CASE signal_first
    BY <1>1, <1>b
  <1>2. ASSUME NEW t \in Threads, Inside(t) PROVE GrantInv'
    \* a step of the lock holder that releases the lock: nobody else has "got"
    <2>1. ASSUME lock = t, pc'[t] # "got", UNCHANGED max, pc[t] # "idle",
                 \A u \in Threads \ {t} : pc'[u] = pc[u]
          PROVE  GrantInv'
      BY <1>b, <1>i, <2>1
    <2>2. CASE get_block(t) \/ wait_block(t) \/ get_now(t) \/ wait_now(t)
                 \/ get_done(t) \/ wait_done(t) \/ put_done(t)
      <3>1. lock = t /\ pc'[t] # "got" /\ UNCHANGED max /\ pc[t] # "idle"
            /\ \A u \in Threads \ {t} : pc'[u] = pc[u]
        BY <1>i, <2>2 DEF get_block, wait_block, _wait_block, get_now, wait_now,
                          get_done, wait_done, put_done, Holds, Unlock
      <3> QED BY <2>1, <3>1
    <2>3. CASE _wait_again(t)
      BY <1>b, <2>3 DEF _wait_again
    <2>4. CASE _wait_leave(t)
      BY <1>b, <1>i, <2>4 DEF _wait_leave, MayLeave, _should_wait
    <2> QED BY <1>2, <1>b, <2>2, <2>3, <2>4 DEF Inside
  <1>3. ASSUME NEW t \in Threads, Call(t) PROVE GrantInv'
    <2>0. lock = NoThread /\ max # 0 /\ \A u \in Threads : pc[u] # "got"
      BY <1>0, <1>3, <1>i DEF Call, get, wait, get_cb, Lock, take, get_or_fail, put, CanLock
    <2>1. ASSUME NEW where \in {"get", "wait", "getcb"}, NEW c, Lock(t, where, c)
          PROVE  GrantInv'
      BY <1>0, <1>b, <1>i, <2>0, <2>1 DEF Lock
    <2>2. CASE get(t) \/ wait(t) \/ get_cb(t)
      BY <2>1, <2>2 DEF get, wait, get_cb
    <2>3. CASE take(t) \/ get_or_fail(t)
      BY <1>b, <2>0, <2>3 DEF take, get_or_fail
    <2>4. CASE put(t)
      BY <1>b, <1>i, <2>0, <2>4 DEF put
    <2> QED BY <1>3, <2>2, <2>3, <2>4 DEF Call
  <1>4. CASE Destroy \/ UNCHANGED vars \/ \E t \in Threads : SpuriousWakeup(t)
    BY <1>b, <1>4 DEF Destroy, vars, SpuriousWakeup
  <1> QED BY <1>1, <1>2, <1>3, <1>4 DEF Next

\* As long as only blocking calls are made, no get() or get_or_fail() ever takes count over
\* the limit in force at that moment, but for one amount as large as the limit,
\* however many threads race and however the limit moves.
THEOREM LimitSafe == Spec => LimitRespected
  <1> DEFINE Grant == count' > count /\ OnlyBlocking' /\ ~(\E t \in Threads : take(t)) =>
                         \/ count' <= max
                         \/ count <= max /\ count' - count >= max
  <1>1. Init => GrantInv
    BY DEF Init, GrantInv
  <1>2. IInv /\ GrantInv /\ [Next]_vars => [Grant]_vars
    <2> SUFFICES ASSUME IInv, GrantInv, Next, count' > count, OnlyBlocking',
                        ~(\E t \in Threads : take(t))
                 PROVE  \/ count' <= max
                        \/ count <= max /\ count' - count >= max
      OBVIOUS
    <2>i. TypeOK /\ LockInv
      BY DEF IInv
    <2>b. /\ OnlyBlocking
          /\ \A t \in Threads, r \in Requests : ~get_cb_wait(t, r)
          /\ signal_first => UNCHANGED <<count, max, pc, want>>
      BY <2>i, BlockingStep
    <2>0. Amounts \subseteq Nat /\ count \in Nat /\ max \in Nat
      BY <2>i, ConstantsAssumption DEF TypeOK
    <2>1. count' # count
      BY <2>0
    <2>2. ASSUME NEW c \in Nat, count' = count + c, ~OverLimit(count, max, c), max # 0
          PROVE  count' <= max \/ (count <= max /\ count' - count >= max)
      <3>1. count + c <= max \/ (count <= max /\ (count + c) - count >= max)
        BY <2>0, <2>2, GrantFits
      <3> QED BY <2>2, <3>1
    <2>3. CASE signal_first
      BY <2>1, <2>3, <2>b
    <2>4. ASSUME NEW t \in Threads, Inside(t)
          PROVE  count' <= max \/ (count <= max /\ count' - count >= max)
      <3>1. get_now(t) \/ get_done(t)
        BY <2>1, <2>4, <2>b DEF Inside, get_block, wait_block, _wait_block, wait_now,
              wait_done, put_done, _wait_again, _wait_leave
      <3>2. want[t] \in Nat /\ count' = count + want[t] /\ pc[t] \in {"get", "got"}
        BY <2>i, <3>1 DEF get_now, get_done, Holds, TypeOK
      <3>3. max # 0 /\ ~OverLimit(count, max, want[t])
        BY <2>b, <3>1, <3>2 DEF GrantInv, get_now, get_done, Holds, MustQueue, _should_wait
      <3> QED BY <2>2, <3>2, <3>3
    <2>5. ASSUME NEW t \in Threads, Call(t)
          PROVE  count' <= max \/ (count <= max /\ count' - count >= max)
      <3>1. ~put(t)
        <4>1. ASSUME put(t) PROVE FALSE
          <5>1. PICK c \in Amounts \cup TakeAmounts : c <= out /\ count' = count - c
            BY <4>1 DEF put
          <5>2. c \in Nat /\ c # 0
            BY <5>1, ConstantsAssumption
          <5> QED BY <2>0, <5>1, <5>2
        <4> QED BY <4>1
      <3>2. get_or_fail(t)
        BY <2>1, <2>5, <3>1 DEF Call, get, wait, get_cb, Lock
      <3>3. PICK c \in Amounts : ~MustQueue(c) /\ count' = count + c
        BY <3>2 DEF get_or_fail
      <3>4. max # 0 /\ ~OverLimit(count, max, c) /\ c \in Nat
        BY <2>0, <3>2, <3>3 DEF get_or_fail, CanLock, MustQueue, _should_wait
      <3> QED BY <2>2, <3>3, <3>4
    <2>6. CASE Destroy \/ \E t \in Threads : SpuriousWakeup(t)
      BY <2>1, <2>6 DEF Destroy, SpuriousWakeup
    <2> QED BY <2>3, <2>4, <2>5, <2>6 DEF Next
  <1> QED BY <1>1, <1>2, Invariance, GrantStep, PTL DEF Spec, LimitRespected
=============================================================================
