------------------------------ MODULE Throttle ------------------------------
(***************************************************************************)
(* The counting throttle of Throttle.h / Throttle.cc: callers acquire      *)
(* units of a resource, wait in FIFO order when the limit is reached, and  *)
(* give the units back.  A waiter is either a thread blocked on a          *)
(* condition variable of its own, or a callback request that the thread    *)
(* which frees the units completes on the requester's behalf.              *)
(*                                                                         *)
(* Every call runs under Throttle::lock.  One call is several steps here   *)
(* (the lock is held in between), because the code interleaves changes of  *)
(* count with signal_first(), which itself changes count.  When the limit  *)
(* is 0 every call returns at once and changes nothing: the test is made   *)
(* before the lock is taken, and no call can change a limit of 0.          *)
(*                                                                         *)
(* A definition marked "Mutant" is a wrong version of the one after it;    *)
(* the specification does not use it.                                      *)
(***************************************************************************)
EXTENDS Integers, Sequences

CONSTANTS
    Threads,        \* threads that call the throttle
    Getters,        \* those that make calls that may block
    Requests,       \* callback requests, get(cb, arg, c, m); {} when unused
    Amounts,        \* amounts c a caller may ask for
    TakeAmounts,    \* amounts a caller may take() without waiting
    NewMax,         \* limits m a call of get or wait may install
    MaxInit,        \* the limit the throttle is constructed with
    TakeBound,      \* model bound: take() stops once count reaches it
    NoThread        \* "nobody holds the lock"

ASSUME ConstantsAssumption ==
    /\ Amounts \subseteq Nat \ {0}
    /\ TakeAmounts \subseteq Nat \ {0}
    /\ NewMax \subseteq Nat \ {0}
    /\ MaxInit \in Nat
    /\ TakeBound \in Nat
    /\ Getters \subseteq Threads
    /\ NoThread \notin Threads
    /\ Threads \cap Requests = {}

VARIABLES
    count,          \* units handed out, as the throttle believes
    max,            \* the limit; 0 turns the throttle off
    wait_queue,     \* FIFO of waiters
    lock,           \* thread that holds Throttle::lock in the middle of a call
    phase,          \* the lock holder is in signal_first() or in the call's body
    pc,             \* per thread: where it is in its call
    want,           \* per thread: the c of its call
    woken,          \* threads whose condition variable was signalled
    fired,          \* per request: "none", "queued", "granted" or "aborted"
    out             \* units callers hold and have still to put() back

vars == <<count, max, wait_queue, lock, phase, pc, want, woken, fired,
          out>>

(***************************************************************************)
(* pc values: "idle" outside the throttle; "get"/"wait" holds the lock and *)
(* is about to run _wait(); "blocked"/"waiting0" is inside cv->Wait of a   *)
(* get()/wait(); "got"/"waited" has left the queue, its own signal_first() *)
(* comes first and the count is adjusted last; "put" runs signal_first().  *)
(***************************************************************************)
PCs == {"idle", "get", "wait", "getcb", "blocked", "waiting0", "got", "waited",
        "put"}

\* struct Waiter: a thread on its condition variable, or a callback request.
Waiters == [kind : {"cv"}, who : Threads, c : {0}]
             \cup [kind : {"cb"}, who : Requests, c : Amounts]

CvWaiter(t) == [kind |-> "cv", who |-> t, c |-> 0]

CbWaiter(r, c) == [kind |-> "cb", who |-> r, c |-> c]

\* The test of _should_wait for a count of cur under a limit of m.
OverLimit(cur, m, c) ==
    /\ m # 0
    /\ \/ c <= m /\ cur + c > m             \* normally stay under max
       \/ c >= m /\ cur > m                 \* except for large c

_should_wait(c) == OverLimit(count, max, c)

Init ==
    /\ count = 0
    /\ max = MaxInit
    /\ wait_queue = <<>>
    /\ lock = NoThread
    /\ phase = "body"
    /\ pc = [t \in Threads |-> "idle"]
    /\ want = [t \in Threads |-> 0]
    /\ woken = {}
    /\ fired = [r \in Requests |-> "none"]
    /\ out = 0

-----------------------------------------------------------------------------
\* A throttle that is on, not destroyed, with its lock free.
CanLock == phase # "destroyed" /\ max # 0 /\ lock = NoThread

\* A call of get, wait or get(cb) takes the lock; a limit passed with it is
\* installed by _reset_max, which runs signal_first.
Lock(t, where, c) ==
    /\ CanLock
    /\ t \in Getters /\ pc[t] = "idle"
    /\ \/ max' = max /\ phase' = "body"
       \/ max' \in NewMax /\ phase' = "signalling"
    /\ lock' = t
    /\ pc' = [pc EXCEPT ![t] = where]
    /\ want' = [want EXCEPT ![t] = c]
    /\ UNCHANGED <<count, wait_queue, woken, fired, out>>

get(t) == \E c \in Amounts : Lock(t, "get", c)

wait(t) == Lock(t, "wait", 0)

get_cb(t) == \E c \in Amounts : Lock(t, "getcb", c)

Unlock(t, where) ==
    /\ lock' = NoThread
    /\ pc' = [pc EXCEPT ![t] = where]

\* The lock holder t is past the signal_first() of its call.
Holds(t, where) == lock = t /\ phase = "body" /\ pc[t] = where

MustQueue(c) == _should_wait(c) \/ wait_queue # <<>>

\* _wait(c) of a thread that may not proceed: it queues a waiter and blocks.
_wait_block(t, where) ==
    /\ MustQueue(want[t])
    /\ wait_queue' = Append(wait_queue, CvWaiter(t))
    /\ Unlock(t, where)
    /\ UNCHANGED <<count, max, phase, want, woken, fired, out>>

get_block(t) == Holds(t, "get") /\ _wait_block(t, "blocked")

wait_block(t) == Holds(t, "wait") /\ _wait_block(t, "waiting0")

\* get() without waiting: count.add(c).
get_now(t) ==
    /\ Holds(t, "get")
    /\ ~MustQueue(want[t])
    /\ count' = count + want[t]
    /\ out' = out + want[t]
    /\ Unlock(t, "idle")
    /\ UNCHANGED <<max, wait_queue, phase, want, woken, fired>>

wait_now(t) ==
    /\ Holds(t, "wait")
    /\ ~MustQueue(0)
    /\ Unlock(t, "idle")
    /\ UNCHANGED <<count, max, wait_queue, phase, want, woken, fired, out>>

\* get(cb, arg, c): _wait(c, cb, arg) adds c to count on both of its paths.
get_cb_wait(t, r) ==
    /\ Holds(t, "getcb")
    /\ fired[r] = "none"
    /\ count' = count + want[t]
    /\ IF MustQueue(want[t])
       THEN /\ wait_queue' = Append(wait_queue, CbWaiter(r, want[t]))
            /\ fired' = [fired EXCEPT ![r] = "queued"]
            /\ UNCHANGED out
       ELSE /\ fired' = [fired EXCEPT ![r] = "granted"]
            /\ out' = out + want[t]
            /\ UNCHANGED wait_queue
    /\ Unlock(t, "idle")
    /\ UNCHANGED <<max, phase, want, woken>>

\* One turn of the loop of signal_first: wake the thread at the head, or
\* complete the callback request at the head and look at the next one.
signal_first ==
    /\ phase = "signalling"
    /\ \/ /\ wait_queue = <<>>
          /\ phase' = "body"
          /\ UNCHANGED <<count, wait_queue, woken, fired, out>>
       \/ /\ wait_queue # <<>>
          /\ Head(wait_queue).kind = "cv"
          /\ woken' = woken \cup {Head(wait_queue).who}
          /\ phase' = "body"
          /\ UNCHANGED <<count, wait_queue, fired, out>>
       \/ /\ wait_queue # <<>>
          /\ Head(wait_queue).kind = "cb"
          /\ IF _should_wait(Head(wait_queue).c)
             THEN /\ phase' = "body"
                  /\ UNCHANGED <<count, wait_queue, fired, out>>
             ELSE /\ count' = count + Head(wait_queue).c
                  /\ wait_queue' = Tail(wait_queue)
                  /\ fired' = [fired EXCEPT ![Head(wait_queue).who] = "granted"]
                  /\ out' = out + Head(wait_queue).c
                  /\ UNCHANGED phase
          /\ UNCHANGED woken
    /\ UNCHANGED <<max, lock, pc, want>>

\* Mutant: a woken thread only checks that it is first in line.
MayLeave_unchecked(t) ==
    wait_queue # <<>> /\ Head(wait_queue) = CvWaiter(t)

\* The test at the bottom of the loop of _wait(c).
MayLeave(t) ==
    /\ ~_should_wait(want[t])
    /\ wait_queue # <<>>
    /\ Head(wait_queue) = CvWaiter(t)

\* A woken thread has the lock again, and blocks again if it may not leave.
_wait_again(t) ==
    /\ lock = NoThread
    /\ pc[t] \in {"blocked", "waiting0"}
    /\ t \in woken
    /\ ~MayLeave(t)
    /\ woken' = woken \ {t}
    /\ UNCHANGED <<count, max, wait_queue, lock, phase, pc, want, fired,
                   out>>

\* Mutant: a thread that leaves the queue does not wake the next one.
_wait_leave_silent(t) ==
    /\ lock = NoThread
    /\ pc[t] \in {"blocked", "waiting0"}
    /\ t \in woken
    /\ MayLeave(t)
    /\ wait_queue' = Tail(wait_queue)
    /\ woken' = woken \ {t}
    /\ lock' = t
    /\ pc' = [pc EXCEPT ![t] = IF @ = "blocked" THEN "got" ELSE "waited"]
    /\ UNCHANGED <<count, max, phase, want, fired, out>>

\* ... or leaves the queue and wakes up the next guy.
_wait_leave(t) ==
    /\ lock = NoThread
    /\ pc[t] \in {"blocked", "waiting0"}
    /\ t \in woken
    /\ MayLeave(t)
    /\ wait_queue' = Tail(wait_queue)
    /\ woken' = woken \ {t}
    /\ lock' = t
    /\ phase' = "signalling"
    /\ pc' = [pc EXCEPT ![t] = IF @ = "blocked" THEN "got" ELSE "waited"]
    /\ UNCHANGED <<count, max, want, fired, out>>

\* pthread_cond_wait may return without a signal.
SpuriousWakeup(t) ==
    /\ pc[t] \in {"blocked", "waiting0"}
    /\ t \notin woken
    /\ woken' = woken \cup {t}
    /\ UNCHANGED <<count, max, wait_queue, lock, phase, pc, want, fired,
                   out>>

\* Mutant: a get() that waited forgets to add its c.
get_done_uncounted(t) ==
    /\ Holds(t, "got")
    /\ out' = out + want[t]
    /\ Unlock(t, "idle")
    /\ UNCHANGED <<count, max, wait_queue, phase, want, woken, fired>>

\* Back in get() or wait() after _wait: only get() adds its c.
get_done(t) ==
    /\ Holds(t, "got")
    /\ count' = count + want[t]
    /\ out' = out + want[t]
    /\ Unlock(t, "idle")
    /\ UNCHANGED <<max, wait_queue, phase, want, woken, fired>>

wait_done(t) ==
    /\ Holds(t, "waited")
    /\ Unlock(t, "idle")
    /\ UNCHANGED <<count, max, wait_queue, phase, want, woken, fired, out>>

take(t) ==
    /\ CanLock
    /\ pc[t] = "idle"
    /\ count < TakeBound
    /\ \E c \in TakeAmounts : count' = count + c /\ out' = out + c
    /\ UNCHANGED <<max, wait_queue, lock, phase, pc, want, woken, fired>>

\* A call of get_or_fail that fails changes nothing.
get_or_fail(t) ==
    /\ CanLock
    /\ pc[t] = "idle"
    /\ \E c \in Amounts :
          /\ ~MustQueue(c)
          /\ count' = count + c
          /\ out' = out + c
    /\ UNCHANGED <<max, wait_queue, lock, phase, pc, want, woken, fired>>

\* Mutant: put() wakes nobody.
put_silent(t) ==
    /\ CanLock
    /\ pc[t] = "idle"
    /\ \E c \in Amounts \cup TakeAmounts :
          /\ c <= out
          /\ count' = count - c
          /\ out' = out - c
    /\ lock' = t
    /\ pc' = [pc EXCEPT ![t] = "put"]
    /\ UNCHANGED <<max, wait_queue, phase, want, woken, fired>>

\* Callers give back what they hold, in any portion that was ever granted.
put(t) ==
    /\ CanLock
    /\ pc[t] = "idle"
    /\ \E c \in Amounts \cup TakeAmounts :
          /\ c <= out
          /\ count' = count - c
          /\ out' = out - c
    /\ lock' = t
    /\ phase' = "signalling"
    /\ pc' = [pc EXCEPT ![t] = "put"]
    /\ UNCHANGED <<max, wait_queue, want, woken, fired>>

put_done(t) ==
    /\ Holds(t, "put")
    /\ Unlock(t, "idle")
    /\ UNCHANGED <<count, max, wait_queue, phase, want, woken, fired, out>>

\* ~Throttle: callers may destroy it only when no thread is inside; requests
\* that are still queued are aborted.
Destroy ==
    /\ phase # "destroyed"
    /\ \A t \in Threads : pc[t] = "idle"
    /\ phase' = "destroyed"
    /\ wait_queue' = <<>>
    /\ fired' = [r \in Requests |-> IF fired[r] = "queued" THEN "aborted"
                                                           ELSE fired[r]]
    /\ UNCHANGED <<count, max, lock, pc, want, woken, out>>

-----------------------------------------------------------------------------
Inside(t) ==
    \/ get_block(t) \/ get_now(t) \/ wait_block(t) \/ wait_now(t)
    \/ \E r \in Requests : get_cb_wait(t, r)
    \/ _wait_again(t) \/ _wait_leave(t) \/ get_done(t) \/ wait_done(t)
    \/ put_done(t)

Call(t) ==
    \/ get(t) \/ wait(t) \/ take(t) \/ get_or_fail(t) \/ put(t)
    \/ (\E r \in Requests : fired[r] = "none") /\ get_cb(t)

Next ==
    \/ signal_first
    \/ \E t \in Threads : Inside(t) \/ Call(t) \/ SpuriousWakeup(t)
    \/ Destroy

Spec == Init /\ [][Next]_vars

\* A thread inside a call goes on: the mutex is granted in the end to a thread
\* that keeps asking for it.  Units that were granted are given back sooner or
\* later, by a thread that is not itself blocked in the throttle (a message
\* returns its units when the dispatch thread drops it).
Fairness ==
    /\ WF_vars(signal_first)
    /\ \A t \in Threads : SF_vars(Inside(t))
    /\ SF_vars(\E t \in Threads \ Getters : put(t))

FairSpec == Spec /\ Fairness

-----------------------------------------------------------------------------
TypeOK ==
    /\ count \in Nat
    /\ max \in Nat
    /\ wait_queue \in Seq(Waiters)
    /\ lock \in Threads \cup {NoThread}
    /\ phase \in {"body", "signalling", "destroyed"}
    /\ pc \in [Threads -> PCs]
    /\ want \in [Threads -> Nat]
    /\ woken \subseteq Threads
    /\ fired \in [Requests -> {"none", "queued", "granted", "aborted"}]
    /\ out \in Nat

\* The assertion of put(), "if count goes negative, we failed somewhere!":
\* callers that return no more than they were granted never trip it.
PutNeverAsserts == count >= out

\* No callback request was ever made.
OnlyBlocking == \A r \in Requests : fired[r] = "none"

\* count covers what callers hold, so that put() never asserts, and as long as
\* only blocking calls are made it is just that: nothing is counted twice or kept.
CountAccounted == PutNeverAsserts /\ (OnlyBlocking => count = out)

\* A waiter that really has to wait, or a thread that is already woken.
Settled(w) ==
    IF w.kind = "cv" THEN w.who \in woken \/ _should_wait(want[w.who])
                     ELSE _should_wait(w.c)

\* No lost wakeup: whenever no signal_first() is under way, the waiter at the
\* head of the queue really has to wait, or is a thread already woken.
NoLostWakeup ==
    phase # "signalling" /\ wait_queue # <<>> => Settled(Head(wait_queue))

\* Among blocking callers a grant keeps count under max, except that an amount as large as max is let
\* through when count is not above max ("normally stay under max", "except for
\* large c"), however the limit changed while the caller slept.
LimitRespected ==
    [][count' > count /\ OnlyBlocking' /\ ~(\E t \in Threads : take(t)) =>
          \/ count' <= max
          \/ count <= max /\ count' - count >= max]_vars

\* A blocked thread is served when units keep coming back, unless take(), which
\* asks nobody, goes on for ever, or a callback request, which is counted
\* twice, blocks the queue.
EveryWaiterServed ==
    \/ []<><<\E t \in Threads : take(t)>>_vars
    \/ \A t \in Threads :
          pc[t] \in {"blocked", "waiting0"} ~> pc[t] = "idle" \/ ~OnlyBlocking
=============================================================================
