------------------------- MODULE DispatchQueueProofs -------------------------
(***************************************************************************)
(* Theorems about DispatchQueue, for every number of connections,          *)
(* priorities, messages and resets.                                        *)
(***************************************************************************)
EXTENDS DispatchQueue, SubsequencesProofs

\* The order of AsyncMessenger::shutdown(): the connections are stopped before
\* the local thread is, that one before the dispatch thread, and a thread ends
\* only when its queue is empty.
StopOrder ==
    /\ down \notin {"no", "marked"} => Barrier
    /\ stop_local = "yes" => down = "joining"
    /\ local = "end" => down \in {"joining", "done"} /\ local_messages = <<>>
    /\ stop = "yes" => down = "done" /\ local = "end"
    /\ thread = "end" => stop = "yes" /\ Empty

\* The entries of a queue, and of all of them.
Entries(q) == {q[k] : k \in DOMAIN q}

Queued == Entries(queue) \cup UNION {Entries(high_queue[p]) : p \in High}

\* What the dispatch thread holds, if anything, and what waits for it.
Pending == Queued \cup (IF item.kind = "none" THEN {} ELSE {item})

\* x may be handled before y: notices of one connection follow the order of
\* its life.
NoticeBefore(x, y) ==
    x.con = y.con =>
        /\ y.kind # "accept"
        /\ x.kind = "reset" => y.kind # "reset"
        /\ x.kind = "remote_reset" /\ y.kind = "remote_reset" => x.epoch < y.epoch

\* ... and in one queue messages follow their numbers, and a session's reset
\* does not follow a message of it.
Before(x, y) ==
    /\ NoticeBefore(x, y)
    /\ x.con = y.con /\ x.kind = "msg" =>
          /\ y.kind = "msg" => x.num < y.num
          /\ x.con # Loopback => y.kind # "remote_reset"

Ordered(q) == \A i, j \in DOMAIN q : i < j => Before(q[i], q[j])

\* Each item is in the queue of its priority, in order.
Lines ==
    /\ \A k \in DOMAIN queue : queue[k].prio < LOW
    /\ \A p \in High : \A k \in DOMAIN high_queue[p] : high_queue[p][k].prio = p
    /\ Ordered(queue)
    /\ \A p \in High : Ordered(high_queue[p])

\* Connection c has given number n to a message, and every message on its way
\* to the queue has a higher one.
Past(c, n) ==
    IF c = Loopback
    THEN /\ n <= locals
         /\ local = "deliver" => n < local_item.num
         /\ \A k \in DOMAIN local_messages : n < local_messages[k].num
    ELSE n <= conn[c].num

\* The numbers of messages: the application has seen lower ones only, each is
\* used once, and the message taken is no longer queued and comes first.
NumbersPast ==
    \A x \in Pending : x.kind = "msg" =>
        Past(x.con, x.num) /\ seen[x.con].last[x.prio] < x.num

NumbersUnique ==
    \A x, y \in Pending :
        x.kind = "msg" /\ y.kind = "msg" /\ x.con = y.con /\ x.num = y.num => x = y

ItemFirst ==
    /\ item \notin Queued
    /\ \A y \in Queued :
          item.kind = "msg" /\ y.kind = "msg" /\ y.con = item.con /\ y.prio = item.prio
             => item.num < y.num

SeenPast ==
    \A c \in Conns \cup {Loopback}, p \in Prios : Past(c, seen[c].last[p])

Numbered == NumbersPast /\ NumbersUnique /\ ItemFirst /\ SeenPast

\* The messages on their way from LocalConnection to the queue.
LocalOrder ==
    /\ local = "deliver" =>
          /\ local_item.kind = "msg" /\ local_item.con = Loopback
          /\ local_item.num \in 1 .. locals
          /\ \A k \in DOMAIN local_messages : local_item.num < local_messages[k].num
    /\ \A k \in DOMAIN local_messages :
          /\ local_messages[k].kind = "msg" /\ local_messages[k].con = Loopback
          /\ local_messages[k].num \in 1 .. locals
    /\ \A i, j \in DOMAIN local_messages :
          i < j => local_messages[i].num < local_messages[j].num

\* The session of c the application was told of or will be.
Announced(c) ==
    IF conn[c].state = "resetting" THEN conn[c].epoch - 1 ELSE conn[c].epoch

\* What the pending notices of a connection say of it.
NoticesFit ==
    /\ thread = "deliver" <=> item.kind # "none"
    /\ \A x \in Pending : x.kind # "msg" => x.prio = HIGHEST
    /\ \A x \in Pending : x.con # Loopback => conn[x.con].state # "new"
    /\ \A x \in Pending : x.kind = "accept" =>
          x.con # Loopback /\ seen[x.con].told = "new"
    /\ \A x \in Pending : x.kind = "reset" /\ x.con # Loopback =>
          conn[x.con].state = "closed"
    /\ \A x \in Pending : x.kind = "reset" /\ x.con = Loopback =>
          down \notin {"no", "marked"}
    /\ \A x \in Pending : x.kind = "remote_reset" =>
          /\ x.con # Loopback
          /\ seen[x.con].epoch < x.epoch /\ x.epoch <= Announced(x.con)
    /\ \A x \in Queued : x.kind = "msg" /\ x.con # Loopback =>
          conn[x.con].state = "open" /\ x.epoch = conn[x.con].epoch
    /\ item.kind # "none" => \A y \in Queued : NoticeBefore(item, y)

\* The notices the application was not given yet are pending.
NoticesKept ==
    /\ \A c \in Conns :
          /\ conn[c].state = "new" => seen[c].told = "new"
          /\ seen[c].told = "closed" => conn[c].state = "closed"
          /\ conn[c].state = "resetting" => conn[c].epoch > 0
          /\ seen[c].told = "new" /\ conn[c].state # "new" =>
                \E x \in Pending : x.kind = "accept" /\ x.con = c
          /\ conn[c].state = "closed" /\ seen[c].told # "closed" =>
                \E x \in Pending : x.kind = "reset" /\ x.con = c
          /\ \A e \in seen[c].epoch + 1 .. Announced(c) :
                \E x \in Pending : x.kind = "remote_reset" /\ x.con = c /\ x.epoch = e
          /\ seen[c].epoch <= Announced(c)
    /\ seen[Loopback].told # "new"
    /\ down \notin {"no", "marked"} /\ seen[Loopback].told # "closed" =>
          \E x \in Pending : x.kind = "reset" /\ x.con = Loopback

-----------------------------------------------------------------------------
(***************************************************************************)
(* What the operations do to the queues.                                   *)
(***************************************************************************)
\* No item comes before itself.
LEMMA BeforeIrreflexive ==
    ASSUME NEW x \in Items
    PROVE  ~ Before(x, x)
BY DEF Items, Before, NoticeBefore

\* Appending an item that every queued item comes before.
LEMMA AppendOrdered ==
    ASSUME NEW q \in Seq(Items), Ordered(q), NEW x \in Items,
           \A y \in Entries(q) : Before(y, x)
    PROVE  /\ Append(q, x) \in Seq(Items)
           /\ Ordered(Append(q, x))
           /\ Entries(Append(q, x)) = Entries(q) \cup {x}
<1> DEFINE r == Append(q, x)
<1>1. /\ r \in Seq(Items) /\ Len(q) \in Nat
      /\ DOMAIN q = 1 .. Len(q) /\ DOMAIN r = 1 .. Len(q) + 1
      /\ r[Len(q) + 1] = x
      /\ \A k \in 1 .. Len(q) : r[k] = q[k]
  OBVIOUS
<1> HIDE DEF r
<1>2. \A k \in 1 .. Len(q) + 1 : k \in 1 .. Len(q) \/ k = Len(q) + 1
  BY <1>1
<1>3. Entries(r) = Entries(q) \cup {x}
  BY <1>1, <1>2 DEF Entries
<1>4. ASSUME NEW i \in DOMAIN r, NEW j \in DOMAIN r, i < j
      PROVE  Before(r[i], r[j])
  <2>1. i \in DOMAIN q /\ r[i] = q[i]
    BY <1>1, <1>4
  <2>2. CASE j = Len(q) + 1
    BY <1>1, <2>1, <2>2 DEF Entries
  <2>3. CASE j \in DOMAIN q
    BY <1>1, <1>4, <2>1, <2>3 DEF Ordered
  <2> QED
    BY <1>1, <1>2, <2>2, <2>3
<1> QED
  BY <1>1, <1>3, <1>4 DEF Ordered, r

\* Taking the first item, which comes before the others.
LEMMA TailOrdered ==
    ASSUME NEW q \in Seq(Items), Ordered(q), q # <<>>
    PROVE  /\ Head(q) \in Items /\ Tail(q) \in Seq(Items)
           /\ Ordered(Tail(q))
           /\ Entries(q) = Entries(Tail(q)) \cup {Head(q)}
           /\ \A y \in Entries(Tail(q)) : Before(Head(q), y)
<1> DEFINE r == Tail(q)
<1>1. /\ r \in Seq(Items) /\ Len(q) \in Nat /\ Len(q) > 0
      /\ DOMAIN q = 1 .. Len(q) /\ DOMAIN r = 1 .. Len(q) - 1
      /\ \A k \in 1 .. Len(q) - 1 : r[k] = q[k + 1]
      /\ Head(q) = q[1] /\ Head(q) \in Items
  OBVIOUS
<1> HIDE DEF r
<1>2. \A k \in DOMAIN r : k + 1 \in DOMAIN q /\ 1 < k + 1 /\ r[k] = q[k + 1]
  BY <1>1
<1>3. \A k \in DOMAIN q : k = 1 \/ (k - 1 \in DOMAIN r /\ r[k - 1] = q[k])
  BY <1>1
<1>4. 1 \in DOMAIN q
  BY <1>1
<1>5. Entries(q) = Entries(r) \cup {Head(q)}
  <2>1. ASSUME NEW y \in Entries(q) PROVE y \in Entries(r) \cup {Head(q)}
    BY <1>1, <1>3, <2>1 DEF Entries
  <2>2. ASSUME NEW y \in Entries(r) PROVE y \in Entries(q)
    BY <1>2, <2>2 DEF Entries
  <2>3. Head(q) \in Entries(q)
    BY <1>1, <1>4 DEF Entries
  <2> QED
    BY <2>1, <2>2, <2>3
<1>6. ASSUME NEW y \in Entries(r) PROVE Before(Head(q), y)
  BY <1>1, <1>2, <1>4, <1>6 DEF Entries, Ordered
<1>7. ASSUME NEW i \in DOMAIN r, NEW j \in DOMAIN r, i < j
      PROVE  Before(r[i], r[j])
  <2>1. i + 1 < j + 1
    BY <1>1, <1>7
  <2> QED
    BY <1>2, <2>1 DEF Ordered
<1> QED
  BY <1>1, <1>5, <1>6, <1>7 DEF Ordered, r

\* remove_by_class() keeps the order of the others.
LEMMA NotOfClassOrdered ==
    ASSUME NEW q \in Seq(Items), Ordered(q), NEW id
    PROVE  /\ NotOfClass(q, id) \in Seq(Items)
           /\ Ordered(NotOfClass(q, id))
           /\ Entries(NotOfClass(q, id)) = {x \in Entries(q) : Class(x) # id}
<1> DEFINE K == {k \in DOMAIN q : Class(q[k]) # id}
           r == NotOfClass(q, id)
<1>1. r = Keep(q, K)
  BY DEF NotOfClass
<1>2. /\ r \in Seq(Items)
      /\ \E f \in [DOMAIN r -> K] :
            Enumerates(f, K) /\ \A i \in DOMAIN r : r[i] = q[f[i]]
  <2>1. K \in SUBSET DOMAIN q
    OBVIOUS
  <2> HIDE DEF K, r
  <2> QED
    BY <1>1, <2>1, KeepProperties
<1>3. PICK f \in [DOMAIN r -> K] :
         Enumerates(f, K) /\ \A i \in DOMAIN r : r[i] = q[f[i]]
  BY <1>2
<1>4. /\ DOMAIN f = DOMAIN r
      /\ \A i \in DOMAIN r : f[i] \in DOMAIN q /\ Class(q[f[i]]) # id
      /\ \A i, j \in DOMAIN r : i < j => f[i] < f[j]
      /\ \A k \in DOMAIN q : Class(q[k]) # id => \E i \in DOMAIN r : f[i] = k
  BY <1>3 DEF Enumerates
<1> HIDE DEF K, r
<1>5. Ordered(r)
  BY <1>3, <1>4 DEF Ordered
<1>6. Entries(r) = {x \in Entries(q) : Class(x) # id}
  <2>1. ASSUME NEW x \in Entries(r) PROVE x \in Entries(q) /\ Class(x) # id
    <3>1. PICK i \in DOMAIN r : x = r[i]
      BY <2>1 DEF Entries
    <3> QED
      BY <1>3, <1>4, <3>1 DEF Entries
  <2>2. ASSUME NEW x \in Entries(q), Class(x) # id PROVE x \in Entries(r)
    <3>1. PICK k \in DOMAIN q : x = q[k]
      BY <2>2 DEF Entries
    <3>2. PICK i \in DOMAIN r : f[i] = k
      BY <1>4, <2>2, <3>1
    <3> QED
      BY <1>3, <3>1, <3>2 DEF Entries
  <2> QED
    BY <2>1, <2>2
<1> QED
  BY <1>2, <1>5, <1>6 DEF r

\* The queues hold items.
QueueTypes == high_queue \in [High -> Seq(Items)] /\ queue \in Seq(Items)

\* Enqueue(x) adds x, when every queued item comes before it.
LEMMA EnqueueEffect ==
    ASSUME QueueTypes, Lines, NEW x \in Items, Enqueue(x),
           \A y \in Queued : Before(y, x)
    PROVE  QueueTypes' /\ Lines' /\ Queued' = Queued \cup {x}
<1>1. CASE x.prio >= LOW
  <2> DEFINE p == x.prio
             q == Append(high_queue[p], x)
  <2>1. p \in High /\ high_queue[p] \in Seq(Items) /\ Ordered(high_queue[p])
    BY <1>1 DEF High, Items, QueueTypes, Lines
  <2>2. \A y \in Entries(high_queue[p]) : Before(y, x)
    BY <2>1 DEF Queued
  <2>3. q \in Seq(Items) /\ Ordered(q) /\ Entries(q) = Entries(high_queue[p]) \cup {x}
    BY <2>1, <2>2, AppendOrdered
  <2>4. queue' = queue /\ high_queue' = [high_queue EXCEPT ![p] = q]
    BY <1>1 DEF Enqueue
  <2>5. /\ high_queue' \in [High -> Seq(Items)]
        /\ high_queue'[p] = q
        /\ \A r \in High : r # p => high_queue'[r] = high_queue[r]
    BY <2>1, <2>3, <2>4 DEF QueueTypes
  <2>6. \A k \in DOMAIN q : q[k].prio = p
    BY <2>1, <2>3 DEF Lines, Entries
  <2> HIDE DEF p, q
  <2>7. Lines'
    BY <2>1, <2>3, <2>4, <2>5, <2>6 DEF Lines
  <2>8. Queued' = Queued \cup {x}
    <3>1. \A r \in High : Entries(high_queue'[r]) =
             IF r = p THEN Entries(high_queue[p]) \cup {x} ELSE Entries(high_queue[r])
      BY <2>3, <2>5
    <3> QED
      BY <2>1, <2>4, <3>1 DEF Queued
  <2> QED
    BY <2>4, <2>5, <2>7, <2>8 DEF QueueTypes
<1>2. CASE ~ (x.prio >= LOW)
  <2> DEFINE q == Append(queue, x)
  <2>1. queue \in Seq(Items) /\ Ordered(queue)
    BY DEF QueueTypes, Lines
  <2>2. \A y \in Entries(queue) : Before(y, x)
    BY DEF Queued
  <2>3. q \in Seq(Items) /\ Ordered(q) /\ Entries(q) = Entries(queue) \cup {x}
    BY <2>1, <2>2, AppendOrdered
  <2>4. queue' = q /\ high_queue' = high_queue
    BY <1>2 DEF Enqueue
  <2>5. x.prio < LOW
    <3>1. x.prio \in Nat /\ LOW \in Nat
      BY ConstantsAssumption DEF Items
    <3> QED
      BY <1>2, <3>1
  <2>6. \A k \in DOMAIN q : q[k].prio < LOW
    BY <2>1, <2>3, <2>5 DEF Lines, Entries
  <2> HIDE DEF q
  <2> QED
    BY <2>3, <2>4, <2>6 DEF QueueTypes, Lines, Queued
<1> QED
  BY <1>1, <1>2

\* The greatest priority of a set of them.
LEMMA MaxPrio ==
    ASSUME NEW P \in SUBSET High, P # {}
    PROVE  Max(P) \in P /\ \A p \in P : p <= Max(P)
<1>1. P \subseteq Nat /\ HIGHEST \in Nat /\ \A p \in P : p <= HIGHEST
  BY ConstantsAssumption DEF High
<1>2. \E n \in P : \A m \in P : m <= n
  BY <1>1, GreatestNatural
<1>3. \E n \in P : \A m \in P : n >= m
  BY <1>1, <1>2
<1> QED
  BY <1>1, <1>3 DEF Max

\* dequeue takes an item that comes before all of its priority, and a notice
\* before any message of another priority.
LEMMA DequeueEffect ==
    ASSUME QueueTypes, Lines, dequeue
    PROVE  /\ QueueTypes' /\ Lines' /\ item' \in Items
           /\ Queued = Queued' \cup {item'} /\ item' \notin Queued'
           /\ \A y \in Queued' :
                 y.prio \in {item'.prio, HIGHEST} => Before(item', y)
<1> DEFINE P == {p \in High : high_queue[p] # <<>>}
<1>1. CASE P # {}
  <2> DEFINE p == Max(P)
             q == high_queue[p]
  <2>1. p \in High /\ q # <<>> /\ \A r \in High : high_queue[r] # <<>> => r <= p
    <3>1. P \in SUBSET High
      OBVIOUS
    <3>2. p \in P /\ \A r \in P : r <= p
      BY <1>1, <3>1, MaxPrio
    <3> QED
      BY <3>2
  <2>2. item' = Head(q) /\ high_queue' = [high_queue EXCEPT ![p] = Tail(q)]
        /\ queue' = queue
    BY <1>1 DEF dequeue
  <2> HIDE DEF P, p
  <2>3. q \in Seq(Items) /\ Ordered(q)
    BY <2>1 DEF QueueTypes, Lines
  <2>4. /\ Head(q) \in Items /\ Tail(q) \in Seq(Items)
        /\ Ordered(Tail(q))
        /\ Entries(q) = Entries(Tail(q)) \cup {Head(q)}
        /\ \A y \in Entries(Tail(q)) : Before(Head(q), y)
    BY <2>1, <2>3, TailOrdered
  <2>5. /\ high_queue' \in [High -> Seq(Items)]
        /\ high_queue'[p] = Tail(q)
        /\ \A r \in High : r # p => high_queue'[r] = high_queue[r]
    BY <2>1, <2>2, <2>4 DEF QueueTypes
  <2>6. \A y \in Entries(q) : y.prio = p
    BY <2>1 DEF Lines, Entries
  <2>7. \A r \in High : Entries(high_queue[r]) =
           IF r = p THEN Entries(high_queue'[p]) \cup {item'}
           ELSE Entries(high_queue'[r])
    BY <2>1, <2>2, <2>4, <2>5
  <2>8. Queued = Queued' \cup {item'}
    BY <2>1, <2>2, <2>7 DEF Queued
  <2>9. Lines'
    <3>1. \A k \in DOMAIN Tail(q) : Tail(q)[k].prio = p
      BY <2>4, <2>6 DEF Entries
    <3> QED
      BY <2>1, <2>2, <2>4, <2>5, <3>1 DEF Lines
  <2>10. item'.prio = p
    BY <2>2, <2>4, <2>6
  <2>11. p \in Nat /\ p >= LOW /\ LOW \in Nat /\ HIGHEST \in High
    BY <2>1, ConstantsAssumption DEF High
  <2>12. ASSUME NEW y \in Queued', y.prio = p PROVE Before(item', y)
    <3>1. CASE y \in Entries(queue')
      BY <2>2, <2>11, <2>12, <3>1 DEF Lines, Entries
    <3>2. CASE \E r \in High : y \in Entries(high_queue'[r])
      <4>1. PICK r \in High : y \in Entries(high_queue'[r])
        BY <3>2
      <4>2. r = p
        BY <2>9, <2>12, <4>1 DEF Lines, Entries
      <4> QED
        BY <2>2, <2>4, <2>5, <4>1, <4>2
    <3> QED
      BY <3>1, <3>2 DEF Queued
  <2>13. ASSUME NEW y \in Queued', y.prio = HIGHEST PROVE y.prio = p
    <3>1. y \in Entries(high_queue[HIGHEST])
      <4>1. y \in Queued
        BY <2>8
      <4>2. y \notin Entries(queue)
        BY <2>13, <2>11, ConstantsAssumption DEF Lines, Entries
      <4>3. PICK r \in High : y \in Entries(high_queue[r])
        BY <4>1, <4>2 DEF Queued
      <4> QED
        BY <2>13, <4>3 DEF Lines, Entries
    <3>2. high_queue[HIGHEST] # <<>>
      BY <3>1 DEF Entries
    <3> QED
      BY <2>1, <2>11, <2>13, <3>2, ConstantsAssumption DEF High
  <2>14. \A y \in Queued' : y.prio \in {item'.prio, HIGHEST} => Before(item', y)
    BY <2>10, <2>12, <2>13
  <2>15. item' \notin Queued'
    BY <2>2, <2>4, <2>14, BeforeIrreflexive
  <2> QED
    BY <2>2, <2>4, <2>5, <2>8, <2>9, <2>14, <2>15 DEF QueueTypes
<1>2. CASE P = {}
  <2>1. \A r \in High : high_queue[r] = <<>>
    BY <1>2
  <2>2. queue # <<>> /\ item' = Head(queue) /\ queue' = Tail(queue)
        /\ high_queue' = high_queue
    BY <1>2, <2>1 DEF dequeue, Empty
  <2> HIDE DEF P
  <2>3. queue \in Seq(Items) /\ Ordered(queue)
    BY DEF QueueTypes, Lines
  <2>4. /\ Head(queue) \in Items /\ Tail(queue) \in Seq(Items)
        /\ Ordered(Tail(queue))
        /\ Entries(queue) = Entries(Tail(queue)) \cup {Head(queue)}
        /\ \A y \in Entries(Tail(queue)) : Before(Head(queue), y)
    BY <2>2, <2>3, TailOrdered
  <2>5. \A r \in High : Entries(high_queue[r]) = {}
    BY <2>1 DEF Entries
  <2>6. Queued = Entries(queue) /\ Queued' = Entries(Tail(queue))
    BY <2>2, <2>5 DEF Queued
  <2>7. \A k \in DOMAIN Tail(queue) : Tail(queue)[k].prio < LOW
    BY <2>4 DEF Lines, Entries
  <2>8. Lines'
    BY <2>2, <2>4, <2>7 DEF Lines
  <2>9. item' \notin Queued'
    BY <2>2, <2>4, <2>6, BeforeIrreflexive
  <2> QED
    BY <2>2, <2>4, <2>6, <2>8, <2>9 DEF QueueTypes
<1> QED
  BY <1>1, <1>2

\* discard_queue(id) removes the messages of connection id.
LEMMA DiscardEffect ==
    ASSUME QueueTypes, Lines, NEW id, discard_queue(id)
    PROVE  QueueTypes' /\ Lines' /\ Queued' = {x \in Queued : Class(x) # id}
<1>1. /\ queue' = NotOfClass(queue, id)
      /\ high_queue' = [p \in High |-> NotOfClass(high_queue[p], id)]
  BY DEF discard_queue
<1>2. /\ queue' \in Seq(Items) /\ Ordered(queue')
      /\ Entries(queue') = {x \in Entries(queue) : Class(x) # id}
  BY <1>1, NotOfClassOrdered DEF QueueTypes, Lines
<1>3. \A p \in High :
        /\ high_queue'[p] \in Seq(Items) /\ Ordered(high_queue'[p])
        /\ Entries(high_queue'[p]) = {x \in Entries(high_queue[p]) : Class(x) # id}
  BY <1>1, NotOfClassOrdered DEF QueueTypes, Lines
<1>4. QueueTypes'
  BY <1>1, <1>2, <1>3 DEF QueueTypes
<1>5. \A k \in DOMAIN queue' : queue'[k].prio < LOW
  BY <1>2 DEF Lines, Entries
<1>6. \A p \in High : \A k \in DOMAIN high_queue'[p] : high_queue'[p][k].prio = p
  <2> SUFFICES ASSUME NEW p \in High, NEW k \in DOMAIN high_queue'[p]
               PROVE  high_queue'[p][k].prio = p
    OBVIOUS
  <2>1. high_queue'[p][k] \in Entries(high_queue[p])
    BY <1>3 DEF Entries
  <2> QED
    BY <2>1 DEF Lines, Entries
<1>7. Lines'
  BY <1>2, <1>3, <1>5, <1>6 DEF Lines
<1>8. Queued' = {x \in Queued : Class(x) # id}
  BY <1>2, <1>3 DEF Queued
<1> QED
  BY <1>4, <1>7, <1>8

-----------------------------------------------------------------------------
(***************************************************************************)
(* The inductive invariant, one lemma per action.                          *)
(***************************************************************************)
\* The messages of connections that are pending, by their ids.
PendingIds ==
    {Id(x) : x \in {y \in Pending : y.kind = "msg" /\ y.con # Loopback}}

\* One unit for each message of P, and none for any other.
Units(P) == [x \in MsgIds |-> IF x \in P THEN 1 ELSE 0]

\* Taking units for new messages, and returning those of messages that hold one.
LEMMA UnitsTaken ==
    ASSUME NEW P, NEW S, held = Units(P), P \cap S = {}
    PROVE  Taken(S) = Units(P \cup S)
BY DEF Units, Taken

LEMMA UnitsReturned ==
    ASSUME NEW P, NEW S, held = Units(P), S \cap MsgIds \subseteq P
    PROVE  Returned(S) = Units(P \ S)
BY DEF Units, Returned

LEMMA UnitsType == \A P : Units(P) \in [MsgIds -> Nat]
BY DEF Units

\* The ids of the messages of a sequence are those of its message entries.
LEMMA IdsInEntries ==
    ASSUME NEW q \in Seq(Items)
    PROVE  IdsIn(q) = {Id(x) : x \in {y \in Entries(q) : y.kind = "msg"}}
BY DEF IdsIn, Entries

\* What a queue of pending messages and the throttle have to do with each other.
LEMMA QueuedIdsForm ==
    ASSUME QueueTypes
    PROVE  QueuedIds = {Id(x) : x \in {y \in Queued : y.kind = "msg"}}
<1>1. IdsIn(queue) = {Id(x) : x \in {y \in Entries(queue) : y.kind = "msg"}}
  BY IdsInEntries DEF QueueTypes
<1>2. \A p \in High : IdsIn(high_queue[p]) =
         {Id(x) : x \in {y \in Entries(high_queue[p]) : y.kind = "msg"}}
  BY IdsInEntries DEF QueueTypes
<1> QED
  BY <1>1, <1>2 DEF QueuedIds, Queued

\* Conserved says that one unit is held for each pending message.
LEMMA ConservedForm == QueueTypes => (Conserved <=> held = Units(PendingIds))
<1> SUFFICES ASSUME QueueTypes PROVE Conserved <=> held = Units(PendingIds)
  OBVIOUS
<1> DEFINE pending == QueuedIds \cup (IF item.kind = "msg" THEN {Id(item)} ELSE {})
<1>1. QueuedIds = {Id(x) : x \in {y \in Queued : y.kind = "msg"}}
  BY QueuedIdsForm
<1>2. \A x : Id(x)[1] = x.con
  BY DEF Id
<1>3. {x \in pending : x[1] # Loopback} = PendingIds
  BY <1>1, <1>2 DEF PendingIds, Pending
<1>4. \A x \in MsgIds : x[1] # Loopback
  BY ConstantsAssumption DEF MsgIds, Loopback
<1>5. \A x \in MsgIds : x \in pending <=> x \in PendingIds
  BY <1>3, <1>4
<1>6. Conserved <=> held = [x \in MsgIds |-> IF x \in pending THEN 1 ELSE 0]
  BY DEF Conserved
<1> HIDE DEF pending
<1> QED
  BY <1>5, <1>6 DEF Units

\* The same after a step.
LEMMA ConservedFormPrimed ==
    (QueueTypes => (Conserved <=> held = Units(PendingIds)))'
BY ConservedForm, PTL

\* Everything pending is an item, of a connection or of the loopback.
LEMMA PendingItems ==
    ASSUME TypeOK
    PROVE  /\ Queued \subseteq Pending /\ Pending \subseteq Items
           /\ \A x \in Pending : x.con \in Conns \/ x.con = Loopback
<1>1. Queued \subseteq Items
  BY DEF TypeOK, ConnStates, SeenStates, Queued, Entries
<1>2. item.kind # "none" => item \in Items
  BY DEF TypeOK, ConnStates, SeenStates, NoItem
<1> QED
  BY <1>1, <1>2 DEF Pending, Items

\* The invariant but for the order of shutdown().
Rest ==
    /\ TypeOK /\ Lines /\ Numbered /\ LocalOrder
    /\ NoticesFit /\ NoticesKept /\ Fenced /\ Conserved

\* What no step but a few changes.
SameStates ==
    /\ \A c \in Conns : conn'[c].state = conn[c].state /\ conn'[c].epoch = conn[c].epoch
    /\ down \in {"no", "marked"} <=> down' \in {"no", "marked"}
    /\ thread = "deliver" <=> thread' = "deliver"

PastKept ==
    \A d \in Conns \cup {Loopback}, n \in Nat : Past(d, n) => Past(d, n)'

\* A step that leaves the queue, the item taken and the application alone.
LEMMA QuietStep ==
    ASSUME Rest, TypeOK', LocalOrder', SameStates, PastKept,
           UNCHANGED <<high_queue, queue, item, held, seen>>
    PROVE  Rest'
<1>1. Queued' = Queued /\ Pending' = Pending /\ item' = item /\ seen' = seen
  BY DEF Queued, Pending
<1>2. Queued \subseteq Pending /\ Pending \subseteq Items
      /\ \A x \in Pending : x.con \in Conns \/ x.con = Loopback
  BY PendingItems DEF Rest
<1>3. Lines'
  BY DEF Rest, Lines
<1>4. Conserved'
  BY DEF Rest, Conserved, QueuedIds
<1>5. Fenced'
  BY DEF Rest, Fenced, SameStates
<1>6. NoticesFit'
  BY <1>1, <1>2 DEF Rest, NoticesFit, SameStates, Announced
<1>7. NoticesKept'
  BY <1>1 DEF Rest, NoticesKept, SameStates, Announced
<1>8. NumbersPast'
  BY <1>1, <1>2 DEF Rest, Numbered, NumbersPast, PastKept, Items
<1>9. SeenPast'
  BY <1>1 DEF Rest, Numbered, SeenPast, PastKept, TypeOK, ConnStates, SeenStates
<1>10. NumbersUnique' /\ ItemFirst'
  BY <1>1 DEF Rest, Numbered, NumbersUnique, ItemFirst
<1> QED
  BY <1>3, <1>4, <1>5, <1>6, <1>7, <1>8, <1>9, <1>10 DEF Rest, Numbered

\* A message with a new number is queued.
LEMMA EnqueueMessage ==
    ASSUME Rest, NEW x \in Items, x.kind = "msg", Enqueue(x),
           QueueTypes' => TypeOK', LocalOrder', SameStates, PastKept,
           UNCHANGED <<item, seen>>,
           held' = IF x.con = Loopback THEN held ELSE Taken({Id(x)}),
           Past(x.con, x.num)', seen[x.con].last[x.prio] < x.num,
           \A y \in Pending : y.kind = "msg" /\ y.con = x.con => y.num < x.num,
           x.con # Loopback =>
              conn[x.con].state = "open" /\ x.epoch = conn[x.con].epoch
    PROVE  Rest'
<1>1. QueueTypes /\ Lines
  BY DEF Rest, TypeOK, ConnStates, SeenStates, QueueTypes
<1>2. Queued \subseteq Pending /\ Pending \subseteq Items
      /\ \A y \in Pending : y.con \in Conns \/ y.con = Loopback
  BY PendingItems DEF Rest
<1>3. x.con \in Conns \/ x.con = Loopback
  BY DEF Items
<1>4. \A y \in Queued : Before(y, x)
  BY <1>2 DEF Before, NoticeBefore
<1>5. QueueTypes' /\ Lines' /\ Queued' = Queued \cup {x}
  BY <1>1, <1>4, EnqueueEffect
<1>6. Pending' = Pending \cup {x}
  BY <1>5 DEF Pending
<1>7. x \notin Pending
  BY <1>2 DEF Items
<1>8. Conserved'
  <2>1. held = Units(PendingIds)
    BY <1>1, ConservedForm DEF Rest
  <2>2. PendingIds' = IF x.con = Loopback THEN PendingIds ELSE PendingIds \cup {Id(x)}
    BY <1>6 DEF PendingIds
  <2>3. x.con # Loopback => Id(x) \notin PendingIds
    <3> SUFFICES ASSUME NEW y \in Pending, y.kind = "msg", Id(y) = Id(x) PROVE FALSE
      BY DEF PendingIds
    <3>1. y.con = x.con /\ y.num = x.num
      BY DEF Id
    <3>2. y.num \in Nat /\ y.num < x.num
      BY <1>2, <3>1 DEF Items
    <3> QED
      BY <3>1, <3>2
  <2>4. held' = Units(PendingIds')
    <3>1. CASE x.con = Loopback
      BY <2>1, <2>2, <3>1
    <3>2. CASE x.con # Loopback
      <4>1. Taken({Id(x)}) = Units(PendingIds \cup {Id(x)})
        BY <2>1, <2>3, <3>2, UnitsTaken
      <4> QED
        BY <2>2, <3>2, <4>1
    <3> QED
      BY <3>1, <3>2
  <2>5. Units(PendingIds') = Units(PendingIds)'
    BY DEF Units, MsgIds
  <2> QED
    BY <1>5, <2>4, <2>5, ConservedFormPrimed
<1>9. Fenced'
  BY DEF Rest, Fenced, SameStates
<1>10. NoticesFit'
  BY <1>2, <1>3, <1>5, <1>6 DEF Rest, NoticesFit, NoticeBefore, Announced, SameStates
<1>11. NoticesKept'
  BY <1>6 DEF Rest, NoticesKept, Announced, SameStates
<1>12. \A y \in Pending : y.kind = "msg" =>
          Past(y.con, y.num)' /\ seen'[y.con].last[y.prio] < y.num
  BY <1>2 DEF Rest, Numbered, NumbersPast, Items, PastKept
<1>13. NumbersPast'
  BY <1>6, <1>12 DEF NumbersPast
<1>14. SeenPast'
  BY DEF Rest, Numbered, SeenPast, TypeOK, ConnStates, SeenStates, PastKept
<1>15. ItemFirst'
  BY <1>5, <1>7 DEF Rest, Numbered, ItemFirst, Pending
<1>16. NumbersUnique'
  BY <1>2, <1>6 DEF Rest, Numbered, NumbersUnique, Items
<1> QED
  BY <1>5, <1>8, <1>9, <1>10, <1>11, <1>13, <1>14, <1>15, <1>16 DEF Rest, Numbered

\* A message is received.
LEMMA ReceiveStep ==
    ASSUME Rest, NEW c \in Conns, NEW p \in Prios, receive(c, p)
    PROVE  Rest'
<1>1. c # Loopback /\ conn[c].num \in Nat /\ conn[c].epoch \in Nat
  BY ConstantsAssumption DEF Loopback, Rest, TypeOK, ConnStates, SeenStates
<1>2. PICK x : x = Msg(c, p, conn[c].num + 1, conn[c].epoch)
  OBVIOUS
<1>3. /\ x \in Items /\ x.kind = "msg" /\ x.con = c /\ x.prio = p
      /\ x.num = conn[c].num + 1 /\ x.epoch = conn[c].epoch
  BY <1>1, <1>2 DEF Msg, Items
<1>4. /\ Enqueue(x) /\ UNCHANGED <<item, stop, local_vars, down, seen>>
      /\ held' = Taken({Id(x)})
      /\ conn[c].state = "open"
      /\ conn' = [conn EXCEPT ![c].num = @ + 1]
      /\ thread' \in {thread, "run"} /\ (thread # "sleep" => thread' = thread)
  BY <1>2 DEF receive, enqueue, Signal
<1>5. ASSUME QueueTypes' PROVE TypeOK'
  <2>1. held' \in [MsgIds -> Nat]
    BY <1>4 DEF Rest, TypeOK, Taken
  <2>2. conn' \in [Conns -> ConnStates]
    <3>0. conn \in [Conns -> ConnStates] /\ conn[c] \in ConnStates
      BY DEF Rest, TypeOK
    <3>1. [conn[c] EXCEPT !.num = @ + 1] \in ConnStates
      BY <3>0 DEF ConnStates
    <3>2. conn' = [conn EXCEPT ![c] = [conn[c] EXCEPT !.num = @ + 1]]
      BY <1>4
    <3> QED
      BY <3>0, <3>1, <3>2
  <2> QED
    BY <1>4, <1>5, <2>1, <2>2 DEF Rest, TypeOK, QueueTypes, local_vars, ThreadStates
<1>6. LocalOrder'
  BY <1>4 DEF Rest, LocalOrder, local_vars
<1>7. \A d \in Conns : /\ conn'[d].state = conn[d].state /\ conn'[d].epoch = conn[d].epoch
                       /\ conn'[d].num = IF d = c THEN conn[d].num + 1 ELSE conn[d].num
  BY <1>4 DEF Rest, TypeOK, ConnStates, SeenStates
<1>8. SameStates
  BY <1>4, <1>7 DEF SameStates
<1>9. PastKept
  BY <1>4, <1>7 DEF PastKept, Past, Rest, TypeOK, ConnStates, SeenStates, local_vars
<1>10. Past(c, x.num)'
  BY <1>1, <1>3, <1>7 DEF Past
<1>11. Past(c, seen[c].last[p]) /\ seen[c].last[p] \in Nat
  BY DEF Rest, Numbered, SeenPast, TypeOK, ConnStates, SeenStates
<1>12. seen[c].last[p] < x.num
  BY <1>1, <1>3, <1>11 DEF Past
<1>13. Pending \subseteq Items
  BY PendingItems DEF Rest
<1>14. \A y \in Pending : y.kind = "msg" /\ y.con = c => y.num < x.num
  BY <1>1, <1>3, <1>13 DEF Rest, Numbered, NumbersPast, Past, Items
<1> QED
  BY <1>1, <1>3, <1>4, <1>5, <1>6, <1>8, <1>9, <1>10, <1>12, <1>14, EnqueueMessage

States == {"new", "open", "resetting", "stopping", "closed", "marked_down"}

\* Set(c, s) changes the state of c only.
LEMMA SetEffect ==
    ASSUME conn \in [Conns -> ConnStates], NEW c \in Conns, NEW s \in States, Set(c, s)
    PROVE  /\ conn' \in [Conns -> ConnStates]
           /\ \A d \in Conns :
                 /\ conn'[d].num = conn[d].num /\ conn'[d].epoch = conn[d].epoch
                 /\ conn'[d].state = IF d = c THEN s ELSE conn[d].state
<1>1. conn[c] \in ConnStates
  OBVIOUS
<1>2. [conn[c] EXCEPT !.state = s] \in ConnStates
  BY <1>1 DEF ConnStates, States
<1>3. conn' = [conn EXCEPT ![c] = [conn[c] EXCEPT !.state = s]]
  BY DEF Set
<1>4. /\ [conn[c] EXCEPT !.state = s].num = conn[c].num
      /\ [conn[c] EXCEPT !.state = s].epoch = conn[c].epoch
      /\ [conn[c] EXCEPT !.state = s].state = s
  BY <1>1 DEF ConnStates
<1> QED
  BY <1>2, <1>3, <1>4

\* A notice is queued: messages and their numbers are not concerned.
LEMMA EnqueueNotice ==
    ASSUME Rest, NEW x \in Items, x.kind # "msg", Enqueue(x),
           conn' \in [Conns -> ConnStates],
           \A c \in Conns : conn'[c].num = conn[c].num,
           UNCHANGED <<item, stop, local_vars, held, seen>>,
           down' \in {"no", "marked", "local", "joining", "done"},
           thread' \in {thread, "run"}, thread # "sleep" => thread' = thread,
           \A y \in Queued : Before(y, x), x \notin Pending
    PROVE  /\ TypeOK' /\ Lines' /\ Numbered' /\ LocalOrder' /\ Fenced' /\ Conserved'
           /\ Queued' = Queued \cup {x} /\ Pending' = Pending \cup {x}
<1>1. QueueTypes /\ Lines
  BY DEF Rest, TypeOK, QueueTypes
<1>2. Queued \subseteq Pending /\ Pending \subseteq Items
      /\ \A y \in Pending : y.con \in Conns \/ y.con = Loopback
  BY PendingItems DEF Rest
<1>3. QueueTypes' /\ Lines' /\ Queued' = Queued \cup {x}
  BY <1>1, EnqueueEffect
<1>4. Pending' = Pending \cup {x}
  BY <1>3 DEF Pending
<1>5. TypeOK'
  BY <1>3 DEF Rest, TypeOK, QueueTypes, local_vars, ThreadStates
<1>6. LocalOrder'
  BY DEF Rest, LocalOrder, local_vars
<1>7. Fenced'
  BY DEF Rest, Fenced
<1>8. Conserved'
  <2>1. held = Units(PendingIds)
    BY <1>1, ConservedForm DEF Rest
  <2>2. PendingIds' = PendingIds
    BY <1>4 DEF PendingIds
  <2>3. held' = Units(PendingIds)'
    BY <2>1, <2>2 DEF Units, MsgIds
  <2> QED
    BY <1>3, <2>3, ConservedFormPrimed
<1>9. \A d \in Conns \cup {Loopback}, n \in Nat : Past(d, n) => Past(d, n)'
  BY DEF Past, local_vars
<1>10. NumbersPast'
  BY <1>2, <1>4, <1>9 DEF Rest, Numbered, NumbersPast, Items
<1>11. SeenPast'
  BY <1>9 DEF Rest, Numbered, SeenPast, TypeOK, SeenStates
<1>12. NumbersUnique'
  BY <1>4 DEF Rest, Numbered, NumbersUnique
<1>13. ItemFirst'
  BY <1>3 DEF Rest, Numbered, ItemFirst, Pending, Items
<1> QED
  BY <1>3, <1>4, <1>5, <1>6, <1>7, <1>8, <1>10, <1>11, <1>12, <1>13 DEF Numbered

\* A connection opens and is announced.
LEMMA AcceptStep ==
    ASSUME Rest, stop = "no", NEW c \in Conns, queue_accept(c)
    PROVE  Rest'
<1>1. c # Loopback /\ conn \in [Conns -> ConnStates]
  BY ConstantsAssumption DEF Loopback, Rest, TypeOK
<1>2. PICK x : x = Notice("accept", c)
  OBVIOUS
<1>3. x \in Items /\ x.kind = "accept" /\ x.con = c /\ x.prio = HIGHEST
  BY <1>1, <1>2, ConstantsAssumption DEF Notice, Items, ConnStates
<1>4. /\ Enqueue(x) /\ UNCHANGED <<item, stop, local_vars, down, held, seen>>
      /\ conn[c].state = "new" /\ Set(c, "open")
      /\ thread' \in {thread, "run"} /\ (thread # "sleep" => thread' = thread)
      /\ down \in {"no", "marked"}
  BY <1>2 DEF queue_accept, queue_notice, Signal
<1>5. /\ conn' \in [Conns -> ConnStates]
      /\ \A d \in Conns :
            /\ conn'[d].num = conn[d].num /\ conn'[d].epoch = conn[d].epoch
            /\ conn'[d].state = IF d = c THEN "open" ELSE conn[d].state
  BY <1>1, <1>4, SetEffect DEF States
<1>6. Queued \subseteq Pending /\ Pending \subseteq Items
      /\ \A y \in Pending : y.con \in Conns \/ y.con = Loopback
  BY PendingItems DEF Rest
<1>7. \A y \in Pending : y.con # c
  BY <1>1, <1>4 DEF Rest, NoticesFit
<1>8. \A y \in Queued : Before(y, x)
  BY <1>3, <1>6, <1>7 DEF Before, NoticeBefore
<1>9. /\ TypeOK' /\ Lines' /\ Numbered' /\ LocalOrder' /\ Fenced' /\ Conserved'
      /\ Queued' = Queued \cup {x} /\ Pending' = Pending \cup {x}
  BY <1>3, <1>4, <1>5, <1>7, <1>8, EnqueueNotice
<1>10. NoticesFit'
  BY <1>1, <1>3, <1>4, <1>5, <1>6, <1>7, <1>9
     DEF Rest, NoticesFit, NoticesKept, NoticeBefore, Announced, Pending
<1>11. NoticesKept'
  BY <1>1, <1>3, <1>4, <1>5, <1>7, <1>9 DEF Rest, NoticesKept, Announced
<1> QED
  BY <1>9, <1>10, <1>11 DEF Rest

\* The reset of a session is announced.
LEMMA RemoteResetStep ==
    ASSUME Rest, stop = "no", NEW c \in Conns, queue_remote_reset(c)
    PROVE  Rest'
<1>1. c # Loopback /\ conn \in [Conns -> ConnStates] /\ conn[c].epoch \in Nat
  BY ConstantsAssumption DEF Loopback, Rest, TypeOK, ConnStates
<1>2. PICK x : x = Notice("remote_reset", c)
  OBVIOUS
<1>3. /\ x \in Items /\ x.kind = "remote_reset" /\ x.con = c /\ x.prio = HIGHEST
      /\ x.epoch = conn[c].epoch
  BY <1>1, <1>2, ConstantsAssumption DEF Notice, Items
<1>4. /\ Enqueue(x) /\ UNCHANGED <<item, stop, local_vars, down, held, seen>>
      /\ conn[c].state = "resetting" /\ Set(c, "open")
      /\ thread' \in {thread, "run"} /\ (thread # "sleep" => thread' = thread)
  BY <1>2 DEF queue_remote_reset, queue_notice, Signal
<1>5. /\ conn' \in [Conns -> ConnStates]
      /\ \A d \in Conns :
            /\ conn'[d].num = conn[d].num /\ conn'[d].epoch = conn[d].epoch
            /\ conn'[d].state = IF d = c THEN "open" ELSE conn[d].state
  BY <1>1, <1>4, SetEffect DEF States
<1>6. Queued \subseteq Pending /\ Pending \subseteq Items
      /\ \A y \in Pending : y.con \in Conns \/ y.con = Loopback
  BY PendingItems DEF Rest
<1>7. Announced(c) = conn[c].epoch - 1 /\ Announced(c)' = conn[c].epoch
      /\ \A d \in Conns : d # c => Announced(d)' = Announced(d)
  BY <1>4, <1>5 DEF Announced
<1>8. \A y \in Pending : y.con = c =>
         /\ y.kind = "remote_reset" => y.epoch < conn[c].epoch
         /\ y \in Queued => y.kind # "msg"
  BY <1>1, <1>4, <1>6, <1>7 DEF Rest, NoticesFit, Items
<1>9. \A y \in Queued : Before(y, x)
  BY <1>3, <1>6, <1>8 DEF Before, NoticeBefore
<1>10. x \notin Pending
  BY <1>1, <1>3, <1>8
<1>11. down \in {"no", "marked", "local", "joining", "done"}
  BY DEF Rest, TypeOK
<1>12. /\ TypeOK' /\ Lines' /\ Numbered' /\ LocalOrder' /\ Fenced' /\ Conserved'
       /\ Queued' = Queued \cup {x} /\ Pending' = Pending \cup {x}
  BY <1>3, <1>4, <1>5, <1>9, <1>10, <1>11, EnqueueNotice
<1>13. seen[c].epoch \in Nat /\ seen[c].epoch <= Announced(c)
  BY DEF Rest, TypeOK, SeenStates, NoticesKept
<1>14. NoticesFit'
  BY <1>1, <1>3, <1>4, <1>5, <1>6, <1>7, <1>8, <1>12, <1>13
     DEF Rest, NoticesFit, NoticeBefore, Items, Pending
<1>15. \A e \in seen[c].epoch + 1 .. conn[c].epoch :
          \E y \in Pending' : y.kind = "remote_reset" /\ y.con = c /\ y.epoch = e
  <2> SUFFICES ASSUME NEW e \in seen[c].epoch + 1 .. conn[c].epoch
               PROVE  \E y \in Pending' : y.kind = "remote_reset" /\ y.con = c /\ y.epoch = e
    OBVIOUS
  <2>1. CASE e = conn[c].epoch
    BY <1>3, <1>12, <2>1
  <2>2. CASE e # conn[c].epoch
    <3>1. e \in seen[c].epoch + 1 .. Announced(c)
      BY <1>1, <1>7, <1>13, <2>2
    <3> QED
      BY <1>12, <3>1 DEF Rest, NoticesKept
  <2> QED
    BY <2>1, <2>2
<1>16. NoticesKept'
  BY <1>1, <1>3, <1>4, <1>5, <1>7, <1>12, <1>13, <1>15 DEF Rest, NoticesKept
<1> QED
  BY <1>12, <1>14, <1>16 DEF Rest

\* The end of a connection is announced.
LEMMA ResetStep ==
    ASSUME Rest, stop = "no", NEW c \in Conns, queue_reset(c)
    PROVE  Rest'
<1>1. c # Loopback /\ conn \in [Conns -> ConnStates]
  BY ConstantsAssumption DEF Loopback, Rest, TypeOK
<1>2. PICK x : x = Notice("reset", c)
  OBVIOUS
<1>3. x \in Items /\ x.kind = "reset" /\ x.con = c /\ x.prio = HIGHEST
  BY <1>1, <1>2, ConstantsAssumption DEF Notice, Items, ConnStates
<1>4. /\ Enqueue(x) /\ UNCHANGED <<item, stop, local_vars, down, held, seen>>
      /\ conn[c].state = "stopping" /\ Set(c, "closed")
      /\ thread' \in {thread, "run"} /\ (thread # "sleep" => thread' = thread)
  BY <1>2 DEF queue_reset, queue_notice, Signal
<1>5. /\ conn' \in [Conns -> ConnStates]
      /\ \A d \in Conns :
            /\ conn'[d].num = conn[d].num /\ conn'[d].epoch = conn[d].epoch
            /\ conn'[d].state = IF d = c THEN "closed" ELSE conn[d].state
  BY <1>1, <1>4, SetEffect DEF States
<1>6. Queued \subseteq Pending /\ Pending \subseteq Items
      /\ \A y \in Pending : y.con \in Conns \/ y.con = Loopback
  BY PendingItems DEF Rest
<1>7. \A d \in Conns : Announced(d)' = Announced(d)
  BY <1>4, <1>5 DEF Announced
<1>8. \A y \in Pending : y.con = c =>
         y.kind # "reset" /\ (y \in Queued => y.kind # "msg")
  BY <1>1, <1>4, <1>6 DEF Rest, NoticesFit
<1>9. (\A y \in Queued : Before(y, x)) /\ x \notin Pending
  BY <1>3, <1>6, <1>8 DEF Before, NoticeBefore
<1>10. down \in {"no", "marked", "local", "joining", "done"}
  BY DEF Rest, TypeOK
<1>11. /\ TypeOK' /\ Lines' /\ Numbered' /\ LocalOrder' /\ Fenced' /\ Conserved'
       /\ Queued' = Queued \cup {x} /\ Pending' = Pending \cup {x}
  BY <1>3, <1>4, <1>5, <1>9, <1>10, EnqueueNotice
<1>12. NoticesFit'
  BY <1>1, <1>3, <1>4, <1>5, <1>6, <1>7, <1>8, <1>11
     DEF Rest, NoticesFit, NoticeBefore, Pending
<1>13. NoticesKept'
  BY <1>1, <1>3, <1>4, <1>5, <1>7, <1>11 DEF Rest, NoticesKept
<1> QED
  BY <1>11, <1>12, <1>13 DEF Rest

\* The end of the loopback connection is announced.
LEMMA LocalStopStep ==
    ASSUME Rest, stop = "no", local_stop
    PROVE  Rest'
<1>1. Loopback \notin Conns /\ conn \in [Conns -> ConnStates]
  BY ConstantsAssumption DEF Loopback, Rest, TypeOK
<1>2. PICK x : x = Notice("reset", Loopback)
  OBVIOUS
<1>3. x \in Items /\ x.kind = "reset" /\ x.con = Loopback /\ x.prio = HIGHEST
  BY <1>2, ConstantsAssumption DEF Notice, Items
<1>4. /\ Enqueue(x) /\ UNCHANGED <<item, stop, local_vars, conn, held, seen>>
      /\ down = "marked" /\ down' = "local"
      /\ thread' \in {thread, "run"} /\ (thread # "sleep" => thread' = thread)
  BY <1>2 DEF local_stop, queue_notice, Signal
<1>5. Queued \subseteq Pending /\ Pending \subseteq Items
      /\ \A y \in Pending : y.con \in Conns \/ y.con = Loopback
  BY PendingItems DEF Rest
<1>6. \A y \in Pending : y.con = Loopback => y.kind # "reset"
  BY <1>4 DEF Rest, NoticesFit
<1>7. (\A y \in Queued : Before(y, x)) /\ x \notin Pending
  BY <1>3, <1>5, <1>6 DEF Before, NoticeBefore
<1>8. /\ TypeOK' /\ Lines' /\ Numbered' /\ LocalOrder' /\ Fenced' /\ Conserved'
      /\ Queued' = Queued \cup {x} /\ Pending' = Pending \cup {x}
  BY <1>1, <1>3, <1>4, <1>7, EnqueueNotice
<1>9. NoticesFit'
  BY <1>1, <1>3, <1>4, <1>5, <1>6, <1>8
     DEF Rest, NoticesFit, NoticeBefore, Pending, Announced
<1>10. NoticesKept'
  BY <1>1, <1>3, <1>4, <1>8 DEF Rest, NoticesKept, Announced
<1> QED
  BY <1>8, <1>9, <1>10 DEF Rest

\* The messages of connection c are discarded as its state changes.
LEMMA DiscardStep ==
    ASSUME Rest, NEW c \in Conns, discard_queue(c),
           conn' \in [Conns -> ConnStates],
           \A d \in Conns : conn'[d].num = conn[d].num,
           UNCHANGED <<local_vars, down, seen>>
    PROVE  /\ TypeOK' /\ Lines' /\ Numbered' /\ LocalOrder' /\ Fenced' /\ Conserved'
           /\ Pending' \subseteq Pending /\ Queued' \subseteq Queued
           /\ \A x \in Queued' : ~ (x.kind = "msg" /\ x.con = c)
           /\ \A x \in Pending : x.kind # "msg" => x \in Pending'
           /\ item' = item /\ thread' = thread
<1>1. QueueTypes /\ Lines
  BY DEF Rest, TypeOK, QueueTypes
<1>2. Queued \subseteq Pending /\ Pending \subseteq Items
      /\ \A y \in Pending : y.con \in Conns \/ y.con = Loopback
  BY PendingItems DEF Rest
<1>3. QueueTypes' /\ Lines' /\ Queued' = {x \in Queued : Class(x) # c}
  BY <1>1, DiscardEffect
<1>4. item' = item /\ thread' = thread /\ stop' = stop /\ held' = Returned(IdsOf(c))
  BY DEF discard_queue
<1>5. c # Loopback
  BY ConstantsAssumption DEF Loopback
<1>6. \A x : Class(x) = c <=> x.kind = "msg" /\ x.con = c
  BY <1>5 DEF Class
<1>7. Queued' = {x \in Queued : ~ (x.kind = "msg" /\ x.con = c)}
  BY <1>3, <1>6
<1>8. Pending' = {x \in Pending : x \in Queued => ~ (x.kind = "msg" /\ x.con = c)}
  BY <1>4, <1>7 DEF Pending, Rest, Numbered, ItemFirst
<1>10. LocalOrder'
  BY DEF Rest, LocalOrder, local_vars
<1>11. Fenced'
  BY <1>4 DEF Rest, Fenced
<1>12. Conserved'
  <2>1. held = Units(PendingIds)
    BY <1>1, ConservedForm DEF Rest
  <2>2. IdsOf(c) = {Id(x) : x \in {y \in Queued : y.kind = "msg" /\ y.con = c}}
    BY <1>1, QueuedIdsForm DEF IdsOf, Id
  <2>3. PendingIds' \subseteq PendingIds
    BY <1>8 DEF PendingIds
  <2>4. ASSUME NEW x \in Pending', x.kind = "msg", Id(x) \in IdsOf(c) PROVE FALSE
    <3>1. PICK y \in Queued : y.kind = "msg" /\ y.con = c /\ Id(x) = Id(y)
      BY <2>2, <2>4
    <3>2. x.con = y.con /\ x.num = y.num
      BY <3>1 DEF Id
    <3>3. x = y
      BY <1>2, <1>8, <2>4, <3>1, <3>2 DEF Rest, Numbered, NumbersUnique
    <3> QED
      BY <1>8, <3>1, <3>3
  <2>5. PendingIds' \cap IdsOf(c) = {}
    BY <2>4 DEF PendingIds
  <2>6. ASSUME NEW x \in Pending, x.kind = "msg", x.con # Loopback
        PROVE  Id(x) \in IdsOf(c) \/ x \in Pending'
    BY <1>8, <2>2, <2>6
  <2>7. PendingIds \subseteq PendingIds' \cup IdsOf(c)
    BY <2>6 DEF PendingIds
  <2>8. IdsOf(c) \cap MsgIds \subseteq PendingIds
    BY <1>2, <1>5, <2>2 DEF PendingIds
  <2>9. PendingIds \ IdsOf(c) = PendingIds'
    BY <2>3, <2>5, <2>7
  <2>10. Returned(IdsOf(c)) = Units(PendingIds \ IdsOf(c))
    BY <2>1, <2>8, UnitsReturned
  <2>11. held' = Units(PendingIds')
    BY <1>4, <2>9, <2>10
  <2>12. held' = Units(PendingIds)'
    BY <2>11 DEF Units, MsgIds
  <2> QED
    BY <1>3, <2>12, ConservedFormPrimed
<1>9. TypeOK'
  <2>1. held' \in [MsgIds -> Nat]
    BY <1>12 DEF Conserved
  <2> QED
    BY <1>3, <1>4, <2>1 DEF Rest, TypeOK, QueueTypes, local_vars
<1>13. \A d \in Conns \cup {Loopback}, n \in Nat : Past(d, n) => Past(d, n)'
  BY DEF Past, local_vars
<1>14. NumbersPast'
  BY <1>2, <1>8, <1>13 DEF Rest, Numbered, NumbersPast, Items
<1>15. SeenPast'
  BY <1>13 DEF Rest, Numbered, SeenPast, TypeOK, SeenStates
<1>16. NumbersUnique'
  BY <1>8 DEF Rest, Numbered, NumbersUnique
<1>17. ItemFirst'
  BY <1>4, <1>7 DEF Rest, Numbered, ItemFirst
<1> QED
  BY <1>3, <1>4, <1>7, <1>8, <1>9, <1>10, <1>11, <1>12, <1>14, <1>15, <1>16, <1>17
     DEF Numbered

\* was_session_reset() discards.
LEMMA SessionDiscardStep ==
    ASSUME Rest, NEW c \in Conns, session_discard(c)
    PROVE  Rest'
<1>1. c # Loopback /\ conn \in [Conns -> ConnStates] /\ conn[c] \in ConnStates
  BY ConstantsAssumption DEF Loopback, Rest, TypeOK
<1>2. PICK r : r = [conn[c] EXCEPT !.state = "resetting", !.epoch = @ + 1]
  OBVIOUS
<1>3. /\ r \in ConnStates /\ r.num = conn[c].num /\ r.epoch = conn[c].epoch + 1
      /\ r.state = "resetting" /\ conn[c].epoch \in Nat
  <2>1. conn[c].epoch \in Nat /\ conn[c].num \in Nat
    BY <1>1 DEF ConnStates
  <2>2. r = [state |-> "resetting", num |-> conn[c].num, epoch |-> conn[c].epoch + 1]
    BY <1>1, <1>2 DEF ConnStates
  <2> QED
    BY <2>1, <2>2 DEF ConnStates
<1>4. /\ conn' = [conn EXCEPT ![c] = r] /\ conn[c].state = "open"
      /\ discard_queue(c) /\ UNCHANGED <<local_vars, down, seen>>
  BY <1>1, <1>2 DEF session_discard, ConnStates
<1>5. /\ conn' \in [Conns -> ConnStates]
      /\ \A d \in Conns : conn'[d] = IF d = c THEN r ELSE conn[d]
  BY <1>1, <1>3, <1>4
<1>6. /\ TypeOK' /\ Lines' /\ Numbered' /\ LocalOrder' /\ Fenced' /\ Conserved'
      /\ Pending' \subseteq Pending /\ Queued' \subseteq Queued
      /\ \A x \in Queued' : ~ (x.kind = "msg" /\ x.con = c)
      /\ \A x \in Pending : x.kind # "msg" => x \in Pending'
      /\ item' = item /\ thread' = thread
  <2>1. \A d \in Conns : conn'[d].num = conn[d].num
    BY <1>3, <1>5
  <2> QED
    BY <1>4, <1>5, <2>1, DiscardStep
<1>7. Queued \subseteq Pending /\ Pending \subseteq Items
      /\ \A y \in Pending : y.con \in Conns \/ y.con = Loopback
  BY PendingItems DEF Rest
<1>8. \A d \in Conns : Announced(d)' = Announced(d)
  BY <1>3, <1>4, <1>5 DEF Announced
<1>9. NoticesFit'
  BY <1>1, <1>3, <1>4, <1>5, <1>6, <1>7, <1>8 DEF Rest, NoticesFit
<1>10. NoticesKept'
  BY <1>1, <1>3, <1>4, <1>5, <1>6, <1>8 DEF Rest, NoticesKept
<1> QED
  BY <1>6, <1>9, <1>10 DEF Rest

\* _stop() discards, whether a notice follows or not.
LEMMA StopDiscardStep ==
    ASSUME Rest, NEW c \in Conns, stop_discard(c) \/ stop_marked_down(c)
    PROVE  Rest'
<1>1. c # Loopback /\ conn \in [Conns -> ConnStates]
  BY ConstantsAssumption DEF Loopback, Rest, TypeOK
<1>2. PICK s \in {"stopping", "marked_down"} :
         /\ Set(c, s) /\ conn[c].state = "open"
         /\ discard_queue(c) /\ UNCHANGED <<local_vars, down, seen>>
  BY DEF stop_discard, stop_marked_down
<1>3. /\ conn' \in [Conns -> ConnStates]
      /\ \A d \in Conns :
            /\ conn'[d].num = conn[d].num /\ conn'[d].epoch = conn[d].epoch
            /\ conn'[d].state = IF d = c THEN s ELSE conn[d].state
  BY <1>1, <1>2, SetEffect DEF States
<1>4. /\ TypeOK' /\ Lines' /\ Numbered' /\ LocalOrder' /\ Fenced' /\ Conserved'
      /\ Pending' \subseteq Pending /\ Queued' \subseteq Queued
      /\ \A x \in Queued' : ~ (x.kind = "msg" /\ x.con = c)
      /\ \A x \in Pending : x.kind # "msg" => x \in Pending'
      /\ item' = item /\ thread' = thread
  BY <1>2, <1>3, DiscardStep
<1>5. Queued \subseteq Pending /\ Pending \subseteq Items
      /\ \A y \in Pending : y.con \in Conns \/ y.con = Loopback
  BY PendingItems DEF Rest
<1>6. \A d \in Conns : Announced(d)' = Announced(d)
  BY <1>2, <1>3 DEF Announced
<1>7. NoticesFit'
  BY <1>1, <1>2, <1>3, <1>4, <1>5, <1>6 DEF Rest, NoticesFit
<1>8. NoticesKept'
  BY <1>1, <1>2, <1>3, <1>4, <1>6 DEF Rest, NoticesKept
<1> QED
  BY <1>4, <1>7, <1>8 DEF Rest

\* The dispatch thread takes an item.
LEMMA DequeueStep ==
    ASSUME Rest, dequeue
    PROVE  Rest'
<1>1. QueueTypes /\ Lines
  BY DEF Rest, TypeOK, QueueTypes
<1>2. Queued \subseteq Pending /\ Pending \subseteq Items
      /\ \A y \in Pending : y.con \in Conns \/ y.con = Loopback
  BY PendingItems DEF Rest
<1>3. /\ thread = "run" /\ thread' = "deliver"
      /\ UNCHANGED <<stop, local_vars, conn, down, held, seen>>
  BY DEF dequeue
<1>4. PICK x : x = item'
  OBVIOUS
<1>5. /\ QueueTypes' /\ Lines' /\ x \in Items
      /\ Queued = Queued' \cup {x} /\ x \notin Queued'
      /\ \A y \in Queued' : y.prio \in {x.prio, HIGHEST} => Before(x, y)
  BY <1>1, <1>4, DequeueEffect
<1>6. item.kind = "none" /\ Pending = Queued
  BY <1>3 DEF Rest, NoticesFit, Pending
<1>7. x.kind # "none" /\ (x.con \in Conns \/ x.con = Loopback)
  BY <1>5 DEF Items
<1>8. Pending' = Pending
  BY <1>4, <1>5, <1>6, <1>7 DEF Pending
<1>9. TypeOK'
  BY <1>3, <1>4, <1>5 DEF Rest, TypeOK, QueueTypes, local_vars, ThreadStates
<1>10. LocalOrder'
  BY <1>3 DEF Rest, LocalOrder, local_vars
<1>11. Conserved'
  <2>1. held = Units(PendingIds)
    BY <1>1, ConservedForm DEF Rest
  <2>2. PendingIds' = PendingIds
    BY <1>8 DEF PendingIds
  <2>3. held' = Units(PendingIds)'
    BY <1>3, <2>1, <2>2 DEF Units, MsgIds
  <2> QED
    BY <1>5, <2>3, ConservedFormPrimed
<1>12. \A y \in Queued' : y.kind # "msg" => Before(x, y)
  BY <1>2, <1>5 DEF Rest, NoticesFit
<1>13. \A y \in Queued' : NoticeBefore(x, y)
  BY <1>12 DEF Before, NoticeBefore
<1>14. Fenced'
  <2> SUFFICES ASSUME x.kind = "msg", x.con # Loopback
               PROVE  seen[x.con].told = "open" /\ x.epoch = seen[x.con].epoch
    BY <1>3, <1>4 DEF Fenced
  <2>1. x \in Queued /\ x.con \in Conns
    BY <1>5, <1>7
  <2>2. conn[x.con].state = "open" /\ x.epoch = conn[x.con].epoch
    BY <2>1 DEF Rest, NoticesFit
  <2>3. \A y \in Pending : y.con = x.con => y.kind # "accept" /\ y.kind # "remote_reset"
    BY <1>5, <1>6, <1>12 DEF Before, NoticeBefore
  <2>4. seen[x.con].told # "new"
    BY <2>1, <2>2, <2>3 DEF Rest, NoticesKept
  <2>5. seen[x.con].told # "closed"
    BY <2>1, <2>2 DEF Rest, NoticesKept
  <2>6. seen[x.con].told \in {"new", "open", "closed"} /\ seen[x.con].epoch \in Nat
        /\ conn[x.con].epoch \in Nat
    BY <2>1 DEF Rest, TypeOK, SeenStates, ConnStates
  <2>7. Announced(x.con) = conn[x.con].epoch
    BY <2>2 DEF Announced
  <2>8. seen[x.con].epoch <= conn[x.con].epoch
    BY <2>1, <2>7 DEF Rest, NoticesKept
  <2>9. ~ (seen[x.con].epoch < conn[x.con].epoch)
    <3> SUFFICES ASSUME seen[x.con].epoch < conn[x.con].epoch PROVE FALSE
      OBVIOUS
    <3>1. conn[x.con].epoch \in seen[x.con].epoch + 1 .. Announced(x.con)
      BY <2>6, <2>7
    <3> QED
      BY <2>1, <2>3, <3>1 DEF Rest, NoticesKept
  <2> QED
    BY <2>2, <2>4, <2>5, <2>6, <2>8, <2>9
<1>15. NoticesFit'
  BY <1>2, <1>3, <1>4, <1>5, <1>7, <1>8, <1>13 DEF Rest, NoticesFit, Announced
<1>16. NoticesKept'
  BY <1>3, <1>8 DEF Rest, NoticesKept, Announced
<1>17. \A d, n : Past(d, n)' = Past(d, n)
  BY <1>3 DEF Past, local_vars
<1>18. NumbersPast'
  BY <1>3, <1>8, <1>17 DEF Rest, Numbered, NumbersPast
<1>19. SeenPast'
  BY <1>3, <1>17 DEF Rest, Numbered, SeenPast
<1>20. NumbersUnique'
  BY <1>8 DEF Rest, Numbered, NumbersUnique
<1>21. ItemFirst'
  BY <1>4, <1>5 DEF ItemFirst, Before
<1> QED
  BY <1>5, <1>9, <1>10, <1>11, <1>14, <1>15, <1>16, <1>18, <1>19, <1>20, <1>21
     DEF Rest, Numbered

\* A notice is given to the application.
LEMMA DeliverNoticeStep ==
    ASSUME Rest, deliver_notice
    PROVE  Rest'
<1>1. QueueTypes /\ Lines
  BY DEF Rest, TypeOK, QueueTypes
<1>2. Queued \subseteq Pending /\ Pending \subseteq Items
      /\ \A y \in Pending : y.con \in Conns \/ y.con = Loopback
  BY PendingItems DEF Rest
<1>3. PICK c, x : x = item /\ c = item.con
  OBVIOUS
<1>4. /\ thread = "deliver" /\ thread' = "run" /\ x.kind # "msg" /\ item' = NoItem
      /\ UNCHANGED <<high_queue, queue, stop, local_vars, conn, down, held>>
      /\ seen' = CASE x.kind = "accept" -> [seen EXCEPT ![c].told = "open"]
                   [] x.kind = "reset" -> [seen EXCEPT ![c].told = "closed"]
                   [] OTHER -> [seen EXCEPT ![c].epoch = @ + 1]
  BY <1>3 DEF deliver_notice
<1>5. x \in Pending /\ x \in Items /\ (c \in Conns \/ c = Loopback)
      /\ x.kind \in {"accept", "remote_reset", "reset"} /\ x.con = c
  <2>1. x.kind # "none" /\ x \in Pending
    BY <1>3, <1>4 DEF Rest, NoticesFit, Pending
  <2> QED
    BY <1>2, <1>3, <1>4, <2>1 DEF Items
<1>6. Queued' = Queued /\ QueueTypes' /\ Lines' /\ item'.kind = "none"
  BY <1>1, <1>4 DEF Queued, QueueTypes, Lines, NoItem
<1>7. Pending' = Queued /\ Pending = Queued \cup {x} /\ x \notin Queued
  BY <1>3, <1>4, <1>5, <1>6 DEF Pending, Rest, Numbered, ItemFirst
<1>8. \A y \in Queued : NoticeBefore(x, y)
  BY <1>3, <1>4 DEF Rest, NoticesFit
<1>9. Loopback \notin Conns
  BY ConstantsAssumption DEF Loopback
<1>10. seen \in [Conns \cup {Loopback} -> SeenStates] /\ seen[c] \in SeenStates
  BY <1>5 DEF Rest, TypeOK
<1>11. /\ seen' \in [Conns \cup {Loopback} -> SeenStates]
       /\ \A d \in Conns \cup {Loopback} : d # c => seen'[d] = seen[d]
       /\ seen'[c].last = seen[c].last
       /\ seen'[c].told = IF x.kind = "accept" THEN "open" ELSE
                          IF x.kind = "reset" THEN "closed" ELSE seen[c].told
       /\ seen'[c].epoch = IF x.kind = "remote_reset" THEN seen[c].epoch + 1
                           ELSE seen[c].epoch
  <2>1. CASE x.kind = "accept"
    <3>1. [seen[c] EXCEPT !.told = "open"] \in SeenStates
      BY <1>10 DEF SeenStates
    <3>2. seen' = [seen EXCEPT ![c] = [seen[c] EXCEPT !.told = "open"]]
      BY <1>4, <2>1
    <3> QED
      BY <1>5, <1>10, <2>1, <3>1, <3>2 DEF SeenStates
  <2>2. CASE x.kind = "reset"
    <3>1. [seen[c] EXCEPT !.told = "closed"] \in SeenStates
      BY <1>10 DEF SeenStates
    <3>2. seen' = [seen EXCEPT ![c] = [seen[c] EXCEPT !.told = "closed"]]
      BY <1>4, <2>2
    <3> QED
      BY <1>5, <1>10, <2>2, <3>1, <3>2 DEF SeenStates
  <2>3. CASE x.kind = "remote_reset"
    <3>1. [seen[c] EXCEPT !.epoch = @ + 1] \in SeenStates
      BY <1>10 DEF SeenStates
    <3>2. seen' = [seen EXCEPT ![c] = [seen[c] EXCEPT !.epoch = @ + 1]]
      BY <1>4, <2>3
    <3> QED
      BY <1>5, <1>10, <2>3, <3>1, <3>2 DEF SeenStates
  <2> QED
    BY <1>5, <2>1, <2>2, <2>3
<1>12. TypeOK'
  BY <1>4, <1>6, <1>11 DEF Rest, TypeOK, QueueTypes, local_vars, ThreadStates
<1>13. LocalOrder'
  BY <1>4 DEF Rest, LocalOrder, local_vars
<1>14. Fenced'
  BY <1>4 DEF Fenced
<1>15. Conserved'
  <2>1. held = Units(PendingIds)
    BY <1>1, ConservedForm DEF Rest
  <2>2. PendingIds' = PendingIds
    BY <1>4, <1>7 DEF PendingIds
  <2>3. held' = Units(PendingIds)'
    BY <1>4, <2>1, <2>2 DEF Units, MsgIds
  <2> QED
    BY <1>6, <2>3, ConservedFormPrimed
<1>16. \A d, n : Past(d, n)' = Past(d, n)
  BY <1>4 DEF Past, local_vars
<1>17. \A d \in Conns \cup {Loopback} : seen'[d].last = seen[d].last
  BY <1>11
<1>18. NumbersPast'
  BY <1>2, <1>7, <1>16, <1>17 DEF Rest, Numbered, NumbersPast
<1>19. SeenPast'
  BY <1>16, <1>17 DEF Rest, Numbered, SeenPast
<1>20. NumbersUnique'
  BY <1>7 DEF Rest, Numbered, NumbersUnique
<1>21. ItemFirst'
  BY <1>2, <1>6 DEF ItemFirst, Items
<1>22. \A d \in Conns : Announced(d)' = Announced(d)
  BY <1>4 DEF Announced
<1>23. x.kind = "remote_reset" =>
         /\ c \in Conns /\ x.epoch = seen'[c].epoch
         /\ x.epoch <= Announced(c)
  <2> SUFFICES ASSUME x.kind = "remote_reset"
               PROVE  /\ c \in Conns /\ x.epoch = seen'[c].epoch
                      /\ x.epoch <= Announced(c)
    OBVIOUS
  <2>1. c \in Conns /\ seen[c].epoch < x.epoch /\ x.epoch <= Announced(c)
    BY <1>5 DEF Rest, NoticesFit
  <2>2. seen[c].epoch \in Nat /\ x.epoch \in Nat /\ Announced(c) \in Int
    BY <1>5, <1>10, <2>1 DEF SeenStates, Items, Rest, TypeOK, ConnStates, Announced
  <2>3. seen[c].epoch + 1 \in seen[c].epoch + 1 .. Announced(c)
    BY <2>1, <2>2
  <2>4. PICK y \in Pending : y.kind = "remote_reset" /\ y.con = c
                             /\ y.epoch = seen[c].epoch + 1
    BY <2>1, <2>3 DEF Rest, NoticesKept
  <2>5. y = x
    <3> SUFFICES ASSUME y \in Queued PROVE FALSE
      BY <1>7
    <3> QED
      BY <1>5, <1>8, <2>1, <2>2, <2>4 DEF NoticeBefore
  <2> QED
    BY <1>11, <2>1, <2>4, <2>5
<1>24. NoticesFit'
  <2>1. \A y \in Queued : y.kind = "accept" =>
           y.con # Loopback /\ seen'[y.con].told = "new"
    BY <1>2, <1>5, <1>7, <1>8, <1>11 DEF Rest, NoticesFit, NoticeBefore
  <2>2. \A y \in Queued : y.kind = "remote_reset" =>
           /\ y.con # Loopback
           /\ seen'[y.con].epoch < y.epoch /\ y.epoch <= Announced(y.con)'
    BY <1>2, <1>5, <1>7, <1>8, <1>11, <1>22, <1>23 DEF Rest, NoticesFit, NoticeBefore
  <2> QED
    BY <1>2, <1>4, <1>6, <1>7, <2>1, <2>2 DEF Rest, NoticesFit
<1>25. NoticesKept'
  <2>1. ASSUME NEW d \in Conns
        PROVE  /\ conn'[d].state = "new" => seen'[d].told = "new"
               /\ seen'[d].told = "closed" => conn'[d].state = "closed"
    BY <1>4, <1>5, <1>9, <1>11, <2>1 DEF Rest, NoticesKept, NoticesFit
  <2>2. ASSUME NEW d \in Conns
        PROVE  /\ seen'[d].told = "new" /\ conn'[d].state # "new" =>
                      \E y \in Pending' : y.kind = "accept" /\ y.con = d
               /\ conn'[d].state = "closed" /\ seen'[d].told # "closed" =>
                      \E y \in Pending' : y.kind = "reset" /\ y.con = d
    <3>1. /\ seen[d].told = "new" /\ conn[d].state # "new" =>
                \E y \in Queued \cup {x} : y.kind = "accept" /\ y.con = d
          /\ conn[d].state = "closed" /\ seen[d].told # "closed" =>
                \E y \in Queued \cup {x} : y.kind = "reset" /\ y.con = d
      BY <1>7, <2>2 DEF Rest, NoticesKept
    <3>2. conn' = conn /\ Pending' = Queued
      BY <1>4, <1>7
    <3>3. CASE d = c
      <4>1. CASE x.kind = "accept"
        <5>1. seen[c].told = "new"
          BY <1>5, <4>1 DEF Rest, NoticesFit
        <5> QED
          BY <1>11, <3>1, <3>2, <3>3, <4>1, <5>1
      <4>2. CASE x.kind = "reset"
        BY <1>11, <3>1, <3>2, <3>3, <4>2
      <4>3. CASE x.kind = "remote_reset"
        BY <1>11, <3>1, <3>2, <3>3, <4>3
      <4> QED
        BY <1>5, <4>1, <4>2, <4>3
    <3>4. CASE d # c
      <4>1. seen'[d] = seen[d]
        BY <1>11, <3>4
      <4> QED
        BY <1>5, <3>1, <3>2, <3>4, <4>1
    <3> QED
      BY <3>3, <3>4
  <2>3. ASSUME NEW d \in Conns
        PROVE  /\ \A e \in seen'[d].epoch + 1 .. Announced(d)' :
                     \E y \in Pending' : y.kind = "remote_reset" /\ y.con = d /\ y.epoch = e
               /\ seen'[d].epoch <= Announced(d)'
    <3>1. seen[d].epoch \in Nat /\ Announced(d) \in Int
      BY <2>3 DEF Rest, TypeOK, SeenStates, ConnStates, Announced
    <3>2. CASE x.kind = "remote_reset" /\ d = c
      <4>1. \A e \in seen'[d].epoch + 1 .. Announced(d)' :
               e \in seen[d].epoch + 1 .. Announced(d) /\ e # x.epoch
        BY <1>11, <1>22, <1>23, <3>1, <3>2
      <4> QED
        BY <1>7, <1>22, <1>23, <2>3, <3>2, <4>1 DEF Rest, NoticesKept
    <3>3. CASE ~ (x.kind = "remote_reset" /\ d = c)
      <4>1. seen'[d].epoch = seen[d].epoch
        BY <1>11, <2>3, <3>3
      <4> QED
        BY <1>5, <1>7, <1>22, <2>3, <3>3, <4>1 DEF Rest, NoticesKept
    <3> QED
      BY <3>2, <3>3
  <2>4. /\ seen'[Loopback].told # "new"
        /\ down' \notin {"no", "marked"} /\ seen'[Loopback].told # "closed" =>
              \E y \in Pending' : y.kind = "reset" /\ y.con = Loopback
    BY <1>4, <1>5, <1>7, <1>11 DEF Rest, NoticesKept, NoticesFit
  <2> QED
    BY <1>4, <2>1, <2>2, <2>3, <2>4 DEF Rest, NoticesKept
<1> QED
  BY <1>6, <1>12, <1>13, <1>14, <1>15, <1>18, <1>19, <1>20, <1>21, <1>24, <1>25
     DEF Rest, Numbered

\* A message is given to the application, or dropped once stop_ is set.
LEMMA DeliverMessageStep ==
    ASSUME Rest, deliver_message \/ discard_message
    PROVE  Rest'
<1>1. QueueTypes /\ Lines
  BY DEF Rest, TypeOK, QueueTypes
<1>2. Queued \subseteq Pending /\ Pending \subseteq Items
      /\ \A y \in Pending : y.con \in Conns \/ y.con = Loopback
  BY PendingItems DEF Rest
<1>3. PICK c, x : x = item /\ c = item.con
  OBVIOUS
<1>4. /\ thread = "deliver" /\ thread' = "run" /\ x.kind = "msg" /\ item' = NoItem
      /\ UNCHANGED <<high_queue, queue, stop, local_vars, conn, down>>
      /\ held' = Returned({Id(x)})
      /\ \/ seen' = seen
         \/ seen' = [seen EXCEPT ![c].last[x.prio] = x.num]
  BY <1>3 DEF deliver_message, discard_message
<1>5. x \in Pending /\ x \in Items /\ (c \in Conns \/ c = Loopback) /\ x.con = c
      /\ x.prio \in Prios /\ x.num \in Nat
  BY <1>2, <1>3, <1>4 DEF Pending, Items
<1>6. Queued' = Queued /\ QueueTypes' /\ Lines' /\ item'.kind = "none"
  BY <1>1, <1>4 DEF Queued, QueueTypes, Lines, NoItem
<1>7. Pending' = Queued /\ Pending = Queued \cup {x} /\ x \notin Queued
  BY <1>3, <1>4, <1>5, <1>6 DEF Pending, Rest, Numbered, ItemFirst
<1>8. seen \in [Conns \cup {Loopback} -> SeenStates] /\ seen[c] \in SeenStates
  BY <1>5 DEF Rest, TypeOK
<1>9. /\ seen' \in [Conns \cup {Loopback} -> SeenStates]
      /\ \A d \in Conns \cup {Loopback} :
            seen'[d].told = seen[d].told /\ seen'[d].epoch = seen[d].epoch
      /\ \A d \in Conns \cup {Loopback}, q \in Prios :
            seen'[d].last[q] \in {seen[d].last[q],
               IF d = c /\ q = x.prio THEN x.num ELSE seen[d].last[q]}
  <2>1. CASE seen' = seen
    BY <1>8, <2>1
  <2>2. CASE seen' = [seen EXCEPT ![c].last[x.prio] = x.num]
    <3>1. PICK r : r = [seen[c] EXCEPT !.last[x.prio] = x.num]
      OBVIOUS
    <3>2. seen[c].last \in [Prios -> Nat]
      BY <1>8 DEF SeenStates
    <3>3. r = [told |-> seen[c].told, epoch |-> seen[c].epoch,
               last |-> [seen[c].last EXCEPT ![x.prio] = x.num]]
      BY <1>8, <3>1 DEF SeenStates
    <3>4. [seen[c].last EXCEPT ![x.prio] = x.num] \in [Prios -> Nat]
      BY <1>5, <3>2
    <3>5. r \in SeenStates
      BY <1>8, <3>3, <3>4 DEF SeenStates
    <3>6. seen' = [seen EXCEPT ![c] = r]
      BY <2>2, <3>1
    <3> QED
      BY <1>5, <1>8, <3>2, <3>3, <3>5, <3>6
  <2> QED
    BY <1>4, <2>1, <2>2
<1>11. LocalOrder'
  BY <1>4 DEF Rest, LocalOrder, local_vars
<1>12. Fenced'
  BY <1>4 DEF Fenced
<1>13. Conserved'
  <2>1. held = Units(PendingIds)
    BY <1>1, ConservedForm DEF Rest
  <2>2. ASSUME NEW y \in Queued, y.kind = "msg" PROVE Id(y) # Id(x)
    <3> SUFFICES ASSUME Id(y) = Id(x) PROVE FALSE
      OBVIOUS
    <3>1. y.con = x.con /\ y.num = x.num
      BY DEF Id
    <3> QED
      BY <1>4, <1>7, <2>2, <3>1 DEF Rest, Numbered, NumbersUnique
  <2>3. PendingIds' = PendingIds \ {Id(x)}
    BY <1>4, <1>7, <2>2 DEF PendingIds
  <2>4. {Id(x)} \cap MsgIds \subseteq PendingIds
    <3>1. Id(x) \in MsgIds => x.con # Loopback
      BY ConstantsAssumption DEF Id, MsgIds, Loopback
    <3> QED
      BY <1>4, <1>5, <3>1 DEF PendingIds
  <2>5. Returned({Id(x)}) = Units(PendingIds \ {Id(x)})
    BY <2>1, <2>4, UnitsReturned
  <2>6. held' = Units(PendingIds')
    BY <1>4, <2>3, <2>5
  <2>7. held' = Units(PendingIds)'
    BY <2>6 DEF Units, MsgIds
  <2> QED
    BY <1>6, <2>7, ConservedFormPrimed
<1>10. TypeOK'
  <2>1. held' \in [MsgIds -> Nat]
    BY <1>13 DEF Conserved
  <2> QED
    BY <1>4, <1>6, <1>9, <2>1 DEF Rest, TypeOK, QueueTypes, local_vars, ThreadStates
<1>14. \A d, n : Past(d, n)' = Past(d, n)
  BY <1>4 DEF Past, local_vars
<1>15. Past(c, x.num)
  BY <1>4, <1>5 DEF Rest, Numbered, NumbersPast
<1>16. NumbersPast'
  <2> SUFFICES ASSUME NEW y \in Queued, y.kind = "msg"
               PROVE  Past(y.con, y.num) /\ seen'[y.con].last[y.prio] < y.num
    BY <1>7, <1>14 DEF NumbersPast
  <2>1. Past(y.con, y.num) /\ seen[y.con].last[y.prio] < y.num
    BY <1>2 DEF Rest, Numbered, NumbersPast
  <2>2. y.con = c /\ y.prio = x.prio => x.num < y.num
    BY <1>3, <1>4 DEF Rest, Numbered, ItemFirst
  <2>3. y.con \in Conns \cup {Loopback} /\ y.prio \in Prios
    BY <1>2 DEF Items
  <2> QED
    BY <1>9, <2>1, <2>2, <2>3
<1>17. SeenPast'
  BY <1>5, <1>9, <1>14, <1>15 DEF Rest, Numbered, SeenPast
<1>18. NumbersUnique'
  BY <1>7 DEF Rest, Numbered, NumbersUnique
<1>19. ItemFirst'
  BY <1>2, <1>6 DEF ItemFirst, Items
<1>20. \A d \in Conns : Announced(d)' = Announced(d)
  BY <1>4 DEF Announced
<1>21. NoticesFit'
  BY <1>2, <1>4, <1>6, <1>7, <1>9, <1>20 DEF Rest, NoticesFit
<1>22. NoticesKept'
  BY <1>4, <1>7, <1>9, <1>20 DEF Rest, NoticesKept
<1> QED
  BY <1>6, <1>10, <1>11, <1>12, <1>13, <1>16, <1>17, <1>18, <1>19, <1>21, <1>22
     DEF Rest, Numbered

\* The steps that leave queue and application alone: the dispatch thread goes
\* to sleep, wakes up or ends, and messages move towards the local thread.
LEMMA IdleStep ==
    ASSUME Rest, idle \/ spurious_wakeup
    PROVE  Rest'
<1>1. /\ UNCHANGED <<high_queue, queue, item, stop, local_vars, conn, down, held, seen>>
      /\ thread \in {"run", "sleep"} /\ thread' \in {"run", "sleep", "end"}
  BY DEF idle, spurious_wakeup
<1>2. TypeOK' /\ LocalOrder'
  BY <1>1 DEF Rest, TypeOK, LocalOrder, local_vars, ThreadStates
<1>3. SameStates /\ PastKept
  BY <1>1 DEF SameStates, PastKept, Past, local_vars
<1> QED
  BY <1>1, <1>2, <1>3, QuietStep

\* fast_dispatch() hands a message on without the queue.
LEMMA FastDispatchStep ==
    ASSUME Rest, NEW c \in Conns, fast_dispatch(c)
    PROVE  Rest'
<1>1. conn \in [Conns -> ConnStates] /\ conn[c] \in ConnStates /\ c # Loopback
  BY ConstantsAssumption DEF Loopback, Rest, TypeOK
<1>2. PICK r : r = [conn[c] EXCEPT !.num = @ + 1]
  OBVIOUS
<1>3. /\ conn' = [conn EXCEPT ![c] = r]
      /\ UNCHANGED <<dispatch_vars, local_vars, down, held, seen>>
  BY <1>1, <1>2 DEF fast_dispatch
<1>4. /\ r \in ConnStates /\ r.state = conn[c].state /\ r.epoch = conn[c].epoch
      /\ r.num = conn[c].num + 1 /\ conn[c].num \in Nat
  BY <1>1, <1>2 DEF ConnStates
<1>5. conn' \in [Conns -> ConnStates] /\ \A d \in Conns : conn'[d] = IF d = c THEN r ELSE conn[d]
  BY <1>1, <1>3, <1>4
<1>6. TypeOK' /\ LocalOrder'
  BY <1>3, <1>5 DEF Rest, TypeOK, LocalOrder, local_vars, dispatch_vars
<1>7. SameStates
  BY <1>3, <1>4, <1>5 DEF SameStates, dispatch_vars
<1>8. PastKept
  BY <1>1, <1>3, <1>4, <1>5 DEF PastKept, Past, local_vars
<1> QED
  BY <1>3, <1>6, <1>7, <1>8, QuietStep DEF dispatch_vars

\* local_delivery() adds a message of the loopback connection to local_messages.
LEMMA LocalDeliveryStep ==
    ASSUME Rest, NEW p \in Prios, local_delivery(p)
    PROVE  Rest'
<1>1. locals \in Nat /\ local_messages \in Seq(Items)
  BY DEF Rest, TypeOK
<1>2. PICK x : x = Msg(Loopback, p, locals + 1, 0)
  OBVIOUS
<1>3. x \in Items /\ x.kind = "msg" /\ x.con = Loopback /\ x.num = locals + 1
  BY <1>1, <1>2 DEF Msg, Items
<1>4. /\ locals' = locals + 1 /\ local_messages' = Append(local_messages, x)
      /\ local' \in {local, "run"} /\ (local # "sleep" => local' = local)
      /\ UNCHANGED <<dispatch_vars, local_item, stop_local, conn, down, held, seen>>
  BY <1>2 DEF local_delivery
<1>5. /\ local_messages' \in Seq(Items)
      /\ DOMAIN local_messages = 1 .. Len(local_messages)
      /\ DOMAIN local_messages' = 1 .. Len(local_messages) + 1
      /\ Len(local_messages) \in Nat
      /\ \A k \in 1 .. Len(local_messages) : local_messages'[k] = local_messages[k]
      /\ local_messages'[Len(local_messages) + 1] = x
  BY <1>1, <1>3, <1>4
<1>6. \A k \in DOMAIN local_messages' :
         k \in DOMAIN local_messages \/ k = Len(local_messages) + 1
  BY <1>5
<1>7. \A k \in DOMAIN local_messages' :
         /\ local_messages'[k].kind = "msg" /\ local_messages'[k].con = Loopback
         /\ local_messages'[k].num \in 1 .. locals'
  BY <1>1, <1>3, <1>4, <1>5, <1>6 DEF Rest, LocalOrder
<1>8. ASSUME NEW i \in DOMAIN local_messages', NEW j \in DOMAIN local_messages', i < j
      PROVE  local_messages'[i].num < local_messages'[j].num
  <2>1. i \in DOMAIN local_messages /\ local_messages'[i] = local_messages[i]
    BY <1>5, <1>8
  <2>2. local_messages[i].num \in 1 .. locals
    BY <2>1 DEF Rest, LocalOrder
  <2>3. CASE j \in DOMAIN local_messages
    BY <1>5, <1>8, <2>1, <2>3 DEF Rest, LocalOrder
  <2>4. CASE j = Len(local_messages) + 1
    BY <1>1, <1>3, <1>5, <2>1, <2>2, <2>4
  <2> QED
    BY <1>6, <2>3, <2>4
<1>9. LocalOrder'
  <2>1. local' = "deliver" =>
          /\ local_item'.kind = "msg" /\ local_item'.con = Loopback
          /\ local_item'.num \in 1 .. locals'
          /\ \A k \in DOMAIN local_messages' : local_item'.num < local_messages'[k].num
    BY <1>1, <1>3, <1>4, <1>5, <1>6 DEF Rest, LocalOrder
  <2> QED
    BY <1>7, <1>8, <2>1 DEF LocalOrder
<1>10. TypeOK'
  BY <1>1, <1>4, <1>5 DEF Rest, TypeOK, dispatch_vars, ThreadStates
<1>11. SameStates
  BY <1>4 DEF SameStates, dispatch_vars
<1>12. PastKept
  BY <1>1, <1>3, <1>4, <1>5, <1>6 DEF PastKept, Past
<1> QED
  BY <1>4, <1>9, <1>10, <1>11, <1>12, QuietStep DEF dispatch_vars

\* The local delivery thread takes the first of the local messages.
LEMMA LocalTakeStep ==
    ASSUME Rest, local_take
    PROVE  Rest'
<1>1. locals \in Nat /\ local_messages \in Seq(Items) /\ local_messages # <<>>
  BY DEF Rest, TypeOK, local_take
<1>2. /\ local_item' = Head(local_messages) /\ local_messages' = Tail(local_messages)
      /\ local' = "deliver"
      /\ UNCHANGED <<dispatch_vars, stop_local, locals, conn, down, held, seen>>
  BY DEF local_take
<1>3. /\ local_messages' \in Seq(Items) /\ local_item' \in Items
      /\ 1 \in DOMAIN local_messages /\ local_item' = local_messages[1]
      /\ \A k \in DOMAIN local_messages' :
            /\ k + 1 \in DOMAIN local_messages /\ k \in Nat /\ 1 < k + 1
            /\ local_messages'[k] = local_messages[k + 1]
  BY <1>1, <1>2
<1>4. LocalOrder'
  BY <1>2, <1>3 DEF Rest, LocalOrder
<1>5. TypeOK'
  BY <1>2, <1>3 DEF Rest, TypeOK, dispatch_vars, ThreadStates
<1>6. SameStates
  BY <1>2 DEF SameStates, dispatch_vars
<1>7. PastKept
  BY <1>2, <1>3 DEF PastKept, Past
<1> QED
  BY <1>2, <1>4, <1>5, <1>6, <1>7, QuietStep DEF dispatch_vars

\* The local delivery thread dispatches the message it took, or enqueues it.
LEMMA LocalDeliverStep ==
    ASSUME Rest, local_deliver
    PROVE  Rest'
<1>1. /\ local = "deliver" /\ local' = "run" /\ local_item' = NoItem
      /\ UNCHANGED <<local_messages, stop_local, locals, conn, down, held, seen>>
  BY DEF local_deliver
<1>2. LocalOrder'
  BY <1>1 DEF Rest, LocalOrder
<1>3. PastKept
  BY <1>1 DEF PastKept, Past
<1>4. CASE UNCHANGED dispatch_vars
  <2>1. TypeOK'
    BY <1>1, <1>4 DEF Rest, TypeOK, dispatch_vars, ThreadStates
  <2>2. SameStates
    BY <1>1, <1>4 DEF SameStates, dispatch_vars
  <2> QED
    BY <1>1, <1>2, <1>3, <1>4, <2>1, <2>2, QuietStep DEF dispatch_vars
<1>5. CASE enqueue(local_item)
  <2>1. PICK x : x = local_item
    OBVIOUS
  <2>2. /\ x \in Items /\ x.kind = "msg" /\ x.con = Loopback /\ x.num \in Nat
        /\ x.prio \in Prios
    BY <1>1, <2>1 DEF Rest, TypeOK, LocalOrder, NoItem, Items
  <2>3. /\ Enqueue(x) /\ UNCHANGED <<item, stop>>
        /\ thread' \in {thread, "run"} /\ (thread # "sleep" => thread' = thread)
    BY <1>5, <2>1 DEF enqueue, Signal
  <2>4. QueueTypes' => TypeOK'
    BY <1>1, <2>3 DEF Rest, TypeOK, QueueTypes, ThreadStates
  <2>5. SameStates
    BY <1>1, <2>3 DEF SameStates
  <2>6. Past(Loopback, x.num)'
    BY <1>1, <2>1 DEF Past, Rest, LocalOrder, TypeOK
  <2>7. seen[Loopback].last[x.prio] < x.num
    BY <1>1, <2>1, <2>2 DEF Rest, Numbered, SeenPast, Past
  <2>8. \A y \in Pending : y.kind = "msg" /\ y.con = Loopback => y.num < x.num
    BY <1>1, <2>1 DEF Rest, Numbered, NumbersPast, Past
  <2> QED
    BY <1>1, <1>2, <1>3, <2>2, <2>3, <2>4, <2>5, <2>6, <2>7, <2>8, EnqueueMessage
<1> QED
  BY <1>4, <1>5 DEF local_deliver

\* The local thread sleeps or ends, and shutdown() stops the threads.
LEMMA ShutdownStep ==
    ASSUME Rest,
           local_idle \/ mark_down_all \/ stop_local_delivery \/ stop_dispatch
              \/ UNCHANGED vars
    PROVE  Rest'
<1>1. /\ UNCHANGED <<high_queue, queue, item, conn, held, seen, local_messages,
                     local_item, locals>>
      /\ thread' \in {thread, "run"} /\ (thread # "sleep" => thread' = thread)
      /\ (local = "deliver" <=> local' = "deliver") /\ local' \in ThreadStates
      /\ stop' \in {"yes", "no"} /\ stop_local' \in {"yes", "no"}
      /\ down' \in {"no", "marked", "local", "joining", "done"}
      /\ (down \in {"no", "marked"} <=> down' \in {"no", "marked"})
  BY DEF local_idle, mark_down_all, stop_local_delivery, stop_dispatch, vars, Signal,
         dispatch_vars, local_vars, Rest, TypeOK, ThreadStates
<1>2. TypeOK'
  BY <1>1 DEF Rest, TypeOK, ThreadStates
<1>3. LocalOrder'
  BY <1>1 DEF Rest, LocalOrder
<1>4. SameStates /\ PastKept
  BY <1>1 DEF SameStates, PastKept, Past
<1> QED
  BY <1>1, <1>2, <1>3, <1>4, QuietStep

-----------------------------------------------------------------------------
\* Nothing is stopped at the start.
LEMMA StopOrderInit == Init => StopOrder
BY DEF Init, StopOrder

\* What the event threads do: nothing, once the barrier was passed.
LEMMA StopOrderEvent ==
    ASSUME StopOrder, NEW c \in Conns, EventThread(c)
    PROVE  StopOrder'
<1>1. /\ conn[c].state \notin {"new", "closed", "marked_down"}
            \/ down \in {"no", "marked"}
      /\ UNCHANGED <<local_vars, down>>
  BY DEF EventThread, queue_accept, fast_dispatch, session_discard,
         queue_remote_reset, stop_discard, stop_marked_down, queue_reset, receive
<1>2. down \in {"no", "marked"}
  BY <1>1 DEF StopOrder, Barrier
<1>3. stop # "yes" /\ thread # "end"
  BY <1>2 DEF StopOrder
<1>4. stop' = stop
  BY DEF EventThread, queue_accept, fast_dispatch, session_discard,
         queue_remote_reset, stop_discard, stop_marked_down, queue_reset, receive, queue_notice,
         enqueue, discard_queue, dispatch_vars
<1>5. thread' # "end"
  BY <1>3 DEF EventThread, queue_accept, fast_dispatch, session_discard,
         queue_remote_reset, stop_discard, stop_marked_down, queue_reset, receive, queue_notice,
         enqueue, discard_queue, dispatch_vars, Signal
<1> QED
  BY <1>1, <1>2, <1>3, <1>4, <1>5 DEF StopOrder, local_vars

\* The dispatch thread.
LEMMA StopOrderEntry ==
    ASSUME StopOrder, entry \/ spurious_wakeup
    PROVE  StopOrder'
<1>1. UNCHANGED <<stop, local_vars, conn, down>>
  BY DEF entry, dequeue, idle, deliver_notice, deliver_message, discard_message,
         spurious_wakeup
<1>2. thread # "end"
  BY DEF entry, dequeue, idle, deliver_notice, deliver_message, discard_message,
         spurious_wakeup
<1>3. thread' = "end" => stop = "yes" /\ Empty /\ UNCHANGED <<queue, high_queue>>
  BY DEF entry, dequeue, idle, deliver_notice, deliver_message, discard_message,
         spurious_wakeup
<1>4. thread' = "end" => stop' = "yes" /\ Empty'
  BY <1>1, <1>3 DEF Empty
<1> QED
  BY <1>1, <1>4 DEF StopOrder, Barrier, local_vars

\* The local delivery thread and the messages to oneself.
LEMMA StopOrderLocal ==
    ASSUME StopOrder,
           run_local_delivery \/ \E p \in Prios : local_delivery(p)
    PROVE  StopOrder'
<1>1. UNCHANGED <<stop, stop_local, conn, down>>
  BY DEF run_local_delivery, local_take, local_deliver, local_idle,
         local_delivery, enqueue, dispatch_vars
<1>2. local # "end"
  BY DEF run_local_delivery, local_take, local_deliver, local_idle,
         local_delivery, StopOrder
<1>3. thread # "end" /\ stop # "yes"
  BY <1>2 DEF StopOrder
<1>4. thread' # "end"
  BY <1>3 DEF run_local_delivery, local_take, local_deliver, local_idle,
         local_delivery, enqueue, Signal, dispatch_vars
<1>5. local' = "end" => down' = "joining" /\ local_messages' = <<>>
  BY <1>1, <1>2 DEF StopOrder, run_local_delivery, local_take, local_deliver, local_idle,
         local_delivery
<1> QED
  BY <1>1, <1>3, <1>4, <1>5 DEF StopOrder, Barrier

\* shutdown() itself.
LEMMA StopOrderShutdown ==
    ASSUME StopOrder, shutdown
    PROVE  StopOrder'
<1>1. CASE mark_down_all
  BY <1>1 DEF mark_down_all, StopOrder, Barrier, Empty, local_vars, dispatch_vars
<1>2. CASE local_stop
  <2>1. stop # "yes" /\ thread # "end"
    BY <1>2 DEF local_stop, StopOrder
  <2>2. stop' = stop /\ thread' # "end"
    BY <1>2, <2>1 DEF local_stop, queue_notice, Signal, dispatch_vars
  <2>3. stop_local # "yes" /\ local # "end"
    BY <1>2 DEF local_stop, StopOrder
  <2> QED
    BY <1>2, <2>1, <2>2, <2>3 DEF local_stop, StopOrder, Barrier, local_vars
<1>3. CASE stop_local_delivery
  <2>1. stop # "yes" /\ thread # "end" /\ Barrier /\ local # "end"
    BY <1>3 DEF stop_local_delivery, StopOrder
  <2> QED
    BY <1>3, <2>1 DEF stop_local_delivery, StopOrder, Barrier, dispatch_vars
<1>4. CASE stop_dispatch
  <2>1. thread # "end" /\ Barrier /\ local = "end"
    BY <1>4 DEF stop_dispatch, StopOrder, Joined
  <2>2. thread' # "end"
    BY <1>4, <2>1 DEF stop_dispatch, Signal
  <2> QED
    BY <1>4, <2>1, <2>2 DEF stop_dispatch, StopOrder, Barrier
<1> QED
  BY <1>1, <1>2, <1>3, <1>4 DEF shutdown

\* A step that changes nothing.
LEMMA StopOrderStutter ==
    ASSUME StopOrder, UNCHANGED vars
    PROVE  StopOrder'
BY DEF StopOrder, Barrier, Empty, vars

\* Every step keeps the order of shutdown().
LEMMA StopOrderStep == StopOrder /\ [Next]_vars => StopOrder'
<1> SUFFICES ASSUME StopOrder, [Next]_vars PROVE StopOrder'
  OBVIOUS
<1>1. CASE \E c \in Conns : EventThread(c)
  BY <1>1, StopOrderEvent
<1>2. CASE entry \/ spurious_wakeup
  BY <1>2, StopOrderEntry
<1>3. CASE run_local_delivery \/ \E p \in Prios : local_delivery(p)
  BY <1>3, StopOrderLocal
<1>4. CASE shutdown
  BY <1>4, StopOrderShutdown
<1>5. CASE UNCHANGED vars
  BY <1>5, StopOrderStutter
<1> QED
  BY <1>1, <1>2, <1>3, <1>4, <1>5 DEF Next

\* shutdown() stops event threads, local thread and dispatch thread in this
\* order, and none of them starts again.
THEOREM StopOrderInvariant == Spec => []StopOrder
BY StopOrderInit, StopOrderStep, PTL DEF Spec

\* When the dispatch thread has ended, no message and no notice is left in
\* the queue or on its way to it: DispatchQueue::shutdown() drains both queues.
THEOREM ShutdownDrains == Spec => []NothingLeft
<1>1. StopOrder => NothingLeft
  BY DEF StopOrder, NothingLeft
<1> QED
  BY <1>1, StopOrderInvariant, PTL
-----------------------------------------------------------------------------
(***************************************************************************)
(* The theorems.                                                           *)
(***************************************************************************)
\* The inductive invariant.
IInv == StopOrder /\ Rest

\* The invariant holds at the start.
LEMMA InitInvariant == Init => IInv
<1> SUFFICES ASSUME Init PROVE Rest
  BY StopOrderInit DEF IInv
<1>1. /\ queue = <<>> /\ high_queue = [p \in High |-> <<>>] /\ item = NoItem
      /\ local_messages = <<>> /\ local = "run" /\ thread = "run" 
      /\ held = [x \in MsgIds |-> 0]
      /\ conn = [c \in Conns |-> [state |-> "new", num |-> 0, epoch |-> 0]]
      /\ locals = 0 /\ down = "no"
  BY DEF Init
<1>2. QueueTypes /\ Lines /\ Queued = {} /\ Pending = {}
  BY <1>1 DEF QueueTypes, Lines, Ordered, Queued, Entries, Pending, NoItem
<1>3. /\ seen \in [Conns \cup {Loopback} -> SeenStates]
      /\ \A c \in Conns \cup {Loopback}, p \in Prios : seen[c].last[p] = 0
      /\ \A c \in Conns \cup {Loopback} : seen[c].epoch = 0
      /\ seen[Loopback].told = "open"
      /\ \A c \in Conns : seen[c].told = "new"
  BY ConstantsAssumption DEF Init, SeenStates, Loopback
<1>4. TypeOK
  <2>1. conn \in [Conns -> ConnStates] /\ local_item = NoItem
        /\ stop = "no" /\ stop_local = "no"
    BY <1>1 DEF ConnStates, Init
  <2> QED
    BY <1>1, <1>2, <1>3, <2>1 DEF TypeOK, QueueTypes, ThreadStates
<1>5. LocalOrder
  BY <1>1 DEF LocalOrder
<1>6. Numbered
  BY <1>1, <1>2, <1>3 DEF Numbered, NumbersPast, NumbersUnique, ItemFirst, SeenPast, Past
<1>7. NoticesFit /\ NoticesKept
  BY <1>1, <1>2, <1>3 DEF NoticesFit, NoticesKept, Announced, NoItem
<1>8. Fenced
  BY <1>1 DEF Fenced
<1>9. Conserved
  <2>1. PendingIds = {}
    BY <1>2 DEF PendingIds
  <2>2. held = Units(PendingIds)
    BY <1>1, <2>1 DEF Units
  <2> QED
    BY <1>2, <2>2, ConservedForm
<1> QED
  BY <1>2, <1>4, <1>5, <1>6, <1>7, <1>8, <1>9 DEF Rest

\* Every step keeps the invariant, one lemma per operation.
LEMMA StepInvariant == IInv /\ [Next]_vars => IInv'
<1> SUFFICES ASSUME IInv, [Next]_vars PROVE Rest'
  BY StopOrderStep DEF IInv
<1>1. StopOrder /\ Rest
  BY DEF IInv
<1>2. ASSUME NEW c \in Conns, EventThread(c) PROVE Rest'
  <2>1. ASSUME queue_accept(c) \/ queue_remote_reset(c) \/ queue_reset(c)
        PROVE  stop = "no"
    <3>1. conn[c].state \notin {"new", "closed", "marked_down"}
            \/ down \in {"no", "marked"}
      BY <2>1 DEF queue_accept, queue_remote_reset, queue_reset
    <3>2. stop # "yes"
      BY <1>1, <3>1 DEF StopOrder, Barrier
    <3> QED
      BY <1>1, <3>2 DEF Rest, TypeOK
  <2>2. CASE queue_accept(c)
    BY <1>1, <2>1, <2>2, AcceptStep
  <2>3. CASE queue_remote_reset(c)
    BY <1>1, <2>1, <2>3, RemoteResetStep
  <2>4. CASE queue_reset(c)
    BY <1>1, <2>1, <2>4, ResetStep
  <2>5. CASE fast_dispatch(c)
    BY <1>1, <2>5, FastDispatchStep
  <2>6. CASE session_discard(c)
    BY <1>1, <2>6, SessionDiscardStep
  <2>7. CASE stop_discard(c) \/ stop_marked_down(c)
    BY <1>1, <2>7, StopDiscardStep
  <2>8. CASE \E p \in Prios : receive(c, p)
    BY <1>1, <2>8, ReceiveStep
  <2> QED
    BY <1>2, <2>2, <2>3, <2>4, <2>5, <2>6, <2>7, <2>8 DEF EventThread
<1>3. CASE entry \/ spurious_wakeup
  BY <1>1, <1>3, DequeueStep, IdleStep, DeliverNoticeStep, DeliverMessageStep DEF entry
<1>4. CASE run_local_delivery \/ \E p \in Prios : local_delivery(p)
  BY <1>1, <1>4, LocalTakeStep, LocalDeliverStep, LocalDeliveryStep, ShutdownStep
     DEF run_local_delivery
<1>5. CASE shutdown
  <2>1. CASE local_stop
    <3>1. stop = "no"
      BY <1>1, <2>1 DEF local_stop, StopOrder, Rest, TypeOK
    <3> QED
      BY <1>1, <2>1, <3>1, LocalStopStep
  <2> QED
    BY <1>1, <1>5, <2>1, ShutdownStep DEF shutdown
<1>6. CASE UNCHANGED vars
  BY <1>1, <1>6, ShutdownStep
<1> QED
  BY <1>2, <1>3, <1>4, <1>5, <1>6 DEF Next

\* Queue, threads and notices stay consistent.
THEOREM Invariant == Spec => []IInv
BY InitInvariant, StepInvariant, PTL DEF Spec

\* The queue and the threads' state are well formed whatever the connections,
\* the application and shutdown() do.
THEOREM TypeCorrect == Spec => []TypeOK
<1>1. IInv => TypeOK
  BY DEF IInv, Rest
<1> QED
  BY <1>1, Invariant, PTL

\* The application is given a message of a connection after the connection was
\* announced, before its end is, and in the session it was told of: discarding
\* in was_session_reset() and _stop() before the notice is queued is enough.
THEOREM DeliveryFenced == Spec => []Fenced
<1>1. IInv => Fenced
  BY DEF IInv, Rest
<1> QED
  BY <1>1, Invariant, PTL

\* One unit of the message throttle is held for each message that is queued or in
\* the dispatch thread's hands, and none for any other: none is lost, and none is
\* returned twice.
THEOREM ThrottleConserved == Spec => []Conserved
<1>1. IInv => Conserved
  BY DEF IInv, Rest
<1> QED
  BY <1>1, Invariant, PTL

\* When the dispatch thread has ended, the reset of every connection that was
\* opened and not marked down, and of the loopback connection, was given to the
\* application, and no other.
THEOREM ResetsDelivered == Spec => []AllTold
<1>1. IInv => AllTold
  <2> SUFFICES ASSUME IInv, thread = "end"
               PROVE  /\ seen[Loopback].told = "closed"
                      /\ \A c \in Conns :
                            conn[c].state \notin {"new", "marked_down"} <=>
                               seen[c].told = "closed"
    BY DEF AllTold
  <2>1. stop = "yes" /\ Empty /\ down = "done" /\ Barrier
    BY DEF IInv, StopOrder
  <2>2. Queued = {}
    BY <2>1 DEF Empty, Queued, Entries
  <2>3. item.kind = "none"
    BY DEF IInv, Rest, NoticesFit
  <2>4. Pending = {}
    BY <2>2, <2>3 DEF Pending
  <2>5. seen[Loopback].told = "closed"
    BY <2>1, <2>4 DEF IInv, Rest, NoticesKept
  <2>6. ASSUME NEW c \in Conns, conn[c].state \notin {"new", "marked_down"}
        PROVE  seen[c].told = "closed"
    BY <2>1, <2>4, <2>6 DEF IInv, Rest, NoticesKept, Barrier
  <2>7. ASSUME NEW c \in Conns, seen[c].told = "closed" PROVE conn[c].state = "closed"
    BY <2>7 DEF IInv, Rest, NoticesKept
  <2> QED
    BY <2>5, <2>6, <2>7
<1> QED
  BY <1>1, Invariant, PTL

\* The application sees the messages of one connection and one priority in the
\* order of their numbers.
THEOREM DeliveryInOrder == Spec => InOrder
<1> DEFINE A == \A c \in Conns \cup {Loopback}, p \in Prios :
                   seen'[c].last[p] >= seen[c].last[p]
<1>1. IInv /\ [Next]_vars => [A]_vars
  <2> SUFFICES ASSUME IInv, Next PROVE A
    OBVIOUS
  <2>1. Rest /\ seen \in [Conns \cup {Loopback} -> SeenStates]
    BY DEF IInv, Rest, TypeOK
  <2>2. \A c \in Conns \cup {Loopback} : seen[c].last \in [Prios -> Nat]
    BY <2>1 DEF SeenStates
  <2>3. CASE seen' = seen
    BY <2>2, <2>3
  <2>4. CASE deliver_message
    <3>1. /\ item.kind = "msg" /\ item \in Pending /\ item \in Items
          /\ item.con \in Conns \cup {Loopback} /\ item.prio \in Prios /\ item.num \in Nat
      BY <2>1, <2>4, PendingItems DEF deliver_message, Pending, Rest, Items
    <3>2. seen[item.con].last[item.prio] < item.num
      BY <2>1, <3>1 DEF Rest, Numbered, NumbersPast
    <3>3. seen' = [seen EXCEPT ![item.con].last[item.prio] = item.num]
      BY <2>4 DEF deliver_message
    <3>4. \A c \in Conns \cup {Loopback} : seen'[c].last =
             IF c = item.con THEN [seen[c].last EXCEPT ![item.prio] = item.num]
             ELSE seen[c].last
      BY <2>1, <3>1, <3>3 DEF SeenStates
    <3>5. ASSUME NEW c \in Conns \cup {Loopback}, NEW p \in Prios
          PROVE  seen'[c].last[p] >= seen[c].last[p]
      <4>1. CASE c = item.con /\ p = item.prio
        <5>1. seen'[c].last[p] = item.num
          BY <2>2, <3>1, <3>4, <4>1
        <5>2. seen[c].last[p] \in Nat /\ seen[c].last[p] < item.num
          BY <2>2, <3>2, <3>5, <4>1
        <5> QED
          BY <3>1, <5>1, <5>2
      <4>2. CASE ~ (c = item.con /\ p = item.prio)
        <5>1. seen'[c].last[p] = seen[c].last[p]
          BY <2>2, <3>1, <3>4, <3>5, <4>2
        <5> QED
          BY <2>2, <3>5, <5>1
      <4> QED
        BY <4>1, <4>2
    <3> QED
      BY <3>5
  <2>5. CASE deliver_notice
    <3>1. \A c \in Conns \cup {Loopback} : seen'[c].last = seen[c].last
      BY <2>1, <2>5 DEF deliver_notice, SeenStates
    <3>2. \A c \in Conns \cup {Loopback}, p \in Prios : seen[c].last[p] \in Nat
      BY <2>2
    <3> QED
      BY <3>1, <3>2
  <2>6. seen' = seen \/ deliver_message \/ deliver_notice
    BY DEF Next, EventThread, queue_accept, receive, fast_dispatch, session_discard,
           queue_remote_reset, stop_discard, stop_marked_down, queue_reset, entry, dequeue, idle,
           discard_message, spurious_wakeup, run_local_delivery, local_take,
           local_deliver, local_idle, local_delivery, shutdown, mark_down_all,
           local_stop, stop_local_delivery, stop_dispatch
  <2> QED
    BY <2>3, <2>4, <2>5, <2>6
<1> QED
  BY <1>1, Invariant, PTL DEF Spec, InOrder

=============================================================================
