---------------------------- MODULE WriterProofs ----------------------------
(***************************************************************************)
(* Theorems about Writer, for any number of application threads, messages, *)
(* priorities and events of the environment.                               *)
(***************************************************************************)
EXTENDS Writer, SubsequencesProofs

-----------------------------------------------------------------------------
(***************************************************************************)
(* The inductive invariant.  P is the priority of each message, Q the      *)
(* queues, S the sent list, T and D the messages settled and dropped.      *)
(***************************************************************************)
Pieces == Nat \X (1..4)

ConStates ==
    [state : {"OPEN", "READ_DATA", "TAG_CLOSE", "WAIT_SEND", "WAIT_REPLY", "ACCEPTING",
              "CONNECTING", "STANDBY", "CLOSED"},
     sock : {"none", "up", "broken"},
     lossy : BOOLEAN, server : BOOLEAN, standby : BOOLEAN,
     out_q : [1..Highest -> Seq(Nat)], sent : Seq(Nat), outcoming_bl : Seq(Pieces),
     sending : BOOLEAN, want_send : BOOLEAN, handle_write_delayed : BOOLEAN,
     ev_write : BOOLEAN, keepalive : BOOLEAN, keepalive_ack : BOOLEAN,
     ack_due : BOOLEAN, stopping : BOOLEAN, replacing : {0, 1, 2},
     state_after_send : {"OPEN", "CONNECTING", "WAIT_REPLY", "ACCEPTING"},
     wire : Seq(Pieces), flushed : SUBSET Nat, prio : Seq(Nat),
     settled : SUBSET Nat, dropped : SUBSET Nat, late : BOOLEAN]

\* m is in the sequence s; in one of the queues.
In(s, m) == \E i \in 1..Len(s) : s[i] = m
InQ(Q, m) == \E q \in 1..Highest : In(Q[q], m)

\* The elements of s are distinct, and those of a priority in order.
Sorted(P, s) ==
    \A i, j \in 1..Len(s) :
        i < j => s[i] # s[j] /\ (P[s[i]] = P[s[j]] => s[i] < s[j])

\* No element of s is in t, and those of a priority are before those of t.
Precedes(P, s, t) ==
    \A i \in 1..Len(s), j \in 1..Len(t) :
        s[i] # t[j] /\ (P[s[i]] = P[t[j]] => s[i] < t[j])

\* The order: along the sent list, the messages queued again and each queue.
InLine(P, Q, S) ==
    /\ Sorted(P, S)
    /\ \A q \in 1..Highest : Sorted(P, Q[q]) /\ Precedes(P, S, Q[q])
    /\ \A q \in 1..(Highest - 1) :
          /\ Precedes(P, Q[Highest], Q[q])
          /\ \A i \in 1..Len(Q[q]) : P[Q[q][i]] = q

\* Every message is in one place.
Placed(P, Q, S, T, D) ==
    /\ \A m \in Nat : m \in 1..Len(P) <=> InQ(Q, m) \/ In(S, m) \/ m \in T \/ m \in D
    /\ \A m \in T : ~InQ(Q, m) /\ ~In(S, m) /\ m \notin D
    /\ \A m \in D : ~InQ(Q, m) /\ ~In(S, m)
    /\ \A m \in Nat : ~(InQ(Q, m) /\ In(S, m))

MsgsOK(P, Q, S, T, D) ==
    /\ P \in Seq(Nat) /\ Q \in [1..Highest -> Seq(Nat)] /\ S \in Seq(Nat)
    /\ T \subseteq Nat /\ D \subseteq Nat
    /\ Placed(P, Q, S, T, D) /\ InLine(P, Q, S)

\* What was written to a socket and what is still to be written to it.
Halves(w) ==
    /\ w \in Seq(Pieces)
    /\ \A i \in 1..Len(w), m \in Nat \ {0} :
          /\ w[i] = Part(m, 2) => i > 1 /\ w[i - 1] = Part(m, 1)
          /\ w[i] = Part(m, 1) /\ i < Len(w) => w[i + 1] = Part(m, 2)
    /\ \A i, j \in 1..Len(w) : w[i] = w[j] /\ w[i][1] # 0 => i = j
    /\ \A i \in 2..Len(w) : w[i] # Handshake

Written(P, T, D, w) ==
    /\ \A i \in 1..Len(w) : w[i][1] <= Len(P)
    /\ \A a, b \in 1..Len(P) :
          (a < b /\ P[a] = P[b]) =>
              \A x \in 1..Len(w) :
                  w[x] = Part(b, 1) =>
                      \/ a \in T \cup D
                      \/ \E y \in 1..(x - 1) : w[y] = Part(a, 2)

\* A socket that is still written to.
Live(Q, S, w) ==
    /\ \A i \in 1..Len(w), m \in Nat \ {0} : w[i] = Part(m, 1) => i < Len(w)
    /\ \A i \in 1..Len(w) : ~InQ(Q, w[i][1])
    /\ \A i \in 1..Len(S) : In(w, Part(S[i], 2))

\* What will have been written when r is: nothing more, if the socket is down.
Ahead(k, r) == IF k.sock = "up" THEN k.wire \o r ELSE k.wire

StreamOK(k, w) ==
    /\ Halves(w) /\ Written(k.prio, k.settled, k.dropped, w)
    /\ k.sock = "up" => Live(k.out_q, k.sent, w)

\* The connection when r is left of the output buffer to write.
Sound(k, r) ==
    /\ k \in ConStates /\ r \in Seq(Pieces)
    /\ MsgsOK(k.prio, k.out_q, k.sent, k.settled, k.dropped)
    /\ StreamOK(k, Ahead(k, r))

LinkOK(k) ==
    /\ k.sock = "none" <=> k.state \in {"CONNECTING", "STANDBY", "CLOSED"}
    /\ k.sock = "none" => k.sent = <<>>
    /\ k.state \notin OpenStates \cup {"WAIT_SEND"} => k.outcoming_bl = <<>>
    /\ k.state = "WAIT_SEND" => /\ k.outcoming_bl = <<Handshake>>
                                /\ k.state_after_send \in {"WAIT_REPLY", "ACCEPTING"}

-----------------------------------------------------------------------------
\* A thread that has released the lock around sendmsg; one whose pieces are still
\* in the output buffer.
Sends(t) == pc[t] \in {"sendmsg", "failed"}
Writing(t) == Sends(t) /\ con.outcoming_bl = io[t].done \o io[t].todo

ThreadStates ==
    /\ pc \in [Threads -> {"idle", "sendmsg", "failed", "mark_down", "wait_sending", "stop"}]
    /\ io \in [Threads -> [todo : Seq(Pieces), done : Seq(Pieces),
                           stage : {"none", "direct", "messages", "rest", "flush"}]]

\* At most one thread sends, and `sending` says so.
OneSender ==
    /\ \A t \in Threads : Sends(t) => con.sending
    /\ \A t, u \in Threads : Sends(t) /\ Sends(u) => t = u

\* The event thread keeps the buffer it writes; a direct send may lose its pieces
\* to a stop or a replacement, after which the buffer stays empty.
EventSend ==
    Sends(Ev) =>
        /\ Writing(Ev)
        /\ \/ io[Ev].stage = "flush" /\ con.state = "WAIT_SEND"
           \/ io[Ev].stage \in {"messages", "rest"} /\ con.state \in OpenStates

DirectSend ==
    \A a \in Apps : Sends(a) =>
        /\ \E m \in Nat \ {0} : io[a].done \o io[a].todo = Whole(m)
        /\ \/ Writing(a) /\ con.state \in OpenStates
           \/ con.outcoming_bl \in {<<>>, <<Handshake>>}
        /\ Writing(a) => con.late \/ \A m \in Nat : ~InQ(con.out_q, m)

\* A send fails because the socket is down, and it stays down until the output
\* buffer is cleared.
Failed == \A t \in Threads : pc[t] = "failed" /\ Writing(t) => con.sock # "up"

\* What is left to write is what the sender has left, or the output buffer.
Stream ==
    /\ \A t \in Threads : Writing(t) => Sound(con, io[t].todo)
    /\ (\A t \in Threads : ~Writing(t)) => Sound(con, con.outcoming_bl)

\* Awake, with the queues element by element.
Scheduled ==
    ( /\ con.state \in {"OPEN", "READ_DATA"} /\ ~con.sending /\ pc[Ev] # "stop"
      /\ (\E m \in Nat : InQ(con.out_q, m)) \/ con.outcoming_bl # <<>> ) =>
        con.ev_write \/ con.late

IInv ==
    /\ ThreadStates /\ OneSender /\ EventSend /\ DirectSend /\ Failed
    /\ LinkOK(con) /\ Stream /\ Scheduled

-----------------------------------------------------------------------------
(***************************************************************************)
(* Messages: what the operations on the queues and the sent list keep.     *)
(***************************************************************************)
\* The elements of a sequence are in the set it is over.
LEMMA Elements ==
    ASSUME NEW X, NEW s \in Seq(X)
    PROVE  Len(s) \in Nat /\ \A i \in 1..Len(s) : s[i] \in X
OBVIOUS

\* A queue is a sequence of message numbers.
LEMMA QueueElements ==
    ASSUME NEW Q \in [1..Highest -> Seq(Nat)], NEW q \in 1..Highest
    PROVE  Q[q] \in Seq(Nat) /\ Len(Q[q]) \in Nat /\ \A i \in 1..Len(Q[q]) : Q[q][i] \in Nat
<1>1. Q[q] \in Seq(Nat)
  OBVIOUS
<1> QED
  BY <1>1, Elements

\* A message is in one queue, at one place.
LEMMA OneQueue ==
    ASSUME NEW P, NEW Q \in [1..Highest -> Seq(Nat)], NEW S, InLine(P, Q, S),
           NEW q \in 1..Highest, NEW r \in 1..Highest,
           NEW i \in 1..Len(Q[q]), NEW j \in 1..Len(Q[r]), Q[q][i] = Q[r][j]
    PROVE  q = r /\ i = j
<1>1. Highest \in Nat /\ q \in Nat /\ r \in Nat /\ i \in Nat /\ j \in Nat
  BY ConstantsAssumption
<1>2. CASE q = r
  BY <1>1, <1>2 DEF InLine, Sorted
<1>3. CASE q # r /\ q # Highest /\ r # Highest
  <2>1. q \in 1..(Highest - 1) /\ r \in 1..(Highest - 1)
    BY <1>1, <1>3
  <2> QED
    BY <1>3, <2>1 DEF InLine
<1>4. CASE q # r /\ q = Highest
  <2>1. r \in 1..(Highest - 1)
    BY <1>1, <1>4
  <2> QED
    BY <1>4, <2>1 DEF InLine, Precedes
<1>5. CASE q # r /\ r = Highest
  <2>1. q \in 1..(Highest - 1)
    BY <1>1, <1>5
  <2> QED
    BY <1>5, <2>1 DEF InLine, Precedes
<1> QED
  BY <1>2, <1>3, <1>4, <1>5

\* The rest of a sequence after n elements.
LEMMA Rest ==
    ASSUME NEW X, NEW s \in Seq(X), NEW n \in Nat, n <= Len(s)
    PROVE  /\ SubSeq(s, n + 1, Len(s)) \in Seq(X)
           /\ Len(SubSeq(s, n + 1, Len(s))) = Len(s) - n
           /\ \A i \in 1..(Len(s) - n) :
                 SubSeq(s, n + 1, Len(s))[i] = s[n + i] /\ n + i \in 1..Len(s)
           /\ SubSeq(s, 1, n) \in Seq(X) /\ Len(SubSeq(s, 1, n)) = n
           /\ \A i \in 1..n : SubSeq(s, 1, n)[i] = s[i]
<1>1. Len(s) \in Nat
  OBVIOUS
<1> QED
  BY <1>1

\* t is what is left of s without its first n elements.
After(s, n, t) ==
    /\ t \in Seq(Nat) /\ Len(t) = Len(s) - n
    /\ \A i \in 1..Len(t) : t[i] = s[n + i] /\ n + i \in 1..Len(s)

\* What is in s is in the rest of s or among its first n elements.
LEMMA AfterIn ==
    ASSUME NEW s \in Seq(Nat), NEW n \in Nat, n <= Len(s), NEW t, After(s, n, t)
    PROVE  \A m : In(s, m) <=> In(t, m) \/ \E i \in 1..n : s[i] = m
<1>1. Len(s) \in Nat /\ Len(t) \in Nat
  BY DEF After
<1>2. ASSUME NEW m, In(s, m), ~ \E i \in 1..n : s[i] = m PROVE In(t, m)
  <2>1. PICK i \in 1..Len(s) : s[i] = m
    BY <1>2 DEF In
  <2>2. i - n \in 1..Len(t) /\ n + (i - n) = i
    BY <1>1, <1>2, <2>1 DEF After
  <2> QED
    BY <2>1, <2>2 DEF In, After
<1>3. ASSUME NEW m, In(t, m) PROVE In(s, m)
  BY <1>3 DEF In, After
<1>4. ASSUME NEW m, \E i \in 1..n : s[i] = m PROVE In(s, m)
  BY <1>1, <1>4 DEF In
<1> QED
  BY <1>2, <1>3, <1>4

\* The rest of a list in order is in order, and has none of the first n.
LEMMA AfterSorted ==
    ASSUME NEW P, NEW s \in Seq(Nat), NEW n \in Nat, n <= Len(s), NEW t, After(s, n, t),
           Sorted(P, s)
    PROVE  Sorted(P, t) /\ \A i \in 1..n : ~In(t, s[i])
<1>1. Len(s) \in Nat /\ Len(t) \in Nat
  BY DEF After
<1>2. ASSUME NEW i \in 1..Len(t), NEW j \in 1..Len(t), i < j
      PROVE  t[i] # t[j] /\ (P[t[i]] = P[t[j]] => t[i] < t[j])
  <2>1. /\ n + i \in 1..Len(s) /\ n + j \in 1..Len(s) /\ t[i] = s[n + i] /\ t[j] = s[n + j]
    BY DEF After
  <2>2. n + i < n + j
    BY <1>1, <1>2
  <2> QED
    BY <2>1, <2>2 DEF Sorted
<1>3. ASSUME NEW i \in 1..n, NEW j \in 1..Len(t) PROVE t[j] # s[i]
  <2>1. n + j \in 1..Len(s) /\ t[j] = s[n + j]
    BY DEF After
  <2>2. i < n + j /\ i \in 1..Len(s)
    BY <1>1
  <2> QED
    BY <2>1, <2>2 DEF Sorted
<1> QED
  BY <1>2, <1>3 DEF Sorted, In

\* It precedes what s preceded, and follows what s followed.
LEMMA AfterPrecedes ==
    ASSUME NEW P, NEW s \in Seq(Nat), NEW n \in Nat, n <= Len(s), NEW t, After(s, n, t),
           NEW u
    PROVE  /\ Precedes(P, s, u) => Precedes(P, t, u)
           /\ Precedes(P, u, s) => Precedes(P, u, t)
BY ZenonT(40) DEF After, Precedes

\* The first n messages leave queue q.
Left(Q, q, n, R) == \E t : After(Q[q], n, t) /\ R = [Q EXCEPT ![q] = t]

\* The first n messages leave a queue (discard_requeued_up_to,
\* _get_next_outgoing): the order of the others stays.
LEMMA LeaveQueue ==
    ASSUME NEW P, NEW Q \in [1..Highest -> Seq(Nat)], NEW S, InLine(P, Q, S),
           NEW q \in 1..Highest, NEW n \in Nat, n <= Len(Q[q]),
           NEW R, Left(Q, q, n, R)
    PROVE  /\ R \in [1..Highest -> Seq(Nat)] /\ InLine(P, R, S)
           /\ \A m : InQ(Q, m) <=> InQ(R, m) \/ \E i \in 1..n : Q[q][i] = m
           /\ \A i \in 1..n : ~InQ(R, Q[q][i])
<1>0. PICK t : After(Q[q], n, t) /\ R = [Q EXCEPT ![q] = t]
  BY DEF Left
<1>1. /\ t \in Seq(Nat) /\ R \in [1..Highest -> Seq(Nat)] /\ R[q] = t
      /\ \A r \in 1..Highest : r # q => R[r] = Q[r]
      /\ Q[q] \in Seq(Nat)
  BY <1>0 DEF After
<1>2. Sorted(P, t) /\ Precedes(P, S, t) /\ \A i \in 1..n : ~In(t, Q[q][i])
  BY <1>0, <1>1, AfterSorted, AfterPrecedes DEF InLine
<1>3. Highest \in 1..Highest /\ \A r \in 1..(Highest - 1) : r \in 1..Highest /\ r # Highest
  BY ConstantsAssumption
<1>4. ASSUME NEW r \in 1..(Highest - 1)
      PROVE  /\ Precedes(P, R[Highest], R[r])
             /\ \A i \in 1..Len(R[r]) : P[R[r][i]] = r
  <2>1. Precedes(P, Q[Highest], Q[r]) /\ \A i \in 1..Len(Q[r]) : P[Q[r][i]] = r
    BY <1>4 DEF InLine
  <2>2. CASE q = Highest
    BY <1>0, <1>1, <1>3, <2>1, <2>2, AfterPrecedes
  <2>3. CASE q = r
    <3>1. Precedes(P, R[Highest], R[r])
      BY <1>0, <1>1, <1>3, <2>1, <2>3, AfterPrecedes
    <3>2. \A i \in 1..Len(t) : P[t[i]] = r
      BY <1>0, <2>1, <2>3 DEF After
    <3> QED
      BY <1>1, <2>3, <3>1, <3>2
  <2>4. CASE q # Highest /\ q # r
    BY <1>1, <1>3, <2>1, <2>4
  <2> QED
    BY <2>2, <2>3, <2>4
<1>5. InLine(P, R, S)
  BY <1>1, <1>2, <1>4 DEF InLine
<1>6. \A m : In(Q[q], m) <=> In(t, m) \/ \E i \in 1..n : Q[q][i] = m
  BY <1>0, <1>1, AfterIn
<1>7. \A m : InQ(Q, m) <=> InQ(R, m) \/ \E i \in 1..n : Q[q][i] = m
  BY <1>1, <1>6 DEF InQ
<1>8. ASSUME NEW i \in 1..n, InQ(R, Q[q][i]) PROVE FALSE
  <2>1. PICK r \in 1..Highest : In(R[r], Q[q][i])
    BY <1>8 DEF InQ
  <2>2. r # q
    BY <1>1, <1>2, <2>1
  <2>3. PICK j \in 1..Len(Q[r]) : Q[r][j] = Q[q][i]
    BY <1>1, <2>1, <2>2 DEF In
  <2>4. i \in 1..Len(Q[q])
    BY <1>1
  <2> QED
    BY <2>2, <2>3, <2>4, OneQueue
<1> QED
  BY <1>1, <1>5, <1>7, <1>8

Firsts(s, n) == {s[i] : i \in 1..n}

\* The first n messages of a queue are settled.
LEMMA SettleQueued ==
    ASSUME NEW P, NEW Q, NEW S, NEW T, NEW D, MsgsOK(P, Q, S, T, D),
           NEW q \in 1..Highest, NEW n \in Nat, n <= Len(Q[q]),
           NEW R, Left(Q, q, n, R), NEW U, U = T \cup Firsts(Q[q], n)
    PROVE  MsgsOK(P, R, S, U, D) /\ \A m : InQ(R, m) => InQ(Q, m)
<1>1. Q \in [1..Highest -> Seq(Nat)] /\ InLine(P, Q, S) /\ T \subseteq Nat
  BY DEF MsgsOK
<1>2. /\ R \in [1..Highest -> Seq(Nat)] /\ InLine(P, R, S)
      /\ \A m : InQ(Q, m) <=> InQ(R, m) \/ \E i \in 1..n : Q[q][i] = m
      /\ \A i \in 1..n : ~InQ(R, Q[q][i])
  BY <1>1, LeaveQueue, Zenon
<1>3. \A i \in 1..n : Q[q][i] \in Nat
  BY <1>1
<1>4. \A m : m \in U <=> m \in T \/ \E i \in 1..n : Q[q][i] = m
  BY DEF Firsts
<1>5. U \subseteq Nat
  BY <1>1, <1>3 DEF Firsts
<1>6. Placed(P, R, S, U, D)
  <2>1. Placed(P, Q, S, T, D)
    BY DEF MsgsOK
  <2>2. \A m \in Nat : m \in 1..Len(P) <=> InQ(R, m) \/ In(S, m) \/ m \in U \/ m \in D
    BY <1>2, <1>4, <2>1 DEF Placed
  <2>3. ASSUME NEW m \in U PROVE ~InQ(R, m) /\ ~In(S, m) /\ m \notin D
    BY <1>2, <1>4, <1>5, <2>1 DEF Placed
  <2> QED
    BY <1>2, <2>1, <2>2, <2>3 DEF Placed
<1> QED
  BY <1>2, <1>5, <1>6 DEF MsgsOK

\* The first n messages of the sent list are settled.
LEMMA SettleSent ==
    ASSUME NEW P, NEW Q, NEW S, NEW T, NEW D, MsgsOK(P, Q, S, T, D),
           NEW n \in Nat, n <= Len(S), NEW t, After(S, n, t),
           NEW U, U = T \cup Firsts(S, n)
    PROVE  MsgsOK(P, Q, t, U, D) /\ \A m : In(t, m) => In(S, m)
<1>1. S \in Seq(Nat) /\ InLine(P, Q, S) /\ T \subseteq Nat /\ t \in Seq(Nat)
  BY DEF MsgsOK, After
<1>2. Sorted(P, t) /\ \A i \in 1..n : ~In(t, S[i])
  BY <1>1, AfterSorted DEF InLine
<1>3. InLine(P, Q, t)
  BY <1>1, <1>2, AfterPrecedes DEF InLine
<1>4. \A m : In(S, m) <=> In(t, m) \/ \E i \in 1..n : S[i] = m
  BY <1>1, AfterIn
<1>5. \A i \in 1..n : S[i] \in Nat
  BY <1>1
<1>6. (\A m : m \in U <=> m \in T \/ \E i \in 1..n : S[i] = m) /\ U \subseteq Nat
  BY <1>1, <1>5 DEF Firsts
<1>7. Placed(P, Q, t, U, D)
  <2>1. Placed(P, Q, S, T, D)
    BY DEF MsgsOK
  <2>2. \A m \in Nat : m \in 1..Len(P) <=> InQ(Q, m) \/ In(t, m) \/ m \in U \/ m \in D
    BY <1>4, <1>6, <2>1 DEF Placed
  <2>3. ASSUME NEW m \in U PROVE ~InQ(Q, m) /\ ~In(t, m) /\ m \notin D
    BY <1>2, <1>4, <1>6, <2>1 DEF Placed
  <2> QED
    BY <1>4, <2>1, <2>2, <2>3 DEF Placed
<1> QED
  BY <1>1, <1>3, <1>4, <1>6, <1>7 DEF MsgsOK

\* What an append adds to a sequence.
LEMMA AppendIn ==
    ASSUME NEW X, NEW s \in Seq(X), NEW x \in X
    PROVE  /\ Append(s, x) \in Seq(X) /\ Len(Append(s, x)) = Len(s) + 1
           /\ \A i \in 1..Len(s) : Append(s, x)[i] = s[i]
           /\ Append(s, x)[Len(s) + 1] = x
           /\ \A m : In(Append(s, x), m) <=> In(s, m) \/ m = x
<1>1. /\ Append(s, x) \in Seq(X) /\ Len(Append(s, x)) = Len(s) + 1 /\ Len(s) \in Nat
      /\ \A i \in 1..Len(s) : Append(s, x)[i] = s[i]
      /\ Append(s, x)[Len(s) + 1] = x
  OBVIOUS
<1>2. \A i \in 1..(Len(s) + 1) : i \in 1..Len(s) \/ i = Len(s) + 1
  BY <1>1
<1>3. Len(s) + 1 \in 1..(Len(s) + 1) /\ \A i \in 1..Len(s) : i \in 1..(Len(s) + 1)
  BY <1>1
<1> QED
  BY <1>1, <1>2, <1>3 DEF In

\* A list in order stays so with an element that is later than those of its priority.
LEMMA AppendSorted ==
    ASSUME NEW P, NEW s \in Seq(Nat), NEW x \in Nat, Sorted(P, s),
           \A i \in 1..Len(s) : s[i] # x /\ (P[s[i]] = P[x] => s[i] < x)
    PROVE  Sorted(P, Append(s, x))
<1>1. PICK t : t = Append(s, x)
  OBVIOUS
<1>2. /\ t \in Seq(Nat) /\ Len(t) = Len(s) + 1 /\ Len(s) \in Nat
      /\ \A i \in 1..Len(s) : t[i] = s[i]
      /\ t[Len(s) + 1] = x
  BY <1>1, AppendIn
<1>3. ASSUME NEW i \in 1..Len(t), NEW j \in 1..Len(t), i < j
      PROVE  t[i] # t[j] /\ (P[t[i]] = P[t[j]] => t[i] < t[j])
  <2>1. i \in 1..Len(s)
    BY <1>2, <1>3
  <2>2. CASE j \in 1..Len(s)
    BY <1>2, <1>3, <2>1, <2>2 DEF Sorted
  <2>3. CASE j = Len(s) + 1
    BY <1>2, <2>1, <2>3
  <2> QED
    BY <1>2, <2>2, <2>3
<1> QED
  BY <1>1, <1>3 DEF Sorted

\* An append keeps one list before another if the new element is in its place.
LEMMA AppendPrecedes ==
    ASSUME NEW P, NEW s \in Seq(Nat), NEW x \in Nat, NEW u \in Seq(Nat)
    PROVE  /\ ( /\ Precedes(P, u, s)
                /\ \A i \in 1..Len(u) : u[i] # x /\ (P[u[i]] = P[x] => u[i] < x) ) =>
                 Precedes(P, u, Append(s, x))
           /\ ( /\ Precedes(P, s, u)
                /\ \A i \in 1..Len(u) : x # u[i] /\ (P[x] = P[u[i]] => x < u[i]) ) =>
                 Precedes(P, Append(s, x), u)
<1>1. PICK t : t = Append(s, x)
  OBVIOUS
<1>2. /\ t \in Seq(Nat) /\ Len(t) = Len(s) + 1 /\ Len(s) \in Nat
      /\ \A i \in 1..Len(s) : t[i] = s[i]
      /\ t[Len(s) + 1] = x
  BY <1>1, AppendIn
<1>3. \A i \in 1..Len(t) : i \in 1..Len(s) \/ i = Len(s) + 1
  BY <1>2
<1> QED
  BY <1>1, <1>2, <1>3, SMTT(30) DEF Precedes

\* q is the highest priority with a message queued, and m is the first of it.
Top(Q, q, m) ==
    Q[q] # <<>> /\ m = Q[q][1] /\ \A r \in (q + 1)..Highest : Q[r] = <<>>

\* The next message in turn goes to the sent list, or is settled if m is not kept.
LEMMA TakeNext ==
    ASSUME NEW P, NEW Q, NEW S, NEW T, NEW D, MsgsOK(P, Q, S, T, D),
           NEW q \in 1..Highest, NEW m, Top(Q, q, m), NEW R, Left(Q, q, 1, R)
    PROVE  /\ m \in 1..Len(P) /\ InQ(Q, m) /\ ~InQ(R, m)
           /\ \A n : InQ(R, n) => InQ(Q, n)
           /\ \A n \in Nat : InQ(R, n) /\ P[n] = P[m] => m < n
           /\ \A n \in Nat : In(S, n) /\ P[n] = P[m] => n < m
           /\ MsgsOK(P, R, Append(S, m), T, D)
           /\ MsgsOK(P, R, S, T \cup {m}, D)
<1>0. PICK t : After(Q[q], 1, t) /\ R = [Q EXCEPT ![q] = t]
  BY DEF Left
<1>1. /\ Q \in [1..Highest -> Seq(Nat)] /\ InLine(P, Q, S) /\ T \subseteq Nat
      /\ S \in Seq(Nat) /\ Placed(P, Q, S, T, D)
  BY DEF MsgsOK
<1>2. /\ 1 \in Nat /\ 1 <= Len(Q[q]) /\ m \in Nat /\ Q[q] \in Seq(Nat)
      /\ 1 \in 1..Len(Q[q]) /\ 1..1 = {1} /\ m = Q[q][1]
  BY <1>1 DEF Top
<1>3. /\ R \in [1..Highest -> Seq(Nat)] /\ InLine(P, R, S)
      /\ \A n : InQ(Q, n) <=> InQ(R, n) \/ \E i \in 1..1 : Q[q][i] = n
      /\ \A i \in 1..1 : ~InQ(R, Q[q][i])
  BY <1>1, <1>2, LeaveQueue, Zenon
<1>4. InQ(Q, m) /\ ~InQ(R, m) /\ \A n : InQ(Q, n) <=> InQ(R, n) \/ n = m
  BY <1>2, <1>3
<1>5. m \in 1..Len(P) /\ ~In(S, m)
  BY <1>1, <1>2, <1>4 DEF Placed
<1>6. MsgsOK(P, R, S, T \cup {m}, D)
  <2>1. PICK U : U = T \cup {m}
    OBVIOUS
  <2>2. U = T \cup Firsts(Q[q], 1)
    BY <1>2, <2>1 DEF Firsts
  <2>3. MsgsOK(P, R, S, U, D)
    BY <1>2, <2>2, SettleQueued
  <2> QED
    BY <2>1, <2>3
<1>7. ASSUME NEW r \in 1..Highest, NEW j \in 1..Len(R[r])
      PROVE  m # R[r][j] /\ (P[m] = P[R[r][j]] => m < R[r][j])
  <2>1. m # R[r][j]
    BY <1>4 DEF InQ, In
  <2>2. CASE r = q
    <3>1. R[r] = t /\ t[j] = Q[q][1 + j] /\ 1 + j \in 1..Len(Q[q]) /\ 1 < 1 + j
      BY <1>0, <1>1, <1>7, <2>2 DEF After
    <3> QED
      BY <1>1, <1>2, <2>1, <3>1 DEF InLine, Sorted
  <2>3. CASE r # q /\ q = Highest
    <3>1. r \in 1..(Highest - 1) /\ R[r] = Q[r]
      BY <1>0, <1>1, <2>3, ConstantsAssumption
    <3>2. Precedes(P, Q[q], Q[r])
      BY <1>1, <2>3, <3>1 DEF InLine
    <3>3. j \in 1..Len(Q[r]) /\ R[r][j] = Q[r][j]
      BY <1>7, <3>1
    <3> QED
      BY <1>2, <3>2, <3>3 DEF Precedes
  <2>4. CASE r # q /\ q # Highest
    <3>1. R[r] = Q[r] /\ r \in Nat /\ q \in Nat
      BY <1>0, <1>1, <2>4
    <3>2. r \notin (q + 1)..Highest
      <4> SUFFICES ASSUME r \in (q + 1)..Highest PROVE FALSE
        OBVIOUS
      <4>1. Q[r] = <<>>
        BY DEF Top
      <4> QED
        BY <1>7, <3>1, <4>1
    <3>3. r \in 1..(Highest - 1) /\ q \in 1..(Highest - 1)
      BY <2>4, <3>1, <3>2, ConstantsAssumption
    <3>4. P[Q[r][j]] = r /\ P[m] = q
      BY <1>1, <1>2, <1>7, <3>1, <3>3 DEF InLine
    <3> QED
      BY <2>1, <2>4, <3>1, <3>4
  <2> QED
    BY <2>2, <2>3, <2>4
<1>8. ASSUME NEW i \in 1..Len(S) PROVE S[i] # m /\ (P[S[i]] = P[m] => S[i] < m)
  BY <1>1, <1>2 DEF InLine, Precedes
<1>9. InLine(P, R, Append(S, m))
  <2>1. Sorted(P, Append(S, m))
    BY <1>1, <1>2, <1>8, AppendSorted DEF InLine
  <2>2. ASSUME NEW r \in 1..Highest PROVE Precedes(P, Append(S, m), R[r])
    <3>1. R[r] \in Seq(Nat) /\ Precedes(P, S, R[r])
      BY <1>3 DEF InLine
    <3> QED
      BY <1>1, <1>2, <1>7, <3>1, AppendPrecedes
  <2> QED
    BY <1>3, <2>1, <2>2 DEF InLine
<1>10. Append(S, m) \in Seq(Nat) /\ \A n : In(Append(S, m), n) <=> In(S, n) \/ n = m
  BY <1>1, <1>2, AppendIn
<1>11. Placed(P, R, Append(S, m), T, D)
  <2>1. \A n \in Nat : n \in 1..Len(P) <=> InQ(R, n) \/ In(Append(S, m), n) \/ n \in T \/ n \in D
    BY <1>1, <1>4, <1>10 DEF Placed
  <2>2. m \notin T /\ m \notin D
    BY <1>1, <1>4 DEF Placed
  <2> QED
    BY <1>1, <1>4, <1>5, <1>10, <2>1, <2>2 DEF Placed
<1>12. \A n \in Nat : InQ(R, n) /\ P[n] = P[m] => m < n
  BY <1>7 DEF InQ, In
<1>13. \A n \in Nat : In(S, n) /\ P[n] = P[m] => n < m
  BY <1>8 DEF In
<1>14. MsgsOK(P, R, Append(S, m), T, D)
  BY <1>3, <1>9, <1>10, <1>11 DEF MsgsOK
<1> QED
  BY <1>4, <1>5, <1>6, <1>12, <1>13, <1>14

\* The messages of the sent list are queued again, before those queued.
Requeued(Q, S, R) == R = [Q EXCEPT ![Highest] = S \o Q[Highest]]

\* requeue_sent keeps every message in one place and the order of each priority:
\* the sent list preceded every queue.
LEMMA Requeue ==
    ASSUME NEW P, NEW Q, NEW S, NEW T, NEW D, MsgsOK(P, Q, S, T, D),
           NEW R, Requeued(Q, S, R)
    PROVE  MsgsOK(P, R, <<>>, T, D) /\ \A m : InQ(R, m) <=> InQ(Q, m) \/ In(S, m)
<1>1. /\ Q \in [1..Highest -> Seq(Nat)] /\ S \in Seq(Nat) /\ InLine(P, Q, S)
      /\ Placed(P, Q, S, T, D) /\ Highest \in 1..Highest
  BY ConstantsAssumption DEF MsgsOK
<1>2. PICK u : u = Q[Highest]
  OBVIOUS
<1>3. PICK s : s = S \o u
  OBVIOUS
<1>4. /\ u \in Seq(Nat) /\ s \in Seq(Nat) /\ Len(s) = Len(S) + Len(u)
      /\ Len(S) \in Nat /\ Len(u) \in Nat
      /\ \A i \in 1..Len(S) : s[i] = S[i]
      /\ \A i \in 1..Len(u) : s[Len(S) + i] = u[i]
  BY <1>1, <1>2, <1>3
<1>5. \A i \in 1..Len(s) : \/ i \in 1..Len(S)
                           \/ i - Len(S) \in 1..Len(u) /\ i = Len(S) + (i - Len(S))
  BY <1>4
<1>6. \A i \in 1..Len(s) : \/ i \in 1..Len(S) /\ s[i] = S[i]
                           \/ \E j \in 1..Len(u) : i = Len(S) + j /\ s[i] = u[j]
  BY <1>4, <1>5
<1>7. /\ R \in [1..Highest -> Seq(Nat)] /\ R[Highest] = s
      /\ \A r \in 1..Highest : r # Highest => R[r] = Q[r]
  BY <1>1, <1>2, <1>3, <1>4 DEF Requeued
<1>8. Sorted(P, S) /\ Sorted(P, u) /\ Precedes(P, S, u)
  BY <1>1, <1>2 DEF InLine
<1>9. Sorted(P, s)
  <2> SUFFICES ASSUME NEW i \in 1..Len(s), NEW j \in 1..Len(s), i < j
               PROVE  s[i] # s[j] /\ (P[s[i]] = P[s[j]] => s[i] < s[j])
    BY DEF Sorted
  <2>1. CASE i \in 1..Len(S) /\ s[i] = S[i] /\ j \in 1..Len(S) /\ s[j] = S[j]
    BY <1>8, <2>1 DEF Sorted
  <2>2. CASE i \in 1..Len(S) /\ s[i] = S[i] /\ \E y \in 1..Len(u) : j = Len(S) + y /\ s[j] = u[y]
    BY <1>8, <2>2 DEF Precedes
  <2>3. ASSUME NEW x \in 1..Len(u), i = Len(S) + x, s[i] = u[x]
        PROVE  s[i] # s[j] /\ (P[s[i]] = P[s[j]] => s[i] < s[j])
    <3>0. j \notin 1..Len(S)
      BY <1>4, <2>3
    <3>1. PICK y \in 1..Len(u) : j = Len(S) + y /\ s[j] = u[y]
      BY <1>6, <3>0
    <3>2. x < y
      BY <1>4, <2>3, <3>1
    <3> QED
      BY <1>8, <2>3, <3>1, <3>2 DEF Sorted
  <2> QED
    BY <1>6, <2>1, <2>2, <2>3
<1>10. \A m : In(s, m) <=> In(S, m) \/ In(u, m)
  <2>1. \A i \in 1..Len(S) : i \in 1..Len(s)
    BY <1>4
  <2>2. \A i \in 1..Len(u) : Len(S) + i \in 1..Len(s)
    BY <1>4
  <2> QED
    BY <1>4, <1>6, <2>1, <2>2 DEF In
<1>11. InLine(P, R, <<>>)
  <2>1. \A q \in 1..(Highest - 1) : q \in 1..Highest /\ q # Highest /\ R[q] = Q[q]
    BY <1>7, ConstantsAssumption
  <2>2. ASSUME NEW q \in 1..(Highest - 1) PROVE Precedes(P, s, R[q])
    <3>1. Precedes(P, S, Q[q]) /\ Precedes(P, u, Q[q])
      BY <1>1, <1>2, <2>1 DEF InLine
    <3>2. ASSUME NEW i \in 1..Len(s), NEW j \in 1..Len(Q[q])
          PROVE  s[i] # Q[q][j] /\ (P[s[i]] = P[Q[q][j]] => s[i] < Q[q][j])
      <4>1. CASE i \in 1..Len(S) /\ s[i] = S[i]
        BY <3>1, <4>1 DEF Precedes
      <4>2. CASE \E y \in 1..Len(u) : i = Len(S) + y /\ s[i] = u[y]
        BY <3>1, <4>2 DEF Precedes
      <4> QED
        BY <1>6, <4>1, <4>2
    <3> QED
      BY <2>1, <3>2 DEF Precedes
  <2>3. Sorted(P, <<>>) /\ \A q \in 1..Highest : Precedes(P, <<>>, R[q])
    BY DEF Sorted, Precedes
  <2>4. \A q \in 1..Highest : Sorted(P, R[q])
    BY <1>1, <1>7, <1>9 DEF InLine
  <2> QED
    BY <1>1, <1>7, <2>1, <2>2, <2>3, <2>4 DEF InLine
<1>12. \A m : InQ(R, m) <=> InQ(Q, m) \/ In(S, m)
  BY <1>1, <1>2, <1>7, <1>10 DEF InQ
<1>13. \A m : ~In(<<>>, m)
  BY DEF In
<1>14. Placed(P, R, <<>>, T, D)
  BY <1>1, <1>12, <1>13 DEF Placed
<1>15. P \in Seq(Nat) /\ T \subseteq Nat /\ D \subseteq Nat /\ <<>> \in Seq(Nat)
  BY DEF MsgsOK
<1> QED
  BY <1>7, <1>11, <1>12, <1>14, <1>15, Zenon DEF MsgsOK

\* Everything that is queued or kept is dropped.
LEMMA Discard ==
    ASSUME NEW P, NEW Q, NEW S, NEW T, NEW D, MsgsOK(P, Q, S, T, D),
           NEW R, R = [q \in 1..Highest |-> <<>>],
           NEW E, E = D \cup {m \in Nat : InQ(Q, m) \/ In(S, m)}
    PROVE  MsgsOK(P, R, <<>>, T, E) /\ \A m : ~InQ(R, m)
<1>1. R \in [1..Highest -> Seq(Nat)] /\ \A q \in 1..Highest : R[q] = <<>>
  OBVIOUS
<1>2. (\A m : ~In(<<>>, m)) /\ \A m : ~InQ(R, m)
  BY <1>1 DEF In, InQ
<1>3. InLine(P, R, <<>>)
  BY <1>1, ConstantsAssumption DEF InLine, Sorted, Precedes
<1>4. Placed(P, R, <<>>, T, E)
  BY <1>2 DEF Placed, MsgsOK
<1>5. P \in Seq(Nat) /\ T \subseteq Nat /\ E \subseteq Nat /\ <<>> \in Seq(Nat)
  <2>1. P \in Seq(Nat) /\ T \subseteq Nat /\ D \subseteq Nat
    BY DEF MsgsOK
  <2>2. E \subseteq Nat
    BY <2>1
  <2> QED
    BY <2>1, <2>2
<1> QED
  BY <1>1, <1>2, <1>3, <1>4, <1>5, Zenon DEF MsgsOK

\* m is the number of a new message of priority p.
Numbered(P, p, N, m) == N = Append(P, p) /\ m = Len(P) + 1

\* A new message is given the next number: a longer list of priorities changes
\* nothing for those of before.
LEMMA NewNumber ==
    ASSUME NEW P, NEW Q, NEW S, NEW T, NEW D, MsgsOK(P, Q, S, T, D), NEW p \in Nat,
           NEW N, NEW m, Numbered(P, p, N, m)
    PROVE  /\ N \in Seq(Nat) /\ Len(N) = m /\ m \in Nat \ {0} /\ N[m] = p
           /\ \A n \in 1..Len(P) : N[n] = P[n] /\ n < m
           /\ \A n \in Nat : n \in 1..m <=> n \in 1..Len(P) \/ n = m
           /\ ~InQ(Q, m) /\ ~In(S, m) /\ m \notin T /\ m \notin D
           /\ InLine(N, Q, S)
<1>1. /\ P \in Seq(Nat) /\ Q \in [1..Highest -> Seq(Nat)] /\ S \in Seq(Nat)
      /\ Placed(P, Q, S, T, D) /\ InLine(P, Q, S) /\ Len(P) \in Nat
  BY DEF MsgsOK
<1>2. /\ N \in Seq(Nat) /\ Len(N) = m /\ m \in Nat \ {0} /\ N[m] = p
      /\ \A n \in 1..Len(P) : N[n] = P[n]
  BY <1>1, AppendIn DEF Numbered
<1>3. /\ \A n \in 1..Len(P) : n < m
      /\ \A n \in Nat : n \in 1..m <=> n \in 1..Len(P) \/ n = m
      /\ m \notin 1..Len(P)
  BY <1>1, <1>2 DEF Numbered
<1>4. ~InQ(Q, m) /\ ~In(S, m) /\ m \notin T /\ m \notin D
  BY <1>1, <1>2, <1>3 DEF Placed
<1>5. \A n \in Nat : InQ(Q, n) \/ In(S, n) => N[n] = P[n]
  BY <1>1, <1>2 DEF Placed
<1>6. \A i \in 1..Len(S) : S[i] \in Nat /\ N[S[i]] = P[S[i]]
  <2>1. \A i \in 1..Len(S) : S[i] \in Nat
    BY <1>1, Elements
  <2> QED
    BY <1>5, <2>1, Zenon DEF In
<1>7. ASSUME NEW q \in 1..Highest, NEW i \in 1..Len(Q[q])
      PROVE  Q[q][i] \in Nat /\ N[Q[q][i]] = P[Q[q][i]]
  <2>1. Q[q][i] \in Nat
    BY <1>1, QueueElements
  <2> QED
    BY <1>5, <2>1 DEF InQ, In
<1>8. Sorted(N, S)
  BY <1>1, <1>6 DEF InLine, Sorted
<1>9. ASSUME NEW q \in 1..Highest PROVE Sorted(N, Q[q]) /\ Precedes(N, S, Q[q])
  BY <1>1, <1>6, <1>7 DEF InLine, Sorted, Precedes
<1>10. ASSUME NEW q \in 1..(Highest - 1)
       PROVE  /\ Precedes(N, Q[Highest], Q[q])
              /\ \A i \in 1..Len(Q[q]) : N[Q[q][i]] = q
  <2>1. q \in 1..Highest /\ Highest \in 1..Highest
    BY ConstantsAssumption
  <2> QED
    <3>1. Precedes(P, Q[Highest], Q[q]) /\ \A i \in 1..Len(Q[q]) : P[Q[q][i]] = q
      BY <1>1 DEF InLine
    <3>2. \A i \in 1..Len(Q[q]) : N[Q[q][i]] = P[Q[q][i]]
      BY <1>7, <2>1
    <3>3. \A i \in 1..Len(Q[Highest]) : N[Q[Highest][i]] = P[Q[Highest][i]]
      BY <1>7, <2>1
    <3> QED
      BY <3>1, <3>2, <3>3 DEF Precedes
<1> QED
  BY <1>2, <1>3, <1>4, <1>8, <1>9, <1>10 DEF InLine

\* It is dropped at once; sent at once, with nothing queued; or queued.
Submitted(Q, S, T, D, p, N, m) ==
    /\ MsgsOK(N, Q, S, T, D \cup {m})
    /\ (\A n \in Nat : ~InQ(Q, n)) =>
          MsgsOK(N, Q, Append(S, m), T, D) /\ MsgsOK(N, Q, S, T \cup {m}, D)
    /\ \A R : R = [Q EXCEPT ![p] = Append(Q[p], m)] =>
          MsgsOK(N, R, S, T, D) /\ \A n : InQ(R, n) <=> InQ(Q, n) \/ n = m

\* A new message of priority p keeps the order wherever it goes: all others are
\* older.
LEMMA Submit ==
    ASSUME NEW P, NEW Q, NEW S, NEW T, NEW D, MsgsOK(P, Q, S, T, D),
           NEW p \in 1..Highest, NEW N, NEW m, Numbered(P, p, N, m)
    PROVE  Submitted(Q, S, T, D, p, N, m)
<1>1. /\ P \in Seq(Nat) /\ Q \in [1..Highest -> Seq(Nat)] /\ S \in Seq(Nat)
      /\ Placed(P, Q, S, T, D) /\ T \subseteq Nat /\ D \subseteq Nat /\ p \in Nat
  BY DEF MsgsOK
<1>2. /\ N \in Seq(Nat) /\ Len(N) = m /\ m \in Nat \ {0} /\ m \in Nat /\ N[m] = p
      /\ \A n \in 1..Len(P) : N[n] = P[n] /\ n < m
      /\ \A n \in Nat : n \in 1..m <=> n \in 1..Len(P) \/ n = m
      /\ ~InQ(Q, m) /\ ~In(S, m) /\ m \notin T /\ m \notin D
      /\ InLine(N, Q, S)
  <2>1. /\ N \in Seq(Nat) /\ Len(N) = m /\ m \in Nat \ {0} /\ N[m] = p
        /\ \A n \in 1..Len(P) : N[n] = P[n] /\ n < m
        /\ \A n \in Nat : n \in 1..m <=> n \in 1..Len(P) \/ n = m
        /\ ~InQ(Q, m) /\ ~In(S, m) /\ m \notin T /\ m \notin D
        /\ InLine(N, Q, S)
    BY <1>1, NewNumber, Zenon
  <2> QED
    BY <2>1, Zenon
<1>3. \A n \in Nat : InQ(Q, n) \/ In(S, n) => n < m
  BY <1>1, <1>2 DEF Placed
<1>4. Placed(N, Q, S, T, D \cup {m}) /\ Placed(N, Q, S, T \cup {m}, D)
  BY <1>1, <1>2 DEF Placed
<1>5. MsgsOK(N, Q, S, T, D \cup {m}) /\ MsgsOK(N, Q, S, T \cup {m}, D)
  BY <1>1, <1>2, <1>4 DEF MsgsOK
<1>6. ASSUME \A n \in Nat : ~InQ(Q, n) PROVE MsgsOK(N, Q, Append(S, m), T, D)
  <2>1. Append(S, m) \in Seq(Nat) /\ \A n : In(Append(S, m), n) <=> In(S, n) \/ n = m
    BY <1>1, <1>2, AppendIn
  <2>2. Placed(N, Q, Append(S, m), T, D)
    BY <1>1, <1>2, <2>1 DEF Placed
  <2>3. \A i \in 1..Len(S) : S[i] # m /\ (N[S[i]] = N[m] => S[i] < m)
    BY <1>1, <1>2, <1>3 DEF In
  <2>4. Sorted(N, Append(S, m))
    BY <1>1, <1>2, <2>3, AppendSorted DEF InLine
  <2>5. ASSUME NEW q \in 1..Highest PROVE Precedes(N, Append(S, m), Q[q])
    <3>1. \A i \in 1..Len(Q[q]) : FALSE
      BY <1>1, <1>6, QueueElements, Zenon DEF InQ, In
    <3> QED
      BY <3>1 DEF Precedes
  <2>6. InLine(N, Q, Append(S, m))
    BY <1>2, <2>4, <2>5 DEF InLine
  <2> QED
    BY <1>1, <1>2, <2>1, <2>2, <2>6 DEF MsgsOK
<1>7. ASSUME NEW R, R = [Q EXCEPT ![p] = Append(Q[p], m)]
      PROVE  MsgsOK(N, R, S, T, D) /\ \A n : InQ(R, n) <=> InQ(Q, n) \/ n = m
  <2>1. PICK t : t = Append(Q[p], m)
    OBVIOUS
  <2>2. /\ t \in Seq(Nat) /\ Len(t) = Len(Q[p]) + 1 /\ Len(Q[p]) \in Nat
        /\ \A n : In(t, n) <=> In(Q[p], n) \/ n = m
        /\ \A i \in 1..Len(Q[p]) : t[i] = Q[p][i]
        /\ t[Len(Q[p]) + 1] = m /\ Q[p] \in Seq(Nat)
    <3>1. Q[p] \in Seq(Nat) /\ Len(Q[p]) \in Nat
      BY <1>1, QueueElements, Zenon
    <3>2. PICK v \in Seq(Nat) : v = Q[p]
      BY <3>1
    <3>3. /\ t \in Seq(Nat) /\ Len(t) = Len(v) + 1
          /\ \A n : In(t, n) <=> In(v, n) \/ n = m
          /\ \A i \in 1..Len(v) : t[i] = v[i]
          /\ t[Len(v) + 1] = m
      BY <1>2, <2>1, <3>2, AppendIn, SMTT(30)
    <3> QED
      BY <3>1, <3>2, <3>3
  <2>3. /\ R \in [1..Highest -> Seq(Nat)] /\ R[p] = t
        /\ \A q \in 1..Highest : q # p => R[q] = Q[q]
    BY <1>1, <1>7, <2>1, <2>2
  <2>4. \A n : InQ(R, n) <=> InQ(Q, n) \/ n = m
    BY <2>2, <2>3 DEF InQ
  <2>5. Placed(N, R, S, T, D)
    BY <1>1, <1>2, <2>4 DEF Placed
  <2>6. ASSUME NEW q \in 1..Highest, NEW i \in 1..Len(Q[q])
        PROVE  Q[q][i] # m /\ Q[q][i] < m
    <3>1. Q[q][i] \in Nat
      BY <1>1, QueueElements, Zenon
    <3> QED
      BY <1>2, <1>3, <3>1 DEF InQ, In
  <2>7. \A i \in 1..Len(S) : S[i] # m /\ S[i] < m
    BY <1>1, <1>2, <1>3 DEF In
  <2>8. Sorted(N, t) /\ Precedes(N, S, t)
    <3>1. PICK v \in Seq(Nat) : v = Q[p]
      BY <2>2
    <3>2. Sorted(N, v) /\ Precedes(N, S, v)
      BY <1>2, <3>1 DEF InLine
    <3>3. \A i \in 1..Len(v) : v[i] # m /\ (N[v[i]] = N[m] => v[i] < m)
      BY <2>6, <3>1
    <3>4. \A i \in 1..Len(S) : S[i] # m /\ (N[S[i]] = N[m] => S[i] < m)
      BY <2>7
    <3>5. t = Append(v, m)
      BY <2>1, <3>1
    <3>6. Sorted(N, t)
      BY <1>2, <3>2, <3>3, <3>5, AppendSorted
    <3>7. Precedes(N, S, t)
      BY <1>1, <1>2, <3>2, <3>4, <3>5, AppendPrecedes
    <3> QED
      BY <3>6, <3>7
  <2>9. ASSUME NEW q \in 1..(Highest - 1)
        PROVE  /\ Precedes(N, R[Highest], R[q])
               /\ \A i \in 1..Len(R[q]) : N[R[q][i]] = q
    <3>1. q \in 1..Highest /\ q # Highest /\ Highest \in 1..Highest
      BY ConstantsAssumption
    <3>2. Precedes(N, Q[Highest], Q[q]) /\ \A i \in 1..Len(Q[q]) : N[Q[q][i]] = q
      BY <1>2 DEF InLine
    <3>3. CASE p = Highest
      <4>1. \A i \in 1..Len(Q[q]) : m # Q[q][i] /\ (N[m] = N[Q[q][i]] => m < Q[q][i])
        BY <1>2, <2>6, <3>1, <3>2, <3>3
      <4>2. Precedes(N, t, Q[q])
        BY <1>1, <1>2, <2>1, <2>2, <3>1, <3>2, <3>3, <4>1, AppendPrecedes
      <4> QED
        BY <2>3, <3>1, <3>2, <3>3, <4>2
    <3>4. CASE p = q
      <4>1. Precedes(N, Q[Highest], t)
        <5>1. PICK v \in Seq(Nat), u \in Seq(Nat) : v = Q[q] /\ u = Q[Highest]
          BY <1>1, <3>1, QueueElements
        <5>2. \A i \in 1..Len(u) : u[i] # m /\ (N[u[i]] = N[m] => u[i] < m)
          BY <2>6, <3>1, <5>1
        <5>3. t = Append(v, m) /\ Precedes(N, u, v)
          BY <2>1, <3>2, <3>4, <5>1
        <5>4. Precedes(N, u, t)
          BY <1>2, <5>2, <5>3, AppendPrecedes
        <5> QED
          BY <5>1, <5>4
      <4>2. \A i \in 1..Len(t) : i \in 1..Len(Q[q]) \/ i = Len(Q[q]) + 1
        BY <2>2, <3>4
      <4>3. \A i \in 1..Len(t) : N[t[i]] = q
        BY <1>2, <2>2, <3>2, <3>4, <4>2
      <4> QED
        BY <2>3, <3>1, <3>4, <4>1, <4>3
    <3>5. CASE p # q /\ p # Highest
      BY <2>3, <3>1, <3>2, <3>5
    <3> QED
      BY <3>3, <3>4, <3>5
  <2>10. InLine(N, R, S)
    BY <1>2, <2>3, <2>8, <2>9 DEF InLine
  <2> QED
    BY <1>1, <1>2, <2>3, <2>4, <2>5, <2>10 DEF MsgsOK
<1> QED
  BY <1>5, <1>6, <1>7 DEF Submitted

-----------------------------------------------------------------------------
(***************************************************************************)
(* What is written to a socket.                                            *)
(***************************************************************************)
\* The elements of two sequences in a row.
LEMMA Joined ==
    ASSUME NEW w \in Seq(Pieces), NEW r \in Seq(Pieces)
    PROVE  /\ w \o r \in Seq(Pieces) /\ Len(w \o r) = Len(w) + Len(r)
           /\ Len(w) \in Nat /\ Len(r) \in Nat
           /\ \A i \in 1..Len(w) : (w \o r)[i] = w[i]
           /\ \A i \in 1..Len(r) : (w \o r)[Len(w) + i] = r[i]
OBVIOUS

\* What is written is as sound as what will be.
LEMMA WrittenPrefix ==
    ASSUME NEW P, NEW T, NEW D, NEW w \in Seq(Pieces), NEW r \in Seq(Pieces),
           Halves(w \o r), Written(P, T, D, w \o r)
    PROVE  Halves(w) /\ Written(P, T, D, w)
<1>1. PICK s : s = w \o r
  OBVIOUS
<1>2. /\ s \in Seq(Pieces) /\ Len(w) \in Nat /\ Len(s) \in Nat /\ Len(w) <= Len(s)
      /\ \A i \in 1..Len(w) : s[i] = w[i] /\ i \in 1..Len(s)
  BY <1>1, Joined
<1>3. Halves(s) /\ Written(P, T, D, s)
  BY <1>1
<1>4. ASSUME NEW i \in 1..Len(w), NEW m \in Nat \ {0}
      PROVE  /\ w[i] = Part(m, 2) => i > 1 /\ w[i - 1] = Part(m, 1)
             /\ w[i] = Part(m, 1) /\ i < Len(w) => w[i + 1] = Part(m, 2)
  <2>1. i > 1 => i - 1 \in 1..Len(w)
    BY <1>2
  <2>2. i < Len(w) => i + 1 \in 1..Len(w) /\ i < Len(s)
    BY <1>2
  <2> QED
    BY <1>2, <1>3, <2>1, <2>2 DEF Halves
<1>5. \A i, j \in 1..Len(w) : w[i] = w[j] /\ w[i][1] # 0 => i = j
  BY <1>2, <1>3 DEF Halves
<1>6. \A i \in 2..Len(w) : w[i] # Handshake
  <2>1. \A i \in 2..Len(w) : i \in 1..Len(w) /\ i \in 2..Len(s)
    BY <1>2
  <2> QED
    BY <1>2, <1>3, <2>1 DEF Halves
<1>7. \A i \in 1..Len(w) : w[i][1] <= Len(P)
  BY <1>2, <1>3 DEF Written
<1>8. ASSUME NEW a \in 1..Len(P), NEW b \in 1..Len(P), a < b, P[a] = P[b],
             NEW x \in 1..Len(w), w[x] = Part(b, 1), a \notin T \cup D
      PROVE  \E y \in 1..(x - 1) : w[y] = Part(a, 2)
  <2>1. PICK y \in 1..(x - 1) : s[y] = Part(a, 2)
    BY <1>2, <1>3, <1>8 DEF Written
  <2>2. y \in 1..Len(w)
    BY <1>2
  <2> QED
    BY <1>2, <2>1, <2>2
<1> QED
  BY <1>4, <1>5, <1>6, <1>7, <1>8 DEF Halves, Written

\* A new socket, and one with only the handshake on it.
LEMMA NewStream ==
    ASSUME NEW P \in Seq(Nat), NEW T, NEW D, NEW Q \in [1..Highest -> Seq(Nat)], ~InQ(Q, 0),
           NEW w, w = <<>> \/ w = <<Handshake>>
    PROVE  Halves(w) /\ Written(P, T, D, w) /\ Live(Q, <<>>, w)
<1>1. w \in Seq(Pieces) /\ \A i \in 1..Len(w) : i = 1 /\ Len(w) = 1 /\ w[i] = <<0, 1>> /\ w[i][1] = 0
  <2>1. CASE w = <<>>
    BY <2>1
  <2>2. CASE w = <<Handshake>>
    <3>1. Handshake \in Pieces /\ Handshake = <<0, 1>> /\ Handshake[1] = 0
      BY DEF Pieces, Handshake
    <3> QED
      BY <2>2, <3>1
  <2> QED
    BY <2>1, <2>2
<1>2. Halves(w)
  BY <1>1 DEF Halves, Part, Handshake
<1>3. Written(P, T, D, w)
  BY <1>1 DEF Written, Part
<1>4. Live(Q, <<>>, w)
  BY <1>1 DEF Live, Part
<1> QED
  BY <1>2, <1>3, <1>4

\* An item that is no message and no handshake follows.
LEMMA ItemFollows ==
    ASSUME NEW P, NEW T, NEW D, NEW Q, NEW S, NEW w,
           Halves(w), Written(P, T, D, w), Live(Q, S, w), P \in Seq(Nat), ~InQ(Q, 0),
           NEW x \in {Keepalive, KeepaliveAck, Ack}
    PROVE  /\ Halves(Append(w, x)) /\ Written(P, T, D, Append(w, x))
           /\ Live(Q, S, Append(w, x))
<1>1. /\ x \in Pieces /\ x[1] = 0 /\ x # Handshake
      /\ \A m \in Nat \ {0} : x # Part(m, 1) /\ x # Part(m, 2)
  BY DEF Pieces, Keepalive, KeepaliveAck, Ack, Handshake, Part
<1>2. PICK s : s = Append(w, x)
  OBVIOUS
<1>3. /\ w \in Seq(Pieces) /\ Len(w) \in Nat /\ s \in Seq(Pieces) /\ Len(s) = Len(w) + 1
      /\ \A i \in 1..Len(w) : s[i] = w[i]
      /\ s[Len(w) + 1] = x
  BY <1>1, <1>2, AppendIn DEF Halves
<1>4. \A i \in 1..Len(s) : i \in 1..Len(w) \/ i = Len(w) + 1
  BY <1>3
<1>5. \A i \in 1..Len(w), m \in Nat \ {0} : w[i] = Part(m, 1) =>
         i < Len(w) /\ w[i + 1] = Part(m, 2) /\ i + 1 \in 1..Len(w)
  BY <1>3 DEF Live, Halves
<1>6. ASSUME NEW i \in 1..Len(s), NEW m \in Nat \ {0}
      PROVE  /\ s[i] = Part(m, 2) => i > 1 /\ s[i - 1] = Part(m, 1)
             /\ s[i] = Part(m, 1) => i < Len(s) /\ s[i + 1] = Part(m, 2)
  <2>1. CASE i \in 1..Len(w)
    <3>1. s[i] = Part(m, 2) => i > 1 /\ w[i - 1] = Part(m, 1) /\ i - 1 \in 1..Len(w)
      BY <1>3, <2>1 DEF Halves
    <3>2. s[i] = Part(m, 1) => i < Len(w) /\ w[i + 1] = Part(m, 2) /\ i + 1 \in 1..Len(w)
      BY <1>3, <1>5, <2>1
    <3>3. i < Len(w) => i < Len(s)
      BY <1>3, <2>1
    <3> QED
      BY <1>3, <3>1, <3>2, <3>3
  <2>2. CASE i = Len(w) + 1
    BY <1>1, <1>3, <2>2
  <2> QED
    BY <1>4, <2>1, <2>2
<1>7. \A i, j \in 1..Len(s) : s[i] = s[j] /\ s[i][1] # 0 => i = j
  BY <1>1, <1>3, <1>4 DEF Halves
<1>8. \A i \in 2..Len(s) : s[i] # Handshake
  <2>1. \A i \in 2..Len(s) : (i \in 2..Len(w) /\ i \in 1..Len(w)) \/ i = Len(w) + 1
    BY <1>3
  <2> QED
    BY <1>1, <1>3, <2>1 DEF Halves
<1>9. Halves(s)
  BY <1>3, <1>6, <1>7, <1>8 DEF Halves
<1>10. \A i \in 1..Len(s) : s[i][1] <= Len(P) /\ ~InQ(Q, s[i][1])
  <2>1. Len(P) \in Nat /\ 0 <= Len(P)
    OBVIOUS
  <2>2. \A i \in 1..Len(w) : w[i][1] <= Len(P) /\ ~InQ(Q, w[i][1])
    BY DEF Written, Live
  <2> QED
    BY <1>1, <1>3, <1>4, <2>1, <2>2
<1>11. ASSUME NEW a \in 1..Len(P), NEW b \in 1..Len(P), a < b, P[a] = P[b],
              NEW y \in 1..Len(s), s[y] = Part(b, 1), a \notin T \cup D
       PROVE  \E z \in 1..(y - 1) : s[z] = Part(a, 2)
  <2>1. y \in 1..Len(w) /\ w[y] = Part(b, 1)
    BY <1>1, <1>3, <1>4, <1>11
  <2>2. PICK z \in 1..(y - 1) : w[z] = Part(a, 2)
    BY <1>11, <2>1 DEF Written
  <2>3. z \in 1..Len(w)
    BY <1>3, <2>1
  <2> QED
    BY <1>3, <2>2, <2>3
<1>12. Written(P, T, D, s)
  BY <1>10, <1>11 DEF Written
<1>13. Live(Q, S, s)
  <2>1. \A i \in 1..Len(S) : In(s, Part(S[i], 2))
    BY <1>1, <1>2, <1>3, AppendIn DEF Live
  <2> QED
    BY <1>6, <1>10, <2>1 DEF Live
<1> QED
  BY <1>2, <1>9, <1>12, <1>13

\* A message that is not on the socket follows; those it must not overtake are.
LEMMA MessageFollows ==
    ASSUME NEW P \in Seq(Nat), NEW T, NEW D, NEW Q, NEW S \in Seq(Nat), NEW w,
           Halves(w), Written(P, T, D, w), Live(Q, S, w),
           NEW m \in 1..Len(P), \A i \in 1..Len(w) : w[i][1] # m, ~InQ(Q, m),
           \A a \in 1..Len(P) : a < m /\ P[a] = P[m] => a \in T \cup D \/ In(w, Part(a, 2))
    PROVE  /\ Halves(w \o Whole(m)) /\ Written(P, T, D, w \o Whole(m))
           /\ Live(Q, S, w \o Whole(m)) /\ Live(Q, Append(S, m), w \o Whole(m))
<1>1. PICK s, r : s = w \o r /\ r = Whole(m)
  OBVIOUS
<1>2. /\ m \in Nat \ {0} /\ r \in Seq(Pieces) /\ Len(r) = 2 /\ r[1] = <<m, 1>> /\ r[2] = <<m, 2>>
  BY <1>1 DEF Whole, Part, Pieces
<1>3. PICK n \in Nat : n = Len(w)
  BY DEF Halves
<1>4. /\ w \in Seq(Pieces) /\ s \in Seq(Pieces) /\ Len(s) = n + 2
      /\ (\A i \in 1..n : s[i] = w[i]) /\ s[n + 1] = <<m, 1>> /\ s[n + 2] = <<m, 2>>
  <2>1. w \in Seq(Pieces)
    BY DEF Halves
  <2>2. /\ s \in Seq(Pieces) /\ Len(s) = n + 2
        /\ (\A i \in 1..n : s[i] = w[i])
        /\ \A i \in 1..2 : s[n + i] = r[i]
    <3>1. /\ s \in Seq(Pieces) /\ Len(s) = Len(w) + Len(r)
          /\ (\A i \in 1..Len(w) : s[i] = w[i])
          /\ \A i \in 1..Len(r) : s[Len(w) + i] = r[i]
      BY <1>1, <1>2, <2>1, Joined, Zenon
    <3> QED
      BY <1>2, <1>3, <3>1
  <2> QED
    BY <1>2, <2>1, <2>2
<1>5. \A i \in 1..Len(s) : i \in 1..n \/ i = n + 1 \/ i = n + 2
  <2>1. Len(s) = n + 2
    BY <1>4
  <2> QED
    BY <2>1
<1>6. /\ \A i \in 1..n : s[i][1] # m
      /\ s[n + 1][1] = m /\ s[n + 2][1] = m /\ s[n + 1] # s[n + 2]
      /\ s[n + 1] # Handshake /\ s[n + 2] # Handshake
  BY <1>2, <1>3, <1>4 DEF Handshake
<1>7. \A i \in 1..n, k \in Nat \ {0} : w[i] = Part(k, 1) =>
         i < n /\ w[i + 1] = Part(k, 2) /\ i + 1 \in 1..n
  BY <1>3 DEF Live, Halves
<1>8. ASSUME NEW i \in 1..Len(s), NEW k \in Nat \ {0}
      PROVE  /\ s[i] = Part(k, 2) => i > 1 /\ s[i - 1] = Part(k, 1)
             /\ s[i] = Part(k, 1) => i < Len(s) /\ s[i + 1] = Part(k, 2)
  <2>1. CASE i \in 1..n
    <3>1. s[i] = Part(k, 2) => i > 1 /\ w[i - 1] = Part(k, 1) /\ i - 1 \in 1..n
      BY <1>3, <1>4, <2>1 DEF Halves
    <3>2. s[i] = Part(k, 1) => i < n /\ w[i + 1] = Part(k, 2) /\ i + 1 \in 1..n
      BY <1>4, <1>7, <2>1
    <3>3. i < n => i < Len(s)
      BY <1>3, <1>4, <2>1
    <3> QED
      BY <1>4, <3>1, <3>2, <3>3
  <2>2. CASE i = n + 1
    <3>1. s[i] = Part(k, 1) => k = m
      BY <1>2, <1>4, <2>2 DEF Part
    <3>2. s[i] # Part(k, 2)
      BY <1>4, <2>2 DEF Part
    <3>3. i < Len(s) /\ i + 1 = n + 2 /\ s[i + 1] = Part(m, 2)
      BY <1>3, <1>4, <2>2 DEF Part
    <3> QED
      BY <3>1, <3>2, <3>3
  <2>3. CASE i = n + 2
    <3>1. s[i] = Part(k, 2) => k = m
      BY <1>2, <1>4, <2>3 DEF Part
    <3>2. s[i] # Part(k, 1)
      BY <1>4, <2>3 DEF Part
    <3>3. i > 1 /\ i - 1 = n + 1 /\ s[i - 1] = Part(m, 1)
      BY <1>3, <1>4, <2>3 DEF Part
    <3> QED
      BY <3>1, <3>2, <3>3
  <2> QED
    BY <1>5, <2>1, <2>2, <2>3
<1>9. ASSUME NEW i \in 1..Len(s), NEW j \in 1..Len(s), s[i] = s[j], s[i][1] # 0
      PROVE  i = j
  <2>1. CASE i \in 1..n /\ j \in 1..n
    BY <1>3, <1>4, <1>9, <2>1 DEF Halves
  <2>2. CASE ~(i \in 1..n /\ j \in 1..n)
    BY <1>3, <1>5, <1>6, <1>9, <2>2
  <2> QED
    BY <2>1, <2>2
<1>10. ASSUME NEW i \in 2..Len(s) PROVE s[i] # Handshake
  <2>1. i \in 1..Len(s) /\ (i \in 1..n => i \in 2..Len(w))
    BY <1>3, <1>4
  <2> QED
    BY <1>4, <1>5, <1>6, <2>1 DEF Halves
<1>11. Halves(s)
  BY <1>4, <1>8, <1>9, <1>10 DEF Halves
<1>12. \A i \in 1..Len(s) : s[i][1] <= Len(P) /\ ~InQ(Q, s[i][1])
  <2>1. \A i \in 1..n : w[i][1] <= Len(P) /\ ~InQ(Q, w[i][1])
    BY <1>3 DEF Written, Live
  <2>2. m <= Len(P)
    OBVIOUS
  <2> QED
    BY <1>4, <1>5, <1>6, <2>1, <2>2
<1>13. ASSUME NEW a \in 1..Len(P), NEW b \in 1..Len(P), a < b, P[a] = P[b],
              NEW y \in 1..Len(s), s[y] = Part(b, 1), a \notin T \cup D
       PROVE  \E z \in 1..(y - 1) : s[z] = Part(a, 2)
  <2>1. CASE y \in 1..n
    <3>1. PICK z \in 1..(y - 1) : w[z] = Part(a, 2)
      BY <1>3, <1>4, <1>13, <2>1, SMTT(30) DEF Written
    <3>2. z \in 1..n
      BY <1>3, <2>1
    <3> QED
      BY <1>4, <3>1, <3>2
  <2>2. CASE y = n + 1
    <3>1. b = m
      BY <1>2, <1>4, <1>13, <2>2 DEF Part
    <3>2. In(w, Part(a, 2))
      BY <1>13, <3>1
    <3>3. PICK z \in 1..n : w[z] = Part(a, 2)
      BY <1>3, <3>2 DEF In
    <3>4. z \in 1..(y - 1)
      BY <1>3, <2>2
    <3> QED
      BY <1>4, <3>3, <3>4
  <2>3. CASE y = n + 2
    BY <1>4, <1>13, <2>3 DEF Part
  <2> QED
    BY <1>5, <2>1, <2>2, <2>3
<1>14. Written(P, T, D, s)
  BY <1>12, <1>13 DEF Written
<1>15. \A i \in 1..n : i \in 1..Len(s)
  BY <1>3, <1>4
<1>16. \A x : In(w, x) => In(s, x)
  BY <1>3, <1>4, <1>15 DEF In
<1>17. In(s, Part(m, 2))
  <2>1. n + 2 \in 1..Len(s) /\ s[n + 2] = Part(m, 2)
    BY <1>4 DEF Part
  <2> QED
    BY <2>1, Zenon DEF In
<1>18. \A i \in 1..Len(S) : In(s, Part(S[i], 2))
  BY <1>16 DEF Live
<1>19. \A i \in 1..Len(Append(S, m)) : In(s, Part(Append(S, m)[i], 2))
  <2>1. /\ Len(Append(S, m)) = Len(S) + 1 /\ Append(S, m)[Len(S) + 1] = m /\ Len(S) \in Nat
        /\ \A i \in 1..Len(S) : Append(S, m)[i] = S[i]
    BY <1>2
  <2>2. \A i \in 1..(Len(S) + 1) : i \in 1..Len(S) \/ i = Len(S) + 1
    BY <2>1
  <2> QED
    BY <1>17, <1>18, <2>1, <2>2
<1>20. Live(Q, S, s) /\ Live(Q, Append(S, m), s)
  BY <1>8, <1>12, <1>18, <1>19 DEF Live
<1> QED
  BY <1>1, <1>11, <1>14, <1>20

\* More may be settled or dropped, fewer queued or kept.
LEMMA StreamStays ==
    ASSUME NEW P, NEW T, NEW D, NEW Q, NEW S, NEW w, Written(P, T, D, w),
           NEW T2, T \subseteq T2, NEW D2, D \subseteq D2
    PROVE  /\ Written(P, T2, D2, w)
           /\ \A Q2, S2 : (\A m : InQ(Q2, m) => InQ(Q, m)) /\ (\A m : In(S2, m) => In(S, m)) =>
                 (Live(Q, S, w) => Live(Q2, S2, w))
<1>1. Written(P, T2, D2, w)
  BY DEF Written
<1>2. ASSUME NEW Q2, NEW S2, \A m : InQ(Q2, m) => InQ(Q, m), \A m : In(S2, m) => In(S, m),
             Live(Q, S, w)
      PROVE  Live(Q2, S2, w)
  BY <1>2 DEF Live, In
<1> QED
  BY <1>1, <1>2

\* A new message is not on the socket.
LEMMA NotYetWritten ==
    ASSUME NEW P \in Seq(Nat), NEW T, NEW D, NEW w, Halves(w), Written(P, T, D, w),
           NEW p \in Nat, NEW N, NEW m, Numbered(P, p, N, m)
    PROVE  Written(N, T, D, w) /\ \A i \in 1..Len(w) : w[i][1] # m
<1>1. PICK n \in Nat : n = Len(P)
  OBVIOUS
<1>2. m = n + 1 /\ Len(N) = n + 1 /\ \A i \in 1..n : N[i] = P[i]
  BY <1>1 DEF Numbered
<1>3. \A i \in 1..Len(w) : w[i] \in Pieces /\ w[i][1] \in Nat /\ w[i][1] <= n
  <2>1. \A i \in 1..Len(w) : w[i] \in Pieces /\ w[i][1] <= n
    BY <1>1 DEF Halves, Written
  <2> QED
    BY <2>1 DEF Pieces
<1>4. \A i \in 1..Len(w) : w[i][1] # m /\ w[i][1] <= Len(N)
  BY <1>2, <1>3
<1>5. ASSUME NEW a \in 1..Len(N), NEW b \in 1..Len(N), a < b, N[a] = N[b],
             NEW x \in 1..Len(w), w[x] = Part(b, 1)
      PROVE  a \in T \cup D \/ \E y \in 1..(x - 1) : w[y] = Part(a, 2)
  <2>1. w[x][1] = b
    BY <1>5 DEF Part
  <2>2. b \in 1..n /\ a \in 1..n
    BY <1>2, <1>3, <1>5, <2>1
  <2> QED
    BY <1>1, <1>2, <1>5, <2>2 DEF Written
<1> QED
  BY <1>4, <1>5 DEF Written

-----------------------------------------------------------------------------
(***************************************************************************)
(* The functions that run under the lock.                                  *)
(***************************************************************************)
SameMsgs(k, l) ==
    /\ l.prio = k.prio /\ l.out_q = k.out_q /\ l.sent = k.sent
    /\ l.settled = k.settled /\ l.dropped = k.dropped

SameLink(k, l) ==
    l.state = k.state /\ l.sock = k.sock /\ l.state_after_send = k.state_after_send

\* Neither the messages nor the bytes change, nor the state.
Quiet(k, l) ==
    /\ l \in ConStates /\ SameMsgs(k, l) /\ SameLink(k, l)
    /\ l.wire = k.wire /\ l.outcoming_bl = k.outcoming_bl

\* A quiet change keeps the connection sound, and its link.
LEMMA QuietKeeps ==
    ASSUME NEW k, NEW l, Quiet(k, l)
    PROVE  /\ \A r : Sound(k, r) => Sound(l, r)
           /\ LinkOK(k) => LinkOK(l)
BY DEF Quiet, SameMsgs, SameLink, Sound, StreamOK, Ahead, LinkOK

\* Two quiet changes are one.
LEMMA QuietTransitive ==
    ASSUME NEW k, NEW l, NEW n, Quiet(k, l), Quiet(l, n)
    PROVE  Quiet(k, n)
BY DEF Quiet, SameMsgs, SameLink

\* start_write activates ev_write if there is a socket, and changes nothing else.
LEMMA StartWrite ==
    ASSUME NEW k \in ConStates
    PROVE  /\ Quiet(k, start_write(k))
           /\ start_write(k).sending = k.sending /\ start_write(k).late = k.late
           /\ k.ev_write \/ k.sock # "none" => start_write(k).ev_write
<1>1. CASE k.sock = "none"
  BY <1>1 DEF start_write, Quiet, SameMsgs, SameLink
<1>2. CASE k.sock # "none"
  <2>1. PICK l : l = [k EXCEPT !.ev_write = TRUE]
    OBVIOUS
  <2>2. l \in ConStates
    BY <2>1 DEF ConStates
  <2>3. /\ SameMsgs(k, l) /\ SameLink(k, l) /\ l.wire = k.wire
        /\ l.outcoming_bl = k.outcoming_bl /\ l.sending = k.sending /\ l.late = k.late
        /\ l.ev_write = TRUE
    BY <2>1 DEF ConStates, SameMsgs, SameLink
  <2> QED
    BY <1>2, <2>1, <2>2, <2>3 DEF start_write, Quiet
<1> QED
  BY <1>1, <1>2

\* The end of _try_send schedules what is left.
LEMMA SetAction ==
    ASSUME NEW k \in ConStates
    PROVE  /\ Quiet(k, set_action(k))
           /\ set_action(k).sending = k.sending /\ set_action(k).late = k.late
           /\ k.outcoming_bl # <<>> /\ k.sock # "none" => set_action(k).ev_write
<1>1. CASE k.outcoming_bl # <<>>
  BY <1>1, StartWrite DEF set_action
<1>2. CASE k.outcoming_bl = <<>>
  <2>1. PICK l : l = [k EXCEPT !.ev_write = FALSE]
    OBVIOUS
  <2>2. l \in ConStates
    BY <2>1 DEF ConStates
  <2>3. /\ SameMsgs(k, l) /\ SameLink(k, l) /\ l.wire = k.wire
        /\ l.outcoming_bl = k.outcoming_bl /\ l.sending = k.sending /\ l.late = k.late
    BY <2>1 DEF ConStates, SameMsgs, SameLink
  <2> QED
    BY <1>2, <2>1, <2>2, <2>3 DEF set_action, Quiet
<1> QED
  BY <1>1, <1>2

\* kick_write schedules what is queued or left on an open connection.
LEMMA KickWrite ==
    ASSUME NEW k \in ConStates
    PROVE  /\ Quiet(k, kick_write(k))
           /\ kick_write(k).sending = k.sending /\ kick_write(k).late = k.late
           /\ k.ev_write => kick_write(k).ev_write
           /\ ( /\ k.sock # "none" /\ k.state \in OpenStates
                /\ Queued(k) # {} \/ k.outcoming_bl # <<>> ) => kick_write(k).ev_write
<1>1. Quiet(k, k)
  BY DEF Quiet, SameMsgs, SameLink
<1>2. k.state \in OpenStates => k.state \notin {"CONNECTING", "STANDBY", "CLOSED"}
  BY DEF OpenStates
<1>3. CASE kick_write(k) = start_write(k)
  BY <1>3, StartWrite
<1>4. CASE kick_write(k) # start_write(k)
  BY <1>1, <1>2, <1>4 DEF kick_write
<1> QED
  BY <1>3, <1>4

\* The end of handle_write: what is left is scheduled.
LEMMA Finish ==
    ASSUME NEW k \in ConStates, NEW l, l = kick_write([set_action(k) EXCEPT !.sending = FALSE])
    PROVE  /\ Quiet(k, l) /\ l.sending = FALSE /\ l.late = k.late
           /\ ( /\ k.sock # "none" /\ k.state \in OpenStates
                /\ Queued(k) # {} \/ k.outcoming_bl # <<>> ) => l.ev_write
<1>1. PICK a : a = set_action(k)
  OBVIOUS
<1>2. PICK b : b = [a EXCEPT !.sending = FALSE]
  OBVIOUS
<1>3. Quiet(k, a) /\ a \in ConStates /\ a.late = k.late
  BY <1>1, SetAction DEF Quiet
<1>4. b \in ConStates
  BY <1>2, <1>3, ZenonT(40) DEF ConStates
<1>5. SameMsgs(a, b) /\ SameLink(a, b) /\ b.wire = a.wire /\ b.outcoming_bl = a.outcoming_bl
      /\ b.sending = FALSE /\ b.late = a.late
  BY <1>2, <1>3 DEF ConStates, SameMsgs, SameLink
<1>6. Quiet(k, b)
  BY <1>3, <1>4, <1>5, QuietTransitive DEF Quiet
<1>7. Quiet(b, l) /\ l.sending = FALSE /\ l.late = k.late
  BY <1>1, <1>2, <1>3, <1>4, <1>5, KickWrite
<1>8. Queued(b) = Queued(k) /\ b.sock = k.sock /\ b.state = k.state /\ b.outcoming_bl = k.outcoming_bl
  BY <1>6 DEF Queued, Quiet, SameMsgs, SameLink
<1>9. ( /\ k.sock # "none" /\ k.state \in OpenStates
        /\ Queued(k) # {} \/ k.outcoming_bl # <<>> ) => l.ev_write
  BY <1>1, <1>2, <1>4, <1>8, KickWrite
<1> QED
  BY <1>6, <1>7, <1>9, QuietTransitive

\* The messages that are queued.
LEMMA QueuedIn ==
    ASSUME NEW k, k.out_q \in [1..Highest -> Seq(Nat)]
    PROVE  /\ \A m : m \in Queued(k) <=> InQ(k.out_q, m)
           /\ Queued(k) \subseteq Nat
           /\ Queued(k) # {} <=> \E m \in Nat : InQ(k.out_q, m)
<1>1. \A q \in 1..Highest : k.out_q[q] \in Seq(Nat)
  OBVIOUS
<1>2. ASSUME NEW s \in Seq(Nat) PROVE ToSet(s) \subseteq Nat /\ \A m : m \in ToSet(s) <=> In(s, m)
  BY DEF ToSet, In
<1>3. \A m : m \in Queued(k) <=> InQ(k.out_q, m)
  BY <1>1, <1>2 DEF Queued, InQ
<1>4. Queued(k) \subseteq Nat
  BY <1>1, <1>2 DEF Queued
<1> QED
  BY <1>3, <1>4

\* Messages have numbers from 1 on.
LEMMA NoMessageZero ==
    ASSUME NEW P, NEW Q, NEW S, NEW T, NEW D, MsgsOK(P, Q, S, T, D)
    PROVE  ~InQ(Q, 0) /\ 0 \in Nat /\ 0 \notin 1..Len(P)
<1>1. 0 \in Nat /\ 0 \notin 1..Len(P)
  BY DEF MsgsOK
<1> QED
  BY <1>1 DEF MsgsOK, Placed

\* The next message in turn may be written.
LEMMA NextFollows ==
    ASSUME NEW P, NEW Q, NEW S, NEW T, NEW D, MsgsOK(P, Q, S, T, D),
           NEW q \in 1..Highest, NEW m, Top(Q, q, m), NEW R, Left(Q, q, 1, R),
           NEW w, Halves(w), Written(P, T, D, w), Live(Q, S, w)
    PROVE  /\ Halves(w \o Whole(m))
           /\ Written(P, T, D, w \o Whole(m)) /\ Live(R, Append(S, m), w \o Whole(m))
           /\ Written(P, T \cup {m}, D, w \o Whole(m)) /\ Live(R, S, w \o Whole(m))
<1>1. /\ m \in 1..Len(P) /\ InQ(Q, m) /\ ~InQ(R, m)
      /\ \A n : InQ(R, n) => InQ(Q, n)
      /\ \A n \in Nat : InQ(R, n) /\ P[n] = P[m] => m < n
      /\ MsgsOK(P, R, Append(S, m), T, D)
  BY TakeNext, Zenon
<1>2. P \in Seq(Nat) /\ S \in Seq(Nat)
  BY DEF MsgsOK
<1>3. \A i \in 1..Len(w) : w[i][1] # m
  BY <1>1 DEF Live
<1>4. ASSUME NEW a \in 1..Len(P), a < m, P[a] = P[m], a \notin T \cup D
      PROVE  In(w, Part(a, 2))
  <2>1. a \in Nat /\ a # m /\ m \in Nat
    BY <1>1, <1>4
  <2>2. InQ(R, a) \/ In(Append(S, m), a)
    BY <1>1, <1>4, <2>1 DEF MsgsOK, Placed
  <2>3. ~InQ(R, a)
    BY <1>1, <1>4, <2>1
  <2>4. In(S, a)
    <3>1. \A n : In(Append(S, m), n) <=> In(S, n) \/ n = m
      BY <1>2, <2>1, AppendIn
    <3> QED
      BY <2>1, <2>2, <2>3, <3>1
  <2> QED
    BY <2>4 DEF Live, In
<1>5. Live(R, S, w)
  BY <1>1, StreamStays
<1>6. PICK v : v = w \o Whole(m)
  OBVIOUS
<1>7. Halves(v) /\ Written(P, T, D, v) /\ Live(R, S, v) /\ Live(R, Append(S, m), v)
  BY <1>1, <1>2, <1>3, <1>4, <1>5, <1>6, MessageFollows
<1>8. Written(P, T \cup {m}, D, v)
  BY <1>7 DEF Written
<1> QED
  BY <1>6, <1>7, <1>8

\* A new message may be written when none is queued.
LEMMA NewFollows ==
    ASSUME NEW P, NEW Q, NEW S, NEW T, NEW D, MsgsOK(P, Q, S, T, D),
           NEW p \in 1..Highest, NEW N, NEW m, Numbered(P, p, N, m),
           \A n \in Nat : ~InQ(Q, n),
           NEW w, Halves(w), Written(P, T, D, w), Live(Q, S, w)
    PROVE  /\ Halves(w \o Whole(m))
           /\ Written(N, T, D, w \o Whole(m)) /\ Live(Q, Append(S, m), w \o Whole(m))
           /\ Written(N, T \cup {m}, D, w \o Whole(m)) /\ Live(Q, S, w \o Whole(m))
<1>1. P \in Seq(Nat) /\ S \in Seq(Nat) /\ p \in Nat
  BY DEF MsgsOK
<1>2. /\ N \in Seq(Nat) /\ Len(N) = m /\ m \in Nat \ {0} /\ N[m] = p
      /\ \A n \in Nat : n \in 1..m <=> n \in 1..Len(P) \/ n = m
      /\ ~InQ(Q, m)
  BY <1>1, NewNumber
<1>3. Written(N, T, D, w) /\ \A i \in 1..Len(w) : w[i][1] # m
  BY <1>1, NotYetWritten
<1>4. ASSUME NEW a \in 1..Len(N), a < m, N[a] = N[m], a \notin T \cup D
      PROVE  In(w, Part(a, 2))
  <2>1. a \in 1..Len(P) /\ a \in Nat
    BY <1>2, <1>4
  <2>2. In(S, a)
    BY <1>4, <2>1 DEF MsgsOK, Placed
  <2> QED
    BY <2>2 DEF Live, In
<1>5. PICK v : v = w \o Whole(m)
  OBVIOUS
<1>6. Halves(v) /\ Written(N, T, D, v) /\ Live(Q, S, v) /\ Live(Q, Append(S, m), v)
  <2>1. m \in 1..Len(N)
    BY <1>2
  <2> QED
    BY <1>1, <1>2, <1>3, <1>4, <1>5, <2>1, MessageFollows, ZenonT(40)
<1>7. Written(N, T \cup {m}, D, v)
  BY <1>6 DEF Written
<1> QED
  BY <1>5, <1>6, <1>7 DEF Submitted

\* A message is two pieces.
LEMMA WholeMessage ==
    ASSUME NEW m \in Nat
    PROVE  Whole(m) \in Seq(Pieces) /\ Len(Whole(m)) = 2 /\ Whole(m) # <<>>
BY DEF Whole, Part, Pieces

\* _send: m is kept, or settled if the connection is lossy.
SentIs(k, m, l) ==
    /\ l \in ConStates /\ l.prio = k.prio /\ l.out_q = k.out_q /\ l.dropped = k.dropped
    /\ l.outcoming_bl = k.outcoming_bl \o Whole(m) /\ l.wire = k.wire
    /\ SameLink(k, l) /\ l.sending = k.sending /\ l.late = k.late
    /\ \/ l.sent = k.sent /\ l.settled = k.settled \cup {m}
       \/ l.sent = Append(k.sent, m) /\ l.settled = k.settled

\* _send appends the pieces and keeps or settles the message, nothing else.
LEMMA SendRecord ==
    ASSUME NEW k \in ConStates, NEW m \in Nat, NEW l, l = _send(k, m)
    PROVE  SentIs(k, m, l)
<1>1. PICK s, u, b : /\ s = (IF k.lossy THEN k.sent ELSE Append(k.sent, m))
                     /\ u = (IF k.lossy THEN k.settled \cup {m} ELSE k.settled)
                     /\ b = k.outcoming_bl \o Whole(m)
  OBVIOUS
<1>2. l = [k EXCEPT !.sent = s, !.settled = u, !.outcoming_bl = b]
  BY <1>1 DEF _send
<1>3. s \in Seq(Nat) /\ u \in SUBSET Nat /\ b \in Seq(Pieces)
  <2>1. k.sent \in Seq(Nat) /\ k.settled \in SUBSET Nat /\ k.outcoming_bl \in Seq(Pieces)
    BY DEF ConStates
  <2>2. Append(k.sent, m) \in Seq(Nat) /\ k.settled \cup {m} \in SUBSET Nat
    BY <2>1
  <2>3. b \in Seq(Pieces)
    BY <1>1, <2>1, WholeMessage
  <2> QED
    BY <1>1, <2>1, <2>2, <2>3
<1>4. l \in ConStates
  <2>1. ASSUME NEW c \in ConStates, NEW x \in Seq(Nat), NEW V \in SUBSET Nat,
               NEW y \in Seq(Pieces), NEW d,
               d = [c EXCEPT !.sent = x, !.settled = V, !.outcoming_bl = y]
        PROVE  d \in ConStates
    BY <2>1, ZenonT(40) DEF ConStates
  <2> QED
    BY <1>2, <1>3, <2>1, Zenon
<1>5. /\ l.prio = k.prio /\ l.out_q = k.out_q /\ l.dropped = k.dropped
      /\ l.outcoming_bl = b /\ l.wire = k.wire /\ l.sent = s /\ l.settled = u
      /\ SameLink(k, l) /\ l.sending = k.sending /\ l.late = k.late
  BY <1>2 DEF ConStates, SameLink
<1> QED
  BY <1>1, <1>4, <1>5 DEF SentIs

\* Three sequences in a row.
LEMMA JoinedThrice ==
    ASSUME NEW w \in Seq(Pieces), NEW b \in Seq(Pieces), NEW c \in Seq(Pieces)
    PROVE  w \o (b \o c) = (w \o b) \o c
OBVIOUS

\* The types of the fields that are used.
LEMMA Fields ==
    ASSUME NEW k \in ConStates
    PROVE  /\ k.prio \in Seq(Nat) /\ k.out_q \in [1..Highest -> Seq(Nat)] /\ k.sent \in Seq(Nat)
           /\ k.settled \subseteq Nat /\ k.dropped \subseteq Nat
           /\ k.outcoming_bl \in Seq(Pieces) /\ k.wire \in Seq(Pieces)
           /\ k.sending \in BOOLEAN /\ k.late \in BOOLEAN /\ k.ev_write \in BOOLEAN
           /\ k.sock \in {"none", "up", "broken"}
BY DEF ConStates

\* The highest priority with a message queued.
LEMMA NextPriority ==
    ASSUME NEW k \in ConStates, Queued(k) # {}
    PROVE  /\ NextPrio(k) \in 1..Highest
           /\ Top(k.out_q, NextPrio(k), Head(k.out_q[NextPrio(k)]))
<1> DEFINE T == {q \in 1..Highest : k.out_q[q] # <<>>}
<1>0. k.out_q \in [1..Highest -> Seq(Nat)]
  BY Fields
<1>1. T # {}
  <2>1. PICK m : InQ(k.out_q, m)
    BY <1>0, QueuedIn
  <2> QED
    BY <2>1 DEF InQ, In
<1>2. T \subseteq Nat /\ Highest \in Nat /\ \A t \in T : t <= Highest
  BY ConstantsAssumption
<1> HIDE DEF T
<1>3. PICK n \in T : \A m \in T : m <= n
  BY <1>1, <1>2, GreatestNatural
<1> USE DEF T
<1>4. n \in 1..Highest /\ k.out_q[n] # <<>> /\ \A r \in (n + 1)..Highest : k.out_q[r] = <<>>
  <2>1. \A r \in (n + 1)..Highest : r \in 1..Highest /\ ~(r <= n)
    BY <1>2
  <2> QED
    BY <1>3, <2>1
<1>5. PICK q : q = NextPrio(k)
  OBVIOUS
<1>6. q \in 1..Highest /\ k.out_q[q] # <<>> /\ \A r \in (q + 1)..Highest : k.out_q[r] = <<>>
  BY <1>4, <1>5, Zenon DEF NextPrio
<1>7. Head(k.out_q[q]) = k.out_q[q][1]
  <2>1. k.out_q[q] \in Seq(Nat)
    BY <1>0, <1>6
  <2> QED
    BY <1>6, <2>1
<1> QED
  BY <1>5, <1>6, <1>7 DEF Top

\* _get_next_outgoing: the next message is appended to the output buffer.
LEMMA NextOutgoing ==
    ASSUME NEW k, Sound(k, k.outcoming_bl), Queued(k) # {}, NEW l, l = _get_next_outgoing(k)
    PROVE  /\ Sound(l, l.outcoming_bl) /\ SameLink(k, l)
           /\ l.outcoming_bl # <<>> /\ l.sending = k.sending /\ l.late = k.late
<1>1. k \in ConStates /\ MsgsOK(k.prio, k.out_q, k.sent, k.settled, k.dropped)
  BY DEF Sound
<1>2. PICK P, Q, S, T, D, b, w :
         /\ P = k.prio /\ Q = k.out_q /\ S = k.sent /\ T = k.settled /\ D = k.dropped
         /\ b = k.outcoming_bl /\ w = k.wire
  OBVIOUS
<1>3. /\ MsgsOK(P, Q, S, T, D) /\ Q \in [1..Highest -> Seq(Nat)]
      /\ b \in Seq(Pieces) /\ w \in Seq(Pieces)
  BY <1>1, <1>2, Fields
<1>4. PICK q, m : q \in 1..Highest /\ q = NextPrio(k) /\ m = Head(Q[q]) /\ Top(Q, q, m)
  BY <1>1, <1>2, NextPriority
<1>5. PICK t : t = Tail(Q[q])
  OBVIOUS
<1>6. After(Q[q], 1, t)
  <2>1. Q[q] \in Seq(Nat) /\ Q[q] # <<>>
    BY <1>3, <1>4 DEF Top
  <2> QED
    BY <1>5, <2>1 DEF After
<1>7. PICK R : R = [Q EXCEPT ![q] = t]
  OBVIOUS
<1>8. Left(Q, q, 1, R) /\ t \in Seq(Nat)
  BY <1>6, <1>7 DEF Left, After
<1>9. R \in [1..Highest -> Seq(Nat)]
  BY <1>3, <1>7, <1>8
<1>10. /\ m \in 1..Len(P) /\ MsgsOK(P, R, Append(S, m), T, D)
       /\ MsgsOK(P, R, S, T \cup {m}, D)
  BY <1>3, <1>4, <1>8, TakeNext
<1>11. m \in Nat
  BY <1>10
<1>12. PICK a : a = [k EXCEPT !.out_q[q] = Tail(@)]
  OBVIOUS
<1>13. a = [k EXCEPT !.out_q = R]
  BY <1>1, <1>2, <1>5, <1>7, <1>12 DEF ConStates
<1>14. a \in ConStates
  BY <1>1, <1>9, <1>13 DEF ConStates
<1>15. /\ a.prio = P /\ a.out_q = R /\ a.sent = S /\ a.settled = T /\ a.dropped = D
       /\ a.outcoming_bl = b /\ a.wire = w /\ SameLink(k, a)
       /\ a.sending = k.sending /\ a.late = k.late
  BY <1>1, <1>2, <1>13 DEF ConStates, SameLink
<1>16. l = _send(a, m)
  BY <1>2, <1>4, <1>12 DEF _get_next_outgoing
<1>17. /\ l \in ConStates /\ l.prio = P /\ l.out_q = R /\ l.dropped = D
       /\ l.outcoming_bl = b \o Whole(m) /\ l.wire = w
       /\ SameLink(a, l) /\ l.sending = k.sending /\ l.late = k.late
       /\ \/ l.sent = S /\ l.settled = T \cup {m}
          \/ l.sent = Append(S, m) /\ l.settled = T
  <2>1. /\ l \in ConStates /\ l.prio = a.prio /\ l.out_q = a.out_q /\ l.dropped = a.dropped
        /\ l.outcoming_bl = a.outcoming_bl \o Whole(m) /\ l.wire = a.wire
        /\ SameLink(a, l) /\ l.sending = a.sending /\ l.late = a.late
        /\ \/ l.sent = a.sent /\ l.settled = a.settled \cup {m}
           \/ l.sent = Append(a.sent, m) /\ l.settled = a.settled
    BY <1>11, <1>14, <1>16, SendRecord, ZenonT(40) DEF SentIs
  <2> QED
    BY <1>15, <2>1
<1>18. SameLink(k, l) /\ l.sock = k.sock
  BY <1>15, <1>17 DEF SameLink
<1>19. MsgsOK(l.prio, l.out_q, l.sent, l.settled, l.dropped)
  BY <1>10, <1>17
<1>20. l.outcoming_bl \in Seq(Pieces) /\ l.outcoming_bl # <<>>
  BY <1>3, <1>11, <1>17, WholeMessage
<1>21. CASE k.sock = "up"
  <2>1. PICK v : v = w \o b
    OBVIOUS
  <2>2. Halves(v) /\ Written(P, T, D, v) /\ Live(Q, S, v)
    BY <1>2, <1>21, <2>1 DEF Sound, StreamOK, Ahead
  <2>3. /\ Halves(v \o Whole(m))
        /\ Written(P, T, D, v \o Whole(m)) /\ Live(R, Append(S, m), v \o Whole(m))
        /\ Written(P, T \cup {m}, D, v \o Whole(m)) /\ Live(R, S, v \o Whole(m))
    BY <1>3, <1>4, <1>8, <2>2, NextFollows
  <2>4. Ahead(l, l.outcoming_bl) = v \o Whole(m)
    <3>1. PICK c \in Seq(Pieces) : c = Whole(m)
      BY <1>11, WholeMessage
    <3>2. w \o (b \o c) = v \o c
      BY <1>3, <2>1, JoinedThrice
    <3> QED
      BY <1>17, <1>18, <1>21, <3>1, <3>2 DEF Ahead
  <2>5. StreamOK(l, v \o Whole(m))
    BY <1>17, <2>3 DEF StreamOK
  <2> QED
    BY <1>17, <1>18, <1>19, <1>20, <2>4, <2>5 DEF Sound
<1>22. CASE k.sock # "up"
  <2>1. Halves(w) /\ Written(P, T, D, w)
    BY <1>2, <1>22 DEF Sound, StreamOK, Ahead
  <2>2. Written(P, T \cup {m}, D, w)
    BY <2>1 DEF Written
  <2>3. Ahead(l, l.outcoming_bl) = w
    BY <1>17, <1>18, <1>22 DEF Ahead
  <2>4. StreamOK(l, w)
    BY <1>17, <1>18, <1>22, <2>1, <2>2 DEF StreamOK
  <2> QED
    BY <1>17, <1>18, <1>19, <1>20, <2>3, <2>4 DEF Sound
<1> QED
  BY <1>17, <1>18, <1>20, <1>21, <1>22

\* The socket is closed: what was written to it stays as it is.
LEMMA SocketDown ==
    ASSUME NEW k, NEW r, Sound(k, r), NEW l \in ConStates,
           MsgsOK(l.prio, l.out_q, l.sent, l.settled, l.dropped),
           l.sock # "up", l.wire = k.wire, l.prio = k.prio,
           k.settled \subseteq l.settled, k.dropped \subseteq l.dropped,
           NEW u \in Seq(Pieces)
    PROVE  Sound(l, u)
<1>1. k \in ConStates /\ r \in Seq(Pieces) /\ k.wire \in Seq(Pieces)
  BY Fields DEF Sound
<1>2. Halves(k.wire) /\ Written(k.prio, k.settled, k.dropped, k.wire)
  <2>1. PICK P, T, D, w : P = k.prio /\ T = k.settled /\ D = k.dropped /\ w = k.wire
    OBVIOUS
  <2>2. CASE k.sock = "up"
    <3>1. Halves(w \o r) /\ Written(P, T, D, w \o r)
      BY <2>1, <2>2 DEF Sound, StreamOK, Ahead
    <3> QED
      BY <1>1, <2>1, <3>1, WrittenPrefix
  <2>3. CASE k.sock # "up"
    BY <2>3 DEF Sound, StreamOK, Ahead
  <2> QED
    BY <2>2, <2>3
<1>3. Written(l.prio, l.settled, l.dropped, l.wire)
  BY <1>2 DEF Written
<1> QED
  BY <1>2, <1>3 DEF Sound, StreamOK, Ahead

\* A new socket, with nothing but the handshake to write.
LEMMA SocketUp ==
    ASSUME NEW l \in ConStates, MsgsOK(l.prio, l.out_q, l.sent, l.settled, l.dropped),
           l.sock = "up", l.sent = <<>>, NEW r \in Seq(Pieces),
           l.wire \o r \in {<<>>, <<Handshake>>}
    PROVE  Sound(l, r)
<1>1. /\ l.prio \in Seq(Nat) /\ l.out_q \in [1..Highest -> Seq(Nat)] /\ ~InQ(l.out_q, 0)
  BY NoMessageZero, Fields
<1>2. PICK w : w = l.wire \o r
  OBVIOUS
<1>3. Halves(w) /\ Written(l.prio, l.settled, l.dropped, w) /\ Live(l.out_q, <<>>, w)
  BY <1>1, <1>2, NewStream
<1> QED
  BY <1>2, <1>3 DEF Sound, StreamOK, Ahead

\* requeue_sent leaves the sent list empty and the messages in order.
LEMMA RequeueRecord ==
    ASSUME NEW k \in ConStates, MsgsOK(k.prio, k.out_q, k.sent, k.settled, k.dropped),
           NEW l, l = requeue_sent(k)
    PROVE  /\ l \in ConStates /\ MsgsOK(l.prio, l.out_q, l.sent, l.settled, l.dropped)
           /\ l.prio = k.prio /\ l.settled = k.settled /\ l.dropped = k.dropped
           /\ l.sent = <<>> /\ l.wire = k.wire /\ l.outcoming_bl = k.outcoming_bl
           /\ SameLink(k, l) /\ l.sending = k.sending /\ l.late = k.late
<1>1. PICK Q, S, D, T, P : Q = k.out_q /\ S = k.sent /\ D = k.dropped /\ T = k.settled /\ P = k.prio
  OBVIOUS
<1>2. PICK R : R = [Q EXCEPT ![Highest] = S \o Q[Highest]]
  OBVIOUS
<1>3. MsgsOK(P, R, <<>>, T, D)
  <2>1. Requeued(Q, S, R)
    BY <1>2 DEF Requeued
  <2> QED
    BY <1>1, <2>1, Requeue
<1>4. R \in [1..Highest -> Seq(Nat)] /\ <<>> \in Seq(Nat)
  BY <1>3 DEF MsgsOK
<1>5. l = [k EXCEPT !.out_q = R, !.sent = <<>>]
  BY <1>1, <1>2 DEF requeue_sent, ConStates
<1>6. l \in ConStates
  BY <1>4, <1>5, ZenonT(40) DEF ConStates
<1>7. /\ l.prio = k.prio /\ l.settled = k.settled /\ l.dropped = k.dropped /\ l.out_q = R
      /\ l.sent = <<>> /\ l.wire = k.wire /\ l.outcoming_bl = k.outcoming_bl
      /\ SameLink(k, l) /\ l.sending = k.sending /\ l.late = k.late
  BY <1>5 DEF ConStates, SameLink
<1> QED
  BY <1>1, <1>3, <1>6, <1>7

\* discard_out_queue drops what is queued and what is kept.
LEMMA DiscardRecord ==
    ASSUME NEW k \in ConStates, MsgsOK(k.prio, k.out_q, k.sent, k.settled, k.dropped),
           NEW l, l = discard_out_queue(k)
    PROVE  /\ l \in ConStates /\ MsgsOK(l.prio, l.out_q, l.sent, l.settled, l.dropped)
           /\ l.prio = k.prio /\ l.settled = k.settled /\ k.dropped \subseteq l.dropped
           /\ l.sent = <<>> /\ l.wire = k.wire /\ l.outcoming_bl = <<>>
           /\ SameLink(k, l) /\ l.sending = k.sending /\ l.late = k.late
<1>1. PICK Q, S, D, T, P : Q = k.out_q /\ S = k.sent /\ D = k.dropped /\ T = k.settled /\ P = k.prio
  OBVIOUS
<1>2. PICK R, E : R = [q \in 1..Highest |-> <<>>] /\ E = D \cup {m \in Nat : InQ(Q, m) \/ In(S, m)}
  OBVIOUS
<1>3. MsgsOK(P, R, <<>>, T, E)
  BY <1>1, <1>2, Discard
<1>4. R \in [1..Highest -> Seq(Nat)] /\ <<>> \in Seq(Nat) /\ E \in SUBSET Nat /\ <<>> \in Seq(Pieces)
  BY <1>3 DEF MsgsOK
<1>5. E = k.dropped \cup Queued(k) \cup ToSet(k.sent)
  <2>1. S \in Seq(Nat) /\ Q \in [1..Highest -> Seq(Nat)]
    BY <1>1, Fields
  <2>2. ToSet(S) \subseteq Nat /\ \A m : m \in ToSet(S) <=> In(S, m)
    BY <2>1 DEF ToSet, In
  <2>3. Queued(k) \subseteq Nat /\ \A m : m \in Queued(k) <=> InQ(Q, m)
    BY <1>1, <2>1, QueuedIn
  <2> QED
    BY <1>1, <1>2, <2>2, <2>3
<1>6. l = [k EXCEPT !.dropped = E, !.out_q = R, !.sent = <<>>, !.outcoming_bl = <<>>]
  BY <1>2, <1>5 DEF discard_out_queue, ConStates
<1>7. l \in ConStates
  BY <1>4, <1>6, ZenonT(40) DEF ConStates
<1>8. /\ l.prio = P /\ l.settled = T /\ l.dropped = E /\ l.out_q = R
      /\ l.sent = <<>> /\ l.wire = k.wire /\ l.outcoming_bl = <<>>
      /\ SameLink(k, l) /\ l.sending = k.sending /\ l.late = k.late
  BY <1>1, <1>6 DEF ConStates, SameLink
<1> QED
  BY <1>1, <1>2, <1>3, <1>7, <1>8

\* _stop: nothing is left of a connection that was not closed.
LEMMA StopRecord ==
    ASSUME NEW k, NEW r, Sound(k, r), k.state # "CLOSED", NEW l, l = _stop(k)
    PROVE  /\ Sound(l, <<>>) /\ LinkOK(l) /\ l.state = "CLOSED" /\ l.outcoming_bl = <<>>
           /\ l.sending = k.sending
<1>1. k \in ConStates /\ MsgsOK(k.prio, k.out_q, k.sent, k.settled, k.dropped)
  BY DEF Sound
<1>2. PICK d : d = discard_out_queue(k)
  OBVIOUS
<1>3. /\ d \in ConStates /\ MsgsOK(d.prio, d.out_q, d.sent, d.settled, d.dropped)
      /\ d.prio = k.prio /\ d.settled = k.settled /\ k.dropped \subseteq d.dropped
      /\ d.sent = <<>> /\ d.wire = k.wire /\ d.outcoming_bl = <<>> /\ d.sending = k.sending
  BY <1>1, <1>2, DiscardRecord
<1>4. l = [d EXCEPT !.sock = "none", !.ev_write = FALSE, !.replacing = 0, !.state = "CLOSED"]
  BY <1>2 DEF _stop
<1>5. l \in ConStates
  BY <1>3, <1>4, ZenonT(40) DEF ConStates
<1>6. /\ l.prio = d.prio /\ l.out_q = d.out_q /\ l.sent = d.sent /\ l.settled = d.settled
      /\ l.dropped = d.dropped /\ l.wire = d.wire /\ l.outcoming_bl = <<>> /\ l.sock = "none"
      /\ l.state = "CLOSED" /\ l.sending = d.sending
  BY <1>3, <1>4 DEF ConStates
<1>7. <<>> \in Seq(Pieces)
  OBVIOUS
<1>8. Sound(l, <<>>)
  BY <1>3, <1>5, <1>6, <1>7, SocketDown
<1>9. LinkOK(l)
  BY <1>3, <1>6 DEF LinkOK
<1> QED
  BY <1>3, <1>6, <1>8, <1>9

\* fault: what was sent is queued again.
LEMMA FaultRecord ==
    ASSUME NEW k, NEW r, Sound(k, r), NEW l, l = fault(k)
    PROVE  /\ Sound(l, <<>>) /\ LinkOK(l) /\ l.state \in {"STANDBY", "CONNECTING"}
           /\ l.outcoming_bl = <<>> /\ l.sending = k.sending
<1>1. k \in ConStates /\ MsgsOK(k.prio, k.out_q, k.sent, k.settled, k.dropped)
  BY DEF Sound
<1>2. PICK a : a = [k EXCEPT !.sock = "none", !.ev_write = FALSE, !.handle_write_delayed = FALSE,
                             !.replacing = 0, !.outcoming_bl = <<>>]
  OBVIOUS
<1>0. <<>> \in Seq(Pieces)
  OBVIOUS
<1>3. a \in ConStates
  BY <1>0, <1>1, <1>2, ZenonT(40) DEF ConStates
<1>4. /\ a.prio = k.prio /\ a.out_q = k.out_q /\ a.sent = k.sent /\ a.settled = k.settled
      /\ a.dropped = k.dropped /\ a.wire = k.wire /\ a.outcoming_bl = <<>> /\ a.sock = "none"
      /\ a.sending = k.sending
  BY <1>1, <1>2 DEF ConStates
<1>5. PICK q : q = requeue_sent(a)
  OBVIOUS
<1>6. /\ q \in ConStates /\ MsgsOK(q.prio, q.out_q, q.sent, q.settled, q.dropped)
      /\ q.prio = a.prio /\ q.settled = a.settled /\ q.dropped = a.dropped
      /\ q.sent = <<>> /\ q.wire = a.wire /\ q.outcoming_bl = a.outcoming_bl
      /\ SameLink(a, q) /\ q.sending = a.sending
  BY <1>1, <1>3, <1>4, <1>5, RequeueRecord
<1>7. PICK s \in {"STANDBY", "CONNECTING"} : l = [q EXCEPT !.state = s]
  BY <1>2, <1>5 DEF fault
<1>8. l \in ConStates
  BY <1>6, <1>7, ZenonT(40) DEF ConStates
<1>9. /\ l.prio = q.prio /\ l.out_q = q.out_q /\ l.sent = <<>> /\ l.settled = q.settled
      /\ l.dropped = q.dropped /\ l.wire = q.wire /\ l.outcoming_bl = q.outcoming_bl
      /\ l.sock = q.sock /\ l.state = s /\ l.sending = q.sending
  BY <1>6, <1>7 DEF ConStates
<1>10. l.sock = "none"
  BY <1>4, <1>6, <1>9 DEF SameLink
<1>11. <<>> \in Seq(Pieces)
  OBVIOUS
<1>12. Sound(l, <<>>)
  BY <1>4, <1>6, <1>8, <1>9, <1>10, <1>11, SocketDown, ZenonT(40)
<1>13. LinkOK(l)
  BY <1>4, <1>6, <1>9, <1>10 DEF LinkOK
<1> QED
  BY <1>4, <1>6, <1>9, <1>12, <1>13

\* do_replace: a new socket, and what was sent is queued again.
LEMMA ReplacedRecord ==
    ASSUME NEW k, NEW r, Sound(k, r), NEW reset \in BOOLEAN, NEW l, l = Replaced(k, reset)
    PROVE  /\ l \in ConStates /\ MsgsOK(l.prio, l.out_q, l.sent, l.settled, l.dropped)
           /\ l.sock = "up" /\ l.sent = <<>> /\ l.wire = <<>> /\ l.outcoming_bl = <<>>
           /\ l.state = "ACCEPTING" /\ l.sending = k.sending
<1>0. <<>> \in Seq(Pieces)
  OBVIOUS
<1>1. k \in ConStates /\ MsgsOK(k.prio, k.out_q, k.sent, k.settled, k.dropped)
  BY DEF Sound
<1>2. PICK d : d = IF reset THEN [discard_out_queue(k) EXCEPT !.ack_due = FALSE] ELSE k
  OBVIOUS
<1>3. /\ d \in ConStates /\ MsgsOK(d.prio, d.out_q, d.sent, d.settled, d.dropped)
      /\ d.sending = k.sending
  <2>1. CASE reset
    <3>1. PICK e : e = discard_out_queue(k)
      OBVIOUS
    <3>2. /\ e \in ConStates /\ MsgsOK(e.prio, e.out_q, e.sent, e.settled, e.dropped)
          /\ e.sending = k.sending
      BY <1>1, <3>1, DiscardRecord
    <3>3. d = [e EXCEPT !.ack_due = FALSE]
      BY <1>2, <2>1, <3>1
    <3>4. d \in ConStates
      BY <3>2, <3>3, ZenonT(40) DEF ConStates
    <3>5. /\ d.prio = e.prio /\ d.out_q = e.out_q /\ d.sent = e.sent /\ d.settled = e.settled
          /\ d.dropped = e.dropped /\ d.sending = e.sending
      BY <3>2, <3>3 DEF ConStates
    <3> QED
      BY <3>2, <3>4, <3>5
  <2>2. CASE ~reset
    BY <1>1, <1>2, <2>2
  <2> QED
    BY <2>1, <2>2
<1>4. PICK a : a = [d EXCEPT !.sock = "up", !.wire = <<>>, !.ev_write = FALSE,
                             !.handle_write_delayed = FALSE, !.outcoming_bl = <<>>,
                             !.replacing = 2, !.state = "ACCEPTING"]
  OBVIOUS
<1>5. a \in ConStates
  BY <1>0, <1>3, <1>4, ZenonT(40) DEF ConStates
<1>6. /\ a.prio = d.prio /\ a.out_q = d.out_q /\ a.sent = d.sent /\ a.settled = d.settled
      /\ a.dropped = d.dropped /\ a.wire = <<>> /\ a.outcoming_bl = <<>> /\ a.sock = "up"
      /\ a.state = "ACCEPTING" /\ a.sending = d.sending
  BY <1>3, <1>4 DEF ConStates
<1>7. l = requeue_sent(a)
  BY <1>2, <1>4 DEF Replaced
<1>8. /\ l \in ConStates /\ MsgsOK(l.prio, l.out_q, l.sent, l.settled, l.dropped)
      /\ l.sent = <<>> /\ l.wire = a.wire /\ l.outcoming_bl = a.outcoming_bl
      /\ SameLink(a, l) /\ l.sending = a.sending
  BY <1>3, <1>5, <1>6, <1>7, RequeueRecord
<1> QED
  BY <1>3, <1>6, <1>8 DEF SameLink

\* Our part of the handshake on a new socket.
LEMMA HandshakeRecord ==
    ASSUME NEW k \in ConStates, MsgsOK(k.prio, k.out_q, k.sent, k.settled, k.dropped),
           k.sock = "up", k.sent = <<>>, k.wire = <<>>, k.outcoming_bl = <<>>,
           NEW after \in {"WAIT_REPLY", "ACCEPTING"}, NEW l \in SendHandshake(k, after)
    PROVE  /\ Sound(l, l.outcoming_bl) /\ LinkOK(l) /\ l.sending = k.sending
           /\ l.outcoming_bl \in {<<>>, <<Handshake>>}
           /\ l.state \in {"WAIT_SEND", "WAIT_REPLY", "ACCEPTING"}
<1>0. <<>> \in Seq(Pieces) /\ <<Handshake>> \in Seq(Pieces) /\ Append(<<>>, Handshake) = <<Handshake>>
      /\ <<>> \o <<Handshake>> = <<Handshake>> /\ <<Handshake>> \o <<>> = <<Handshake>>
  BY DEF Handshake, Pieces
<1>1. CASE l = [k EXCEPT !.wire = Append(@, Handshake), !.state = after]
  <2>1. l = [k EXCEPT !.wire = <<Handshake>>, !.state = after]
    BY <1>0, <1>1 DEF ConStates
  <2>2. l \in ConStates
    BY <1>0, <2>1 DEF ConStates
  <2>3. SameMsgs(k, l) /\ l.wire = <<Handshake>> /\ l.outcoming_bl = <<>> /\ l.sock = "up"
        /\ l.state = after /\ l.sending = k.sending
    BY <2>1 DEF ConStates, SameMsgs
  <2>4. Sound(l, <<>>)
    BY <1>0, <2>2, <2>3, SocketUp DEF SameMsgs
  <2>5. LinkOK(l)
    BY <2>3 DEF LinkOK, OpenStates
  <2> QED
    BY <2>3, <2>4, <2>5
<1>2. CASE l = start_write([k EXCEPT !.outcoming_bl = <<Handshake>>,
                                     !.state = "WAIT_SEND", !.state_after_send = after])
  <2>1. PICK a : a = [k EXCEPT !.outcoming_bl = <<Handshake>>,
                               !.state = "WAIT_SEND", !.state_after_send = after]
    OBVIOUS
  <2>2. a \in ConStates
    BY <1>0, <2>1 DEF ConStates
  <2>3. SameMsgs(k, a) /\ a.wire = <<>> /\ a.outcoming_bl = <<Handshake>> /\ a.sock = "up"
        /\ a.state = "WAIT_SEND" /\ a.sending = k.sending /\ a.state_after_send = after
    BY <2>1 DEF ConStates, SameMsgs
  <2>4. Sound(a, <<Handshake>>)
    BY <1>0, <2>2, <2>3, SocketUp DEF SameMsgs
  <2>5. LinkOK(a)
    BY <2>3 DEF LinkOK, OpenStates
  <2>6. Quiet(a, l) /\ l.sending = a.sending
    BY <1>2, <2>1, <2>2, StartWrite
  <2>7. Sound(l, <<Handshake>>) /\ LinkOK(l)
    BY <2>4, <2>5, <2>6, QuietKeeps
  <2> QED
    BY <2>3, <2>6, <2>7 DEF Quiet, SameLink
<1> QED
  BY <1>1, <1>2 DEF SendHandshake

\* The end of the handshake: the first n of the messages queued again are settled.
LEMMA OpenedRecord ==
    ASSUME NEW k, NEW l \in Opened(k), k \in ConStates
    PROVE  /\ l \in ConStates /\ l.state = "OPEN" /\ l.sock = k.sock
           /\ l.outcoming_bl = k.outcoming_bl /\ l.wire = k.wire
           /\ l.sending = k.sending /\ l.late = k.late /\ l.sent = k.sent
           /\ \A r : Sound(k, r) => Sound(l, r)
<1>1. k.out_q \in [1..Highest -> Seq(Nat)] /\ Highest \in 1..Highest /\ k.settled \subseteq Nat
  BY Fields, ConstantsAssumption
<1>2. PICK Q, q : Q = k.out_q /\ q = Q[Highest]
  OBVIOUS
<1>3. q \in Seq(Nat) /\ Len(q) \in Nat
  BY <1>1, <1>2
<1>4. PICK n \in 0..Len(q) :
         l = [k EXCEPT !.state = "OPEN", !.replacing = 0,
                       !.out_q[Highest] = SubSeq(@, n + 1, Len(@)),
                       !.settled = @ \cup ToSet(SubSeq(q, 1, n))]
  BY <1>2 DEF Opened
<1>5. PICK t, R, U : /\ t = SubSeq(q, n + 1, Len(q)) /\ R = [Q EXCEPT ![Highest] = t]
                     /\ U = k.settled \cup Firsts(q, n)
  OBVIOUS
<1>6. n \in Nat /\ n <= Len(q)
  BY <1>3
<1>7. After(q, n, t) /\ ToSet(SubSeq(q, 1, n)) = Firsts(q, n)
  <2>1. /\ t \in Seq(Nat) /\ Len(t) = Len(q) - n
        /\ \A i \in 1..(Len(q) - n) : t[i] = q[n + i] /\ n + i \in 1..Len(q)
        /\ SubSeq(q, 1, n) \in Seq(Nat) /\ Len(SubSeq(q, 1, n)) = n
        /\ \A i \in 1..n : SubSeq(q, 1, n)[i] = q[i]
    BY <1>3, <1>5, <1>6, Rest, SMTT(30)
  <2>2. DOMAIN SubSeq(q, 1, n) = 1..n
    BY <1>6, <2>1
  <2> QED
    BY <2>1, <2>2 DEF After, ToSet, Firsts
<1>8. l = [k EXCEPT !.state = "OPEN", !.replacing = 0, !.out_q = R, !.settled = U]
  BY <1>2, <1>4, <1>5, <1>7 DEF ConStates
<1>9. R \in [1..Highest -> Seq(Nat)] /\ U \in SUBSET Nat
  <2>1. t \in Seq(Nat)
    BY <1>7 DEF After
  <2>2. \A i \in 1..n : q[i] \in Nat
    BY <1>3, <1>6
  <2> QED
    BY <1>1, <1>2, <1>5, <2>1, <2>2 DEF Firsts
<1>10. l \in ConStates
  BY <1>8, <1>9 DEF ConStates
<1>11. /\ l.prio = k.prio /\ l.out_q = R /\ l.sent = k.sent /\ l.settled = U /\ l.dropped = k.dropped
       /\ l.wire = k.wire /\ l.outcoming_bl = k.outcoming_bl /\ l.sock = k.sock
       /\ l.state = "OPEN" /\ l.sending = k.sending /\ l.late = k.late
  BY <1>8 DEF ConStates
<1>12. ASSUME NEW r, Sound(k, r) PROVE Sound(l, r)
  <2>1. PICK P, S, T, D : P = k.prio /\ S = k.sent /\ T = k.settled /\ D = k.dropped
    OBVIOUS
  <2>2. MsgsOK(P, Q, S, T, D)
    BY <1>2, <1>12, <2>1 DEF Sound
  <2>3. PICK h \in 1..Highest :
           Left(Q, h, n, R) /\ U = T \cup Firsts(Q[h], n) /\ n <= Len(Q[h])
    BY <1>1, <1>2, <1>5, <1>6, <1>7, <2>1 DEF Left
  <2>4. MsgsOK(P, R, S, U, D) /\ \A m : InQ(R, m) => InQ(Q, m)
    BY <1>6, <2>2, <2>3, SettleQueued
  <2>5. PICK w : w = Ahead(k, r)
    OBVIOUS
  <2>6. Halves(w) /\ Written(P, T, D, w) /\ (k.sock = "up" => Live(Q, S, w))
    BY <1>2, <1>12, <2>1, <2>5 DEF Sound, StreamOK
  <2>7. Written(P, U, D, w) /\ (k.sock = "up" => Live(R, S, w))
    <3>1. T \subseteq U
      BY <2>3
    <3> QED
      BY <2>4, <2>6, <3>1, StreamStays, ZenonT(40)
  <2>8. Ahead(l, r) = w
    BY <1>11, <2>5 DEF Ahead
  <2>9. StreamOK(l, Ahead(l, r))
    BY <1>11, <2>1, <2>6, <2>7, <2>8 DEF StreamOK
  <2> QED
    BY <1>10, <1>11, <1>12, <2>1, <2>4, <2>9 DEF Sound
<1> QED
  BY <1>10, <1>11, <1>12

\* Only the messages, the socket and what was written to it matter.
LEMMA SameSound ==
    ASSUME NEW k, NEW l \in ConStates, SameMsgs(k, l), l.wire = k.wire, l.sock = k.sock
    PROVE  \A r : Sound(k, r) => Sound(l, r)
BY DEF Sound, StreamOK, Ahead, SameMsgs

\* On a socket that is down it does not matter what is left to write.
LEMMA DownSound ==
    ASSUME NEW k, NEW r, Sound(k, r), k.sock # "up", NEW u \in Seq(Pieces)
    PROVE  Sound(k, u)
BY DEF Sound, StreamOK, Ahead

\* An element appended to the second of two sequences.
LEMMA AppendJoined ==
    ASSUME NEW X, NEW w \in Seq(X), NEW r \in Seq(X), NEW x \in X
    PROVE  w \o Append(r, x) = Append(w \o r, x)
OBVIOUS

\* A probe, an answer or an acknowledgement follows in the output buffer.
LEMMA ItemBuffer ==
    ASSUME NEW k, NEW r, Sound(k, r), NEW x \in {Keepalive, KeepaliveAck, Ack}
    PROVE  Sound(k, Append(r, x))
<1>1. r \in Seq(Pieces) /\ k \in ConStates /\ x \in Pieces
  BY DEF Sound, Keepalive, KeepaliveAck, Ack, Pieces
<1>2. Append(r, x) \in Seq(Pieces) /\ k.wire \in Seq(Pieces)
  BY <1>1, Fields
<1>3. CASE k.sock # "up"
  BY <1>2, <1>3, DownSound
<1>4. CASE k.sock = "up"
  <2>1. PICK P, Q, S, T, D, w : /\ P = k.prio /\ Q = k.out_q /\ S = k.sent /\ T = k.settled
                                /\ D = k.dropped /\ w = k.wire \o r
    OBVIOUS
  <2>2. MsgsOK(P, Q, S, T, D) /\ Halves(w) /\ Written(P, T, D, w) /\ Live(Q, S, w)
    BY <1>4, <2>1 DEF Sound, StreamOK, Ahead
  <2>3. P \in Seq(Nat) /\ ~InQ(Q, 0)
    BY <2>2, NoMessageZero DEF MsgsOK
  <2>4. /\ Halves(Append(w, x)) /\ Written(P, T, D, Append(w, x)) /\ Live(Q, S, Append(w, x))
    BY <2>2, <2>3, ItemFollows
  <2>5. k.wire \o Append(r, x) = Append(w, x)
    <3>1. PICK v \in Seq(Pieces) : v = k.wire
      BY <1>2
    <3>2. v \o Append(r, x) = Append(v \o r, x)
      BY <1>1, AppendJoined
    <3> QED
      BY <2>1, <3>1, <3>2
  <2> QED
    BY <1>1, <1>2, <1>4, <2>1, <2>2, <2>4, <2>5 DEF Sound, StreamOK, Ahead
<1> QED
  BY <1>3, <1>4

\* An acknowledgement of the first n messages of the sent list.
Acked(k, n) == [k EXCEPT !.sent = SubSeq(@, n + 1, Len(@)),
                         !.settled = @ \cup ToSet(SubSeq(k.sent, 1, n))]

\* handle_ack settles a prefix of the sent list and leaves what is written alone.
LEMMA AckRecord ==
    ASSUME NEW k \in ConStates, NEW n \in 1..Len(k.sent), NEW l, l = Acked(k, n)
    PROVE  /\ l \in ConStates /\ SameLink(k, l) /\ l.out_q = k.out_q
           /\ l.outcoming_bl = k.outcoming_bl /\ l.wire = k.wire
           /\ l.sending = k.sending /\ l.late = k.late /\ l.ev_write = k.ev_write
           /\ \A r : Sound(k, r) => Sound(l, r)
<1>1. PICK S : S = k.sent
  OBVIOUS
<1>2. S \in Seq(Nat) /\ Len(S) \in Nat /\ k.settled \subseteq Nat
  BY <1>1, Fields
<1>3. n \in Nat /\ n <= Len(S)
  BY <1>1, <1>2
<1>4. PICK t, U : t = SubSeq(S, n + 1, Len(S)) /\ U = k.settled \cup Firsts(S, n)
  OBVIOUS
<1>5. After(S, n, t) /\ ToSet(SubSeq(S, 1, n)) = Firsts(S, n)
  <2>1. /\ t \in Seq(Nat) /\ Len(t) = Len(S) - n
        /\ \A i \in 1..(Len(S) - n) : t[i] = S[n + i] /\ n + i \in 1..Len(S)
        /\ SubSeq(S, 1, n) \in Seq(Nat) /\ Len(SubSeq(S, 1, n)) = n
        /\ \A i \in 1..n : SubSeq(S, 1, n)[i] = S[i]
    BY <1>2, <1>3, <1>4, Rest, ZenonT(40)
  <2>2. DOMAIN SubSeq(S, 1, n) = 1..n
    BY <1>3, <2>1
  <2> QED
    BY <2>1, <2>2 DEF After, ToSet, Firsts
<1>6. l = [k EXCEPT !.sent = t, !.settled = U]
  BY <1>1, <1>4, <1>5 DEF Acked, ConStates
<1>7. t \in Seq(Nat) /\ U \in SUBSET Nat
  <2>1. \A i \in 1..n : S[i] \in Nat
    BY <1>2, <1>3
  <2> QED
    BY <1>2, <1>4, <1>5, <2>1 DEF Firsts, After
<1>8. l \in ConStates
  <2>1. ASSUME NEW c \in ConStates, NEW s \in Seq(Nat), NEW V \in SUBSET Nat, NEW d,
               d = [c EXCEPT !.sent = s, !.settled = V]
        PROVE  d \in ConStates
    BY <2>1 DEF ConStates
  <2> QED
    BY <1>6, <1>7, <2>1, Zenon
<1>9. /\ l.prio = k.prio /\ l.out_q = k.out_q /\ l.sent = t /\ l.settled = U /\ l.dropped = k.dropped
      /\ l.wire = k.wire /\ l.outcoming_bl = k.outcoming_bl /\ SameLink(k, l)
      /\ l.sending = k.sending /\ l.late = k.late /\ l.ev_write = k.ev_write
  BY <1>6 DEF ConStates, SameLink
<1>10. ASSUME NEW r, Sound(k, r) PROVE Sound(l, r)
  <2>1. PICK P, Q, T, D : P = k.prio /\ Q = k.out_q /\ T = k.settled /\ D = k.dropped
    OBVIOUS
  <2>2. MsgsOK(P, Q, S, T, D)
    BY <1>1, <1>10, <2>1 DEF Sound
  <2>3. U = T \cup Firsts(S, n)
    BY <1>4, <2>1
  <2>4. MsgsOK(P, Q, t, U, D) /\ \A m : In(t, m) => In(S, m)
    BY <1>3, <1>5, <2>2, <2>3, SettleSent
  <2>5. PICK w : w = Ahead(k, r)
    OBVIOUS
  <2>6. Halves(w) /\ Written(P, T, D, w) /\ (k.sock = "up" => Live(Q, S, w))
    BY <1>1, <1>10, <2>1, <2>5 DEF Sound, StreamOK
  <2>7. Written(P, U, D, w) /\ (k.sock = "up" => Live(Q, t, w))
    <3>1. T \subseteq U
      BY <2>3
    <3>2. /\ Written(P, U, D, w)
          /\ \A Q2, S2 : (\A m : InQ(Q2, m) => InQ(Q, m)) /\ (\A m : In(S2, m) => In(S, m)) =>
                (Live(Q, S, w) => Live(Q2, S2, w))
      BY <2>6, <3>1, StreamStays
    <3> QED
      BY <2>4, <2>6, <3>2
  <2>8. Ahead(l, r) = w /\ l.sock = k.sock
    BY <1>9, <2>5 DEF Ahead, SameLink
  <2>9. StreamOK(l, Ahead(l, r))
    BY <1>9, <2>1, <2>6, <2>7, <2>8 DEF StreamOK
  <2> QED
    BY <1>8, <1>9, <1>10, <2>1, <2>4, <2>9 DEF Sound
<1> QED
  BY <1>8, <1>9, <1>10

\* Some of what was left is written.
Wrote(k, now, F) == [k EXCEPT !.wire = @ \o now, !.flushed = F]

WroteIs(k, rest, l) ==
    /\ Sound(l, rest) /\ SameLink(k, l) /\ l.out_q = k.out_q
    /\ l.outcoming_bl = k.outcoming_bl /\ l.sent = k.sent
    /\ l.sending = k.sending /\ l.late = k.late

\* sendmsg moves bytes from what is left to what is written.
LEMMA WriteRecord ==
    ASSUME NEW k, NEW now \in Seq(Pieces), NEW rest \in Seq(Pieces), Sound(k, now \o rest),
           k.sock = "up", NEW F \in SUBSET Nat, NEW l, l = Wrote(k, now, F)
    PROVE  WroteIs(k, rest, l)
<1>1. k \in ConStates /\ k.wire \in Seq(Pieces)
  BY Fields DEF Sound
<1>2. k.wire \o now \in Seq(Pieces) /\ k.wire \o (now \o rest) = (k.wire \o now) \o rest
  <2>1. PICK w : w = k.wire /\ w \in Seq(Pieces)
    BY <1>1
  <2>2. w \o now \in Seq(Pieces)
    BY <2>1
  <2> QED
    BY <2>1, <2>2, JoinedThrice, ZenonT(40)
<1>3. PICK v : v = k.wire \o now
  OBVIOUS
<1>4. l = [k EXCEPT !.wire = v, !.flushed = F]
  BY <1>1, <1>3 DEF Wrote, ConStates
<1>5. l \in ConStates
  <2>1. ASSUME NEW c \in ConStates, NEW u \in Seq(Pieces), NEW V \in SUBSET Nat, NEW d,
               d = [c EXCEPT !.wire = u, !.flushed = V]
        PROVE  d \in ConStates
    BY <2>1 DEF ConStates
  <2>2. v \in Seq(Pieces)
    BY <1>2, <1>3
  <2> QED
    BY <1>1, <1>4, <2>1, <2>2, Zenon
<1>6. /\ SameMsgs(k, l) /\ SameLink(k, l) /\ l.wire = v /\ l.outcoming_bl = k.outcoming_bl
      /\ l.sending = k.sending /\ l.late = k.late
  BY <1>1, <1>4 DEF ConStates, SameMsgs, SameLink
<1>7. Ahead(l, rest) = Ahead(k, now \o rest) /\ l.sock = "up"
  BY <1>2, <1>3, <1>6 DEF Ahead, SameLink
<1>8. StreamOK(l, Ahead(l, rest))
  BY <1>6, <1>7 DEF Sound, StreamOK, SameMsgs
<1>9. Sound(l, rest)
  BY <1>5, <1>6, <1>8 DEF Sound, SameMsgs
<1> QED
  BY <1>6, <1>9 DEF WroteIs, SameMsgs

-----------------------------------------------------------------------------
(***************************************************************************)
(* The threads.  Three ways in which a step keeps the invariant: it leaves *)
(* the senders and the output buffer alone, it ends a send, or it begins   *)
(* one.                                                                    *)
(***************************************************************************)
\* The pieces of a sender.
LEMMA SenderPieces ==
    ASSUME ThreadStates, NEW t \in Threads
    PROVE  io[t].done \in Seq(Pieces) /\ io[t].todo \in Seq(Pieces)
BY DEF ThreadStates

\* A direct send whose pieces are gone finds at most one piece in the buffer.
LEMMA NotCleared ==
    ASSUME IInv, NEW a \in Apps, Sends(a), con.outcoming_bl \in {<<>>, <<Handshake>>}
    PROVE  ~Writing(a)
<1>1. PICK m \in Nat \ {0} : io[a].done \o io[a].todo = Whole(m)
  BY DEF IInv, DirectSend
<1>2. Whole(m) # <<>> /\ Whole(m) # <<Handshake>>
  BY DEF Whole
<1> QED
  BY <1>1, <1>2 DEF Writing

\* So a sender that finds its pieces at the front of the buffer has all of it.
LEMMA IntactWriting ==
    ASSUME IInv, NEW t \in Threads, Sends(t), Intact(t)
    PROVE  Writing(t)
<1>1. CASE t = Ev
  BY <1>1 DEF IInv, EventSend
<1>2. CASE t # Ev /\ con.outcoming_bl \in {<<>>, <<Handshake>>}
  <2>1. t \in Apps
    BY <1>2 DEF Threads
  <2>2. PICK m \in Nat \ {0} : io[t].done \o io[t].todo = Whole(m)
    BY <2>1 DEF IInv, DirectSend
  <2>3. IsPrefix(Whole(m), con.outcoming_bl)
    BY <2>2 DEF Intact, Sends
  <2>4. Len(Whole(m)) = 2
    BY WholeMessage
  <2>5. Len(con.outcoming_bl) \in {0, 1}
    <3>1. Len(<<>>) = 0 /\ Len(<<Handshake>>) = 1
      OBVIOUS
    <3> QED
      BY <1>2, <3>1
  <2> QED
    BY <2>3, <2>4, <2>5 DEF IsPrefix
<1>3. CASE t # Ev /\ con.outcoming_bl \notin {<<>>, <<Handshake>>}
  <2>1. t \in Apps
    BY <1>3 DEF Threads
  <2> QED
    BY <1>3, <2>1 DEF IInv, DirectSend
<1> QED
  BY <1>1, <1>2, <1>3

\* A step that leaves the senders and their pieces alone.
SendersStay ==
    /\ ThreadStates'
    /\ \A t \in Threads : Sends(t)' <=> Sends(t)
    /\ \A t \in Threads : Sends(t) => io'[t] = io[t] /\ (pc'[t] = pc[t] \/ con.sock # "up")

\* No direct sender has its pieces in the buffer.
NoDirect == \A a \in Apps : ~Writing(a)

\* It keeps the invariant if it leaves the output buffer alone too.
LEMMA Frame ==
    ASSUME IInv, SendersStay, Scheduled', LinkOK(con'),
           con'.outcoming_bl = con.outcoming_bl, con'.sending = con.sending,
           con'.sock = "up" => con.sock = "up",
           \A r : Sound(con, r) => Sound(con', r),
           con.state \in OpenStates => con'.state \in OpenStates,
           con.state = "WAIT_SEND" /\ Sends(Ev) => con'.state = "WAIT_SEND",
           \/ con'.late
           \/ con'.late = con.late /\ \A m \in Nat : InQ(con'.out_q, m) => InQ(con.out_q, m)
           \/ NoDirect
    PROVE  IInv'
<1>0. /\ ThreadStates'
      /\ \A t \in Threads : Sends(t)' <=> Sends(t)
      /\ \A t \in Threads : Sends(t) => io'[t] = io[t] /\ (pc'[t] = pc[t] \/ con.sock # "up")
  BY DEF SendersStay
<1>1. Apps \subseteq Threads /\ Ev \in Threads
  BY DEF Threads
<1>2. \A t \in Threads : Writing(t)' <=> Writing(t)
  BY <1>0 DEF Writing
<1>3. OneSender'
  BY <1>0 DEF IInv, OneSender
<1>4. EventSend'
  BY <1>0, <1>1, <1>2 DEF IInv, EventSend
<1>5. DirectSend'
  BY <1>0, <1>1, <1>2 DEF IInv, DirectSend, NoDirect
<1>6. Failed'
  BY <1>0, <1>2 DEF IInv, Failed, Writing
<1>7. Stream'
  <2>1. ASSUME NEW t \in Threads, Writing(t)' PROVE Sound(con', io'[t].todo)
    BY <1>0, <1>2, <2>1 DEF IInv, Stream, Writing
  <2>2. ASSUME \A t \in Threads : ~Writing(t)' PROVE Sound(con', con'.outcoming_bl)
    BY <1>2, <2>2 DEF IInv, Stream
  <2> QED
    BY <2>1, <2>2 DEF Stream
<1> QED
  BY <1>0, <1>3, <1>4, <1>5, <1>6, <1>7 DEF IInv

\* A step after which only direct senders that were cleared are left.
SendersLeave ==
    /\ ThreadStates'
    /\ \A t \in Threads : Sends(t)' => t \in Apps /\ Sends(t) /\ io'[t] = io[t]

\* It keeps the invariant if the connection it leaves is sound as it stands.
LEMMA Ends ==
    ASSUME IInv, SendersLeave, Scheduled', LinkOK(con'), Sound(con', con'.outcoming_bl),
           \/ \A a \in Apps : ~Sends(a)'
           \/ /\ con'.sending = con.sending
              /\ con'.outcoming_bl \in {<<>>, <<Handshake>>}
    PROVE  IInv'
<1>0. /\ ThreadStates'
      /\ \A t \in Threads : Sends(t)' => t \in Apps /\ Sends(t) /\ io'[t] = io[t]
  BY DEF SendersLeave
<1>1. Apps \subseteq Threads /\ Ev \in Threads /\ ~Sends(Ev)'
  BY <1>0, ConstantsAssumption DEF Threads
<1>2. ASSUME NEW t \in Threads, Writing(t)' PROVE FALSE
  <2>1. Sends(t)' /\ t \in Apps /\ io'[t] = io[t] /\ Sends(t)
    BY <1>0, <1>2 DEF Writing
  <2>2. con'.outcoming_bl \in {<<>>, <<Handshake>>}
    BY <2>1
  <2>3. PICK m \in Nat \ {0} : io[t].done \o io[t].todo = Whole(m)
    BY <2>1 DEF IInv, DirectSend
  <2>4. Whole(m) # <<>> /\ Whole(m) # <<Handshake>>
    BY DEF Whole
  <2> QED
    BY <1>2, <2>1, <2>2, <2>3, <2>4 DEF Writing
<1>3. OneSender'
  BY <1>0, <1>1 DEF IInv, OneSender
<1>4. EventSend'
  BY <1>1 DEF EventSend
<1>5. DirectSend'
  BY <1>0, <1>1, <1>2 DEF IInv, DirectSend
<1>6. Failed' /\ Stream'
  BY <1>2 DEF Failed, Stream
<1> QED
  BY <1>0, <1>3, <1>4, <1>5, <1>6 DEF IInv

\* A thread releases the lock to write the output buffer.
LEMMA Release ==
    ASSUME IInv, NEW t \in Threads, NEW k, NEW stage, ReleaseToSend(t, k, stage),
           \A u \in Threads : u = t \/ ~Sends(u),
           k.sending, Sound(k, k.outcoming_bl), LinkOK(k),
           \/ /\ t = Ev
              /\ \/ stage = "flush" /\ k.state = "WAIT_SEND"
                 \/ stage \in {"messages", "rest"} /\ k.state \in OpenStates
           \/ /\ t # Ev /\ stage = "direct" /\ k.state \in OpenStates
              /\ \E m \in Nat \ {0} : k.outcoming_bl = Whole(m)
              /\ \A m \in Nat : ~InQ(k.out_q, m)
    PROVE  IInv'
<1>1. PICK b : b = k.outcoming_bl
  OBVIOUS
<1>2. b \in Seq(Pieces) /\ <<>> \in Seq(Pieces) /\ <<>> \o b = b
  <2>1. b \in Seq(Pieces)
    BY <1>1, Fields DEF Sound
  <2> QED
    BY <2>1
<1>3. con' = k /\ pc' = [pc EXCEPT ![t] = "sendmsg"]
      /\ io' = [io EXCEPT ![t] = [todo |-> b, done |-> <<>>, stage |-> stage]]
  BY <1>1 DEF ReleaseToSend, Goto
<1>4. ThreadStates'
  BY <1>2, <1>3 DEF IInv, ThreadStates
<1>5. /\ pc'[t] = "sendmsg" /\ io'[t].todo = b /\ io'[t].done = <<>> /\ io'[t].stage = stage
      /\ \A u \in Threads : u # t => pc'[u] = pc[u]
  BY <1>3 DEF IInv, ThreadStates
<1>6. Sends(t)' /\ \A u \in Threads : Sends(u)' => u = t
  BY <1>5 DEF Sends
<1>7. Writing(t)' /\ io'[t].done \o io'[t].todo = b /\ con'.outcoming_bl = b
  BY <1>1, <1>2, <1>3, <1>5, <1>6 DEF Writing
<1>8. OneSender'
  BY <1>3, <1>6 DEF OneSender
<1>9. EventSend'
  BY <1>3, <1>5, <1>6, <1>7, ConstantsAssumption DEF EventSend, Threads
<1>10. DirectSend'
  <2>1. SUFFICES ASSUME t # Ev PROVE DirectSend'
    BY <1>6, ConstantsAssumption DEF DirectSend, Threads
  <2>2. /\ k.state \in OpenStates /\ \E m \in Nat \ {0} : b = Whole(m)
        /\ \A m \in Nat : ~InQ(k.out_q, m)
    BY <1>1, <2>1
  <2>3. ASSUME NEW a \in Apps, Sends(a)'
        PROVE  /\ \E m \in Nat \ {0} : io'[a].done \o io'[a].todo = Whole(m)
               /\ Writing(a)' /\ con'.state \in OpenStates
               /\ \A m \in Nat : ~InQ(con'.out_q, m)
    <3>1. a = t
      BY <1>6, <2>3 DEF Threads
    <3> QED
      BY <1>3, <1>7, <2>2, <3>1
  <2> QED
    BY <2>3 DEF DirectSend
<1>11. Failed'
  BY <1>5, <1>6 DEF Failed, Writing
<1>12. Stream'
  BY <1>1, <1>3, <1>5, <1>6, <1>7 DEF Stream, Writing
<1>13. Scheduled'
  BY <1>3 DEF Scheduled
<1> QED
  BY <1>3, <1>4, <1>8, <1>9, <1>10, <1>11, <1>12, <1>13 DEF IInv

\* A new message that is given up at once.
LEMMA DropRecord ==
    ASSUME NEW k, NEW r, Sound(k, r), NEW p \in 1..Highest, NEW N, NEW m,
           Numbered(k.prio, p, N, m), NEW l \in ConStates, l.prio = N,
           l.dropped = k.dropped \cup {m}, l.settled = k.settled, l.sent = k.sent,
           l.out_q = k.out_q, l.wire = k.wire, l.sock = k.sock
    PROVE  Sound(l, r)
<1>1. PICK P, Q, S, T, D, w : /\ P = k.prio /\ Q = k.out_q /\ S = k.sent /\ T = k.settled
                              /\ D = k.dropped /\ w = Ahead(k, r)
  OBVIOUS
<1>2. MsgsOK(P, Q, S, T, D) /\ Halves(w) /\ Written(P, T, D, w) /\ (k.sock = "up" => Live(Q, S, w))
  BY <1>1 DEF Sound, StreamOK
<1>3. P \in Seq(Nat) /\ p \in Nat /\ Numbered(P, p, N, m)
  BY <1>1, <1>2, ConstantsAssumption DEF MsgsOK
<1>4. MsgsOK(N, Q, S, T, D \cup {m})
  <2>1. Submitted(Q, S, T, D, p, N, m)
    BY <1>2, <1>3, Submit
  <2> QED
    BY <2>1 DEF Submitted
<1>5. Written(N, T, D, w)
  BY <1>2, <1>3, NotYetWritten
<1>6. Written(N, T, D \cup {m}, w)
  <2>1. T \subseteq T /\ D \subseteq D \cup {m}
    OBVIOUS
  <2>2. PICK E : E = D \cup {m}
    OBVIOUS
  <2> QED
    BY <1>5, <2>1, <2>2, StreamStays
<1>7. Ahead(l, r) = w
  BY <1>1 DEF Ahead
<1>8. StreamOK(l, Ahead(l, r))
  BY <1>1, <1>2, <1>6, <1>7 DEF StreamOK
<1> QED
  BY <1>1, <1>4, <1>8 DEF Sound

\* A new message that is queued.
Enqueued(Q, p, m, R) == R = [Q EXCEPT ![p] = Append(Q[p], m)]

\* The queues with one more message are queues.
LEMMA EnqueuedQueues ==
    ASSUME NEW Q \in [1..Highest -> Seq(Nat)], NEW p \in 1..Highest, NEW m \in Nat, NEW R,
           Enqueued(Q, p, m, R)
    PROVE  R \in [1..Highest -> Seq(Nat)]
BY DEF Enqueued

\* send_message that queues keeps what is left to write sound.
LEMMA QueueRecord ==
    ASSUME NEW k, NEW r, Sound(k, r), NEW p \in 1..Highest, NEW N, NEW m,
           Numbered(k.prio, p, N, m), NEW l \in ConStates, l.prio = N,
           Enqueued(k.out_q, p, m, l.out_q),
           l.dropped = k.dropped, l.settled = k.settled, l.sent = k.sent,
           l.wire = k.wire, l.sock = k.sock
    PROVE  Sound(l, r)
<1>1. PICK P, Q, S, T, D, w : /\ P = k.prio /\ Q = k.out_q /\ S = k.sent /\ T = k.settled
                              /\ D = k.dropped /\ w = Ahead(k, r)
  OBVIOUS
<1>2. MsgsOK(P, Q, S, T, D) /\ Halves(w) /\ Written(P, T, D, w) /\ (k.sock = "up" => Live(Q, S, w))
  BY <1>1 DEF Sound, StreamOK
<1>3. P \in Seq(Nat) /\ p \in Nat /\ Numbered(P, p, N, m)
  BY <1>1, <1>2, ConstantsAssumption DEF MsgsOK
<1>4. PICK R : R = [Q EXCEPT ![p] = Append(Q[p], m)]
  OBVIOUS
<1>5. MsgsOK(N, R, S, T, D) /\ \A n : InQ(R, n) <=> InQ(Q, n) \/ n = m
  <2>1. \A R1 : R1 = [Q EXCEPT ![p] = Append(Q[p], m)] =>
                  MsgsOK(N, R1, S, T, D) /\ \A n : InQ(R1, n) <=> InQ(Q, n) \/ n = m
    <3>1. Submitted(Q, S, T, D, p, N, m)
      BY <1>2, <1>3, Submit
    <3> QED
      BY <3>1 DEF Submitted
  <2> QED
    BY <1>4, <2>1
<1>6. Written(N, T, D, w) /\ \A i \in 1..Len(w) : w[i][1] # m
  BY <1>2, <1>3, NotYetWritten
<1>7. k.sock = "up" => Live(R, S, w)
  BY <1>2, <1>5, <1>6 DEF Live
<1>8. Ahead(l, r) = w /\ l.out_q = R
  BY <1>1, <1>4 DEF Ahead, Enqueued
<1>9. StreamOK(l, Ahead(l, r))
  BY <1>1, <1>2, <1>6, <1>7, <1>8 DEF StreamOK
<1> QED
  BY <1>1, <1>5, <1>8, <1>9 DEF Sound

\* A new message that is written at once.
ToSend(k, m, j, l) ==
    /\ Sound(l, l.outcoming_bl) /\ l.outcoming_bl = Whole(m) /\ m \in Nat \ {0}
    /\ SameLink(k, l) /\ l.sending = j.sending /\ l.out_q = k.out_q

\* send_message that sends at once overtakes nothing, since nothing is queued.
LEMMA DirectRecord ==
    ASSUME NEW k, Sound(k, k.outcoming_bl), k.outcoming_bl = <<>>, \A n \in Nat : ~InQ(k.out_q, n),
           NEW p \in 1..Highest, NEW N, NEW m, Numbered(k.prio, p, N, m),
           NEW j \in ConStates, j.prio = N, j.out_q = k.out_q, j.sent = k.sent,
           j.settled = k.settled, j.dropped = k.dropped, j.wire = k.wire,
           j.outcoming_bl = <<>>, SameLink(k, j), NEW l, l = _send(j, m)
    PROVE  ToSend(k, m, j, l)
<1>1. PICK P, Q, S, T, D : P = k.prio /\ Q = k.out_q /\ S = k.sent /\ T = k.settled /\ D = k.dropped
  OBVIOUS
<1>2. MsgsOK(P, Q, S, T, D) /\ k \in ConStates
  BY <1>1 DEF Sound
<1>3. P \in Seq(Nat) /\ p \in Nat /\ Numbered(P, p, N, m) /\ \A n \in Nat : ~InQ(Q, n)
  BY <1>1, <1>2, ConstantsAssumption DEF MsgsOK
<1>4. m \in Nat \ {0} /\ m \in Nat
  BY <1>2, <1>3, NewNumber
<1>5. /\ l \in ConStates /\ l.prio = N /\ l.out_q = Q /\ l.dropped = D
      /\ l.outcoming_bl = j.outcoming_bl \o Whole(m) /\ l.wire = k.wire
      /\ SameLink(j, l) /\ l.sending = j.sending
      /\ \/ l.sent = S /\ l.settled = T \cup {m}
         \/ l.sent = Append(S, m) /\ l.settled = T
  <2>1. /\ l \in ConStates /\ l.prio = j.prio /\ l.out_q = j.out_q /\ l.dropped = j.dropped
        /\ l.outcoming_bl = j.outcoming_bl \o Whole(m) /\ l.wire = j.wire
        /\ SameLink(j, l) /\ l.sending = j.sending
        /\ \/ l.sent = j.sent /\ l.settled = j.settled \cup {m}
           \/ l.sent = Append(j.sent, m) /\ l.settled = j.settled
    <3>1. SentIs(j, m, l)
      BY <1>4, SendRecord
    <3> QED
      BY <3>1 DEF SentIs
  <2> QED
    BY <1>1, <2>1
<1>6. MsgsOK(N, Q, Append(S, m), T, D) /\ MsgsOK(N, Q, S, T \cup {m}, D)
  <2>1. Submitted(Q, S, T, D, p, N, m)
    BY <1>2, <1>3, Submit
  <2> QED
    BY <1>3, <2>1 DEF Submitted
<1>7. Whole(m) \in Seq(Pieces) /\ l.outcoming_bl = Whole(m)
  <2>1. Whole(m) \in Seq(Pieces)
    BY <1>4, WholeMessage
  <2> QED
    BY <1>5, <2>1
<1>8. SameLink(k, l)
  BY <1>5 DEF SameLink
<1>11. MsgsOK(l.prio, l.out_q, l.sent, l.settled, l.dropped)
  BY <1>5, <1>6
<1>12. ASSUME StreamOK(l, Ahead(l, Whole(m))) PROVE Sound(l, l.outcoming_bl)
  BY <1>5, <1>7, <1>11, <1>12 DEF Sound
<1>9. CASE k.sock = "up"
  <2>1. PICK w : w = k.wire
    OBVIOUS
  <2>2. w \in Seq(Pieces) /\ w \o <<>> = w
    <3>1. w \in Seq(Pieces)
      BY <1>2, <2>1, Fields
    <3> QED
      BY <3>1
  <2>3. Halves(w) /\ Written(P, T, D, w) /\ Live(Q, S, w)
    BY <1>1, <1>9, <2>1, <2>2 DEF Sound, StreamOK, Ahead
  <2>4. /\ Halves(w \o Whole(m))
        /\ Written(N, T, D, w \o Whole(m)) /\ Live(Q, Append(S, m), w \o Whole(m))
        /\ Written(N, T \cup {m}, D, w \o Whole(m)) /\ Live(Q, S, w \o Whole(m))
    BY <1>2, <1>3, <2>3, NewFollows
  <2>5. Ahead(l, Whole(m)) = w \o Whole(m)
    BY <1>5, <1>8, <1>9, <2>1 DEF Ahead, SameLink
  <2>6. StreamOK(l, Ahead(l, Whole(m)))
    BY <1>5, <2>4, <2>5 DEF StreamOK
  <2> QED
    BY <1>1, <1>4, <1>5, <1>7, <1>8, <1>12, <2>6 DEF ToSend
<1>10. CASE k.sock # "up"
  <2>1. PICK w : w = k.wire
    OBVIOUS
  <2>2. Halves(w) /\ Written(P, T, D, w)
    BY <1>1, <1>10, <2>1 DEF Sound, StreamOK, Ahead
  <2>3. Written(N, T, D, w)
    BY <1>3, <2>2, NotYetWritten
  <2>4. Written(N, T \cup {m}, D, w)
    <3>1. T \subseteq T \cup {m} /\ D \subseteq D
      OBVIOUS
    <3>2. PICK E : E = T \cup {m}
      OBVIOUS
    <3> QED
      BY <2>3, <3>1, <3>2, StreamStays
  <2>5. Ahead(l, Whole(m)) = w /\ l.sock # "up"
    BY <1>5, <1>8, <1>10, <2>1 DEF Ahead, SameLink
  <2>6. StreamOK(l, Ahead(l, Whole(m)))
    BY <1>5, <2>2, <2>3, <2>4, <2>5 DEF StreamOK
  <2> QED
    BY <1>1, <1>4, <1>5, <1>7, <1>8, <1>12, <2>6 DEF ToSend
<1> QED
  BY <1>9, <1>10

-----------------------------------------------------------------------------
(***************************************************************************)
(* What a step does to the threads.                                        *)
(***************************************************************************)
\* Thread t goes to where; its sendmsg, if it had one, is over.
Leaves(t, where) ==
    /\ pc' = [pc EXCEPT ![t] = where]
    /\ io' = [io EXCEPT ![t] = NoIo] \/ io' = io

\* Nothing happens to the other threads.
LEMMA LeavesThreads ==
    ASSUME IInv, NEW t \in Threads, NEW where \in {"idle", "mark_down", "wait_sending", "stop"},
           Leaves(t, where)
    PROVE  /\ ThreadStates' /\ pc'[t] = where /\ ~Sends(t)'
           /\ \A u \in Threads : u # t => /\ pc'[u] = pc[u] /\ io'[u] = io[u]
                                          /\ Sends(u)' <=> Sends(u)
<1>1. /\ pc \in [Threads -> {"idle", "sendmsg", "failed", "mark_down", "wait_sending", "stop"}]
      /\ io \in [Threads -> [todo : Seq(Pieces), done : Seq(Pieces),
                             stage : {"none", "direct", "messages", "rest", "flush"}]]
  BY DEF IInv, ThreadStates
<1>2. NoIo \in [todo : Seq(Pieces), done : Seq(Pieces),
                stage : {"none", "direct", "messages", "rest", "flush"}]
  BY DEF NoIo
<1>3. ThreadStates'
  <2>1. pc' \in [Threads -> {"idle", "sendmsg", "failed", "mark_down", "wait_sending", "stop"}]
    BY <1>1 DEF Leaves
  <2>2. io' \in [Threads -> [todo : Seq(Pieces), done : Seq(Pieces),
                             stage : {"none", "direct", "messages", "rest", "flush"}]]
    BY <1>1, <1>2 DEF Leaves
  <2> QED
    BY <2>1, <2>2 DEF ThreadStates
<1>4. pc'[t] = where /\ \A u \in Threads : u # t => pc'[u] = pc[u] /\ io'[u] = io[u]
  BY <1>1 DEF Leaves
<1> QED
  BY <1>3, <1>4 DEF Sends

\* A thread that was not sending.
LEMMA OthersStay ==
    ASSUME IInv, NEW t \in Threads, NEW where \in {"idle", "mark_down", "wait_sending", "stop"},
           Leaves(t, where), ~Sends(t)
    PROVE  SendersStay /\ pc'[t] = where /\ \A u \in Threads : u # t => pc'[u] = pc[u]
BY LeavesThreads DEF SendersStay

\* The event thread, or a direct sender.
LEMMA OthersLeave ==
    ASSUME IInv, NEW t \in Threads, NEW where \in {"idle", "mark_down", "wait_sending", "stop"},
           Leaves(t, where), t = Ev \/ Sends(t)
    PROVE  /\ SendersLeave /\ pc'[t] = where /\ \A u \in Threads : u # t => pc'[u] = pc[u]
           /\ Sends(t) => \A u \in Threads : ~Sends(u)'
           /\ \A u \in Threads : Sends(u)' => Sends(u)
<1>1. /\ ThreadStates' /\ pc'[t] = where /\ ~Sends(t)'
      /\ \A u \in Threads : u # t => /\ pc'[u] = pc[u] /\ io'[u] = io[u]
                                     /\ Sends(u)' <=> Sends(u)
  BY LeavesThreads
<1>2. \A u \in Threads : Sends(u) /\ Sends(t) => u = t
  BY DEF IInv, OneSender
<1> QED
  BY <1>1, <1>2 DEF SendersLeave, Threads

\* Nobody moves.
LEMMA AllStay ==
    ASSUME IInv, UNCHANGED <<pc, io>>
    PROVE  SendersStay
BY DEF IInv, ThreadStates, SendersStay, Sends

\* Without `sending` there is no sender, and what is to be written is in the buffer.
LEMMA NobodySends ==
    ASSUME IInv, ~con.sending
    PROVE  (\A t \in Threads : ~Sends(t)) /\ Sound(con, con.outcoming_bl)
BY DEF IInv, OneSender, Stream, Writing

\* Something is left to write, whoever writes it.
LEMMA AlwaysSound ==
    ASSUME IInv
    PROVE  con \in ConStates /\ \E r : Sound(con, r)
<1>1. \E r : Sound(con, r)
  BY DEF IInv, Stream
<1> QED
  BY <1>1 DEF Sound

\* A step that changes neither the messages nor the bytes, and moves between open
\* states at most.
Same(k, l) ==
    /\ l \in ConStates /\ SameMsgs(k, l) /\ l.wire = k.wire
    /\ l.outcoming_bl = k.outcoming_bl /\ l.sock = k.sock
    /\ l.sending = k.sending /\ l.late = k.late
    /\ \/ l.state = k.state /\ l.state_after_send = k.state_after_send
       \/ k.state \in OpenStates /\ l.state \in OpenStates

\* More may be scheduled after it.
LEMMA SameQuiet ==
    ASSUME NEW k, NEW l, NEW n, Same(k, l), Quiet(l, n), n.sending = l.sending, n.late = l.late
    PROVE  Same(k, n)
BY DEF Same, Quiet, SameMsgs, SameLink

\* Such a step keeps the invariant, unless it stops the event loop from writing.
LEMMA SameStep ==
    ASSUME IInv, SendersStay, Same(con, con'),
           pc'[Ev] = "stop" \/ pc[Ev] # "stop",
           con'.sending \/ (con.ev_write => con'.ev_write),
           con'.state \in {"OPEN", "READ_DATA"} => con.state \in {"OPEN", "READ_DATA"}
    PROVE  IInv'
<1>1. Scheduled'
  BY DEF Scheduled, IInv, Same, SameMsgs
<1>2. LinkOK(con')
  BY DEF IInv, LinkOK, Same, SameMsgs, OpenStates
<1>3. \A r : Sound(con, r) => Sound(con', r)
  BY SameSound DEF Same
<1>4. /\ con'.outcoming_bl = con.outcoming_bl /\ con'.sending = con.sending
      /\ con'.sock = "up" => con.sock = "up"
      /\ con.state \in OpenStates => con'.state \in OpenStates
      /\ con.state = "WAIT_SEND" /\ Sends(Ev) => con'.state = "WAIT_SEND"
      /\ con'.late = con.late /\ \A m \in Nat : InQ(con'.out_q, m) => InQ(con.out_q, m)
  BY DEF Same, SameMsgs, OpenStates
<1> QED
  BY <1>1, <1>2, <1>3, <1>4, Frame

-----------------------------------------------------------------------------
(***************************************************************************)
(* The steps of the application threads.                                   *)
(***************************************************************************)
\* A priority is the number of a queue.
LEMMA PriorityQueue ==
    Priorities \subseteq 1..Highest /\ 1..Highest \subseteq Nat /\ Apps \subseteq Threads
    /\ Ev \in Threads /\ Ev \notin Apps
BY ConstantsAssumption DEF Threads

\* The connection after a message was submitted: the priorities are N, and the
\* message was dropped, was queued, or is to be sent.
DroppedCon(c, N, E) == [c EXCEPT !.prio = N, !.dropped = E]
QueuedCon(c, N, R) == [c EXCEPT !.prio = N, !.out_q = R]
DirectCon(c, N) == [c EXCEPT !.prio = N, !.sending = TRUE]

Submits(c, d) ==
    /\ d \in ConStates /\ d.settled = c.settled /\ d.sent = c.sent
    /\ d.wire = c.wire /\ SameLink(c, d) /\ d.outcoming_bl = c.outcoming_bl /\ d.late = c.late

\* The fields of a connection that dropped a new message.
LEMMA DroppedFields ==
    ASSUME NEW c \in ConStates, NEW N \in Seq(Nat), NEW E \in SUBSET Nat, NEW d,
           d = DroppedCon(c, N, E)
    PROVE  /\ Submits(c, d) /\ d.prio = N /\ d.dropped = E /\ d.out_q = c.out_q
           /\ d.sending = c.sending /\ d.ev_write = c.ev_write
<1>1. d \in ConStates
  BY DEF ConStates, DroppedCon
<1> QED
  BY <1>1 DEF ConStates, SameLink, DroppedCon, Submits

\* The fields of a connection that queued a new message.
LEMMA QueuedFields ==
    ASSUME NEW c \in ConStates, NEW N \in Seq(Nat), NEW R \in [1..Highest -> Seq(Nat)], NEW d,
           d = QueuedCon(c, N, R)
    PROVE  /\ Submits(c, d) /\ d.prio = N /\ d.out_q = R /\ d.dropped = c.dropped
           /\ d.sending = c.sending /\ d.ev_write = c.ev_write
<1>1. d \in ConStates
  BY DEF ConStates, QueuedCon
<1> QED
  BY <1>1 DEF ConStates, SameLink, QueuedCon, Submits

DirectIs(c, N, d) ==
    /\ Submits(c, d) /\ d.prio = N /\ d.out_q = c.out_q /\ d.dropped = c.dropped
    /\ d.sending = TRUE

\* The fields of a connection about to send a new message.
LEMMA DirectFields ==
    ASSUME NEW c \in ConStates, NEW N \in Seq(Nat), NEW d, d = DirectCon(c, N)
    PROVE  DirectIs(c, N, d)
<1>1. d \in ConStates
  BY DEF ConStates, DirectCon
<1>2. /\ d.prio = N /\ d.out_q = c.out_q /\ d.dropped = c.dropped
      /\ d.settled = c.settled /\ d.sent = c.sent /\ d.wire = c.wire
      /\ d.outcoming_bl = c.outcoming_bl /\ d.late = c.late
      /\ d.state = c.state /\ d.sock = c.sock /\ d.state_after_send = c.state_after_send
  BY DEF ConStates, DirectCon
<1>3. d.sending = TRUE
  BY DEF ConStates, DirectCon
<1> QED
  BY <1>1, <1>2, <1>3 DEF SameLink, Submits, DirectIs

\* Only `late` changes; only the state does.
LateCon(c, b) == [c EXCEPT !.late = b]
StateCon(c, s) == [c EXCEPT !.state = s]

\* A change of `late` changes nothing else.
LEMMA LateFields ==
    ASSUME NEW c \in ConStates, NEW b \in BOOLEAN, NEW d, d = LateCon(c, b)
    PROVE  /\ d \in ConStates /\ SameMsgs(c, d) /\ SameLink(c, d) /\ d.wire = c.wire
           /\ d.outcoming_bl = c.outcoming_bl /\ d.sending = c.sending /\ d.late = b
<1>1. d \in ConStates
  BY DEF ConStates, LateCon
<1> QED
  BY <1>1, ZenonT(40) DEF ConStates, SameLink, SameMsgs, LateCon

\* A change of the state changes nothing else.
LEMMA StateFields ==
    ASSUME NEW c \in ConStates,
           NEW s \in {"OPEN", "READ_DATA", "TAG_CLOSE", "WAIT_REPLY", "ACCEPTING", "CONNECTING"},
           NEW d, d = StateCon(c, s)
    PROVE  /\ d \in ConStates /\ SameMsgs(c, d) /\ d.sock = c.sock /\ d.wire = c.wire
           /\ d.outcoming_bl = c.outcoming_bl /\ d.sending = c.sending /\ d.late = c.late
           /\ d.state = s /\ d.state_after_send = c.state_after_send /\ d.ev_write = c.ev_write
<1>1. d \in ConStates
  BY DEF ConStates, StateCon
<1>2. /\ d.prio = c.prio /\ d.out_q = c.out_q /\ d.sent = c.sent
      /\ d.settled = c.settled /\ d.dropped = c.dropped /\ d.sock = c.sock /\ d.wire = c.wire
      /\ d.outcoming_bl = c.outcoming_bl /\ d.sending = c.sending /\ d.late = c.late
      /\ d.state_after_send = c.state_after_send /\ d.ev_write = c.ev_write
  BY DEF ConStates, StateCon
<1>3. d.state = s
  BY DEF ConStates, StateCon
<1> QED
  BY <1>1, <1>2, <1>3 DEF SameMsgs

\* A message that is given up at once: the connection is closed or being stopped.
LEMMA DroppedStep ==
    ASSUME IInv, NEW a \in Apps, pc[a] = "idle", NEW p \in Priorities,
           NEW N, NEW m, Numbered(con.prio, p, N, m), NEW E, E = con.dropped \cup {m},
           NEW l, l = DroppedCon(con, N, E), Return(a, l)
    PROVE  IInv'
<1>1. con \in ConStates
  BY AlwaysSound
<1>2. p \in 1..Highest /\ p \in Nat /\ a \in Threads /\ a # Ev
  BY PriorityQueue
<1>3. N \in Seq(Nat) /\ m \in Nat
  BY <1>1, <1>2, Fields DEF Numbered
<1>4. E \in SUBSET Nat
  BY <1>1, <1>3, Fields
<1>5. Leaves(a, "idle") /\ con' = l
  BY DEF Return, Leaves, Goto
<1>6. /\ Submits(con, l) /\ l.prio = N /\ l.dropped = E /\ l.out_q = con.out_q
      /\ l.sending = con.sending /\ l.ev_write = con.ev_write
  BY <1>1, <1>3, <1>4, DroppedFields
<1>7. ASSUME NEW r, Sound(con, r) PROVE Sound(l, r)
  <2>1. /\ l \in ConStates /\ l.prio = N /\ l.dropped = con.dropped \cup {m}
        /\ l.settled = con.settled /\ l.sent = con.sent
        /\ l.out_q = con.out_q /\ l.wire = con.wire /\ l.sock = con.sock
    BY <1>6 DEF Submits, SameLink
  <2>2. PICK k : k = con
    OBVIOUS
  <2> QED
    BY <1>2, <1>7, <2>1, <2>2, DropRecord
<1>8. SendersStay /\ pc'[Ev] = pc[Ev]
  <2>1. ~Sends(a)
    BY DEF Sends
  <2> QED
    BY <1>2, <1>5, <2>1, OthersStay, PriorityQueue
<1>9. Scheduled' /\ LinkOK(con')
  BY <1>5, <1>6, <1>8 DEF IInv, Scheduled, LinkOK, SameLink, Submits
<1> QED
  BY <1>5, <1>6, <1>7, <1>8, <1>9, Frame DEF SameLink, Submits

\* A message that is queued: l is the connection with it, n what is made of l.
QueuedThen(l, n) ==
    \/ con.sending /\ n = [l EXCEPT !.late = @ \/ AppSending]
    \/ ~con.sending /\ con.state = "STANDBY" /\ n = [l EXCEPT !.state = "CONNECTING"]
    \/ ~con.sending /\ n = start_write(l)

\* send_message that queues: what it queues is scheduled, or comes late, or the
\* connection is not open.
LEMMA QueuedStep ==
    ASSUME IInv, NEW a \in Apps, pc[a] = "idle", NEW p \in Priorities,
           NEW N, NEW m, Numbered(con.prio, p, N, m),
           NEW R, Enqueued(con.out_q, p, m, R), NEW l, l = QueuedCon(con, N, R),
           NEW n, Return(a, n), QueuedThen(l, n)
    PROVE  IInv'
<1>1. con \in ConStates
  BY AlwaysSound
<1>2. p \in 1..Highest /\ p \in Nat /\ a \in Threads /\ a # Ev
  BY PriorityQueue
<1>3. N \in Seq(Nat) /\ m \in Nat
  BY <1>1, <1>2, Fields DEF Numbered
<1>4. R \in [1..Highest -> Seq(Nat)]
  <2>1. con.out_q \in [1..Highest -> Seq(Nat)]
    BY <1>1, Fields
  <2> QED
    BY <1>2, <1>3, <2>1, EnqueuedQueues
<1>5. Leaves(a, "idle") /\ con' = n
  BY DEF Return, Leaves, Goto
<1>6. /\ Submits(con, l) /\ l.prio = N /\ l.out_q = R /\ l.dropped = con.dropped
      /\ l.sending = con.sending /\ l.ev_write = con.ev_write
  BY <1>1, <1>3, <1>4, QueuedFields
<1>7. ASSUME NEW r, Sound(con, r) PROVE Sound(l, r)
  <2>1. /\ l \in ConStates /\ l.prio = N /\ l.dropped = con.dropped
        /\ Enqueued(con.out_q, p, m, l.out_q)
        /\ l.settled = con.settled /\ l.sent = con.sent
        /\ l.wire = con.wire /\ l.sock = con.sock
    BY <1>6 DEF Submits, SameLink
  <2> QED
    BY <1>2, <1>7, <2>1, QueueRecord
<1>8. SendersStay /\ pc'[Ev] = pc[Ev] /\ ~Sends(a)
  <2>1. ~Sends(a)
    BY DEF Sends
  <2> QED
    BY <1>2, <1>5, <2>1, OthersStay, PriorityQueue
<1>9. l \in ConStates /\ SameLink(con, l)
  BY <1>6 DEF Submits
<1>10. LinkOK(l)
  BY <1>6 DEF Submits, IInv, LinkOK, SameLink
<1>11. CASE con.sending /\ n = [l EXCEPT !.late = @ \/ AppSending]
  <2>1. PICK b \in BOOLEAN : b = (l.late \/ AppSending)
    OBVIOUS
  <2>2. n = LateCon(l, b)
    BY <1>9, <1>11, <2>1 DEF ConStates, LateCon
  <2>3. /\ n \in ConStates /\ SameMsgs(l, n) /\ SameLink(l, n) /\ n.wire = l.wire
        /\ n.outcoming_bl = l.outcoming_bl /\ n.sending = l.sending /\ n.late = b
    BY <1>9, <2>2, LateFields
  <2>4. /\ SameMsgs(l, n) /\ SameLink(l, n) /\ n.wire = l.wire /\ n.outcoming_bl = l.outcoming_bl
        /\ n.sending = l.sending /\ n.late = b /\ n.sock = l.sock
    BY <2>3 DEF SameLink
  <2>5. \A r : Sound(l, r) => Sound(n, r)
    BY <2>3, <2>4, SameSound
  <2>6. n.late \/ NoDirect
    <3>1. n.late \/ \A u \in Apps : ~Sends(u)
      BY <2>1, <2>4 DEF AppSending, Sends
    <3> QED
      BY <3>1 DEF NoDirect, Writing
  <2>7. LinkOK(n)
    BY <1>10, <2>4 DEF LinkOK, SameLink, SameMsgs
  <2>8. Scheduled'
    BY <1>5, <1>6, <1>11, <2>4 DEF Scheduled
  <2>9. /\ con'.outcoming_bl = con.outcoming_bl /\ con'.sending = con.sending
        /\ con'.sock = con.sock /\ con'.state = con.state
    BY <1>5, <1>6, <2>4 DEF SameLink, Submits
  <2>10. \A r : Sound(con, r) => Sound(con', r)
    BY <1>5, <1>7, <2>5
  <2> QED
    BY <1>5, <1>8, <2>6, <2>7, <2>8, <2>9, <2>10, Frame
<1>12. CASE ~con.sending /\ con.state = "STANDBY" /\ n = [l EXCEPT !.state = "CONNECTING"]
  <2>1. PICK s \in {"OPEN", "READ_DATA", "TAG_CLOSE", "WAIT_REPLY", "ACCEPTING", "CONNECTING"} :
           s = "CONNECTING"
    OBVIOUS
  <2>2. n = StateCon(l, s)
    BY <1>12, <2>1 DEF StateCon
  <2>3. /\ n \in ConStates /\ SameMsgs(l, n) /\ n.sock = l.sock /\ n.wire = l.wire
        /\ n.outcoming_bl = l.outcoming_bl /\ n.sending = l.sending /\ n.state = s
    BY <1>9, <2>2, StateFields
  <2>4. /\ SameMsgs(l, n) /\ n.wire = l.wire /\ n.outcoming_bl = l.outcoming_bl
        /\ n.sending = l.sending /\ n.sock = l.sock /\ n.state = "CONNECTING"
    BY <2>1, <2>3
  <2>5. \A r : Sound(l, r) => Sound(n, r)
    BY <2>3, <2>4, SameSound
  <2>6. NoDirect
    <3>1. \A u \in Threads : ~Sends(u)
      BY <1>12, NobodySends
    <3> QED
      BY <3>1, PriorityQueue DEF NoDirect, Writing
  <2>7. LinkOK(n)
    BY <1>9, <1>10, <1>12, <2>4 DEF LinkOK, SameLink, SameMsgs, OpenStates
  <2>8. Scheduled'
    BY <1>5, <2>4 DEF Scheduled
  <2>9. /\ con'.outcoming_bl = con.outcoming_bl /\ con'.sending = con.sending
        /\ con'.sock = con.sock /\ con.state \notin OpenStates /\ con.state # "WAIT_SEND"
    BY <1>5, <1>6, <1>12, <2>4 DEF SameLink, Submits, OpenStates
  <2>10. \A r : Sound(con, r) => Sound(con', r)
    BY <1>5, <1>7, <2>5
  <2> QED
    BY <1>5, <1>8, <2>6, <2>7, <2>8, <2>9, <2>10, Frame, PriorityQueue
<1>13. CASE ~con.sending /\ n = start_write(l)
  <2>1. /\ Quiet(l, n) /\ n.sending = l.sending /\ n.late = l.late
        /\ l.sock # "none" => n.ev_write
    BY <1>9, <1>13, StartWrite
  <2>2. (\A r : Sound(l, r) => Sound(n, r)) /\ LinkOK(n)
    BY <1>10, <2>1, QuietKeeps
  <2>3. NoDirect
    <3>1. \A u \in Threads : ~Sends(u)
      BY <1>13, NobodySends
    <3> QED
      BY <3>1, PriorityQueue DEF NoDirect, Writing
  <2>4. /\ n.outcoming_bl = con.outcoming_bl /\ n.sending = con.sending /\ n.sock = con.sock
        /\ n.state = con.state
    BY <1>6, <2>1 DEF SameLink, Submits, Quiet
  <2>5. Scheduled'
    <3>1. n.state \in {"OPEN", "READ_DATA"} => n.sock # "none"
      BY <2>2 DEF LinkOK
    <3> QED
      BY <1>5, <2>1, <3>1 DEF Scheduled, Quiet, SameLink
  <2> QED
    BY <1>5, <1>7, <1>8, <2>2, <2>3, <2>4, <2>5, Frame, PriorityQueue
<1> QED
  BY <1>11, <1>12, <1>13 DEF QueuedThen

\* A message that is sent at once.
LEMMA DirectStep ==
    ASSUME IInv, NEW a \in Apps, pc[a] = "idle", NEW p \in Priorities,
           NEW N, NEW m, Numbered(con.prio, p, N, m), ~con.sending,
           con.outcoming_bl = <<>>, Queued(con) = {}, con.state \in OpenStates,
           NEW j, j = DirectCon(con, N), NEW l, l = _send(j, m), ReleaseToSend(a, l, "direct")
    PROVE  IInv'
<1>1. con \in ConStates
  BY AlwaysSound
<1>2. p \in 1..Highest /\ p \in Nat /\ a \in Threads /\ a # Ev
  BY PriorityQueue
<1>3. N \in Seq(Nat) /\ m \in Nat
  BY <1>1, <1>2, Fields DEF Numbered
<1>4. (\A t \in Threads : ~Sends(t)) /\ Sound(con, con.outcoming_bl)
  BY NobodySends
<1>5. \A n \in Nat : ~InQ(con.out_q, n)
  BY <1>1, Fields, QueuedIn
<1>6. /\ Submits(con, j) /\ j.prio = N /\ j.out_q = con.out_q /\ j.dropped = con.dropped
      /\ j.sending = TRUE
  <2>1. DirectIs(con, N, j)
    BY <1>1, <1>3, DirectFields
  <2> QED
    BY <2>1 DEF DirectIs
<1>7. /\ Sound(l, l.outcoming_bl) /\ l.outcoming_bl = Whole(m) /\ m \in Nat \ {0}
      /\ SameLink(con, l) /\ l.sending = j.sending /\ l.out_q = con.out_q
  <2>1. /\ j \in ConStates /\ j.prio = N /\ j.out_q = con.out_q /\ j.sent = con.sent
        /\ j.settled = con.settled /\ j.dropped = con.dropped /\ j.wire = con.wire
        /\ j.outcoming_bl = <<>> /\ SameLink(con, j)
    BY <1>6 DEF Submits
  <2> QED
    <3>1. ToSend(con, m, j, l)
      BY <1>2, <1>4, <1>5, <2>1, DirectRecord
    <3> QED
      BY <3>1 DEF ToSend
<1>8. l.state = con.state /\ l.sock = con.sock
  BY <1>7 DEF SameLink
<1>9. LinkOK(l)
  BY <1>8 DEF IInv, LinkOK, OpenStates
<1> QED
  BY <1>2, <1>4, <1>5, <1>6, <1>7, <1>8, <1>9, Release

\* The records of send_message in the form of the lemmas above.
WithPrio(c, p) == [c EXCEPT !.prio = Append(@, p)]

SubmitForms(c, p, k, m, N) ==
    /\ k.state = c.state /\ k.sending = c.sending
    /\ k.out_q = c.out_q /\ k.outcoming_bl = c.outcoming_bl
    /\ [k EXCEPT !.dropped = @ \cup {m}] = DroppedCon(c, N, c.dropped \cup {m})
    /\ [k EXCEPT !.out_q[p] = Append(@, m)]
          = QueuedCon(c, N, [c.out_q EXCEPT ![p] = Append(c.out_q[p], m)])
    /\ [k EXCEPT !.sending = TRUE] = DirectCon(c, N)

\* The three outcomes of send_message.
LEMMA SubmitRecords ==
    ASSUME NEW c \in ConStates, NEW p, NEW k, k = WithPrio(c, p), NEW m, NEW N, N = Append(c.prio, p)
    PROVE  SubmitForms(c, p, k, m, N)
BY DEF ConStates, DroppedCon, QueuedCon, DirectCon, WithPrio, SubmitForms

\* send_message, in each of its outcomes.
LEMMA SendMessageStep ==
    ASSUME IInv, NEW a \in Apps, send_message(a)
    PROVE  IInv'
<1>1. con \in ConStates
  BY AlwaysSound
<1>2. PICK p, k, q, m :
         /\ p \in Priorities /\ m = Len(con.prio) + 1
         /\ k = [con EXCEPT !.prio = Append(@, p)]
         /\ q = [k EXCEPT !.out_q[p] = Append(@, m)]
         /\ \/ Return(a, [k EXCEPT !.dropped = @ \cup {m}])
            \/ CanSendNow(k) /\ ReleaseToSend(a, _send([k EXCEPT !.sending = TRUE], m), "direct")
            \/ Return(a, CASE k.sending -> [q EXCEPT !.late = @ \/ AppSending]
                           [] ~k.sending /\ k.state = "STANDBY" /\ ~k.server
                                -> [q EXCEPT !.state = "CONNECTING"]
                           [] OTHER -> start_write(q))
  BY DEF send_message
<1>3. pc[a] = "idle" /\ p \in Priorities
  BY <1>2 DEF send_message
<1>4. PICK N, E, R : /\ N = Append(con.prio, p) /\ E = con.dropped \cup {m}
                     /\ R = [con.out_q EXCEPT ![p] = Append(con.out_q[p], m)]
  OBVIOUS
<1>5. /\ k.state = con.state /\ k.sending = con.sending
      /\ k.out_q = con.out_q /\ k.outcoming_bl = con.outcoming_bl
      /\ [k EXCEPT !.dropped = @ \cup {m}] = DroppedCon(con, N, E)
      /\ q = QueuedCon(con, N, R)
      /\ [k EXCEPT !.sending = TRUE] = DirectCon(con, N)
  <2>1. k = WithPrio(con, p)
    BY <1>2 DEF WithPrio
  <2>2. SubmitForms(con, p, k, m, N)
    BY <1>1, <1>4, <2>1, SubmitRecords
  <2> QED
    BY <1>2, <1>4, <2>2 DEF SubmitForms
<1>6. Numbered(con.prio, p, N, m) /\ Enqueued(con.out_q, p, m, R)
  BY <1>2, <1>4 DEF Numbered, Enqueued
<1>7. CASE Return(a, [k EXCEPT !.dropped = @ \cup {m}])
  <2>1. PICK l : l = DroppedCon(con, N, E) /\ Return(a, l)
    BY <1>5, <1>7
  <2> QED
    BY <1>3, <1>4, <1>6, <2>1, DroppedStep
<1>8. CASE CanSendNow(k) /\ ReleaseToSend(a, _send([k EXCEPT !.sending = TRUE], m), "direct")
  <2>1. PICK j, l : j = DirectCon(con, N) /\ l = _send(j, m) /\ ReleaseToSend(a, l, "direct")
    BY <1>5, <1>8
  <2>2. /\ ~con.sending /\ con.outcoming_bl = <<>> /\ Queued(con) = {}
        /\ con.state \in OpenStates
    <3>1. Queued(k) = Queued(con)
      BY <1>5 DEF Queued
    <3>2. ~k.sending /\ k.outcoming_bl = <<>> /\ Queued(k) = {} /\ k.state \in DirectStates
      BY <1>8 DEF CanSendNow, is_queued
    <3> QED
      BY <1>5, <3>1, <3>2, ConstantsAssumption DEF OpenStates
  <2> QED
    BY <1>3, <1>6, <2>1, <2>2, DirectStep
<1>9. CASE Return(a, CASE k.sending -> [q EXCEPT !.late = @ \/ AppSending]
                       [] ~k.sending /\ k.state = "STANDBY" /\ ~k.server
                            -> [q EXCEPT !.state = "CONNECTING"]
                       [] OTHER -> start_write(q))
  <2>1. PICK n : /\ Return(a, n)
                 /\ n = CASE k.sending -> [q EXCEPT !.late = @ \/ AppSending]
                          [] ~k.sending /\ k.state = "STANDBY" /\ ~k.server
                               -> [q EXCEPT !.state = "CONNECTING"]
                          [] OTHER -> start_write(q)
    BY <1>9
  <2>2. QueuedThen(q, n)
    <3>1. k.sending \in BOOLEAN
      BY <1>1, <1>5, Fields
    <3> QED
      BY <1>5, <2>1, <3>1 DEF QueuedThen
  <2> QED
    BY <1>3, <1>5, <1>6, <2>1, <2>2, QueuedStep
<1> QED
  BY <1>2, <1>7, <1>8, <1>9

\* A record without changes.
LEMMA SameSelf ==
    ASSUME NEW k \in ConStates
    PROVE  Same(k, k)
BY DEF Same, SameMsgs

\* The pieces a sender has, before and after it wrote the first n of them.
SplitAt(s, n, now, rest) ==
    n \in 1..Len(s) /\ now = SubSeq(s, 1, n) /\ rest = SubSeq(s, n + 1, Len(s))

SplitOK(d, s, now, rest) ==
    /\ now \in Seq(Pieces) /\ rest \in Seq(Pieces) /\ d \o now \in Seq(Pieces)
    /\ now \o rest = s /\ (d \o now) \o rest = d \o s

\* Nothing is lost between what is written and what is left.
LEMMA SplitPieces ==
    ASSUME NEW d \in Seq(Pieces), NEW s \in Seq(Pieces), NEW n, NEW now, NEW rest,
           SplitAt(s, n, now, rest)
    PROVE  SplitOK(d, s, now, rest)
<1>1. Len(s) \in Nat /\ n \in Nat /\ n <= Len(s)
  BY DEF SplitAt
<1>2. now \in Seq(Pieces) /\ rest \in Seq(Pieces)
  BY <1>1 DEF SplitAt
<1>3. now \o rest = s
  BY <1>1, <1>2 DEF SplitAt
<1>4. d \o now \in Seq(Pieces)
  BY <1>2
<1>5. d \o (now \o rest) = (d \o now) \o rest
  BY <1>2, JoinedThrice
<1> QED
  BY <1>2, <1>3, <1>4, <1>5 DEF SplitOK

\* sendmsg fails on a socket that is down.
LEMMA SendmsgFails ==
    ASSUME IInv, NEW t \in Threads, pc[t] = "sendmsg", con.sock # "up",
           Goto(t, "failed"), UNCHANGED <<con, io>>
    PROVE  IInv'
<1>1. con \in ConStates
  BY AlwaysSound
<1>2. pc' = [pc EXCEPT ![t] = "failed"] /\ pc'[t] = "failed" /\ \A u \in Threads : u # t => pc'[u] = pc[u]
  BY DEF Goto, IInv, ThreadStates
<1>3. SendersStay
  BY <1>2 DEF SendersStay, IInv, ThreadStates, Sends
<1>4. Same(con, con') /\ con' = con
  BY <1>1, SameSelf
<1>5. pc[Ev] # "stop" \/ pc'[Ev] = "stop"
  BY <1>2 DEF Threads
<1> QED
  BY <1>3, <1>4, <1>5, SameStep

\* sendmsg writes some of the pieces.
Sendmsg(t, now, rest, F) ==
    /\ con' = Wrote(con, now, F)
    /\ pc' = pc
    /\ io' = [io EXCEPT ![t].done = @ \o now, ![t].todo = rest]

\* A write keeps the pieces of the sender at the front of the output buffer.
LEMMA SendmsgWrites ==
    ASSUME IInv, NEW t \in Threads, pc[t] = "sendmsg", Writing(t), con.sock = "up",
           NEW n, NEW now, NEW rest, SplitAt(io[t].todo, n, now, rest), NEW F \in SUBSET Nat,
           Sendmsg(t, now, rest, F)
    PROVE  IInv'
<1>1. PICK d, s : d = io[t].done /\ s = io[t].todo
  OBVIOUS
<1>2. d \in Seq(Pieces) /\ s \in Seq(Pieces) /\ Sound(con, s) /\ con.outcoming_bl = d \o s
  BY <1>1, SenderPieces DEF IInv, Stream, Writing
<1>3. /\ now \in Seq(Pieces) /\ rest \in Seq(Pieces) /\ d \o now \in Seq(Pieces)
      /\ now \o rest = s /\ (d \o now) \o rest = d \o s
  <2>1. SplitAt(s, n, now, rest)
    BY <1>1
  <2>2. SplitOK(d, s, now, rest)
    BY <1>2, <2>1, SplitPieces
  <2> QED
    BY <2>2 DEF SplitOK
<1>4. con' = Wrote(con, now, F) /\ pc' = pc
  BY DEF Sendmsg
<1>5. /\ io' \in [Threads -> [todo : Seq(Pieces), done : Seq(Pieces),
                              stage : {"none", "direct", "messages", "rest", "flush"}]]
      /\ io'[t].done = d \o now /\ io'[t].todo = rest /\ io'[t].stage = io[t].stage
      /\ \A u \in Threads : u # t => io'[u] = io[u]
  <2>1. io \in [Threads -> [todo : Seq(Pieces), done : Seq(Pieces),
                            stage : {"none", "direct", "messages", "rest", "flush"}]]
    BY DEF IInv, ThreadStates
  <2>2. PICK e : e = [io[t] EXCEPT !.done = d \o now, !.todo = rest]
    OBVIOUS
  <2>3. io' = [io EXCEPT ![t] = e]
    BY <1>1, <2>1, <2>2 DEF Sendmsg
  <2>4. /\ e \in [todo : Seq(Pieces), done : Seq(Pieces),
                  stage : {"none", "direct", "messages", "rest", "flush"}]
        /\ e.done = d \o now /\ e.todo = rest /\ e.stage = io[t].stage
    BY <1>3, <2>1, <2>2
  <2> QED
    BY <2>1, <2>3, <2>4
<1>6. /\ Sound(con', rest) /\ SameLink(con, con') /\ con'.out_q = con.out_q
      /\ con'.outcoming_bl = con.outcoming_bl /\ con'.sent = con.sent
      /\ con'.sending = con.sending /\ con'.late = con.late
  <2>1. PICK l : l = Wrote(con, now, F)
    OBVIOUS
  <2>2. Sound(con, now \o rest)
    BY <1>2, <1>3
  <2>3. /\ Sound(l, rest) /\ SameLink(con, l) /\ l.out_q = con.out_q
        /\ l.outcoming_bl = con.outcoming_bl /\ l.sent = con.sent
        /\ l.sending = con.sending /\ l.late = con.late
    <3>1. WroteIs(con, rest, l)
      BY <1>3, <2>1, <2>2, WriteRecord
    <3> QED
      BY <3>1 DEF WroteIs
  <2> QED
    BY <1>4, <2>1, <2>3
<1>7. Sends(t) /\ con.sending /\ \A u \in Threads : Sends(u) => u = t
  BY DEF IInv, OneSender, Writing
<1>8. \A u \in Threads : Sends(u)' <=> Sends(u)
  BY <1>4 DEF Sends
<1>9. io'[t].done \o io'[t].todo = io[t].done \o io[t].todo /\ Writing(t)'
  BY <1>1, <1>2, <1>3, <1>5, <1>6, <1>7, <1>8 DEF Writing
<1>10. ThreadStates' /\ OneSender'
  BY <1>4, <1>5, <1>6, <1>8 DEF IInv, ThreadStates, OneSender
<1>11. EventSend'
  <2>1. SUFFICES ASSUME Sends(Ev)' PROVE EventSend'
    BY DEF EventSend
  <2>2. t = Ev /\ Sends(Ev)
    BY <1>7, <1>8, <2>1 DEF Threads
  <2> QED
    BY <1>5, <1>6, <1>9, <2>2 DEF IInv, EventSend, SameLink
<1>12. DirectSend'
  <2>1. SUFFICES ASSUME NEW a \in Apps, Sends(a)'
                 PROVE  /\ \E m \in Nat \ {0} : io'[a].done \o io'[a].todo = Whole(m)
                        /\ \/ Writing(a)' /\ con'.state \in OpenStates
                           \/ con'.outcoming_bl \in {<<>>, <<Handshake>>}
                        /\ Writing(a)' => con'.late \/ \A m \in Nat : ~InQ(con'.out_q, m)
    BY DEF DirectSend
  <2>2. t = a /\ Sends(a)
    BY <1>7, <1>8, <2>1 DEF Threads
  <2>3. /\ \E m \in Nat \ {0} : io[a].done \o io[a].todo = Whole(m)
        /\ \/ Writing(a) /\ con.state \in OpenStates
           \/ con.outcoming_bl \in {<<>>, <<Handshake>>}
        /\ Writing(a) => con.late \/ \A m \in Nat : ~InQ(con.out_q, m)
    BY <2>2 DEF IInv, DirectSend
  <2> QED
    BY <1>6, <1>9, <2>2, <2>3 DEF SameLink
<1>13. Failed'
  BY <1>4, <1>7, <1>8 DEF Failed, Writing
<1>14. LinkOK(con')
  BY <1>6 DEF IInv, LinkOK, SameLink
<1>15. Stream'
  <2>1. \A u \in Threads : Writing(u)' => u = t
    BY <1>7, <1>8 DEF Writing
  <2> QED
    BY <1>5, <1>6, <1>9, <2>1 DEF Stream
<1>16. Scheduled'
  BY <1>6, <1>7 DEF Scheduled
<1> QED
  BY <1>10, <1>11, <1>12, <1>13, <1>14, <1>15, <1>16 DEF IInv

\* do_sendmsg of any thread whose pieces are still in the buffer.
LEMMA SendmsgStep ==
    ASSUME IInv, NEW t \in Threads, do_sendmsg(t)
    PROVE  IInv'
<1>1. pc[t] = "sendmsg" /\ Intact(t) /\ Sends(t)
  <2>1. pc[t] = "sendmsg" /\ Intact(t)
    BY Zenon DEF do_sendmsg
  <2> QED
    BY <2>1 DEF Sends
<1>2. Writing(t) /\ con \in ConStates
  BY <1>1, IntactWriting, AlwaysSound
<1>3. CASE con.sock # "up" /\ Goto(t, "failed") /\ UNCHANGED <<con, io>>
  BY <1>1, <1>3, SendmsgFails
<1>4. ASSUME con.sock = "up", NEW n \in 1..Len(io[t].todo), NEW now, now = SubSeq(io[t].todo, 1, n),
             con' = [con EXCEPT !.wire = @ \o now,
                        !.flushed = @ \cup {m \in Msgs : Part(m, 2) \in ToSet(now)}],
             io' = [io EXCEPT ![t].done = @ \o now, ![t].todo = SubSeq(@, n + 1, Len(@))],
             UNCHANGED pc
      PROVE  IInv'
  <2>1. PICK rest : rest = SubSeq(io[t].todo, n + 1, Len(io[t].todo))
    OBVIOUS
  <2>2. PICK F : F = con.flushed \cup {m \in Msgs : Part(m, 2) \in ToSet(now)}
    OBVIOUS
  <2>3. F \in SUBSET Nat
    <3>1. con.flushed \subseteq Nat
      BY <1>2 DEF ConStates
    <3>2. Msgs \subseteq Nat
      BY DEF Msgs
    <3> QED
      BY <2>2, <3>1, <3>2
  <2>4. SplitAt(io[t].todo, n, now, rest)
    BY <1>4, <2>1 DEF SplitAt
  <2>5. con' = Wrote(con, now, F)
    BY <1>2, <1>4, <2>2 DEF Wrote, ConStates
  <2>6. io' = [io EXCEPT ![t].done = @ \o now, ![t].todo = rest]
    BY <1>4, <2>1 DEF IInv, ThreadStates
  <2>7. Sendmsg(t, now, rest, F)
    BY <1>4, <2>5, <2>6 DEF Sendmsg
  <2> QED
    BY <1>1, <1>2, <1>4, <2>3, <2>4, <2>7, SendmsgWrites
<1> QED
  BY <1>3, <1>4, Zenon DEF do_sendmsg

\* The pieces that sendmsg wrote are trimmed from the output buffer.
LEMMA TrimRecord ==
    ASSUME IInv, NEW t \in Threads, Writing(t), NEW l, l = Trim(con, t)
    PROVE  /\ Sound(l, l.outcoming_bl) /\ SameMsgs(con, l) /\ SameLink(con, l)
           /\ l.sending = con.sending /\ l.late = con.late /\ l.outcoming_bl = io[t].todo
<1>1. PICK d, s : d = io[t].done /\ s = io[t].todo
  OBVIOUS
<1>2. d \in Seq(Pieces) /\ s \in Seq(Pieces) /\ Sound(con, s) /\ con.outcoming_bl = d \o s
  BY <1>1, SenderPieces DEF IInv, Stream, Writing
<1>3. SubSeq(d \o s, Len(d) + 1, Len(d \o s)) = s
  BY <1>2
<1>4. con \in ConStates
  BY AlwaysSound
<1>5. l = [con EXCEPT !.outcoming_bl = s]
  BY <1>1, <1>2, <1>3, <1>4 DEF Trim, ConStates
<1>6. /\ l \in ConStates /\ SameMsgs(con, l) /\ SameLink(con, l) /\ l.wire = con.wire
      /\ l.sending = con.sending /\ l.late = con.late /\ l.outcoming_bl = s
  <2>1. ASSUME NEW c \in ConStates, NEW x \in Seq(Pieces), NEW e, e = [c EXCEPT !.outcoming_bl = x]
        PROVE  e \in ConStates
    BY <2>1 DEF ConStates
  <2>2. l \in ConStates
    BY <1>2, <1>4, <1>5, <2>1, Zenon
  <2> QED
    BY <1>4, <1>5, <2>2 DEF ConStates, SameMsgs, SameLink
<1>7. Sound(l, s)
  BY <1>2, <1>6, SameSound DEF SameLink
<1> QED
  BY <1>1, <1>6, <1>7

\* A direct send is over.
EndCon(c) == [c EXCEPT !.sending = FALSE, !.want_send = FALSE, !.handle_write_delayed = FALSE]

\* The end of a direct send clears its flags.
LEMMA EndFields ==
    ASSUME NEW c \in ConStates, NEW d, d = EndCon(c)
    PROVE  Quiet(c, d) /\ d.late = c.late /\ d.ev_write = c.ev_write /\ d.sending = FALSE
<1>1. d \in ConStates
  <2>1. PICK e : e = [c EXCEPT !.sending = FALSE]
    OBVIOUS
  <2>2. e \in ConStates
    BY <2>1 DEF ConStates
  <2>5. PICK f : f = [e EXCEPT !.want_send = FALSE]
    OBVIOUS
  <2>3. f \in ConStates
    BY <2>2, <2>5, ZenonT(40) DEF ConStates
  <2>4. d = [f EXCEPT !.handle_write_delayed = FALSE]
    BY <2>1, <2>5 DEF EndCon
  <2> QED
    BY <2>3, <2>4, ZenonT(40) DEF ConStates
<1>2. /\ d.prio = c.prio /\ d.out_q = c.out_q /\ d.sent = c.sent /\ d.settled = c.settled
      /\ d.dropped = c.dropped /\ d.state = c.state /\ d.sock = c.sock
      /\ d.state_after_send = c.state_after_send /\ d.wire = c.wire
      /\ d.outcoming_bl = c.outcoming_bl /\ d.late = c.late /\ d.ev_write = c.ev_write
  BY DEF ConStates, EndCon
<1>3. d.sending = FALSE
  BY DEF ConStates, EndCon
<1> QED
  BY <1>1, <1>2, <1>3 DEF Quiet, SameMsgs, SameLink

\* The direct send ends: the rest is trimmed and scheduled, or the failure is left
\* to the event thread.
LEMMA SentDirectStep ==
    ASSUME IInv, NEW a \in Apps, sent_direct(a)
    PROVE  IInv'
<1>1. Sends(a) /\ Intact(a) /\ a \in Threads /\ a # Ev
  BY PriorityQueue DEF sent_direct, SentDirect, Sends
<1>2. Writing(a) /\ con \in ConStates
  BY <1>1, IntactWriting, AlwaysSound
<1>3. con.state \in OpenStates /\ con.sock # "none"
      /\ (con.late \/ \A m \in Nat : ~InQ(con.out_q, m))
  <2>1. con.outcoming_bl \notin {<<>>, <<Handshake>>}
    BY <1>1, <1>2, NotCleared
  <2> QED
    BY <1>1, <1>2, <2>1 DEF IInv, DirectSend, LinkOK, OpenStates
<1>4. PICK k : k = IF pc[a] = "sendmsg" THEN set_action(Trim(con, a)) ELSE con
  OBVIOUS
<1>5. /\ Sound(k, k.outcoming_bl) /\ SameMsgs(con, k) /\ SameLink(con, k) /\ k.late = con.late
      /\ pc[a] = "sendmsg" /\ k.outcoming_bl # <<>> => k.ev_write
  <2>1. CASE pc[a] = "sendmsg"
    <3>1. PICK l : l = Trim(con, a)
      OBVIOUS
    <3>2. /\ Sound(l, l.outcoming_bl) /\ SameMsgs(con, l) /\ SameLink(con, l)
          /\ l.sending = con.sending /\ l.late = con.late
      BY <1>1, <1>2, <3>1, TrimRecord
    <3>3. l \in ConStates /\ k = set_action(l)
      BY <1>4, <2>1, <3>1, <3>2 DEF Sound
    <3>4. /\ Quiet(l, k) /\ k.late = l.late
          /\ l.outcoming_bl # <<>> /\ l.sock # "none" => k.ev_write
      BY <3>3, SetAction
    <3>5. Sound(k, l.outcoming_bl)
      BY <3>2, <3>4, QuietKeeps
    <3> QED
      BY <1>3, <3>2, <3>4, <3>5 DEF Quiet, SameMsgs, SameLink
  <2>2. CASE pc[a] # "sendmsg"
    <3>1. pc[a] = "failed" /\ k = con
      BY <1>1, <1>4, <2>2 DEF Sends
    <3>2. con.sock # "up"
      BY <1>1, <1>2, <3>1 DEF IInv, Failed
    <3>3. Sound(con, io[a].todo) /\ con.outcoming_bl \in Seq(Pieces)
      BY <1>1, <1>2, Fields DEF IInv, Stream
    <3>4. Sound(con, con.outcoming_bl)
      BY <3>2, <3>3, DownSound
    <3> QED
      BY <2>2, <3>1, <3>4 DEF SameMsgs, SameLink
  <2> QED
    BY <2>1, <2>2
<1>6. PICK q : q = EndCon(k)
  OBVIOUS
<1>7. Quiet(k, q) /\ q.late = k.late /\ q.ev_write = k.ev_write /\ q.sending = FALSE
  BY <1>5, <1>6, EndFields DEF Sound
<1>8. PICK l : /\ Return(a, l) /\ (l = q \/ l = start_write(q))
               /\ pc[a] = "failed" => l = start_write(q)
  <2>1. Return(a, IF pc[a] = "failed" \/ con.handle_write_delayed THEN start_write(q) ELSE q)
    BY <1>4, <1>6 DEF sent_direct, SentDirect, EndCon
  <2> QED
    BY <2>1
<1>9. /\ Quiet(k, l) /\ l.late = k.late /\ l.sending = FALSE
      /\ k.ev_write \/ pc[a] = "failed" => l.ev_write
  <2>1. CASE l = q /\ pc[a] # "failed"
    BY <1>7, <2>1
  <2>2. CASE l = start_write(q)
    <3>1. /\ Quiet(q, l) /\ l.sending = q.sending /\ l.late = q.late
          /\ q.ev_write \/ q.sock # "none" => l.ev_write
      BY <1>7, <2>2, StartWrite DEF Quiet
    <3>2. Quiet(k, l)
      BY <1>7, <3>1, QuietTransitive
    <3>3. q.sock # "none"
      BY <1>3, <1>5, <1>7 DEF Quiet, SameLink
    <3> QED
      BY <1>7, <3>1, <3>2, <3>3
  <2> QED
    BY <1>8, <2>1, <2>2
<1>10. Sound(l, l.outcoming_bl)
  BY <1>5, <1>9, QuietKeeps DEF Quiet
<1>11. l.state \in OpenStates /\ l.sock # "none" /\ SameMsgs(con, l)
  BY <1>3, <1>5, <1>9 DEF Quiet, SameLink, SameMsgs
<1>12. LinkOK(l)
  BY <1>11 DEF LinkOK, OpenStates
<1>13. con' = l /\ Leaves(a, "idle")
  BY <1>8 DEF Return, Leaves, Goto
<1>14. SendersLeave /\ \A u \in Threads : ~Sends(u)'
  BY <1>1, <1>13, OthersLeave
<1>15. Scheduled'
  <2>1. l.late \/ \A m \in Nat : ~InQ(l.out_q, m)
    BY <1>3, <1>5, <1>9, <1>11 DEF SameMsgs
  <2>2. l.outcoming_bl # <<>> => l.ev_write
    BY <1>1, <1>5, <1>9 DEF Quiet, Sends
  <2> QED
    BY <1>13, <2>1, <2>2 DEF Scheduled
<1> QED
  BY <1>10, <1>12, <1>13, <1>14, <1>15, Ends, PriorityQueue

\* One flag of the connection changes.
Flagged(c, d) ==
    \/ d = [c EXCEPT !.keepalive = TRUE]
    \/ d = [c EXCEPT !.keepalive_ack = TRUE]
    \/ d = [c EXCEPT !.stopping = TRUE]
    \/ d = [c EXCEPT !.lossy = TRUE]
    \/ d = [c EXCEPT !.want_send = TRUE]
    \/ d = [c EXCEPT !.replacing = 1]

\* A flag changes neither the messages nor the bytes.
LEMMA FlagFields ==
    ASSUME NEW c \in ConStates, NEW d, Flagged(c, d)
    PROVE  Same(c, d) /\ d.ev_write = c.ev_write
<1>1. CASE d = [c EXCEPT !.keepalive = TRUE]
  <2>1. d \in ConStates
    BY <1>1 DEF ConStates
  <2> QED
    BY <1>1, <2>1, ZenonT(40) DEF ConStates, Same, SameMsgs
<1>2. CASE d = [c EXCEPT !.keepalive_ack = TRUE]
  <2>1. d \in ConStates
    BY <1>2 DEF ConStates
  <2> QED
    BY <1>2, <2>1, ZenonT(40) DEF ConStates, Same, SameMsgs
<1>3. CASE d = [c EXCEPT !.stopping = TRUE]
  <2>1. d \in ConStates
    BY <1>3 DEF ConStates
  <2> QED
    BY <1>3, <2>1, ZenonT(40) DEF ConStates, Same, SameMsgs
<1>4. CASE d = [c EXCEPT !.lossy = TRUE]
  <2>1. d \in ConStates
    BY <1>4 DEF ConStates
  <2> QED
    BY <1>4, <2>1, ZenonT(40) DEF ConStates, Same, SameMsgs
<1>5. CASE d = [c EXCEPT !.want_send = TRUE]
  <2>1. d \in ConStates
    BY <1>5 DEF ConStates
  <2> QED
    BY <1>5, <2>1, ZenonT(40) DEF ConStates, Same, SameMsgs
<1>6. CASE d = [c EXCEPT !.replacing = 1]
  <2>1. d \in ConStates
    BY <1>6 DEF ConStates
  <2> QED
    BY <1>6, <2>1, ZenonT(40) DEF ConStates, Same, SameMsgs
<1> QED
  BY <1>1, <1>2, <1>3, <1>4, <1>5, <1>6 DEF Flagged

\* A step of a thread that changes a flag, and may schedule a write.
LEMMA FlagStep ==
    ASSUME IInv, SendersStay, NEW d, Flagged(con, d), con' = d \/ con' = start_write(d),
           pc'[Ev] = "stop" \/ pc[Ev] # "stop"
    PROVE  IInv'
<1>1. con \in ConStates
  BY AlwaysSound
<1>2. Same(con, d) /\ d.ev_write = con.ev_write /\ d \in ConStates
  BY <1>1, FlagFields DEF Same
<1>3. Same(con, con') /\ (con.ev_write => con'.ev_write)
  <2>1. CASE con' = d
    BY <1>2, <2>1
  <2>2. CASE con' = start_write(d)
    <3>1. PICK n : n = start_write(d)
      OBVIOUS
    <3>2. /\ Quiet(d, n) /\ n.sending = d.sending /\ n.late = d.late
          /\ d.ev_write => n.ev_write
      BY <1>2, <3>1, StartWrite
    <3>3. Same(con, n)
      BY <1>2, <3>2, SameQuiet
    <3> QED
      BY <1>2, <2>2, <3>1, <3>2, <3>3
  <2> QED
    BY <2>1, <2>2
<1>4. con'.state \in {"OPEN", "READ_DATA"} => con.state \in {"OPEN", "READ_DATA"}
  <2>1. con'.state = d.state
    <3>1. PICK n : n = start_write(d)
      OBVIOUS
    <3>2. Quiet(d, n)
      BY <1>2, <3>1, StartWrite
    <3> QED
      BY <3>1, <3>2 DEF Quiet, SameLink
  <2>2. d.state = con.state
    BY <1>1 DEF Flagged, ConStates
  <2> QED
    BY <2>1, <2>2
<1> QED
  BY <1>3, <1>4, SameStep

\* send_keepalive.
LEMMA SendKeepaliveStep ==
    ASSUME IInv, NEW a \in Apps, send_keepalive(a)
    PROVE  IInv'
<1>1. PICK d : d = [con EXCEPT !.keepalive = TRUE]
  OBVIOUS
<1>2. con' = start_write(d) /\ UNCHANGED <<pc, io>>
  BY <1>1 DEF send_keepalive
<1>3. SendersStay /\ (pc'[Ev] = "stop" \/ pc[Ev] # "stop")
  BY <1>2, AllStay
<1>4. Flagged(con, d)
  BY <1>1 DEF Flagged
<1> QED
  BY <1>2, <1>3, <1>4, FlagStep

\* mark_down asks and waits.
LEMMA MarkDownStep ==
    ASSUME IInv, NEW a \in Apps, mark_down(a)
    PROVE  IInv'
<1>1. a \in Threads /\ a # Ev /\ Ev \in Threads
  BY PriorityQueue
<1>2. con' = [con EXCEPT !.stopping = TRUE] /\ Leaves(a, "mark_down") /\ ~Sends(a)
  BY DEF mark_down, Leaves, Goto, Sends
<1>3. SendersStay /\ pc'[Ev] = pc[Ev]
  BY <1>1, <1>2, OthersStay
<1>4. PICK d : d = con' /\ Flagged(con, d)
  BY <1>2 DEF Flagged
<1> QED
  BY <1>3, <1>4, FlagStep

\* mark_down wakes.
LEMMA MarkDownWokenStep ==
    ASSUME IInv, NEW a \in Apps, mark_down_woken(a)
    PROVE  IInv'
<1>1. a \in Threads /\ a # Ev /\ Ev \in Threads
  BY PriorityQueue
<1>2. con' = con /\ io' = io /\ ~Sends(a) /\ (pc' = pc \/ pc' = [pc EXCEPT ![a] = "idle"])
  BY DEF mark_down_woken, Goto, Sends
<1>3. SendersStay /\ pc'[Ev] = pc[Ev]
  <2>1. CASE pc' = pc
    BY <1>2, <2>1, AllStay
  <2>2. CASE pc' = [pc EXCEPT ![a] = "idle"]
    <3>1. Leaves(a, "idle")
      BY <1>2, <2>2 DEF Leaves
    <3> QED
      BY <1>1, <1>2, <3>1, OthersStay
  <2> QED
    BY <1>2, <2>1, <2>2
<1>4. con \in ConStates
  BY AlwaysSound
<1>5. Same(con, con')
  BY <1>2, <1>4, SameSelf
<1> QED
  BY <1>2, <1>3, <1>5, SameStep

\* stop() of mark_down_all, and mark_down by the event thread.
LEMMA StopStep ==
    ASSUME IInv, stop \/ mark_down_owner
    PROVE  IInv'
<1>1. con' = [con EXCEPT !.stopping = TRUE] /\ UNCHANGED <<pc, io>>
  BY DEF stop, mark_down_owner
<1>2. SendersStay /\ (pc'[Ev] = "stop" \/ pc[Ev] # "stop")
  BY <1>1, AllStay
<1>3. PICK d : d = con' /\ Flagged(con, d)
  BY <1>1 DEF Flagged
<1> QED
  BY <1>2, <1>3, FlagStep

\* The peer's next attempt asks for the replacement.
LEMMA AcceptReplaceStep ==
    ASSUME IInv, accept_replace
    PROVE  IInv'
<1>1. con' = [con EXCEPT !.replacing = 1] /\ UNCHANGED <<pc, io>>
  BY DEF accept_replace
<1>2. SendersStay /\ (pc'[Ev] = "stop" \/ pc[Ev] # "stop")
  BY <1>1, AllStay
<1>3. PICK d : d = con' /\ Flagged(con, d)
  BY <1>1 DEF Flagged
<1> QED
  BY <1>2, <1>3, FlagStep

\* The connection is stopped, whoever asked for it; a direct sender may be left
\* without its pieces.
LEMMA StopsStep ==
    ASSUME IInv, SendersStay, ~Sends(Ev), NEW k, Same(con, k), k.state = con.state,
           con' = _stop(k)
    PROVE  IInv'
<1>1. CASE k.state = "CLOSED"
  <2>1. con' = k
    BY <1>1 DEF _stop
  <2>2. con'.state \notin {"OPEN", "READ_DATA"} /\ Same(con, con')
    BY <1>1, <2>1
  <2>4. Scheduled'
    BY <2>2 DEF Scheduled
  <2>5. LinkOK(con')
    BY <2>2 DEF IInv, LinkOK, Same, SameMsgs, OpenStates
  <2>6. \A r : Sound(con, r) => Sound(con', r)
    BY <2>2, SameSound DEF Same
  <2>7. /\ con'.outcoming_bl = con.outcoming_bl /\ con'.sending = con.sending
        /\ con'.sock = "up" => con.sock = "up"
        /\ con.state \in OpenStates => con'.state \in OpenStates
        /\ con.state = "WAIT_SEND" /\ Sends(Ev) => con'.state = "WAIT_SEND"
        /\ con'.late = con.late /\ \A m \in Nat : InQ(con'.out_q, m) => InQ(con.out_q, m)
    BY <2>2 DEF Same, SameMsgs, OpenStates
  <2> QED
    BY <2>4, <2>5, <2>6, <2>7, Frame
<1>2. CASE k.state # "CLOSED"
  <2>1. PICK r : Sound(con, r)
    BY AlwaysSound
  <2>2. Sound(k, r)
    BY <2>1, SameSound DEF Same
  <2>3. PICK l : l = _stop(k)
    OBVIOUS
  <2>4. /\ Sound(l, <<>>) /\ LinkOK(l) /\ l.state = "CLOSED" /\ l.outcoming_bl = <<>>
        /\ l.sending = k.sending
    BY <1>2, <2>2, <2>3, StopRecord
  <2>5. con' = l /\ k.sending = con.sending
    BY <2>3 DEF Same
  <2>6. /\ LinkOK(con') /\ Sound(con', con'.outcoming_bl)
        /\ con'.sending = con.sending /\ con'.outcoming_bl \in {<<>>, <<Handshake>>}
    BY <2>4, <2>5
  <2>7. Scheduled'
    BY <2>4, <2>5 DEF Scheduled
  <2>8. SendersLeave
    BY DEF SendersStay, SendersLeave, Threads
  <2> QED
    BY <2>6, <2>7, <2>8, Ends
<1> QED
  BY <1>1, <1>2

\* C_stop, with or without a direct sender in its sendmsg.
LEMMA CStopStep ==
    ASSUME IInv, C_stop
    PROVE  IInv'
<1>1. con' = _stop(con) /\ UNCHANGED <<pc, io>> /\ ~Sends(Ev)
  BY DEF C_stop, Sends
<1>2. SendersStay
  BY <1>1, AllStay
<1>3. Same(con, con)
  BY AlwaysSound, SameSelf
<1> QED
  BY <1>1, <1>2, <1>3, StopsStep

\* The event thread stops a connection it has given up.
LEMMA StopNowStep ==
    ASSUME IInv, stop_now
    PROVE  IInv'
<1>1. con' = _stop(con) /\ Leaves(Ev, "idle") /\ ~Sends(Ev)
  BY DEF stop_now, Sends, Leaves, Goto
<1>2. SendersStay
  BY <1>1, OthersStay, PriorityQueue
<1>3. Same(con, con)
  BY AlwaysSound, SameSelf
<1> QED
  BY <1>1, <1>2, <1>3, StopsStep

\* mark_disposable, which stops a connection that stands by.
LEMMA MarkDisposableStep ==
    ASSUME IInv, NEW a \in Apps, mark_disposable(a)
    PROVE  IInv'
<1>1. PICK k : k = [con EXCEPT !.lossy = TRUE]
  OBVIOUS
<1>2. /\ UNCHANGED <<pc, io>>
      /\ con' = k \/ (con.state = "STANDBY" /\ con' = _stop(k))
  BY <1>1 DEF mark_disposable
<1>3. SendersStay /\ (pc'[Ev] = "stop" \/ pc[Ev] # "stop")
  BY <1>2, AllStay
<1>4. Flagged(con, k) /\ con \in ConStates
  BY <1>1, AlwaysSound DEF Flagged
<1>5. CASE con' = k
  BY <1>3, <1>4, <1>5, FlagStep
<1>6. CASE con.state = "STANDBY" /\ con' = _stop(k)
  <2>1. Same(con, k) /\ k.state = con.state
    BY <1>1, <1>4, FlagFields DEF ConStates
  <2>2. ~Sends(Ev)
    BY <1>6 DEF IInv, EventSend, OpenStates
  <2> QED
    BY <1>3, <1>6, <2>1, <2>2, StopsStep
<1> QED
  BY <1>2, <1>5, <1>6

\* The socket breaks; its writers learn it from sendmsg.
LEMMA BreakStep ==
    ASSUME IInv, Break
    PROVE  IInv'
<1>1. con' = [con EXCEPT !.sock = "broken"] /\ UNCHANGED <<pc, io>> /\ con.sock = "up"
  BY DEF Break
<1>2. PICK c : c = con /\ c \in ConStates
  BY AlwaysSound
<1>3. PICK d : d = [c EXCEPT !.sock = "broken"]
  OBVIOUS
<1>4. /\ d \in ConStates /\ SameMsgs(c, d) /\ d.wire = c.wire /\ d.outcoming_bl = c.outcoming_bl
      /\ d.state = c.state /\ d.state_after_send = c.state_after_send /\ d.sock = "broken"
      /\ d.sending = c.sending /\ d.late = c.late /\ d.ev_write = c.ev_write
  <2>1. c \in ConStates
    BY <1>2
  <2>2. d \in ConStates
    BY <1>3, <2>1 DEF ConStates
  <2>3. /\ SameMsgs(c, d) /\ d.wire = c.wire /\ d.outcoming_bl = c.outcoming_bl
        /\ d.state = c.state /\ d.state_after_send = c.state_after_send /\ d.sock = "broken"
        /\ d.sending = c.sending /\ d.late = c.late /\ d.ev_write = c.ev_write
    BY <1>3, <2>1 DEF ConStates, SameMsgs
  <2> QED
    BY <2>2, <2>3
<1>5. con' = d
  BY <1>1, <1>2, <1>3
<1>6. \A r : Sound(con, r) => Sound(con', r)
  <2>1. SUFFICES ASSUME NEW r, Sound(c, r) PROVE Sound(d, r)
    BY <1>2, <1>5
  <2>2. r \in Seq(Pieces) /\ MsgsOK(c.prio, c.out_q, c.sent, c.settled, c.dropped)
    BY <2>1 DEF Sound
  <2>3. MsgsOK(d.prio, d.out_q, d.sent, d.settled, d.dropped)
    BY <1>4, <2>2 DEF SameMsgs
  <2>4. /\ d.sock # "up" /\ d.wire = c.wire /\ d.prio = c.prio
        /\ c.settled \subseteq d.settled /\ c.dropped \subseteq d.dropped
    BY <1>4 DEF SameMsgs
  <2> QED
    BY <1>4, <2>1, <2>2, <2>3, <2>4, SocketDown
<1>7. SendersStay
  BY <1>1, AllStay
<1>8. Scheduled'
  BY <1>1, <1>2, <1>4, <1>5 DEF IInv, Scheduled, SameMsgs
<1>9. LinkOK(con')
  BY <1>1, <1>2, <1>4, <1>5 DEF IInv, LinkOK, SameMsgs
<1>10. /\ con'.outcoming_bl = con.outcoming_bl /\ con'.sending = con.sending
       /\ con'.sock = "up" => con.sock = "up"
       /\ con.state \in OpenStates => con'.state \in OpenStates
       /\ con.state = "WAIT_SEND" /\ Sends(Ev) => con'.state = "WAIT_SEND"
       /\ con'.late = con.late /\ \A m \in Nat : InQ(con'.out_q, m) => InQ(con.out_q, m)
  BY <1>1, <1>2, <1>4, <1>5 DEF SameMsgs
<1> QED
  BY <1>6, <1>7, <1>8, <1>9, <1>10, Frame

-----------------------------------------------------------------------------
(***************************************************************************)
(* The event thread reads and connects.                                    *)
(***************************************************************************)
\* process() in an open state: kick_write schedules what is left.
LEMMA ProcessedStep ==
    ASSUME IInv, UNCHANGED <<pc, io>>, NEW k \in ConStates, con' = kick_write(k),
           k.state \in OpenStates, LinkOK(k), k.outcoming_bl = con.outcoming_bl,
           k.sending = con.sending, k.sock = con.sock, k.late = con.late,
           con.state # "WAIT_SEND", \A r : Sound(con, r) => Sound(k, r),
           \/ \A m \in Nat : InQ(k.out_q, m) => InQ(con.out_q, m)
           \/ NoDirect
    PROVE  IInv'
<1>1. PICK l : l = kick_write(k)
  OBVIOUS
<1>2. con' = l
  BY <1>1
<1>3. /\ Quiet(k, l) /\ l.sending = k.sending /\ l.late = k.late
      /\ ( /\ k.sock # "none" /\ k.state \in OpenStates
           /\ Queued(k) # {} \/ k.outcoming_bl # <<>> ) => l.ev_write
  BY <1>1, KickWrite
<1>4. k.sock # "none"
  BY DEF LinkOK, OpenStates
<1>5. l.out_q = k.out_q /\ l.outcoming_bl = k.outcoming_bl /\ l.state = k.state /\ l.sock = k.sock
  BY <1>3 DEF Quiet, SameMsgs, SameLink
<1>6. (\E m \in Nat : InQ(k.out_q, m)) => Queued(k) # {}
  BY Fields, QueuedIn
<1>7. Scheduled'
  BY <1>2, <1>3, <1>4, <1>5, <1>6 DEF Scheduled
<1>8. LinkOK(con') /\ \A r : Sound(con, r) => Sound(con', r)
  BY <1>2, <1>3, QuietKeeps
<1>9. /\ con'.outcoming_bl = con.outcoming_bl /\ con'.sending = con.sending
      /\ con'.sock = "up" => con.sock = "up"
      /\ con.state \in OpenStates => con'.state \in OpenStates
      /\ con.state = "WAIT_SEND" /\ Sends(Ev) => con'.state = "WAIT_SEND"
      /\ \/ con'.late = con.late /\ \A m \in Nat : InQ(con'.out_q, m) => InQ(con.out_q, m)
         \/ NoDirect
  BY <1>2, <1>3, <1>5
<1>10. SendersStay
  BY AllStay
<1> QED
  BY <1>7, <1>8, <1>9, <1>10, Frame

\* It moves between open states, or changes a flag.
LEMMA ProcessedSame ==
    ASSUME IInv, UNCHANGED <<pc, io>>, NEW k, Same(con, k), con' = kick_write(k),
           con.state \in OpenStates
    PROVE  IInv'
<1>1. k \in ConStates /\ k.state \in OpenStates
  BY DEF Same
<1>2. LinkOK(k)
  BY DEF IInv, LinkOK, Same, SameMsgs, OpenStates
<1>3. \A r : Sound(con, r) => Sound(k, r)
  BY SameSound DEF Same
<1>4. /\ k.outcoming_bl = con.outcoming_bl /\ k.sending = con.sending
      /\ k.sock = con.sock /\ k.late = con.late /\ con.state # "WAIT_SEND"
      /\ \A m \in Nat : InQ(k.out_q, m) => InQ(con.out_q, m)
  BY DEF Same, SameMsgs, OpenStates
<1> QED
  BY <1>1, <1>2, <1>3, <1>4, ProcessedStep

\* The header of a message is read.
LEMMA RecvHeaderStep ==
    ASSUME IInv, RecvHeader
    PROVE  IInv'
<1>1. PICK k : k = StateCon(con, "READ_DATA")
  OBVIOUS
<1>2. con' = kick_write(k) /\ UNCHANGED <<pc, io>> /\ con.state = "OPEN"
  BY <1>1 DEF RecvHeader, Processed, Readable, StateCon
<1>3. con \in ConStates
  BY AlwaysSound
<1>4. /\ k \in ConStates /\ SameMsgs(con, k) /\ k.sock = con.sock /\ k.wire = con.wire
      /\ k.outcoming_bl = con.outcoming_bl /\ k.sending = con.sending /\ k.late = con.late
      /\ k.state = "READ_DATA"
  BY <1>1, <1>3, StateFields
<1>5. Same(con, k) /\ con.state \in OpenStates
  BY <1>2, <1>4 DEF Same, OpenStates
<1> QED
  BY <1>2, <1>5, ProcessedSame

\* A message was read: an acknowledgement is due.
ReadCon(c) == [c EXCEPT !.state = "OPEN", !.ack_due = TRUE]

\* The rest of it is read.
LEMMA RecvDataStep ==
    ASSUME IInv, RecvData
    PROVE  IInv'
<1>1. PICK c : c = con /\ c \in ConStates
  BY AlwaysSound
<1>2. PICK d : d = ReadCon(c)
  OBVIOUS
<1>3. /\ d \in ConStates /\ SameMsgs(c, d) /\ d.sock = c.sock /\ d.wire = c.wire
      /\ d.outcoming_bl = c.outcoming_bl /\ d.sending = c.sending /\ d.late = c.late
      /\ d.state = "OPEN"
  <2>1. PICK e : e = StateCon(c, "OPEN")
    OBVIOUS
  <2>2. /\ e \in ConStates /\ SameMsgs(c, e) /\ e.sock = c.sock /\ e.wire = c.wire
        /\ e.outcoming_bl = c.outcoming_bl /\ e.sending = c.sending /\ e.late = c.late
        /\ e.state = "OPEN"
    BY <1>1, <2>1, StateFields
  <2>3. d = [e EXCEPT !.ack_due = TRUE]
    BY <1>1, <1>2, <2>1 DEF ReadCon, StateCon
  <2>4. d \in ConStates
    BY <2>2, <2>3 DEF ConStates
  <2>5. /\ SameMsgs(e, d) /\ d.sock = e.sock /\ d.wire = e.wire
        /\ d.outcoming_bl = e.outcoming_bl /\ d.sending = e.sending /\ d.late = e.late
        /\ d.state = e.state
    BY <2>2, <2>3 DEF ConStates, SameMsgs
  <2> QED
    BY <2>2, <2>4, <2>5 DEF SameMsgs
<1>4. PICK k : k = start_write(d)
  OBVIOUS
<1>5. con' = kick_write(k) /\ UNCHANGED <<pc, io>> /\ c.state = "READ_DATA"
  BY <1>1, <1>2, <1>4 DEF RecvData, Processed, Readable, ReadCon
<1>6. Quiet(d, k) /\ k.sending = d.sending /\ k.late = d.late
  BY <1>3, <1>4, StartWrite
<1>7. Same(c, d)
  BY <1>3, <1>5 DEF Same, OpenStates
<1>8. Same(con, k) /\ con.state \in OpenStates
  BY <1>1, <1>5, <1>6, <1>7, SameQuiet DEF OpenStates
<1> QED
  BY <1>5, <1>8, ProcessedSame

\* A probe is read.
LEMMA RecvKeepaliveStep ==
    ASSUME IInv, RecvKeepalive
    PROVE  IInv'
<1>1. PICK k : k = [con EXCEPT !.keepalive_ack = TRUE]
  OBVIOUS
<1>2. con' = kick_write(k) /\ UNCHANGED <<pc, io>> /\ con.state = "OPEN"
  BY <1>1 DEF RecvKeepalive, Processed, Readable
<1>3. con \in ConStates /\ Flagged(con, k)
  BY <1>1, AlwaysSound DEF Flagged
<1>4. Same(con, k)
  BY <1>3, FlagFields
<1> QED
  BY <1>2, <1>4, ProcessedSame DEF OpenStates

\* An acknowledgement is read.
LEMMA HandleAckStep ==
    ASSUME IInv, handle_ack
    PROVE  IInv'
<1>1. PICK n \in 1..Len(con.sent) :
         Processed([con EXCEPT !.sent = SubSeq(@, n + 1, Len(@)),
                               !.settled = @ \cup ToSet(SubSeq(con.sent, 1, n))])
  BY Zenon DEF handle_ack
<1>2. PICK k : k = Acked(con, n)
  OBVIOUS
<1>3. con' = kick_write(k) /\ UNCHANGED <<pc, io>>
  BY <1>1, <1>2 DEF Acked, Processed
<1>4. con \in ConStates /\ con.state = "OPEN"
  BY AlwaysSound DEF handle_ack, Readable
<1>5. /\ k \in ConStates /\ SameLink(con, k) /\ k.out_q = con.out_q
      /\ k.outcoming_bl = con.outcoming_bl
      /\ k.sending = con.sending /\ k.late = con.late
      /\ \A r : Sound(con, r) => Sound(k, r)
  BY <1>2, <1>4, AckRecord
<1>6. k.state = "OPEN" /\ k.sock = con.sock
  BY <1>4, <1>5 DEF SameLink
<1>7. LinkOK(k) /\ k.state \in OpenStates /\ con.state # "WAIT_SEND"
  BY <1>4, <1>5, <1>6 DEF IInv, LinkOK, OpenStates
<1>8. \A m \in Nat : InQ(k.out_q, m) => InQ(con.out_q, m)
  BY <1>5
<1> QED
  BY <1>3, <1>5, <1>6, <1>7, <1>8, ProcessedStep

\* The peer's part of the handshake is read, and the connection opens.
LEMMA RecvReplyStep ==
    ASSUME IInv, RecvReply
    PROVE  IInv'
<1>1. PICK k \in Opened(con) : Processed(k)
  BY DEF RecvReply
<1>2. con' = kick_write(k) /\ UNCHANGED <<pc, io>>
  BY <1>1 DEF Processed
<1>3. con \in ConStates /\ con.state \in {"WAIT_REPLY", "ACCEPTING"} /\ con.sock = "up"
  BY AlwaysSound DEF RecvReply, Readable
<1>4. /\ k \in ConStates /\ k.state = "OPEN" /\ k.sock = con.sock
      /\ k.outcoming_bl = con.outcoming_bl
      /\ k.sending = con.sending /\ k.late = con.late
      /\ \A r : Sound(con, r) => Sound(k, r)
  BY <1>1, <1>3, OpenedRecord
<1>5. con.outcoming_bl = <<>>
  BY <1>3 DEF IInv, LinkOK, OpenStates
<1>6. LinkOK(k) /\ k.state \in OpenStates /\ con.state # "WAIT_SEND"
  BY <1>3, <1>4 DEF LinkOK, OpenStates
<1>7. NoDirect
  <2>1. ASSUME NEW a \in Apps PROVE ~Writing(a)
    BY <1>5, NotCleared DEF Writing
  <2> QED
    BY <2>1 DEF NoDirect
<1> QED
  BY <1>2, <1>4, <1>6, <1>7, ProcessedStep

\* A new socket is connected, and our part of the handshake goes first.
LEMMA ConnectStep ==
    ASSUME IInv, Connect
    PROVE  IInv'
<1>1. PICK c : c = con /\ c \in ConStates
  BY AlwaysSound
<1>2. PICK j : j = [c EXCEPT !.sock = "up", !.wire = <<>>]
  OBVIOUS
<1>3. PICK k \in SendHandshake(j, "WAIT_REPLY") : con' = kick_write(k)
  BY <1>1, <1>2 DEF Connect
<1>4. UNCHANGED <<pc, io>> /\ c.state = "CONNECTING" /\ pc[Ev] = "idle"
  BY <1>1 DEF Connect, EvIdle
<1>5. c.sent = <<>> /\ c.outcoming_bl = <<>>
  BY <1>1, <1>4 DEF IInv, LinkOK, OpenStates
<1>6. /\ j \in ConStates /\ SameMsgs(c, j) /\ j.sock = "up" /\ j.wire = <<>>
      /\ j.outcoming_bl = c.outcoming_bl /\ j.sending = c.sending
  <2>1. <<>> \in Seq(Pieces) /\ c \in ConStates
    BY <1>1
  <2>2. j \in ConStates
    BY <1>2, <2>1 DEF ConStates
  <2>3. /\ SameMsgs(c, j) /\ j.sock = "up" /\ j.wire = <<>>
        /\ j.outcoming_bl = c.outcoming_bl /\ j.sending = c.sending
    BY <1>2, <2>1 DEF ConStates, SameMsgs
  <2> QED
    BY <2>2, <2>3
<1>7. MsgsOK(j.prio, j.out_q, j.sent, j.settled, j.dropped)
  <2>1. PICK r : Sound(con, r)
    BY AlwaysSound
  <2>2. MsgsOK(c.prio, c.out_q, c.sent, c.settled, c.dropped)
    BY <1>1, <2>1 DEF Sound
  <2> QED
    BY <1>6, <2>2 DEF SameMsgs
<1>8. j.sent = <<>> /\ j.outcoming_bl = <<>>
  BY <1>5, <1>6 DEF SameMsgs
<1>9. /\ Sound(k, k.outcoming_bl) /\ LinkOK(k) /\ k.sending = j.sending
      /\ k.outcoming_bl \in {<<>>, <<Handshake>>}
      /\ k.state \in {"WAIT_SEND", "WAIT_REPLY", "ACCEPTING"}
  BY <1>3, <1>6, <1>7, <1>8, HandshakeRecord
<1>10. PICK l : l = kick_write(k)
  OBVIOUS
<1>11. Quiet(k, l) /\ l.sending = k.sending
  BY <1>9, <1>10, KickWrite DEF Sound
<1>12. Sound(l, k.outcoming_bl) /\ LinkOK(l)
  BY <1>9, <1>11, QuietKeeps
<1>13. l.outcoming_bl = k.outcoming_bl /\ l.state = k.state
  BY <1>11 DEF Quiet, SameLink
<1>14. con' = l
  BY <1>3, <1>10
<1>15. /\ LinkOK(con') /\ Sound(con', con'.outcoming_bl)
       /\ con'.sending = con.sending /\ con'.outcoming_bl \in {<<>>, <<Handshake>>}
  BY <1>1, <1>6, <1>9, <1>11, <1>12, <1>13, <1>14
<1>16. Scheduled'
  BY <1>9, <1>13, <1>14 DEF Scheduled
<1>17. SendersLeave
  <2>1. SendersStay
    BY <1>4, AllStay
  <2>2. ~Sends(Ev)
    BY <1>4 DEF Sends
  <2> QED
    BY <2>1, <2>2 DEF SendersStay, SendersLeave, Threads
<1> QED
  BY <1>15, <1>16, <1>17, Ends

-----------------------------------------------------------------------------
(***************************************************************************)
(* The event thread gives up a socket.                                     *)
(***************************************************************************)
\* The event thread leaves the connection as l: nobody else was sending, or who
\* was finds the output buffer cleared.
LEMMA EventEnds ==
    ASSUME IInv, NEW where \in {"idle", "wait_sending", "stop"}, Leaves(Ev, where),
           NEW l, con' = l,
           Sound(l, l.outcoming_bl), LinkOK(l),
           where = "stop" \/ l.state \notin {"OPEN", "READ_DATA"},
           \/ \A a \in Apps : ~Sends(a)
           \/ l.sending = con.sending /\ l.outcoming_bl \in {<<>>, <<Handshake>>}
    PROVE  IInv'
<1>1. /\ SendersLeave /\ pc'[Ev] = where
      /\ \A u \in Threads : Sends(u)' => Sends(u)
  BY OthersLeave, PriorityQueue
<1>2. Scheduled'
  BY <1>1 DEF Scheduled
<1>3. \/ \A a \in Apps : ~Sends(a)'
      \/ con'.sending = con.sending /\ con'.outcoming_bl \in {<<>>, <<Handshake>>}
  BY <1>1, PriorityQueue
<1>4. LinkOK(con') /\ Sound(con', con'.outcoming_bl)
  OBVIOUS
<1> QED
  BY <1>1, <1>2, <1>3, <1>4, Ends

\* fault: the socket is closed, or the connection is given up and will be stopped.
LEMMA FaultEnds ==
    ASSUME IInv, NEW k, Fault(k), Sound(k, k.outcoming_bl), LinkOK(k),
           \/ \A a \in Apps : ~Sends(a)
           \/ k.sending = con.sending /\ k.outcoming_bl \in {<<>>, <<Handshake>>}
    PROVE  IInv'
<1>1. CASE GivesUp(k)
  <2>1. con' = k /\ Leaves(Ev, "stop")
    BY <1>1 DEF Fault, Leaves, Goto
  <2> QED
    BY <2>1, EventEnds
<1>2. CASE ~GivesUp(k)
  <2>1. PICK l : l = fault(k)
    OBVIOUS
  <2>2. con' = l /\ Leaves(Ev, "idle")
    BY <1>2, <2>1 DEF Fault, Return, Leaves, Goto
  <2>3. /\ Sound(l, <<>>) /\ LinkOK(l) /\ l.state \in {"STANDBY", "CONNECTING"}
        /\ l.outcoming_bl = <<>> /\ l.sending = k.sending
    BY <2>1, FaultRecord
  <2>4. /\ Sound(l, l.outcoming_bl) /\ l.state \notin {"OPEN", "READ_DATA"}
        /\ \/ \A a \in Apps : ~Sends(a)
           \/ l.sending = con.sending /\ l.outcoming_bl \in {<<>>, <<Handshake>>}
    BY <2>3
  <2> QED
    BY <2>2, <2>3, <2>4, EventEnds
<1> QED
  BY <1>1, <1>2

\* do_replace: the socket of the peer's next attempt takes the place of the old one.
LEMMA ReplaceEnds ==
    ASSUME IInv, NEW k, NEW r, Sound(k, r), do_replace(k),
           (\A a \in Apps : ~Sends(a)) \/ k.sending = con.sending
    PROVE  IInv'
<1>1. PICK reset, j :
         /\ reset \in BOOLEAN /\ j = Replaced(k, reset)
         /\ \/ \E s \in SendHandshake(j, "ACCEPTING") : Return(Ev, s)
            \/ Fault([j EXCEPT !.replacing = 0])
  BY DEF do_replace
<1>2. /\ j \in ConStates /\ MsgsOK(j.prio, j.out_q, j.sent, j.settled, j.dropped)
      /\ j.sock = "up" /\ j.sent = <<>> /\ j.wire = <<>> /\ j.outcoming_bl = <<>>
      /\ j.state = "ACCEPTING" /\ j.sending = k.sending
  BY <1>1, ReplacedRecord
<1>3. ASSUME NEW l \in SendHandshake(j, "ACCEPTING"), Return(Ev, l) PROVE IInv'
  <2>1. /\ Sound(l, l.outcoming_bl) /\ LinkOK(l) /\ l.sending = j.sending
        /\ l.outcoming_bl \in {<<>>, <<Handshake>>}
        /\ l.state \in {"WAIT_SEND", "WAIT_REPLY", "ACCEPTING"}
    BY <1>2, <1>3, HandshakeRecord
  <2>2. con' = l /\ Leaves(Ev, "idle")
    BY <1>3 DEF Return, Leaves, Goto
  <2>3. /\ l.state \notin {"OPEN", "READ_DATA"}
        /\ (\A a \in Apps : ~Sends(a)) \/ l.sending = con.sending
    BY <1>2, <2>1
  <2> QED
    BY <2>1, <2>2, <2>3, EventEnds
<1>4. CASE Fault([j EXCEPT !.replacing = 0])
  <2>1. PICK l : l = [j EXCEPT !.replacing = 0]
    OBVIOUS
  <2>2. l \in ConStates
    BY <1>2, <2>1 DEF ConStates
  <2>3. /\ SameMsgs(j, l) /\ l.sock = j.sock /\ l.wire = j.wire
        /\ l.outcoming_bl = j.outcoming_bl /\ l.state = j.state /\ l.sending = j.sending
    BY <1>2, <2>1 DEF ConStates, SameMsgs
  <2>4. /\ MsgsOK(l.prio, l.out_q, l.sent, l.settled, l.dropped) /\ l.sent = <<>>
        /\ l.sock = "up" /\ l.wire = <<>> /\ l.outcoming_bl = <<>> /\ l.state = "ACCEPTING"
    BY <1>2, <2>3 DEF SameMsgs
  <2>5. <<>> \in Seq(Pieces) /\ l.wire \o <<>> \in {<<>>, <<Handshake>>}
    BY <2>4
  <2>6. Sound(l, <<>>)
    BY <2>2, <2>4, <2>5, SocketUp
  <2>7. Sound(l, l.outcoming_bl) /\ LinkOK(l)
    BY <2>4, <2>6 DEF LinkOK, OpenStates
  <2>8. \/ \A a \in Apps : ~Sends(a)
        \/ l.sending = con.sending /\ l.outcoming_bl \in {<<>>, <<Handshake>>}
    BY <1>2, <2>3, <2>4
  <2>9. Fault(l)
    BY <1>4, <2>1
  <2> QED
    BY <2>7, <2>8, <2>9, FaultEnds
<1> QED
  BY <1>1, <1>3, <1>4

\* fault or do_replace, when nobody else is sending.
LEMMA FaultOrReplaceEnds ==
    ASSUME IInv, NEW k, FaultOrReplace(k), Sound(k, k.outcoming_bl), LinkOK(k),
           \A a \in Apps : ~Sends(a)
    PROVE  IInv'
<1>1. CASE k.replacing = 1
  <2>1. do_replace(k)
    BY <1>1 DEF FaultOrReplace
  <2> QED
    BY <2>1, ReplaceEnds
<1>2. CASE k.replacing # 1
  <2>1. Fault(k)
    BY <1>2 DEF FaultOrReplace
  <2> QED
    BY <2>1, FaultEnds
<1> QED
  BY <1>1, <1>2

\* do_replace while a direct sender may be in its sendmsg: it finds the output
\* buffer cleared.
LEMMA HandleReplaceStep ==
    ASSUME IInv, handle_replace
    PROVE  IInv'
<1>1. do_replace(con)
  BY DEF handle_replace
<1>2. PICK r : Sound(con, r)
  BY AlwaysSound
<1> QED
  BY <1>1, <1>2, ReplaceEnds

\* The sender says that it is done.
Unsent(c) == [c EXCEPT !.sending = FALSE]

\* Clearing `sending` changes nothing else.
LEMMA UnsentFields ==
    ASSUME NEW c \in ConStates, NEW d, d = Unsent(c)
    PROVE  Quiet(c, d) /\ d.sending = FALSE /\ d.late = c.late /\ d.ev_write = c.ev_write
<1>1. d \in ConStates
  BY DEF ConStates, Unsent
<1>2. SameMsgs(c, d) /\ SameLink(c, d) /\ d.wire = c.wire /\ d.outcoming_bl = c.outcoming_bl
  BY DEF ConStates, Unsent, SameMsgs, SameLink
<1>3. d.sending = FALSE /\ d.late = c.late /\ d.ev_write = c.ev_write
  BY DEF ConStates, Unsent
<1> QED
  BY <1>1, <1>2, <1>3 DEF Quiet

\* A failed send of the event thread: the socket is down, and nobody else sends.
LEMMA SendFailedStep ==
    ASSUME IInv, send_failed
    PROVE  IInv'
<1>1. PICK k : k = Unsent(con)
  OBVIOUS
<1>2. pc[Ev] = "failed" /\ FaultOrReplace(k)
  BY <1>1 DEF send_failed, Unsent
<1>3. Writing(Ev) /\ Ev \in Threads /\ Sends(Ev)
  BY <1>2, PriorityQueue DEF IInv, EventSend, Sends
<1>4. con.sock # "up" /\ Sound(con, io[Ev].todo) /\ con \in ConStates
  BY <1>2, <1>3, AlwaysSound DEF IInv, Failed, Stream
<1>5. Sound(con, con.outcoming_bl)
  BY <1>4, Fields, DownSound
<1>6. Quiet(con, k)
  BY <1>1, <1>4, UnsentFields
<1>7. k.outcoming_bl = con.outcoming_bl
  BY <1>6 DEF Quiet
<1>8. Sound(k, k.outcoming_bl) /\ LinkOK(k)
  BY <1>5, <1>6, <1>7, QuietKeeps DEF IInv
<1>9. \A a \in Apps : ~Sends(a)
  BY <1>3, PriorityQueue DEF IInv, OneSender
<1> QED
  BY <1>2, <1>8, <1>9, FaultOrReplaceEnds

\* Such a change keeps the connection sound, and its link.
LEMMA SameKeeps ==
    ASSUME NEW k, NEW l, Same(k, l)
    PROVE  (LinkOK(k) => LinkOK(l)) /\ \A r : Sound(k, r) => Sound(l, r)
<1>1. LinkOK(k) => LinkOK(l)
  BY DEF LinkOK, Same, SameMsgs, OpenStates
<1>2. \A r : Sound(k, r) => Sound(l, r)
  BY SameSound DEF Same
<1> QED
  BY <1>1, <1>2

\* A failed read or TAG_CLOSE, when nobody sends.
LEMMA EndProcessEnds ==
    ASSUME IInv, ~con.sending, NEW k, Same(con, k), EndProcess(k)
    PROVE  IInv'
<1>1. (\A t \in Threads : ~Sends(t)) /\ Sound(con, con.outcoming_bl)
  BY NobodySends
<1>2. k.outcoming_bl = con.outcoming_bl
  BY DEF Same
<1>3. Sound(k, k.outcoming_bl) /\ LinkOK(k)
  BY <1>1, <1>2, SameKeeps DEF IInv
<1>4. \A a \in Apps : ~Sends(a)
  BY <1>1, PriorityQueue
<1>5. CASE k.state = "TAG_CLOSE" /\ k.replacing # 1
  <2>1. con' = k /\ Leaves(Ev, "stop")
    BY <1>5 DEF EndProcess, Leaves, Goto
  <2> QED
    BY <1>3, <1>4, <2>1, EventEnds
<1>6. CASE ~(k.state = "TAG_CLOSE" /\ k.replacing # 1)
  <2>1. FaultOrReplace(k)
    BY <1>6 DEF EndProcess
  <2> QED
    BY <1>3, <1>4, <2>1, FaultOrReplaceEnds
<1> QED
  BY <1>5, <1>6

\* The event thread waits for a sender, or goes on if there is none.
LEMMA WaitSendingEnds ==
    ASSUME IInv, pc[Ev] \in {"idle", "wait_sending"}, NEW k, Same(con, k),
           k.state = con.state \/ k.state = "TAG_CLOSE", wait_sending(k)
    PROVE  IInv'
<1>1. con \in ConStates /\ k \in ConStates /\ k.sending = con.sending
  BY AlwaysSound DEF Same
<1>2. CASE k.sending
  <2>1. PICK d : d = [k EXCEPT !.want_send = TRUE]
    OBVIOUS
  <2>2. con' = d /\ Leaves(Ev, "wait_sending")
    BY <1>2, <2>1 DEF wait_sending, Leaves, Goto
  <2>3. Flagged(k, d)
    BY <2>1 DEF Flagged
  <2>4. Same(k, d)
    BY <1>1, <2>3, FlagFields
  <2>5. d.state = k.state /\ d.state_after_send = k.state_after_send
    BY <1>1, <2>1 DEF ConStates
  <2>6. Same(con, d)
    BY <2>4, <2>5 DEF Same, SameMsgs
  <2>7. d.sending
    BY <1>2, <2>4 DEF Same
  <2>8. ~Sends(Ev)
    BY DEF Sends
  <2>9. SendersStay
    BY <2>2, <2>8, OthersStay, PriorityQueue
  <2>10. Same(con, con') /\ con'.sending /\ pc[Ev] # "stop"
    BY <2>2, <2>6, <2>7
  <2>11. con'.state \in {"OPEN", "READ_DATA"} => con.state \in {"OPEN", "READ_DATA"}
    BY <2>2, <2>5
  <2> QED
    BY <2>9, <2>10, <2>11, SameStep
<1>3. CASE ~k.sending
  <2>1. EndProcess(k)
    BY <1>3 DEF wait_sending
  <2> QED
    BY <1>1, <1>3, <2>1, EndProcessEnds
<1> QED
  BY <1>2, <1>3

\* TAG_CLOSE is read.
LEMMA RecvCloseStep ==
    ASSUME IInv, RecvClose
    PROVE  IInv'
<1>1. PICK k : k = StateCon(con, "TAG_CLOSE")
  OBVIOUS
<1>2. wait_sending(k) /\ con.state = "OPEN" /\ pc[Ev] = "idle"
  BY <1>1 DEF RecvClose, Readable, EvIdle, StateCon
<1>3. con \in ConStates
  BY AlwaysSound
<1>4. /\ k \in ConStates /\ SameMsgs(con, k) /\ k.sock = con.sock /\ k.wire = con.wire
      /\ k.outcoming_bl = con.outcoming_bl /\ k.sending = con.sending /\ k.late = con.late
      /\ k.state = "TAG_CLOSE"
  BY <1>1, <1>3, StateFields
<1>5. Same(con, k)
  BY <1>2, <1>4 DEF Same, OpenStates
<1> QED
  BY <1>2, <1>4, <1>5, WaitSendingEnds

\* A read fails.
LEMMA ReadErrorStep ==
    ASSUME IInv, ReadError
    PROVE  IInv'
<1>1. wait_sending(con) /\ pc[Ev] = "idle"
  BY DEF ReadError, EvIdle
<1>2. Same(con, con)
  BY AlwaysSound, SameSelf
<1> QED
  BY <1>1, <1>2, WaitSendingEnds

\* The event thread wakes, and waits again or goes on.
LEMMA SendingWokenStep ==
    ASSUME IInv, sending_woken
    PROVE  IInv'
<1>1. wait_sending(con) /\ pc[Ev] = "wait_sending"
  BY DEF sending_woken, wait_sending
<1>2. Same(con, con)
  BY AlwaysSound, SameSelf
<1> QED
  BY <1>1, <1>2, WaitSendingEnds

-----------------------------------------------------------------------------
(***************************************************************************)
(* The event thread writes.                                                *)
(***************************************************************************)
\* The end of handle_write.
LEMMA FinishEnds ==
    ASSUME IInv, NEW k, FinishWrite(k), Sound(k, k.outcoming_bl), LinkOK(k),
           \A a \in Apps : ~Sends(a)
    PROVE  IInv'
<1>1. PICK l : l = kick_write([set_action(k) EXCEPT !.sending = FALSE])
  OBVIOUS
<1>2. con' = l /\ Leaves(Ev, "idle")
  BY <1>1 DEF FinishWrite, Return, Leaves, Goto
<1>3. k \in ConStates
  BY DEF Sound
<1>4. /\ Quiet(k, l) /\ l.sending = FALSE /\ l.late = k.late
      /\ ( /\ k.sock # "none" /\ k.state \in OpenStates
           /\ Queued(k) # {} \/ k.outcoming_bl # <<>> ) => l.ev_write
  BY <1>1, <1>3, Finish
<1>5. l.out_q = k.out_q /\ l.outcoming_bl = k.outcoming_bl /\ l.state = k.state
  BY <1>4 DEF Quiet, SameMsgs, SameLink
<1>6. (\E m \in Nat : InQ(k.out_q, m)) => Queued(k) # {}
  BY <1>3, Fields, QueuedIn
<1>7. Scheduled'
  <2>1. k.state \in {"OPEN", "READ_DATA"} => k.sock # "none" /\ k.state \in OpenStates
    BY DEF LinkOK, OpenStates
  <2> QED
    BY <1>2, <1>4, <1>5, <1>6, <2>1 DEF Scheduled
<1>8. LinkOK(con') /\ Sound(con', con'.outcoming_bl)
  BY <1>2, <1>4, <1>5, QuietKeeps
<1>9. SendersLeave /\ \A u \in Threads : Sends(u)' => Sends(u)
  BY <1>2, OthersLeave, PriorityQueue
<1>10. \A a \in Apps : ~Sends(a)'
  BY <1>9, PriorityQueue
<1> QED
  BY <1>7, <1>8, <1>9, <1>10, Ends

\* The connection with another output buffer, and with an acknowledgement in it.
AckCon(c, b) == [c EXCEPT !.ack_due = FALSE, !.outcoming_bl = b]

\* The acknowledgement changes the buffer and its flag only.
LEMMA AckFields ==
    ASSUME NEW c \in ConStates, NEW b \in Seq(Pieces), NEW d, d = AckCon(c, b)
    PROVE  /\ d \in ConStates /\ SameMsgs(c, d) /\ SameLink(c, d) /\ d.wire = c.wire
           /\ d.outcoming_bl = b /\ d.sending = c.sending /\ d.late = c.late
<1>1. d \in ConStates
  <2>1. PICK e : e = [c EXCEPT !.ack_due = FALSE]
    OBVIOUS
  <2>2. e \in ConStates
    BY <2>1 DEF ConStates
  <2>3. d = [e EXCEPT !.outcoming_bl = b]
    BY <2>1 DEF AckCon
  <2> QED
    BY <2>2, <2>3, ZenonT(40) DEF ConStates
<1>2. /\ SameMsgs(c, d) /\ SameLink(c, d) /\ d.wire = c.wire
      /\ d.outcoming_bl = b /\ d.sending = c.sending /\ d.late = c.late
  BY DEF ConStates, AckCon, SameMsgs, SameLink
<1> QED
  BY <1>1, <1>2

\* Only the messages, the link and the bytes matter in an open state.
LEMMA OpenLink ==
    ASSUME NEW k, NEW l, LinkOK(k), k.state \in OpenStates, SameLink(k, l)
    PROVE  LinkOK(l) /\ l.state \in OpenStates
  BY DEF LinkOK, SameLink, OpenStates

\* The last part of handle_write.
LEMMA RestEnds ==
    ASSUME IInv, NEW k, WriteRest(k), Sound(k, k.outcoming_bl), LinkOK(k),
           k.sending, k.state \in OpenStates, \A a \in Apps : ~Sends(a)
    PROVE  IInv'
<1>1. PICK b : b = Append(k.outcoming_bl, Ack)
  OBVIOUS
<1>2. k \in ConStates
  BY DEF Sound
<1>3. PICK q : /\ q = IF k.ack_due THEN AckCon(k, b) ELSE k
               /\ IF q.outcoming_bl = <<>> THEN FinishWrite(q) ELSE ReleaseToSend(Ev, q, "rest")
  <2>1. PICK q : q = IF k.ack_due
                     THEN [k EXCEPT !.ack_due = FALSE, !.outcoming_bl = Append(@, Ack)]
                     ELSE k
    OBVIOUS
  <2>2. IF q.outcoming_bl = <<>> THEN FinishWrite(q) ELSE ReleaseToSend(Ev, q, "rest")
    BY <2>1, Zenon DEF WriteRest
  <2>3. [k EXCEPT !.ack_due = FALSE, !.outcoming_bl = Append(@, Ack)] = AckCon(k, b)
    BY <1>1, <1>2 DEF AckCon, ConStates
  <2> QED
    BY <2>1, <2>2, <2>3
<1>4. Sound(q, q.outcoming_bl) /\ LinkOK(q) /\ q.sending /\ q.state \in OpenStates
  <2>1. CASE k.ack_due
    <3>1. Sound(k, b)
      BY <1>1, ItemBuffer
    <3>2. b \in Seq(Pieces)
      BY <3>1 DEF Sound
    <3>3. q = AckCon(k, b)
      BY <1>3, <2>1
    <3>4. /\ q \in ConStates /\ SameMsgs(k, q) /\ SameLink(k, q) /\ q.wire = k.wire
          /\ q.outcoming_bl = b /\ q.sending = k.sending
      BY <1>2, <3>2, <3>3, AckFields, ZenonT(40)
    <3>5. q.sock = k.sock
      BY <3>4 DEF SameLink
    <3>6. Sound(q, q.outcoming_bl)
      BY <3>1, <3>4, <3>5, SameSound
    <3>7. LinkOK(q) /\ q.state \in OpenStates
      BY <3>4, OpenLink
    <3> QED
      BY <3>4, <3>6, <3>7
  <2>2. CASE ~k.ack_due
    BY <1>3, <2>2
  <2> QED
    BY <2>1, <2>2
<1>5. CASE q.outcoming_bl = <<>>
  <2>1. FinishWrite(q)
    BY <1>3, <1>5
  <2> QED
    BY <1>4, <2>1, FinishEnds
<1>6. CASE q.outcoming_bl # <<>>
  <2>1. ReleaseToSend(Ev, q, "rest")
    BY <1>3, <1>6
  <2>2. Ev \in Threads /\ \A u \in Threads : u = Ev \/ ~Sends(u)
    BY PriorityQueue DEF Threads
  <2> QED
    BY <1>4, <2>1, <2>2, Release
<1> QED
  BY <1>5, <1>6

\* The loop of handle_write: the next message, or the last part.
LEMMA NextEnds ==
    ASSUME IInv, NEW k, WriteNext(k), Sound(k, k.outcoming_bl), LinkOK(k),
           k.sending, k.state \in OpenStates, \A a \in Apps : ~Sends(a)
    PROVE  IInv'
<1>1. CASE ~k.stopping /\ Queued(k) # {}
  <2>1. PICK l : l = _get_next_outgoing(k)
    OBVIOUS
  <2>2. ReleaseToSend(Ev, l, "messages")
    BY <1>1, <2>1 DEF WriteNext
  <2>3. Sound(l, l.outcoming_bl) /\ SameLink(k, l) /\ l.sending = k.sending
    BY <1>1, <2>1, NextOutgoing
  <2>4. LinkOK(l) /\ l.state \in OpenStates /\ l.sending
    BY <2>3, OpenLink
  <2>5. Ev \in Threads /\ \A u \in Threads : u = Ev \/ ~Sends(u)
    BY PriorityQueue DEF Threads
  <2> QED
    BY <2>2, <2>3, <2>4, <2>5, Release
<1>2. CASE ~(~k.stopping /\ Queued(k) # {})
  <2>1. WriteRest(k)
    BY <1>2 DEF WriteNext
  <2> QED
    BY <2>1, RestEnds
<1> QED
  BY <1>1, <1>2

\* handle_write takes the connection; probes go first.
TakenCon(c) == [c EXCEPT !.sending = TRUE, !.late = FALSE]
DelayedCon(c) == [c EXCEPT !.handle_write_delayed = TRUE, !.ev_write = FALSE]
ProbedCon(c, b) == [c EXCEPT !.outcoming_bl = b, !.keepalive = FALSE, !.keepalive_ack = FALSE]

\* `sending` and `late` change, nothing else.
LEMMA TakenFields ==
    ASSUME NEW c \in ConStates, NEW d, d = TakenCon(c)
    PROVE  Quiet(c, d) /\ d.sending = TRUE
<1>1. PICK e : e = [c EXCEPT !.sending = TRUE]
  OBVIOUS
<1>2. e \in ConStates
  BY <1>1 DEF ConStates
<1>3. d = [e EXCEPT !.late = FALSE]
  BY <1>1 DEF TakenCon
<1>4. d \in ConStates
  BY <1>2, <1>3, ZenonT(40) DEF ConStates
<1>5. SameMsgs(c, d) /\ SameLink(c, d) /\ d.wire = c.wire /\ d.outcoming_bl = c.outcoming_bl
  BY DEF ConStates, TakenCon, SameMsgs, SameLink
<1>6. d.sending = TRUE
  BY DEF ConStates, TakenCon
<1> QED
  BY <1>4, <1>5, <1>6 DEF Quiet

\* handle_write_delayed and ev_write change, nothing else.
LEMMA DelayedFields ==
    ASSUME NEW c \in ConStates, NEW d, d = DelayedCon(c)
    PROVE  Quiet(c, d) /\ d.sending = c.sending /\ d.late = c.late
<1>1. PICK e : e = [c EXCEPT !.handle_write_delayed = TRUE]
  OBVIOUS
<1>2. e \in ConStates
  BY <1>1 DEF ConStates
<1>3. d = [e EXCEPT !.ev_write = FALSE]
  BY <1>1 DEF DelayedCon
<1>4. d \in ConStates
  BY <1>2, <1>3, ZenonT(40) DEF ConStates
<1>5. SameMsgs(c, d) /\ SameLink(c, d) /\ d.wire = c.wire /\ d.outcoming_bl = c.outcoming_bl
  BY DEF ConStates, DelayedCon, SameMsgs, SameLink
<1>6. d.sending = c.sending /\ d.late = c.late
  BY DEF ConStates, DelayedCon
<1> QED
  BY <1>4, <1>5, <1>6 DEF Quiet

\* The buffer and the flags of the probes change, nothing else.
LEMMA ProbedFields ==
    ASSUME NEW c \in ConStates, NEW b \in Seq(Pieces), NEW d, d = ProbedCon(c, b)
    PROVE  /\ d \in ConStates /\ SameMsgs(c, d) /\ SameLink(c, d) /\ d.wire = c.wire
           /\ d.outcoming_bl = b /\ d.sending = c.sending
<1>1. d \in ConStates
  <2>1. PICK e : e = [c EXCEPT !.keepalive = FALSE]
    OBVIOUS
  <2>2. e \in ConStates
    BY <2>1, ZenonT(40) DEF ConStates
  <2>3. PICK f : f = [e EXCEPT !.keepalive_ack = FALSE]
    OBVIOUS
  <2>4. f \in ConStates
    BY <2>2, <2>3, ZenonT(40) DEF ConStates
  <2>5. d = [f EXCEPT !.outcoming_bl = b]
    BY <2>1, <2>3 DEF ProbedCon
  <2> QED
    BY <2>4, <2>5, ZenonT(40) DEF ConStates
<1>2. /\ SameMsgs(c, d) /\ SameLink(c, d) /\ d.wire = c.wire
      /\ d.outcoming_bl = b /\ d.sending = c.sending
  BY DEF ConStates, ProbedCon, SameMsgs, SameLink
<1> QED
  BY <1>1, <1>2

\* The buffer with the probe and the answer that are due.
Probed(k, b) ==
    b = k.outcoming_bl \o (IF k.keepalive THEN <<Keepalive>> ELSE <<>>)
                       \o (IF k.keepalive_ack THEN <<KeepaliveAck>> ELSE <<>>)

\* Probes and answers are no messages, and may follow anything.
LEMMA ProbedBuffer ==
    ASSUME NEW k, Sound(k, k.outcoming_bl), NEW b, Probed(k, b)
    PROVE  Sound(k, b)
<1>1. ASSUME NEW r, Sound(k, r), NEW x \in {Keepalive, KeepaliveAck}, NEW y,
             y = <<>> \/ y = <<x>>
      PROVE  Sound(k, r \o y)
  <2>1. r \in Seq(Pieces) /\ x \in Pieces
    BY <1>1 DEF Sound, Pieces, Keepalive, KeepaliveAck
  <2>2. CASE y = <<>>
    <3>1. r \o y = r
      BY <2>1, <2>2
    <3> QED
      BY <1>1, <3>1
  <2>3. CASE y = <<x>>
    <3>1. r \o y = Append(r, x)
      BY <2>1, <2>3
    <3>2. Sound(k, Append(r, x))
      BY <1>1, ItemBuffer
    <3> QED
      BY <3>1, <3>2
  <2> QED
    BY <1>1, <2>2, <2>3
<1>2. PICK y : y = IF k.keepalive THEN <<Keepalive>> ELSE <<>>
  OBVIOUS
<1>3. PICK z : z = IF k.keepalive_ack THEN <<KeepaliveAck>> ELSE <<>>
  OBVIOUS
<1>4. b = (k.outcoming_bl \o y) \o z
  BY <1>2, <1>3 DEF Probed
<1>5. (y = <<>> \/ y = <<Keepalive>>) /\ (z = <<>> \/ z = <<KeepaliveAck>>)
  BY <1>2, <1>3
<1>6. Sound(k, k.outcoming_bl \o y)
  BY <1>1, <1>5
<1> QED
  BY <1>1, <1>4, <1>5, <1>6

\* handle_write while somebody sends: it is put off.
LEMMA BusyStep ==
    ASSUME IInv, pc[Ev] = "idle", con.sending, NEW l, l = DelayedCon(con), Return(Ev, l)
    PROVE  IInv'
<1>1. con' = l /\ Leaves(Ev, "idle") /\ ~Sends(Ev)
  BY DEF Return, Leaves, Goto, Sends
<1>2. Quiet(con, l) /\ l.sending = con.sending /\ l.late = con.late
  BY AlwaysSound, DelayedFields
<1>3. Same(con, l)
  BY <1>2, AlwaysSound, SameSelf, SameQuiet
<1>4. SendersStay
  BY <1>1, OthersStay, PriorityQueue
<1>5. Same(con, con') /\ con'.sending /\ con'.state = con.state
  BY <1>1, <1>2, <1>3 DEF Quiet, SameLink
<1> QED
  BY <1>4, <1>5, SameStep

\* What handle_write does before its first sendmsg.
Writes(k) ==
    \/ /\ k.state \in OpenStates
       /\ \E b : Probed(k, b) /\ WriteNext(ProbedCon(k, b))
    \/ k.state \notin OpenStates /\ k.outcoming_bl = <<>> /\ FinishWrite(k)
    \/ k.state \notin OpenStates /\ k.outcoming_bl # <<>> /\ ReleaseToSend(Ev, k, "flush")

\* handle_write up to its first sendmsg keeps the invariant.
LEMMA WritesStep ==
    ASSUME IInv, ~con.sending, NEW k, k = TakenCon(con), Writes(k)
    PROVE  IInv'
<1>1. con \in ConStates
  BY AlwaysSound
<1>2. Quiet(con, k) /\ k.sending = TRUE
  BY <1>1, TakenFields
<1>3. (\A t \in Threads : ~Sends(t)) /\ Sound(con, con.outcoming_bl)
  BY NobodySends
<1>4. k.outcoming_bl = con.outcoming_bl /\ k \in ConStates
  BY <1>2 DEF Quiet
<1>5. Sound(k, k.outcoming_bl) /\ LinkOK(k)
  BY <1>2, <1>3, <1>4, QuietKeeps DEF IInv
<1>6. (\A a \in Apps : ~Sends(a)) /\ Ev \in Threads /\ \A u \in Threads : u = Ev \/ ~Sends(u)
  BY <1>3, PriorityQueue
<1>7. CASE k.state \in OpenStates /\ \E b : Probed(k, b) /\ WriteNext(ProbedCon(k, b))
  <2>1. PICK b : Probed(k, b) /\ WriteNext(ProbedCon(k, b))
    BY <1>7
  <2>2. PICK l : l = ProbedCon(k, b)
    OBVIOUS
  <2>3. Sound(k, b)
    BY <1>5, <2>1, ProbedBuffer
  <2>4. b \in Seq(Pieces)
    BY <2>3 DEF Sound
  <2>5. /\ l \in ConStates /\ SameMsgs(k, l) /\ SameLink(k, l) /\ l.wire = k.wire
        /\ l.outcoming_bl = b /\ l.sending = k.sending
    BY <1>4, <2>2, <2>4, ProbedFields
  <2>6. l.sock = k.sock
    BY <2>5 DEF SameLink
  <2>7. Sound(l, l.outcoming_bl)
    BY <2>3, <2>5, <2>6, SameSound
  <2>8. LinkOK(l) /\ l.state \in OpenStates
    BY <1>5, <1>7, <2>5, OpenLink
  <2>9. l.sending /\ WriteNext(l)
    BY <1>2, <2>1, <2>2, <2>5
  <2> QED
    BY <1>6, <2>7, <2>8, <2>9, NextEnds
<1>8. CASE k.state \notin OpenStates /\ k.outcoming_bl = <<>> /\ FinishWrite(k)
  BY <1>5, <1>6, <1>8, FinishEnds
<1>9. CASE k.state \notin OpenStates /\ k.outcoming_bl # <<>> /\ ReleaseToSend(Ev, k, "flush")
  <2>1. k.state = "WAIT_SEND" /\ k.sending
    BY <1>2, <1>5, <1>9 DEF LinkOK
  <2> QED
    BY <1>5, <1>6, <1>9, <2>1, Release
<1> QED
  BY <1>7, <1>8, <1>9 DEF Writes

\* handle_write, put off or not.
LEMMA HandleWriteStep ==
    ASSUME IInv, handle_write
    PROVE  IInv'
<1>1. PICK k : k = TakenCon(con)
  OBVIOUS
<1>2. PICK b : Probed(k, b)
  BY DEF Probed
<1>3. pc[Ev] = "idle"
  BY DEF handle_write, EvIdle
<1>4. \/ con.sending /\ Return(Ev, DelayedCon(con))
      \/ ~con.sending /\ Writes(k)
  <2>1. PICK j : j = [k EXCEPT !.outcoming_bl =
                              @ \o (IF k.keepalive THEN <<Keepalive>> ELSE <<>>)
                                \o (IF k.keepalive_ack THEN <<KeepaliveAck>> ELSE <<>>),
                           !.keepalive = FALSE, !.keepalive_ack = FALSE]
    OBVIOUS
  <2>2. \/ con.sending /\ Return(Ev, DelayedCon(con))
        \/ ~con.sending /\ k.state \in OpenStates /\ WriteNext(j)
        \/ /\ ~con.sending /\ k.state \notin OpenStates
           /\ IF k.outcoming_bl = <<>> THEN FinishWrite(k) ELSE ReleaseToSend(Ev, k, "flush")
    BY <1>1, <2>1, Zenon DEF handle_write, Busy, DelayedCon, TakenCon
  <2>3. j = ProbedCon(k, b)
    BY <1>2, <2>1 DEF ProbedCon, Probed
  <2> QED
    BY <1>2, <2>2, <2>3 DEF Writes
<1>5. CASE con.sending /\ Return(Ev, DelayedCon(con))
  BY <1>3, <1>5, BusyStep
<1>6. CASE ~con.sending /\ Writes(k)
  BY <1>1, <1>6, WritesStep
<1> QED
  BY <1>4, <1>5, <1>6

\* The handshake is written, and handle_write goes on with the next state.
LEMMA AfterHandshakeEnds ==
    ASSUME IInv, NEW k, AfterHandshake(k), Sound(k, k.outcoming_bl), k.outcoming_bl = <<>>,
           k.sock # "none", k.state_after_send \in {"WAIT_REPLY", "ACCEPTING"},
           \A a \in Apps : ~Sends(a)
    PROVE  IInv'
<1>1. PICK s \in {"OPEN", "READ_DATA", "TAG_CLOSE", "WAIT_REPLY", "ACCEPTING", "CONNECTING"} :
         s = k.state_after_send
  OBVIOUS
<1>2. PICK q : q = StateCon(k, s)
  OBVIOUS
<1>3. k \in ConStates
  BY DEF Sound
<1>4. /\ q \in ConStates /\ SameMsgs(k, q) /\ q.sock = k.sock /\ q.wire = k.wire
      /\ q.outcoming_bl = k.outcoming_bl /\ q.state = s
  BY <1>2, <1>3, StateFields
<1>5. Sound(q, q.outcoming_bl)
  BY <1>4, SameSound
<1>6. LinkOK(q)
  BY <1>1, <1>4 DEF LinkOK
<1>7. \/ FinishWrite(q)
      \/ \E o \in Opened(q) : FinishWrite(o)
      \/ /\ con' = [q EXCEPT !.want_send = TRUE] /\ Goto(Ev, "wait_sending")
         /\ io' = [io EXCEPT ![Ev] = NoIo]
  BY <1>1, <1>2, Zenon DEF AfterHandshake, StateCon
<1>8. CASE FinishWrite(q)
  BY <1>5, <1>6, <1>8, FinishEnds
<1>9. ASSUME NEW o \in Opened(q), FinishWrite(o) PROVE IInv'
  <2>1. /\ o.state = "OPEN" /\ o.sock = q.sock /\ o.outcoming_bl = q.outcoming_bl
        /\ \A r : Sound(q, r) => Sound(o, r)
    BY <1>4, <1>9, OpenedRecord
  <2>2. Sound(o, o.outcoming_bl)
    BY <1>5, <2>1
  <2>3. LinkOK(o)
    BY <1>4, <2>1 DEF LinkOK, OpenStates
  <2> QED
    BY <1>9, <2>2, <2>3, FinishEnds
<1>10. CASE /\ con' = [q EXCEPT !.want_send = TRUE] /\ Goto(Ev, "wait_sending")
            /\ io' = [io EXCEPT ![Ev] = NoIo]
  <2>1. PICK d : d = [q EXCEPT !.want_send = TRUE]
    OBVIOUS
  <2>2. Same(q, d)
    <3>1. Flagged(q, d)
      BY <2>1 DEF Flagged
    <3> QED
      BY <1>4, <3>1, FlagFields
  <2>3. d.outcoming_bl = q.outcoming_bl
    BY <2>2 DEF Same
  <2>4. d.state = s
    BY <1>4, <2>1 DEF ConStates
  <2>5. Sound(d, d.outcoming_bl) /\ LinkOK(d)
    BY <1>5, <1>6, <2>2, <2>3, SameKeeps
  <2>6. Leaves(Ev, "wait_sending") /\ con' = d
    BY <1>10, <2>1 DEF Leaves, Goto
  <2>7. d.state \notin {"OPEN", "READ_DATA"}
    BY <1>1, <2>4
  <2> QED
    BY <2>5, <2>6, <2>7, EventEnds
<1> QED
  BY <1>7, <1>8, <1>9, <1>10

\* What the event thread has left of a handshake is all of it or nothing.
LEMMA HandshakeLeft ==
    ASSUME NEW d \in Seq(Pieces), NEW s \in Seq(Pieces), d \o s = <<Handshake>>, s # <<>>
    PROVE  s = <<Handshake>>
<1>1. Len(d) \in Nat /\ Len(s) \in Nat /\ Len(d) + Len(s) = 1 /\ Len(s) # 0
  <2>1. Len(d \o s) = Len(d) + Len(s)
    BY Joined
  <2>2. Len(<<Handshake>>) = 1
    OBVIOUS
  <2>3. Len(s) # 0
    OBVIOUS
  <2> QED
    BY <2>1, <2>2, <2>3
<1>2. Len(d) = 0
  BY <1>1
<1>3. d = <<>>
  BY <1>2
<1> QED
  BY <1>3

\* The event thread has the lock again: it trims, and goes on with the next message,
\* the rest or the handshake.
LEMMA SentEventStep ==
    ASSUME IInv, sent_event
    PROVE  IInv'
<1>1. pc[Ev] = "sendmsg" /\ Ev \in Threads /\ Sends(Ev)
  BY PriorityQueue DEF sent_event, Sends
<1>2. /\ Writing(Ev)
      /\ \/ io[Ev].stage = "flush" /\ con.state = "WAIT_SEND"
         \/ io[Ev].stage \in {"messages", "rest"} /\ con.state \in OpenStates
  BY <1>1 DEF IInv, EventSend
<1>3. PICK j : j = Trim(con, Ev)
  OBVIOUS
<1>4. PICK k : k = set_action(j)
  OBVIOUS
<1>5. PICK stage : stage = io[Ev].stage
  OBVIOUS
<1>6. \/ /\ stage = "messages"
         /\ IF k.outcoming_bl = <<>> THEN WriteNext(k) ELSE WriteRest(k)
      \/ /\ stage = "flush" /\ k.state = "WAIT_SEND" /\ k.outcoming_bl = <<>>
         /\ AfterHandshake(k)
      \/ /\ stage = "rest" \/ (stage = "flush" /\ k.outcoming_bl # <<>>)
         /\ FinishWrite(k)
  BY <1>3, <1>4, <1>5, Zenon DEF sent_event
<1>7. /\ Sound(j, j.outcoming_bl) /\ SameMsgs(con, j) /\ SameLink(con, j)
      /\ j.sending = con.sending /\ j.outcoming_bl = io[Ev].todo
  BY <1>1, <1>2, <1>3, TrimRecord
<1>8. Quiet(j, k) /\ k.sending = j.sending
  BY <1>4, <1>7, SetAction DEF Sound
<1>9. k.outcoming_bl = j.outcoming_bl
  BY <1>8 DEF Quiet
<1>10. Sound(k, k.outcoming_bl)
  BY <1>7, <1>8, <1>9, QuietKeeps
<1>11. SameLink(con, k)
  BY <1>7, <1>8 DEF Quiet, SameLink
<1>12. con.sending /\ (\A a \in Apps : ~Sends(a))
  BY <1>1, PriorityQueue DEF IInv, OneSender
<1>13. k.sending
  BY <1>7, <1>8, <1>12
<1>14. CASE stage \in {"messages", "rest"}
  <2>1. LinkOK(k) /\ k.state \in OpenStates
    BY <1>2, <1>5, <1>11, <1>14, OpenLink DEF IInv
  <2>2. WriteNext(k) \/ WriteRest(k) \/ FinishWrite(k)
    BY <1>6, <1>14
  <2> QED
    BY <1>10, <1>12, <1>13, <2>1, <2>2, NextEnds, RestEnds, FinishEnds
<1>15. CASE stage = "flush"
  <2>1. con.state = "WAIT_SEND"
    BY <1>2, <1>5, <1>15
  <2>2. /\ con.outcoming_bl = <<Handshake>> /\ con.sock # "none"
        /\ con.state_after_send \in {"WAIT_REPLY", "ACCEPTING"}
    BY <2>1 DEF IInv, LinkOK
  <2>3. /\ k.state = "WAIT_SEND" /\ k.sock # "none"
        /\ k.state_after_send \in {"WAIT_REPLY", "ACCEPTING"}
    BY <1>11, <2>1, <2>2 DEF SameLink
  <2>4. CASE k.outcoming_bl = <<>> /\ AfterHandshake(k)
    BY <1>10, <1>12, <2>3, <2>4, AfterHandshakeEnds
  <2>5. CASE k.outcoming_bl # <<>> /\ FinishWrite(k)
    <3>1. PICK d, s : d = io[Ev].done /\ s = io[Ev].todo
      OBVIOUS
    <3>2. d \in Seq(Pieces) /\ s \in Seq(Pieces)
      BY <1>1, <3>1, SenderPieces DEF IInv
    <3>3. d \o s = <<Handshake>> /\ k.outcoming_bl = s
      BY <1>2, <1>7, <1>9, <2>2, <3>1 DEF Writing
    <3>4. k.outcoming_bl = <<Handshake>>
      BY <2>5, <3>2, <3>3, HandshakeLeft
    <3>5. LinkOK(k)
      BY <2>3, <3>4 DEF LinkOK
    <3> QED
      BY <1>10, <1>12, <2>5, <3>5, FinishEnds
  <2> QED
    BY <1>6, <1>15, <2>4, <2>5
<1> QED
  BY <1>2, <1>5, <1>14, <1>15

-----------------------------------------------------------------------------
(***************************************************************************)
(* The invariant holds at first, and every step keeps it.                  *)
(***************************************************************************)
\* The first state of a scenario.
FirstCon(e) ==
    [state |-> e.state, sock |-> IF e.state = "OPEN" THEN "up" ELSE "none",
     lossy |-> e.lossy, server |-> e.server, standby |-> e.standby,
     out_q |-> [q \in 1..Highest |-> <<>>],
     sent |-> <<>>, outcoming_bl |-> <<>>,
     sending |-> FALSE, want_send |-> FALSE,
     handle_write_delayed |-> FALSE, ev_write |-> FALSE,
     keepalive |-> FALSE, keepalive_ack |-> FALSE,
     ack_due |-> FALSE,
     stopping |-> FALSE, replacing |-> 0,
     state_after_send |-> e.state,
     wire |-> <<>>, flushed |-> {}, prio |-> <<>>, settled |-> {}, dropped |-> {},
     late |-> FALSE]

\* Its fields.
LEMMA FirstFields ==
    ASSUME NEW e \in Scenarios, NEW c, c = FirstCon(e)
    PROVE  /\ c \in ConStates /\ c.prio = <<>> /\ c.out_q = [q \in 1..Highest |-> <<>>]
           /\ c.sent = <<>> /\ c.settled = {} /\ c.dropped = {} /\ c.wire = <<>>
           /\ c.outcoming_bl = <<>> /\ c.state \in {"OPEN", "CONNECTING"}
           /\ c.sock = (IF c.state = "OPEN" THEN "up" ELSE "none")
<1>1. /\ e.state \in {"OPEN", "CONNECTING"} /\ e.lossy \in BOOLEAN /\ e.server \in BOOLEAN
      /\ e.standby \in BOOLEAN
  BY ConstantsAssumption
<1>2. PICK s, k, x, y, z, Q :
         /\ s = e.state /\ x = e.lossy /\ y = e.server /\ z = e.standby
         /\ k = (IF e.state = "OPEN" THEN "up" ELSE "none")
         /\ Q = [q \in 1..Highest |-> <<>>]
  OBVIOUS
<1>3. /\ s \in {"OPEN", "CONNECTING"} /\ k \in {"none", "up", "broken"}
      /\ x \in BOOLEAN /\ y \in BOOLEAN /\ z \in BOOLEAN
      /\ Q \in [1..Highest -> Seq(Nat)]
  BY <1>1, <1>2
<1>4. c = [state |-> s, sock |-> k, lossy |-> x, server |-> y, standby |-> z, out_q |-> Q,
           sent |-> <<>>, outcoming_bl |-> <<>>,
           sending |-> FALSE, want_send |-> FALSE,
           handle_write_delayed |-> FALSE, ev_write |-> FALSE,
           keepalive |-> FALSE, keepalive_ack |-> FALSE,
           ack_due |-> FALSE,
           stopping |-> FALSE, replacing |-> 0,
           state_after_send |-> s,
           wire |-> <<>>, flushed |-> {}, prio |-> <<>>, settled |-> {}, dropped |-> {},
           late |-> FALSE]
  BY <1>2, Zenon DEF FirstCon
<1>5. c \in ConStates
  BY <1>3, <1>4 DEF ConStates
<1> QED
  BY <1>2, <1>3, <1>4, <1>5

\* Without messages everything is in order.
LEMMA FirstMsgs ==
    ASSUME NEW Q, Q = [q \in 1..Highest |-> <<>>]
    PROVE  MsgsOK(<<>>, Q, <<>>, {}, {}) /\ \A m : ~InQ(Q, m)
<1>1. Q \in [1..Highest -> Seq(Nat)] /\ <<>> \in Seq(Nat) /\ Len(<<>>) = 0
  OBVIOUS
<1>2. \A q \in 1..Highest : Q[q] = <<>>
  OBVIOUS
<1>3. \A m : ~InQ(Q, m) /\ ~In(<<>>, m)
  BY <1>1, <1>2 DEF InQ, In
<1>4. Placed(<<>>, Q, <<>>, {}, {})
  <2>1. \A m \in Nat : m \notin 1..Len(<<>>)
    BY <1>1
  <2>2. \A m \in Nat : ~InQ(Q, m) /\ ~In(<<>>, m) /\ m \notin {}
    BY <1>3
  <2>3. PICK E : E = {}
    OBVIOUS
  <2>4. Placed(<<>>, Q, <<>>, E, E)
    BY <2>1, <2>2, <2>3, Zenon DEF Placed
  <2> QED
    BY <2>3, <2>4
<1>5. \A q \in 1..(Highest - 1) : q \in 1..Highest
  BY ConstantsAssumption
<1>6. Highest \in 1..Highest
  BY ConstantsAssumption
<1>7. InLine(<<>>, Q, <<>>)
  BY <1>1, <1>2, <1>5, <1>6 DEF InLine, Sorted, Precedes
<1> QED
  BY <1>1, <1>3, <1>4, <1>7 DEF MsgsOK

\* Initially nobody sends, and nothing was submitted or written.
LEMMA InitInvariant ==
    ASSUME Init
    PROVE  IInv
<1>1. PICK c : c = FirstCon(env)
  OBVIOUS
<1>2. con = c /\ env \in Scenarios
  BY <1>1 DEF Init, FirstCon
<1>3. /\ c \in ConStates /\ c.prio = <<>> /\ c.out_q = [q \in 1..Highest |-> <<>>]
      /\ c.sent = <<>> /\ c.settled = {} /\ c.dropped = {} /\ c.wire = <<>>
      /\ c.outcoming_bl = <<>> /\ c.state \in {"OPEN", "CONNECTING"}
      /\ c.sock = (IF c.state = "OPEN" THEN "up" ELSE "none")
  BY <1>1, <1>2, FirstFields
<1>4. MsgsOK(c.prio, c.out_q, c.sent, c.settled, c.dropped) /\ \A m : ~InQ(c.out_q, m)
  BY <1>3, FirstMsgs
<1>5. Sound(c, <<>>)
  <2>1. PICK P, Q, T, D : P = c.prio /\ Q = c.out_q /\ T = c.settled /\ D = c.dropped
    OBVIOUS
  <2>2. P \in Seq(Nat) /\ Q \in [1..Highest -> Seq(Nat)] /\ ~InQ(Q, 0)
    BY <1>3, <1>4, <2>1, Fields
  <2>3. PICK w : w = <<>>
    OBVIOUS
  <2>4. Halves(w) /\ Written(P, T, D, w) /\ Live(Q, <<>>, w)
    BY <2>2, <2>3, NewStream
  <2>5. Ahead(c, <<>>) = w
    BY <1>3, <2>3 DEF Ahead
  <2>6. StreamOK(c, Ahead(c, <<>>))
    BY <1>3, <2>1, <2>4, <2>5 DEF StreamOK
  <2>7. <<>> \in Seq(Pieces)
    OBVIOUS
  <2> QED
    BY <1>3, <1>4, <2>6, <2>7 DEF Sound
<1>6. pc = [t \in Threads |-> "idle"] /\ io = [t \in Threads |-> NoIo]
  BY DEF Init
<1>7. ThreadStates
  <2>1. NoIo \in [todo : Seq(Pieces), done : Seq(Pieces),
                  stage : {"none", "direct", "messages", "rest", "flush"}]
    BY DEF NoIo
  <2> QED
    BY <1>6, <2>1 DEF ThreadStates
<1>8. \A t \in Threads : ~Sends(t)
  BY <1>6 DEF Sends
<1>9. OneSender /\ EventSend /\ DirectSend /\ Failed
  BY <1>8, PriorityQueue DEF OneSender, EventSend, DirectSend, Failed, Writing
<1>10. LinkOK(con)
  BY <1>2, <1>3 DEF LinkOK, OpenStates
<1>11. Stream
  BY <1>2, <1>3, <1>5, <1>8 DEF Stream, Writing
<1>12. Scheduled
  BY <1>2, <1>3, <1>4 DEF Scheduled
<1> QED
  BY <1>7, <1>9, <1>10, <1>11, <1>12 DEF IInv

\* Every step of the threads, of the event loop and of the environment keeps it.
LEMMA StepInvariant ==
    ASSUME IInv, [Next]_vars
    PROVE  IInv'
<1>1. CASE UNCHANGED vars
  <2>1. con' = con /\ UNCHANGED <<pc, io>>
    BY <1>1 DEF vars
  <2>2. SendersStay /\ (pc'[Ev] = "stop" \/ pc[Ev] # "stop")
    BY <2>1, AllStay
  <2>3. Same(con, con')
    BY <2>1, AlwaysSound, SameSelf
  <2> QED
    BY <2>1, <2>2, <2>3, SameStep
<1>2. ASSUME NEW a \in Apps, send_message(a) PROVE IInv'
  BY <1>2, SendMessageStep
<1>3. ASSUME NEW a \in Apps, send_keepalive(a) PROVE IInv'
  BY <1>3, SendKeepaliveStep
<1>4. ASSUME NEW a \in Apps, mark_down(a) PROVE IInv'
  BY <1>4, MarkDownStep
<1>5. ASSUME NEW a \in Apps, mark_disposable(a) PROVE IInv'
  BY <1>5, MarkDisposableStep
<1>6. ASSUME NEW a \in Apps, sent_direct(a) PROVE IInv'
  BY <1>6, SentDirectStep
<1>7. ASSUME NEW a \in Apps, mark_down_woken(a) PROVE IInv'
  BY <1>7, MarkDownWokenStep
<1>8. ASSUME NEW t \in Threads, do_sendmsg(t) PROVE IInv'
  BY <1>8, SendmsgStep
<1>9. CASE handle_write
  BY <1>9, HandleWriteStep
<1>10. CASE sent_event
  BY <1>10, SentEventStep
<1>11. CASE send_failed
  BY <1>11, SendFailedStep
<1>12. CASE sending_woken
  BY <1>12, SendingWokenStep
<1>13. CASE stop_now
  BY <1>13, StopNowStep
<1>14. CASE C_stop
  BY <1>14, CStopStep
<1>15. CASE stop \/ mark_down_owner
  BY <1>15, StopStep
<1>16. CASE RecvHeader
  BY <1>16, RecvHeaderStep
<1>17. CASE RecvData
  BY <1>17, RecvDataStep
<1>18. CASE RecvKeepalive
  BY <1>18, RecvKeepaliveStep
<1>19. CASE handle_ack
  BY <1>19, HandleAckStep
<1>20. CASE RecvClose
  BY <1>20, RecvCloseStep
<1>21. CASE ReadError
  BY <1>21, ReadErrorStep
<1>22. CASE Connect
  BY <1>22, ConnectStep
<1>23. CASE RecvReply
  BY <1>23, RecvReplyStep
<1>24. CASE accept_replace
  BY <1>24, AcceptReplaceStep
<1>25. CASE handle_replace
  BY <1>25, HandleReplaceStep
<1>26. CASE Break
  BY <1>26, BreakStep
<1> QED
  BY <1>1, <1>2, <1>3, <1>4, <1>5, <1>6, <1>7, <1>8, <1>9, <1>10, <1>11, <1>12, <1>13, <1>14,
     <1>15, <1>16, <1>17, <1>18, <1>19, <1>20, <1>21, <1>22, <1>23, <1>24, <1>25, <1>26
     DEF Next

\* The inductive invariant: one sender at a time, whose pieces are the front of the
\* output buffer until it is cleared; every message in one place and in the order of its
\* priority; and what was written followed by what is left is whole messages in that order.
THEOREM WriterInvariant == Spec => []IInv
<1>1. Init => IInv
  BY InitInvariant
<1>2. IInv /\ [Next]_vars => IInv'
  BY StepInvariant
<1> QED
  BY <1>1, <1>2, PTL DEF Spec

-----------------------------------------------------------------------------
(***************************************************************************)
(* The properties.                                                         *)
(***************************************************************************)
\* What was written to the present socket is sound, whatever is left to write.
LEMMA WireSound ==
    ASSUME IInv
    PROVE  Halves(con.wire) /\ Written(con.prio, con.settled, con.dropped, con.wire)
<1>1. PICK r : Sound(con, r)
  BY AlwaysSound
<1>2. PICK w, P, T, D : w = con.wire /\ P = con.prio /\ T = con.settled /\ D = con.dropped
  OBVIOUS
<1>3. w \in Seq(Pieces) /\ r \in Seq(Pieces)
  BY <1>1, <1>2, Fields DEF Sound
<1>4. Halves(Ahead(con, r)) /\ Written(P, T, D, Ahead(con, r))
  BY <1>1, <1>2 DEF Sound, StreamOK
<1>5. Ahead(con, r) = w \/ Ahead(con, r) = w \o r
  BY <1>2 DEF Ahead
<1>6. Halves(w) /\ Written(P, T, D, w)
  BY <1>3, <1>4, <1>5, WrittenPrefix
<1> QED
  BY <1>2, <1>6

\* The halves of a message follow each other on every socket, no message is written
\* twice to one socket and nothing precedes the handshake: sendmsg runs without the
\* lock, and `sending` alone keeps the writers apart.
THEOREM FramedAlways == Spec => []Framed
<1>1. ASSUME IInv PROVE Framed
  <2>1. PICK w : w = con.wire
    OBVIOUS
  <2>2. Halves(w)
    BY <1>1, <2>1, WireSound
  <2>3. \A m \in Msgs : m \in Nat \ {0}
    BY DEF Msgs
  <2> QED
    BY <2>1, <2>2, <2>3 DEF Framed, Halves
<1> QED
  BY <1>1, WriterInvariant, PTL

\* A message is not written to a socket before an earlier one of its priority, unless
\* that one is settled or dropped: whether messages are written directly, from the
\* queues, or again after fault and do_replace.
THEOREM SamePriorityInOrderAlways == Spec => []SamePriorityInOrder
<1>1. ASSUME IInv PROVE SamePriorityInOrder
  BY <1>1, WireSound DEF SamePriorityInOrder, Written
<1> QED
  BY <1>1, WriterInvariant, PTL

\* A message that was submitted is in exactly one of: the queues, the sent list, the
\* settled and the dropped messages.
THEOREM KeptOnceAlways == Spec => []KeptOnce
<1>1. ASSUME IInv PROVE KeptOnce
  <2>1. PICK r : Sound(con, r)
    BY <1>1, AlwaysSound
  <2>2. /\ con.out_q \in [1..Highest -> Seq(Nat)] /\ con.sent \in Seq(Nat)
        /\ con.settled \subseteq Nat /\ con.dropped \subseteq Nat /\ con.prio \in Seq(Nat)
    BY <2>1, Fields DEF Sound
  <2>3. PICK P, S, T, D, A, B :
           /\ P = con.prio /\ S = con.sent /\ T = con.settled /\ D = con.dropped
           /\ A = Queued(con) /\ B = ToSet(con.sent)
    OBVIOUS
  <2>4. Placed(P, con.out_q, S, T, D)
    BY <2>1, <2>3 DEF Sound, MsgsOK
  <2>5. A \subseteq Nat /\ \A m : m \in A <=> InQ(con.out_q, m)
    BY <2>2, <2>3, QueuedIn
  <2>6. B \subseteq Nat /\ \A m : m \in B <=> In(S, m)
    <3>1. DOMAIN S = 1..Len(S) /\ \A i \in 1..Len(S) : S[i] \in Nat
      BY <2>2, <2>3, Elements
    <3> QED
      BY <2>3, <3>1 DEF ToSet, In
  <2>7. /\ \A m \in Nat : m \in 1..Len(P) <=> m \in A \/ m \in B \/ m \in T \/ m \in D
        /\ \A m \in T : m \notin A /\ m \notin B /\ m \notin D
        /\ \A m \in D : m \notin A /\ m \notin B
        /\ \A m \in Nat : ~(m \in A /\ m \in B)
    BY <2>4, <2>5, <2>6 DEF Placed
  <2>8. A \cup B \cup T \cup D = 1..Len(P)
    <3>1. 1..Len(P) \subseteq Nat /\ T \subseteq Nat /\ D \subseteq Nat
      BY <2>2, <2>3
    <3> QED
      BY <2>5, <2>6, <2>7, <3>1
  <2>9. /\ A \cap B = {} /\ A \cap T = {} /\ A \cap D = {}
        /\ B \cap T = {} /\ B \cap D = {} /\ T \cap D = {}
    BY <2>5, <2>6, <2>7
  <2>10. PICK X : X = <<A, B, T, D>>
    OBVIOUS
  <2>11. DOMAIN X = {1, 2, 3, 4} /\ X[1] = A /\ X[2] = B /\ X[3] = T /\ X[4] = D
    BY <2>10
  <2>12. UNION Range(X) = A \cup B \cup T \cup D
    <3>1. Range(X) = {A, B, T, D}
      BY <2>11 DEF Range
    <3> QED
      BY <3>1
  <2>13. \A i, j \in 1..4 : i # j => X[i] \cap X[j] = {}
    <3>1. \A i \in 1..4 : i \in {1, 2, 3, 4}
      OBVIOUS
    <3>2. SUFFICES ASSUME NEW i \in {1, 2, 3, 4}, NEW j \in {1, 2, 3, 4}, i # j
                   PROVE  X[i] \cap X[j] = {}
      BY <3>1
    <3> QED
      BY <2>9, <2>11, <3>2
  <2>14. KeptOnce <=> /\ UNION Range(X) = 1..Len(con.prio)
                      /\ \A i, j \in 1..4 : i # j => X[i] \cap X[j] = {}
    BY <2>3, <2>10 DEF KeptOnce
  <2> QED
    BY <2>3, <2>8, <2>12, <2>13, <2>14
<1> QED
  BY <1>1, WriterInvariant, PTL

\* On an open connection what nobody is writing is scheduled, except a message that was
\* queued during another thread's direct send and a connection about to be stopped.
THEOREM AwakeAlways == Spec => []Awake
<1>1. ASSUME IInv PROVE Awake
  <2>1. con.out_q \in [1..Highest -> Seq(Nat)]
    BY <1>1, AlwaysSound, Fields
  <2>2. Queued(con) # {} <=> \E m \in Nat : InQ(con.out_q, m)
    BY <2>1, QueuedIn
  <2> QED
    BY <1>1, <2>2 DEF IInv, Scheduled, Awake
<1> QED
  BY <1>1, WriterInvariant, PTL

=============================================================================
