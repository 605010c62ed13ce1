------------------------ MODULE SessionDeliveryProofs ------------------------
(***************************************************************************)
(* Delivery between peers whose sessions never end (Steady).  The          *)
(* invariant SInv says, besides IInv: what a registered connection holds   *)
(* is exactly what the peer may not have (Regs); the connections that are  *)
(* not registered hold nothing (Spares); what was dispatched is 1 .. In(n) *)
(* (Past); whatever is under way on a socket is true of its sender (Told); *)
(* and on each socket the messages follow on in_seq without a gap (Flows). *)
(***************************************************************************)
EXTENDS SessionProofs

\* The number v was given to a message, by a connection that has sent out messages
\* and has Q still to send: requeue_sent puts numbered messages back in front.
Assigned(out, Q, v) == v <= out \/ \E k \in 1 .. Len(Q) : v <= Q[k].seq

\* No number is lost by going from (out, Q) to (out1, Q1).
Higher(out, Q, out1, Q1) == \A v \in Nat : Assigned(out, Q, v) => Assigned(out1, Q1, v)

\* A connection that has received nothing and given no number.
Fresh(c) ==
    c.in_seq = 0 /\ c.out_seq = 0 /\ \A k \in 1 .. Len(c.out_q) : c.out_q[k].seq = 0

\* The messages of a node that has submitted sub of them, to a peer that has inp:
\* message k has number k, all are sent or queued, and what is neither kept in S
\* nor queued in Q the peer has.
Books(out, S, Q, sub, inp) ==
    /\ out + Len(Q) = sub
    /\ \A k \in 1 .. Len(S) : S[k].id = out - Len(S) + k
    /\ \A k \in 1 .. Len(Q) : Q[k].id = out + k
    /\ out - Len(S) <= inp
    /\ Assigned(out, Q, inp)

\* Nobody has marked the connection down or will reset its session.
Undisturbed(c) == ~Flag(c, "stopping") /\ ~Flag(c, "replacing_reset_session")

\* A connection that is not registered.
Spare(c) ==
    /\ c.state \in {"CLOSED", "STANDBY", "ACCEPTING_WAIT_CONNECT_MSG"}
    /\ Undisturbed(c)
    /\ c.sent = <<>> /\ c.out_q = <<>> /\ c.in_seq = 0 /\ c.out_seq = 0
    /\ c.connect_seq = 0 /\ c.replacing = 0 /\ c.replacing_sd = None

\* A connection that is.
Status(c) ==
    /\ c.state # "CLOSED" /\ ~Flag(c, "lossy") /\ Undisturbed(c)
    /\ c.state = "ACCEPTING_WAIT_CONNECT_MSG" => c.replacing = 2
    /\ c.state \in {"ACCEPTING_REPLY", "ACCEPTING_WAIT_SEQ", "OPEN"} => c.connect_seq > 0
    /\ c.connect_seq = 0 => Fresh(c)
    /\ c.state = "ACCEPTING_REPLY" =>
          /\ c.reply.seq = c.in_seq /\ c.reply.lossy = "no"
          /\ c.reply.tag = "READY" => c.in_seq = 0

\* The connection registered at n.
Mine(n) == conn[n][conns[n]]

\* The messages that n has received.
In(n) == IF conns[n] = None THEN 0 ELSE Mine(n).in_seq

\* What node n owes its peer, and that it knows it.
Account(n) ==
    IF conns[n] = None
    THEN submitted[n] = 0 /\ In(Peer(n)) = 0
    ELSE /\ Status(Mine(n))
         /\ Books(Mine(n).out_seq, Mine(n).sent, Mine(n).out_q, submitted[n], In(Peer(n)))
         /\ Mine(n).connect_seq > 0 => conns[Peer(n)] # None

\* ... at both nodes.
Regs == \A n \in Node : Account(n)

\* The connections that are not registered hold nothing.
Spares == \A n \in Node, i \in Slots : conns[n] # i => Spare(conn[n][i])

\* What the applications have seen.
Past == /\ ever = [n \in Node |-> 1 .. In(n)]
        /\ got = [n \in Node |-> [k \in 1 .. In(n) |-> k]]
        /\ dropped = [n \in Node |-> {}]

\* An item m on its way to p is true of the connections K, C registers.
Fine(p, m, K, C) ==
   LET n == Peer(p)
       in == IF C[n] = None THEN 0 ELSE K[n][C[n]].in_seq IN
   /\ m.kind = "msg" => /\ m.id = m.seq /\ C[n] # None
                        /\ Assigned(K[n][C[n]].out_seq, K[n][C[n]].out_q, m.seq)
   /\ m.kind \in {"ack", "seq"} => m.seq <= in
   /\ m.kind \in {"reply", "connect"} => C[n] # None
   /\ m.kind = "reply" => /\ m.tag # "RESETSESSION" /\ m.lossy = "no"
                          /\ m.tag = "SEQ" => m.seq <= in
   /\ m.kind = "connect" /\ m.cseq > 0 => C[p] # None

\* ... now.
ItemOK(p, m) == Fine(p, m, conn, conns)

\* Whatever is on its way is true.
Told == \A s \in Socks, p \in Node :
           \A k \in 1 .. Len(sock[s].q[p]) : ItemOK(p, sock[s].q[p][k])

\* The messages in q follow on number b, in order and without a gap.
InOrder(q, b) ==
    \A k \in 1 .. Len(q) : q[k].kind = "msg" =>
       /\ q[k].seq \in Nat /\ q[k].seq > b
       /\ \A j \in 1 .. (k-1) : q[j].kind = "msg" => q[j].seq < q[k].seq
       /\ \A v \in (b+1) .. (q[k].seq - 1) :
             \E j \in 1 .. (k-1) : q[j].kind = "msg" /\ q[j].seq = v

\* A connection c and what it has still to read, q.
EndOK(c, q) ==
    /\ InOrder(q, c.in_seq)
    /\ c.state = "ACCEPTING_WAIT_CONNECT_MSG" => Len(q) <= 1
    /\ c.state = "CONNECTING_WAIT_CONNECT_REPLY" =>
         \A j \in 1 .. Len(q) : q[j].kind = "reply" /\ q[j].tag = "READY" => Fresh(c)
    /\ c.state = "ACCEPTING_WAIT_CONNECT_MSG" /\ c.replacing = 2
         /\ Flag(c, "is_reset_from_peer") /\ Len(q) > 0 => c.in_seq = 0

\* c has sent nothing that d neither has nor will read from q, while the socket lives.
Flow(c, d, q, live) ==
    /\ d.in_seq <= c.out_seq
    /\ \A j \in 1 .. Len(q) : q[j].kind = "msg" => q[j].seq <= c.out_seq
    /\ live = "yes" => \A v \in (d.in_seq + 1) .. c.out_seq :
                          \E j \in 1 .. Len(q) : q[j].kind = "msg" /\ q[j].seq = v

\* The same of one that has sent o messages and one that has b of them.
Reached(q, b, o, live) ==
    /\ b <= o
    /\ \A j \in 1 .. Len(q) : q[j].kind = "msg" => q[j].seq <= o
    /\ live = "yes" => \A v \in (b + 1) .. o :
                          \E j \in 1 .. Len(q) : q[j].kind = "msg" /\ q[j].seq = v

\* What d reads from q of c, on the other end of its socket: messages only when c is
\* open, the in_seq that c has where the two negotiate, and a session that starts
\* from zero (READY) only where d has no number yet.
Link(c, d, q, live) ==
    /\ c.state = "OPEN" => Flow(c, d, q, live)
    /\ c.state # "OPEN" => \A j \in 1 .. Len(q) : q[j].kind \notin {"msg", "seq", "ack"}
    /\ d.state = "CONNECTING_WAIT_CONNECT_REPLY" =>
         \A j \in 1 .. Len(q) : q[j].kind = "reply" /\ q[j].tag = "SEQ" => q[j].seq = c.in_seq
    /\ d.state = "ACCEPTING_WAIT_SEQ" =>
         \A j \in 1 .. Len(q) : q[j].kind = "seq" => q[j].seq = c.in_seq
    /\ c.state = "ACCEPTING_REPLY" /\ c.reply.tag = "READY" => Fresh(d)
    /\ c.state = "ACCEPTING_WAIT_CONNECT_MSG" /\ c.replacing = 2
         /\ Flag(c, "is_reset_from_peer") => Fresh(d)

\* e takes over the socket of d, and only a fresh d counts as reset.
Waits(e, d) == e.replacing = 1 /\ Flag(e, "is_reset_from_peer") => Fresh(d)

\* Socket s, whose state is x, and the connections K that use it.
FlowOK(K, x, s) ==
    \A n \in Node, k \in Slots :
       /\ K[n][k].sd = s => EndOK(K[n][k], x.q[n])
       /\ K[n][k].replacing_sd = s => Len(x.q[n]) = 0
       /\ \A l \in Slots :
            /\ K[n][k].sd = s /\ K[Peer(n)][l].sd = s =>
                  Link(K[n][k], K[Peer(n)][l], x.q[Peer(n)], x.live)
            /\ K[n][k].replacing_sd = s /\ K[Peer(n)][l].sd = s =>
                  Waits(K[n][k], K[Peer(n)][l])

\* ... of every socket.
Flows == \A s \in Socks : FlowOK(conn, sock[s], s)

\* The invariant of the steady scenarios.
SInv == Regs /\ Spares /\ Past /\ Told /\ Flows

\* Two connections on the two ends of a socket.
Sides(c, x, qc, qx, live) ==
    EndOK(c, qc) /\ EndOK(x, qx) /\ Link(c, x, qx, live) /\ Link(x, c, qc, live)

\* The numbers stay.
Keeps(c, d) == d.in_seq = c.in_seq /\ d.out_seq = c.out_seq /\ d.out_q = c.out_q

\* The item is sent, unless the socket is broken.
Carried(q, q1, item, live) ==
    /\ Len(q) \in Nat
    /\ live = "yes" => /\ Len(q1) = Len(q) + 1 /\ q1[Len(q) + 1] = item
                       /\ \A k \in 1 .. Len(q) : q1[k] = q[k]
    /\ live # "yes" => q1 = q

\* The messages that a number acknowledges.
LEMMA PrefixIs ==
    ASSUME NEW max, NEW Q \in Seq(MsgTypes(max)), NEW seq \in Nat, NEW k,
           k = AckedPrefix(Q, seq)
    PROVE  /\ k \in 0 .. Len(Q) /\ Len(Q) \in Nat
           /\ \A j \in 1 .. Len(Q) : Q[j].seq \in Nat
           /\ \A j \in 1 .. k : Q[j].seq # 0 /\ Q[j].seq <= seq
           /\ k < Len(Q) => Q[k + 1].seq = 0 \/ Q[k + 1].seq > seq
<1> PICK rest : rest = {j \in 1 .. Len(Q) : Q[j].seq = 0 \/ Q[j].seq > seq}
  OBVIOUS
<1>1. rest \subseteq Nat /\ Len(Q) \in Nat /\ k \in 0 .. Len(Q)
  BY PrefixBounds
<1>2. \A j \in 1 .. Len(Q) : Q[j].seq \in Nat
  <2>1. \A m \in MsgTypes(max) : m.seq \in Nat
    BY DEF MsgTypes
  <2>2. \A j \in 1 .. Len(Q) : Q[j] \in MsgTypes(max)
    OBVIOUS
  <2> QED
    BY <2>1, <2>2
<1>3. CASE rest = {}
  <2>1. k = Len(Q)
    BY <1>3 DEF AckedPrefix
  <2>2. \A j \in 1 .. k : j \notin rest /\ j \in 1 .. Len(Q)
    BY <1>3, <2>1
  <2> QED
    BY <1>1, <1>2, <2>1, <2>2
<1>4. CASE rest # {}
  <2>1. k = Min(rest) - 1
    BY <1>4 DEF AckedPrefix
  <2>2. Min(rest) \in rest /\ \A t \in rest : Min(rest) <= t
    BY <1>1, <1>4, MinElement
  <2>3. \A j \in 1 .. k : j \notin rest /\ j \in 1 .. Len(Q)
    BY <1>1, <2>1, <2>2
  <2>4. k + 1 \in rest
    BY <1>1, <2>1, <2>2
  <2> QED
    BY <1>1, <1>2, <2>3, <2>4
<1> QED
  BY <1>3, <1>4

\* What the numbers of the messages are.
Tidy(out, S, Q) ==
    /\ Len(S) \in Nat /\ Len(Q) \in Nat /\ Len(S) <= out
    /\ \A k \in 1 .. Len(S) : S[k].seq = out - Len(S) + k
    /\ \A k \in 1 .. Len(Q) : /\ Q[k].seq \in Nat
                              /\ Q[k].seq = 0 \/ Q[k].seq = out + k
    /\ \A j, k \in 1 .. Len(Q) : j < k /\ Q[j].seq = 0 => Q[k].seq = 0

\* ... in every connection.
LEMMA NumbersAre ==
    ASSUME NEW max, NEW out \in Nat, NEW S \in Seq(MsgTypes(max)),
           NEW Q \in Seq(MsgTypes(max)), Numbers(out, S, Q)
    PROVE  Tidy(out, S, Q)
<1>1. \A m \in MsgTypes(max) : m.seq \in Nat
  BY DEF MsgTypes
<1>2. \A k \in 1 .. Len(Q) : Q[k] \in MsgTypes(max)
  OBVIOUS
<1>3. \A k \in 1 .. Len(Q) : Q[k].seq \in Nat
  BY <1>1, <1>2
<1>4. Len(S) \in Nat /\ Len(Q) \in Nat
  OBVIOUS
<1> QED
  BY <1>3, <1>4 DEF Numbers, Tidy

\* T is S followed by Q.
Joined(T, S, Q) ==
    /\ Len(T) = Len(S) + Len(Q)
    /\ \A k \in 1 .. Len(S) : T[k] = S[k] /\ k \in 1 .. Len(T)
    /\ \A k \in 1 .. Len(Q) : T[Len(S) + k] = Q[k] /\ Len(S) + k \in 1 .. Len(T)
    /\ \A k \in 1 .. Len(T) : \/ k \in 1 .. Len(S) /\ T[k] = S[k]
                              \/ k - Len(S) \in 1 .. Len(Q) /\ T[k] = Q[k - Len(S)]

\* requeue_sent keeps the books.
LEMMA BooksJoin ==
    ASSUME NEW out \in Nat, NEW S, NEW Q, NEW T, NEW E, Len(E) = 0, Joined(T, S, Q),
           Tidy(out, S, Q), NEW sub, NEW inp \in Nat, Books(out, S, Q, sub, inp)
    PROVE  /\ Books(out - Len(S), E, T, sub, inp)
           /\ Higher(out, Q, out - Len(S), T)
<1> PICK a, b : a = Len(S) /\ b = Len(Q)
  OBVIOUS
<1>1. /\ a \in Nat /\ b \in Nat /\ Len(T) = a + b
      /\ \A k \in 1 .. a : T[k] = S[k] /\ k \in 1 .. Len(T)
      /\ \A k \in 1 .. b : T[a + k] = Q[k] /\ a + k \in 1 .. Len(T)
      /\ \A k \in 1 .. Len(T) : \/ k \in 1 .. a /\ T[k] = S[k]
                                \/ k - a \in 1 .. b /\ T[k] = Q[k - a]
  BY DEF Joined, Tidy
<1>2. /\ a <= out
      /\ \A k \in 1 .. a : S[k].seq = out - a + k
      /\ \A k \in 1 .. b : Q[k].seq \in Nat
  BY DEF Tidy
<1>3. ASSUME NEW v \in Nat, Assigned(out, Q, v) PROVE Assigned(out - a, T, v)
  <2>1. CASE v <= out
    <3>1. CASE a = 0
      BY <1>1, <1>2, <2>1, <3>1 DEF Assigned
    <3>2. CASE a # 0
      <4>1. a \in 1 .. a /\ T[a].seq = out /\ a \in 1 .. Len(T)
        BY <1>1, <1>2, <3>2
      <4> QED
        BY <2>1, <4>1 DEF Assigned
    <3> QED
      BY <3>1, <3>2
  <2>2. CASE \E k \in 1 .. b : v <= Q[k].seq
    <3>1. PICK k \in 1 .. b : v <= Q[k].seq
      BY <2>2
    <3>2. a + k \in 1 .. Len(T) /\ v <= T[a + k].seq
      BY <1>1, <3>1
    <3> QED
      BY <3>2 DEF Assigned
  <2> QED
    BY <1>3, <2>1, <2>2 DEF Assigned
<1>4. (out - a) + Len(T) = sub /\ out - a <= inp
  BY <1>1, <1>2 DEF Books
<1>5. \A k \in 1 .. Len(T) : T[k].id = (out - a) + k
  <2> SUFFICES ASSUME NEW k \in 1 .. Len(T) PROVE T[k].id = (out - a) + k
    OBVIOUS
  <2>1. CASE k \in 1 .. a /\ T[k] = S[k]
    BY <2>1 DEF Books
  <2>2. CASE k - a \in 1 .. b /\ T[k] = Q[k - a]
    <3>1. T[k].id = out + (k - a)
      BY <2>2 DEF Books
    <3> QED
      BY <1>1, <1>2, <3>1
  <2> QED
    BY <1>1, <2>1, <2>2
<1>6. Assigned(out - a, T, inp)
  BY <1>3 DEF Books
<1>7. Books(out - a, E, T, sub, inp)
  BY <1>1, <1>2, <1>4, <1>5, <1>6 DEF Books
<1> QED
  BY <1>3, <1>7 DEF Higher

\* R is Q without its first k elements.
Without(R, Q, k) ==
    /\ k \in 0 .. Len(Q) /\ Len(Q) \in Nat /\ Len(R) = Len(Q) - k
    /\ \A j \in 1 .. Len(R) : R[j] = Q[j + k] /\ j + k \in 1 .. Len(Q)

\* The first k messages of Q are those that seq acknowledges.
Acknowledged(Q, k, seq) ==
    /\ \A j \in 1 .. k : Q[j].seq # 0 /\ Q[j].seq <= seq
    /\ k < Len(Q) => Q[k + 1].seq = 0 \/ Q[k + 1].seq > seq

\* discard_requeued_up_to keeps the books; afterwards out_seq is what the peer has,
\* if that is what it told.
LEMMA BooksDrop ==
    ASSUME NEW out \in Nat, NEW Q, NEW R, NEW E, NEW k, NEW seq \in Nat, Len(E) = 0,
           Without(R, Q, k), Acknowledged(Q, k, seq), Tidy(out, E, Q),
           NEW sub, NEW inp \in Nat, Books(out, E, Q, sub, inp), seq <= inp
    PROVE  /\ Books(out + k, E, R, sub, inp)
           /\ Higher(out, Q, out + k, R)
           /\ seq = inp => out + k = inp
<1>1. /\ k \in 0 .. Len(Q) /\ k \in Nat /\ Len(Q) \in Nat /\ Len(R) = Len(Q) - k
      /\ \A j \in 1 .. Len(R) : R[j] = Q[j + k] /\ j + k \in 1 .. Len(Q)
  BY DEF Without
<1>2. /\ \A j \in 1 .. k : Q[j].seq # 0 /\ Q[j].seq <= seq
      /\ k < Len(Q) => Q[k + 1].seq = 0 \/ Q[k + 1].seq > seq
  BY DEF Acknowledged
<1>3. /\ \A j \in 1 .. Len(Q) : Q[j].seq \in Nat /\ (Q[j].seq = 0 \/ Q[j].seq = out + j)
      /\ \A i, j \in 1 .. Len(Q) : i < j /\ Q[i].seq = 0 => Q[j].seq = 0
  BY DEF Tidy
<1>4. /\ out + Len(Q) = sub /\ out <= inp
      /\ \A j \in 1 .. Len(Q) : Q[j].id = out + j
      /\ Assigned(out, Q, inp)
  BY DEF Books
<1>5. ASSUME NEW v \in Nat, Assigned(out, Q, v) PROVE Assigned(out + k, R, v)
  <2>1. CASE v <= out
    BY <1>1, <2>1 DEF Assigned
  <2>2. CASE \E j \in 1 .. Len(Q) : v <= Q[j].seq
    <3>1. PICK j \in 1 .. Len(Q) : v <= Q[j].seq
      BY <2>2
    <3>2. CASE j <= k
      <4>1. v <= out + j \/ v <= 0
        BY <1>3, <3>1
      <4>2. v <= out + k
        BY <1>1, <3>2, <4>1
      <4> QED
        BY <4>2 DEF Assigned
    <3>3. CASE j > k
      <4>1. j - k \in 1 .. Len(R) /\ (j - k) + k = j
        BY <1>1, <3>3
      <4>2. R[j - k] = Q[j]
        BY <1>1, <4>1
      <4> QED
        BY <3>1, <4>1, <4>2 DEF Assigned
    <3> QED
      BY <1>1, <3>2, <3>3
  <2> QED
    BY <1>5, <2>1, <2>2 DEF Assigned
<1>6. out + k <= inp
  <2>1. CASE k = 0
    BY <1>4, <2>1
  <2>2. CASE k # 0
    <3>1. k \in 1 .. Len(Q) /\ Q[k].seq = out + k /\ Q[k].seq <= seq
      BY <1>1, <1>2, <1>3, <2>2
    <3> QED
      BY <3>1, <1>1
  <2> QED
    BY <2>1, <2>2
<1>7. ASSUME seq = inp PROVE out + k = inp
  <2> SUFFICES ASSUME out + k < inp PROVE FALSE
    BY <1>1, <1>6
  <2>1. PICK j \in 1 .. Len(Q) : inp <= Q[j].seq
    BY <1>1, <1>4 DEF Assigned
  <2>2. Q[j].seq = out + j /\ Q[j].seq # 0
    BY <1>1, <1>3, <2>1
  <2>3. k < j /\ k < Len(Q) /\ k + 1 \in 1 .. Len(Q)
    BY <1>1, <2>1, <2>2
  <2>4. Q[k + 1].seq # 0
    <3>1. CASE k + 1 = j
      BY <2>2, <3>1
    <3>2. CASE k + 1 < j
      BY <1>3, <2>2, <2>3, <3>2
    <3> QED
      BY <1>1, <2>3, <3>1, <3>2
  <2>5. Q[k + 1].seq = out + (k + 1)
    BY <1>3, <2>3, <2>4
  <2> QED
    BY <1>1, <1>2, <1>7, <2>3, <2>4, <2>5
<1>8. Books(out + k, E, R, sub, inp)
  <2>1. (out + k) + Len(R) = sub
    BY <1>1, <1>4
  <2>2. \A j \in 1 .. Len(R) : R[j].id = (out + k) + j
    <3> SUFFICES ASSUME NEW j \in 1 .. Len(R) PROVE R[j].id = (out + k) + j
      OBVIOUS
    <3>1. R[j].id = out + (j + k)
      BY <1>1, <1>4
    <3> QED
      BY <1>1, <3>1
  <2>3. (out + k) - 0 <= inp
    BY <1>1, <1>6
  <2>4. Assigned(out + k, R, inp)
    BY <1>4, <1>5
  <2> QED
    BY <2>1, <2>2, <2>3, <2>4 DEF Books
<1> QED
  BY <1>5, <1>7, <1>8 DEF Higher

\* handle_ack keeps the books.
LEMMA BooksAck ==
    ASSUME NEW out \in Nat, NEW S, NEW Q, NEW R, NEW k, NEW seq \in Nat,
           Without(R, S, k), Acknowledged(S, k, seq), Tidy(out, S, Q),
           NEW sub, NEW inp \in Nat, Books(out, S, Q, sub, inp), seq <= inp
    PROVE  Books(out, R, Q, sub, inp)
<1>1. /\ k \in 0 .. Len(S) /\ k \in Nat /\ Len(S) \in Nat /\ Len(R) = Len(S) - k
      /\ \A j \in 1 .. Len(R) : R[j] = S[j + k] /\ j + k \in 1 .. Len(S)
  BY DEF Without
<1>2. \A j \in 1 .. k : S[j].seq # 0 /\ S[j].seq <= seq
  BY DEF Acknowledged
<1>3. /\ Len(S) <= out /\ \A j \in 1 .. Len(S) : S[j].seq = out - Len(S) + j
  BY DEF Tidy
<1>4. /\ out - Len(S) <= inp
      /\ \A j \in 1 .. Len(S) : S[j].id = out - Len(S) + j
  BY DEF Books
<1>5. out - Len(R) <= inp
  <2>1. CASE k = 0
    BY <1>1, <1>4, <2>1
  <2>2. CASE k # 0
    <3>1. k \in 1 .. k /\ k \in 1 .. Len(S)
      BY <1>1, <2>2
    <3>2. out - Len(S) + k <= seq
      BY <1>2, <1>3, <3>1
    <3> QED
      BY <1>1, <3>2
  <2> QED
    BY <2>1, <2>2
<1>6. \A j \in 1 .. Len(R) : R[j].id = out - Len(R) + j
  <2> SUFFICES ASSUME NEW j \in 1 .. Len(R) PROVE R[j].id = out - Len(R) + j
    OBVIOUS
  <2>1. R[j].id = out - Len(S) + (j + k)
    BY <1>1, <1>4
  <2> QED
    BY <1>1, <2>1
<1> QED
  BY <1>5, <1>6 DEF Books

\* T is S with m at its end, and U is Q without its first element.
Moved(T, S, m, U, Q) ==
    /\ Len(Q) # 0 /\ Len(T) = Len(S) + 1 /\ T[Len(S) + 1] = m
    /\ \A k \in 1 .. Len(S) : T[k] = S[k]
    /\ Len(U) = Len(Q) - 1
    /\ \A k \in 1 .. Len(U) : U[k] = Q[k + 1]

\* _send keeps the books.
LEMMA BooksSend ==
    ASSUME NEW out \in Nat, NEW S, NEW Q, NEW T, NEW U, NEW m, Moved(T, S, m, U, Q),
           Tidy(out, S, Q), NEW sub, NEW inp \in Nat, Books(out, S, Q, sub, inp),
           m.id = Q[1].id
    PROVE  /\ Books(out + 1, T, U, sub, inp)
           /\ Higher(out, Q, out + 1, U)
           /\ m.id = out + 1
<1>1. /\ Len(S) \in Nat /\ Len(Q) \in Nat \ {0} /\ Len(S) <= out
      /\ \A k \in 1 .. Len(Q) : Q[k].seq \in Nat /\ (Q[k].seq = 0 \/ Q[k].seq = out + k)
  BY DEF Tidy, Moved
<1>3. /\ Len(T) = Len(S) + 1 /\ T[Len(S) + 1] = m
      /\ \A k \in 1 .. Len(S) : T[k] = S[k]
      /\ Len(U) = Len(Q) - 1
      /\ \A k \in 1 .. Len(U) : U[k] = Q[k + 1]
  BY DEF Moved
<1>4. /\ out + Len(Q) = sub /\ out - Len(S) <= inp
      /\ \A k \in 1 .. Len(S) : S[k].id = out - Len(S) + k
      /\ \A k \in 1 .. Len(Q) : Q[k].id = out + k
      /\ Assigned(out, Q, inp)
  BY DEF Books
<1>5. m.id = out + 1
  BY <1>1, <1>4
<1>6. ASSUME NEW v \in Nat, Assigned(out, Q, v) PROVE Assigned(out + 1, U, v)
  <2>1. CASE v <= out
    BY <2>1 DEF Assigned
  <2>2. CASE \E j \in 1 .. Len(Q) : v <= Q[j].seq
    <3>1. PICK j \in 1 .. Len(Q) : v <= Q[j].seq
      BY <2>2
    <3>2. CASE j = 1
      <4>1. v <= out + 1
        BY <1>1, <3>1, <3>2
      <4> QED
        BY <4>1 DEF Assigned
    <3>3. CASE j > 1
      <4>1. j - 1 \in 1 .. Len(U) /\ (j - 1) + 1 = j
        BY <1>1, <1>3, <3>3
      <4>2. U[j - 1] = Q[j]
        BY <1>3, <4>1
      <4> QED
        BY <3>1, <4>1, <4>2 DEF Assigned
    <3> QED
      BY <1>1, <3>2, <3>3
  <2> QED
    BY <1>6, <2>1, <2>2 DEF Assigned
<1>7. Books(out + 1, T, U, sub, inp)
  <2>1. (out + 1) + Len(U) = sub /\ (out + 1) - Len(T) <= inp
    BY <1>1, <1>3, <1>4
  <2>2. \A k \in 1 .. Len(T) : T[k].id = (out + 1) - Len(T) + k
    <3> SUFFICES ASSUME NEW k \in 1 .. Len(T) PROVE T[k].id = (out + 1) - Len(T) + k
      OBVIOUS
    <3>1. CASE k = Len(S) + 1
      BY <1>1, <1>3, <1>5, <3>1
    <3>2. CASE k \in 1 .. Len(S)
      <4>1. T[k].id = out - Len(S) + k
        BY <1>3, <1>4, <3>2
      <4> QED
        BY <1>1, <1>3, <4>1
    <3> QED
      BY <1>1, <1>3, <3>1, <3>2
  <2>3. \A k \in 1 .. Len(U) : U[k].id = (out + 1) + k
    <3> SUFFICES ASSUME NEW k \in 1 .. Len(U) PROVE U[k].id = (out + 1) + k
      OBVIOUS
    <3>1. k + 1 \in 1 .. Len(Q)
      BY <1>1, <1>3
    <3>2. U[k].id = out + (k + 1)
      BY <1>3, <1>4, <3>1
    <3> QED
      BY <1>1, <3>1, <3>2
  <2>4. Assigned(out + 1, U, inp)
    BY <1>4, <1>6
  <2> QED
    BY <2>1, <2>2, <2>3, <2>4 DEF Books
<1> QED
  BY <1>5, <1>6, <1>7 DEF Higher

\* R is Q with m at its end.
Extended(R, Q, m) ==
    /\ Len(Q) \in Nat /\ Len(R) = Len(Q) + 1 /\ R[Len(Q) + 1] = m
    /\ \A k \in 1 .. Len(Q) : R[k] = Q[k] /\ k \in 1 .. Len(R)

\* A message that is queued is the next one.
LEMMA BooksQueue ==
    ASSUME NEW out \in Nat, NEW S, NEW Q, NEW R, NEW m, Extended(R, Q, m),
           NEW sub \in Nat, NEW inp \in Nat, Books(out, S, Q, sub, inp), m.id = sub + 1
    PROVE  Books(out, S, R, sub + 1, inp) /\ Higher(out, Q, out, R)
<1>1. /\ Len(Q) \in Nat /\ Len(R) = Len(Q) + 1 /\ R[Len(Q) + 1] = m
      /\ \A k \in 1 .. Len(Q) : R[k] = Q[k] /\ k \in 1 .. Len(R)
  BY DEF Extended
<1>2. /\ out + Len(Q) = sub /\ out - Len(S) <= inp
      /\ \A k \in 1 .. Len(S) : S[k].id = out - Len(S) + k
      /\ \A k \in 1 .. Len(Q) : Q[k].id = out + k
      /\ Assigned(out, Q, inp)
  BY DEF Books
<1>3. Higher(out, Q, out, R)
  BY <1>1 DEF Higher, Assigned
<1>4. out + Len(R) = sub + 1 /\ \A k \in 1 .. Len(R) : R[k].id = out + k
  <2>1. \A k \in 1 .. Len(R) : k \in 1 .. Len(Q) \/ k = Len(Q) + 1
    BY <1>1
  <2>2. m.id = out + (Len(Q) + 1)
    BY <1>1, <1>2
  <2>3. out + Len(R) = sub + 1
    <3>1. Len(Q) \in Nat /\ Len(R) = Len(Q) + 1 /\ out + Len(Q) = sub
      BY <1>1, <1>2
    <3> QED
      BY <3>1
  <2> QED
    BY <1>1, <1>2, <2>1, <2>2, <2>3
<1>5. Assigned(out, R, inp)
  BY <1>2, <1>3 DEF Higher
<1> QED
  BY <1>2, <1>3, <1>4, <1>5 DEF Books

\* What is read first is not a message.
LEMMA InOrderTaken ==
    ASSUME NEW q, NEW q1, NEW b \in Nat, InOrder(q, b), Taken(q, q1), q[1].kind # "msg"
    PROVE  InOrder(q1, b)
<1>1. /\ Len(q) \in Nat \ {0} /\ Len(q1) = Len(q) - 1
      /\ \A k \in 1 .. Len(q1) : q1[k] = q[k + 1]
  BY DEF Taken
<1> SUFFICES ASSUME NEW k \in 1 .. Len(q1), q1[k].kind = "msg"
             PROVE  /\ q1[k].seq \in Nat /\ q1[k].seq > b
                    /\ \A j \in 1 .. (k-1) : q1[j].kind = "msg" => q1[j].seq < q1[k].seq
                    /\ \A v \in (b+1) .. (q1[k].seq - 1) :
                          \E j \in 1 .. (k-1) : q1[j].kind = "msg" /\ q1[j].seq = v
  BY DEF InOrder
<1>2. k + 1 \in 1 .. Len(q) /\ q[k + 1] = q1[k] /\ (k + 1) - 1 = k
  BY <1>1
<1>3. /\ q1[k].seq \in Nat /\ q1[k].seq > b
      /\ \A j \in 1 .. k : q[j].kind = "msg" => q[j].seq < q1[k].seq
      /\ \A v \in (b+1) .. (q1[k].seq - 1) :
            \E j \in 1 .. k : q[j].kind = "msg" /\ q[j].seq = v
  BY <1>2 DEF InOrder
<1>4. \A j \in 1 .. (k-1) : q1[j].kind = "msg" => q1[j].seq < q1[k].seq
  <2> SUFFICES ASSUME NEW j \in 1 .. (k-1), q1[j].kind = "msg" PROVE q1[j].seq < q1[k].seq
    OBVIOUS
  <2>1. j + 1 \in 1 .. k /\ q1[j] = q[j + 1]
    BY <1>1
  <2> QED
    BY <1>3, <2>1
<1>5. ASSUME NEW v \in (b+1) .. (q1[k].seq - 1)
      PROVE  \E j \in 1 .. (k-1) : q1[j].kind = "msg" /\ q1[j].seq = v
  <2>1. PICK j \in 1 .. k : q[j].kind = "msg" /\ q[j].seq = v
    BY <1>3
  <2>2. j # 1
    BY <2>1
  <2>3. j - 1 \in 1 .. (k-1) /\ j - 1 \in 1 .. Len(q1) /\ (j - 1) + 1 = j
    BY <1>1, <2>2
  <2>4. q1[j - 1] = q[j]
    BY <1>1, <2>3
  <2> QED
    BY <2>1, <2>3, <2>4
<1> QED
  BY <1>3, <1>4, <1>5

\* What is read first is the next message.
LEMMA InOrderRead ==
    ASSUME NEW q, NEW q1, NEW b \in Nat, InOrder(q, b), Taken(q, q1), q[1].kind = "msg"
    PROVE  q[1].seq = b + 1 /\ InOrder(q1, b + 1)
<1>1. /\ Len(q) \in Nat \ {0} /\ Len(q1) = Len(q) - 1
      /\ \A k \in 1 .. Len(q1) : q1[k] = q[k + 1]
  BY DEF Taken
<1>2. q[1].seq = b + 1
  <2>1. /\ 1 \in 1 .. Len(q) /\ 1 - 1 = 0
    BY <1>1
  <2>2. /\ q[1].seq \in Nat /\ q[1].seq > b
        /\ \A v \in (b+1) .. (q[1].seq - 1) : \E j \in 1 .. 0 : q[j].kind = "msg" /\ q[j].seq = v
    BY <2>1 DEF InOrder
  <2>3. \A v \in (b+1) .. (q[1].seq - 1) : FALSE
    BY <2>2
  <2> QED
    BY <2>2, <2>3
<1> SUFFICES ASSUME NEW k \in 1 .. Len(q1), q1[k].kind = "msg"
             PROVE  /\ q1[k].seq \in Nat /\ q1[k].seq > b + 1
                    /\ \A j \in 1 .. (k-1) : q1[j].kind = "msg" => q1[j].seq < q1[k].seq
                    /\ \A v \in (b+1+1) .. (q1[k].seq - 1) :
                          \E j \in 1 .. (k-1) : q1[j].kind = "msg" /\ q1[j].seq = v
  BY <1>2 DEF InOrder
<1>3. k + 1 \in 1 .. Len(q) /\ q[k + 1] = q1[k] /\ (k + 1) - 1 = k /\ 1 \in 1 .. k
  BY <1>1
<1>4. /\ q1[k].seq \in Nat
      /\ \A j \in 1 .. k : q[j].kind = "msg" => q[j].seq < q1[k].seq
      /\ \A v \in (b+1) .. (q1[k].seq - 1) :
            \E j \in 1 .. k : q[j].kind = "msg" /\ q[j].seq = v
  BY <1>3 DEF InOrder
<1>5. q1[k].seq > b + 1
  BY <1>2, <1>3, <1>4
<1>6. \A j \in 1 .. (k-1) : q1[j].kind = "msg" => q1[j].seq < q1[k].seq
  <2> SUFFICES ASSUME NEW j \in 1 .. (k-1), q1[j].kind = "msg" PROVE q1[j].seq < q1[k].seq
    OBVIOUS
  <2>1. j + 1 \in 1 .. k /\ q1[j] = q[j + 1]
    BY <1>1
  <2> QED
    BY <1>4, <2>1
<1>7. ASSUME NEW v \in (b+1+1) .. (q1[k].seq - 1)
      PROVE  \E j \in 1 .. (k-1) : q1[j].kind = "msg" /\ q1[j].seq = v
  <2>0. v \in (b+1) .. (q1[k].seq - 1) /\ v # b + 1
    BY <1>4
  <2>1. PICK j \in 1 .. k : q[j].kind = "msg" /\ q[j].seq = v
    BY <1>4, <2>0
  <2>2. j # 1
    BY <1>2, <2>0, <2>1
  <2>3. j - 1 \in 1 .. (k-1) /\ j - 1 \in 1 .. Len(q1) /\ (j - 1) + 1 = j
    BY <1>1, <2>2
  <2>4. q1[j - 1] = q[j]
    BY <1>1, <2>3
  <2> QED
    BY <2>1, <2>3, <2>4
<1> QED
  BY <1>4, <1>5, <1>6, <1>7

\* What is sent is not a message.
LEMMA InOrderGiven ==
    ASSUME NEW q, NEW q1, NEW b \in Nat, InOrder(q, b), NEW item, Given(q, q1, item),
           item.kind # "msg"
    PROVE  InOrder(q1, b)
<1>1. CASE q1 = q
  BY <1>1
<1>2. CASE q1 # q
  <2>1. /\ Len(q) \in Nat /\ Len(q1) = Len(q) + 1 /\ q1[Len(q) + 1] = item
        /\ \A k \in 1 .. Len(q) : q1[k] = q[k]
    BY <1>2 DEF Given
  <2> SUFFICES ASSUME NEW k \in 1 .. Len(q1), q1[k].kind = "msg"
               PROVE  /\ q1[k].seq \in Nat /\ q1[k].seq > b
                      /\ \A j \in 1 .. (k-1) : q1[j].kind = "msg" => q1[j].seq < q1[k].seq
                      /\ \A v \in (b+1) .. (q1[k].seq - 1) :
                            \E j \in 1 .. (k-1) : q1[j].kind = "msg" /\ q1[j].seq = v
    BY DEF InOrder
  <2>2. k \in 1 .. Len(q) /\ \A j \in 1 .. (k-1) : j \in 1 .. Len(q)
    BY <2>1
  <2>3. /\ q[k].kind = "msg" /\ q1[k] = q[k]
        /\ \A j \in 1 .. (k-1) : q1[j] = q[j]
    BY <2>1, <2>2
  <2>4. /\ q[k].seq \in Nat /\ q[k].seq > b
        /\ \A j \in 1 .. (k-1) : q[j].kind = "msg" => q[j].seq < q[k].seq
        /\ \A v \in (b+1) .. (q[k].seq - 1) :
              \E j \in 1 .. (k-1) : q[j].kind = "msg" /\ q[j].seq = v
    BY <2>2, <2>3 DEF InOrder
  <2> QED
    BY <2>3, <2>4
<1> QED
  BY <1>1, <1>2

\* The next message is sent.
LEMMA InOrderSent ==
    ASSUME NEW q, NEW q1, NEW b \in Nat, NEW item, NEW live, NEW o \in Nat, InOrder(q, b),
           Carried(q, q1, item, live), item.kind = "msg", item.seq = o + 1,
           Reached(q, b, o, live)
    PROVE  InOrder(q1, b) /\ Reached(q1, b, o + 1, live)
<1> SUFFICES ASSUME b <= o, \A j \in 1 .. Len(q) : q[j].kind = "msg" => q[j].seq <= o,
                    live = "yes" => \A v \in (b + 1) .. o :
                        \E j \in 1 .. Len(q) : q[j].kind = "msg" /\ q[j].seq = v
             PROVE  /\ InOrder(q1, b)
                    /\ \A j \in 1 .. Len(q1) : q1[j].kind = "msg" => q1[j].seq <= o + 1
                    /\ live = "yes" => \A v \in (b + 1) .. (o + 1) :
                          \E j \in 1 .. Len(q1) : q1[j].kind = "msg" /\ q1[j].seq = v
  BY DEF Reached
<1>1. CASE live # "yes"
  <2>1. q1 = q
    BY <1>1 DEF Carried
  <2>2. \A j \in 1 .. Len(q) : q[j].kind = "msg" => q[j].seq \in Nat
    BY DEF InOrder
  <2>3. \A j \in 1 .. Len(q) : q[j].kind = "msg" => q[j].seq <= o + 1
    BY <2>2
  <2> QED
    BY <1>1, <2>1, <2>3
<1>2. CASE live = "yes"
  <2>1. /\ Len(q) \in Nat /\ Len(q1) = Len(q) + 1 /\ q1[Len(q) + 1] = item
        /\ \A k \in 1 .. Len(q) : q1[k] = q[k]
    BY <1>2 DEF Carried
  <2>2. \A j \in 1 .. Len(q) : q[j].kind = "msg" => q[j].seq \in Nat
    BY DEF InOrder
  <2>3. \A j \in 1 .. Len(q1) : q1[j].kind = "msg" => q1[j].seq <= o + 1
    <3> SUFFICES ASSUME NEW j \in 1 .. Len(q1), q1[j].kind = "msg" PROVE q1[j].seq <= o + 1
      OBVIOUS
    <3>1. j \in 1 .. Len(q) \/ j = Len(q) + 1
      BY <2>1
    <3> QED
      BY <2>1, <2>2, <3>1
  <2>4. ASSUME NEW v \in (b + 1) .. (o + 1)
        PROVE  \E j \in 1 .. Len(q1) : q1[j].kind = "msg" /\ q1[j].seq = v
    <3>1. CASE v = o + 1
      <4>1. Len(q) + 1 \in 1 .. Len(q1)
        BY <2>1
      <4> QED
        BY <2>1, <3>1, <4>1
    <3>2. CASE v # o + 1
      <4>1. v \in (b + 1) .. o
        BY <3>2
      <4>2. PICK j \in 1 .. Len(q) : q[j].kind = "msg" /\ q[j].seq = v
        BY <1>2, <4>1
      <4>3. j \in 1 .. Len(q1) /\ q1[j] = q[j]
        BY <2>1
      <4> QED
        BY <4>2, <4>3
    <3> QED
      BY <3>1, <3>2
  <2>5. InOrder(q1, b)
    <3> SUFFICES ASSUME NEW k \in 1 .. Len(q1), q1[k].kind = "msg"
                 PROVE  /\ q1[k].seq \in Nat /\ q1[k].seq > b
                        /\ \A j \in 1 .. (k-1) : q1[j].kind = "msg" => q1[j].seq < q1[k].seq
                        /\ \A v \in (b+1) .. (q1[k].seq - 1) :
                              \E j \in 1 .. (k-1) : q1[j].kind = "msg" /\ q1[j].seq = v
      BY DEF InOrder
    <3>1. CASE k \in 1 .. Len(q)
      <4>1. /\ q[k].kind = "msg" /\ q1[k] = q[k]
            /\ \A j \in 1 .. (k-1) : q1[j] = q[j] /\ j \in 1 .. Len(q)
        BY <2>1, <3>1
      <4>2. /\ q[k].seq \in Nat /\ q[k].seq > b
            /\ \A j \in 1 .. (k-1) : q[j].kind = "msg" => q[j].seq < q[k].seq
            /\ \A v \in (b+1) .. (q[k].seq - 1) :
                  \E j \in 1 .. (k-1) : q[j].kind = "msg" /\ q[j].seq = v
        BY <3>1, <4>1 DEF InOrder
      <4> QED
        BY <4>1, <4>2
    <3>2. CASE k = Len(q) + 1
      <4>1. /\ k - 1 = Len(q) /\ q1[k].seq = o + 1 /\ (o + 1) - 1 = o
            /\ \A j \in 1 .. Len(q) : q1[j] = q[j]
        BY <2>1, <3>2
      <4>2. \A j \in 1 .. Len(q) : q1[j].kind = "msg" => q1[j].seq < o + 1
        BY <2>2, <4>1
      <4>3. \A v \in (b + 1) .. o : \E j \in 1 .. Len(q) : q1[j].kind = "msg" /\ q1[j].seq = v
        BY <1>2, <4>1
      <4> QED
        BY <4>1, <4>2, <4>3
    <3> QED
      BY <2>1, <3>1, <3>2
  <2> QED
    BY <2>3, <2>4, <2>5
<1> QED
  BY <1>1, <1>2

\* Nothing to read.
LEMMA EndEmpty ==
    ASSUME NEW c, NEW q, Len(q) = 0
    PROVE  EndOK(c, q)
BY DEF EndOK, InOrder

\* Nothing is under way from c, which is not open.
LEMMA LinkEmpty ==
    ASSUME NEW c, NEW d, NEW q, NEW live, Len(q) = 0, c.state # "OPEN",
           c.state = "ACCEPTING_REPLY" /\ c.reply.tag = "READY" => Fresh(d),
           c.state = "ACCEPTING_WAIT_CONNECT_MSG" /\ c.replacing = 2
              /\ Flag(c, "is_reset_from_peer") => Fresh(d)
    PROVE  Link(c, d, q, live)
<1>1. \A j \in 1 .. Len(q) : FALSE
  OBVIOUS
<1> QED
  BY <1>1 DEF Link

\* The first item that is sent.
LEMMA FirstItem ==
    ASSUME NEW q, NEW q1, NEW item, Len(q) = 0, Given(q, q1, item)
    PROVE  Len(q1) <= 1 /\ Len(q1) \in Nat /\ \A k \in 1 .. Len(q1) : q1[k] = item
<1>1. CASE q1 = q
  BY <1>1
<1>2. CASE q1 # q
  <2>1. Len(q1) = 1 /\ q1[1] = item
    BY <1>2 DEF Given
  <2> QED
    BY <2>1
<1> QED
  BY <1>1, <1>2

\* Who has received nothing and given no number, talks to one that has nothing.
LEMMA FreshPeer ==
    ASSUME NEW c, NEW v \in Nat, Fresh(c), Assigned(c.out_seq, c.out_q, v)
    PROVE  v = 0
BY DEF Fresh, Assigned

\* What the connecting side knows when it has a banner or a refusal to read.
LEMMA AnswerToRead ==
    ASSUME NEW c, NEW x, NEW qn, NEW qp, NEW qn1, Len(qp) \in Nat,
           \/ c.state = "CONNECTING_WAIT_BANNER"
           \/ /\ c.state = "CONNECTING_WAIT_CONNECT_REPLY" /\ qn[1].kind = "reply"
              /\ qn[1].tag \notin {"READY", "SEQ"},
           Paired(c, x, qn, qp), Taken(qn, qn1)
    PROVE  x.state = "ACCEPTING_WAIT_CONNECT_MSG" /\ Len(qn1) = 0 /\ Len(qp) = 0
<1>1. Len(qn) \in Nat \ {0} /\ Len(qn1) = Len(qn) - 1 /\ 1 \in 1 .. Len(qn)
  BY DEF Taken
<1>2. ~Talk(x, c, qp, qn)
  BY DEF Talk
<1>3. Talk(c, x, qn, qp)
  BY <1>2 DEF Paired
<1> QED
  BY <1>1, <1>3 DEF Talk

\* RecvBanner, and another attempt after a refusal.
LEMMA SidesRetry ==
    ASSUME NEW c, NEW d, NEW x, NEW qn, NEW qp, NEW qn1, NEW qp1, NEW item, NEW live,
           d.state = "CONNECTING_WAIT_CONNECT_REPLY", Keeps(c, d),
           x.state = "ACCEPTING_WAIT_CONNECT_MSG", Len(qn1) = 0, Len(qp) = 0,
           item.kind = "connect", Given(qp, qp1, item), x.in_seq \in Nat,
           Sides(c, x, qn, qp, live), Assigned(c.out_seq, c.out_q, x.in_seq)
    PROVE  Sides(d, x, qn1, qp1, live)
<1>1. Len(qp1) <= 1 /\ Len(qp1) \in Nat /\ \A k \in 1 .. Len(qp1) : qp1[k] = item
  BY FirstItem
<1>2. EndOK(d, qn1)
  BY EndEmpty
<1>3. x.replacing = 2 /\ Flag(x, "is_reset_from_peer") => Fresh(c) /\ Fresh(d) /\ x.in_seq = 0
  <2>1. x.replacing = 2 /\ Flag(x, "is_reset_from_peer") => Fresh(c)
    BY DEF Sides, Link
  <2>2. Fresh(c) => Fresh(d)
    BY DEF Fresh, Keeps
  <2>3. Fresh(c) => x.in_seq = 0
    BY FreshPeer
  <2> QED
    BY <2>1, <2>2, <2>3
<1>4. EndOK(x, qp1)
  BY <1>1, <1>3 DEF EndOK, InOrder
<1>5. Link(d, x, qp1, live)
  BY <1>1 DEF Link
<1>6. Link(x, d, qn1, live)
  BY <1>3, LinkEmpty
<1> QED
  BY <1>2, <1>4, <1>5, <1>6 DEF Sides

\* add_accept: the banner.
LEMMA SidesAccept ==
    ASSUME NEW d, NEW x, NEW qn, NEW qp, NEW qp1, NEW item, NEW live,
           d.state = "ACCEPTING_WAIT_CONNECT_MSG", d.replacing = 0,
           x.state = "CONNECTING_WAIT_BANNER", Len(qn) = 0, Len(qp) = 0,
           item.kind = "banner", Given(qp, qp1, item)
    PROVE  Sides(d, x, qn, qp1, live)
<1>1. Len(qp1) <= 1 /\ Len(qp1) \in Nat /\ \A k \in 1 .. Len(qp1) : qp1[k] = item
  BY FirstItem
<1>2. EndOK(d, qn)
  BY EndEmpty
<1>3. EndOK(x, qp1)
  BY <1>1 DEF EndOK, InOrder
<1>4. Link(d, x, qp1, live)
  BY <1>1 DEF Link
<1>5. Link(x, d, qn, live)
  BY LinkEmpty
<1> QED
  BY <1>2, <1>3, <1>4, <1>5 DEF Sides

\* do_replace: the connection takes over the socket and refuses.
LEMMA SidesTake ==
    ASSUME NEW d, NEW x, NEW qn, NEW qp, NEW qp1, NEW item, NEW live,
           d.state = "ACCEPTING_WAIT_CONNECT_MSG",
           x.state = "CONNECTING_WAIT_CONNECT_REPLY", Len(qn) = 0, Len(qp) = 0,
           item.kind = "reply", item.tag = "RETRY_SESSION", Given(qp, qp1, item),
           Flag(d, "is_reset_from_peer") => Fresh(x)
    PROVE  Sides(d, x, qn, qp1, live)
<1>1. Len(qp1) <= 1 /\ Len(qp1) \in Nat /\ \A k \in 1 .. Len(qp1) : qp1[k] = item
  BY FirstItem
<1>2. EndOK(d, qn)
  BY EndEmpty
<1>3. EndOK(x, qp1)
  BY <1>1 DEF EndOK, InOrder
<1>4. Link(d, x, qp1, live)
  BY <1>1 DEF Link
<1>5. Link(x, d, qn, live)
  BY LinkEmpty
<1> QED
  BY <1>2, <1>3, <1>4, <1>5 DEF Sides

\* _reply_accept: the attempt is refused.
LEMMA SidesRefuse ==
    ASSUME NEW d, NEW x, NEW qn1, NEW qp, NEW qp1, NEW item, NEW live,
           d.state = "ACCEPTING_WAIT_CONNECT_MSG", d.replacing = 0,
           x.state = "CONNECTING_WAIT_CONNECT_REPLY", Len(qn1) = 0, Len(qp) = 0,
           item.kind = "reply", item.tag \notin {"READY", "SEQ"}, Given(qp, qp1, item)
    PROVE  Sides(d, x, qn1, qp1, live)
<1>1. Len(qp1) <= 1 /\ Len(qp1) \in Nat /\ \A k \in 1 .. Len(qp1) : qp1[k] = item
  BY FirstItem
<1>2. EndOK(d, qn1)
  BY EndEmpty
<1>3. EndOK(x, qp1)
  BY <1>1 DEF EndOK, InOrder
<1>4. Link(d, x, qp1, live)
  BY <1>1 DEF Link
<1>5. Link(x, d, qn1, live)
  BY LinkEmpty
<1> QED
  BY <1>2, <1>3, <1>4, <1>5 DEF Sides

\* accept_open: the attempt is accepted; a reply READY is for a peer that is fresh.
LEMMA SidesOpen ==
    ASSUME NEW d, NEW x, NEW qn1, NEW qp, NEW live,
           d.state = "ACCEPTING_REPLY",
           x.state = "CONNECTING_WAIT_CONNECT_REPLY", Len(qn1) = 0, Len(qp) = 0,
           d.reply.tag = "READY" => Fresh(x)
    PROVE  Sides(d, x, qn1, qp, live)
<1>1. EndOK(d, qn1) /\ EndOK(x, qp)
  BY EndEmpty
<1>2. Link(d, x, qp, live)
  BY LinkEmpty
<1>3. Link(x, d, qn1, live)
  BY LinkEmpty
<1> QED
  BY <1>1, <1>2, <1>3 DEF Sides

\* What the accepting side knows when it is to reply.
LEMMA ReplyToSend ==
    ASSUME NEW c, NEW x, NEW qn, NEW qp, c.state = "ACCEPTING_REPLY", Paired(c, x, qn, qp)
    PROVE  x.state = "CONNECTING_WAIT_CONNECT_REPLY" /\ Len(qp) = 0
<1>1. ~Talk(c, x, qn, qp)
  BY DEF Talk
<1>2. Talk(x, c, qp, qn)
  BY <1>1 DEF Paired
<1> QED
  BY <1>2 DEF Talk

\* accept_reply: READY opens the connection, SEQ waits for what the peer has.
LEMMA SidesReply ==
    ASSUME NEW c, NEW d, NEW x, NEW qn, NEW qp, NEW qp1, NEW live, NEW r,
           c.state = "ACCEPTING_REPLY", r = c.reply, r.kind \in {"none", "reply"},
           r.tag \in {"READY", "SEQ"}, r.seq = c.in_seq, Keeps(c, d),
           d.state = IF r.tag = "SEQ" THEN "ACCEPTING_WAIT_SEQ" ELSE "OPEN",
           x.state = "CONNECTING_WAIT_CONNECT_REPLY", Len(qp) = 0, Given(qp, qp1, r),
           c.out_seq <= x.in_seq, c.out_seq \in Nat, x.in_seq \in Nat,
           Sides(c, x, qn, qp, live)
    PROVE  Sides(d, x, qn, qp1, live)
<1>1. Len(qp1) <= 1 /\ Len(qp1) \in Nat /\ \A k \in 1 .. Len(qp1) : qp1[k] = r
  BY FirstItem
<1>2. r.tag = "READY" => Fresh(x)
  BY DEF Sides, Link
<1>3. EndOK(x, qp1)
  BY <1>1, <1>2 DEF EndOK, InOrder
<1>4. EndOK(d, qn)
  <2>1. InOrder(qn, d.in_seq)
    BY DEF Sides, EndOK, Keeps
  <2> QED
    BY <2>1 DEF EndOK
<1>5. Link(d, x, qp1, live)
  <2>1. CASE r.tag = "SEQ"
    <3>1. d.state = "ACCEPTING_WAIT_SEQ" /\ d.in_seq = c.in_seq
      BY <2>1 DEF Keeps
    <3> QED
      BY <1>1, <3>1 DEF Link
  <2>2. CASE r.tag = "READY"
    <3>1. d.state = "OPEN" /\ d.out_seq = 0 /\ x.in_seq = 0
      BY <1>2, <2>2 DEF Fresh, Keeps
    <3>2. Flow(d, x, qp1, live)
      BY <1>1, <3>1 DEF Flow
    <3> QED
      BY <1>1, <2>2, <3>1, <3>2 DEF Link
  <2> QED
    BY <2>1, <2>2
<1>6. Link(x, d, qn, live)
  <2>1. \A j \in 1 .. Len(qn) : qn[j].kind \notin {"msg", "seq", "ack"}
    BY DEF Sides, Link
  <2>2. d.state \in {"ACCEPTING_WAIT_SEQ", "OPEN"}
    OBVIOUS
  <2> QED
    BY <2>1, <2>2 DEF Link
<1> QED
  BY <1>3, <1>4, <1>5, <1>6 DEF Sides

\* The items after one was read.
LEMMA TakenItems ==
    ASSUME NEW q, NEW q1, Taken(q, q1)
    PROVE  /\ 1 \in 1 .. Len(q) /\ Len(q) \in Nat
           /\ \A j \in 1 .. Len(q1) : j + 1 \in 1 .. Len(q) /\ q1[j] = q[j + 1] /\ j + 1 # 1
           /\ \A j \in 1 .. Len(q) : j = 1 \/ (j - 1 \in 1 .. Len(q1) /\ q1[j - 1] = q[j])
<1>1. /\ Len(q) \in Nat \ {0} /\ Len(q1) = Len(q) - 1
      /\ \A k \in 1 .. Len(q1) : q1[k] = q[k + 1]
  BY DEF Taken
<1>2. \A j \in 1 .. Len(q) : j # 1 => j - 1 \in 1 .. Len(q1) /\ (j - 1) + 1 = j
  BY <1>1
<1>3. \A j \in 1 .. Len(q) : j = 1 \/ (j - 1 \in 1 .. Len(q1) /\ q1[j - 1] = q[j])
  BY <1>1, <1>2
<1> QED
  BY <1>1, <1>3

\* The items after one was sent.
LEMMA GivenItems ==
    ASSUME NEW q, NEW q1, NEW item, Given(q, q1, item)
    PROVE  /\ \A j \in 1 .. Len(q1) : q1[j] = item \/ (j \in 1 .. Len(q) /\ q1[j] = q[j])
           /\ \A j \in 1 .. Len(q) : j \in 1 .. Len(q1) /\ q1[j] = q[j]
<1>1. CASE q1 = q
  BY <1>1
<1>2. CASE q1 # q
  <2>1. /\ Len(q) \in Nat /\ Len(q1) = Len(q) + 1 /\ q1[Len(q) + 1] = item
        /\ \A k \in 1 .. Len(q) : q1[k] = q[k]
    BY <1>2 DEF Given
  <2>2. \A j \in 1 .. Len(q1) : j \in 1 .. Len(q) \/ j = Len(q) + 1
    BY <2>1
  <2>3. \A j \in 1 .. Len(q) : j \in 1 .. Len(q1)
    BY <2>1
  <2> QED
    BY <2>1, <2>2, <2>3
<1> QED
  BY <1>1, <1>2

\* Sent, or lost.
LEMMA CarriedGiven ==
    ASSUME NEW q, NEW q1, NEW item, NEW live, Carried(q, q1, item, live)
    PROVE  Given(q, q1, item)
BY DEF Carried, Given

\* What d has read is not a message.
LEMMA FlowTaken ==
    ASSUME NEW c, NEW d, NEW d1, NEW q, NEW q1, NEW live, Flow(c, d, q, live), Taken(q, q1),
           q[1].kind # "msg", d1.in_seq = d.in_seq
    PROVE  Flow(c, d1, q1, live)
<1>1. /\ \A j \in 1 .. Len(q1) : j + 1 \in 1 .. Len(q) /\ q1[j] = q[j + 1]
      /\ \A j \in 1 .. Len(q) : j = 1 \/ (j - 1 \in 1 .. Len(q1) /\ q1[j - 1] = q[j])
  BY TakenItems
<1>2. \A j \in 1 .. Len(q1) : q1[j].kind = "msg" => q1[j].seq <= c.out_seq
  BY <1>1, SMTT(30) DEF Flow
<1>3. ASSUME live = "yes", NEW v \in (d1.in_seq + 1) .. c.out_seq
      PROVE  \E j \in 1 .. Len(q1) : q1[j].kind = "msg" /\ q1[j].seq = v
  <2>1. PICK j \in 1 .. Len(q) : q[j].kind = "msg" /\ q[j].seq = v
    BY <1>3 DEF Flow
  <2>2. j - 1 \in 1 .. Len(q1) /\ q1[j - 1] = q[j]
    BY <1>1, <2>1
  <2> QED
    BY <2>1, <2>2
<1>4. d1.in_seq <= c.out_seq
  BY DEF Flow
<1> QED
  BY <1>2, <1>3, <1>4 DEF Flow

\* d has read the next message.
LEMMA FlowRead ==
    ASSUME NEW c, NEW d, NEW d1, NEW q, NEW q1, NEW live, Flow(c, d, q, live), Taken(q, q1),
           q[1].kind = "msg", q[1].seq = d.in_seq + 1, d1.in_seq = d.in_seq + 1,
           d.in_seq \in Nat
    PROVE  Flow(c, d1, q1, live)
<1>1. /\ 1 \in 1 .. Len(q)
      /\ \A j \in 1 .. Len(q1) : j + 1 \in 1 .. Len(q) /\ q1[j] = q[j + 1]
      /\ \A j \in 1 .. Len(q) : j = 1 \/ (j - 1 \in 1 .. Len(q1) /\ q1[j - 1] = q[j])
  BY TakenItems
<1>a. \A j \in 1 .. Len(q) : q[j].kind = "msg" => q[j].seq <= c.out_seq
  BY DEF Flow
<1>2. \A j \in 1 .. Len(q1) : q1[j].kind = "msg" => q1[j].seq <= c.out_seq
  BY <1>1, <1>a
<1>3. ASSUME live = "yes", NEW v \in (d1.in_seq + 1) .. c.out_seq
      PROVE  \E j \in 1 .. Len(q1) : q1[j].kind = "msg" /\ q1[j].seq = v
  <2>0. v \in (d.in_seq + 1) .. c.out_seq /\ v # d.in_seq + 1
    OBVIOUS
  <2>1. PICK j \in 1 .. Len(q) : q[j].kind = "msg" /\ q[j].seq = v
    BY <1>3, <2>0 DEF Flow
  <2>2. j - 1 \in 1 .. Len(q1) /\ q1[j - 1] = q[j]
    BY <1>1, <2>0, <2>1
  <2> QED
    BY <2>1, <2>2
<1>4. d1.in_seq <= c.out_seq
  BY <1>1 DEF Flow
<1> QED
  BY <1>2, <1>3, <1>4 DEF Flow

\* What the connecting side knows when it has READY or SEQ to read.
LEMMA ConfirmationToRead ==
    ASSUME NEW c, NEW x, NEW qn, NEW qp, NEW qn1,
           c.state = "CONNECTING_WAIT_CONNECT_REPLY", qn[1].kind = "reply",
           qn[1].tag \in {"READY", "SEQ"}, Paired(c, x, qn, qp), Taken(qn, qn1)
    PROVE  x.state \in {"ACCEPTING_WAIT_SEQ", "OPEN"}
<1>1. Len(qn) # 0 /\ 1 \in 1 .. Len(qn)
  BY TakenItems DEF Taken
<1>2. ~Talk(x, c, qp, qn)
  BY DEF Talk
<1>3. Talk(c, x, qn, qp)
  BY <1>2 DEF Paired
<1> QED
  BY <1>1, <1>3 DEF Talk

\* The connecting side opens: its numbers go on from what the peer has.
LEMMA SidesOpened ==
    ASSUME NEW c, NEW d, NEW x, NEW qn, NEW qp, NEW qn1, NEW qp1, NEW item, NEW live,
           c.state = "CONNECTING_WAIT_CONNECT_REPLY", d.state = "OPEN",
           d.in_seq = c.in_seq, d.out_seq = x.in_seq, c.in_seq \in Nat, x.in_seq \in Nat,
           x.state \in {"ACCEPTING_WAIT_SEQ", "OPEN"},
           qn[1].kind = "reply", Taken(qn, qn1), Given(qp, qp1, item),
           item.kind = "seq", item.seq = d.in_seq, Sides(c, x, qn, qp, live)
    PROVE  Sides(d, x, qn1, qp1, live)
<1>1. /\ EndOK(c, qn) /\ EndOK(x, qp) /\ Link(c, x, qp, live) /\ Link(x, c, qn, live)
  BY DEF Sides
<1>2. EndOK(d, qn1)
  <2>1. InOrder(qn1, d.in_seq)
    BY <1>1, InOrderTaken DEF EndOK
  <2> QED
    BY <2>1 DEF EndOK
<1>3. EndOK(x, qp1)
  <2>1. InOrder(qp1, x.in_seq)
    BY <1>1, InOrderGiven DEF EndOK
  <2> QED
    BY <2>1 DEF EndOK
<1>4. \A j \in 1 .. Len(qp1) : \/ qp1[j] = item
                               \/ qp1[j].kind \notin {"msg", "seq", "ack"}
  <2>1. \A j \in 1 .. Len(qp) : qp[j].kind \notin {"msg", "seq", "ack"}
    BY <1>1 DEF Link
  <2>2. \A j \in 1 .. Len(qp1) : qp1[j] = item \/ (j \in 1 .. Len(qp) /\ qp1[j] = qp[j])
    BY GivenItems
  <2> QED
    BY <2>1, <2>2
<1>5. Flow(d, x, qp1, live)
  BY <1>4 DEF Flow
<1>6. Link(d, x, qp1, live)
  BY <1>4, <1>5 DEF Link
<1>7. Link(x, d, qn1, live)
  <2>1. x.state = "OPEN" => Flow(x, d, qn1, live)
    BY <1>1, FlowTaken DEF Link
  <2>2. x.state # "OPEN" => \A j \in 1 .. Len(qn1) : qn1[j].kind \notin {"msg", "seq", "ack"}
    BY <1>1, TakenItems DEF Link
  <2> QED
    BY <2>1, <2>2 DEF Link
<1> QED
  BY <1>2, <1>3, <1>6, <1>7 DEF Sides

\* RecvSeq: the accepting side opens.
LEMMA SidesRecvSeq ==
    ASSUME NEW c, NEW d, NEW x, NEW qn, NEW qp, NEW qn1, NEW live,
           c.state = "ACCEPTING_WAIT_SEQ", d.state = "OPEN",
           d.in_seq = c.in_seq, d.out_seq = x.in_seq, c.in_seq \in Nat, x.in_seq \in Nat,
           qn[1].kind = "seq", Taken(qn, qn1), Sides(c, x, qn, qp, live)
    PROVE  Sides(d, x, qn1, qp, live)
<1>1. /\ EndOK(c, qn) /\ EndOK(x, qp) /\ Link(c, x, qp, live) /\ Link(x, c, qn, live)
  BY DEF Sides
<1>2. EndOK(d, qn1)
  <2>1. InOrder(qn1, d.in_seq)
    BY <1>1, InOrderTaken DEF EndOK
  <2> QED
    BY <2>1 DEF EndOK
<1>3. x.state = "OPEN"
  BY <1>1, TakenItems DEF Link
<1>4. \A j \in 1 .. Len(qp) : qp[j].kind \notin {"msg", "seq", "ack"}
  BY <1>1 DEF Link
<1>5. Flow(d, x, qp, live)
  BY <1>4 DEF Flow
<1>6. Link(d, x, qp, live)
  BY <1>3, <1>5 DEF Link
<1>7. Link(x, d, qn1, live)
  <2>1. Flow(x, d, qn1, live)
    BY <1>1, <1>3, FlowTaken DEF Link
  <2> QED
    BY <1>3, <2>1 DEF Link
<1> QED
  BY <1>1, <1>2, <1>6, <1>7 DEF Sides

\* Who is at the other end of an open connection.
LEMMA OpenPeer ==
    ASSUME NEW c, NEW x, NEW qn, NEW qp, c.state = "OPEN", Paired(c, x, qn, qp)
    PROVE  x.state \in {"CONNECTING_WAIT_CONNECT_REPLY", "ACCEPTING_WAIT_SEQ", "OPEN"}
BY DEF Paired, Talk

\* An open connection sends the next message.
LEMMA SidesSend ==
    ASSUME NEW c, NEW d, NEW x, NEW qn, NEW qp, NEW qp1, NEW item, NEW live,
           c.state = "OPEN", d.state = "OPEN", d.in_seq = c.in_seq,
           d.out_seq = c.out_seq + 1, c.out_seq \in Nat, x.in_seq \in Nat,
           item.kind = "msg", item.seq = c.out_seq + 1, Carried(qp, qp1, item, live),
           x.state \in {"CONNECTING_WAIT_CONNECT_REPLY", "ACCEPTING_WAIT_SEQ", "OPEN"},
           Sides(c, x, qn, qp, live)
    PROVE  Sides(d, x, qn, qp1, live)
<1>1. /\ EndOK(c, qn) /\ EndOK(x, qp) /\ Link(c, x, qp, live) /\ Link(x, c, qn, live)
  BY DEF Sides
<1>2. EndOK(d, qn)
  BY <1>1 DEF EndOK
<1>3. /\ InOrder(qp1, x.in_seq)
      /\ \A j \in 1 .. Len(qp1) : qp1[j].kind = "msg" => qp1[j].seq <= c.out_seq + 1
      /\ live = "yes" => \A v \in (x.in_seq + 1) .. (c.out_seq + 1) :
                              \E j \in 1 .. Len(qp1) : qp1[j].kind = "msg" /\ qp1[j].seq = v
  <2>1. Flow(c, x, qp, live) /\ InOrder(qp, x.in_seq)
    BY <1>1 DEF Link, EndOK
  <2>2. Reached(qp, x.in_seq, c.out_seq, live)
    BY <2>1 DEF Flow, Reached
  <2>3. InOrder(qp1, x.in_seq) /\ Reached(qp1, x.in_seq, c.out_seq + 1, live)
    BY <2>1, <2>2, InOrderSent
  <2> QED
    BY <2>3 DEF Reached
<1>4. \A j \in 1 .. Len(qp1) : qp1[j] = item \/ (j \in 1 .. Len(qp) /\ qp1[j] = qp[j])
  BY CarriedGiven, GivenItems
<1>5. EndOK(x, qp1)
  BY <1>1, <1>3, <1>4 DEF EndOK
<1>6. x.in_seq <= c.out_seq + 1
  BY <1>1 DEF Link, Flow
<1>7. Flow(d, x, qp1, live)
  BY <1>3, <1>6 DEF Flow
<1>8. Link(d, x, qp1, live)
  BY <1>1, <1>4, <1>7 DEF Link
<1>9. Link(x, d, qn, live)
  BY <1>1 DEF Link, Flow
<1> QED
  BY <1>2, <1>5, <1>8, <1>9 DEF Sides

\* An open connection acknowledges.
LEMMA SidesAck ==
    ASSUME NEW c, NEW d, NEW x, NEW qn, NEW qp, NEW qp1, NEW item, NEW live,
           c.state = "OPEN", d.state = "OPEN", Keeps(c, d), x.in_seq \in Nat,
           item.kind = "ack", Given(qp, qp1, item),
           x.state \in {"CONNECTING_WAIT_CONNECT_REPLY", "ACCEPTING_WAIT_SEQ", "OPEN"},
           Sides(c, x, qn, qp, live)
    PROVE  Sides(d, x, qn, qp1, live)
<1>1. /\ EndOK(c, qn) /\ EndOK(x, qp) /\ Link(c, x, qp, live) /\ Link(x, c, qn, live)
  BY DEF Sides
<1>2. EndOK(d, qn)
  BY <1>1 DEF EndOK, Keeps
<1>3. InOrder(qp1, x.in_seq)
  BY <1>1, InOrderGiven DEF EndOK
<1>4. /\ \A j \in 1 .. Len(qp1) : qp1[j] = item \/ (j \in 1 .. Len(qp) /\ qp1[j] = qp[j])
      /\ \A j \in 1 .. Len(qp) : j \in 1 .. Len(qp1) /\ qp1[j] = qp[j]
  BY GivenItems
<1>5. EndOK(x, qp1)
  BY <1>1, <1>3, <1>4 DEF EndOK
<1>6. Flow(c, x, qp, live)
  BY <1>1 DEF Link
<1>7. Flow(d, x, qp1, live)
  BY <1>4, <1>6 DEF Flow, Keeps
<1>8. Link(d, x, qp1, live)
  BY <1>1, <1>4, <1>7 DEF Link, Keeps
<1>9. Link(x, d, qn, live)
  BY <1>1 DEF Link, Flow, Keeps
<1> QED
  BY <1>2, <1>5, <1>8, <1>9 DEF Sides

\* An open connection reads the next message.
LEMMA SidesReadMsg ==
    ASSUME NEW c, NEW d, NEW x, NEW qn, NEW qp, NEW qn1, NEW live,
           c.state = "OPEN", d.state = "OPEN", d.in_seq = c.in_seq + 1, d.out_seq = c.out_seq,
           c.in_seq \in Nat, qn[1].kind = "msg", Taken(qn, qn1),
           Sides(c, x, qn, qp, live)
    PROVE  Sides(d, x, qn1, qp, live)
<1>1. /\ EndOK(c, qn) /\ EndOK(x, qp) /\ Link(c, x, qp, live) /\ Link(x, c, qn, live)
  BY DEF Sides
<1>2. qn[1].seq = c.in_seq + 1 /\ InOrder(qn1, c.in_seq + 1)
  BY <1>1, InOrderRead DEF EndOK
<1>3. EndOK(d, qn1)
  BY <1>2 DEF EndOK
<1>4. x.state = "OPEN"
  BY <1>1, TakenItems DEF Link
<1>5. Link(d, x, qp, live)
  BY <1>1, <1>4 DEF Link, Flow
<1>6. Flow(x, d, qn1, live)
  BY <1>1, <1>2, <1>4, FlowRead DEF Link
<1>7. Link(x, d, qn1, live)
  BY <1>4, <1>6 DEF Link
<1> QED
  BY <1>1, <1>3, <1>5, <1>7 DEF Sides

\* An open connection reads something else.
LEMMA SidesReadAck ==
    ASSUME NEW c, NEW d, NEW x, NEW qn, NEW qp, NEW qn1, NEW live,
           c.state = "OPEN", d.state = "OPEN", d.in_seq = c.in_seq, d.out_seq = c.out_seq,
           c.in_seq \in Nat, qn[1].kind = "ack", Taken(qn, qn1),
           Sides(c, x, qn, qp, live)
    PROVE  Sides(d, x, qn1, qp, live)
<1>1. /\ EndOK(c, qn) /\ EndOK(x, qp) /\ Link(c, x, qp, live) /\ Link(x, c, qn, live)
  BY DEF Sides
<1>2. InOrder(qn1, d.in_seq)
  BY <1>1, InOrderTaken DEF EndOK
<1>3. EndOK(d, qn1)
  BY <1>2 DEF EndOK
<1>4. x.state = "OPEN"
  BY <1>1, TakenItems DEF Link
<1>5. Link(d, x, qp, live)
  BY <1>1, <1>4 DEF Link, Flow
<1>6. Flow(x, d, qn1, live)
  BY <1>1, <1>4, FlowTaken DEF Link
<1>7. Link(x, d, qn1, live)
  BY <1>4, <1>6 DEF Link
<1> QED
  BY <1>1, <1>3, <1>5, <1>7 DEF Sides

\* A change that does not concern the socket.
SeemsSame(c, d) ==
    /\ d.state = c.state /\ d.in_seq = c.in_seq /\ d.out_seq = c.out_seq
    /\ d.reply = c.reply /\ (Fresh(c) => Fresh(d))
    /\ c.state = "ACCEPTING_WAIT_CONNECT_MSG" =>
          d.replacing = c.replacing /\ d.flags = c.flags

\* ... for its end of the socket.
LEMMA EndAlike ==
    ASSUME NEW c, NEW d, NEW q, SeemsSame(c, d), EndOK(c, q)
    PROVE  EndOK(d, q)
BY DEF EndOK, SeemsSame, Flag

\* ... and for both ends.
LEMMA SidesAlike ==
    ASSUME NEW c, NEW d, NEW x, NEW qn, NEW qp, NEW live, SeemsSame(c, d),
           Sides(c, x, qn, qp, live)
    PROVE  Sides(d, x, qn, qp, live)
<1>1. /\ EndOK(c, qn) /\ EndOK(x, qp) /\ Link(c, x, qp, live) /\ Link(x, c, qn, live)
  BY DEF Sides
<1>2. EndOK(d, qn)
  BY <1>1, EndAlike
<1>3. Link(d, x, qp, live)
  BY <1>1 DEF Link, Flow, SeemsSame, Flag
<1>4. Link(x, d, qn, live)
  BY <1>1 DEF Link, Flow, SeemsSame
<1> QED
  BY <1>1, <1>2, <1>3, <1>4 DEF Sides

\* A change at one end that does not concern socket s.
Apart(c, d, s) ==
    /\ d.sd = s => c.sd = s /\ SeemsSame(c, d)
    /\ d.replacing_sd = s =>
          /\ c.replacing_sd = s
          /\ d.replacing = 1 /\ Flag(d, "is_reset_from_peer") =>
                c.replacing = 1 /\ Flag(c, "is_reset_from_peer")

\* What FlowOK says from the side of node n.
Side(K, x, s, n) ==
    \A k \in Slots :
       /\ K[n][k].sd = s => EndOK(K[n][k], x.q[n])
       /\ K[n][k].replacing_sd = s => Len(x.q[n]) = 0
       /\ \A l \in Slots :
            /\ K[n][k].sd = s /\ K[Peer(n)][l].sd = s =>
                  Link(K[n][k], K[Peer(n)][l], x.q[Peer(n)], x.live)
            /\ K[n][k].replacing_sd = s /\ K[Peer(n)][l].sd = s =>
                  Waits(K[n][k], K[Peer(n)][l])

\* The two ends of a socket, apart.
LEMMA BothSides ==
    ASSUME NEW K, NEW x, NEW s, NEW n \in Node
    PROVE  FlowOK(K, x, s) <=> Side(K, x, s, n) /\ Side(K, x, s, Peer(n))
<1>1. /\ Peer(n) \in Node /\ Peer(Peer(n)) = n
      /\ \A m \in Node : m = n \/ m = Peer(n)
  BY Peers
<1>2. FlowOK(K, x, s) <=> \A m \in Node : Side(K, x, s, m)
  BY DEF FlowOK, Side
<1> QED
  BY <1>1, <1>2

\* The two connections on a socket.
LEMMA SidesOf ==
    ASSUME NEW K, NEW x, NEW s, NEW n \in Node, NEW k \in Slots, NEW l \in Slots,
           FlowOK(K, x, s), K[n][k].sd = s, K[Peer(n)][l].sd = s
    PROVE  Sides(K[n][k], K[Peer(n)][l], x.q[n], x.q[Peer(n)], x.live)
<1>1. Peer(Peer(n)) = n
  BY Peers
<1>2. Side(K, x, s, n) /\ Side(K, x, s, Peer(n))
  BY BothSides
<1>3. EndOK(K[n][k], x.q[n]) /\ Link(K[n][k], K[Peer(n)][l], x.q[Peer(n)], x.live)
  BY <1>2 DEF Side
<1>4. /\ EndOK(K[Peer(n)][l], x.q[Peer(n)])
      /\ Link(K[Peer(n)][l], K[n][k], x.q[n], x.live)
  BY <1>1, <1>2 DEF Side
<1> QED
  BY <1>3, <1>4 DEF Sides

\* A step of node n that does not concern the socket.
LEMMA SockApart ==
    ASSUME NEW K, NEW K1, NEW n \in Node, NEW s, NEW x, FlowOK(K, x, s),
           K1[Peer(n)] = K[Peer(n)], \A j \in Slots : Apart(K[n][j], K1[n][j], s)
    PROVE  FlowOK(K1, x, s)
<1>1. Peer(Peer(n)) = n
  BY Peers
<1>2. Side(K, x, s, n) /\ Side(K, x, s, Peer(n))
  BY BothSides
<1>3. ASSUME NEW k \in Slots, NEW l \in Slots, K1[n][k].sd = s, K1[Peer(n)][l].sd = s
      PROVE  Sides(K1[n][k], K1[Peer(n)][l], x.q[n], x.q[Peer(n)], x.live)
  <2>1. K[n][k].sd = s /\ SeemsSame(K[n][k], K1[n][k]) /\ K[Peer(n)][l].sd = s
    BY <1>3 DEF Apart
  <2>2. Sides(K[n][k], K[Peer(n)][l], x.q[n], x.q[Peer(n)], x.live)
    BY <2>1, SidesOf
  <2> QED
    BY <2>1, <2>2, SidesAlike
<1>4. Side(K1, x, s, n)
  <2> SUFFICES ASSUME NEW k \in Slots
               PROVE  /\ K1[n][k].sd = s => EndOK(K1[n][k], x.q[n])
                      /\ K1[n][k].replacing_sd = s => Len(x.q[n]) = 0
                      /\ \A l \in Slots :
                           /\ K1[n][k].sd = s /\ K1[Peer(n)][l].sd = s =>
                                 Link(K1[n][k], K1[Peer(n)][l], x.q[Peer(n)], x.live)
                           /\ K1[n][k].replacing_sd = s /\ K1[Peer(n)][l].sd = s =>
                                 Waits(K1[n][k], K1[Peer(n)][l])
    BY DEF Side
  <2>1. K1[n][k].sd = s => EndOK(K1[n][k], x.q[n])
    BY <1>2, EndAlike DEF Side, Apart
  <2>2. K1[n][k].replacing_sd = s => Len(x.q[n]) = 0
    BY <1>2 DEF Side, Apart
  <2>3. ASSUME NEW l \in Slots, K1[n][k].sd = s, K1[Peer(n)][l].sd = s
        PROVE  Link(K1[n][k], K1[Peer(n)][l], x.q[Peer(n)], x.live)
    BY <1>3, <2>3 DEF Sides
  <2>4. ASSUME NEW l \in Slots, K1[n][k].replacing_sd = s, K1[Peer(n)][l].sd = s
        PROVE  Waits(K1[n][k], K1[Peer(n)][l])
    <3>1. Waits(K[n][k], K[Peer(n)][l])
      BY <1>2, <2>4 DEF Side, Apart
    <3> QED
      BY <2>4, <3>1 DEF Waits, Apart
  <2> QED
    BY <2>1, <2>2, <2>3, <2>4
<1>5. Side(K1, x, s, Peer(n))
  <2> SUFFICES ASSUME NEW k \in Slots
               PROVE  /\ K1[Peer(n)][k].sd = s => EndOK(K1[Peer(n)][k], x.q[Peer(n)])
                      /\ K1[Peer(n)][k].replacing_sd = s => Len(x.q[Peer(n)]) = 0
                      /\ \A l \in Slots :
                           /\ K1[Peer(n)][k].sd = s /\ K1[n][l].sd = s =>
                                 Link(K1[Peer(n)][k], K1[n][l], x.q[n], x.live)
                           /\ K1[Peer(n)][k].replacing_sd = s /\ K1[n][l].sd = s =>
                                 Waits(K1[Peer(n)][k], K1[n][l])
    BY <1>1 DEF Side
  <2>1. /\ K1[Peer(n)][k].sd = s => EndOK(K1[Peer(n)][k], x.q[Peer(n)])
        /\ K1[Peer(n)][k].replacing_sd = s => Len(x.q[Peer(n)]) = 0
    BY <1>2 DEF Side
  <2>2. ASSUME NEW l \in Slots, K1[Peer(n)][k].sd = s, K1[n][l].sd = s
        PROVE  Link(K1[Peer(n)][k], K1[n][l], x.q[n], x.live)
    BY <1>3, <2>2 DEF Sides
  <2>3. ASSUME NEW l \in Slots, K1[Peer(n)][k].replacing_sd = s, K1[n][l].sd = s
        PROVE  Waits(K1[Peer(n)][k], K1[n][l])
    <3>1. K[n][l].sd = s /\ SeemsSame(K[n][l], K1[n][l])
      BY <2>3 DEF Apart
    <3>2. Waits(K[Peer(n)][k], K[n][l])
      BY <1>1, <1>2, <2>3, <3>1 DEF Side
    <3> QED
      BY <3>1, <3>2 DEF Waits, SeemsSame
  <2> QED
    BY <2>1, <2>2, <2>3
<1> QED
  BY <1>4, <1>5, BothSides

\* Node n has left the socket.
LEMMA SockLeft ==
    ASSUME NEW K, NEW K1, NEW n \in Node, NEW s, NEW x, NEW y, FlowOK(K, x, s),
           K1[Peer(n)] = K[Peer(n)], \A j \in Slots : ~Uses(K1[n][j], s),
           y.q[Peer(n)] = x.q[Peer(n)] \/ Len(y.q[Peer(n)]) = 0
    PROVE  FlowOK(K1, y, s)
<1>1. Peer(Peer(n)) = n
  BY Peers
<1>2. Side(K, x, s, n) /\ Side(K, x, s, Peer(n))
  BY BothSides
<1>3. Side(K1, y, s, n)
  BY DEF Side, Uses
<1>4. Side(K1, y, s, Peer(n))
  <2> SUFFICES ASSUME NEW k \in Slots
               PROVE  /\ K[Peer(n)][k].sd = s => EndOK(K[Peer(n)][k], y.q[Peer(n)])
                      /\ K[Peer(n)][k].replacing_sd = s => Len(y.q[Peer(n)]) = 0
    BY <1>1 DEF Side, Uses
  <2>1. /\ K[Peer(n)][k].sd = s => EndOK(K[Peer(n)][k], x.q[Peer(n)])
        /\ K[Peer(n)][k].replacing_sd = s => Len(x.q[Peer(n)]) = 0
    BY <1>2 DEF Side
  <2>2. CASE y.q[Peer(n)] = x.q[Peer(n)]
    BY <2>1, <2>2
  <2>3. CASE Len(y.q[Peer(n)]) = 0
    BY <2>3, EndEmpty
  <2> QED
    BY <2>2, <2>3
<1> QED
  BY <1>3, <1>4, BothSides

\* Node n uses the socket for connection i.
ServedRight(K, K1, n, i, s, y) ==
    /\ K1[Peer(n)] = K[Peer(n)] /\ K1[n][i].sd = s /\ K1[n][i].replacing_sd # s
    /\ \A j \in Slots \ {i} : ~Uses(K1[n][j], s)
    /\ EndOK(K1[n][i], y.q[n])
    /\ \A l \in Slots : K[Peer(n)][l].sd = s =>
          Sides(K1[n][i], K[Peer(n)][l], y.q[n], y.q[Peer(n)], y.live)
    /\ \A l \in Slots : K[Peer(n)][l].replacing_sd = s =>
          Len(y.q[Peer(n)]) = 0 /\ Waits(K[Peer(n)][l], K1[n][i])

\* A step of connection i of n on socket s leaves the socket right.
LEMMA SockServed ==
    ASSUME NEW K, NEW K1, NEW n \in Node, NEW i \in Slots, NEW s, NEW y,
           ServedRight(K, K1, n, i, s, y)
    PROVE  FlowOK(K1, y, s)
<1>0. /\ K1[Peer(n)] = K[Peer(n)] /\ K1[n][i].sd = s /\ K1[n][i].replacing_sd # s
      /\ \A j \in Slots \ {i} : ~Uses(K1[n][j], s)
      /\ EndOK(K1[n][i], y.q[n])
      /\ \A l \in Slots : K[Peer(n)][l].sd = s =>
            Sides(K1[n][i], K[Peer(n)][l], y.q[n], y.q[Peer(n)], y.live)
      /\ \A l \in Slots : K[Peer(n)][l].replacing_sd = s =>
            Len(y.q[Peer(n)]) = 0 /\ Waits(K[Peer(n)][l], K1[n][i])
  BY DEF ServedRight
<1>1. Peer(Peer(n)) = n
  BY Peers
<1>2. \A k \in Slots : /\ K1[n][k].sd = s => k = i
                       /\ K1[n][k].replacing_sd # s
  BY <1>0 DEF Uses
<1>3. Side(K1, y, s, n)
  BY <1>0, <1>2 DEF Side, Sides
<1>4. Side(K1, y, s, Peer(n))
  <2> SUFFICES ASSUME NEW k \in Slots
               PROVE  /\ K[Peer(n)][k].sd = s => EndOK(K[Peer(n)][k], y.q[Peer(n)])
                      /\ K[Peer(n)][k].replacing_sd = s => Len(y.q[Peer(n)]) = 0
                      /\ \A l \in Slots :
                           /\ K[Peer(n)][k].sd = s /\ K1[n][l].sd = s =>
                                 Link(K[Peer(n)][k], K1[n][l], y.q[n], y.live)
                           /\ K[Peer(n)][k].replacing_sd = s /\ K1[n][l].sd = s =>
                                 Waits(K[Peer(n)][k], K1[n][l])
    BY <1>0, <1>1 DEF Side
  <2>1. K[Peer(n)][k].sd = s =>
           /\ EndOK(K[Peer(n)][k], y.q[Peer(n)])
           /\ Link(K[Peer(n)][k], K1[n][i], y.q[n], y.live)
    BY <1>0 DEF Sides
  <2>2. K[Peer(n)][k].replacing_sd = s =>
           Len(y.q[Peer(n)]) = 0 /\ Waits(K[Peer(n)][k], K1[n][i])
    BY <1>0
  <2> QED
    BY <1>2, <2>1, <2>2
<1> QED
  BY <1>3, <1>4, BothSides

\* Node n holds the socket for connection e, which will take it over.
LEMMA SockHeld ==
    ASSUME NEW K, NEW K1, NEW n \in Node, NEW e \in Slots, NEW s, NEW x, NEW y,
           FlowOK(K, x, s), K1[Peer(n)] = K[Peer(n)], K1[n][e].sd # s,
           \A j \in Slots \ {e} : ~Uses(K1[n][j], s), Len(y.q[n]) = 0,
           y.q[Peer(n)] = x.q[Peer(n)],
           \A l \in Slots : K[Peer(n)][l].sd = s => Waits(K1[n][e], K[Peer(n)][l])
    PROVE  FlowOK(K1, y, s)
<1>1. Peer(Peer(n)) = n
  BY Peers
<1>2. Side(K, x, s, n) /\ Side(K, x, s, Peer(n))
  BY BothSides
<1>3. \A k \in Slots : /\ K1[n][k].sd # s
                       /\ K1[n][k].replacing_sd = s => k = e
  BY DEF Uses
<1>4. Side(K1, y, s, n)
  BY <1>3 DEF Side
<1>5. Side(K1, y, s, Peer(n))
  <2> SUFFICES ASSUME NEW k \in Slots
               PROVE  /\ K[Peer(n)][k].sd = s => EndOK(K[Peer(n)][k], y.q[Peer(n)])
                      /\ K[Peer(n)][k].replacing_sd = s => Len(y.q[Peer(n)]) = 0
    BY <1>1, <1>3 DEF Side
  <2> QED
    BY <1>2 DEF Side
<1> QED
  BY <1>4, <1>5, BothSides

\* What a step of connection i of n leaves of it.
Owned(n, i, d) ==
    /\ conns'[Peer(n)] = conns[Peer(n)] /\ submitted'[Peer(n)] = submitted[Peer(n)]
    /\ conns'[n] = conns[n] \/ (conns[n] = None /\ conns'[n] = i)
    /\ conns'[n] = i =>
         /\ d.in_seq = In(n) /\ Status(d)
         /\ Books(d.out_seq, d.sent, d.out_q, submitted'[n], In(Peer(n)))
         /\ d.connect_seq > 0 => conns[Peer(n)] # None
         /\ conns[n] = i => Higher(conn[n][i].out_seq, conn[n][i].out_q, d.out_seq, d.out_q)
    /\ conns'[n] # i => Spare(d) /\ submitted'[n] = submitted[n]

\* Other connections of n are left alone, or freed.
MovesOne(n, i, d) ==
    /\ conn'[n][i] = d
    /\ conn'[Peer(n)] = conn[Peer(n)]
    /\ \A j \in Slots \ {i} : conn'[n][j] = conn[n][j] \/ (Spare(conn'[n][j]) /\ conns[n] # j)

\* What was received does not change.
LEMMA InKept ==
    ASSUME Rest, NEW n \in Node, NEW i \in Slots, NEW d, MovesOne(n, i, d), Owned(n, i, d)
    PROVE  /\ In(n)' = In(n) /\ In(Peer(n))' = In(Peer(n))
           /\ conns'[n] # None => Mine(n)' = IF conns'[n] = i THEN d ELSE Mine(n)
           /\ conns'[Peer(n)] # None => Mine(Peer(n))' = Mine(Peer(n))
           /\ conns'[n] = i \/ conns'[n] = conns[n]
           /\ conns[n] \in Slots \cup {None} /\ None \notin Slots
<1>1. conns[n] \in Slots \cup {None} /\ None \notin Slots /\ conns'[n] \in Slots \cup {None}
  BY SocketsPositive DEF Rest, Owned
<1>2. In(Peer(n))' = In(Peer(n)) /\ (conns'[Peer(n)] # None => Mine(Peer(n))' = Mine(Peer(n)))
  BY DEF In, Mine, MovesOne, Owned
<1>3. CASE conns'[n] = i
  <2>1. Mine(n)' = d /\ In(n)' = d.in_seq
    BY <1>1, <1>3 DEF In, Mine, MovesOne
  <2> QED
    BY <1>1, <1>2, <1>3, <2>1 DEF Owned
<1>4. CASE conns'[n] # i
  <2>1. conns'[n] = conns[n]
    BY <1>4 DEF Owned
  <2>2. conns'[n] # None => Mine(n)' = Mine(n)
    BY <1>1, <1>4, <2>1 DEF Mine, MovesOne
  <2>3. In(n)' = In(n)
    BY <2>1, <2>2 DEF In
  <2> QED
    BY <1>1, <1>2, <1>4, <2>1, <2>2, <2>3
<1> QED
  BY <1>3, <1>4

\* The registered connections.
LEMMA RegsKept ==
    ASSUME Rest, Regs, NEW n \in Node, NEW i \in Slots, NEW d, MovesOne(n, i, d), Owned(n, i, d)
    PROVE  Regs'
<1>1. /\ In(n)' = In(n) /\ In(Peer(n))' = In(Peer(n))
      /\ conns'[n] # None => Mine(n)' = IF conns'[n] = i THEN d ELSE Mine(n)
      /\ conns'[Peer(n)] # None => Mine(Peer(n))' = Mine(Peer(n))
      /\ conns'[n] = i \/ conns'[n] = conns[n]
      /\ None \notin Slots
  BY InKept
<1>2. /\ conns'[Peer(n)] = conns[Peer(n)] /\ submitted'[Peer(n)] = submitted[Peer(n)]
      /\ conns[n] # None => conns'[n] # None
      /\ conns'[n] # i => submitted'[n] = submitted[n]
  BY DEF Owned
<1>3. Peer(Peer(n)) = n /\ Peer(n) \in Node /\ \A m \in Node : m = n \/ m = Peer(n)
  BY Peers
<1>4. Account(n) /\ Account(Peer(n))
  BY <1>3 DEF Regs
<1>5. Account(Peer(n))'
  <2>1. CASE conns[Peer(n)] = None
    BY <1>1, <1>2, <1>3, <1>4, <2>1 DEF Account
  <2>2. CASE conns[Peer(n)] # None
    BY <1>1, <1>2, <1>3, <1>4, <2>2 DEF Account
  <2> QED
    BY <2>1, <2>2
<1>6. Account(n)'
  <2>1. CASE conns'[n] = i
    <3>1. /\ Status(d) /\ Books(d.out_seq, d.sent, d.out_q, submitted'[n], In(Peer(n)))
          /\ d.connect_seq > 0 => conns[Peer(n)] # None
      BY <2>1 DEF Owned
    <3>2. conns'[n] # None /\ Mine(n)' = d
      BY <1>1, <2>1
    <3> QED
      BY <1>1, <1>2, <3>1, <3>2 DEF Account
  <2>2. CASE conns'[n] # i
    <3>1. conns'[n] = conns[n] /\ submitted'[n] = submitted[n]
      BY <1>1, <1>2, <2>2
    <3>2. CASE conns[n] = None
      BY <1>1, <1>2, <1>4, <3>1, <3>2 DEF Account
    <3>3. CASE conns[n] # None
      <4>1. Mine(n)' = Mine(n)
        BY <1>1, <2>2, <3>1, <3>3
      <4> QED
        BY <1>1, <1>2, <1>4, <3>1, <3>3, <4>1 DEF Account
    <3> QED
      BY <3>2, <3>3
  <2> QED
    BY <2>1, <2>2
<1> QED
  BY <1>3, <1>5, <1>6 DEF Regs

\* The others.
LEMMA SparesKept ==
    ASSUME Rest, Spares, NEW n \in Node, NEW i \in Slots, NEW d, MovesOne(n, i, d), Owned(n, i, d)
    PROVE  Spares'
<1>1. Peer(n) \in Node /\ \A m \in Node : m = n \/ m = Peer(n)
  BY Peers
<1>2. \A j \in Slots : conns'[Peer(n)] # j => Spare(conn'[Peer(n)][j])
  BY <1>1 DEF Spares, MovesOne, Owned
<1>3. ASSUME NEW j \in Slots, conns'[n] # j PROVE Spare(conn'[n][j])
  <2>1. CASE j = i
    BY <1>3, <2>1 DEF MovesOne, Owned
  <2>2. CASE j # i
    <3>1. conns[n] # j
      BY <1>3, SocketsPositive DEF Owned
    <3>2. Spare(conn[n][j])
      BY <3>1 DEF Spares
    <3>3. conn'[n][j] = conn[n][j] \/ Spare(conn'[n][j])
      BY <2>2 DEF MovesOne
    <3> QED
      BY <3>2, <3>3
  <2> QED
    BY <2>1, <2>2
<1>4. ASSUME NEW m \in Node, NEW j \in Slots, conns'[m] # j PROVE Spare(conn'[m][j])
  <2>1. CASE m = n
    BY <1>3, <1>4, <2>1
  <2>2. CASE m = Peer(n)
    BY <1>2, <1>4, <2>2
  <2> QED
    BY <1>1, <2>1, <2>2
<1> QED
  BY <1>4 DEF Spares, Spare, Undisturbed, Flag

\* What was dispatched.
LEMMA PastKept ==
    ASSUME Rest, Past, NEW n \in Node, NEW i \in Slots, NEW d, MovesOne(n, i, d), Owned(n, i, d),
           got' = got, ever' = ever, dropped' = dropped
    PROVE  Past'
<1>1. In(n)' = In(n) /\ In(Peer(n))' = In(Peer(n))
  BY InKept
<1>2. Peer(n) \in Node /\ \A m \in Node : m = n \/ m = Peer(n)
  BY Peers
<1>3. \A m \in Node : In(m)' = In(m)
  BY <1>1, <1>2
<1> QED
  BY <1>3 DEF Past

\* What is under way.
LEMMA ItemKept ==
    ASSUME Rest, NEW n \in Node, NEW i \in Slots, NEW d, MovesOne(n, i, d), Owned(n, i, d),
           NEW p \in Node, NEW m \in Items, Fine(p, m, conn, conns)
    PROVE  Fine(p, m, conn', conns')
<1>1. /\ In(n)' = In(n) /\ In(Peer(n))' = In(Peer(n))
      /\ conns'[n] # None => Mine(n)' = IF conns'[n] = i THEN d ELSE Mine(n)
      /\ conns'[Peer(n)] # None => Mine(Peer(n))' = Mine(Peer(n))
      /\ conns'[n] = i \/ conns'[n] = conns[n]
      /\ conns[n] \in Slots \cup {None} /\ None \notin Slots
  BY InKept
<1>2. /\ Peer(n) \in Node /\ Peer(Peer(n)) = n /\ \A q \in Node : q = n \/ q = Peer(n)
      /\ Peer(p) \in Node
  BY Peers
<1>3. \A q \in Node : /\ In(q)' = In(q)
                      /\ conns[q] # None => conns'[q] # None
  BY <1>1, <1>2 DEF Owned
<1>4. ASSUME m.kind = "msg"
      PROVE  /\ conns'[Peer(p)] # None
             /\ Assigned(Mine(Peer(p))'.out_seq, Mine(Peer(p))'.out_q, m.seq)
  <2>1. /\ conns[Peer(p)] # None /\ conns'[Peer(p)] # None
        /\ Assigned(Mine(Peer(p)).out_seq, Mine(Peer(p)).out_q, m.seq)
    BY <1>2, <1>3, <1>4 DEF Fine, Mine
  <2>2. m.seq \in Nat
    BY <1>4, ItemKinds
  <2>3. CASE Peer(p) = Peer(n)
    BY <1>1, <2>1, <2>3
  <2>4. CASE Peer(p) = n
    <3>1. CASE conns'[n] = i
      <4>1. conns[n] = i /\ Mine(n)' = d /\ Mine(n) = conn[n][i]
        BY <1>1, <2>1, <2>4, <3>1 DEF Owned, Mine
      <4>2. Higher(Mine(n).out_seq, Mine(n).out_q, d.out_seq, d.out_q)
        BY <3>1, <4>1 DEF Owned
      <4>3. Assigned(d.out_seq, d.out_q, m.seq)
        BY <2>1, <2>2, <2>4, <4>2 DEF Higher
      <4> QED
        BY <2>1, <2>4, <4>1, <4>3
    <3>2. CASE conns'[n] # i
      BY <1>1, <2>1, <2>4, <3>2
    <3> QED
      BY <3>1, <3>2
  <2> QED
    BY <1>2, <2>3, <2>4
<1> QED
  BY <1>2, <1>3, <1>4 DEF Fine, In, Mine

\* All of it but the sockets.
LEMMA Kept ==
    ASSUME Rest, SInv, NEW n \in Node, NEW i \in Slots, NEW d, MovesOne(n, i, d), Owned(n, i, d),
           got' = got, ever' = ever, dropped' = dropped
    PROVE  /\ Regs' /\ Spares' /\ Past'
           /\ \A p \in Node, m \in Items : Fine(p, m, conn, conns) => Fine(p, m, conn', conns')
BY RegsKept, SparesKept, PastKept, ItemKept DEF SInv

-----------------------------------------------------------------------------
\* What is on its way over a socket was there before, or is the new item.
Passes(x, y, n, item) ==
    /\ Len(y.q[n]) = 0 \/ y.q[n] = x.q[n] \/ Taken(x.q[n], y.q[n])
    /\ Len(y.q[Peer(n)]) = 0 \/ Given(x.q[Peer(n)], y.q[Peer(n)], item)

\* What is under way stays true when one true item is added to it.
LEMMA ItemsKept ==
    ASSUME Core, Told, sock' \in [Socks -> SockTypes], NEW n \in Node, NEW item,
           Fine(Peer(n), item, conn', conns'),
           \A p \in Node, m \in Items : Fine(p, m, conn, conns) => Fine(p, m, conn', conns'),
           \A s \in Socks : Passes(sock[s], sock'[s], n, item)
    PROVE  Told'
<1>1. ASSUME NEW s \in Socks, NEW p \in Node
      PROVE  \A k \in 1 .. Len(sock[s].q[p]) : Fine(p, sock[s].q[p][k], conn', conns')
  <2>1. sock[s].q[p] \in Seq(Items)
    BY DEF Core, SockTypes
  <2>2. \A k \in 1 .. Len(sock[s].q[p]) : sock[s].q[p][k] \in Items
    BY <2>1
  <2> QED
    BY <2>2 DEF Told, ItemOK
<1>2. Peer(n) \in Node /\ \A m \in Node : m = n \/ m = Peer(n)
  BY Peers
<1>3. ASSUME NEW s \in Socks, NEW k \in 1 .. Len(sock'[s].q[n])
      PROVE  Fine(n, sock'[s].q[n][k], conn', conns')
  <2>1. CASE Len(sock'[s].q[n]) = 0
    BY <2>1
  <2>2. CASE sock'[s].q[n] = sock[s].q[n]
    BY <1>1, <2>2
  <2>3. CASE Taken(sock[s].q[n], sock'[s].q[n])
    <3>1. k + 1 \in 1 .. Len(sock[s].q[n]) /\ sock'[s].q[n][k] = sock[s].q[n][k + 1]
      BY <2>3, TakenItems
    <3> QED
      BY <1>1, <3>1
  <2> QED
    BY <2>1, <2>2, <2>3 DEF Passes
<1>4. ASSUME NEW s \in Socks, NEW k \in 1 .. Len(sock'[s].q[Peer(n)])
      PROVE  Fine(Peer(n), sock'[s].q[Peer(n)][k], conn', conns')
  <2>1. CASE Len(sock'[s].q[Peer(n)]) = 0
    BY <2>1
  <2>2. CASE Given(sock[s].q[Peer(n)], sock'[s].q[Peer(n)], item)
    <3>1. \/ sock'[s].q[Peer(n)][k] = item
          \/ /\ k \in 1 .. Len(sock[s].q[Peer(n)])
             /\ sock'[s].q[Peer(n)][k] = sock[s].q[Peer(n)][k]
      BY <2>2, GivenItems
    <3> QED
      BY <1>1, <1>2, <3>1
  <2> QED
    BY <2>1, <2>2 DEF Passes
<1>5. ASSUME NEW s \in Socks, NEW p \in Node
      PROVE  \A k \in 1 .. Len(sock'[s].q[p]) : Fine(p, sock'[s].q[p][k], conn', conns')
  BY <1>2, <1>3, <1>4
<1> QED
  BY <1>5 DEF Told, ItemOK

\* Reading and writing leave a socket as alive as it was.
LEMMA PutLive ==
    ASSUME NEW S \in [Socks -> SockTypes], NEW s \in Socks, NEW m \in Node, NEW item
    PROVE  Put(S, s, m, item)[s].live = S[s].live
<1>1. S[s] = [live |-> S[s].live, end |-> S[s].end, q |-> S[s].q]
  BY DEF SockTypes
<1> QED
  BY <1>1 DEF Put

\* Reading does not revive a socket,
LEMMA PopLive ==
    ASSUME NEW S \in [Socks -> SockTypes], NEW s \in Socks, NEW m \in Node
    PROVE  Pop(S, s, m)[s].live = S[s].live
<1>1. S[s] = [live |-> S[s].live, end |-> S[s].end, q |-> S[s].q]
  BY DEF SockTypes
<1> QED
  BY <1>1 DEF Pop

\* ... nor does reading and writing.
LEMMA PopPutLive ==
    ASSUME NEW S \in [Socks -> SockTypes], NEW s \in Socks, NEW n \in Node,
           S[s].q[n] # <<>>, NEW item
    PROVE  Put(Pop(S, s, n), s, Peer(n), item)[s].live = S[s].live
<1>1. Pop(S, s, n) \in [Socks -> SockTypes]
  BY PopSock
<1>2. Peer(n) \in Node
  BY Peers
<1> QED
  BY <1>1, <1>2, PutLive, PopLive

\* A write over a socket with both ends open.
LEMMA WriteExact ==
    ASSUME NEW S \in [Socks -> SockTypes], NEW s \in Socks, NEW m \in Node, NEW item \in Items,
           S[s].end[m] = "open", NEW S1, S1 = Put(S, s, m, item)
    PROVE  Carried(S[s].q[m], S1[s].q[m], item, S[s].live)
<1>1. S[s] \in SockTypes /\ S[s].q[m] \in Seq(Items)
  BY DEF SockTypes
<1>2. CASE S[s].live = "yes"
  <2>1. S1 = [S EXCEPT ![s].q[m] = Append(@, item)]
    BY <1>2 DEF Put
  <2>2. S1[s].q[m] = Append(S[s].q[m], item)
    BY <1>1, <2>1 DEF SockTypes
  <2> HIDE DEF Items
  <2>3. PICK q : q = S[s].q[m]
    OBVIOUS
  <2>4. /\ Len(Append(q, item)) = Len(q) + 1 /\ Append(q, item)[Len(q) + 1] = item
        /\ \A k \in 1 .. Len(q) : Append(q, item)[k] = q[k]
        /\ Len(q) \in Nat
    BY <1>1, <2>3
  <2> QED
    BY <1>2, <2>2, <2>3, <2>4 DEF Carried
<1>3. CASE S[s].live # "yes"
  <2>1. S1 = S
    BY <1>3 DEF Put
  <2> QED
    BY <1>1, <1>3, <2>1 DEF Carried
<1> QED
  BY <1>2, <1>3

\* A connection at n goes on, as far as the sockets it waits for are concerned.
SameWait(c, d) ==
    /\ d.replacing_sd = c.replacing_sd
    /\ d.replacing = 1 /\ Flag(d, "is_reset_from_peer") =>
          c.replacing = 1 /\ Flag(c, "is_reset_from_peer")

\* A connection that does not change is as apart from a socket as it was.
LEMMA ApartSelf ==
    ASSUME NEW c, NEW s PROVE Apart(c, c, s)
BY DEF Apart, SeemsSame

\* Connection i of n goes on with its socket.
CarriesOn(n, i, s, d) ==
    /\ conn[n][i].sd = s /\ d.sd = s /\ SameWait(conn[n][i], d)
    /\ conn[n][i].state # "CONNECTING_WAIT_CONNECT_REPLY" \/ Len(sock[s].q[n]) # 0
    /\ EndOK(d, sock'[s].q[n])
    /\ \A l \in Slots : conn[Peer(n)][l].sd = s =>
          Sides(d, conn[Peer(n)][l], sock'[s].q[n], sock'[s].q[Peer(n)], sock'[s].live)

\* Flows, when one connection takes a step on one socket.
LEMMA ServeSocks ==
    ASSUME Core, Flows, NEW n \in Node, NEW i \in Slots, NEW s \in Socks, NEW d,
           Moves(conn, conn', n, i), conn'[n][i] = d, Exchange(sock, sock', s),
           CarriesOn(n, i, s, d)
    PROVE  Flows'
<1>1. /\ \A j \in Slots \ {i} : conn'[n][j] = conn[n][j]
      /\ conn'[Peer(n)] = conn[Peer(n)]
  BY DEF Moves
<1>2. \A t \in Socks \ {s} : sock'[t] = sock[t]
  BY DEF Exchange
<1>3. \A t \in Socks : SockOK(conn, sock[t], t) /\ FlowOK(conn, sock[t], t)
  BY DEF Core, AllSocks, Flows
<1>4. FlowOK(conn', sock'[s], s)
  <2>1. Uses(conn[n][i], s)
    BY DEF CarriesOn, Uses
  <2>2. /\ \A j \in Slots \ {i} : ~Uses(conn[n][j], s)
        /\ ~(conn[n][i].sd = s /\ conn[n][i].replacing_sd = s)
    BY <1>3, <2>1, OnlyUser
  <2>3. d.replacing_sd # s /\ d.sd = s
    BY <2>2 DEF CarriesOn, SameWait
  <2>4. \A l \in Slots : conn[Peer(n)][l].replacing_sd # s
    <3> SUFFICES ASSUME NEW l \in Slots, conn[Peer(n)][l].replacing_sd = s PROVE FALSE
      OBVIOUS
    <3>1. Handed(conn[n][i], conn[Peer(n)][l], sock[s].q[n], sock[s].q[Peer(n)])
      BY <1>3, OtherEnd DEF CarriesOn
    <3> QED
      BY <3>1 DEF Handed, CarriesOn
  <2>5. \A j \in Slots \ {i} : ~Uses(conn'[n][j], s)
    BY <1>1, <2>2
  <2>6. /\ EndOK(conn'[n][i], sock'[s].q[n])
        /\ \A l \in Slots : conn[Peer(n)][l].sd = s =>
              Sides(conn'[n][i], conn[Peer(n)][l], sock'[s].q[n], sock'[s].q[Peer(n)],
                    sock'[s].live)
    BY DEF CarriesOn
  <2>7. ServedRight(conn, conn', n, i, s, sock'[s])
    BY <1>1, <2>3, <2>4, <2>5, <2>6 DEF ServedRight
  <2> QED
    BY <2>7, SockServed
<1>5. ASSUME NEW t \in Socks, t # s PROVE FlowOK(conn', sock'[t], t)
  <2>1. Apart(conn[n][i], d, t)
    BY <1>5 DEF Apart, CarriesOn, SameWait
  <2>2. \A j \in Slots : Apart(conn[n][j], conn'[n][j], t)
    BY <1>1, <2>1, ApartSelf
  <2>3. sock'[t] = sock[t]
    BY <1>2, <1>5
  <2> QED
    BY <1>1, <1>3, <2>2, <2>3, SockApart
<1> QED
  BY <1>4, <1>5 DEF Flows

\* Nothing but the sockets was touched.
Recorded == got' = got /\ ever' = ever /\ dropped' = dropped

\* A socket that nobody writes to passes nothing wrong.
LEMMA PassesSame ==
    ASSUME NEW S \in [Socks -> SockTypes], NEW s \in Socks, NEW n \in Node, NEW item
    PROVE  Passes(S[s], S[s], n, item)
<1>1. S[s].q[Peer(n)] \in Seq(Items)
  BY Peers DEF SockTypes
<1>2. Len(S[s].q[Peer(n)]) \in Nat
  BY <1>1
<1> QED
  BY <1>2 DEF Passes, Given

\* All of the invariant.
LEMMA ServeAll ==
    ASSUME Core, Rest, SInv, NEW n \in Node, NEW i \in Slots, NEW s \in Socks, NEW d,
           conn' = Updated(conn, n, i, d), d \in ConnTypes(MaxMsgs[n]),
           Exchange(sock, sock', s), CarriesOn(n, i, s, d), Recorded, Owned(n, i, d),
           NEW item, Passes(sock[s], sock'[s], n, item), Fine(Peer(n), item, conn', conns')
    PROVE  SInv'
<1>0. ConnsTyped(conn, MaxMsgs)
  BY DEF Core
<1>1. Moves(conn, conn', n, i) /\ conn'[n][i] = d
  BY <1>0, Update DEF Moves
<1>2. MovesOne(n, i, d)
  BY <1>1 DEF MovesOne, Moves
<1>3. /\ Regs' /\ Spares' /\ Past'
      /\ \A p \in Node, m \in Items : Fine(p, m, conn, conns) => Fine(p, m, conn', conns')
  BY <1>2, Kept DEF Recorded
<1>4. Flows'
  BY <1>1, ServeSocks DEF SInv
<1>5. \A t \in Socks : Passes(sock[t], sock'[t], n, item)
  <2> SUFFICES ASSUME NEW t \in Socks, t # s PROVE Passes(sock[t], sock'[t], n, item)
    OBVIOUS
  <2>1. sock'[t] = sock[t] /\ sock \in [Socks -> SockTypes]
    BY DEF Exchange, Core
  <2> QED
    BY <2>1, PassesSame
<1>6. Told'
  BY <1>3, <1>5, ItemsKept DEF SInv, Exchange
<1> QED
  BY <1>3, <1>4, <1>6 DEF SInv

-----------------------------------------------------------------------------
\* A connection that does more than wait for an attempt is registered.
LEMMA IsMine ==
    ASSUME SInv, NEW n \in Node, NEW i \in Slots,
           conn[n][i].state \notin {"CLOSED", "STANDBY", "ACCEPTING_WAIT_CONNECT_MSG"}
              \/ conn[n][i].replacing # 0
    PROVE  conns[n] = i
BY DEF SInv, Spares, Spare

\* What is known of it.
LEMMA MineIs ==
    ASSUME Core, Rest, SInv, NEW n \in Node, NEW i \in Slots, conns[n] = i, NEW c, c = conn[n][i]
    PROVE  /\ Status(c) /\ In(n) = c.in_seq /\ In(Peer(n)) \in Nat
           /\ Books(c.out_seq, c.sent, c.out_q, submitted[n], In(Peer(n)))
           /\ c.connect_seq > 0 => conns[Peer(n)] # None
           /\ c \in ConnTypes(MaxMsgs[n]) /\ ConnOK(c) /\ c.in_seq \in Nat /\ c.out_seq \in Nat
           /\ \A l \in Slots : /\ conn[Peer(n)][l].in_seq \in Nat
                               /\ Assigned(c.out_seq, c.out_q, conn[Peer(n)][l].in_seq)
                               /\ conns[Peer(n)] = l => conn[Peer(n)][l].in_seq = In(Peer(n))
<1>1. i # None /\ Peer(n) \in Node /\ None \notin Slots
  BY SocketsPositive, Peers
<1>2. Mine(n) = c /\ In(n) = c.in_seq
  BY <1>1 DEF Mine, In
<1>3. /\ Status(c) /\ Books(c.out_seq, c.sent, c.out_q, submitted[n], In(Peer(n)))
      /\ c.connect_seq > 0 => conns[Peer(n)] # None
  BY <1>1, <1>2 DEF SInv, Regs, Account
<1>4. c \in ConnTypes(MaxMsgs[n]) /\ ConnOK(c)
  BY Before
<1>5. c.in_seq \in Nat /\ c.out_seq \in Nat
  BY <1>4, FieldTypes
<1>6. \A l \in Slots : conn[Peer(n)][l].in_seq \in Nat
  BY <1>1, Before, FieldTypes
<1>7. \A l \in Slots : conns[Peer(n)] = l => conn[Peer(n)][l].in_seq = In(Peer(n))
  BY <1>1 DEF In, Mine
<1>8. In(Peer(n)) \in Nat
  <2>1. conns[Peer(n)] \in Slots \cup {None}
    BY <1>1 DEF Rest
  <2> QED
    BY <1>6, <2>1 DEF In, Mine
<1>9. ASSUME NEW l \in Slots PROVE Assigned(c.out_seq, c.out_q, conn[Peer(n)][l].in_seq)
  <2>1. CASE conns[Peer(n)] = l
    BY <1>3, <1>7, <2>1 DEF Books
  <2>2. CASE conns[Peer(n)] # l
    <3>1. conn[Peer(n)][l].in_seq = 0
      BY <1>1, <2>2 DEF SInv, Spares, Spare
    <3> QED
      BY <1>5, <3>1 DEF Assigned
  <2> QED
    BY <2>1, <2>2
<1> QED
  BY <1>2, <1>3, <1>4, <1>5, <1>6, <1>7, <1>8, <1>9

\* It keeps its numbers and messages.
LEMMA OwnedPlain ==
    ASSUME Core, Rest, SInv, NEW n \in Node, NEW i \in Slots, conns[n] = i, NEW d,
           Keeps(conn[n][i], d), d.sent = conn[n][i].sent, Status(d),
           d.connect_seq > 0 => conns[Peer(n)] # None,
           conns' = conns, submitted' = submitted
    PROVE  Owned(n, i, d)
<1>1. PICK c : c = conn[n][i]
  OBVIOUS
<1>2. /\ In(n) = c.in_seq
      /\ Books(c.out_seq, c.sent, c.out_q, submitted[n], In(Peer(n)))
  BY <1>1, MineIs
<1> QED
  BY <1>1, <1>2 DEF Owned, Keeps, Higher

\* What the connections at the two ends of a socket know of each other.
LEMMA PeerAt ==
    ASSUME Core, SInv, NEW n \in Node, NEW i \in Slots, NEW s \in Socks, conn[n][i].sd = s,
           NEW l \in Slots, conn[Peer(n)][l].sd = s
    PROVE  /\ Sides(conn[n][i], conn[Peer(n)][l], sock[s].q[n], sock[s].q[Peer(n)], sock[s].live)
           /\ Paired(conn[n][i], conn[Peer(n)][l], sock[s].q[n], sock[s].q[Peer(n)])
           /\ sock[s].end[Peer(n)] = "open"
<1>1. SockOK(conn, sock[s], s) /\ FlowOK(conn, sock[s], s)
  BY DEF Core, AllSocks, SInv, Flows
<1>2. Peer(n) \in Node
  BY Peers
<1>3. sock[s].end[Peer(n)] = "open"
  BY <1>1, <1>2, OnlyUser DEF Uses
<1>4. Paired(conn[n][i], conn[Peer(n)][l], sock[s].q[n], sock[s].q[Peer(n)])
  BY <1>1, OtherEnd
<1> QED
  BY <1>1, <1>3, <1>4, SidesOf

\* What the end of a socket knows.
LEMMA EndAt ==
    ASSUME Core, SInv, NEW n \in Node, NEW i \in Slots, NEW s \in Socks, conn[n][i].sd = s
    PROVE  EndOK(conn[n][i], sock[s].q[n])
BY DEF SInv, Flows, FlowOK

\* Connection i of n, now d, has read an item and has sent one.
Exchanged(n, i, s, d, item) ==
    /\ conn' = Updated(conn, n, i, d) /\ conn[n][i].sd = s /\ d.sd = s
    /\ d \in ConnTypes(MaxMsgs[n]) /\ SameWait(conn[n][i], d)
    /\ Exchange(sock, sock', s) /\ sock'[s].live = sock[s].live
    /\ Taken(sock[s].q[n], sock'[s].q[n])
    /\ Given(sock[s].q[Peer(n)], sock'[s].q[Peer(n)], item)
    /\ Fine(Peer(n), item, conn', conns')
    /\ Recorded /\ conns' = conns /\ submitted' = submitted

\* A connection reads an item and writes another: SInv, when both ends stay right.
LEMMA ExchangedAll ==
    ASSUME Core, Rest, SInv, NEW n \in Node, NEW i \in Slots, NEW s \in Socks, NEW d, NEW item,
           Exchanged(n, i, s, d, item), Owned(n, i, d),
           EndOK(d, sock'[s].q[n]),
           \A l \in Slots : conn[Peer(n)][l].sd = s =>
              Sides(d, conn[Peer(n)][l], sock'[s].q[n], sock'[s].q[Peer(n)], sock[s].live)
    PROVE  SInv'
<1>1. Len(sock[s].q[n]) # 0
  BY DEF Exchanged, Taken
<1>2. CarriesOn(n, i, s, d)
  BY <1>1 DEF CarriesOn, Exchanged
<1>3. Passes(sock[s], sock'[s], n, item)
  BY DEF Passes, Exchanged
<1> QED
  BY <1>2, <1>3, ServeAll DEF Exchanged

\* A first or another attempt after c has read a banner or a refusal.
Retries(c, d, qn) ==
    /\ \/ c.state = "CONNECTING_WAIT_BANNER" /\ qn[1].kind = "banner"
       \/ /\ c.state = "CONNECTING_WAIT_CONNECT_REPLY"
          /\ qn[1].kind = "reply" /\ qn[1].tag \notin {"READY", "SEQ"}
    /\ d.state = "CONNECTING_WAIT_CONNECT_REPLY" /\ Keeps(c, d) /\ d.sent = c.sent
    /\ d.flags = c.flags /\ (d.connect_seq = 0 => c.connect_seq = 0)
    /\ Inbox(c, qn)

\* A connection that tries again leaves what it has still to read right,
LEMMA RetryEnd ==
    ASSUME NEW c, NEW d, NEW qn, NEW qn1, Retries(c, d, qn), Taken(qn, qn1), EndOK(c, qn),
           c.in_seq \in Nat
    PROVE  EndOK(d, qn1)
<1>1. qn[1].kind # "msg"
  BY DEF Retries
<1>2. InOrder(qn1, d.in_seq)
  BY <1>1, InOrderTaken DEF EndOK, Retries, Keeps
<1>3. \A j \in 1 .. Len(qn1) : qn1[j].kind # "reply"
  <2>1. \A j \in 1 .. Len(qn) : qn[j].kind = "reply" => j = 1
    BY DEF Retries, Inbox
  <2>2. \A j \in 1 .. Len(qn1) : j + 1 \in 1 .. Len(qn) /\ qn1[j] = qn[j + 1] /\ j + 1 # 1
    BY TakenItems
  <2> QED
    BY <2>1, <2>2
<1>4. d.state = "CONNECTING_WAIT_CONNECT_REPLY"
  BY DEF Retries
<1> QED
  BY <1>2, <1>3, <1>4 DEF EndOK

\* ... and SInv with it: its attempt tells the peer only what is true.
LEMMA RetryAll ==
    ASSUME Core, Rest, SInv, NEW n \in Node, NEW i \in Slots, NEW s \in Socks, NEW d, NEW item,
           Exchanged(n, i, s, d, item), Retries(conn[n][i], d, sock[s].q[n]),
           item.kind = "connect", d.connect_seq > 0 => conns[Peer(n)] # None
    PROVE  SInv'
<1>1. PICK c : c = conn[n][i]
  OBVIOUS
<1>2. c.sd = s /\ Taken(sock[s].q[n], sock'[s].q[n]) /\ Retries(c, d, sock[s].q[n])
  BY <1>1 DEF Exchanged
<1>3. conns[n] = i
  BY <1>1, <1>2, IsMine DEF Retries
<1>4. /\ Status(c) /\ c.in_seq \in Nat
      /\ \A l \in Slots : /\ conn[Peer(n)][l].in_seq \in Nat
                          /\ Assigned(c.out_seq, c.out_q, conn[Peer(n)][l].in_seq)
  BY <1>1, <1>3, MineIs
<1>5. Status(d)
  BY <1>2, <1>4 DEF Status, Retries, Keeps, Undisturbed, Fresh, Flag
<1>6. Owned(n, i, d)
  BY <1>1, <1>2, <1>3, <1>5, OwnedPlain DEF Retries, Exchanged
<1>7. EndOK(d, sock'[s].q[n])
  <2>1. EndOK(c, sock[s].q[n])
    BY <1>1, <1>2, EndAt
  <2> QED
    BY <1>2, <1>4, <2>1, RetryEnd
<1>8. ASSUME NEW l \in Slots, conn[Peer(n)][l].sd = s
      PROVE  Sides(d, conn[Peer(n)][l], sock'[s].q[n], sock'[s].q[Peer(n)], sock[s].live)
  <2>1. PICK x : x = conn[Peer(n)][l]
    OBVIOUS
  <2>2. /\ Sides(c, x, sock[s].q[n], sock[s].q[Peer(n)], sock[s].live)
        /\ Paired(c, x, sock[s].q[n], sock[s].q[Peer(n)])
    BY <1>1, <1>2, <1>8, <2>1, PeerAt
  <2>3. Given(sock[s].q[Peer(n)], sock'[s].q[Peer(n)], item)
    BY DEF Exchanged
  <2>4. Len(sock[s].q[Peer(n)]) \in Nat
    BY <2>3 DEF Given
  <2>5. \/ c.state = "CONNECTING_WAIT_BANNER"
        \/ /\ c.state = "CONNECTING_WAIT_CONNECT_REPLY" /\ sock[s].q[n][1].kind = "reply"
           /\ sock[s].q[n][1].tag \notin {"READY", "SEQ"}
    BY <1>2 DEF Retries
  <2>6. /\ x.state = "ACCEPTING_WAIT_CONNECT_MSG"
        /\ Len(sock'[s].q[n]) = 0 /\ Len(sock[s].q[Peer(n)]) = 0
    BY <1>2, <2>2, <2>4, <2>5, AnswerToRead, ZenonT(30)
  <2>7. x.in_seq \in Nat /\ Assigned(c.out_seq, c.out_q, x.in_seq)
    BY <1>4, <2>1
  <2>8. d.state = "CONNECTING_WAIT_CONNECT_REPLY" /\ Keeps(c, d)
    BY <1>2 DEF Retries
  <2>9. Sides(d, x, sock'[s].q[n], sock'[s].q[Peer(n)], sock[s].live)
    BY <2>2, <2>3, <2>6, <2>7, <2>8, SidesRetry, ZenonT(30)
  <2> QED
    BY <2>1, <2>9
<1> QED
  BY <1>6, <1>7, <1>8, ExchangedAll

\* A reply or a connect message.
LEMMA FineConnect ==
    ASSUME Rest, NEW n \in Node, conns[n] # None, NEW item, item.kind = "connect",
           item.cseq > 0 => conns[Peer(n)] # None, conns' = conns
    PROVE  Fine(Peer(n), item, conn', conns')
<1>1. Peer(Peer(n)) = n
  BY Peers
<1> QED
  BY <1>1 DEF Fine

\* RecvBanner.
LEMMA SRecvBanner ==
    ASSUME Core, Rest, SInv, NEW n \in Node, NEW i \in Slots, RecvBanner(n, i)
    PROVE  SInv'
<1>1. PICK c, s, d, item : /\ c = conn[n][i] /\ s = c.sd /\ item = ConnectItem(c)
                           /\ d = WithState(c, "CONNECTING_WAIT_CONNECT_REPLY")
  OBVIOUS
<1>2. /\ conn' = Updated(conn, n, i, d) /\ sock' = Put(Popped(n, i), s, Peer(n), item)
      /\ conns' = conns /\ submitted' = submitted /\ Recorded
      /\ Reads(n, i, "CONNECTING_WAIT_BANNER", "banner")
  BY <1>1 DEF RecvBanner, Updated, WithState, counters, history, Recorded
<1>3. /\ s \in Socks /\ sock \in [Socks -> SockTypes] /\ sock[s].q[n] # <<>>
      /\ c.state = "CONNECTING_WAIT_BANNER" /\ Popped(n, i) = Pop(sock, s, n)
      /\ sock[s].q[n][1].kind = "banner" /\ Inbox(c, sock[s].q[n])
  BY <1>1, <1>2, Reading
<1>4. conns[n] = i
  BY <1>1, <1>3, IsMine
<1>5. /\ c \in ConnTypes(MaxMsgs[n])
      /\ c.connect_seq > 0 => conns[Peer(n)] # None
  BY <1>1, <1>4, MineIs
<1>6. /\ d \in ConnTypes(MaxMsgs[n]) /\ d.state = "CONNECTING_WAIT_CONNECT_REPLY"
      /\ d.sd = s /\ d.connect_seq = c.connect_seq /\ d.flags = c.flags
      /\ d.sent = c.sent /\ d.replacing = c.replacing
      /\ d.replacing_sd = c.replacing_sd /\ Keeps(c, d)
  <2>1. "CONNECTING_WAIT_CONNECT_REPLY" \in States
    BY FieldValues
  <2> QED
    BY <1>1, <1>5, <2>1, WithStateRecord DEF Keeps
<1>7. item \in Items /\ item.cseq = c.connect_seq /\ item.kind = "connect"
  <2>1. c.global_seq \in Nat /\ c.connect_seq \in Nat
    BY <1>5, FieldTypes
  <2> QED
    BY <1>1, <2>1 DEF ConnectItem, Items
<1>8. /\ Exchange(sock, sock', s)
      /\ Taken(sock[s].q[n], sock'[s].q[n])
      /\ Given(sock[s].q[Peer(n)], sock'[s].q[Peer(n)], item)
      /\ sock'[s].live = sock[s].live
  BY <1>2, <1>3, <1>7, ReadWriteSock, PopPutLive
<1>9. Fine(Peer(n), item, conn', conns')
  BY <1>2, <1>4, <1>5, <1>7, FineConnect, SocketsPositive
<1>10. SameWait(c, d)
  BY <1>6 DEF SameWait, Flag
<1>11. Exchanged(n, i, s, d, item)
  BY <1>1, <1>2, <1>6, <1>8, <1>9, <1>10 DEF Exchanged
<1>12. Retries(c, d, sock[s].q[n])
  BY <1>3, <1>6 DEF Retries
<1> QED
  BY <1>1, <1>3, <1>5, <1>6, <1>7, <1>11, <1>12, RetryAll

\* Resend.
LEMMA SResend ==
    ASSUME Core, Rest, SInv, NEW n \in Node, NEW i \in Slots, NEW tag,
           tag \notin {"READY", "SEQ"}, HasReply(n, i, tag), Recorded, submitted' = submitted,
           NEW d \in ConnTypes(MaxMsgs[n]), d.state = conn[n][i].state, d.sd = conn[n][i].sd,
           d.flags = conn[n][i].flags, d.sent = conn[n][i].sent, Keeps(conn[n][i], d),
           d.replacing = conn[n][i].replacing, d.replacing_sd = conn[n][i].replacing_sd,
           d.connect_seq = 0 => conn[n][i].connect_seq = 0, Resend(n, i, d)
    PROVE  SInv'
<1>1. PICK c, s, item : c = conn[n][i] /\ s = c.sd /\ item = ConnectItem(d)
  OBVIOUS
<1>2. /\ conn' = Updated(conn, n, i, d) /\ sock' = Put(Popped(n, i), s, Peer(n), item)
      /\ conns' = conns
      /\ Reads(n, i, "CONNECTING_WAIT_CONNECT_REPLY", "reply") /\ Item(n, i).tag = tag
  BY <1>1 DEF Resend, Updated, HasReply
<1>3. /\ s \in Socks /\ sock \in [Socks -> SockTypes] /\ sock[s].q[n] # <<>>
      /\ c.state = "CONNECTING_WAIT_CONNECT_REPLY" /\ Popped(n, i) = Pop(sock, s, n)
      /\ Item(n, i) = sock[s].q[n][1] /\ Item(n, i).kind = "reply"
      /\ Len(sock[s].q[n]) # 0 /\ Inbox(c, sock[s].q[n])
  BY <1>1, <1>2, Reading
<1>4. conns[n] = i
  BY <1>1, <1>3, IsMine
<1>5. conns[Peer(n)] # None
  <2>1. sock[s].q[n] \in Seq(Items)
    BY <1>3 DEF SockTypes
  <2>2. 1 \in 1 .. Len(sock[s].q[n])
    BY <1>3, <2>1
  <2>3. Fine(n, sock[s].q[n][1], conn, conns)
    BY <1>3, <2>2 DEF SInv, Told, ItemOK
  <2> QED
    BY <1>3, <2>3 DEF Fine
<1>7. item \in Items /\ item.cseq = d.connect_seq /\ item.kind = "connect"
  <2>1. d.global_seq \in Nat /\ d.connect_seq \in Nat
    BY FieldTypes
  <2> QED
    BY <1>1, <2>1 DEF ConnectItem, Items
<1>8. /\ Exchange(sock, sock', s)
      /\ Taken(sock[s].q[n], sock'[s].q[n])
      /\ Given(sock[s].q[Peer(n)], sock'[s].q[Peer(n)], item)
      /\ sock'[s].live = sock[s].live
  BY <1>2, <1>3, <1>7, ReadWriteSock, PopPutLive
<1>9. Fine(Peer(n), item, conn', conns')
  BY <1>2, <1>4, <1>5, <1>7, FineConnect, SocketsPositive
<1>10. SameWait(c, d)
  BY <1>1 DEF SameWait, Flag
<1>11. Exchanged(n, i, s, d, item)
  BY <1>1, <1>2, <1>8, <1>9, <1>10 DEF Exchanged
<1>12. Retries(c, d, sock[s].q[n])
  <2>1. sock[s].q[n][1].kind = "reply" /\ sock[s].q[n][1].tag \notin {"READY", "SEQ"}
    BY <1>2, <1>3
  <2> QED
    BY <1>1, <1>3, <2>1 DEF Retries
<1> QED
  BY <1>1, <1>3, <1>5, <1>7, <1>11, <1>12, RetryAll

\* The fields of a connection that has other numbers and queues.
LEMMA RenumberFields ==
    ASSUME NEW max, NEW c \in ConnTypes(max), NEW o, NEW S, NEW R, NEW d,
           d = Renumber(c, o, S, R)
    PROVE  /\ d.out_seq = o /\ d.sent = S /\ d.out_q = R /\ d.state = c.state /\ d.sd = c.sd
           /\ d.connect_seq = c.connect_seq /\ d.flags = c.flags /\ d.reply = c.reply
           /\ d.replacing = c.replacing /\ d.replacing_sd = c.replacing_sd
           /\ d.in_seq = c.in_seq
BY DEF ConnTypes, Renumber

\* The same but for the numbers and the queues.
SameButQueues(c, d) ==
    /\ d.state = c.state /\ d.sd = c.sd
    /\ d.connect_seq = c.connect_seq /\ d.flags = c.flags /\ d.reply = c.reply
    /\ d.replacing = c.replacing /\ d.replacing_sd = c.replacing_sd
    /\ d.in_seq = c.in_seq /\ (Fresh(c) => Fresh(d))

\* The books of a connection.
Balanced(c, sub, inp) == Books(c.out_seq, c.sent, c.out_q, sub, inp)

\* No number that c has given is lost in d.
Grows(c, d) == Higher(c.out_seq, c.out_q, d.out_seq, d.out_q)

\* Numbered, on the queues themselves.
LEMMA TidyIs ==
    ASSUME NEW max, NEW c \in ConnTypes(max), Numbered(c)
    PROVE  Tidy(c.out_seq, c.sent, c.out_q)
<1>1. c.out_q \in Seq(MsgTypes(max)) /\ c.out_seq \in Nat /\ c.sent \in Seq(MsgTypes(max))
  BY FieldTypes
<1> QED
  BY <1>1, NumbersAre DEF Numbered

\* discard_requeued_up_to.
LEMMA DiscardBooks ==
    ASSUME NEW max, NEW c \in ConnTypes(max), ConnOK(c), c.state # "OPEN", NEW seq \in Nat,
           NEW d, d = discard_requeued_up_to(c, seq), NEW sub, NEW inp \in Nat,
           Balanced(c, sub, inp), seq <= inp
    PROVE  /\ Balanced(d, sub, inp) /\ Grows(c, d) /\ (seq = inp => d.out_seq = inp)
           /\ SameButQueues(c, d) /\ d \in ConnTypes(max) /\ ConnOK(d)
<1>1. PICK k, o, Q, S : /\ k = AckedPrefix(c.out_q, seq) /\ o = c.out_seq
                        /\ Q = c.out_q /\ S = c.sent
  OBVIOUS
<1>2. PICK R : R = SubSeq(Q, k + 1, Len(Q))
  OBVIOUS
<1>3. Q \in Seq(MsgTypes(max)) /\ o \in Nat
  BY <1>1, FieldTypes
<1>4. S = <<>> /\ Tidy(o, S, Q)
  BY <1>1, TidyIs DEF ConnOK, Numbered
<1>5. /\ k \in 0 .. Len(Q) /\ Len(Q) \in Nat /\ Acknowledged(Q, k, seq)
  BY <1>1, <1>3, PrefixIs DEF Acknowledged
<1>6. Without(R, Q, k)
  <2>1. /\ Len(R) = Len(Q) - k
        /\ \A j \in 1 .. Len(R) : R[j] = Q[j + k] /\ j + k \in 1 .. Len(Q)
    BY <1>2, <1>3, <1>5, RestOf
  <2> QED
    BY <1>5, <2>1 DEF Without
<1>7. d = Renumber(c, o + k, S, R)
  <2>1. d = [c EXCEPT !.out_q = R, !.out_seq = o + k]
    BY <1>1, <1>2, Zenon DEF discard_requeued_up_to
  <2>2. [c EXCEPT !.out_q = R, !.out_seq = o + k] = Renumber(c, o + k, c.sent, R)
    BY DEF Renumber, ConnTypes
  <2> QED
    BY <1>1, <2>1, <2>2
<1>8. /\ d.out_seq = o + k /\ d.sent = S /\ d.out_q = R /\ d.state = c.state /\ d.sd = c.sd
      /\ d.connect_seq = c.connect_seq /\ d.flags = c.flags /\ d.reply = c.reply
      /\ d.replacing = c.replacing /\ d.replacing_sd = c.replacing_sd
      /\ d.in_seq = c.in_seq
  BY <1>7, RenumberFields
<1>9. Len(S) = 0 /\ Books(o, S, Q, sub, inp)
  BY <1>1, <1>4 DEF Balanced
<1>10. /\ Books(o + k, S, R, sub, inp) /\ Higher(o, Q, o + k, R) /\ (seq = inp => o + k = inp)
  BY <1>3, <1>4, <1>5, <1>6, <1>9, BooksDrop
<1>11. Fresh(c) => Fresh(d)
  <2> SUFFICES ASSUME Fresh(c) PROVE Fresh(d)
    OBVIOUS
  <2>1. o = 0 /\ c.in_seq = 0 /\ \A j \in 1 .. Len(Q) : Q[j].seq = 0
    BY <1>1 DEF Fresh
  <2>2. k = 0
    BY <1>5, <2>1 DEF Acknowledged
  <2>3. \A j \in 1 .. Len(R) : R[j].seq = 0
    BY <1>6, <2>1 DEF Without
  <2> QED
    BY <1>8, <2>1, <2>2, <2>3 DEF Fresh
<1>12. d \in ConnTypes(max) /\ ConnOK(d)
  BY DiscardRecord
<1> QED
  BY <1>1, <1>8, <1>10, <1>11, <1>12 DEF Balanced, Grows, SameButQueues

\* requeue_sent.
LEMMA RequeueBooks ==
    ASSUME NEW max, NEW c \in ConnTypes(max), Numbered(c), NEW q, q = requeue_sent(c),
           NEW sub, NEW inp \in Nat, Balanced(c, sub, inp)
    PROVE  /\ Balanced(q, sub, inp) /\ Grows(c, q) /\ SameButQueues(c, q) /\ q.sent = <<>>
           /\ q \in ConnTypes(max) /\ Numbers(q.out_seq, <<>>, q.out_q)
<1>1. PICK S, Q, o : S = c.sent /\ Q = c.out_q /\ o = c.out_seq
  OBVIOUS
<1>2. PICK T, E : T = S \o Q /\ E = <<>>
  OBVIOUS
<1>3. S \in Seq(MsgTypes(max)) /\ Q \in Seq(MsgTypes(max)) /\ o \in Nat
  BY <1>1, FieldTypes
<1>4. Tidy(o, S, Q)
  BY <1>1, TidyIs
<1>5. Joined(T, S, Q)
  <2> HIDE DEF MsgTypes
  <2>1. Len(S) \in Nat /\ Len(Q) \in Nat
    BY <1>3
  <2>2. /\ Len(T) = Len(S) + Len(Q)
        /\ \A k \in 1 .. Len(T) : T[k] = IF k <= Len(S) THEN S[k] ELSE Q[k - Len(S)]
    BY <1>2, <1>3
  <2>3. /\ \A k \in 1 .. Len(S) : k \in 1 .. Len(T) /\ k <= Len(S)
        /\ \A k \in 1 .. Len(Q) : /\ Len(S) + k \in 1 .. Len(T) /\ ~(Len(S) + k <= Len(S))
                                  /\ (Len(S) + k) - Len(S) = k
        /\ \A k \in 1 .. Len(T) : \/ k \in 1 .. Len(S) /\ k <= Len(S)
                                  \/ k - Len(S) \in 1 .. Len(Q) /\ ~(k <= Len(S))
    BY <2>1, <2>2
  <2>4. \A k \in 1 .. Len(S) : T[k] = S[k] /\ k \in 1 .. Len(T)
    BY <2>2, <2>3
  <2>5. \A k \in 1 .. Len(Q) : T[Len(S) + k] = Q[k] /\ Len(S) + k \in 1 .. Len(T)
    BY <2>2, <2>3
  <2>6. \A k \in 1 .. Len(T) : \/ k \in 1 .. Len(S) /\ T[k] = S[k]
                               \/ k - Len(S) \in 1 .. Len(Q) /\ T[k] = Q[k - Len(S)]
    BY <2>2, <2>3
  <2> QED
    BY <2>2, <2>4, <2>5, <2>6 DEF Joined
<1>6. Len(E) = 0
  BY <1>2
<1>7. Books(o, S, Q, sub, inp)
  BY <1>1 DEF Balanced
<1>8. Books(o - Len(S), E, T, sub, inp) /\ Higher(o, Q, o - Len(S), T)
  BY <1>3, <1>4, <1>5, <1>6, <1>7, BooksJoin
<1>9. q = Renumber(c, o - Len(S), E, T)
  BY <1>1, <1>2 DEF requeue_sent, Renumber, ConnTypes
<1>10. /\ q.out_seq = o - Len(S) /\ q.sent = E /\ q.out_q = T /\ q.state = c.state /\ q.sd = c.sd
       /\ q.connect_seq = c.connect_seq /\ q.flags = c.flags /\ q.reply = c.reply
       /\ q.replacing = c.replacing /\ q.replacing_sd = c.replacing_sd
       /\ q.in_seq = c.in_seq
  BY <1>9, RenumberFields
<1>11. Fresh(c) => Fresh(q)
  <2> SUFFICES ASSUME Fresh(c) PROVE Fresh(q)
    OBVIOUS
  <2>1. o = 0 /\ c.in_seq = 0 /\ \A j \in 1 .. Len(Q) : Q[j].seq = 0
    BY <1>1 DEF Fresh
  <2>2. Len(S) = 0
    BY <1>3, <1>4, <2>1 DEF Tidy
  <2>3. \A j \in 1 .. Len(T) : T[j].seq = 0
    BY <1>5, <2>1, <2>2 DEF Joined
  <2> QED
    BY <1>10, <2>1, <2>2, <2>3 DEF Fresh
<1>12. q \in ConnTypes(max) /\ Numbers(q.out_seq, <<>>, q.out_q)
  BY RequeueRecord
<1> QED
  BY <1>1, <1>2, <1>8, <1>10, <1>11, <1>12 DEF Balanced, Grows, SameButQueues

\* handle_ack.
LEMMA AckBooks ==
    ASSUME NEW max, NEW c \in ConnTypes(max), ConnOK(c), NEW seq \in Nat,
           NEW d, d = handle_ack(c, seq), NEW sub, NEW inp \in Nat,
           Balanced(c, sub, inp), seq <= inp
    PROVE  /\ Balanced(d, sub, inp) /\ Grows(c, d) /\ SameButQueues(c, d) /\ Keeps(c, d)
           /\ d \in ConnTypes(max) /\ ConnOK(d)
<1>1. PICK k, o, Q, S : /\ k = AckedPrefix(c.sent, seq) /\ o = c.out_seq
                        /\ Q = c.out_q /\ S = c.sent
  OBVIOUS
<1>2. PICK R : R = SubSeq(S, k + 1, Len(S))
  OBVIOUS
<1>3. S \in Seq(MsgTypes(max)) /\ o \in Nat
  BY <1>1, FieldTypes
<1>4. Tidy(o, S, Q)
  BY <1>1, TidyIs DEF ConnOK
<1>5. /\ k \in 0 .. Len(S) /\ Len(S) \in Nat /\ Acknowledged(S, k, seq)
  BY <1>1, <1>3, PrefixIs DEF Acknowledged
<1>6. Without(R, S, k)
  <2>1. /\ Len(R) = Len(S) - k
        /\ \A j \in 1 .. Len(R) : R[j] = S[j + k] /\ j + k \in 1 .. Len(S)
    BY <1>2, <1>3, <1>5, RestOf
  <2> QED
    BY <1>5, <2>1 DEF Without
<1>7. d = Renumber(c, o, R, Q)
  <2>1. d = [c EXCEPT !.sent = R]
    BY <1>1, <1>2, Zenon DEF handle_ack
  <2>2. [c EXCEPT !.sent = R] = Renumber(c, c.out_seq, R, c.out_q)
    BY DEF Renumber, ConnTypes
  <2> QED
    BY <1>1, <2>1, <2>2
<1>8. /\ d.out_seq = o /\ d.sent = R /\ d.out_q = Q /\ d.state = c.state /\ d.sd = c.sd
      /\ d.connect_seq = c.connect_seq /\ d.flags = c.flags /\ d.reply = c.reply
      /\ d.replacing = c.replacing /\ d.replacing_sd = c.replacing_sd
      /\ d.in_seq = c.in_seq
  BY <1>7, RenumberFields
<1>9. Books(o, S, Q, sub, inp)
  BY <1>1 DEF Balanced
<1>10. Books(o, R, Q, sub, inp)
  BY <1>3, <1>4, <1>5, <1>6, <1>9, BooksAck
<1>11. d \in ConnTypes(max) /\ ConnOK(d)
  BY AckRecord
<1> QED
  BY <1>1, <1>8, <1>10, <1>11 DEF Balanced, Grows, SameButQueues, Keeps, Fresh, Higher

\* _send of the first message of a queue Q.
SentFirst(c, Q) == [_send(c, Head(Q)) EXCEPT !.out_q = Tail(Q)]

\* An open connection whose first queued message can be written;
CanSend(max, c, Q, sub, inp) ==
    /\ c \in ConnTypes(max) /\ ConnOK(c) /\ c.state = "OPEN" /\ ~Flag(c, "lossy")
    /\ Q \in Seq(MsgTypes(max)) /\ Q # <<>> /\ Numbers(c.out_seq, c.sent, Q)
    /\ inp \in Nat /\ Books(c.out_seq, c.sent, Q, sub, inp)

\* ... and what it is once _send has written it:
DidSend(max, c, Q, sub, inp, d) ==
    /\ Balanced(d, sub, inp) /\ Higher(c.out_seq, Q, d.out_seq, d.out_q)
    /\ Head(Q).id = d.out_seq /\ d.out_seq = c.out_seq + 1
    /\ d \in ConnTypes(max) /\ ConnOK(d) /\ d.state = c.state /\ d.sd = c.sd
    /\ d.connect_seq = c.connect_seq /\ d.flags = c.flags /\ d.in_seq = c.in_seq
    /\ d.replacing = c.replacing /\ d.replacing_sd = c.replacing_sd

\* ... the message moves from out_q to sent with the next number, and the books
\* still balance.
LEMMA SendBooks ==
    ASSUME NEW max, NEW c, NEW Q, NEW sub, NEW inp, CanSend(max, c, Q, sub, inp), NEW d,
           d = SentFirst(c, Q)
    PROVE  DidSend(max, c, Q, sub, inp, d)
<1>a. /\ c \in ConnTypes(max) /\ ConnOK(c) /\ c.state = "OPEN" /\ ~Flag(c, "lossy")
      /\ Q \in Seq(MsgTypes(max)) /\ Q # <<>> /\ Numbers(c.out_seq, c.sent, Q)
      /\ inp \in Nat /\ Books(c.out_seq, c.sent, Q, sub, inp)
  BY DEF CanSend
<1>1. PICK m, U, o, S : /\ m = [Head(Q) EXCEPT !.seq = c.out_seq + 1]
                        /\ U = Tail(Q) /\ o = c.out_seq /\ S = c.sent
  OBVIOUS
<1>2. PICK T : T = Append(S, m)
  OBVIOUS
<1>3. o \in Nat /\ S \in Seq(MsgTypes(max))
  BY <1>a, <1>1, FieldTypes
<1>4. m \in MsgTypes(max) /\ m.id = Q[1].id /\ Head(Q) = Q[1]
  <2>1. Head(Q) = Q[1] /\ Head(Q) \in MsgTypes(max)
    BY <1>a
  <2> QED
    BY <1>1, <1>3, <2>1 DEF MsgTypes
<1>5. Moved(T, S, m, U, Q)
  <2> HIDE DEF MsgTypes
  <2>1. /\ Len(T) = Len(S) + 1 /\ T[Len(S) + 1] = m
        /\ \A k \in 1 .. Len(S) : T[k] = S[k]
    BY <1>2, <1>3, <1>4
  <2>2. /\ Len(Q) # 0 /\ Len(U) = Len(Q) - 1
        /\ \A k \in 1 .. Len(U) : U[k] = Q[k + 1]
    BY <1>a, <1>1
  <2> QED
    BY <2>1, <2>2 DEF Moved
<1>6. Tidy(o, S, Q)
  BY <1>a, <1>1, <1>3, NumbersAre
<1>7. Books(o, S, Q, sub, inp)
  BY <1>a, <1>1
<1>8. Books(o + 1, T, U, sub, inp) /\ Higher(o, Q, o + 1, U) /\ m.id = o + 1
  BY <1>a, <1>3, <1>4, <1>5, <1>6, <1>7, BooksSend
<1>9. PICK o1, e : o1 = o + 1 /\ e = Renumber(c, o1, T, U)
  OBVIOUS
<1>12. d = e
  BY <1>a, <1>1, <1>2, <1>9 DEF _send, Renumber, SentFirst
<1>13. /\ e.out_seq = o1 /\ e.sent = T /\ e.out_q = U /\ e.state = c.state /\ e.sd = c.sd
       /\ e.connect_seq = c.connect_seq /\ e.flags = c.flags /\ e.reply = c.reply
       /\ e.replacing = c.replacing /\ e.replacing_sd = c.replacing_sd
       /\ e.in_seq = c.in_seq
  BY <1>a, <1>9, RenumberFields
<1>10. /\ d.out_seq = o + 1 /\ d.sent = T /\ d.out_q = U /\ d.state = c.state /\ d.sd = c.sd
       /\ d.connect_seq = c.connect_seq /\ d.flags = c.flags /\ d.reply = c.reply
       /\ d.replacing = c.replacing /\ d.replacing_sd = c.replacing_sd
       /\ d.in_seq = c.in_seq
  BY <1>9, <1>12, <1>13
<1>11. d \in ConnTypes(max) /\ ConnOK(d)
  BY <1>a, SendRecord DEF SentFirst
<1> QED
  BY <1>1, <1>4, <1>8, <1>10, <1>11 DEF Balanced, DidSend

\* What a reply that is read tells.
LEMMA FirstFine ==
    ASSUME Core, SInv, NEW n \in Node, NEW s \in Socks, sock[s].q[n] # <<>>
    PROVE  Fine(n, sock[s].q[n][1], conn, conns)
<1>1. sock[s].q[n] \in Seq(Items)
  BY DEF Core, SockTypes
<1>2. 1 \in 1 .. Len(sock[s].q[n])
  BY <1>1
<1> QED
  BY <1>2 DEF SInv, Told, ItemOK

\* reply_RETRY_GLOBAL.
LEMMA SRetryGlobal ==
    ASSUME Core, Rest, SInv, NEW n \in Node, NEW i \in Slots, reply_RETRY_GLOBAL(n, i)
    PROVE  SInv'
<1>1. PICK new, d : /\ new = Max({global_seq[n], Item(n, i).gseq}) + 1
                    /\ d = WithGseq(conn[n][i], new)
  OBVIOUS
<1>2. /\ HasReply(n, i, "RETRY_GLOBAL") /\ Resend(n, i, d) /\ submitted' = submitted /\ Recorded
  BY <1>1 DEF reply_RETRY_GLOBAL, WithGseq, history, Recorded
<1>3. conn[n][i] \in ConnTypes(MaxMsgs[n])
  BY Before
<1>4. Item(n, i) \in Items /\ Item(n, i).kind = "reply"
  <2>1. Reads(n, i, "CONNECTING_WAIT_CONNECT_REPLY", "reply")
    BY <1>2 DEF HasReply
  <2> QED
    BY <2>1, Reading
<1>5. new \in Nat
  <2>1. Item(n, i).gseq \in Nat /\ global_seq[n] \in Nat
    BY <1>4, ItemKinds DEF Rest
  <2>2. Max({global_seq[n], Item(n, i).gseq}) \in Nat
    BY <2>1, MaxOfTwo
  <2> QED
    BY <1>1, <2>2
<1>6. /\ d \in ConnTypes(MaxMsgs[n]) /\ d.flags = conn[n][i].flags
      /\ d.sent = conn[n][i].sent /\ Keeps(conn[n][i], d)
      /\ d.connect_seq = conn[n][i].connect_seq
      /\ d.state = conn[n][i].state /\ d.sd = conn[n][i].sd
      /\ d.replacing = conn[n][i].replacing /\ d.replacing_sd = conn[n][i].replacing_sd
  BY <1>1, <1>3, <1>5, WithGseqRecord DEF Keeps
<1>7. "RETRY_GLOBAL" \notin {"READY", "SEQ"}
  OBVIOUS
<1> QED
  BY <1>2, <1>6, <1>7, SResend

\* reply_RETRY_SESSION.
LEMMA SRetrySession ==
    ASSUME Core, Rest, SInv, NEW n \in Node, NEW i \in Slots, reply_RETRY_SESSION(n, i)
    PROVE  SInv'
<1>1. PICK c, new : c = conn[n][i] /\ new = Item(n, i).cseq
  OBVIOUS
<1>d. PICK d : d = WithCseq(c, new)
  OBVIOUS
<1>2. /\ HasReply(n, i, "RETRY_SESSION") /\ Resend(n, i, d) /\ submitted' = submitted /\ Recorded
  BY <1>1, <1>d DEF reply_RETRY_SESSION, WithCseq, history, Recorded
<1>3. c \in ConnTypes(MaxMsgs[n]) /\ c.connect_seq \in Nat
  BY <1>1, Before, FieldTypes
<1>4. /\ Item(n, i) \in Items /\ Item(n, i).kind = "reply" /\ Item(n, i).tag = "RETRY_SESSION"
      /\ Item(n, i) = sock[c.sd].q[n][1] /\ Inbox(c, sock[c.sd].q[n])
      /\ c.state = "CONNECTING_WAIT_CONNECT_REPLY" /\ c.sd \in Socks
      /\ sock[c.sd].q[n] # <<>> /\ sock \in [Socks -> SockTypes]
  <2>1. Reads(n, i, "CONNECTING_WAIT_CONNECT_REPLY", "reply")
    BY <1>2 DEF HasReply
  <2> QED
    BY <1>1, <1>2, <2>1, Reading DEF HasReply
<1>5. new \in Nat
  BY <1>1, <1>4, ItemKinds
<1>6. new > c.connect_seq
  <2>1. 1 \in 1 .. Len(sock[c.sd].q[n])
    <3>1. sock[c.sd].q[n] \in Seq(Items)
      BY <1>4 DEF SockTypes
    <3> QED
      BY <1>4, <3>1
  <2>2. Fits(sock[c.sd].q[n][1], c.connect_seq)
    BY <1>4, <2>1 DEF Inbox
  <2> QED
    BY <1>1, <1>4, <2>2 DEF Fits
<1>7. /\ d \in ConnTypes(MaxMsgs[n]) /\ d.flags = c.flags
      /\ d.sent = c.sent /\ Keeps(c, d) /\ d.connect_seq = new
      /\ d.state = c.state /\ d.sd = c.sd
      /\ d.replacing = c.replacing /\ d.replacing_sd = c.replacing_sd
  BY <1>d, <1>3, <1>5, WithCseqRecord, SMTT(30) DEF Keeps
<1>8. "RETRY_SESSION" \notin {"READY", "SEQ"}
  OBVIOUS
<1>9. d.connect_seq = 0 => c.connect_seq = 0
  BY <1>3, <1>6, <1>7
<1> QED
  BY <1>1, <1>2, <1>7, <1>8, <1>9, SResend

\* An acknowledgement, or the number in a reply.
LEMMA FineNumber ==
    ASSUME NEW n \in Node, NEW i \in Slots, NEW d, conns'[n] = i, conn'[n][i] = d, NEW item,
           item.kind \in {"seq", "ack"}, item.seq <= d.in_seq
    PROVE  Fine(Peer(n), item, conn', conns')
<1>1. Peer(Peer(n)) = n /\ None \notin Slots
  BY Peers, SocketsPositive
<1> QED
  BY <1>1 DEF Fine

\* The fields of a connection that opens.
LEMMA OpenedFields ==
    ASSUME NEW max, NEW c \in ConnTypes(max), NEW r \in ReplyTypes, r \in Items,
           r.lossy = "no", Undisturbed(c), NEW d, d = Opened(c, r)
    PROVE  /\ d \in ConnTypes(max) /\ d.state = "OPEN" /\ d.connect_seq = c.connect_seq + 1
           /\ d.sd = c.sd /\ d.out_seq = c.out_seq /\ d.sent = c.sent /\ d.out_q = c.out_q
           /\ d.replacing = c.replacing /\ d.replacing_sd = c.replacing_sd
           /\ d.in_seq = c.in_seq /\ ~Flag(d, "lossy") /\ Undisturbed(d)
           /\ Flag(d, "is_reset_from_peer") => Flag(c, "is_reset_from_peer")
<1>1. PICK F : F = (c.flags \ {"lossy"}) \cup {"queue_reset"}
                     \cup (IF r.lossy = "yes" THEN {"lossy"} ELSE {})
  OBVIOUS
<1>2. c.flags \in SUBSET Flags /\ c.connect_seq \in Nat
  BY FieldTypes
<1>3. F \in SUBSET Flags
  BY <1>1, <1>2 DEF Flags
<1>4. r.gseq \in Nat /\ c.connect_seq + 1 \in Nat
  BY <1>2, ItemKinds
<1>5. PICK g, k : g = r.gseq /\ k = c.connect_seq + 1
  OBVIOUS
<1>6. d = WithSession(c, g, k, F)
  <2>1. [c EXCEPT !.state = "OPEN", !.peer_global_seq = g].connect_seq = c.connect_seq
    BY DEF ConnTypes
  <2>2. [c EXCEPT !.state = "OPEN", !.peer_global_seq = g, !.connect_seq = k,
                  !.global_seq = 0].flags = c.flags
    BY DEF ConnTypes
  <2> QED
    BY <1>1, <1>5, <2>1, <2>2 DEF Opened, WithSession
<1>7. /\ d \in ConnTypes(max) /\ d.state = "OPEN" /\ d.connect_seq = k /\ d.sd = c.sd
      /\ d.out_seq = c.out_seq /\ d.sent = c.sent /\ d.out_q = c.out_q
      /\ d.replacing = c.replacing /\ d.replacing_sd = c.replacing_sd
      /\ d.flags = F /\ d.in_seq = c.in_seq
  BY <1>3, <1>4, <1>5, <1>6, WithSessionRecord
<1>8. /\ "lossy" \notin F /\ "stopping" \notin F /\ "replacing_reset_session" \notin F
      /\ "is_reset_from_peer" \in F => "is_reset_from_peer" \in c.flags
  BY <1>1 DEF Undisturbed, Flag
<1> QED
  BY <1>5, <1>7, <1>8 DEF Undisturbed, Flag

\* READY or SEQ was read: the connection, now d, is open.
Opens(c, d, qn) ==
    /\ c.state = "CONNECTING_WAIT_CONNECT_REPLY"
    /\ qn[1].kind = "reply" /\ qn[1].tag \in {"READY", "SEQ"}
    /\ d.state = "OPEN" /\ d.connect_seq = c.connect_seq + 1
    /\ ~Flag(d, "lossy") /\ Undisturbed(d) /\ d.in_seq = c.in_seq

\* A connecting connection opens and tells its in_seq: SInv, when it has dropped what
\* the peer has.
LEMMA OpensAll ==
    ASSUME Core, Rest, SInv, NEW n \in Node, NEW i \in Slots, NEW s \in Socks, NEW d, NEW item,
           Exchanged(n, i, s, d, item), Opens(conn[n][i], d, sock[s].q[n]),
           conns[Peer(n)] # None, item.kind = "seq", item.seq = d.in_seq,
           Balanced(d, submitted[n], In(Peer(n))), Grows(conn[n][i], d),
           \A l \in Slots : conn[Peer(n)][l].sd = s => d.out_seq = conn[Peer(n)][l].in_seq
    PROVE  SInv'
<1>1. PICK c : c = conn[n][i]
  OBVIOUS
<1>2. c.sd = s /\ Taken(sock[s].q[n], sock'[s].q[n]) /\ Opens(c, d, sock[s].q[n])
  BY <1>1 DEF Exchanged
<1>3. conns[n] = i
  BY <1>1, <1>2, IsMine DEF Opens
<1>4. /\ Status(c) /\ c.in_seq \in Nat /\ In(n) = c.in_seq
      /\ c \in ConnTypes(MaxMsgs[n])
      /\ \A l \in Slots : conn[Peer(n)][l].in_seq \in Nat
  BY <1>1, <1>3, MineIs
<1>5. d.connect_seq > 0
  BY <1>2, <1>4, FieldTypes DEF Opens
<1>6. Status(d)
  BY <1>2, <1>5 DEF Status, Opens
<1>7. Owned(n, i, d)
  <2>1. conns' = conns /\ submitted' = submitted
    BY DEF Exchanged
  <2> QED
    BY <1>1, <1>2, <1>3, <1>4, <1>6, <2>1 DEF Owned, Opens, Balanced, Grows
<1>8. EndOK(d, sock'[s].q[n])
  <2>1. EndOK(c, sock[s].q[n])
    BY <1>1, <1>2, EndAt
  <2>2. InOrder(sock'[s].q[n], d.in_seq)
    BY <1>2, <1>4, <2>1, InOrderTaken DEF EndOK, Opens
  <2>3. d.state = "OPEN"
    BY <1>2 DEF Opens
  <2> QED
    BY <2>2, <2>3 DEF EndOK
<1>9. ASSUME NEW l \in Slots, conn[Peer(n)][l].sd = s
      PROVE  Sides(d, conn[Peer(n)][l], sock'[s].q[n], sock'[s].q[Peer(n)], sock[s].live)
  <2>1. PICK x : x = conn[Peer(n)][l]
    OBVIOUS
  <2>2. /\ Sides(c, x, sock[s].q[n], sock[s].q[Peer(n)], sock[s].live)
        /\ Paired(c, x, sock[s].q[n], sock[s].q[Peer(n)])
    BY <1>1, <1>2, <1>9, <2>1, PeerAt
  <2>3. Given(sock[s].q[Peer(n)], sock'[s].q[Peer(n)], item)
    BY DEF Exchanged
  <2>4. /\ c.state = "CONNECTING_WAIT_CONNECT_REPLY" /\ d.state = "OPEN"
        /\ d.in_seq = c.in_seq /\ sock[s].q[n][1].kind = "reply"
        /\ sock[s].q[n][1].tag \in {"READY", "SEQ"}
    BY <1>2 DEF Opens
  <2>5. x.state \in {"ACCEPTING_WAIT_SEQ", "OPEN"}
    BY <1>2, <2>2, <2>4, ConfirmationToRead, ZenonT(30)
  <2>6. x.in_seq \in Nat /\ d.out_seq = x.in_seq
    BY <1>4, <1>9, <2>1
  <2>7. Sides(d, x, sock'[s].q[n], sock'[s].q[Peer(n)], sock[s].live)
    BY <1>2, <1>4, <2>2, <2>3, <2>4, <2>5, <2>6, SidesOpened, ZenonT(30)
  <2> QED
    BY <2>1, <2>7
<1> QED
  BY <1>7, <1>8, <1>9, ExchangedAll

\* What is known when a connection has a reply to read.
LEMMA ReplyRead ==
    ASSUME Core, Rest, SInv, NEW n \in Node, NEW i \in Slots, NEW tag, HasReply(n, i, tag),
           NEW c, c = conn[n][i], NEW s, s = c.sd, NEW r, r = Item(n, i)
    PROVE  /\ s \in Socks /\ sock \in [Socks -> SockTypes] /\ sock[s].q[n] # <<>>
           /\ c.state = "CONNECTING_WAIT_CONNECT_REPLY" /\ Popped(n, i) = Pop(sock, s, n)
           /\ r = sock[s].q[n][1] /\ r.kind = "reply" /\ r.tag = tag /\ r \in Items
           /\ r \in ReplyTypes /\ conns[n] = i /\ conns[Peer(n)] # None /\ r.lossy = "no"
           /\ r.tag # "RESETSESSION" /\ (r.tag = "SEQ" => r.seq <= In(Peer(n)))
           /\ 1 \in 1 .. Len(sock[s].q[n]) /\ Inbox(c, sock[s].q[n])
<1>1. Reads(n, i, "CONNECTING_WAIT_CONNECT_REPLY", "reply") /\ r.tag = tag
  BY DEF HasReply
<1>2. /\ s \in Socks /\ sock \in [Socks -> SockTypes] /\ sock[s].q[n] # <<>>
      /\ c.state = "CONNECTING_WAIT_CONNECT_REPLY" /\ Popped(n, i) = Pop(sock, s, n)
      /\ r = sock[s].q[n][1] /\ r.kind = "reply" /\ r \in Items
      /\ Inbox(c, sock[s].q[n])
  BY <1>1, Reading
<1>3. r \in ReplyTypes
  BY <1>2, ItemKinds
<1>4. conns[n] = i
  BY <1>2, IsMine
<1>5. Fine(n, r, conn, conns)
  BY <1>2, FirstFine
<1>6. /\ conns[Peer(n)] # None /\ r.lossy = "no"
      /\ r.tag # "RESETSESSION" /\ (r.tag = "SEQ" => r.seq <= In(Peer(n)))
  BY <1>2, <1>5 DEF Fine, In, Mine
<1>7. 1 \in 1 .. Len(sock[s].q[n])
  <2>1. sock[s].q[n] \in Seq(Items)
    BY <1>2 DEF SockTypes
  <2> QED
    BY <1>2, <2>1, SMTT(30)
<1> QED
  BY <1>1, <1>2, <1>3, <1>4, <1>6, <1>7

\* reply_READY.
LEMMA SReady ==
    ASSUME Core, Rest, SInv, NEW n \in Node, NEW i \in Slots, reply_READY(n, i)
    PROVE  SInv'
<1>1. PICK c, s, r : c = conn[n][i] /\ s = c.sd /\ r = Item(n, i)
  OBVIOUS
<1>d. PICK d : d = Opened(c, r)
  OBVIOUS
<1>i. PICK item : item = [kind |-> "seq", seq |-> d.in_seq]
  OBVIOUS
<1>2. /\ HasReply(n, i, "READY") /\ conn' = Updated(conn, n, i, d) /\ sock' = Popped(n, i)
      /\ conns' = conns /\ submitted' = submitted /\ Recorded
  BY <1>1, <1>d DEF reply_READY, Updated, history, Recorded
<1>3. /\ s \in Socks /\ sock \in [Socks -> SockTypes] /\ sock[s].q[n] # <<>>
      /\ c.state = "CONNECTING_WAIT_CONNECT_REPLY" /\ Popped(n, i) = Pop(sock, s, n)
      /\ r = sock[s].q[n][1] /\ r.kind = "reply" /\ r.tag = "READY" /\ r \in Items
      /\ r \in ReplyTypes /\ conns[n] = i /\ conns[Peer(n)] # None /\ r.lossy = "no"
      /\ 1 \in 1 .. Len(sock[s].q[n])
  BY <1>1, <1>2, ReplyRead
<1>4. /\ Status(c) /\ c \in ConnTypes(MaxMsgs[n]) /\ c.in_seq \in Nat
      /\ Balanced(c, submitted[n], In(Peer(n)))
      /\ \A l \in Slots : /\ conn[Peer(n)][l].in_seq \in Nat
                          /\ Assigned(c.out_seq, c.out_q, conn[Peer(n)][l].in_seq)
  BY <1>1, <1>3, MineIs DEF Balanced
<1>5. Undisturbed(c)
  BY <1>4 DEF Status
<1>6. /\ d \in ConnTypes(MaxMsgs[n]) /\ d.state = "OPEN" /\ d.connect_seq = c.connect_seq + 1
      /\ d.sd = c.sd /\ d.out_seq = c.out_seq /\ d.sent = c.sent /\ d.out_q = c.out_q
      /\ d.replacing = c.replacing /\ d.replacing_sd = c.replacing_sd
      /\ d.in_seq = c.in_seq /\ ~Flag(d, "lossy") /\ Undisturbed(d)
      /\ Flag(d, "is_reset_from_peer") => Flag(c, "is_reset_from_peer")
  BY <1>d, <1>3, <1>4, <1>5, OpenedFields
<1>7. Fresh(c)
  <2>1. EndOK(c, sock[s].q[n])
    BY <1>1, <1>3, EndAt
  <2> QED
    BY <1>3, <2>1 DEF EndOK
<1>8. \A l \in Slots : d.out_seq = conn[Peer(n)][l].in_seq
  BY <1>4, <1>6, <1>7, FreshPeer DEF Fresh
<1>9. conn'[n][i] = d
  BY <1>2, <1>4, <1>6, Update DEF Core
<1>10. Opens(c, d, sock[s].q[n])
  BY <1>3, <1>6 DEF Opens
<1>11. Exchanged(n, i, s, d, item)
  <2>1. sock' = Pop(sock, s, n)
    BY <1>2, <1>3
  <2>2. /\ Exchange(sock, sock', s) /\ sock'[s].q[Peer(n)] = sock[s].q[Peer(n)]
        /\ Taken(sock[s].q[n], sock'[s].q[n]) /\ Len(sock[s].q[Peer(n)]) \in Nat
    BY <1>3, <2>1, ReadSock
  <2>3. sock'[s].live = sock[s].live
    BY <1>3, <2>1, PopLive
  <2>4. Given(sock[s].q[Peer(n)], sock'[s].q[Peer(n)], item)
    BY <2>2 DEF Given
  <2>5. item.kind = "seq" /\ item.seq <= d.in_seq
    BY <1>i, <1>4, <1>6
  <2>6. Fine(Peer(n), item, conn', conns')
    BY <1>2, <1>3, <1>9, <2>5, FineNumber
  <2>7. SameWait(c, d)
    BY <1>6 DEF SameWait
  <2> QED
    BY <1>1, <1>2, <1>6, <2>2, <2>3, <2>4, <2>6, <2>7 DEF Exchanged
<1>12. Balanced(d, submitted[n], In(Peer(n))) /\ Grows(c, d)
  BY <1>4, <1>6 DEF Balanced, Grows, Higher
<1>13. item.kind = "seq" /\ item.seq = d.in_seq
  BY <1>i
<1>14. /\ Opens(conn[n][i], d, sock[s].q[n]) /\ Grows(conn[n][i], d)
       /\ \A l \in Slots : conn[Peer(n)][l].sd = s => d.out_seq = conn[Peer(n)][l].in_seq
  BY <1>1, <1>8, <1>10, <1>12
<1>15. s \in Socks /\ conns[Peer(n)] # None /\ Balanced(d, submitted[n], In(Peer(n)))
  BY <1>3, <1>12
<1> QED
  BY <1>11, <1>13, <1>14, <1>15, OpensAll, SMTT(30)

\* The connecting side opens after SEQ.
LEMMA SSeqOpen ==
    ASSUME Core, Rest, SInv, NEW n \in Node, NEW i \in Slots, HasReply(n, i, "SEQ"),
           NEW e, e = discard_requeued_up_to(conn[n][i], Item(n, i).seq),
           NEW d, d = Opened(e, Item(n, i)), conn' = Updated(conn, n, i, d),
           NEW item, item = [kind |-> "seq", seq |-> e.in_seq],
           sock' = Put(Popped(n, i), e.sd, Peer(n), item),
           conns' = conns, submitted' = submitted, Recorded
    PROVE  SInv'
<1>1. PICK c, s, r : c = conn[n][i] /\ s = c.sd /\ r = Item(n, i)
  OBVIOUS
<1>3. /\ s \in Socks /\ sock \in [Socks -> SockTypes] /\ sock[s].q[n] # <<>>
      /\ c.state = "CONNECTING_WAIT_CONNECT_REPLY" /\ Popped(n, i) = Pop(sock, s, n)
      /\ r = sock[s].q[n][1] /\ r.kind = "reply" /\ r.tag = "SEQ" /\ r \in Items
      /\ r \in ReplyTypes /\ conns[n] = i /\ conns[Peer(n)] # None /\ r.lossy = "no"
      /\ r.seq <= In(Peer(n)) /\ 1 \in 1 .. Len(sock[s].q[n])
  BY <1>1, ReplyRead
<1>4. /\ Status(c) /\ c \in ConnTypes(MaxMsgs[n]) /\ c.in_seq \in Nat /\ ConnOK(c)
      /\ Balanced(c, submitted[n], In(Peer(n))) /\ In(Peer(n)) \in Nat
      /\ \A l \in Slots : /\ conn[Peer(n)][l].in_seq \in Nat
                          /\ conns[Peer(n)] = l => conn[Peer(n)][l].in_seq = In(Peer(n))
  BY <1>1, <1>3, MineIs DEF Balanced
<1>5. r.seq \in Nat
  BY <1>3, ItemKinds
<1>6. /\ Balanced(e, submitted[n], In(Peer(n))) /\ Grows(c, e)
      /\ (r.seq = In(Peer(n)) => e.out_seq = In(Peer(n)))
      /\ SameButQueues(c, e) /\ e \in ConnTypes(MaxMsgs[n])
  <2>1. e = discard_requeued_up_to(c, r.seq) /\ c.state # "OPEN"
    BY <1>1, <1>3
  <2>2. PICK sub, inp, max : sub = submitted[n] /\ inp = In(Peer(n)) /\ max = MaxMsgs[n]
    OBVIOUS
  <2>3. /\ c \in ConnTypes(max) /\ ConnOK(c) /\ inp \in Nat /\ Balanced(c, sub, inp)
        /\ r.seq <= inp
    BY <1>3, <1>4, <2>2
  <2>4. /\ Balanced(e, sub, inp) /\ Grows(c, e) /\ (r.seq = inp => e.out_seq = inp)
        /\ SameButQueues(c, e) /\ e \in ConnTypes(max)
    BY <1>5, <2>1, <2>3, DiscardBooks, ZenonT(30)
  <2> QED
    BY <2>2, <2>4
<1>7. Undisturbed(e)
  BY <1>4, <1>6 DEF Status, Undisturbed, SameButQueues, Flag
<1>8. /\ d \in ConnTypes(MaxMsgs[n]) /\ d.state = "OPEN" /\ d.connect_seq = e.connect_seq + 1
      /\ d.sd = e.sd /\ d.out_seq = e.out_seq /\ d.sent = e.sent /\ d.out_q = e.out_q
      /\ d.replacing = e.replacing /\ d.replacing_sd = e.replacing_sd
      /\ d.in_seq = e.in_seq /\ ~Flag(d, "lossy") /\ Undisturbed(d)
      /\ Flag(d, "is_reset_from_peer") => Flag(e, "is_reset_from_peer")
  <2>1. d = Opened(e, r)
    BY <1>1
  <2>2. PICK max : max = MaxMsgs[n]
    OBVIOUS
  <2>3. e \in ConnTypes(max) /\ r \in ReplyTypes /\ r \in Items /\ r.lossy = "no"
    BY <1>3, <1>6, <2>2
  <2>4. /\ d \in ConnTypes(max) /\ d.state = "OPEN" /\ d.connect_seq = e.connect_seq + 1
        /\ d.sd = e.sd /\ d.out_seq = e.out_seq /\ d.sent = e.sent /\ d.out_q = e.out_q
        /\ d.replacing = e.replacing /\ d.replacing_sd = e.replacing_sd
        /\ d.in_seq = e.in_seq /\ ~Flag(d, "lossy") /\ Undisturbed(d)
        /\ Flag(d, "is_reset_from_peer") => Flag(e, "is_reset_from_peer")
    BY <1>7, <2>1, <2>3, OpenedFields, SMTT(30)
  <2> QED
    BY <2>2, <2>4
<1>9. /\ e.connect_seq = c.connect_seq /\ e.sd = s /\ e.in_seq = c.in_seq
      /\ e.replacing = c.replacing /\ e.replacing_sd = c.replacing_sd
      /\ Flag(e, "is_reset_from_peer") => Flag(c, "is_reset_from_peer")
  BY <1>1, <1>6 DEF SameButQueues, Flag
<1>10. conn'[n][i] = d
  BY <1>4, <1>8, Update DEF Core
<1>11. Opens(c, d, sock[s].q[n])
  BY <1>3, <1>8, <1>9 DEF Opens
<1>12. item.kind = "seq" /\ item.seq = d.in_seq /\ item \in Items /\ item.seq <= d.in_seq
  <2>1. d.in_seq \in Nat /\ item.kind = "seq" /\ item.seq = d.in_seq
    BY <1>4, <1>8, <1>9
  <2>2. item \in [kind : {"seq", "ack"}, seq : Nat]
    BY <1>4, <1>9
  <2> QED
    BY <2>1, <2>2 DEF Items
<1>13. Exchanged(n, i, s, d, item)
  <2>1. sock' = Put(Pop(sock, s, n), s, Peer(n), item)
    BY <1>3, <1>9
  <2>2. /\ Exchange(sock, sock', s) /\ Taken(sock[s].q[n], sock'[s].q[n])
        /\ Given(sock[s].q[Peer(n)], sock'[s].q[Peer(n)], item)
    BY <1>3, <1>12, <2>1, ReadWriteSock
  <2>3. sock'[s].live = sock[s].live
    BY <1>3, <2>1, PopPutLive
  <2>6. Fine(Peer(n), item, conn', conns')
    BY <1>3, <1>10, <1>12, FineNumber
  <2>7. SameWait(c, d)
    BY <1>8, <1>9 DEF SameWait
  <2>8. conn[n][i].sd = s /\ d.sd = s
    BY <1>1, <1>8, <1>9
  <2> QED
    BY <1>1, <1>8, <2>2, <2>3, <2>6, <2>7, <2>8 DEF Exchanged
<1>14. Balanced(d, submitted[n], In(Peer(n))) /\ Grows(c, d)
  BY <1>6, <1>8 DEF Balanced, Grows
<1>15. ASSUME NEW l \in Slots, conn[Peer(n)][l].sd = s
       PROVE  d.out_seq = conn[Peer(n)][l].in_seq
  <2>1. PICK x : x = conn[Peer(n)][l]
    OBVIOUS
  <2>2. /\ Sides(c, x, sock[s].q[n], sock[s].q[Peer(n)], sock[s].live)
        /\ Paired(c, x, sock[s].q[n], sock[s].q[Peer(n)])
    BY <1>1, <1>3, <1>15, <2>1, PeerAt
  <2>3. Taken(sock[s].q[n], sock'[s].q[n])
    BY <1>13 DEF Exchanged
  <2>4. x.state \in {"ACCEPTING_WAIT_SEQ", "OPEN"}
    BY <1>3, <2>2, <2>3, ConfirmationToRead
  <2>5. conns[Peer(n)] = l
    BY <2>1, <2>4, Peers, IsMine
  <2>6. r.seq = x.in_seq
    BY <1>3, <2>2 DEF Sides, Link
  <2> QED
    BY <1>4, <1>6, <1>8, <2>1, <2>5, <2>6
<1>16. /\ Opens(conn[n][i], d, sock[s].q[n]) /\ Grows(conn[n][i], d)
       /\ \A l \in Slots : conn[Peer(n)][l].sd = s => d.out_seq = conn[Peer(n)][l].in_seq
  BY <1>1, <1>11, <1>14, <1>15
<1>17. /\ s \in Socks /\ conns[Peer(n)] # None /\ Balanced(d, submitted[n], In(Peer(n)))
       /\ item.kind = "seq" /\ item.seq = d.in_seq
  BY <1>3, <1>12, <1>14
<1> QED
  BY <1>13, <1>16, <1>17, OpensAll, SMTT(30)

\* Who sent the attempt m over s.
Attempting(c, x, m, qn, qp, live) ==
    /\ x.state = "CONNECTING_WAIT_CONNECT_REPLY" /\ Len(qp) = 0
    /\ m.cseq = x.connect_seq /\ (m.cseq = 0 => Fresh(x))
    /\ Sides(c, x, qn, qp, live)

\* What is known when a connection has an attempt to read.
LEMMA AttemptRead ==
    ASSUME Core, Rest, SInv, NEW n \in Node, NEW i \in Slots,
           Reads(n, i, "ACCEPTING_WAIT_CONNECT_MSG", "connect"),
           NEW c, c = conn[n][i], NEW s, s = c.sd, NEW m, m = Item(n, i)
    PROVE  /\ s \in Socks /\ sock \in [Socks -> SockTypes] /\ sock[s].q[n] # <<>>
           /\ c.state = "ACCEPTING_WAIT_CONNECT_MSG" /\ Popped(n, i) = Pop(sock, s, n)
           /\ m = sock[s].q[n][1] /\ m.kind = "connect" /\ m \in Items
           /\ m.cseq \in Nat /\ m.gseq \in Nat
           /\ conns[Peer(n)] # None /\ (m.cseq > 0 => conns[n] # None)
           /\ c \in ConnTypes(MaxMsgs[n]) /\ ConnOK(c) /\ Len(sock[s].q[n]) = 1
           /\ EndOK(c, sock[s].q[n])
           /\ \A l \in Slots : conn[Peer(n)][l].sd = s =>
                 Attempting(c, conn[Peer(n)][l], m, sock[s].q[n], sock[s].q[Peer(n)], sock[s].live)
<1>1. /\ s \in Socks /\ sock \in [Socks -> SockTypes] /\ sock[s].q[n] # <<>>
      /\ c.state = "ACCEPTING_WAIT_CONNECT_MSG" /\ Popped(n, i) = Pop(sock, s, n)
      /\ m = sock[s].q[n][1] /\ m.kind = "connect" /\ m \in Items
  BY Reading
<1>2. m.cseq \in Nat /\ m.gseq \in Nat
  BY <1>1, ItemKinds
<1>3. Fine(n, m, conn, conns)
  BY <1>1, FirstFine
<1>4. conns[Peer(n)] # None /\ (m.cseq > 0 => conns[n] # None)
  BY <1>1, <1>3 DEF Fine
<1>5. c \in ConnTypes(MaxMsgs[n]) /\ ConnOK(c)
  BY Before
<1>6. EndOK(c, sock[s].q[n])
  BY <1>1, EndAt
<1>7. Len(sock[s].q[n]) = 1 /\ Len(sock[s].q[Peer(n)]) \in Nat
  <2>1. PICK qn, qp, q1 : /\ qn = sock[s].q[n] /\ qp = sock[s].q[Peer(n)]
                          /\ q1 = Pop(sock, s, n)[s].q[n]
    OBVIOUS
  <2>2. Taken(qn, q1) /\ Len(qp) \in Nat
    BY <1>1, <2>1, ReadSock
  <2>3. Len(qn) <= 1
    BY <1>1, <1>6, <2>1 DEF EndOK
  <2>4. Len(qn) = 1
    BY <2>2, <2>3 DEF Taken
  <2> QED
    BY <2>1, <2>2, <2>4
<1>8. ASSUME NEW l \in Slots, conn[Peer(n)][l].sd = s
      PROVE  Attempting(c, conn[Peer(n)][l], m, sock[s].q[n], sock[s].q[Peer(n)], sock[s].live)
  <2>1. PICK x, qn1 : x = conn[Peer(n)][l] /\ qn1 = Popped(n, i)[s].q[n]
    OBVIOUS
  <2>2. /\ Sides(c, x, sock[s].q[n], sock[s].q[Peer(n)], sock[s].live)
        /\ Paired(c, x, sock[s].q[n], sock[s].q[Peer(n)])
    BY <1>1, <1>8, <2>1, PeerAt
  <2>3. Taken(sock[s].q[n], qn1)
    BY <1>1, <2>1, ReadSock
  <2>4. /\ x.state = "CONNECTING_WAIT_CONNECT_REPLY"
        /\ Len(sock[s].q[Peer(n)]) = 0 /\ m.cseq = x.connect_seq
    <3>1. PICK qn, qp : qn = sock[s].q[n] /\ qp = sock[s].q[Peer(n)]
      OBVIOUS
    <3>2. Paired(c, x, qn, qp) /\ Taken(qn, qn1) /\ Len(qp) \in Nat
      BY <1>1, <1>7, <2>2, <2>3, <3>1
    <3>5. m = qn[1]
      BY <1>1, <3>1
    <3>3. c.state = "ACCEPTING_WAIT_CONNECT_MSG"
      BY <1>1
    <3>4. /\ x.state = "CONNECTING_WAIT_CONNECT_REPLY" /\ Len(qp) = 0
          /\ qn[1].cseq = x.connect_seq
      BY <3>2, <3>3, AttemptToRead, SMTT(30)
    <3> QED
      BY <3>1, <3>5, <3>4
  <2>5. Peer(n) \in Node
    BY Peers
  <2>6. conns[Peer(n)] = l
    BY <2>1, <2>4, <2>5, IsMine
  <2>7. Status(x)
    BY <2>1, <2>5, <2>6, MineIs
  <2>8. m.cseq = 0 => Fresh(x)
    BY <2>4, <2>7 DEF Status
  <2> QED
    BY <2>1, <2>2, <2>4, <2>8 DEF Attempting
<1> QED
  BY <1>1, <1>2, <1>4, <1>5, <1>6, <1>7, <1>8

\* A refusal.
LEMMA FineRefusal ==
    ASSUME NEW n \in Node, NEW r, r.kind = "reply", r.tag \notin {"RESETSESSION", "SEQ"},
           r.lossy = "no", conns'[n] # None
    PROVE  Fine(Peer(n), r, conn', conns')
<1>1. Peer(Peer(n)) = n
  BY Peers
<1> QED
  BY <1>1 DEF Fine

\* What _reply_accept writes.
LEMMA ReplyFields ==
    ASSUME NEW tag \in Tags, NEW cseq \in Nat, NEW gseq \in Nat, NEW seq \in Nat,
           NEW lossy \in {"yes", "no"}, NEW r, r = Reply(tag, cseq, gseq, seq, lossy)
    PROVE  /\ r \in ReplyTypes /\ r \in Items /\ r.kind = "reply" /\ r.tag = tag
           /\ r.cseq = cseq /\ r.gseq = gseq /\ r.seq = seq /\ r.lossy = lossy
<1>1. r \in ReplyTypes /\ r \in Items
  BY ReplyTyped
<1> QED
  BY <1>1 DEF Reply

\* _reply_accept, by a connection that is not registered.
LEMMA SRefuse ==
    ASSUME Core, Rest, SInv, NEW n \in Node, NEW i \in Slots, conns[n] # None, conns[n] # i,
           Reads(n, i, "ACCEPTING_WAIT_CONNECT_MSG", "connect"), NEW r,
           r.tag \in {"RETRY_GLOBAL", "RETRY_SESSION", "WAIT"}, r.cseq \in Nat, r.gseq \in Nat,
           _reply_accept(n, i, r)
    PROVE  SInv'
<1>1. PICK c, s, F, item : /\ c = conn[n][i] /\ s = c.sd
                           /\ F = (c.flags \ {"lossy"}) \cup PolicyFlags(n)
                           /\ item = Reply(r.tag, r.cseq, r.gseq, 0, "no")
  OBVIOUS
<1>d. PICK d : d = WithFlags(c, F)
  OBVIOUS
<1>2. /\ conn' = Updated(conn, n, i, d) /\ sock' = Put(Popped(n, i), s, Peer(n), item)
      /\ conns' = conns /\ submitted' = submitted /\ Recorded
  BY <1>1, <1>d DEF _reply_accept, Updated, WithFlags, history, Recorded
<1>3. /\ s \in Socks /\ sock \in [Socks -> SockTypes] /\ sock[s].q[n] # <<>>
      /\ c.state = "ACCEPTING_WAIT_CONNECT_MSG" /\ Popped(n, i) = Pop(sock, s, n)
      /\ c \in ConnTypes(MaxMsgs[n]) /\ Len(sock[s].q[n]) = 1
  BY <1>1, AttemptRead
<1>x. \A l \in Slots : conn[Peer(n)][l].sd = s =>
        /\ conn[Peer(n)][l].state = "CONNECTING_WAIT_CONNECT_REPLY" /\ Len(sock[s].q[Peer(n)]) = 0
  BY <1>1, AttemptRead DEF Attempting
<1>4. Spare(c)
  BY <1>1 DEF SInv, Spares
<1>5. F \in SUBSET Flags /\ "stopping" \notin F /\ "replacing_reset_session" \notin F
      /\ ("is_reset_from_peer" \in F => "is_reset_from_peer" \in c.flags)
  <2>1. PolicyFlags(n) \subseteq {"lossy"} /\ PolicyFlags(n) \in SUBSET Flags
    BY PolicyFlagsTyped DEF PolicyFlags
  <2>2. c.flags \in SUBSET Flags
    BY <1>3, FieldTypes
  <2> QED
    BY <1>1, <1>4, <2>1, <2>2 DEF Spare, Undisturbed, Flag
<1>6. /\ d \in ConnTypes(MaxMsgs[n]) /\ d.flags = F /\ d.state = c.state /\ d.sd = c.sd
      /\ d.connect_seq = c.connect_seq /\ d.out_seq = c.out_seq /\ d.sent = c.sent
      /\ d.out_q = c.out_q /\ d.replacing = c.replacing
      /\ d.replacing_sd = c.replacing_sd /\ d.in_seq = c.in_seq
  BY <1>d, <1>3, <1>5, WithFlagsRecord
<1>7. Spare(d)
  BY <1>4, <1>5, <1>6 DEF Spare, Undisturbed, Flag
<1>8. Owned(n, i, d)
  BY <1>2, <1>7 DEF Owned
<1>9. /\ item \in Items /\ item.kind = "reply" /\ item.tag = r.tag /\ item.lossy = "no"
  <2>1. r.tag \in Tags /\ 0 \in Nat /\ "no" \in {"yes", "no"}
    BY DEF Tags
  <2> QED
    BY <1>1, <2>1, ReplyFields
<1>10. /\ Exchange(sock, sock', s) /\ Taken(sock[s].q[n], sock'[s].q[n])
       /\ Given(sock[s].q[Peer(n)], sock'[s].q[Peer(n)], item)
  BY <1>2, <1>3, <1>9, ReadWriteSock
<1>11. sock'[s].live = sock[s].live
  BY <1>2, <1>3, PopPutLive
<1>12. Fine(Peer(n), item, conn', conns')
  BY <1>2, <1>9, FineRefusal
<1>13. SameWait(c, d)
  BY <1>5, <1>6 DEF SameWait, Flag
<1>14. Exchanged(n, i, s, d, item)
  BY <1>1, <1>2, <1>6, <1>10, <1>11, <1>12, <1>13 DEF Exchanged
<1>15. Len(sock'[s].q[n]) = 0
  BY <1>3, <1>10 DEF Taken
<1>16. EndOK(d, sock'[s].q[n])
  BY <1>15, EndEmpty
<1>17. ASSUME NEW l \in Slots, conn[Peer(n)][l].sd = s
       PROVE  Sides(d, conn[Peer(n)][l], sock'[s].q[n], sock'[s].q[Peer(n)], sock[s].live)
  <2>1. d.state = "ACCEPTING_WAIT_CONNECT_MSG" /\ d.replacing = 0
    BY <1>3, <1>4, <1>6 DEF Spare
  <2>2. item.kind = "reply" /\ item.tag \notin {"READY", "SEQ"}
    BY <1>9
  <2>3. conn[Peer(n)][l].state = "CONNECTING_WAIT_CONNECT_REPLY" /\ Len(sock[s].q[Peer(n)]) = 0
    BY <1>17, <1>x
  <2>4. Given(sock[s].q[Peer(n)], sock'[s].q[Peer(n)], item)
    BY <1>10
  <2> QED
    BY <1>15, <2>1, <2>2, <2>3, <2>4, SidesRefuse, SMTT(30)
<1> QED
  BY <1>3, <1>8, <1>14, <1>16, <1>17, ExchangedAll

\* The connection c has accepted the attempt m and is now d.
Accepted(c, d, m) ==
    /\ d.state = "ACCEPTING_REPLY" /\ d.connect_seq = m.cseq + 1 /\ d.sd = c.sd
    /\ d.out_seq = c.out_seq /\ d.sent = c.sent /\ d.out_q = c.out_q
    /\ d.replacing = c.replacing /\ d.replacing_sd = c.replacing_sd
    /\ ~Flag(d, "lossy") /\ ~Flag(d, "is_reset_from_peer") /\ Undisturbed(d)
    /\ d.in_seq = IF NegotiatesSeq(c) THEN c.in_seq ELSE 0
    /\ d.reply.seq = d.in_seq /\ d.reply.lossy = "no"
    /\ d.reply.tag = IF NegotiatesSeq(c) THEN "SEQ" ELSE "READY"

\* The connection that accept_open makes of one that nobody disturbs.
LEMMA AcceptedIs ==
    ASSUME Core, Rest, NEW n \in Node, NEW i \in Slots, ~Policy[n].lossy,
           NEW m, m.cseq \in Nat, m.gseq \in Nat, accept_open(n, i, m), Undisturbed(conn[n][i])
    PROVE  \E d \in ConnTypes(MaxMsgs[n]) :
              conn' = Updated(conn, n, i, d) /\ Accepted(conn[n][i], d, m)
<1>1. PICK c : c = conn[n][i]
  OBVIOUS
<1>2. PICK ni, na, F : /\ ni = IF NegotiatesSeq(c) THEN c.in_seq ELSE 0
                       /\ na = IF NegotiatesSeq(c) THEN c.in_seq_acked ELSE 0
                       /\ F = (c.flags \ {"lossy", "is_reset_from_peer"})
                                 \cup PolicyFlags(n)
  OBVIOUS
<1>3. PICK k, g, tag, lossy :
         /\ k = m.cseq + 1 /\ g = global_seq[n] + 1
         /\ tag = IF NegotiatesSeq(c) THEN "SEQ" ELSE "READY"
         /\ lossy = IF Policy[n].lossy THEN "yes" ELSE "no"
  OBVIOUS
<1>4. PICK r : r = Reply(tag, k, g, ni, lossy)
  OBVIOUS
<1>5. PICK d : d = WithReply(c, k, m.gseq, ni, na, F, r)
  OBVIOUS
<1>6. conn' = Updated(conn, n, i, d)
  <2>1. [c EXCEPT !.state = "ACCEPTING_REPLY", !.connect_seq = k, !.peer_global_seq = m.gseq,
                  !.in_seq = ni].in_seq_acked = c.in_seq_acked
    BY <1>1, Before DEF ConnTypes
  <2>2. [c EXCEPT !.state = "ACCEPTING_REPLY", !.connect_seq = k, !.peer_global_seq = m.gseq,
                  !.in_seq = ni, !.in_seq_acked = na].flags = c.flags
    BY <1>1, Before DEF ConnTypes
  <2>3. conn' = [conn EXCEPT ![n][i] = [c EXCEPT
              !.state = "ACCEPTING_REPLY",
              !.connect_seq = m.cseq + 1,
              !.peer_global_seq = m.gseq,
              !.in_seq = IF NegotiatesSeq(c) THEN c.in_seq ELSE 0,
              !.in_seq_acked = IF NegotiatesSeq(c) THEN @ ELSE 0,
              !.flags = (@ \ {"lossy", "is_reset_from_peer"})
                           \cup PolicyFlags(n),
              !.reply = Reply(IF NegotiatesSeq(c) THEN "SEQ" ELSE "READY", m.cseq + 1,
                              global_seq[n] + 1,
                              IF NegotiatesSeq(c) THEN c.in_seq ELSE 0,
                              IF Policy[n].lossy THEN "yes" ELSE "no")]]
    BY <1>1, Zenon DEF accept_open
  <2> QED
    BY <1>2, <1>3, <1>4, <1>5, <2>1, <2>2, <2>3, Zenon DEF WithReply, Updated
<1>7. c \in ConnTypes(MaxMsgs[n]) /\ global_seq[n] \in Nat
  BY <1>1, Before DEF Rest
<1>8. /\ k \in Nat /\ g \in Nat /\ ni \in Nat /\ na \in Nat /\ F \in SUBSET Flags
      /\ tag \in Tags /\ lossy = "no"
  <2>1. c.in_seq \in Nat /\ c.in_seq_acked \in Nat /\ c.flags \in SUBSET Flags
    BY <1>7, FieldTypes
  <2>2. F \in SUBSET Flags
    BY <1>2, <2>1, PolicyFlagsTyped DEF Flags
  <2> QED
    BY <1>2, <1>3, <1>7, <2>1, <2>2 DEF Tags
<1>9. /\ r \in ReplyTypes /\ r.tag = tag /\ r.seq = ni /\ r.lossy = "no"
  <2>1. lossy \in {"yes", "no"}
    BY <1>8
  <2> QED
    BY <1>4, <1>8, <2>1, ReplyFields
<1>10. /\ d \in ConnTypes(MaxMsgs[n]) /\ d.state = "ACCEPTING_REPLY" /\ d.connect_seq = k
       /\ d.in_seq = ni /\ d.flags = F /\ d.reply = r /\ d.sd = c.sd
       /\ d.out_seq = c.out_seq /\ d.sent = c.sent /\ d.out_q = c.out_q
       /\ d.replacing = c.replacing /\ d.replacing_sd = c.replacing_sd
  BY <1>5, <1>7, <1>8, <1>9, WithReplyRecord
<1>11. /\ "lossy" \notin F /\ "is_reset_from_peer" \notin F /\ "stopping" \notin F
       /\ "replacing_reset_session" \notin F
  <2>1. PolicyFlags(n) = {}
    BY DEF PolicyFlags
  <2>2. "stopping" \notin c.flags /\ "replacing_reset_session" \notin c.flags
    BY <1>1 DEF Undisturbed, Flag
  <2> QED
    BY <1>2, <2>1, <2>2
<1>12. Accepted(c, d, m)
  <2>1. /\ ~Flag(d, "lossy") /\ ~Flag(d, "is_reset_from_peer") /\ Undisturbed(d)
    BY <1>10, <1>11 DEF Flag, Undisturbed
  <2> QED
    BY <1>2, <1>3, <1>9, <1>10, <2>1 DEF Accepted
<1> QED
  BY <1>1, <1>6, <1>10, <1>12

\* The last item was read.
LEMMA TakenLast ==
    ASSUME NEW q, NEW q1, Taken(q, q1), Len(q) = 1
    PROVE  Len(q1) = 0
  BY DEF Taken

\* The accepting side is to reply.
LEMMA AcceptsAll ==
    ASSUME Core, Rest, SInv, NEW n \in Node, NEW i \in Slots,
           Reads(n, i, "ACCEPTING_WAIT_CONNECT_MSG", "connect"), NEW s, s = conn[n][i].sd,
           NEW d \in ConnTypes(MaxMsgs[n]), Accepted(conn[n][i], d, Item(n, i)),
           conn' = Updated(conn, n, i, d), sock' = Popped(n, i), Recorded, Owned(n, i, d),
           d.reply.tag = "READY" =>
              \A l \in Slots : conn[Peer(n)][l].sd = s => Fresh(conn[Peer(n)][l])
    PROVE  SInv'
<1>1. PICK c, item : c = conn[n][i] /\ item = [kind |-> "banner"]
  OBVIOUS
<1>3. /\ s \in Socks /\ sock \in [Socks -> SockTypes] /\ sock[s].q[n] # <<>>
      /\ c.state = "ACCEPTING_WAIT_CONNECT_MSG" /\ Popped(n, i) = Pop(sock, s, n)
      /\ Len(sock[s].q[n]) = 1
  BY <1>1, AttemptRead
<1>x. \A l \in Slots : conn[Peer(n)][l].sd = s =>
        /\ conn[Peer(n)][l].state = "CONNECTING_WAIT_CONNECT_REPLY" /\ Len(sock[s].q[Peer(n)]) = 0
  BY <1>1, AttemptRead DEF Attempting
<1>4. /\ d.state = "ACCEPTING_REPLY" /\ d.sd = s /\ SameWait(c, d)
  BY <1>1 DEF Accepted, SameWait
<1>5. sock' = Pop(sock, s, n)
  BY <1>3
<1>6. /\ Exchange(sock, sock', s) /\ sock'[s].q[Peer(n)] = sock[s].q[Peer(n)]
      /\ Taken(sock[s].q[n], sock'[s].q[n]) /\ Len(sock[s].q[Peer(n)]) \in Nat
  BY <1>3, <1>5, ReadSock
<1>7. sock'[s].live = sock[s].live
  BY <1>3, <1>5, PopLive
<1>8. Len(sock'[s].q[n]) = 0
  BY <1>3, <1>6, TakenLast
<1>9. EndOK(d, sock'[s].q[n])
  BY <1>8, EndEmpty
<1>10. ASSUME NEW l \in Slots, conn[Peer(n)][l].sd = s
       PROVE  Sides(d, conn[Peer(n)][l], sock'[s].q[n], sock'[s].q[Peer(n)], sock'[s].live)
  <2>1. PICK x, q0, q1, live : /\ x = conn[Peer(n)][l] /\ q0 = sock'[s].q[n]
                               /\ q1 = sock'[s].q[Peer(n)] /\ live = sock'[s].live
    OBVIOUS
  <2>2. /\ x.state = "CONNECTING_WAIT_CONNECT_REPLY" /\ Len(q1) = 0 /\ Len(q0) = 0
        /\ d.reply.tag = "READY" => Fresh(x)
    BY <1>x, <1>6, <1>8, <1>10, <2>1
  <2>3. Sides(d, x, q0, q1, live)
    BY <1>4, <2>2, SidesOpen, SMTT(30)
  <2> QED
    BY <2>1, <2>3
<1>11. CarriesOn(n, i, s, d)
  BY <1>1, <1>3, <1>4, <1>9, <1>10 DEF CarriesOn
<1>12. Passes(sock[s], sock'[s], n, item)
  BY <1>6 DEF Passes, Given
<1>13. Fine(Peer(n), item, conn', conns')
  BY <1>1 DEF Fine
<1> QED
  BY <1>3, <1>6, <1>11, <1>12, <1>13, ServeAll

\* accept_open by the registered connection, which has taken over the socket.
LEMMA SAcceptMine ==
    ASSUME Core, Rest, SInv, NEW n \in Node, NEW i \in Slots, ~Policy[n].lossy, conns[n] = i,
           Reads(n, i, "ACCEPTING_WAIT_CONNECT_MSG", "connect"),
           accept_open(n, i, Item(n, i))
    PROVE  SInv'
<1>1. PICK c, s, m : c = conn[n][i] /\ s = c.sd /\ m = Item(n, i)
  OBVIOUS
<1>2. /\ c.state = "ACCEPTING_WAIT_CONNECT_MSG" /\ m.cseq \in Nat /\ m.gseq \in Nat
      /\ conns[Peer(n)] # None /\ Len(sock[s].q[n]) = 1 /\ EndOK(c, sock[s].q[n])
  BY <1>1, AttemptRead
<1>3. /\ Status(c) /\ In(n) = c.in_seq /\ c.in_seq \in Nat
      /\ Books(c.out_seq, c.sent, c.out_q, submitted[n], In(Peer(n)))
  BY <1>1, MineIs
<1>4. c.replacing = 2 /\ Undisturbed(c)
  BY <1>2, <1>3 DEF Status
<1>5. PICK d \in ConnTypes(MaxMsgs[n]) : conn' = Updated(conn, n, i, d) /\ Accepted(c, d, m)
  BY <1>1, <1>2, <1>4, AcceptedIs
<1>6. /\ conns' = [conns EXCEPT ![n] = i] /\ sock' = Popped(n, i) /\ submitted' = submitted
      /\ Recorded
  BY DEF accept_open, history, Recorded
<1>7. conns' = conns
  BY <1>6 DEF Rest
<1>8. ~NegotiatesSeq(c) => Flag(c, "is_reset_from_peer") /\ c.in_seq = 0
  <2>1. ~NegotiatesSeq(c) => Flag(c, "is_reset_from_peer")
    BY <1>4 DEF NegotiatesSeq
  <2> QED
    BY <1>2, <1>4, <2>1 DEF EndOK
<1>9. d.in_seq = c.in_seq /\ (d.reply.tag = "READY" => c.in_seq = 0 /\ ~NegotiatesSeq(c))
  BY <1>5, <1>8 DEF Accepted
<1>10. Status(d)
  <2>1. d.connect_seq > 0
    BY <1>2, <1>5 DEF Accepted
  <2> QED
    BY <1>5, <1>9, <2>1 DEF Accepted, Status
<1>11. Keeps(c, d) /\ d.sent = c.sent
  BY <1>5, <1>9 DEF Keeps, Accepted
<1>12. Owned(n, i, d)
  BY <1>1, <1>2, <1>6, <1>7, <1>10, <1>11, OwnedPlain
<1>13. d.reply.tag = "READY" => \A l \in Slots : conn[Peer(n)][l].sd = s => Fresh(conn[Peer(n)][l])
  <2> SUFFICES ASSUME d.reply.tag = "READY", NEW l \in Slots, conn[Peer(n)][l].sd = s
               PROVE  Fresh(conn[Peer(n)][l])
    OBVIOUS
  <2>1. PICK x : x = conn[Peer(n)][l]
    OBVIOUS
  <2>2. Sides(c, x, sock[s].q[n], sock[s].q[Peer(n)], sock[s].live)
    BY <1>1, <2>1, AttemptRead DEF Attempting
  <2>3. Flag(c, "is_reset_from_peer")
    BY <1>8, <1>9
  <2> QED
    BY <1>2, <1>4, <2>1, <2>2, <2>3 DEF Sides, Link
<1> QED
  BY <1>1, <1>5, <1>6, <1>12, <1>13, AcceptsAll

\* accept_open by a new connection, when there is none.
LEMMA SAcceptNew ==
    ASSUME Core, Rest, SInv, NEW n \in Node, NEW i \in Slots, ~Policy[n].lossy,
           conns[n] = None, Reads(n, i, "ACCEPTING_WAIT_CONNECT_MSG", "connect"),
           Item(n, i).cseq = 0, accept_open(n, i, Item(n, i))
    PROVE  SInv'
<1>1. PICK c, s, m : c = conn[n][i] /\ s = c.sd /\ m = Item(n, i)
  OBVIOUS
<1>2. /\ c.state = "ACCEPTING_WAIT_CONNECT_MSG" /\ m.cseq \in Nat /\ m.gseq \in Nat
      /\ conns[Peer(n)] # None
  BY <1>1, AttemptRead
<1>3. Spare(c)
  <2>1. conns[n] # i
    BY SocketsPositive
  <2> QED
    BY <1>1, <2>1 DEF SInv, Spares
<1>4. Undisturbed(c) /\ ~NegotiatesSeq(c)
  BY <1>3 DEF Spare, NegotiatesSeq
<1>5. PICK d \in ConnTypes(MaxMsgs[n]) : conn' = Updated(conn, n, i, d) /\ Accepted(c, d, m)
  BY <1>1, <1>2, <1>4, AcceptedIs
<1>6. /\ conns' = [conns EXCEPT ![n] = i] /\ sock' = Popped(n, i) /\ submitted' = submitted
      /\ Recorded
  BY DEF accept_open, history, Recorded
<1>7. conns'[n] = i /\ conns'[Peer(n)] = conns[Peer(n)] /\ conns[n] # i
  BY <1>6, Peers, SocketsPositive DEF Rest
<1>8. d.in_seq = 0 /\ In(n) = 0 /\ d.out_seq = 0 /\ d.sent = <<>> /\ d.out_q = <<>>
  BY <1>3, <1>4, <1>5 DEF Accepted, Spare, In
<1>9. Status(d)
  <2>1. d.connect_seq > 0
    BY <1>2, <1>5 DEF Accepted
  <2> QED
    BY <1>5, <1>8, <2>1 DEF Accepted, Status
<1>10. Books(d.out_seq, d.sent, d.out_q, submitted'[n], In(Peer(n)))
  <2>1. submitted[n] = 0 /\ In(Peer(n)) = 0
    BY DEF SInv, Regs, Account
  <2>2. Books(0, <<>>, <<>>, 0, 0)
    BY DEF Books, Assigned
  <2> QED
    BY <1>6, <1>8, <2>1, <2>2
<1>11. Owned(n, i, d)
  <2>1. d.in_seq = In(n)
    BY <1>8
  <2> QED
    BY <1>2, <1>6, <1>7, <1>9, <1>10, <2>1 DEF Owned
<1>12. d.reply.tag = "READY" => \A l \in Slots : conn[Peer(n)][l].sd = s => Fresh(conn[Peer(n)][l])
  BY <1>1, AttemptRead DEF Attempting
<1> QED
  BY <1>1, <1>5, <1>6, <1>11, <1>12, AcceptsAll

\* A connection that has replied.
LEMMA RepliedRecord ==
    ASSUME NEW max, NEW c \in ConnTypes(max), NEW told, NEW x, x = Replied(c, told)
    PROVE  /\ x \in ConnTypes(max) /\ x.replacing = 0
           /\ x.state = c.state /\ x.sd = c.sd /\ x.connect_seq = c.connect_seq
           /\ x.out_seq = c.out_seq /\ x.sent = c.sent /\ x.out_q = c.out_q
           /\ x.replacing_sd = c.replacing_sd /\ x.in_seq = c.in_seq
           /\ Flag(x, "lossy") <=> Flag(c, "lossy")
           /\ Flag(x, "is_reset_from_peer") <=> Flag(c, "is_reset_from_peer")
           /\ Undisturbed(x) <=> Undisturbed(c)
<1>1. PICK F \in SUBSET Flags :
         /\ x = WithReplied(c, F)
         /\ \A f \in Flags \ {"queue_reset"} : f \in F <=> f \in c.flags
  BY RepliedIs
<1>2. {"lossy", "is_reset_from_peer", "stopping", "replacing_reset_session"}
         \subseteq Flags \ {"queue_reset"}
  BY DEF Flags
<1>3. x.flags = F
  BY <1>1, WithRepliedRecord
<1>4. /\ Flag(x, "lossy") <=> Flag(c, "lossy")
      /\ Flag(x, "is_reset_from_peer") <=> Flag(c, "is_reset_from_peer")
      /\ Undisturbed(x) <=> Undisturbed(c)
  BY <1>1, <1>2, <1>3 DEF Flag, Undisturbed
<1> QED
  BY <1>1, <1>4, WithRepliedRecord

\* accept_reply sends the reply r and goes on to the state st.
ReplyGoesOut(n, i, told, st, r) ==
    /\ conn[n][i].state = "ACCEPTING_REPLY" /\ r = conn[n][i].reply
    /\ st = IF r.tag = "SEQ" THEN "ACCEPTING_WAIT_SEQ" ELSE "OPEN"
    /\ conn' = Updated(conn, n, i, WithState(Replied(conn[n][i], told), st))
    /\ sock' = Put(sock, conn[n][i].sd, Peer(n), r)
    /\ conns' = conns /\ submitted' = submitted /\ Recorded

\* accept_reply: the reply is sent.
LEMMA SReplySent ==
    ASSUME Core, Rest, SInv, NEW n \in Node, NEW i \in Slots, NEW told, NEW st, NEW r,
           ReplyGoesOut(n, i, told, st, r)
    PROVE  SInv'
<1>0. /\ conn[n][i].state = "ACCEPTING_REPLY" /\ r = conn[n][i].reply
      /\ st = IF r.tag = "SEQ" THEN "ACCEPTING_WAIT_SEQ" ELSE "OPEN"
  BY DEF ReplyGoesOut
<1>r. conns' = conns /\ submitted' = submitted /\ Recorded
  BY DEF ReplyGoesOut
<1>1. PICK c, s : c = conn[n][i] /\ s = c.sd
  OBVIOUS
<1>e. PICK e : e = Replied(c, told)
  OBVIOUS
<1>d. PICK d : d = WithState(e, st)
  OBVIOUS
<1>2. conns[n] = i
  BY <1>0, IsMine
<1>3. /\ Status(c) /\ In(n) = c.in_seq /\ In(Peer(n)) \in Nat
      /\ Books(c.out_seq, c.sent, c.out_q, submitted[n], In(Peer(n)))
      /\ c.connect_seq > 0 => conns[Peer(n)] # None
      /\ c \in ConnTypes(MaxMsgs[n]) /\ ConnOK(c) /\ c.in_seq \in Nat /\ c.out_seq \in Nat
      /\ \A l \in Slots : /\ conn[Peer(n)][l].in_seq \in Nat
                          /\ conns[Peer(n)] = l => conn[Peer(n)][l].in_seq = In(Peer(n))
  BY <1>1, <1>2, MineIs
<1>4. /\ s \in Socks /\ sock \in [Socks -> SockTypes]
      /\ r \in ReplyTypes /\ r.tag \in {"READY", "SEQ"} /\ c.sent = <<>>
  <2>1. c.sd \in Handles /\ c.reply \in ReplyTypes
    BY <1>3, FieldTypes
  <2>2. c.sd # None /\ c.reply.tag \in {"READY", "SEQ"} /\ c.sent = <<>>
    BY <1>0, <1>1, <1>3 DEF ConnOK, Local, Linked, Numbered
  <2> QED
    BY <1>0, <1>1, <2>1, <2>2 DEF Handles, Core
<1>5. /\ r \in Items /\ r.kind \in {"none", "reply"} /\ r.seq = c.in_seq /\ r.lossy = "no"
      /\ c.connect_seq > 0
  BY <1>0, <1>1, <1>3, <1>4 DEF Items, ReplyTypes, Status
<1>6. st \in {"ACCEPTING_WAIT_SEQ", "OPEN"} /\ st \in States
  BY <1>0 DEF States
<1>7. /\ e \in ConnTypes(MaxMsgs[n]) /\ e.replacing = 0 /\ e.sd = c.sd
      /\ e.connect_seq = c.connect_seq
      /\ e.out_seq = c.out_seq /\ e.sent = c.sent /\ e.out_q = c.out_q
      /\ e.replacing_sd = c.replacing_sd /\ e.in_seq = c.in_seq
      /\ ~Flag(e, "lossy") /\ Undisturbed(e)
  BY <1>e, <1>3, RepliedRecord DEF Status
<1>8. /\ d \in ConnTypes(MaxMsgs[n]) /\ d.state = st /\ d.sd = e.sd
      /\ d.connect_seq = e.connect_seq /\ d.out_seq = e.out_seq /\ d.sent = e.sent
      /\ d.out_q = e.out_q /\ d.replacing = e.replacing
      /\ d.replacing_sd = e.replacing_sd /\ d.flags = e.flags /\ d.in_seq = e.in_seq
  BY <1>d, <1>6, <1>7, WithStateRecord
<1>9. Status(d)
  BY <1>3, <1>5, <1>6, <1>7, <1>8 DEF Status, Undisturbed, Flag
<1>10. Keeps(c, d) /\ d.sent = c.sent /\ SameWait(c, d) /\ d.sd = s
  BY <1>1, <1>7, <1>8 DEF Keeps, SameWait
<1>11. Owned(n, i, d)
  BY <1>r, <1>1, <1>2, <1>3, <1>5, <1>9, <1>10, OwnedPlain
<1>12. conn' = Updated(conn, n, i, d) /\ sock' = Put(sock, s, Peer(n), r)
  BY <1>1, <1>e, <1>d DEF ReplyGoesOut
<1>13. /\ Exchange(sock, sock', s) /\ sock'[s].q[n] = sock[s].q[n]
       /\ Given(sock[s].q[Peer(n)], sock'[s].q[Peer(n)], r)
  BY <1>4, <1>5, <1>12, WriteSock
<1>14. sock'[s].live = sock[s].live
  BY <1>4, <1>12, Peers, PutLive
<1>15. EndOK(d, sock'[s].q[n])
  <2>1. EndOK(c, sock[s].q[n])
    BY <1>1, <1>4, EndAt
  <2> QED
    BY <1>6, <1>8, <1>10, <1>13, <2>1 DEF EndOK, Keeps
<1>16. ASSUME NEW l \in Slots, conn[Peer(n)][l].sd = s
       PROVE  Sides(d, conn[Peer(n)][l], sock'[s].q[n], sock'[s].q[Peer(n)], sock'[s].live)
  <2>1. PICK x, qn, qp, qp1, live :
           /\ x = conn[Peer(n)][l] /\ qn = sock[s].q[n] /\ qp = sock[s].q[Peer(n)]
           /\ qp1 = sock'[s].q[Peer(n)] /\ live = sock[s].live
    OBVIOUS
  <2>2. Sides(c, x, qn, qp, live) /\ Paired(c, x, qn, qp)
    BY <1>1, <1>4, <1>16, <2>1, PeerAt
  <2>3. c.state = "ACCEPTING_REPLY"
    BY <1>0, <1>1
  <2>4. x.state = "CONNECTING_WAIT_CONNECT_REPLY" /\ Len(qp) = 0
    BY <2>2, <2>3, ReplyToSend
  <2>5. conns[Peer(n)] = l
    BY <2>1, <2>4, Peers, IsMine
  <2>6. c.out_seq <= x.in_seq /\ x.in_seq \in Nat
    BY <1>3, <1>4, <2>1, <2>5 DEF Books
  <2>7. /\ Given(qp, qp1, r) /\ c.out_seq \in Nat /\ Keeps(c, d) /\ r = c.reply
        /\ r.kind \in {"none", "reply"} /\ r.tag \in {"READY", "SEQ"} /\ r.seq = c.in_seq
        /\ d.state = IF r.tag = "SEQ" THEN "ACCEPTING_WAIT_SEQ" ELSE "OPEN"
    <3>0. Given(qp, qp1, r)
      BY <1>13, <2>1, Zenon
    <3>1. Keeps(c, d) /\ r = c.reply
      BY <1>0, <1>1, <1>10
    <3>2. d.state = IF r.tag = "SEQ" THEN "ACCEPTING_WAIT_SEQ" ELSE "OPEN"
      BY <1>0, <1>8
    <3> QED
      BY <1>3, <1>4, <1>5, <3>0, <3>1, <3>2
  <2>8. Sides(d, x, qn, qp1, live)
    BY <2>2, <2>3, <2>4, <2>6, <2>7, SidesReply, ZenonT(30)
  <2> QED
    BY <1>13, <1>14, <2>1, <2>8
<1>17. CarriesOn(n, i, s, d)
  <2>1. conn[n][i].state # "CONNECTING_WAIT_CONNECT_REPLY"
    BY <1>0
  <2>2. conn[n][i].sd = s /\ d.sd = s /\ SameWait(conn[n][i], d)
    BY <1>1, <1>10
  <2> QED
    BY <1>15, <1>16, <2>1, <2>2, Zenon DEF CarriesOn
<1>18. Passes(sock[s], sock'[s], n, r)
  BY <1>13 DEF Passes
<1>19. Fine(Peer(n), r, conn', conns')
  <2>1. conn'[n][i] = d
    BY <1>3, <1>8, <1>12, Update DEF Core
  <2>2. Peer(Peer(n)) = n /\ None \notin Slots
    BY Peers, SocketsPositive
  <2>3. r.seq <= d.in_seq
    BY <1>3, <1>5, <1>10 DEF Keeps
  <2> QED
    BY <1>r, <1>2, <1>4, <1>5, <2>1, <2>2, <2>3 DEF Fine
<1> QED
  BY <1>r, <1>4, <1>8, <1>11, <1>12, <1>13, <1>17, <1>18, <1>19, ServeAll

\* A banner says nothing.
LEMMA FineBanner ==
    ASSUME NEW p, NEW item, item.kind = "banner"
    PROVE  Fine(p, item, conn', conns')
  BY DEF Fine

\* RecvSeq.
LEMMA SRecvSeq ==
    ASSUME Core, Rest, SInv, NEW n \in Node, NEW i \in Slots, RecvSeq(n, i)
    PROVE  SInv'
<1>1. PICK c, s, r : c = conn[n][i] /\ s = c.sd /\ r = Item(n, i)
  OBVIOUS
<1>e. PICK e : e = discard_requeued_up_to(c, r.seq)
  OBVIOUS
<1>d. PICK d : d = WithState(e, "OPEN")
  OBVIOUS
<1>i. PICK item : item = [kind |-> "banner"]
  OBVIOUS
<1>2. /\ Reads(n, i, "ACCEPTING_WAIT_SEQ", "seq") /\ conn' = Updated(conn, n, i, d)
      /\ sock' = Popped(n, i) /\ conns' = conns /\ submitted' = submitted /\ Recorded
  BY <1>1, <1>e, <1>d DEF RecvSeq, Updated, WithState, history, Recorded
<1>3. /\ s \in Socks /\ sock \in [Socks -> SockTypes] /\ sock[s].q[n] # <<>>
      /\ c.state = "ACCEPTING_WAIT_SEQ" /\ Popped(n, i) = Pop(sock, s, n)
      /\ r = sock[s].q[n][1] /\ r.kind = "seq" /\ r \in Items
  BY <1>1, <1>2, Reading
<1>4. conns[n] = i
  BY <1>1, <1>3, IsMine
<1>5. /\ Status(c) /\ In(n) = c.in_seq /\ In(Peer(n)) \in Nat
      /\ Balanced(c, submitted[n], In(Peer(n)))
      /\ c.connect_seq > 0 => conns[Peer(n)] # None
      /\ c \in ConnTypes(MaxMsgs[n]) /\ ConnOK(c) /\ c.in_seq \in Nat
      /\ \A l \in Slots : /\ conn[Peer(n)][l].in_seq \in Nat
                          /\ conns[Peer(n)] = l => conn[Peer(n)][l].in_seq = In(Peer(n))
  BY <1>1, <1>4, MineIs DEF Balanced
<1>6. r.seq \in Nat /\ r.seq <= In(Peer(n))
  <2>1. Fine(n, r, conn, conns)
    BY <1>3, FirstFine
  <2> QED
    BY <1>3, <2>1, ItemKinds DEF Fine, In, Mine
<1>7. /\ Balanced(e, submitted[n], In(Peer(n))) /\ Grows(c, e)
      /\ (r.seq = In(Peer(n)) => e.out_seq = In(Peer(n)))
      /\ SameButQueues(c, e) /\ e \in ConnTypes(MaxMsgs[n])
  <2>2. PICK sub, inp, max : sub = submitted[n] /\ inp = In(Peer(n)) /\ max = MaxMsgs[n]
    OBVIOUS
  <2>3. /\ c \in ConnTypes(max) /\ ConnOK(c) /\ inp \in Nat /\ Balanced(c, sub, inp)
        /\ r.seq <= inp /\ r.seq \in Nat /\ c.state # "OPEN"
    BY <1>3, <1>5, <1>6, <2>2
  <2>4. /\ Balanced(e, sub, inp) /\ Grows(c, e) /\ (r.seq = inp => e.out_seq = inp)
        /\ SameButQueues(c, e) /\ e \in ConnTypes(max)
    BY <1>e, <2>3, DiscardBooks, ZenonT(90)
  <2> QED
    BY <2>2, <2>4
<1>8. /\ d \in ConnTypes(MaxMsgs[n]) /\ d.state = "OPEN" /\ d.sd = e.sd
      /\ d.connect_seq = e.connect_seq /\ d.out_seq = e.out_seq /\ d.sent = e.sent
      /\ d.out_q = e.out_q /\ d.replacing = e.replacing
      /\ d.replacing_sd = e.replacing_sd /\ d.flags = e.flags /\ d.in_seq = e.in_seq
  <2>1. "OPEN" \in States
    BY DEF States
  <2> QED
    BY <1>d, <1>7, <2>1, WithStateRecord
<1>9. /\ d.connect_seq = c.connect_seq /\ d.sd = s /\ d.in_seq = c.in_seq
      /\ d.replacing = c.replacing /\ d.replacing_sd = c.replacing_sd /\ d.flags = c.flags
  BY <1>1, <1>7, <1>8 DEF SameButQueues
<1>10. Status(d) /\ d.connect_seq > 0
  BY <1>3, <1>5, <1>8, <1>9 DEF Status, Undisturbed, Flag
<1>11. Balanced(d, submitted[n], In(Peer(n))) /\ Grows(c, d)
  BY <1>7, <1>8 DEF Balanced, Grows
<1>12. Owned(n, i, d)
  BY <1>1, <1>2, <1>4, <1>5, <1>9, <1>10, <1>11 DEF Owned, Balanced, Grows
<1>13. /\ Exchange(sock, sock', s) /\ sock'[s].q[Peer(n)] = sock[s].q[Peer(n)]
       /\ Taken(sock[s].q[n], sock'[s].q[n]) /\ Len(sock[s].q[Peer(n)]) \in Nat
  BY <1>2, <1>3, ReadSock
<1>14. sock'[s].live = sock[s].live
  BY <1>2, <1>3, PopLive
<1>15. EndOK(d, sock'[s].q[n])
  <2>1. EndOK(c, sock[s].q[n])
    BY <1>1, <1>3, EndAt
  <2>2. PICK qn, qn1 : qn = sock[s].q[n] /\ qn1 = sock'[s].q[n]
    OBVIOUS
  <2>3. InOrder(qn, c.in_seq) /\ Taken(qn, qn1) /\ qn[1].kind # "msg" /\ c.in_seq \in Nat
    BY <1>3, <1>5, <1>13, <2>1, <2>2 DEF EndOK
  <2>4. InOrder(qn1, d.in_seq)
    BY <1>9, <2>3, InOrderTaken
  <2> QED
    BY <1>8, <2>2, <2>4 DEF EndOK
<1>16. ASSUME NEW l \in Slots, conn[Peer(n)][l].sd = s
       PROVE  Sides(d, conn[Peer(n)][l], sock'[s].q[n], sock'[s].q[Peer(n)], sock[s].live)
  <2>1. PICK x, qn, qp, qn1, live :
           /\ x = conn[Peer(n)][l] /\ qn = sock[s].q[n] /\ qp = sock[s].q[Peer(n)]
           /\ qn1 = sock'[s].q[n] /\ live = sock[s].live
    OBVIOUS
  <2>2. Sides(c, x, qn, qp, live) /\ Paired(c, x, qn, qp)
    BY <1>1, <1>3, <1>16, <2>1, PeerAt
  <2>4. x.state \in {"CONNECTING_WAIT_CONNECT_REPLY", "OPEN"}
    BY <1>3, <2>2 DEF Paired, Talk
  <2>5. conns[Peer(n)] = l
    BY <2>1, <2>4, Peers, IsMine
  <2>6. x.in_seq \in Nat /\ x.in_seq = In(Peer(n))
    BY <1>5, <2>1, <2>5
  <2>7. r.seq = x.in_seq
    <3>1. 1 \in 1 .. Len(qn)
      BY <1>13, <2>1, TakenItems
    <3>2. qn[1] = r
      BY <1>3, <2>1
    <3> QED
      BY <1>3, <2>2, <3>1, <3>2 DEF Sides, Link
  <2>8. /\ c.state = "ACCEPTING_WAIT_SEQ" /\ d.state = "OPEN" /\ d.in_seq = c.in_seq
        /\ d.out_seq = x.in_seq /\ c.in_seq \in Nat /\ qn[1].kind = "seq" /\ Taken(qn, qn1)
    BY <1>3, <1>5, <1>7, <1>8, <1>9, <1>13, <2>1, <2>6, <2>7
  <2>9. Sides(d, x, qn1, qp, live)
    BY <2>2, <2>6, <2>8, SidesRecvSeq, SMTT(30)
  <2> QED
    BY <1>13, <2>1, <2>9
<1>17. Given(sock[s].q[Peer(n)], sock'[s].q[Peer(n)], item)
  BY <1>13 DEF Given
<1>18. Fine(Peer(n), item, conn', conns') /\ SameWait(c, d)
  <2>1. item.kind = "banner"
    BY <1>i
  <2>2. SameWait(c, d)
    BY <1>9 DEF SameWait, Flag
  <2> QED
    BY <2>1, <2>2, FineBanner
<1>19. Exchanged(n, i, s, d, item)
  BY <1>1, <1>2, <1>8, <1>9, <1>13, <1>14, <1>17, <1>18 DEF Exchanged
<1> QED
  BY <1>3, <1>12, <1>15, <1>16, <1>19, ExchangedAll

\* RecvAck.
LEMMA SRecvAck ==
    ASSUME Core, Rest, SInv, NEW n \in Node, NEW i \in Slots, RecvAck(n, i)
    PROVE  SInv'
<1>1. PICK c, s, r : c = conn[n][i] /\ s = c.sd /\ r = Item(n, i)
  OBVIOUS
<1>d. PICK d : d = handle_ack(c, r.seq)
  OBVIOUS
<1>i. PICK item : item = [kind |-> "banner"]
  OBVIOUS
<1>2. /\ Reads(n, i, "OPEN", "ack") /\ conn' = Updated(conn, n, i, d)
      /\ sock' = Popped(n, i) /\ conns' = conns /\ submitted' = submitted /\ Recorded
  BY <1>1, <1>d DEF RecvAck, Updated, history, Recorded
<1>3. /\ s \in Socks /\ sock \in [Socks -> SockTypes] /\ sock[s].q[n] # <<>>
      /\ c.state = "OPEN" /\ Popped(n, i) = Pop(sock, s, n)
      /\ r = sock[s].q[n][1] /\ r.kind = "ack" /\ r \in Items
  BY <1>1, <1>2, Reading
<1>4. conns[n] = i
  BY <1>1, <1>3, IsMine
<1>5. /\ Status(c) /\ In(n) = c.in_seq /\ In(Peer(n)) \in Nat
      /\ Balanced(c, submitted[n], In(Peer(n)))
      /\ c.connect_seq > 0 => conns[Peer(n)] # None
      /\ c \in ConnTypes(MaxMsgs[n]) /\ ConnOK(c) /\ c.in_seq \in Nat
  BY <1>1, <1>4, MineIs DEF Balanced
<1>6. r.seq \in Nat /\ r.seq <= In(Peer(n))
  <2>1. Fine(n, r, conn, conns)
    BY <1>3, FirstFine
  <2> QED
    BY <1>3, <2>1, ItemKinds DEF Fine, In, Mine
<1>7. /\ Balanced(d, submitted[n], In(Peer(n))) /\ Grows(c, d) /\ Keeps(c, d)
      /\ SameButQueues(c, d) /\ d \in ConnTypes(MaxMsgs[n])
  <2>2. PICK sub, inp, max : sub = submitted[n] /\ inp = In(Peer(n)) /\ max = MaxMsgs[n]
    OBVIOUS
  <2>3. /\ c \in ConnTypes(max) /\ ConnOK(c) /\ inp \in Nat /\ Balanced(c, sub, inp)
        /\ r.seq <= inp /\ r.seq \in Nat
    BY <1>5, <1>6, <2>2
  <2>4. /\ Balanced(d, sub, inp) /\ Grows(c, d) /\ Keeps(c, d)
        /\ SameButQueues(c, d) /\ d \in ConnTypes(max)
    BY <1>d, <2>3, AckBooks, ZenonT(30)
  <2> QED
    BY <2>2, <2>4
<1>9. /\ d.connect_seq = c.connect_seq /\ d.sd = s /\ d.in_seq = c.in_seq
      /\ d.replacing = c.replacing /\ d.replacing_sd = c.replacing_sd /\ d.flags = c.flags
      /\ d.state = "OPEN" /\ d.out_seq = c.out_seq
  BY <1>1, <1>3, <1>7 DEF SameButQueues, Keeps
<1>10. Status(d) /\ d.connect_seq > 0
  BY <1>3, <1>5, <1>9 DEF Status, Undisturbed, Flag
<1>12. Owned(n, i, d)
  BY <1>1, <1>2, <1>4, <1>5, <1>7, <1>9, <1>10 DEF Owned, Balanced, Grows
<1>13. /\ Exchange(sock, sock', s) /\ sock'[s].q[Peer(n)] = sock[s].q[Peer(n)]
       /\ Taken(sock[s].q[n], sock'[s].q[n]) /\ Len(sock[s].q[Peer(n)]) \in Nat
  BY <1>2, <1>3, ReadSock
<1>14. sock'[s].live = sock[s].live
  BY <1>2, <1>3, PopLive
<1>15. EndOK(d, sock'[s].q[n])
  <2>1. EndOK(c, sock[s].q[n])
    BY <1>1, <1>3, EndAt
  <2>2. PICK qn, qn1 : qn = sock[s].q[n] /\ qn1 = sock'[s].q[n]
    OBVIOUS
  <2>3. InOrder(qn, c.in_seq) /\ Taken(qn, qn1) /\ qn[1].kind # "msg" /\ c.in_seq \in Nat
    BY <1>3, <1>5, <1>13, <2>1, <2>2 DEF EndOK
  <2>4. InOrder(qn1, d.in_seq)
    BY <1>9, <2>3, InOrderTaken
  <2> QED
    BY <1>9, <2>2, <2>4 DEF EndOK
<1>16. ASSUME NEW l \in Slots, conn[Peer(n)][l].sd = s
       PROVE  Sides(d, conn[Peer(n)][l], sock'[s].q[n], sock'[s].q[Peer(n)], sock[s].live)
  <2>1. PICK x, qn, qp, qn1, live :
           /\ x = conn[Peer(n)][l] /\ qn = sock[s].q[n] /\ qp = sock[s].q[Peer(n)]
           /\ qn1 = sock'[s].q[n] /\ live = sock[s].live
    OBVIOUS
  <2>2. Sides(c, x, qn, qp, live)
    BY <1>1, <1>3, <1>16, <2>1, PeerAt
  <2>8. /\ c.state = "OPEN" /\ d.state = "OPEN" /\ d.in_seq = c.in_seq
        /\ d.out_seq = c.out_seq /\ c.in_seq \in Nat /\ qn[1].kind = "ack" /\ Taken(qn, qn1)
    BY <1>3, <1>5, <1>9, <1>13, <2>1
  <2>9. Sides(d, x, qn1, qp, live)
    BY <2>2, <2>8, SidesReadAck, SMTT(30)
  <2> QED
    BY <1>13, <2>1, <2>9
<1>17. Given(sock[s].q[Peer(n)], sock'[s].q[Peer(n)], item)
  BY <1>13 DEF Given
<1>18. Fine(Peer(n), item, conn', conns') /\ SameWait(c, d)
  <2>1. item.kind = "banner"
    BY <1>i
  <2>2. SameWait(c, d)
    BY <1>9 DEF SameWait, Flag
  <2> QED
    BY <2>1, <2>2, FineBanner
<1>19. Exchanged(n, i, s, d, item)
  BY <1>1, <1>2, <1>7, <1>9, <1>13, <1>14, <1>17, <1>18 DEF Exchanged
<1> QED
  BY <1>3, <1>12, <1>15, <1>16, <1>19, ExchangedAll

\* An open connection c, now d, sends the next message or an acknowledgement.
Sends(c, d, item) ==
    /\ c.state = "OPEN" /\ d.state = "OPEN" /\ d.sd = c.sd /\ d.in_seq = c.in_seq
    /\ SameWait(c, d) /\ item \in Items
    /\ \/ item.kind = "ack" /\ Keeps(c, d)
       \/ item.kind = "msg" /\ item.seq = c.out_seq + 1 /\ d.out_seq = c.out_seq + 1

\* An open connection writes an item: SInv, when the item is true and follows on.
LEMMA SendsAll ==
    ASSUME Core, Rest, SInv, NEW n \in Node, NEW i \in Slots, NEW d \in ConnTypes(MaxMsgs[n]),
           NEW item, Sends(conn[n][i], d, item), conn' = Updated(conn, n, i, d),
           sock' = Put(sock, conn[n][i].sd, Peer(n), item), Recorded, Owned(n, i, d),
           Fine(Peer(n), item, conn', conns')
    PROVE  SInv'
<1>1. PICK c, s : c = conn[n][i] /\ s = c.sd
  OBVIOUS
<1>2. /\ c.state = "OPEN" /\ d.state = "OPEN" /\ d.sd = s /\ d.in_seq = c.in_seq
      /\ SameWait(c, d) /\ item \in Items /\ Sends(c, d, item)
  BY <1>1 DEF Sends
<1>3. /\ s \in Socks /\ sock \in [Socks -> SockTypes] /\ c.in_seq \in Nat /\ c.out_seq \in Nat
  <2>1. c \in ConnTypes(MaxMsgs[n]) /\ ConnOK(c)
    BY <1>1, Before
  <2>2. c.sd \in Handles /\ c.in_seq \in Nat /\ c.out_seq \in Nat
    BY <2>1, FieldTypes
  <2>3. c.sd # None
    BY <1>2, <2>1 DEF ConnOK, Local, Linked
  <2> QED
    BY <1>1, <2>2, <2>3 DEF Handles, Core
<1>4. sock' = Put(sock, s, Peer(n), item)
  BY <1>1
<1>5. /\ Exchange(sock, sock', s) /\ sock'[s].q[n] = sock[s].q[n]
      /\ Given(sock[s].q[Peer(n)], sock'[s].q[Peer(n)], item)
  BY <1>2, <1>3, <1>4, WriteSock
<1>6. sock'[s].live = sock[s].live
  BY <1>3, <1>4, Peers, PutLive
<1>7. EndOK(d, sock'[s].q[n])
  <2>1. EndOK(c, sock[s].q[n])
    BY <1>1, <1>3, EndAt
  <2> QED
    BY <1>2, <1>5, <2>1 DEF EndOK
<1>8. ASSUME NEW l \in Slots, conn[Peer(n)][l].sd = s
      PROVE  Sides(d, conn[Peer(n)][l], sock'[s].q[n], sock'[s].q[Peer(n)], sock'[s].live)
  <2>1. PICK x, qn, qp, qp1, live :
           /\ x = conn[Peer(n)][l] /\ qn = sock[s].q[n] /\ qp = sock[s].q[Peer(n)]
           /\ qp1 = sock'[s].q[Peer(n)] /\ live = sock[s].live
    OBVIOUS
  <2>2. /\ Sides(c, x, qn, qp, live) /\ Paired(c, x, qn, qp)
        /\ sock[s].end[Peer(n)] = "open"
    BY <1>1, <1>3, <1>8, <2>1, PeerAt
  <2>3. x.state \in {"CONNECTING_WAIT_CONNECT_REPLY", "ACCEPTING_WAIT_SEQ", "OPEN"}
    BY <1>2, <2>2, OpenPeer
  <2>4. x.in_seq \in Nat
    BY <2>1, Before, Peers, FieldTypes
  <2>5. Given(qp, qp1, item)
    BY <1>5, <2>1
  <2>6. Carried(qp, qp1, item, live)
    BY <1>2, <1>3, <1>4, <2>1, <2>2, Peers, WriteExact
  <2>7. CASE item.kind = "ack" /\ Keeps(c, d)
    <3>1. Sides(d, x, qn, qp1, live)
      BY <1>2, <2>2, <2>3, <2>4, <2>5, <2>7, SidesAck, ZenonT(30)
    <3> QED
      BY <1>5, <1>6, <2>1, <3>1
  <2>8. CASE item.kind = "msg" /\ item.seq = c.out_seq + 1 /\ d.out_seq = c.out_seq + 1
    <3>1. Sides(d, x, qn, qp1, live)
      BY <1>2, <1>3, <2>2, <2>3, <2>4, <2>6, <2>8, SidesSend, ZenonT(30)
    <3> QED
      BY <1>5, <1>6, <2>1, <3>1
  <2> QED
    BY <1>2, <2>7, <2>8 DEF Sends
<1>9. CarriesOn(n, i, s, d)
  BY <1>1, <1>2, <1>7, <1>8 DEF CarriesOn
<1>10. Passes(sock[s], sock'[s], n, item)
  BY <1>5 DEF Passes
<1> QED
  BY <1>3, <1>5, <1>9, <1>10, ServeAll

\* WriteAck.
LEMMA SWriteAck ==
    ASSUME Core, Rest, SInv, NEW n \in Node, NEW i \in Slots, WriteAck(n, i)
    PROVE  SInv'
<1>1. PICK c, item : c = conn[n][i] /\ item = [kind |-> "ack", seq |-> c.in_seq]
  OBVIOUS
<1>d. PICK d : d = WithAcked(c, c.in_seq)
  OBVIOUS
<1>2. /\ c.state = "OPEN" /\ conn' = Updated(conn, n, i, d)
      /\ sock' = Put(sock, conn[n][i].sd, Peer(n), item)
      /\ conns' = conns /\ submitted' = submitted /\ Recorded
  BY <1>1, <1>d DEF WriteAck, Updated, WithAcked, history, Recorded
<1>3. conns[n] = i
  BY <1>1, <1>2, IsMine
<1>4. /\ Status(c) /\ In(n) = c.in_seq /\ c.in_seq \in Nat /\ c \in ConnTypes(MaxMsgs[n])
      /\ c.connect_seq > 0 => conns[Peer(n)] # None
  BY <1>1, <1>3, MineIs
<1>5. /\ d \in ConnTypes(MaxMsgs[n]) /\ d.state = c.state /\ d.sd = c.sd
      /\ d.connect_seq = c.connect_seq /\ d.out_seq = c.out_seq /\ d.sent = c.sent
      /\ d.out_q = c.out_q /\ d.replacing = c.replacing /\ d.replacing_sd = c.replacing_sd
      /\ d.flags = c.flags /\ d.in_seq = c.in_seq
  BY <1>d, <1>4, WithAckedRecord
<1>6. Status(d) /\ Keeps(c, d) /\ SameWait(c, d)
  BY <1>2, <1>4, <1>5 DEF Status, Undisturbed, Flag, Keeps, SameWait
<1>7. Owned(n, i, d)
  BY <1>1, <1>2, <1>3, <1>4, <1>5, <1>6, OwnedPlain
<1>8. item \in Items /\ item.kind = "ack" /\ item.seq <= d.in_seq
  <2>1. PICK k : k = c.in_seq
    OBVIOUS
  <2>2. item = [kind |-> "ack", seq |-> k] /\ k \in Nat /\ d.in_seq = k
    BY <1>1, <1>4, <1>5, <2>1
  <2>3. item \in Items
    BY <2>2, OpenItems
  <2> QED
    BY <2>2, <2>3
<1>9. Sends(conn[n][i], d, item)
  BY <1>1, <1>2, <1>5, <1>6, <1>8 DEF Sends
<1>10. conn'[n][i] = d
  BY <1>2, <1>5, Update DEF Core
<1>11. Fine(Peer(n), item, conn', conns')
  BY <1>2, <1>3, <1>8, <1>10, FineNumber
<1> QED
  BY <1>2, <1>5, <1>7, <1>9, <1>11, SendsAll

\* A connection sends the first message of a queue Q, which is its own with what is to be added.
LEMMA SMessage ==
    ASSUME Core, Rest, SInv, NEW n \in Node, NEW i \in Slots, conns[n] = i,
           conn[n][i].state = "OPEN", NEW Q \in Seq(MsgTypes(MaxMsgs[n])), Q # <<>>,
           Numbers(conn[n][i].out_seq, conn[n][i].sent, Q),
           Books(conn[n][i].out_seq, conn[n][i].sent, Q, submitted'[n], In(Peer(n))),
           Higher(conn[n][i].out_seq, conn[n][i].out_q, conn[n][i].out_seq, Q),
           NEW d, d = SentFirst(conn[n][i], Q),
           conn' = Updated(conn, n, i, d),
           sock' = Put(sock, conn[n][i].sd, Peer(n), MsgItem(conn[n][i], Head(Q))),
           conns' = conns, submitted'[Peer(n)] = submitted[Peer(n)], Recorded
    PROVE  SInv'
<1>1. PICK c, item, max, sub, inp :
         /\ c = conn[n][i] /\ item = MsgItem(c, Head(Q)) /\ max = MaxMsgs[n]
         /\ sub = submitted'[n] /\ inp = In(Peer(n))
  OBVIOUS
<1>2. /\ Status(c) /\ In(n) = c.in_seq /\ c.in_seq \in Nat /\ c \in ConnTypes(max)
      /\ ConnOK(c) /\ c.out_seq \in Nat /\ inp \in Nat
      /\ c.connect_seq > 0 => conns[Peer(n)] # None
  BY <1>1, MineIs
<1>3. c.state = "OPEN" /\ ~Flag(c, "lossy") /\ Q \in Seq(MsgTypes(max))
  BY <1>1, <1>2 DEF Status
<1>4. /\ Balanced(d, sub, inp) /\ Higher(c.out_seq, Q, d.out_seq, d.out_q)
      /\ Head(Q).id = d.out_seq /\ d.out_seq = c.out_seq + 1
      /\ d \in ConnTypes(max) /\ d.state = c.state /\ d.sd = c.sd
      /\ d.connect_seq = c.connect_seq /\ d.flags = c.flags /\ d.in_seq = c.in_seq
      /\ d.replacing = c.replacing /\ d.replacing_sd = c.replacing_sd
  <2>1. CanSend(max, c, Q, sub, inp)
    BY <1>1, <1>2, <1>3 DEF CanSend
  <2>2. d = SentFirst(c, Q)
    BY <1>1
  <2> QED
    BY <2>1, <2>2, SendBooks DEF DidSend
<1>5. Status(d) /\ d.connect_seq > 0 /\ SameWait(c, d)
  BY <1>2, <1>3, <1>4 DEF Status, Undisturbed, Flag, SameWait
<1>6. Higher(c.out_seq, c.out_q, d.out_seq, d.out_q)
  BY <1>1, <1>4 DEF Higher
<1>7. Owned(n, i, d)
  BY <1>1, <1>2, <1>4, <1>5, <1>6 DEF Owned, Balanced
<1>8. /\ item \in Items /\ item.kind = "msg" /\ item.id = Head(Q).id /\ item.seq = c.out_seq + 1
  <2>1. Head(Q) \in MsgTypes(max)
    BY <1>3
  <2>2. max \in Nat
    BY <1>1, MaxMsgsTyped
  <2>3. item \in Items
    BY <1>1, <1>2, <2>1, <2>2, MsgItemTyped
  <2> QED
    BY <1>1, <2>3 DEF MsgItem
<1>9. Sends(conn[n][i], d, item)
  BY <1>1, <1>3, <1>4, <1>5, <1>8 DEF Sends
<1>10. conn'[n][i] = d
  BY <1>1, <1>4, Update DEF Core
<1>11. Fine(Peer(n), item, conn', conns')
  <2>1. Peer(Peer(n)) = n /\ None \notin Slots
    BY Peers, SocketsPositive
  <2>2. item.id = item.seq /\ item.seq <= d.out_seq
    BY <1>2, <1>4, <1>8
  <2>3. Assigned(d.out_seq, d.out_q, item.seq)
    BY <2>2 DEF Assigned
  <2> QED
    BY <1>8, <1>10, <2>1, <2>2, <2>3 DEF Fine
<1>12. d \in ConnTypes(MaxMsgs[n]) /\ sock' = Put(sock, conn[n][i].sd, Peer(n), item)
  BY <1>1, <1>4
<1> QED
  BY <1>7, <1>9, <1>11, <1>12, SendsAll

\* Nothing changes, nothing is lost.
LEMMA HigherSelf == ASSUME NEW o, NEW Q PROVE Higher(o, Q, o, Q)
  BY DEF Higher

\* WriteMessage.
LEMMA SWriteMessage ==
    ASSUME Core, Rest, SInv, NEW n \in Node, NEW i \in Slots, WriteMessage(n, i)
    PROVE  SInv'
<1>1. PICK c, Q : c = conn[n][i] /\ Q = c.out_q
  OBVIOUS
<1>2. PICK d : d = SentFirst(c, Q)
  OBVIOUS
<1>4. c \in ConnTypes(MaxMsgs[n]) /\ ConnOK(c) /\ c.state = "OPEN" /\ Q # <<>>
  BY <1>1, Before DEF WriteMessage
<1>5. _send(c, Head(Q)).out_q = Q
  BY <1>1, <1>4 DEF _send, ConnTypes
<1>6. conn' = Updated(conn, n, i, d)
  <2>1. conn' = Updated(conn, n, i, [_send(c, Head(Q)) EXCEPT
                                       !.out_q = Tail(_send(c, Head(Q)).out_q)])
    BY <1>1 DEF WriteMessage, Updated
  <2> QED
    BY <1>2, <1>5, <2>1, Zenon DEF SentFirst
<1>7. /\ sock' = Put(sock, conn[n][i].sd, Peer(n), MsgItem(conn[n][i], Head(Q)))
      /\ conns' = conns /\ submitted' = submitted /\ Recorded
  BY <1>1 DEF WriteMessage, history, Recorded
<1>8. conns[n] = i
  BY <1>1, <1>4, IsMine
<1>9. /\ Books(c.out_seq, c.sent, Q, submitted[n], In(Peer(n)))
  BY <1>1, <1>8, MineIs
<1>10. Q \in Seq(MsgTypes(MaxMsgs[n])) /\ Numbers(c.out_seq, c.sent, Q)
  BY <1>1, <1>4, FieldTypes DEF ConnOK, Numbered
<1>11. /\ Numbers(conn[n][i].out_seq, conn[n][i].sent, Q)
       /\ Books(conn[n][i].out_seq, conn[n][i].sent, Q, submitted'[n], In(Peer(n)))
       /\ Higher(conn[n][i].out_seq, conn[n][i].out_q, conn[n][i].out_seq, Q)
       /\ d = SentFirst(conn[n][i], Q) /\ conn[n][i].state = "OPEN"
       /\ submitted'[Peer(n)] = submitted[Peer(n)]
  BY <1>1, <1>2, <1>4, <1>7, <1>9, <1>10, HigherSelf
<1> QED
  BY <1>4, <1>6, <1>7, <1>8, <1>10, <1>11, SMessage

\* What a message that the application submits is.
Submits(n, m) ==
    /\ m \in MsgTypes(MaxMsgs[n]) /\ m.seq = 0 /\ m.id = submitted[n] + 1
    /\ submitted'[n] = submitted[n] + 1 /\ submitted'[Peer(n)] = submitted[Peer(n)]
    /\ submitted[n] \in Nat

\* The application submits the next message.
LEMMA SubmitsIs ==
    ASSUME Rest, NEW n \in Node, submitted[n] < MaxMsgs[n],
           submitted' = [submitted EXCEPT ![n] = @ + 1], NEW m, m = Message(submitted[n] + 1)
    PROVE  Submits(n, m)
<1>1. m \in MsgTypes(MaxMsgs[n]) /\ m.seq = 0
  BY NextMessage
<1>2. m.id = submitted[n] + 1
  BY DEF Message
<1>3. submitted \in [Node -> Nat] /\ Peer(n) \in Node /\ Peer(n) # n
  BY Peers DEF Rest
<1> QED
  BY <1>1, <1>2, <1>3 DEF Submits

\* No message has a number.
Unnumbered(Q) == \A k \in 1 .. Len(Q) : Q[k].seq = 0

\* The queue with the message in it.
LEMMA QueueBooks ==
    ASSUME Core, Rest, SInv, NEW n \in Node, NEW i \in Slots, conns[n] = i, NEW m, Submits(n, m),
           NEW c, c = conn[n][i], NEW Q, Q = Append(c.out_q, m)
    PROVE  /\ Q \in Seq(MsgTypes(MaxMsgs[n])) /\ Numbers(c.out_seq, c.sent, Q)
           /\ Books(c.out_seq, c.sent, Q, submitted'[n], In(Peer(n)))
           /\ Higher(c.out_seq, c.out_q, c.out_seq, Q)
           /\ Unnumbered(c.out_q) => Unnumbered(Q)
<1>1. PICK o, S, P, max, sub, inp :
         /\ o = c.out_seq /\ S = c.sent /\ P = c.out_q /\ max = MaxMsgs[n]
         /\ sub = submitted[n] /\ inp = In(Peer(n))
  OBVIOUS
<1>2. /\ Books(o, S, P, sub, inp) /\ o \in Nat /\ inp \in Nat
      /\ c \in ConnTypes(max) /\ ConnOK(c)
  BY <1>1, MineIs
<1>3. S \in Seq(MsgTypes(max)) /\ P \in Seq(MsgTypes(max)) /\ Numbers(o, S, P)
  BY <1>1, <1>2, FieldTypes DEF ConnOK, Numbered
<1>4. m \in MsgTypes(max) /\ m.seq = 0 /\ sub \in Nat /\ m.id = sub + 1 /\ submitted'[n] = sub + 1
  BY <1>1 DEF Submits
<1>5. Q = Append(P, m)
  BY <1>1
<1>6. Q \in Seq(MsgTypes(max)) /\ Numbers(o, S, Q)
  BY <1>2, <1>3, <1>4, <1>5, QueueNumbers, ZenonT(30)
<1>7. Extended(Q, P, m)
  <2> HIDE DEF MsgTypes
  <2> QED
    BY <1>3, <1>4, <1>5 DEF Extended
<1>8. Books(o, S, Q, sub + 1, inp) /\ Higher(o, P, o, Q)
  BY <1>2, <1>4, <1>7, BooksQueue, ZenonT(30)
<1>9. Unnumbered(P) => Unnumbered(Q)
  BY <1>4, <1>7 DEF Extended, Unnumbered
<1> QED
  BY <1>1, <1>4, <1>6, <1>8, <1>9

\* send_existing: the message is sent at once.
LEMMA SSendDirect ==
    ASSUME Core, Rest, SInv, NEW n \in Node, NEW i \in Slots, conns[n] = i, NEW m, Submits(n, m),
           conn[n][i].state = "OPEN", conn[n][i].out_q = <<>>,
           conn' = [conn EXCEPT ![n][i] = _send(conn[n][i], m)],
           sock' = Put(sock, conn[n][i].sd, Peer(n), MsgItem(conn[n][i], m)),
           conns' = conns, Recorded
    PROVE  SInv'
<1>1. PICK c, d : c = conn[n][i] /\ d = _send(c, m)
  OBVIOUS
<1>2. PICK Q : Q = Append(c.out_q, m)
  OBVIOUS
<1>3. c \in ConnTypes(MaxMsgs[n])
  BY <1>1, Before
<1>4. /\ Q \in Seq(MsgTypes(MaxMsgs[n])) /\ Numbers(c.out_seq, c.sent, Q)
      /\ Books(c.out_seq, c.sent, Q, submitted'[n], In(Peer(n)))
      /\ Higher(c.out_seq, c.out_q, c.out_seq, Q)
  BY <1>1, <1>2, QueueBooks
<1>6. Q # <<>> /\ Head(Q) = m /\ Tail(Q) = <<>>
  <2>1. Q = <<m>>
    BY <1>1, <1>2
  <2> QED
    BY <2>1
<1>7. d = SentFirst(c, Q)
  <2>1. d \in [DOMAIN c -> UNION {{d[f]} : f \in DOMAIN c}] /\ d.out_q = <<>>
        /\ "out_q" \in DOMAIN c
    BY <1>1, <1>3, SMTT(30) DEF _send, ConnTypes
  <2>2. [d EXCEPT !.out_q = <<>>] = d
    BY <2>1
  <2> QED
    BY <1>1, <1>6, <2>2, Zenon DEF SentFirst
<1>8. /\ Numbers(conn[n][i].out_seq, conn[n][i].sent, Q)
      /\ Books(conn[n][i].out_seq, conn[n][i].sent, Q, submitted'[n], In(Peer(n)))
      /\ Higher(conn[n][i].out_seq, conn[n][i].out_q, conn[n][i].out_seq, Q)
      /\ d = SentFirst(conn[n][i], Q)
  BY <1>1, <1>4, <1>7
<1>9. /\ conn' = Updated(conn, n, i, d)
      /\ sock' = Put(sock, conn[n][i].sd, Peer(n), MsgItem(conn[n][i], Head(Q)))
      /\ submitted'[Peer(n)] = submitted[Peer(n)]
  BY <1>1, <1>6 DEF Updated, Submits
<1> QED
  BY <1>4, <1>6, <1>8, <1>9, SMessage

\* A step that touches no socket.
LEMMA QuietAll ==
    ASSUME Core, Rest, SInv, NEW n \in Node, NEW i \in Slots, NEW d \in ConnTypes(MaxMsgs[n]),
           conn' = Updated(conn, n, i, d), sock' = sock, Recorded, Owned(n, i, d),
           \A s \in Socks : Apart(conn[n][i], d, s)
    PROVE  SInv'
<1>1. /\ conn'[n][i] = d /\ conn'[Peer(n)] = conn[Peer(n)]
      /\ \A j \in Slots \ {i} : conn'[n][j] = conn[n][j]
  BY Update DEF Core
<1>2. MovesOne(n, i, d)
  BY <1>1 DEF MovesOne
<1>3. /\ Regs' /\ Spares' /\ Past'
      /\ \A p \in Node, m \in Items : Fine(p, m, conn, conns) => Fine(p, m, conn', conns')
  BY <1>2, Kept DEF Recorded
<1>4. PICK item : item = [kind |-> "banner"]
  OBVIOUS
<1>5. item.kind = "banner"
  BY <1>4
<1>6. Fine(Peer(n), item, conn', conns')
  BY <1>5, FineBanner
<1>7. sock \in [Socks -> SockTypes]
  BY DEF Core
<1>8. \A s \in Socks : Passes(sock[s], sock'[s], n, item)
  BY <1>7, PassesSame
<1>9. Told'
  BY <1>3, <1>6, <1>7, <1>8, ItemsKept DEF SInv
<1>10. ASSUME NEW s \in Socks PROVE FlowOK(conn', sock[s], s)
  <2>1. \A j \in Slots : Apart(conn[n][j], conn'[n][j], s)
    BY <1>1, ApartSelf
  <2>2. FlowOK(conn, sock[s], s)
    BY DEF SInv, Flows
  <2> QED
    BY <1>1, <2>1, <2>2, SockApart
<1> QED
  BY <1>3, <1>9, <1>10 DEF SInv, Flows

\* send_existing queues the message.
Queues(n, i, m) ==
    conn' = [conn EXCEPT ![n][i].out_q = Append(@, m),
                         ![n][i].state = IF @ = "STANDBY" /\ ~Policy[n].server
                                         THEN "CONNECTING" ELSE @]

\* What state it leaves the connection in.
Wakes(n, c, st) ==
    st = IF c.state = "STANDBY" /\ ~Policy[n].server THEN "CONNECTING" ELSE c.state

\* The connection after send_message has queued a message on it.
LEMMA QueueIs ==
    ASSUME Core, NEW n \in Node, NEW i \in Slots, NEW m, NEW c, c = conn[n][i], NEW st,
           Wakes(n, c, st), Queues(n, i, m), NEW Q, Q = Append(c.out_q, m)
    PROVE  conn' = Updated(conn, n, i, WithQueue(c, Q, st))
<1>2. PICK x, K : x = [c EXCEPT !.out_q = Append(@, m)] /\ K = Updated(conn, n, i, x)
  OBVIOUS
<1>3. ConnsTyped(conn, MaxMsgs) /\ c \in ConnTypes(MaxMsgs[n])
  BY Before DEF Core
<1>4. K = [conn EXCEPT ![n][i].out_q = Append(@, m)]
  BY <1>2 DEF Updated
<1>5. K[n][i] = x
  BY <1>2, <1>3, UpdateAgain
<1>6. x.state = c.state
  BY <1>2, <1>3 DEF ConnTypes
<1>7. conn' = [K EXCEPT ![n][i].state = IF @ = "STANDBY" /\ ~Policy[n].server
                                        THEN "CONNECTING" ELSE @]
  BY <1>4, Zenon DEF Queues
<1>8. conn' = Updated(K, n, i, [x EXCEPT !.state = st])
  BY <1>5, <1>6, <1>7 DEF Updated, Wakes
<1>9. PICK d : d = [x EXCEPT !.state = st]
  OBVIOUS
<1>10. d = WithQueue(c, Q, st)
  BY <1>2, <1>9 DEF WithQueue
<1>11. conn' = Updated(Updated(conn, n, i, x), n, i, d)
  BY <1>2, <1>8, <1>9, Zenon
<1>12. conn' = Updated(conn, n, i, d)
  BY <1>3, <1>11, UpdateAgain
<1> QED
  BY <1>10, <1>12, Zenon

\* send_existing: the message is queued.
LEMMA SSendQueue ==
    ASSUME Core, Rest, SInv, NEW n \in Node, NEW i \in Slots, conns[n] = i, NEW m, Submits(n, m),
           Queues(n, i, m), sock' = sock, conns' = conns, Recorded
    PROVE  SInv'
<1>1. PICK c, Q : c = conn[n][i] /\ Q = Append(c.out_q, m)
  OBVIOUS
<1>a. PICK st : Wakes(n, c, st)
  BY DEF Wakes
<1>2. PICK d : d = WithQueue(c, Q, st)
  OBVIOUS
<1>3. c \in ConnTypes(MaxMsgs[n]) /\ ConnOK(c)
  BY <1>1, Before
<1>4. /\ Q \in Seq(MsgTypes(MaxMsgs[n])) /\ Numbers(c.out_seq, c.sent, Q)
      /\ Books(c.out_seq, c.sent, Q, submitted'[n], In(Peer(n)))
      /\ Higher(c.out_seq, c.out_q, c.out_seq, Q)
      /\ Unnumbered(c.out_q) => Unnumbered(Q)
  BY <1>1, QueueBooks
<1>5. st \in States /\ st = IF c.state = "STANDBY" /\ ~Policy[n].server
                            THEN "CONNECTING" ELSE c.state
  BY <1>1, <1>a, <1>3, FieldTypes, FieldValues DEF Wakes
<1>6. /\ d \in ConnTypes(MaxMsgs[n]) /\ d.out_q = Q /\ d.state = st /\ d.sd = c.sd
      /\ d.connect_seq = c.connect_seq /\ d.out_seq = c.out_seq /\ d.sent = c.sent
      /\ d.replacing = c.replacing /\ d.replacing_sd = c.replacing_sd
      /\ d.replacing_cseq = c.replacing_cseq /\ d.reply = c.reply /\ d.flags = c.flags
      /\ d.in_seq = c.in_seq
  BY <1>2, <1>3, <1>4, <1>5, WithQueueRecord
<1>7. conn' = Updated(conn, n, i, d)
  BY <1>1, <1>a, <1>2, QueueIs
<1>8. Fresh(c) => Fresh(d)
  BY <1>4, <1>6 DEF Fresh, Unnumbered
<1>9. /\ Status(c) /\ In(n) = c.in_seq /\ (c.connect_seq > 0 => conns[Peer(n)] # None)
  BY <1>1, MineIs
<1>10. Status(d)
  BY <1>5, <1>6, <1>8, <1>9 DEF Status, Undisturbed, Flag
<1>11. Owned(n, i, d)
  <2>1. /\ conns'[Peer(n)] = conns[Peer(n)] /\ submitted'[Peer(n)] = submitted[Peer(n)]
        /\ conns'[n] = conns[n]
    BY DEF Submits
  <2>2. /\ Books(d.out_seq, d.sent, d.out_q, submitted'[n], In(Peer(n)))
        /\ Higher(conn[n][i].out_seq, conn[n][i].out_q, d.out_seq, d.out_q)
    BY <1>1, <1>4, <1>6
  <2> QED
    BY <1>6, <1>9, <1>10, <2>1, <2>2 DEF Owned
<1>12. ASSUME NEW s \in Socks PROVE Apart(conn[n][i], d, s)
  <2>1. CASE st = c.state
    <3>1. SeemsSame(c, d)
      BY <1>6, <1>8, <2>1 DEF SeemsSame
    <3> QED
      BY <1>1, <1>6, <3>1 DEF Apart, Flag
  <2>2. CASE st # c.state
    <3>1. c.state = "STANDBY"
      BY <1>5, <2>2
    <3>2. c.sd = None
      BY <1>3, <3>1 DEF ConnOK, Local, Linked
    <3>3. d.sd # s
      BY <1>6, <3>2, SocketsPositive
    <3> QED
      BY <1>1, <1>6, <3>3 DEF Apart, Flag
  <2> QED
    BY <2>1, <2>2
<1> QED
  BY <1>6, <1>7, <1>11, <1>12, QuietAll

\* The fields of a new connection.
LEMMA NewFields ==
    ASSUME NEW max, NEW m \in MsgTypes(max), m.seq = 0, NEW d, d = NewConn(m, {})
    PROVE  /\ d \in ConnTypes(max) /\ d.sd = None /\ d.replacing_sd = None
           /\ d.state = "CONNECTING" /\ d.flags = {} /\ d.out_q = <<m>> /\ d.sent = <<>>
           /\ d.out_seq = 0 /\ d.in_seq = 0 /\ d.connect_seq = 0 /\ d.replacing = 0
<1>1. d \in ConnTypes(max)
  BY NewRecord
<1> QED
  BY <1>1 DEF NewConn, FreeConn

\* A slot for a new connection is not registered.
LEMMA FreeSpare ==
    ASSUME Core, Rest, SInv, NEW n \in Node, FreeSlots(n) # {}, NEW i, i = Min(FreeSlots(n))
    PROVE  i \in Slots /\ conns[n] # i /\ Spare(conn[n][i]) /\ conn[n][i].sd = None
<1>1. i \in Slots /\ conn[n][i].sd = None
  BY FreeSlot
<1>2. FreeSlots(n) \subseteq Slots /\ Slots \subseteq Nat
  BY ConstantsAssumption DEF FreeSlots
<1>3. i \in FreeSlots(n)
  BY <1>2, MinElement
<1>4. conn[n][i].state = "CLOSED" \/ conns[n] # i
  BY <1>3 DEF FreeSlots, IsRegistered
<1>5. conns[n] # i
  <2>1. SUFFICES ASSUME conns[n] = i PROVE FALSE
    OBVIOUS
  <2>2. Status(conn[n][i])
    BY <1>1, <2>1, MineIs
  <2> QED
    BY <1>4, <2>1, <2>2 DEF Status
<1> QED
  BY <1>1, <1>5 DEF SInv, Spares

\* send_new.
LEMMA SSendNew ==
    ASSUME Core, Rest, SInv, NEW n \in Node, ~Policy[n].lossy, NEW m, Submits(n, m),
           send_new(n, m), got' = got, ever' = ever
    PROVE  SInv'
<1>1. PICK i, d : i = Min(FreeSlots(n)) /\ d = NewConn(m, {})
  OBVIOUS
<1>2. /\ FreeSlots(n) # {} /\ conn' = Updated(conn, n, i, d) /\ conns[n] = None
      /\ conns' = [conns EXCEPT ![n] = i] /\ sock' = sock /\ Recorded
  BY <1>1 DEF send_new, Updated, NewConn, PolicyFlags, Recorded
<1>3. i \in Slots /\ conn[n][i].sd = None /\ conns[n] # i
  BY <1>1, <1>2, FreeSpare
<1>4. m \in MsgTypes(MaxMsgs[n]) /\ m.seq = 0
  BY DEF Submits
<1>5. /\ d \in ConnTypes(MaxMsgs[n]) /\ d.sd = None /\ d.replacing_sd = None
      /\ d.state = "CONNECTING" /\ d.flags = {} /\ d.out_q = <<m>> /\ d.sent = <<>>
      /\ d.out_seq = 0 /\ d.in_seq = 0 /\ d.connect_seq = 0 /\ d.replacing = 0
  BY <1>1, <1>4, NewFields
<1>6. Fresh(d)
  <2>1. Len(<<m>>) = 1 /\ <<m>>[1] = m
    OBVIOUS
  <2> QED
    BY <1>4, <1>5, <2>1 DEF Fresh
<1>7. Status(d)
  BY <1>5, <1>6 DEF Status, Undisturbed, Flag
<1>8. submitted[n] = 0 /\ In(Peer(n)) = 0 /\ In(n) = 0
  BY <1>2 DEF SInv, Regs, Account, In
<1>9. Books(d.out_seq, d.sent, d.out_q, submitted'[n], In(Peer(n)))
  <2>1. submitted'[n] = 1 /\ m.id = 1
    BY <1>8 DEF Submits
  <2>2. Books(0, <<>>, <<m>>, 1, 0)
    BY <2>1 DEF Books, Assigned
  <2> QED
    BY <1>5, <1>8, <2>1, <2>2
<1>10. Owned(n, i, d)
  <2>1. conns \in [Node -> Slots \cup {None}] /\ Peer(n) \in Node /\ Peer(n) # n
    BY Peers DEF Rest
  <2>2. conns'[Peer(n)] = conns[Peer(n)] /\ conns'[n] = i
    BY <1>2, <2>1
  <2>3. submitted'[Peer(n)] = submitted[Peer(n)]
    BY DEF Submits
  <2> QED
    BY <1>2, <1>3, <1>5, <1>7, <1>8, <1>9, <2>2, <2>3 DEF Owned
<1>11. ASSUME NEW s \in Socks PROVE Apart(conn[n][i], d, s)
  BY <1>5, SocketsPositive DEF Apart
<1> QED
  BY <1>2, <1>3, <1>5, <1>10, <1>11, QuietAll

\* send_message.
LEMMA SSend ==
    ASSUME Core, Rest, SInv, NEW n \in Node, ~Policy[n].lossy, send_message(n)
    PROVE  SInv'
<1>1. PICK m, i : m = Message(submitted[n] + 1) /\ i = conns[n]
  OBVIOUS
<1>2. /\ submitted[n] < MaxMsgs[n] /\ submitted' = [submitted EXCEPT ![n] = @ + 1]
      /\ send_existing(n, m) \/ send_new(n, m)
  BY <1>1 DEF send_message
<1>3. Submits(n, m)
  BY <1>1, <1>2, SubmitsIs
<1>4. conns \in [Node -> Slots \cup {None}] /\ got' = got /\ ever' = ever
  BY DEF Rest, send_message
<1>5. CASE send_new(n, m)
  BY <1>3, <1>4, <1>5, SSendNew
<1>6. CASE send_existing(n, m)
  <2>1. i \in Slots /\ conns' = conns
    BY <1>1, <1>4, <1>6 DEF send_existing
  <2>2. ~Flag(conn[n][i], "stopping")
    BY <1>1, <2>1, MineIs DEF Status, Undisturbed
  <2>3. \/ /\ conn[n][i].state = "OPEN" /\ conn[n][i].out_q = <<>>
           /\ conn' = [conn EXCEPT ![n][i] = _send(conn[n][i], m)]
           /\ sock' = Put(sock, conn[n][i].sd, Peer(n), MsgItem(conn[n][i], m))
           /\ dropped' = dropped
        \/ Queues(n, i, m) /\ sock' = sock /\ dropped' = dropped
    BY <1>1, <1>6, <2>2, Zenon DEF send_existing, Queues
  <2>4. CASE /\ conn[n][i].state = "OPEN" /\ conn[n][i].out_q = <<>>
             /\ conn' = [conn EXCEPT ![n][i] = _send(conn[n][i], m)]
             /\ sock' = Put(sock, conn[n][i].sd, Peer(n), MsgItem(conn[n][i], m))
             /\ dropped' = dropped
    <3>1. Recorded
      BY <1>4, <2>4 DEF Recorded
    <3> QED
      BY <1>1, <1>3, <2>1, <2>4, <3>1, SSendDirect
  <2>5. CASE Queues(n, i, m) /\ sock' = sock /\ dropped' = dropped
    <3>1. Recorded /\ sock' = sock /\ Queues(n, i, m) /\ conns[n] = i
      BY <1>1, <1>4, <2>5 DEF Recorded
    <3> QED
      BY <1>3, <2>1, <3>1, SSendQueue
  <2> QED
    BY <2>3, <2>4, <2>5
<1> QED
  BY <1>2, <1>5, <1>6

\* What Connect does.
LEMMA ConnectIs ==
    ASSUME Core, Rest, NEW n \in Node, NEW i \in Slots, Connect(n, i)
    PROVE  \E s \in Socks : \E g \in Nat :
              /\ conn' = Updated(conn, n, i, WithSocket(conn[n][i], s, g)) /\ IsFree(s)
              /\ sock' = [sock EXCEPT ![s] = NewSock(n)] /\ conns' = conns
              /\ conn[n][i].state = "CONNECTING" /\ UNCHANGED history
<1>1. PICK c, g : c = conn[n][i] /\ g = global_seq[n] + 1
  OBVIOUS
<1>2. PICK T, s : T = {t \in Socks : IsFree(t)} /\ s = Min(T)
  OBVIOUS
<1>3. PICK d : d = WithSocket(c, s, g)
  OBVIOUS
<1>5. s \in Socks /\ IsFree(s)
  <2>1. T # {} /\ T \subseteq Socks /\ Socks \subseteq Nat
    BY <1>2, ConstantsAssumption, Zenon DEF Connect
  <2>2. s \in T
    BY <1>2, <2>1, MinElement
  <2> QED
    BY <1>2, <2>2
<1>7. /\ sock' = [sock EXCEPT ![s] = NewSock(n)] /\ conns' = conns /\ UNCHANGED history
      /\ conn[n][i].state = "CONNECTING"
  BY <1>2, Zenon DEF Connect, NewSock
<1>8. ConnsTyped(conn, MaxMsgs)
  BY DEF Core
<1>9. conn' = Updated(conn, n, i, d)
  <2>1. PICK c1, c2 : /\ c1 = [c EXCEPT !.state = "CONNECTING_WAIT_BANNER"]
                      /\ c2 = [c1 EXCEPT !.sd = s]
    OBVIOUS
  <2>2. PICK K1, K2 : K1 = Updated(conn, n, i, c1) /\ K2 = Updated(K1, n, i, c2)
    OBVIOUS
  <2>3. K1 = [conn EXCEPT ![n][i].state = "CONNECTING_WAIT_BANNER"]
    BY <1>1, <2>1, <2>2 DEF Updated
  <2>4. K1[n][i] = c1 /\ K2 = Updated(conn, n, i, c2) /\ K2[n][i] = c2
    BY <1>8, <2>2, UpdateAgain
  <2>5. K2 = [K1 EXCEPT ![n][i].sd = s]
    BY <2>1, <2>2, <2>4 DEF Updated
  <2>6. conn' = [K2 EXCEPT ![n][i].global_seq = g]
    BY <1>1, <1>2, <2>3, <2>5, Zenon DEF Connect
  <2>7. conn' = Updated(K2, n, i, [c2 EXCEPT !.global_seq = g])
    BY <2>4, <2>6 DEF Updated
  <2>8. [c2 EXCEPT !.global_seq = g] = d
    BY <1>3, <2>1 DEF WithSocket
  <2>9. conn' = Updated(Updated(conn, n, i, c2), n, i, d)
    BY <2>4, <2>7, <2>8, Zenon
  <2> QED
    BY <1>8, <2>9, UpdateAgain
<1>10. g \in Nat
  BY <1>1 DEF Rest
<1> QED
  BY <1>1, <1>3, <1>5, <1>7, <1>9, <1>10, Zenon

\* Nobody uses a closed end.
LEMMA NoUser ==
    ASSUME NEW K, NEW x, NEW s, SockOK(K, x, s), NEW n \in Node, x.end[n] # "open"
    PROVE  \A k \in Slots : ~Uses(K[n][k], s)
  BY DEF SockOK, OneUser

\* Connect.
LEMMA SConnect ==
    ASSUME Core, Rest, SInv, NEW n \in Node, NEW i \in Slots, Connect(n, i)
    PROVE  SInv'
<1>1. PICK s \in Socks : \E g \in Nat :
              /\ conn' = Updated(conn, n, i, WithSocket(conn[n][i], s, g)) /\ IsFree(s)
              /\ sock' = [sock EXCEPT ![s] = NewSock(n)] /\ conns' = conns
              /\ conn[n][i].state = "CONNECTING" /\ UNCHANGED history
  BY ConnectIs
<1>2. PICK g \in Nat :
              /\ conn' = Updated(conn, n, i, WithSocket(conn[n][i], s, g)) /\ IsFree(s)
              /\ sock' = [sock EXCEPT ![s] = NewSock(n)] /\ conns' = conns
              /\ conn[n][i].state = "CONNECTING" /\ UNCHANGED history
  BY <1>1
<1>3. PICK c, d : c = conn[n][i] /\ d = WithSocket(c, s, g)
  OBVIOUS
<1>4. PICK x : x = NewSock(n)
  OBVIOUS
<1>5. /\ x \in SockTypes /\ Len(x.q[n]) = 0 /\ Len(x.q[Peer(n)]) = 0
  BY <1>4, NewSockTyped
<1>6. sock \in [Socks -> SockTypes] /\ \A t \in Socks : SockOK(conn, sock[t], t)
  BY DEF Core, AllSocks
<1>7. /\ sock' \in [Socks -> SockTypes] /\ sock'[s] = x
      /\ \A t \in Socks \ {s} : sock'[t] = sock[t]
  BY <1>2, <1>4, <1>5, <1>6
<1>8. conns[n] = i /\ Recorded /\ conns' = conns /\ submitted' = submitted
  BY <1>2, IsMine DEF Recorded, history
<1>9. /\ Status(c) /\ c \in ConnTypes(MaxMsgs[n])
      /\ (c.connect_seq > 0 => conns[Peer(n)] # None)
  BY <1>3, <1>8, MineIs
<1>10. /\ d \in ConnTypes(MaxMsgs[n]) /\ d.state = "CONNECTING_WAIT_BANNER" /\ d.sd = s
       /\ d.connect_seq = c.connect_seq
       /\ d.out_seq = c.out_seq /\ d.sent = c.sent
       /\ d.out_q = c.out_q /\ d.replacing = c.replacing
       /\ d.replacing_sd = c.replacing_sd /\ d.flags = c.flags /\ d.in_seq = c.in_seq
  <2>1. s \in Handles
    BY DEF Handles
  <2> QED
    BY <1>3, <1>9, <2>1, WithSocketRecord
<1>11. Status(d)
  BY <1>9, <1>10 DEF Status, Undisturbed, Flag, Fresh
<1>12. Keeps(conn[n][i], d) /\ d.sent = conn[n][i].sent
  BY <1>3, <1>10 DEF Keeps
<1>13. Owned(n, i, d)
  BY <1>8, <1>9, <1>10, <1>11, <1>12, OwnedPlain
<1>14. /\ conn'[n][i] = d /\ conn'[Peer(n)] = conn[Peer(n)]
       /\ \A j \in Slots \ {i} : conn'[n][j] = conn[n][j]
  <2>1. conn' = Updated(conn, n, i, d)
    BY <1>2, <1>3
  <2> QED
    BY <1>10, <2>1, Update DEF Core
<1>15. MovesOne(n, i, d)
  BY <1>14 DEF MovesOne
<1>16. /\ Regs' /\ Spares' /\ Past'
       /\ \A p \in Node, m \in Items : Fine(p, m, conn, conns) => Fine(p, m, conn', conns')
  BY <1>8, <1>13, <1>15, Kept DEF Recorded
<1>17. PICK item : item = [kind |-> "banner"]
  OBVIOUS
<1>18. Fine(Peer(n), item, conn', conns')
  <2>1. item.kind = "banner"
    BY <1>17
  <2> QED
    BY <2>1, FineBanner
<1>19. ASSUME NEW t \in Socks PROVE Passes(sock[t], sock'[t], n, item)
  <2>1. CASE t = s
    BY <1>5, <1>7, <2>1 DEF Passes
  <2>2. CASE t # s
    BY <1>6, <1>7, <2>2, PassesSame
  <2> QED
    BY <2>1, <2>2
<1>20. Told'
  BY <1>7, <1>16, <1>18, <1>19, ItemsKept DEF SInv
<1>21. \A m \in Node : \A k \in Slots : ~Uses(conn[m][k], s)
  <2>1. \A m \in Node : sock[s].end[m] # "open"
    BY <1>2 DEF IsFree
  <2> QED
    BY <1>6, <2>1, NoUser
<1>22. ASSUME NEW t \in Socks PROVE FlowOK(conn', sock'[t], t)
  <2>1. CASE t # s
    <3>1. Apart(c, d, t)
      BY <1>10, <2>1 DEF Apart, Flag
    <3>2. \A j \in Slots : Apart(conn[n][j], conn'[n][j], t)
      BY <1>3, <1>14, <3>1, ApartSelf
    <3>3. FlowOK(conn, sock[t], t) /\ sock'[t] = sock[t]
      BY <1>7, <2>1 DEF SInv, Flows
    <3> QED
      BY <1>14, <3>2, <3>3, SockApart
  <2>2. CASE t = s
    <3>1. EndOK(d, x.q[n])
      BY <1>5, EndEmpty
    <3>2. \A l \in Slots : conn[Peer(n)][l].sd # s /\ conn[Peer(n)][l].replacing_sd # s
      BY <1>21, Peers DEF Uses
    <3>3. d.replacing_sd # s /\ \A j \in Slots \ {i} : ~Uses(conn'[n][j], s)
      BY <1>3, <1>10, <1>14, <1>21 DEF Uses
    <3>4. ServedRight(conn, conn', n, i, s, x)
      BY <1>10, <1>14, <3>1, <3>2, <3>3 DEF ServedRight
    <3> QED
      BY <1>7, <2>2, <3>4, SockServed
  <2> QED
    BY <2>1, <2>2
<1> QED
  BY <1>16, <1>20, <1>22 DEF SInv, Flows

\* Break.
LEMMA SBreak ==
    ASSUME Core, Rest, SInv, NEW s \in Socks, Break(s)
    PROVE  SInv'
<1>1. /\ conn' = conn /\ conns' = conns /\ submitted' = submitted /\ got' = got /\ ever' = ever
      /\ dropped' = dropped
      /\ sock' = [sock EXCEPT ![s].live = "no",
                            ![s].end = [n \in Node |->
                               IF @[n] = "pending" THEN "closed" ELSE @[n]]]
  BY DEF Break, history
<1>2. sock \in [Socks -> SockTypes]
  BY DEF Core
<1>3. \A t \in Socks : /\ sock'[t].q = sock[t].q
                       /\ sock'[t].live = sock[t].live \/ sock'[t].live = "no"
  BY <1>1, <1>2 DEF SockTypes
<1>4. Regs' /\ Spares' /\ Past'
  BY <1>1 DEF SInv, Regs, Account, Spares, Past, In, Mine
<1>5. Told'
  BY <1>1, <1>3, ZenonT(30) DEF SInv, Told, ItemOK
<1>6. ASSUME NEW t \in Socks PROVE FlowOK(conn', sock'[t], t)
  <2>1. PICK x, y : x = sock[t] /\ y = sock'[t]
    OBVIOUS
  <2>2. y.q = x.q /\ (y.live = x.live \/ y.live = "no") /\ FlowOK(conn, x, t)
    BY <1>3, <2>1 DEF SInv, Flows
  <2>3. ASSUME NEW c, NEW d, NEW q, Link(c, d, q, x.live) PROVE Link(c, d, q, y.live)
    <3>1. CASE y.live = x.live
      BY <2>3, <3>1
    <3>2. CASE y.live = "no"
      BY <2>3, <3>2 DEF Link, Flow
    <3> QED
      BY <2>2, <3>1, <3>2
  <2>4. FlowOK(conn, y, t)
    BY <2>2, <2>3, ZenonT(60) DEF FlowOK
  <2> QED
    BY <1>1, <2>1, <2>4
<1> QED
  BY <1>4, <1>5, <1>6 DEF SInv, Flows

\* The connection of an accepted socket.
LEMMA AcceptFields ==
    ASSUME NEW max, NEW s \in Socks, NEW d,
           d = [FreeConn EXCEPT !.state = "ACCEPTING_WAIT_CONNECT_MSG", !.sd = s]
    PROVE  /\ d \in ConnTypes(max) /\ d.sd = s /\ d.replacing_sd = None /\ d.replacing = 0
           /\ d.state = "ACCEPTING_WAIT_CONNECT_MSG" /\ d.out_q = <<>> /\ d.sent = <<>>
           /\ d.out_seq = 0 /\ d.in_seq = 0 /\ d.connect_seq = 0 /\ d.flags = {"lossy"}
<1>1. FreeConn \in ConnTypes(max) /\ s \in Handles /\ "ACCEPTING_WAIT_CONNECT_MSG" \in States
  BY FreeRecord, FieldValues DEF Handles
<1>2. PICK c : c = FreeConn
  OBVIOUS
<1>3. [c EXCEPT !.state = "ACCEPTING_WAIT_CONNECT_MSG"] \in ConnTypes(max)
  BY <1>1, <1>2, OneField
<1>4. d \in ConnTypes(max)
  BY <1>1, <1>2, <1>3, OneField
<1> QED
  BY <1>4 DEF FreeConn

\* add_accept opens an end and sends the banner.
OpensEnd(S, S1, s, n, b) == S1 = Put([S EXCEPT ![s].end[n] = "open"], s, Peer(n), b)

\* The socket after accept has written its banner to it.
LEMMA AcceptSock ==
    ASSUME NEW S \in [Socks -> SockTypes], NEW s \in Socks, NEW n \in Node, NEW b \in Items,
           NEW S1, OpensEnd(S, S1, s, n, b)
    PROVE  /\ S1 \in [Socks -> SockTypes] /\ \A t \in Socks \ {s} : S1[t] = S[t]
           /\ S1[s].q[n] = S[s].q[n] /\ Given(S[s].q[Peer(n)], S1[s].q[Peer(n)], b)
<1>1. PICK T : T = [S EXCEPT ![s].end[n] = "open"]
  OBVIOUS
<1>2. /\ T \in [Socks -> SockTypes] /\ T[s].q = S[s].q /\ \A t \in Socks \ {s} : T[t] = S[t]
  BY <1>1 DEF SockTypes
<1>3. S1 = Put(T, s, Peer(n), b)
  BY <1>1 DEF OpensEnd
<1>4. /\ Exchange(T, S1, s) /\ S1[s].q[n] = T[s].q[n]
      /\ Given(T[s].q[Peer(n)], S1[s].q[Peer(n)], b)
  BY <1>2, <1>3, WriteSock
<1> QED
  BY <1>2, <1>4 DEF Exchange

\* add_accept.
LEMMA SAddAccept ==
    ASSUME Core, Rest, SInv, NEW n \in Node, NEW s \in Socks, add_accept(n, s)
    PROVE  SInv'
<1>1. PICK i, d : /\ i = Min(FreeSlots(n))
                  /\ d = [FreeConn EXCEPT !.state = "ACCEPTING_WAIT_CONNECT_MSG", !.sd = s]
  OBVIOUS
<1>2. PICK b : b = [kind |-> "banner"]
  OBVIOUS
<1>3. /\ conn' = Updated(conn, n, i, d)
      /\ OpensEnd(sock, sock', s, n, b)
      /\ conns' = conns /\ submitted' = submitted /\ Recorded
      /\ sock[s].end[n] = "pending" /\ FreeSlots(n) # {}
  BY <1>1, <1>2 DEF add_accept, Updated, history, Recorded, OpensEnd
<1>4. i \in Slots /\ conns[n] # i
  BY <1>1, <1>3, FreeSpare
<1>5. /\ d \in ConnTypes(MaxMsgs[n]) /\ d.sd = s /\ d.replacing_sd = None /\ d.replacing = 0
      /\ d.state = "ACCEPTING_WAIT_CONNECT_MSG" /\ d.out_q = <<>> /\ d.sent = <<>>
      /\ d.out_seq = 0 /\ d.in_seq = 0 /\ d.connect_seq = 0 /\ d.flags = {"lossy"}
  BY <1>1, AcceptFields
<1>6. Spare(d)
  BY <1>5 DEF Spare, Undisturbed, Flag
<1>7. Owned(n, i, d)
  BY <1>3, <1>4, <1>6 DEF Owned
<1>8. b \in Items /\ b.kind = "banner"
  BY <1>2 DEF Items
<1>9. sock \in [Socks -> SockTypes] /\ \A t \in Socks : SockOK(conn, sock[t], t)
  BY DEF Core, AllSocks
<1>10. /\ sock' \in [Socks -> SockTypes] /\ \A t \in Socks \ {s} : sock'[t] = sock[t]
       /\ sock'[s].q[n] = sock[s].q[n]
       /\ Given(sock[s].q[Peer(n)], sock'[s].q[Peer(n)], b)
  BY <1>3, <1>8, <1>9, AcceptSock
<1>11. /\ conn'[n][i] = d /\ conn'[Peer(n)] = conn[Peer(n)]
       /\ \A j \in Slots \ {i} : conn'[n][j] = conn[n][j]
  BY <1>3, <1>4, <1>5, Update DEF Core
<1>12. MovesOne(n, i, d)
  BY <1>11 DEF MovesOne
<1>13. /\ Regs' /\ Spares' /\ Past'
       /\ \A p \in Node, m \in Items : Fine(p, m, conn, conns) => Fine(p, m, conn', conns')
  BY <1>3, <1>4, <1>7, <1>12, Kept DEF Recorded
<1>14. Fine(Peer(n), b, conn', conns')
  BY <1>8, FineBanner
<1>15. ASSUME NEW t \in Socks PROVE Passes(sock[t], sock'[t], n, b)
  <2>1. CASE t = s
    BY <1>10, <2>1 DEF Passes
  <2>2. CASE t # s
    BY <1>9, <1>10, <2>2, PassesSame
  <2> QED
    BY <2>1, <2>2
<1>16. Told'
  BY <1>10, <1>13, <1>14, <1>15, ItemsKept DEF SInv
<1>17. ASSUME NEW t \in Socks PROVE FlowOK(conn', sock'[t], t)
  <2>1. CASE t # s
    <3>1. Apart(conn[n][i], d, t)
      BY <1>5, <2>1, SocketsPositive DEF Apart
    <3>2. \A j \in Slots : Apart(conn[n][j], conn'[n][j], t)
      BY <1>11, <3>1, ApartSelf
    <3>3. FlowOK(conn, sock[t], t) /\ sock'[t] = sock[t]
      BY <1>10, <2>1 DEF SInv, Flows
    <3> QED
      BY <1>11, <3>2, <3>3, SockApart
  <2>2. CASE t = s
    <3>1. PICK x, y : x = sock[s] /\ y = sock'[s]
      OBVIOUS
    <3>2. /\ Len(x.q[n]) = 0 /\ Len(x.q[Peer(n)]) = 0
          /\ \A l \in Slots : /\ conn[Peer(n)][l].replacing_sd # s
                              /\ conn[Peer(n)][l].sd = s =>
                                    conn[Peer(n)][l].state = "CONNECTING_WAIT_BANNER"
      <4>1. SockOK(conn, x, s) /\ x.end[n] = "pending" /\ Peer(n) \in Node /\ Peer(Peer(n)) = n
        BY <1>3, <1>9, <3>1, Peers
      <4> QED
        BY <4>1 DEF SockOK, Unaccepted
    <3>3. \A k \in Slots : ~Uses(conn[n][k], s)
      <4>1. sock[s].end[n] # "open" /\ SockOK(conn, sock[s], s)
        BY <1>3, <1>9
      <4> QED
        BY <4>1, NoUser
    <3>4. d.replacing_sd # s /\ \A j \in Slots \ {i} : ~Uses(conn'[n][j], s)
      BY <1>5, <1>11, <3>3, SocketsPositive
    <3>5. y.q[n] = x.q[n] /\ Given(x.q[Peer(n)], y.q[Peer(n)], b)
      BY <1>10, <3>1
    <3>6. Len(y.q[n]) = 0
      BY <3>2, <3>5
    <3>7. EndOK(d, y.q[n])
      BY <3>6, EndEmpty
    <3>8. ASSUME NEW l \in Slots, conn[Peer(n)][l].sd = s
          PROVE  Sides(d, conn[Peer(n)][l], y.q[n], y.q[Peer(n)], y.live)
      <4>1. conn[Peer(n)][l].state = "CONNECTING_WAIT_BANNER"
        BY <3>2, <3>8
      <4> QED
        BY <1>5, <1>8, <3>2, <3>5, <3>6, <4>1, SidesAccept
    <3>9. ServedRight(conn, conn', n, i, s, y)
      BY <1>5, <1>11, <3>2, <3>4, <3>7, <3>8 DEF ServedRight
    <3> QED
      BY <1>4, <2>2, <3>1, <3>9, SockServed
  <2> QED
    BY <2>1, <2>2
<1> QED
  BY <1>13, <1>16, <1>17 DEF SInv, Flows

\* The peer's books when one more message has arrived.
LEMMA BooksArrive ==
    ASSUME NEW out \in Nat, NEW S, NEW Q, NEW sub, NEW inp \in Nat, Len(S) \in Nat,
           Books(out, S, Q, sub, inp), Assigned(out, Q, inp + 1)
    PROVE  Books(out, S, Q, sub, inp + 1)
  BY DEF Books

\* What has been dispatched, with one more.
LEMMA PastGrows ==
    ASSUME NEW k \in Nat
    PROVE  /\ Append([j \in 1 .. k |-> j], k + 1) = [j \in 1 .. (k + 1) |-> j]
           /\ (1 .. k) \cup {k + 1} = 1 .. (k + 1)
<1>1. PICK f, g : f = [j \in 1 .. k |-> j] /\ g = [j \in 1 .. (k + 1) |-> j]
  OBVIOUS
<1>2. f \in Seq(Nat) /\ Len(f) = k
  BY <1>1
<1>3. g \in Seq(Nat) /\ Len(g) = k + 1
  BY <1>1
<1>4. PICK h : h = Append(f, k + 1)
  OBVIOUS
<1>5. h \in Seq(Nat) /\ Len(h) = k + 1 /\ h[k + 1] = k + 1 /\ \A j \in 1 .. k : h[j] = f[j]
  BY <1>2, <1>4
<1>6. \A j \in 1 .. (k + 1) : h[j] = g[j]
  BY <1>1, <1>5
<1>7. h = g
  BY <1>3, <1>5, <1>6, SeqEqual
<1> QED
  BY <1>1, <1>4, <1>7

\* A message that arrives has the next number.
LEMMA MessageRead ==
    ASSUME Core, Rest, SInv, NEW n \in Node, NEW i \in Slots, Reads(n, i, "OPEN", "msg"),
           NEW c, c = conn[n][i], NEW m, m = Item(n, i)
    PROVE  /\ conns[n] = i /\ m.seq = c.in_seq + 1 /\ m.id = m.seq /\ conns[Peer(n)] # None
           /\ Assigned(Mine(Peer(n)).out_seq, Mine(Peer(n)).out_q, c.in_seq + 1)
<1>1. PICK s : s = c.sd
  OBVIOUS
<1>2. /\ s \in Socks /\ sock \in [Socks -> SockTypes] /\ sock[s].q[n] # <<>>
      /\ c.state = "OPEN" /\ m = sock[s].q[n][1] /\ m.kind = "msg"
  BY <1>1, Reading
<1>3. conns[n] = i
  BY <1>2, IsMine
<1>4. c \in ConnTypes(MaxMsgs[n]) /\ c.in_seq \in Nat
  BY <1>3, MineIs
<1>5. EndOK(c, sock[s].q[n])
  BY <1>1, <1>2, EndAt
<1>6. PICK q, q1 : q = sock[s].q[n] /\ q1 = Pop(sock, s, n)[s].q[n]
  OBVIOUS
<1>7. Taken(q, q1)
  BY <1>2, <1>6, ReadSock
<1>8. InOrder(q, c.in_seq) /\ q[1].kind = "msg"
  BY <1>2, <1>5, <1>6 DEF EndOK
<1>9. m.seq = c.in_seq + 1
  BY <1>2, <1>4, <1>6, <1>7, <1>8, InOrderRead
<1>10. Fine(n, m, conn, conns)
  BY <1>2, FirstFine
<1>11. /\ m.id = m.seq /\ conns[Peer(n)] # None
       /\ Assigned(conn[Peer(n)][conns[Peer(n)]].out_seq,
                   conn[Peer(n)][conns[Peer(n)]].out_q, m.seq)
  BY <1>2, <1>10 DEF Fine
<1> QED
  BY <1>3, <1>9, <1>11 DEF Mine

\* A connection that has received one more message.
Receiving(n, i, d) ==
    /\ conns' = conns /\ submitted' = submitted /\ conns[n] = i
    /\ conn'[n][i] = d /\ conn'[Peer(n)] = conn[Peer(n)]
    /\ \A j \in Slots \ {i} : conn'[n][j] = conn[n][j]
    /\ d.in_seq = conn[n][i].in_seq + 1 /\ conns[Peer(n)] # None
    /\ d.out_seq = conn[n][i].out_seq /\ d.out_q = conn[n][i].out_q /\ d.sent = conn[n][i].sent
    /\ d.connect_seq = conn[n][i].connect_seq /\ Status(d)

\* A connection that reads a message has one more; its peer has as many.
LEMMA InGrows ==
    ASSUME Core, Rest, SInv, NEW n \in Node, NEW i \in Slots, NEW d, Receiving(n, i, d)
    PROVE  /\ In(n)' = In(n) + 1 /\ In(Peer(n))' = In(Peer(n)) /\ In(n) \in Nat
           /\ Mine(n)' = d /\ Mine(Peer(n))' = Mine(Peer(n)) /\ Mine(n) = conn[n][i]
<1>1. None \notin Slots /\ conns[n] = i /\ conns' = conns
  BY SocketsPositive DEF Receiving
<1>2. In(n) = conn[n][i].in_seq /\ conn[n][i].in_seq \in Nat
  BY <1>1, MineIs
<1>3. Mine(n)' = d /\ Mine(Peer(n))' = Mine(Peer(n)) /\ Mine(n) = conn[n][i]
  BY <1>1 DEF Mine, Receiving
<1>4. In(n)' = d.in_seq /\ In(Peer(n))' = In(Peer(n))
  BY <1>1, <1>3 DEF In
<1> QED
  BY <1>1, <1>2, <1>3, <1>4 DEF Receiving

\* ... which the peer had numbered, so both know what they owe.
LEMMA RegsGrow ==
    ASSUME Core, Rest, SInv, NEW n \in Node, NEW i \in Slots, NEW d, Receiving(n, i, d),
           Assigned(Mine(Peer(n)).out_seq, Mine(Peer(n)).out_q, In(n) + 1)
    PROVE  Regs'
<1>1. /\ In(n)' = In(n) + 1 /\ In(Peer(n))' = In(Peer(n)) /\ In(n) \in Nat
      /\ Mine(n)' = d /\ Mine(Peer(n))' = Mine(Peer(n)) /\ Mine(n) = conn[n][i]
  BY InGrows
<1>2. /\ conns' = conns /\ submitted' = submitted /\ conns[n] = i /\ conns[Peer(n)] # None
      /\ None \notin Slots
  BY SocketsPositive DEF Receiving
<1>3. Peer(n) \in Node /\ Peer(Peer(n)) = n /\ \A m \in Node : m = n \/ m = Peer(n)
  BY Peers
<1>4. Account(n)'
  <2>1. /\ Books(conn[n][i].out_seq, conn[n][i].sent, conn[n][i].out_q, submitted[n], In(Peer(n)))
    BY <1>2, MineIs
  <2>2. Books(d.out_seq, d.sent, d.out_q, submitted[n], In(Peer(n))) /\ Status(d)
    BY <2>1 DEF Receiving
  <2> QED
    BY <1>1, <1>2, <2>2 DEF Account
<1>5. Account(Peer(n))'
  <2>1. PICK p, x : p = Peer(n) /\ x = Mine(p)
    OBVIOUS
  <2>2. p \in Node /\ conns[p] \in Slots /\ x = conn[p][conns[p]] /\ Peer(p) = n
    BY <1>2, <1>3, <2>1 DEF Rest, Mine
  <2>3. /\ Status(x) /\ Books(x.out_seq, x.sent, x.out_q, submitted[p], In(Peer(p)))
        /\ x \in ConnTypes(MaxMsgs[p]) /\ x.out_seq \in Nat
    BY <2>2, MineIs
  <2>4. Len(x.sent) \in Nat
    <3>1. x.sent \in Seq(MsgTypes(MaxMsgs[p]))
      BY <2>3, FieldTypes
    <3> HIDE DEF MsgTypes
    <3> QED
      BY <3>1
  <2>5. Assigned(x.out_seq, x.out_q, In(n) + 1)
    BY <2>1
  <2>6. Books(x.out_seq, x.sent, x.out_q, submitted[p], In(n))
    BY <2>2, <2>3
  <2>7. Books(x.out_seq, x.sent, x.out_q, submitted[p], In(n) + 1)
    BY <1>1, <2>3, <2>4, <2>5, <2>6, BooksArrive
  <2>8. Mine(p)' = x /\ In(Peer(p))' = In(n) + 1 /\ conns'[p] # None /\ conns'[Peer(p)] # None
    BY <1>1, <1>2, <2>1, <2>2
  <2>9. Account(p)'
    BY <1>2, <2>3, <2>7, <2>8 DEF Account
  <2> QED
    BY <2>1, <2>9
<1> QED
  BY <1>3, <1>4, <1>5 DEF Regs

\* ... and everything under way is as true as it was.
LEMMA FineGrows ==
    ASSUME Core, Rest, SInv, NEW n \in Node, NEW i \in Slots, NEW d, Receiving(n, i, d),
           NEW p \in Node, NEW m \in Items, Fine(p, m, conn, conns)
    PROVE  Fine(p, m, conn', conns')
<1>1. /\ conns' = conns /\ conns[n] = i /\ None \notin Slots
      /\ conn'[n][i] = d /\ conn'[Peer(n)] = conn[Peer(n)]
      /\ d.in_seq = conn[n][i].in_seq + 1
      /\ d.out_seq = conn[n][i].out_seq /\ d.out_q = conn[n][i].out_q
  BY SocketsPositive DEF Receiving
<1>2. conn[n][i].in_seq \in Nat
  BY <1>1, MineIs
<1>3. m.kind \in {"msg", "ack", "seq"} => m.seq \in Nat
  BY ItemKinds
<1>4. m.kind = "reply" => m.seq \in Nat
  BY ItemKinds
<1>5. CASE p = n
  <2>1. Peer(p) = Peer(n)
    BY <1>5
  <2> QED
    BY <1>1, <2>1 DEF Fine
<1>6. CASE p = Peer(n)
  <2>1. Peer(p) = n
    BY <1>6, Peers
  <2> QED
    BY <1>1, <1>2, <1>3, <1>4, <2>1 DEF Fine
<1> QED
  BY <1>5, <1>6, Peers

\* RecvMessage.
LEMMA SRecvMessage ==
    ASSUME Core, Rest, SInv, NEW n \in Node, NEW i \in Slots, RecvMessage(n, i)
    PROVE  SInv'
<1>1. PICK c, m : c = conn[n][i] /\ m = Item(n, i)
  OBVIOUS
<1>2. PICK s, d : s = c.sd /\ d = WithInSeq(c, m.seq)
  OBVIOUS
<1>3. Reads(n, i, "OPEN", "msg")
  BY DEF RecvMessage
<1>4. /\ conns[n] = i /\ m.seq = c.in_seq + 1 /\ m.id = m.seq /\ conns[Peer(n)] # None
      /\ Assigned(Mine(Peer(n)).out_seq, Mine(Peer(n)).out_q, c.in_seq + 1)
  BY <1>1, <1>3, MessageRead
<1>5. /\ s \in Socks /\ sock \in [Socks -> SockTypes] /\ sock[s].q[n] # <<>>
      /\ c.state = "OPEN" /\ Popped(n, i) = Pop(sock, s, n)
      /\ m = sock[s].q[n][1] /\ m.kind = "msg"
  BY <1>1, <1>2, <1>3, Reading
<1>6. /\ Status(c) /\ In(n) = c.in_seq /\ c \in ConnTypes(MaxMsgs[n]) /\ c.in_seq \in Nat
  BY <1>1, <1>4, MineIs
<1>7. ~(m.seq <= c.in_seq)
  BY <1>4, <1>6
<1>8. /\ conn' = Updated(conn, n, i, d)
      /\ got' = [got EXCEPT ![n] = Append(@, m.id)]
      /\ ever' = [ever EXCEPT ![n] = @ \cup {m.id}]
      /\ sock' = Pop(sock, s, n) /\ conns' = conns /\ submitted' = submitted
      /\ dropped' = dropped
  BY <1>1, <1>2, <1>5, <1>7 DEF RecvMessage, Updated, WithInSeq
<1>9. /\ d \in ConnTypes(MaxMsgs[n]) /\ d.in_seq = c.in_seq + 1 /\ d.state = c.state /\ d.sd = c.sd
      /\ d.connect_seq = c.connect_seq /\ d.out_seq = c.out_seq /\ d.sent = c.sent
      /\ d.out_q = c.out_q /\ d.replacing = c.replacing
      /\ d.replacing_sd = c.replacing_sd /\ d.flags = c.flags
  <2>1. PICK k, max : k = m.seq /\ max = MaxMsgs[n]
    OBVIOUS
  <2>2. k \in Nat /\ k = c.in_seq + 1 /\ d = WithInSeq(c, k) /\ c \in ConnTypes(max)
    BY <1>2, <1>4, <1>6, <2>1
  <2> QED
    BY <2>1, <2>2, WithInSeqRecord
<1>10. Status(d)
  <2>1. d.connect_seq > 0 /\ d.connect_seq # 0
    BY <1>5, <1>6, <1>9, FieldTypes DEF Status
  <2> QED
    BY <1>5, <1>6, <1>9, <2>1 DEF Status, Undisturbed, Flag
<1>11. /\ conn'[n][i] = d /\ conn'[Peer(n)] = conn[Peer(n)]
       /\ \A j \in Slots \ {i} : conn'[n][j] = conn[n][j]
  BY <1>8, <1>9, Update DEF Core
<1>12. Receiving(n, i, d)
  BY <1>1, <1>4, <1>8, <1>9, <1>10, <1>11 DEF Receiving
<1>13. /\ In(n)' = In(n) + 1 /\ In(Peer(n))' = In(Peer(n)) /\ In(n) \in Nat
  BY <1>12, InGrows
<1>14. Regs'
  BY <1>4, <1>6, <1>12, RegsGrow
<1>15. Spares'
  <2>1. ASSUME NEW p \in Node, NEW j \in Slots, conns'[p] # j PROVE Spare(conn'[p][j])
    <3>1. conns[p] # j /\ (p = n \/ p = Peer(n)) /\ Spare(conn[p][j])
      BY <1>8, <2>1, Peers DEF SInv, Spares
    <3> QED
      BY <1>4, <1>11, <3>1
  <2> QED
    BY <2>1 DEF Spares
<1>16. Past'
  <2>1. PICK k : k = In(n)
    OBVIOUS
  <2>2. k \in Nat /\ m.id = k + 1 /\ In(n)' = k + 1
    BY <1>4, <1>6, <1>13, <2>1
  <2>3. /\ ever = [p \in Node |-> 1 .. In(p)]
        /\ got = [p \in Node |-> [j \in 1 .. In(p) |-> j]] /\ dropped = [p \in Node |-> {}]
    BY DEF SInv, Past
  <2>4. /\ Append([j \in 1 .. k |-> j], k + 1) = [j \in 1 .. (k + 1) |-> j]
        /\ (1 .. k) \cup {k + 1} = 1 .. (k + 1)
    BY <2>2, PastGrows
  <2>5. ASSUME NEW p \in Node PROVE In(p)' = IF p = n THEN k + 1 ELSE In(p)
    BY <1>13, <2>2, Peers
  <2>6. got' = [p \in Node |-> [j \in 1 .. In(p)' |-> j]]
    <3>1. got' = [p \in Node |-> IF p = n THEN [j \in 1 .. (k + 1) |-> j] ELSE got[p]]
      BY <1>8, <2>1, <2>2, <2>3, <2>4
    <3>2. ASSUME NEW p \in Node
          PROVE  (IF p = n THEN [j \in 1 .. (k + 1) |-> j] ELSE got[p]) = [j \in 1 .. In(p)' |-> j]
      BY <2>3, <2>5
    <3> QED
      BY <3>1, <3>2
  <2>7. ever' = [p \in Node |-> 1 .. In(p)']
    <3>1. ever' = [p \in Node |-> IF p = n THEN 1 .. (k + 1) ELSE ever[p]]
      BY <1>8, <2>1, <2>2, <2>3, <2>4
    <3>2. ASSUME NEW p \in Node
          PROVE  (IF p = n THEN 1 .. (k + 1) ELSE ever[p]) = 1 .. In(p)'
      BY <2>3, <2>5
    <3> QED
      BY <3>1, <3>2
  <2> QED
    BY <1>8, <2>3, <2>6, <2>7 DEF Past
<1>17. /\ Exchange(sock, sock', s) /\ sock'[s].q[Peer(n)] = sock[s].q[Peer(n)]
       /\ Taken(sock[s].q[n], sock'[s].q[n]) /\ Len(sock[s].q[n]) # 0
       /\ Len(sock[s].q[Peer(n)]) \in Nat
  BY <1>5, <1>8, ReadSock
<1>18. sock'[s].live = sock[s].live
  BY <1>5, <1>8, PopLive
<1>19. Told'
  <2>1. PICK item : item = [kind |-> "banner"]
    OBVIOUS
  <2>2. Fine(Peer(n), item, conn', conns')
    <3>1. item.kind = "banner"
      BY <2>1
    <3> QED
      BY <3>1, FineBanner
  <2>3. ASSUME NEW t \in Socks PROVE Passes(sock[t], sock'[t], n, item)
    <3>1. CASE t = s
      BY <1>17, <3>1 DEF Passes, Given
    <3>2. CASE t # s
      <4>1. sock'[t] = sock[t]
        BY <1>17, <3>2 DEF Exchange
      <4> QED
        BY <1>5, <4>1, PassesSame
    <3> QED
      BY <3>1, <3>2
  <2>4. \A p \in Node, x \in Items : Fine(p, x, conn, conns) => Fine(p, x, conn', conns')
    BY <1>12, FineGrows
  <2>5. sock' \in [Socks -> SockTypes]
    BY <1>17 DEF Exchange
  <2> QED
    BY <2>2, <2>3, <2>4, <2>5, ItemsKept DEF SInv
<1>20. PICK qn, qp, qn1, live : /\ qn = sock[s].q[n] /\ qp = sock[s].q[Peer(n)]
                                /\ qn1 = sock'[s].q[n] /\ live = sock[s].live
  OBVIOUS
<1>21. EndOK(d, qn1)
  <2>1. EndOK(c, qn)
    BY <1>1, <1>2, <1>5, <1>20, EndAt
  <2>2. Taken(qn, qn1) /\ qn[1].kind = "msg" /\ InOrder(qn, c.in_seq)
    BY <1>5, <1>17, <1>20, <2>1 DEF EndOK
  <2>3. InOrder(qn1, c.in_seq + 1)
    BY <1>6, <2>2, InOrderRead
  <2> QED
    BY <1>5, <1>9, <2>3 DEF EndOK
<1>22. ASSUME NEW l \in Slots, conn[Peer(n)][l].sd = s
       PROVE  Sides(d, conn[Peer(n)][l], qn1, qp, live)
  <2>1. Sides(c, conn[Peer(n)][l], qn, qp, live)
    BY <1>1, <1>2, <1>5, <1>20, <1>22, PeerAt
  <2>2. Taken(qn, qn1) /\ qn[1].kind = "msg"
    BY <1>5, <1>17, <1>20
  <2> QED
    BY <1>5, <1>6, <1>9, <2>1, <2>2, SidesReadMsg
<1>23. CarriesOn(n, i, s, d)
  <2>1. SameWait(conn[n][i], d)
    BY <1>1, <1>9 DEF SameWait, Flag
  <2>2. sock'[s].q[Peer(n)] = qp /\ sock'[s].q[n] = qn1 /\ sock'[s].live = live
    BY <1>17, <1>18, <1>20
  <2> QED
    BY <1>1, <1>2, <1>9, <1>17, <1>21, <1>22, <2>1, <2>2 DEF CarriesOn
<1>24. Flows'
  <2>1. Moves(conn, conn', n, i)
    BY <1>11 DEF Moves
  <2> QED
    BY <1>5, <1>11, <1>17, <1>23, <2>1, ServeSocks DEF SInv
<1> QED
  BY <1>14, <1>15, <1>16, <1>19, <1>24 DEF SInv

\* Who closes an end reads no more from it.
LEMMA CloseEmpty ==
    ASSUME NEW sk \in [Socks -> SockTypes], NEW s \in Socks, NEW n \in Node,
           NEW new, new = Close(sk, s, n)
    PROVE  Len(new[s].q[n]) = 0
<1>0. s # None
  BY SocketsPositive
<1>1. CASE sk[s].end[Peer(n)] # "open"
  <2>1. new = [sk EXCEPT ![s] = FreeSock]
    BY <1>0, <1>1 DEF Close
  <2> HIDE DEF FreeSock
  <2>2. new[s] = FreeSock
    BY <2>1
  <2> QED
    BY <2>2, FreeSockTyped
<1>2. CASE sk[s].end[Peer(n)] = "open"
  <2> PICK x : x = sk[s]
    OBVIOUS
  <2> PICK y : y = [x EXCEPT !.end[n] = "closed", !.q[n] = <<>>]
    OBVIOUS
  <2>1. x \in SockTypes /\ x.q \in [Node -> Seq(Items)]
    BY DEF SockTypes
  <2>3. y.q[n] = <<>>
    BY <2>1 DEF SockTypes
  <2>4. new = [sk EXCEPT ![s] = y]
    BY <1>0, <1>2 DEF Close
  <2>5. new[s] = y
    BY <2>4
  <2> QED
    BY <2>3, <2>5
<1> QED
  BY <1>1, <1>2

\* What is left of a socket whose end n closes.
Left(x, y, n) ==
    Len(y.q[n]) = 0 /\ (y.q[Peer(n)] = x.q[Peer(n)] \/ Len(y.q[Peer(n)]) = 0)

\* A closed socket is left: its other end reads what was written, and no more.
LEMMA CloseLeft ==
    ASSUME Core, NEW n \in Node, NEW c, c.sd \in Handles, NEW sk, Near(sk, n, c),
           NEW new, new = Close(sk, c.sd, n)
    PROVE  /\ new \in [Socks -> SockTypes]
           /\ \A t \in Socks : t # c.sd => new[t] = sock[t]
           /\ c.sd \in Socks => Left(sock[c.sd], new[c.sd], n)
<1>1. /\ new \in [Socks -> SockTypes]
      /\ \A t \in Socks : t # c.sd => new[t] = sock[t]
      /\ c.sd \in Socks => Shut(sock[c.sd], new[c.sd], n)
  BY CloseNear
<1>2. c.sd \in Socks => Len(new[c.sd].q[n]) = 0
  <2>1. sk \in [Socks -> SockTypes]
    BY DEF Near
  <2> QED
    BY <2>1, CloseEmpty
<1>3. Peer(n) \in Node
  BY Peers
<1>4. ASSUME NEW x, NEW y, Shut(x, y, n) PROVE y.q[Peer(n)] = x.q[Peer(n)] \/ Len(y.q[Peer(n)]) = 0
  <2> HIDE DEF FreeSock
  <2> QED
    BY <1>3, <1>4, FreeSockTyped DEF Shut
<1> QED
  BY <1>1, <1>2, <1>4 DEF Left

\* A connection leaves its socket.
Leaves(n, i, d) ==
    /\ d \in ConnTypes(MaxMsgs[n]) /\ conn' = Updated(conn, n, i, d)
    /\ d.sd = None /\ (d.replacing_sd = None \/ SameWait(conn[n][i], d))
    /\ sock' \in [Socks -> SockTypes]
    /\ \A t \in Socks : t # conn[n][i].sd => sock'[t] = sock[t]
    /\ conn[n][i].sd \in Socks => Left(sock[conn[n][i].sd], sock'[conn[n][i].sd], n)

\* A connection leaves its socket: SInv, when it keeps its books.
LEMMA LeaveAll ==
    ASSUME Core, Rest, SInv, NEW n \in Node, NEW i \in Slots, NEW d, Leaves(n, i, d), Recorded,
           Owned(n, i, d)
    PROVE  SInv'
<1>1. PICK c : c = conn[n][i]
  OBVIOUS
<1>2. /\ d.sd = None /\ (d.replacing_sd = None \/ SameWait(c, d))
      /\ sock' \in [Socks -> SockTypes]
      /\ \A t \in Socks : t # c.sd => sock'[t] = sock[t]
      /\ c.sd \in Socks => Left(sock[c.sd], sock'[c.sd], n)
      /\ d \in ConnTypes(MaxMsgs[n]) /\ conn' = Updated(conn, n, i, d)
  BY <1>1 DEF Leaves
<1>3. /\ conn'[n][i] = d /\ conn'[Peer(n)] = conn[Peer(n)]
      /\ \A j \in Slots \ {i} : conn'[n][j] = conn[n][j]
  BY <1>2, Update DEF Core
<1>4. MovesOne(n, i, d)
  BY <1>3 DEF MovesOne
<1>5. /\ Regs' /\ Spares' /\ Past'
      /\ \A p \in Node, m \in Items : Fine(p, m, conn, conns) => Fine(p, m, conn', conns')
  BY <1>4, Kept DEF Recorded
<1>6. PICK item : item = [kind |-> "banner"]
  OBVIOUS
<1>7. Fine(Peer(n), item, conn', conns')
  <2>1. item.kind = "banner"
    BY <1>6
  <2> QED
    BY <2>1, FineBanner
<1>8. sock \in [Socks -> SockTypes] /\ \A t \in Socks : SockOK(conn, sock[t], t)
  BY DEF Core, AllSocks
<1>9. ASSUME NEW t \in Socks PROVE Passes(sock[t], sock'[t], n, item)
  <2>1. Passes(sock[t], sock[t], n, item)
    BY <1>8, PassesSame
  <2>2. CASE t # c.sd
    BY <1>2, <2>1, <2>2
  <2>3. CASE t = c.sd
    <3>1. PICK x, y : x = sock[t] /\ y = sock'[t]
      OBVIOUS
    <3>2. Left(x, y, n) /\ Passes(x, x, n, item)
      BY <1>2, <2>1, <2>3, <3>1
    <3>3. Len(x.q[Peer(n)]) \in Nat
      <4>1. x \in SockTypes /\ Peer(n) \in Node
        BY <1>8, <3>1, Peers
      <4>2. x.q[Peer(n)] \in Seq(Items)
        BY <4>1 DEF SockTypes
      <4> HIDE DEF Items
      <4> QED
        BY <4>2
    <3>4. Passes(x, y, n, item)
      BY <3>2, <3>3 DEF Left, Passes, Given
    <3> QED
      BY <3>1, <3>4
  <2> QED
    BY <2>2, <2>3
<1>10. Told'
  BY <1>2, <1>5, <1>7, <1>9, ItemsKept DEF SInv
<1>11. ASSUME NEW t \in Socks PROVE FlowOK(conn', sock'[t], t)
  <2>1. FlowOK(conn, sock[t], t)
    BY DEF SInv, Flows
  <2>2. CASE t # c.sd
    <3>1. Apart(c, d, t)
      BY <1>2, SocketsPositive DEF Apart, SameWait
    <3>2. \A j \in Slots : Apart(conn[n][j], conn'[n][j], t)
      BY <1>1, <1>3, <3>1, ApartSelf
    <3>3. sock'[t] = sock[t]
      BY <1>2, <2>2
    <3> QED
      BY <1>3, <2>1, <3>2, <3>3, SockApart
  <2>3. CASE t = c.sd
    <3>1. Uses(conn[n][i], t) /\ conn[n][i].sd = t
      BY <1>1, <2>3 DEF Uses
    <3>2. /\ \A j \in Slots \ {i} : ~Uses(conn[n][j], t)
          /\ conn[n][i].replacing_sd # t
      BY <1>8, <3>1, OnlyUser
    <3>3. ~Uses(d, t)
      BY <1>1, <1>2, <3>2, SocketsPositive DEF Uses, SameWait
    <3>4. \A j \in Slots : ~Uses(conn'[n][j], t)
      BY <1>3, <3>2, <3>3
    <3>5. sock'[t].q[Peer(n)] = sock[t].q[Peer(n)] \/ Len(sock'[t].q[Peer(n)]) = 0
      BY <1>2, <2>3 DEF Left
    <3> QED
      BY <1>3, <2>1, <3>4, <3>5, SockLeft
  <2> QED
    BY <2>2, <2>3
<1> QED
  BY <1>5, <1>10, <1>11 DEF SInv, Flows

\* What fault() leaves of a connection.
LEMMA FaultedFields ==
    ASSUME NEW max, NEW c \in ConnTypes(max), Numbered(c), NEW n, NEW d, d = Faulted(n, c),
           NEW q, q = requeue_sent(c)
    PROVE  /\ d \in ConnTypes(max) /\ d.sd = None /\ d.replacing = 0
           /\ d.replacing_sd = c.replacing_sd /\ d.flags = c.flags /\ d.in_seq = q.in_seq
           /\ d.out_seq = q.out_seq /\ d.sent = q.sent /\ d.out_q = q.out_q
           /\ d.state \in {"STANDBY", "CONNECTING"}
           /\ \/ d.connect_seq = c.connect_seq
              \/ d.connect_seq = c.connect_seq + 1
                   /\ c.state \notin ConnectingStates \cup AcceptingStates
<1>1. /\ q \in ConnTypes(max) /\ q.replacing_sd = c.replacing_sd /\ q.flags = c.flags
      /\ q.connect_seq = c.connect_seq
  BY RequeueRecord
<1>e. PICK e : e = [q EXCEPT !.sd = None, !.replacing = 0, !.global_seq = 0, !.reply = NoReply]
  OBVIOUS
<1>2. d \in ConnTypes(max) /\ d.sd = None
  BY FaultedRecord
<1>4. /\ e.replacing = 0 /\ e.sent = q.sent /\ e.out_seq = q.out_seq /\ e.in_seq = q.in_seq
      /\ e.out_q = q.out_q /\ e.replacing_sd = c.replacing_sd /\ e.flags = c.flags
      /\ e.connect_seq = c.connect_seq /\ DOMAIN e = DOMAIN q
  BY <1>1, <1>e DEF ConnTypes
<1>5. \/ d = [e EXCEPT !.state = "STANDBY"]
      \/ d = [e EXCEPT !.state = "CONNECTING"]
      \/ /\ d = [e EXCEPT !.state = "CONNECTING", !.connect_seq = @ + 1]
         /\ c.state \notin ConnectingStates \cup AcceptingStates
  BY <1>e, Zenon DEF Faulted
<1>6. {"state", "sd", "connect_seq", "in_seq", "out_seq", "out_q", "sent", "replacing",
       "replacing_sd", "flags"} \subseteq DOMAIN e
  BY <1>1, <1>4 DEF ConnTypes
<1>7. /\ d.replacing = e.replacing /\ d.sent = e.sent /\ d.out_seq = e.out_seq
      /\ d.in_seq = e.in_seq /\ d.out_q = e.out_q /\ d.replacing_sd = e.replacing_sd
      /\ d.flags = e.flags /\ d.state \in {"STANDBY", "CONNECTING"}
  BY <1>5, <1>6
<1>8. \/ d.connect_seq = e.connect_seq
      \/ d.connect_seq = e.connect_seq + 1
           /\ c.state \notin ConnectingStates \cup AcceptingStates
  BY <1>5, <1>6
<1> QED
  BY <1>2, <1>4, <1>7, <1>8

\* Two steps that lose nothing.
LEMMA GrowsTrans ==
    ASSUME NEW c, NEW d, NEW e, Grows(c, d), Grows(d, e)
    PROVE  Grows(c, e)
  BY DEF Grows, Higher

\* A registered connection, in the condition c, that meets an error.
Faulting(n, i, c) ==
    /\ conns[n] = i /\ c \in ConnTypes(MaxMsgs[n]) /\ Numbered(c) /\ c.state \in Linked
    /\ c.state \in {"ACCEPTING_WAIT_SEQ", "OPEN"} => c.connect_seq > 0
    /\ ~Flag(c, "lossy") /\ Undisturbed(c) /\ (c.connect_seq = 0 => Fresh(c))
    /\ c.sd = conn[n][i].sd /\ c.replacing_sd = conn[n][i].replacing_sd
    /\ c.in_seq = conn[n][i].in_seq /\ c.connect_seq = conn[n][i].connect_seq
    /\ Balanced(c, submitted[n], In(Peer(n))) /\ Grows(conn[n][i], c)

\* A registered connection after fault() is in STANDBY or about to connect again.
LEMMA FaultedStatus ==
    ASSUME NEW c, NEW d, NEW q, c.connect_seq \in Nat, c.connect_seq = 0 => Fresh(c),
           ~Flag(c, "lossy"), Undisturbed(c), Fresh(c) => Fresh(q),
           d.flags = c.flags, d.in_seq = q.in_seq, d.out_seq = q.out_seq, d.out_q = q.out_q,
           d.state \in {"STANDBY", "CONNECTING"},
           d.connect_seq = c.connect_seq \/ d.connect_seq = c.connect_seq + 1
    PROVE  Status(d)
<1>1. d.connect_seq = 0 => Fresh(d)
  BY DEF Fresh
<1> QED
  BY <1>1 DEF Status, Undisturbed, Flag

\* fault of a registered connection.
LEMMA SFaultMine ==
    ASSUME Core, Rest, SInv, NEW n \in Node, NEW i \in Slots, NEW c, NEW sk, Faulting(n, i, c),
           Near(sk, n, c), fault(n, i, c, sk)
    PROVE  SInv'
<1>1. /\ conns[n] = i /\ c \in ConnTypes(MaxMsgs[n]) /\ Numbered(c) /\ c.state \in Linked
      /\ c.state \in {"ACCEPTING_WAIT_SEQ", "OPEN"} => c.connect_seq > 0
      /\ ~Flag(c, "lossy") /\ Undisturbed(c) /\ (c.connect_seq = 0 => Fresh(c))
      /\ c.sd = conn[n][i].sd /\ c.replacing_sd = conn[n][i].replacing_sd
      /\ c.in_seq = conn[n][i].in_seq /\ c.connect_seq = conn[n][i].connect_seq
      /\ Balanced(c, submitted[n], In(Peer(n))) /\ Grows(conn[n][i], c)
  BY DEF Faulting
<1>2. PICK d, q : d = Faulted(n, c) /\ q = requeue_sent(c)
  OBVIOUS
<1>3. /\ conn' = Updated(conn, n, i, d) /\ sock' = Close(sk, c.sd, n)
      /\ conns' = conns /\ submitted' = submitted /\ Recorded
  BY <1>1, <1>2 DEF fault, Updated, history, IsRegistered, Recorded
<1>4. /\ d \in ConnTypes(MaxMsgs[n]) /\ d.sd = None /\ d.replacing = 0
      /\ d.replacing_sd = c.replacing_sd /\ d.flags = c.flags /\ d.in_seq = q.in_seq
      /\ d.out_seq = q.out_seq /\ d.sent = q.sent /\ d.out_q = q.out_q
      /\ d.state \in {"STANDBY", "CONNECTING"}
      /\ \/ d.connect_seq = c.connect_seq
         \/ d.connect_seq = c.connect_seq + 1
              /\ c.state \notin ConnectingStates \cup AcceptingStates
  BY <1>1, <1>2, FaultedFields
<1>5. /\ In(n) = conn[n][i].in_seq /\ In(Peer(n)) \in Nat
      /\ conn[n][i].connect_seq > 0 => conns[Peer(n)] # None
  BY <1>1, MineIs
<1>6. /\ Balanced(q, submitted[n], In(Peer(n))) /\ Grows(c, q) /\ SameButQueues(c, q)
  <2>1. PICK max, sub, inp : max = MaxMsgs[n] /\ sub = submitted[n] /\ inp = In(Peer(n))
    OBVIOUS
  <2>2. c \in ConnTypes(max) /\ inp \in Nat /\ Balanced(c, sub, inp)
    BY <1>1, <1>5, <2>1
  <2>3. Balanced(q, sub, inp) /\ Grows(c, q) /\ SameButQueues(c, q)
    BY <1>1, <1>2, <2>2, RequeueBooks
  <2> QED
    BY <2>1, <2>3
<1>7. c.connect_seq \in Nat
  BY <1>1, FieldTypes
<1>8. q.in_seq = c.in_seq /\ (Fresh(c) => Fresh(q))
  BY <1>6 DEF SameButQueues
<1>9. Status(d)
  BY <1>1, <1>4, <1>7, <1>8, FaultedStatus
<1>10. d.connect_seq > 0 => conns[Peer(n)] # None
  <2>1. c.state \notin ConnectingStates \cup AcceptingStates => c.connect_seq > 0
    BY <1>1 DEF Linked, ConnectingStates, AcceptingStates
  <2> QED
    BY <1>1, <1>4, <1>5, <1>7, <2>1
<1>11. Owned(n, i, d)
  <2>1. Balanced(d, submitted[n], In(Peer(n)))
    BY <1>4, <1>6 DEF Balanced
  <2>2. Grows(conn[n][i], d)
    <3>1. Grows(conn[n][i], q)
      BY <1>1, <1>6, GrowsTrans
    <3> QED
      BY <1>4, <3>1 DEF Grows
  <2> QED
    BY <1>1, <1>3, <1>4, <1>5, <1>8, <1>9, <1>10, <2>1, <2>2 DEF Owned, Balanced, Grows
<1>12. Leaves(n, i, d)
  <2>1. c.sd \in Handles
    BY <1>1, FieldTypes
  <2>2. /\ sock' \in [Socks -> SockTypes]
        /\ \A t \in Socks : t # c.sd => sock'[t] = sock[t]
        /\ c.sd \in Socks => Left(sock[c.sd], sock'[c.sd], n)
    BY <1>3, <2>1, CloseLeft
  <2>3. SameWait(conn[n][i], d)
    BY <1>1, <1>4 DEF SameWait
  <2> QED
    BY <1>1, <1>3, <1>4, <2>2, <2>3 DEF Leaves
<1> QED
  BY <1>3, <1>11, <1>12, LeaveAll

\* A spare connection that stops.
LEMMA StandbyFields ==
    ASSUME NEW max, NEW d, d = [FreeConn EXCEPT !.state = "STANDBY"]
    PROVE  d \in ConnTypes(max) /\ d.sd = None /\ d.replacing_sd = None /\ Spare(d)
<1>1. FreeConn \in ConnTypes(max) /\ "STANDBY" \in States
  BY FreeRecord, FieldValues
<1>2. d \in ConnTypes(max)
  BY <1>1, OneField, Zenon
<1> QED
  BY <1>2 DEF FreeConn, Spare, Undisturbed, Flag

\* A connection that does not exist holds nothing.
LEMMA FreeSpareConn == Spare(FreeConn)
  BY DEF FreeConn, Spare, Undisturbed, Flag

\* fault of a connection that is not registered.
LEMMA SFaultSpare ==
    ASSUME Core, Rest, SInv, NEW n \in Node, NEW i \in Slots, conns[n] # i, NEW sk, NEW c,
           c = conn[n][i], Near(sk, n, c), fault(n, i, c, sk)
    PROVE  SInv'
<1>1. Spare(c) /\ c.sd \in Handles
  BY Before DEF SInv, Spares
<1>2. \E d \in ConnTypes(MaxMsgs[n]) :
         /\ conn' = Updated(conn, n, i, d) /\ d.sd = None /\ d.replacing_sd = None /\ Spare(d)
         /\ sock' = Close(sk, c.sd, n) /\ conns' = conns /\ submitted' = submitted /\ Recorded
  <2>1. CASE _stop(n, i, c, sk)
    <3>1. /\ FreeConn \in ConnTypes(MaxMsgs[n]) /\ FreeConn.sd = None
          /\ FreeConn.replacing_sd = None /\ Spare(FreeConn)
      BY FreeRecord, FreeSpareConn
    <3>2. conn' = Updated(conn, n, i, FreeConn)
      BY <2>1 DEF _stop, Updated
    <3>3. sock' = Close(sk, c.sd, n)
      BY <1>1, <2>1 DEF _stop, Close, Spare
    <3>4. conns' = conns /\ submitted' = submitted /\ got' = got /\ ever' = ever
      BY <2>1 DEF _stop, Rest
    <3>5. dropped' = dropped
      <4>1. dropped = [p \in Node |-> {}]
        BY DEF SInv, Past
      <4>2. c.sent = <<>> /\ c.out_q = <<>>
        BY <1>1 DEF Spare
      <4>3. Ids(<<>>) = {}
        BY DEF Ids
      <4>4. dropped' = [dropped EXCEPT ![n] =
                          IF Flag(c, "queue_reset") \/ Flag(c, "stopping")
                          THEN @ \cup Ids(c.sent) \cup Ids(c.out_q) ELSE @]
        BY <2>1 DEF _stop
      <4>5. dropped' = [dropped EXCEPT ![n] = @]
        BY <4>2, <4>3, <4>4
      <4> QED
        BY <4>1, <4>5
    <3> HIDE DEF FreeConn
    <3> QED
      BY <3>1, <3>2, <3>3, <3>4, <3>5 DEF Recorded
  <2>2. CASE ~(Flag(c, "lossy") /\ c.state \notin ConnectingStates)
    <3>1. PICK d : d = [FreeConn EXCEPT !.state = "STANDBY"]
      OBVIOUS
    <3>2. d \in ConnTypes(MaxMsgs[n]) /\ d.sd = None /\ d.replacing_sd = None /\ Spare(d)
      BY <3>1, StandbyFields
    <3>3. /\ conn' = Updated(conn, n, i, d) /\ sock' = Close(sk, c.sd, n)
          /\ conns' = conns /\ submitted' = submitted /\ Recorded
      BY <2>2, <3>1 DEF fault, Updated, history, IsRegistered, Recorded
    <3> QED
      BY <3>2, <3>3
  <2> QED
    BY <2>1, <2>2 DEF fault
<1>3. PICK d \in ConnTypes(MaxMsgs[n]) :
         /\ conn' = Updated(conn, n, i, d) /\ d.sd = None /\ d.replacing_sd = None /\ Spare(d)
         /\ sock' = Close(sk, c.sd, n) /\ conns' = conns /\ submitted' = submitted /\ Recorded
  BY <1>2
<1>4. Owned(n, i, d)
  BY <1>3 DEF Owned
<1>5. Leaves(n, i, d)
  <2>1. /\ sock' \in [Socks -> SockTypes]
        /\ \A t \in Socks : t # c.sd => sock'[t] = sock[t]
        /\ c.sd \in Socks => Left(sock[c.sd], sock'[c.sd], n)
    BY <1>1, <1>3, CloseLeft
  <2> QED
    BY <1>3, <2>1 DEF Leaves
<1> QED
  BY <1>3, <1>4, <1>5, LeaveAll

\* A registered connection with a socket.
LEMMA FaultingMine ==
    ASSUME Core, Rest, SInv, NEW n \in Node, NEW i \in Slots, conns[n] = i, conn[n][i].sd # None
    PROVE  Faulting(n, i, conn[n][i])
<1>1. PICK c : c = conn[n][i]
  OBVIOUS
<1>2. /\ Status(c) /\ c \in ConnTypes(MaxMsgs[n]) /\ ConnOK(c)
      /\ Books(c.out_seq, c.sent, c.out_q, submitted[n], In(Peer(n)))
  BY <1>1, MineIs
<1>3. c.state \in Linked /\ Numbered(c)
  BY <1>1, <1>2 DEF ConnOK, Local
<1>4. Grows(c, c)
  BY HigherSelf DEF Grows
<1> QED
  BY <1>1, <1>2, <1>3, <1>4 DEF Faulting, Status, Balanced

\* A connection that takes over the socket s.
LEMMA TakenFields ==
    ASSUME NEW max, NEW c \in ConnTypes(max), Numbered(c), c.replacing_sd # None, NEW q,
           q = requeue_sent(c), NEW s, s = c.replacing_sd, NEW d, d = TakenOver(c, s)
    PROVE  /\ d \in ConnTypes(max) /\ d.sd = s /\ d.replacing_sd = None
           /\ d.state = "ACCEPTING_WAIT_CONNECT_MSG" /\ d.replacing = 2
           /\ d.flags = q.flags \ {"replacing_reset_session"} /\ d.in_seq = q.in_seq
           /\ d.out_seq = q.out_seq /\ d.sent = q.sent /\ d.out_q = q.out_q
           /\ d.connect_seq = q.connect_seq
<1>1. q \in ConnTypes(max)
  BY RequeueRecord
<1>2. /\ d \in ConnTypes(max) /\ d.sd = s
      /\ d.replacing_sd = None /\ d.state = "ACCEPTING_WAIT_CONNECT_MSG"
  BY ReplacedRecord
<1>3. PICK y : y = [q EXCEPT !.sd = s, !.replacing_sd = None,
                             !.replacing = 2, !.replacing_cseq = 0,
                             !.global_seq = 0, !.reply = NoReply,
                             !.state = "ACCEPTING_WAIT_CONNECT_MSG"]
  OBVIOUS
<1>4. /\ y.replacing = 2 /\ y.sent = q.sent /\ y.in_seq = q.in_seq
      /\ y.connect_seq = q.connect_seq
      /\ y.out_q = q.out_q /\ y.out_seq = q.out_seq /\ y.flags = q.flags
      /\ DOMAIN y = DOMAIN q
  BY <1>1, <1>3 DEF ConnTypes
<1>5. d = [y EXCEPT !.flags = q.flags \ {"replacing_reset_session"}]
  BY <1>3, <1>4 DEF SetFlag, TakenOver
<1>6. {"connect_seq", "in_seq", "out_seq", "out_q", "sent", "replacing", "flags"}
         \subseteq DOMAIN y
  BY <1>1, <1>4 DEF ConnTypes
<1>7. /\ d.replacing = y.replacing /\ d.sent = y.sent /\ d.in_seq = y.in_seq
      /\ d.connect_seq = y.connect_seq
      /\ d.out_q = y.out_q /\ d.out_seq = y.out_seq
      /\ d.flags = q.flags \ {"replacing_reset_session"}
  BY <1>5, <1>6
<1> QED
  BY <1>2, <1>4, <1>7

\* The sockets when connection i of n takes over the socket s.
TakesSocks(n, i, s, r) ==
    /\ sock' \in [Socks -> SockTypes]
    /\ \A t \in Socks \ {s} : t # conn[n][i].sd => sock'[t] = sock[t]
    /\ conn[n][i].sd \in Socks => Left(sock[conn[n][i].sd], sock'[conn[n][i].sd], n)
    /\ sock'[s].q[n] = sock[s].q[n] /\ Given(sock[s].q[Peer(n)], sock'[s].q[Peer(n)], r)

\* Connection i of n, now in the condition c, is to take over a socket.
Replacing(n, i, c) ==
    /\ conn[n][i].replacing = 1 /\ c.replacing = 1
    /\ c \in ConnTypes(MaxMsgs[n]) /\ Numbered(c)
    /\ c.sd = conn[n][i].sd /\ c.replacing_sd = conn[n][i].replacing_sd
    /\ c.in_seq = conn[n][i].in_seq /\ c.connect_seq = conn[n][i].connect_seq
    /\ c.flags = conn[n][i].flags /\ (Fresh(conn[n][i]) => Fresh(c))
    /\ Balanced(c, submitted[n], In(Peer(n))) /\ Grows(conn[n][i], c)

\* ... as it is.
LEMMA ReplacingHere ==
    ASSUME Core, Rest, SInv, NEW n \in Node, NEW i \in Slots, conn[n][i].replacing = 1
    PROVE  Replacing(n, i, conn[n][i])
<1>1. PICK c : c = conn[n][i]
  OBVIOUS
<1>2. conns[n] = i
  BY IsMine
<1>3. /\ c \in ConnTypes(MaxMsgs[n]) /\ ConnOK(c)
      /\ Books(c.out_seq, c.sent, c.out_q, submitted[n], In(Peer(n)))
  BY <1>1, <1>2, MineIs
<1>4. Grows(c, c) /\ Numbered(c)
  BY <1>3, HigherSelf DEF Grows, ConnOK
<1> QED
  BY <1>1, <1>3, <1>4 DEF Replacing, Balanced

\* What do_replace does to a connection of an undisturbed session.
LEMMA ReplaceIs ==
    ASSUME Core, Rest, SInv, NEW n \in Node, NEW i \in Slots, NEW c, Replacing(n, i, c), NEW sk,
           Near(sk, n, c), do_replace(n, i, c, sk), NEW s, s = c.replacing_sd
    PROVE  /\ conns[n] = i /\ s \in Socks /\ c.sd # s
           /\ conn' = Updated(conn, n, i, TakenOver(c, s))
           /\ conns' = conns /\ submitted' = submitted /\ Recorded
           /\ \E r \in Items : /\ TakesSocks(n, i, s, r) /\ r.kind = "reply"
                               /\ r.tag = "RETRY_SESSION" /\ r.lossy = "no"
<1>1. /\ c.sd = conn[n][i].sd /\ s = conn[n][i].replacing_sd /\ c.flags = conn[n][i].flags
      /\ c \in ConnTypes(MaxMsgs[n]) /\ conn[n][i].replacing = 1
  BY DEF Replacing
<1>2. /\ ConnOK(conn[n][i]) /\ c.sd \in Handles /\ s \in Handles
      /\ \A t \in Socks : SockOK(conn, sock[t], t)
  BY <1>1, Before
<1>3. s \in Socks /\ s # None
  BY <1>1, <1>2 DEF ConnOK, Local, Handles
<1>4. c.sd # s
  BY <1>1, <1>2, <1>3, OnlyUser DEF Uses
<1>5. conns[n] = i
  BY <1>1, IsMine
<1>6. ~Flag(c, "replacing_reset_session")
  BY <1>1, <1>5, MineIs DEF Status, Undisturbed, Flag
<1>7. conn' = Updated(conn, n, i, TakenOver(c, s))
  <2>1. \E d \in {c} : conn' = Updated(conn, n, i, TakenOver(d, s))
    BY <1>1, <1>6, Zenon DEF do_replace, Updated, TakenOver
  <2> QED
    BY <2>1, Zenon
<1>8. conns' = conns /\ submitted' = submitted /\ Recorded
  BY <1>1, <1>6 DEF do_replace, history, Recorded
<1>9. PICK r : r = Reply("RETRY_SESSION", c.replacing_cseq + 1, 0, 0, "no")
  OBVIOUS
<1>10. r \in Items /\ r.kind = "reply" /\ r.tag = "RETRY_SESSION" /\ r.lossy = "no"
  <2>1. c.replacing_cseq + 1 \in Nat /\ 0 \in Nat
        /\ "RETRY_SESSION" \in Tags /\ "no" \in {"yes", "no"}
    BY <1>1, FieldTypes DEF Tags
  <2> QED
    BY <1>9, <2>1, ReplyFields
<1>11. PICK S1 : S1 = Close(sk, c.sd, n)
  OBVIOUS
<1>12. /\ S1 \in [Socks -> SockTypes]
       /\ \A t \in Socks : t # c.sd => S1[t] = sock[t]
       /\ c.sd \in Socks => Left(sock[c.sd], S1[c.sd], n)
  BY <1>1, <1>2, <1>11, CloseLeft
<1>13. sock' = Put(S1, s, Peer(n), r)
  BY <1>1, <1>9, <1>11 DEF do_replace
<1>14. /\ Exchange(S1, sock', s) /\ sock'[s].q[n] = S1[s].q[n]
       /\ Given(S1[s].q[Peer(n)], sock'[s].q[Peer(n)], r)
  BY <1>3, <1>10, <1>12, <1>13, WriteSock
<1>15. TakesSocks(n, i, s, r)
  <2>1. S1[s] = sock[s] /\ sock' \in [Socks -> SockTypes]
        /\ \A t \in Socks \ {s} : sock'[t] = S1[t]
    BY <1>3, <1>4, <1>12, <1>14 DEF Exchange
  <2>2. \A t \in Socks \ {s} : t # conn[n][i].sd => sock'[t] = sock[t]
    BY <1>1, <1>12, <2>1
  <2>3. conn[n][i].sd \in Socks => Left(sock[conn[n][i].sd], sock'[conn[n][i].sd], n)
    <3>1. ASSUME c.sd \in Socks PROVE sock'[c.sd] = S1[c.sd]
      BY <1>4, <2>1, <3>1
    <3>2. c.sd \in Socks => Left(sock[c.sd], sock'[c.sd], n)
      BY <1>12, <3>1
    <3> QED
      BY <1>1, <3>2
  <2>4. sock'[s].q[n] = sock[s].q[n] /\ Given(sock[s].q[Peer(n)], sock'[s].q[Peer(n)], r)
    BY <1>14, <2>1
  <2> QED
    BY <2>1, <2>2, <2>3, <2>4 DEF TakesSocks
<1> QED
  BY <1>1, <1>3, <1>4, <1>5, <1>7, <1>8, <1>10, <1>15

\* do_replace.
LEMMA SReplace ==
    ASSUME Core, Rest, SInv, NEW n \in Node, NEW i \in Slots, NEW c, Replacing(n, i, c), NEW sk,
           Near(sk, n, c), do_replace(n, i, c, sk)
    PROVE  SInv'
<1>0. PICK b, s : b = conn[n][i] /\ s = c.replacing_sd
  OBVIOUS
<1>1. /\ c \in ConnTypes(MaxMsgs[n]) /\ Numbered(c) /\ c.sd = b.sd /\ b.replacing_sd = s
      /\ c.in_seq = b.in_seq /\ c.connect_seq = b.connect_seq /\ c.flags = b.flags
      /\ (Fresh(b) => Fresh(c)) /\ Balanced(c, submitted[n], In(Peer(n))) /\ Grows(b, c)
      /\ b.replacing = 1
  BY <1>0 DEF Replacing
<1>2. /\ conns[n] = i /\ s \in Socks /\ c.sd # s
      /\ conn' = Updated(conn, n, i, TakenOver(c, s))
      /\ conns' = conns /\ submitted' = submitted /\ Recorded
      /\ \E r \in Items : /\ TakesSocks(n, i, s, r) /\ r.kind = "reply"
                          /\ r.tag = "RETRY_SESSION" /\ r.lossy = "no"
  BY <1>0, ReplaceIs
<1>3. PICK r \in Items : /\ TakesSocks(n, i, s, r) /\ r.kind = "reply"
                         /\ r.tag = "RETRY_SESSION" /\ r.lossy = "no"
  BY <1>2
<1>4. PICK d, q : d = TakenOver(c, s) /\ q = requeue_sent(c)
  OBVIOUS
<1>5. /\ ~Flag(c, "lossy") /\ Undisturbed(c) /\ (c.connect_seq = 0 => Fresh(c))
      /\ In(n) = c.in_seq /\ In(Peer(n)) \in Nat
      /\ c.connect_seq > 0 => conns[Peer(n)] # None
  <2>1. /\ Status(b) /\ In(n) = b.in_seq /\ In(Peer(n)) \in Nat
        /\ b.connect_seq > 0 => conns[Peer(n)] # None
    BY <1>0, <1>2, MineIs
  <2> QED
    BY <1>1, <2>1 DEF Status, Undisturbed, Flag
<1>6. /\ d \in ConnTypes(MaxMsgs[n]) /\ d.sd = s /\ d.replacing_sd = None
      /\ d.state = "ACCEPTING_WAIT_CONNECT_MSG" /\ d.replacing = 2
      /\ d.flags = q.flags \ {"replacing_reset_session"} /\ d.in_seq = q.in_seq
      /\ d.out_seq = q.out_seq /\ d.sent = q.sent /\ d.out_q = q.out_q
      /\ d.connect_seq = q.connect_seq
  <2>1. Numbered(c) /\ c.replacing_sd # None
    BY <1>0, <1>1, <1>2, SocketsPositive
  <2> QED
    BY <1>0, <1>1, <1>4, <2>1, TakenFields
<1>7. Balanced(q, submitted[n], In(Peer(n))) /\ Grows(c, q) /\ SameButQueues(c, q)
  <2>1. PICK max, sub, inp : max = MaxMsgs[n] /\ sub = submitted[n] /\ inp = In(Peer(n))
    OBVIOUS
  <2>2. c \in ConnTypes(max) /\ inp \in Nat /\ Balanced(c, sub, inp) /\ Numbered(c)
    BY <1>1, <1>5, <2>1
  <2>3. Balanced(q, sub, inp) /\ Grows(c, q) /\ SameButQueues(c, q)
    BY <1>4, <2>2, RequeueBooks
  <2> QED
    BY <2>1, <2>3
<1>8. /\ q.in_seq = c.in_seq /\ (Fresh(c) => Fresh(q)) /\ q.connect_seq = c.connect_seq
      /\ q.flags = c.flags
  BY <1>7 DEF SameButQueues
<1>9. Status(d)
  <2>1. Fresh(q) => Fresh(d)
    BY <1>6 DEF Fresh
  <2> QED
    BY <1>5, <1>6, <1>8, <2>1 DEF Status, Undisturbed, Flag
<1>10. Owned(n, i, d)
  <2>1. Balanced(d, submitted[n], In(Peer(n))) /\ Grows(conn[n][i], d)
    BY <1>0, <1>1, <1>6, <1>7 DEF Balanced, Grows, Higher
  <2> QED
    BY <1>2, <1>5, <1>6, <1>8, <1>9, <2>1 DEF Owned, Balanced, Grows
<1>11. /\ conn'[n][i] = d /\ conn'[Peer(n)] = conn[Peer(n)]
       /\ \A j \in Slots \ {i} : conn'[n][j] = conn[n][j]
  <2>1. conn' = Updated(conn, n, i, d)
    BY <1>2, <1>4
  <2> QED
    BY <1>6, <2>1, Update DEF Core
<1>12. MovesOne(n, i, d)
  BY <1>11 DEF MovesOne
<1>13. /\ Regs' /\ Spares' /\ Past'
       /\ \A p \in Node, m \in Items : Fine(p, m, conn, conns) => Fine(p, m, conn', conns')
  BY <1>2, <1>10, <1>12, Kept DEF Recorded
<1>14. Fine(Peer(n), r, conn', conns')
  <2>1. conns'[n] # None
    BY <1>2, SocketsPositive
  <2> QED
    BY <1>3, <2>1, FineRefusal
<1>15. sock \in [Socks -> SockTypes] /\ \A t \in Socks : SockOK(conn, sock[t], t)
  BY DEF Core, AllSocks
<1>16. /\ sock' \in [Socks -> SockTypes]
       /\ \A t \in Socks \ {s} : t # c.sd => sock'[t] = sock[t]
       /\ c.sd \in Socks => Left(sock[c.sd], sock'[c.sd], n)
       /\ sock'[s].q[n] = sock[s].q[n] /\ Given(sock[s].q[Peer(n)], sock'[s].q[Peer(n)], r)
  BY <1>0, <1>1, <1>3 DEF TakesSocks
<1>17. ASSUME NEW t \in Socks PROVE Passes(sock[t], sock'[t], n, r)
  <2>1. CASE t = s
    BY <1>16, <2>1 DEF Passes
  <2>2. CASE t # s /\ t # c.sd
    BY <1>15, <1>16, <2>2, PassesSame
  <2>3. CASE t # s /\ t = c.sd
    <3>1. PICK x, y : x = sock[t] /\ y = sock'[t]
      OBVIOUS
    <3>2. Left(x, y, n)
      BY <1>16, <2>3, <3>1
    <3>3. Len(x.q[Peer(n)]) \in Nat
      <4>1. x \in SockTypes /\ Peer(n) \in Node
        BY <1>15, <3>1, Peers
      <4>2. x.q[Peer(n)] \in Seq(Items)
        BY <4>1 DEF SockTypes
      <4> HIDE DEF Items
      <4> QED
        BY <4>2
    <3>4. Passes(x, y, n, r)
      BY <3>2, <3>3 DEF Left, Passes, Given
    <3> QED
      BY <3>1, <3>4
  <2> QED
    BY <2>1, <2>2, <2>3
<1>18. Told'
  BY <1>13, <1>14, <1>16, <1>17, ItemsKept DEF SInv
<1>19. ASSUME NEW t \in Socks PROVE FlowOK(conn', sock'[t], t)
  <2>1. FlowOK(conn, sock[t], t)
    BY DEF SInv, Flows
  <2>2. CASE t # s /\ t # c.sd
    <3>1. Apart(b, d, t)
      BY <1>1, <1>6, <2>2, SocketsPositive DEF Apart
    <3>2. \A j \in Slots : Apart(conn[n][j], conn'[n][j], t)
      BY <1>0, <1>11, <3>1, ApartSelf
    <3>3. sock'[t] = sock[t]
      BY <1>16, <2>2
    <3> QED
      BY <1>11, <2>1, <3>2, <3>3, SockApart
  <2>3. CASE t # s /\ t = c.sd
    <3>1. Uses(conn[n][i], t)
      BY <1>0, <1>1, <2>3 DEF Uses
    <3>2. \A j \in Slots \ {i} : ~Uses(conn[n][j], t)
      BY <1>15, <3>1, OnlyUser
    <3>3. ~Uses(d, t)
      BY <1>6, <2>3, SocketsPositive DEF Uses
    <3>4. \A j \in Slots : ~Uses(conn'[n][j], t)
      BY <1>11, <3>2, <3>3
    <3>5. sock'[t].q[Peer(n)] = sock[t].q[Peer(n)] \/ Len(sock'[t].q[Peer(n)]) = 0
      BY <1>16, <2>3 DEF Left
    <3> QED
      BY <1>11, <2>1, <3>4, <3>5, SockLeft
  <2>4. CASE t = s
    <3>1. PICK x, y : x = sock[s] /\ y = sock'[s]
      OBVIOUS
    <3>2. FlowOK(conn, x, s) /\ SockOK(conn, x, s) /\ conn[n][i].replacing_sd = s
          /\ y.q[n] = x.q[n] /\ Given(x.q[Peer(n)], y.q[Peer(n)], r)
      BY <1>0, <1>1, <1>2, <1>15, <1>16, <2>1, <2>4, <3>1
    <3>3. Uses(conn[n][i], s)
      BY <3>2 DEF Uses
    <3>4. \A j \in Slots \ {i} : ~Uses(conn'[n][j], s)
      BY <1>11, <3>2, <3>3, OnlyUser
    <3>5. Len(y.q[n]) = 0
      BY <3>2 DEF FlowOK
    <3>6. EndOK(d, y.q[n])
      BY <3>5, EndEmpty
    <3>7. ASSUME NEW l \in Slots
          PROVE  /\ conn[Peer(n)][l].replacing_sd # s
                 /\ conn[Peer(n)][l].sd = s =>
                       Sides(d, conn[Peer(n)][l], y.q[n], y.q[Peer(n)], y.live)
      <4>1. PICK z : z = conn[Peer(n)][l]
        OBVIOUS
      <4>2. /\ z.replacing_sd # s
            /\ z.sd = s => Handed(z, b, x.q[Peer(n)], x.q[n])
        BY <1>0, <3>2, <4>1, OtherEnd
      <4>3. z.sd = s => Waits(b, z)
        BY <1>0, <3>2, <4>1 DEF FlowOK
      <4>4. ASSUME z.sd = s PROVE Sides(d, z, y.q[n], y.q[Peer(n)], y.live)
        <5>1. z.state = "CONNECTING_WAIT_CONNECT_REPLY" /\ Len(x.q[Peer(n)]) = 0
          BY <4>2, <4>4 DEF Handed
        <5>2. Flag(d, "is_reset_from_peer") => Fresh(z)
          BY <1>1, <1>6, <1>8, <4>3, <4>4 DEF Waits, Flag
        <5> QED
          BY <1>3, <1>6, <3>2, <3>5, <5>1, <5>2, SidesTake
      <4> QED
        BY <4>1, <4>2, <4>4
    <3>8. ServedRight(conn, conn', n, i, s, y)
      <4>1. d.replacing_sd # s
        BY <1>2, <1>6, SocketsPositive
      <4> QED
        BY <1>6, <1>11, <3>4, <3>6, <3>7, <4>1 DEF ServedRight
    <3> QED
      BY <2>4, <3>1, <3>8, SockServed
  <2> QED
    BY <2>2, <2>3, <2>4
<1> QED
  BY <1>13, <1>18, <1>19 DEF SInv, Flows

\* do_replace on its own event, and where the connection fails before it comes.
LEMMA SHandleReplace ==
    ASSUME Core, Rest, SInv, NEW n \in Node, NEW i \in Slots, handle_replace(n, i)
    PROVE  SInv'
<1>1. conn[n][i].replacing = 1 /\ do_replace(n, i, conn[n][i], sock)
  BY DEF handle_replace
<1> QED
  BY <1>1, NearSame, ReplacingHere, SReplace

\* A connection fails: fault(), or the replacement that waited for it.
LEMMA SFail ==
    ASSUME Core, Rest, SInv, NEW n \in Node, NEW i \in Slots, conn[n][i].sd # None, NEW sk,
           Near(sk, n, conn[n][i]), fail(n, i, conn[n][i], sk)
    PROVE  SInv'
<1>1. CASE conn[n][i].replacing = 1 /\ do_replace(n, i, conn[n][i], sk)
  BY <1>1, ReplacingHere, SReplace
<1>2. CASE fault(n, i, conn[n][i], sk) /\ conns[n] = i
  <2>1. Faulting(n, i, conn[n][i])
    BY <1>2, FaultingMine
  <2> QED
    BY <1>2, <2>1, SFaultMine
<1>3. CASE fault(n, i, conn[n][i], sk) /\ conns[n] # i
  BY <1>3, SFaultSpare
<1> QED
  BY <1>1, <1>2, <1>3 DEF fail

\* The socket breaks under a connection.
LEMMA SSocketError ==
    ASSUME Core, Rest, SInv, NEW n \in Node, NEW i \in Slots, SocketError(n, i)
    PROVE  SInv'
<1>1. /\ conn[n][i].sd # None
      /\ \/ fail(n, i, conn[n][i], sock)
         \/ conn[n][i].replacing = 1 /\ Flag(conn[n][i], "lossy")
  BY DEF SocketError
<1>2. ASSUME conn[n][i].replacing = 1 PROVE ~Flag(conn[n][i], "lossy")
  <2>1. conns[n] = i
    BY <1>2, IsMine
  <2>2. Status(conn[n][i])
    BY <2>1, MineIs
  <2> QED
    BY <2>2 DEF Status
<1> QED
  BY <1>1, <1>2, NearSame, SFail

\* The peer says WAIT.
LEMMA SWait ==
    ASSUME Core, Rest, SInv, NEW n \in Node, NEW i \in Slots, reply_WAIT(n, i)
    PROVE  SInv'
<1>1. /\ fail(n, i, conn[n][i], Popped(n, i))
      /\ conn[n][i].sd # None /\ sock[conn[n][i].sd].q[n] # <<>>
  BY DEF reply_WAIT, HasReply, Reads
<1>2. Near(Popped(n, i), n, conn[n][i])
  BY <1>1, NearPopped
<1> QED
  BY <1>1, <1>2, SFail

\* The peer answers SEQ with its in_seq: the connection opens, or fails on the way.
LEMMA SSeq ==
    ASSUME Core, Rest, SInv, NEW n \in Node, NEW i \in Slots, reply_SEQ(n, i)
    PROVE  SInv'
<1>1. PICK c, r, s : c = conn[n][i] /\ r = Item(n, i) /\ s = c.sd
  OBVIOUS
<1>2. PICK x : x = discard_requeued_up_to(c, r.seq)
  OBVIOUS
<1>3. HasReply(n, i, "SEQ")
  BY DEF reply_SEQ
<1>4. CASE /\ conn' = [conn EXCEPT ![n][i] = Opened(x, r)]
           /\ sock' = Put(Popped(n, i), x.sd, Peer(n), [kind |-> "seq", seq |-> x.in_seq])
           /\ conns' = conns /\ submitted' = submitted /\ Recorded
  <2>1. PICK d, item : d = Opened(x, r) /\ item = [kind |-> "seq", seq |-> x.in_seq]
    OBVIOUS
  <2>2. conn' = Updated(conn, n, i, d) /\ sock' = Put(Popped(n, i), x.sd, Peer(n), item)
    BY <1>4, <2>1 DEF Updated
  <2> QED
    BY <1>1, <1>2, <1>3, <1>4, <2>1, <2>2, SSeqOpen
<1>5. CASE fail(n, i, x, Popped(n, i))
  <2>1. /\ s \in Socks /\ sock[s].q[n] # <<>> /\ c.state = "CONNECTING_WAIT_CONNECT_REPLY"
        /\ r \in ReplyTypes /\ r.seq <= In(Peer(n)) /\ conns[n] = i
    BY <1>1, <1>3, ReplyRead
  <2>2. /\ Status(c) /\ c \in ConnTypes(MaxMsgs[n]) /\ ConnOK(c) /\ In(Peer(n)) \in Nat
        /\ Books(c.out_seq, c.sent, c.out_q, submitted[n], In(Peer(n)))
    BY <1>1, <2>1, MineIs
  <2>3. /\ Balanced(x, submitted[n], In(Peer(n))) /\ Grows(c, x) /\ SameButQueues(c, x)
        /\ x \in ConnTypes(MaxMsgs[n]) /\ ConnOK(x)
    <3>1. PICK max, sub, inp : max = MaxMsgs[n] /\ sub = submitted[n] /\ inp = In(Peer(n))
      OBVIOUS
    <3>2. /\ c \in ConnTypes(max) /\ inp \in Nat /\ Balanced(c, sub, inp)
          /\ r.seq <= inp /\ r.seq \in Nat /\ c.state # "OPEN"
      BY <2>1, <2>2, <3>1 DEF Balanced, ReplyTypes
    <3>3. /\ Balanced(x, sub, inp) /\ Grows(c, x) /\ SameButQueues(c, x)
          /\ x \in ConnTypes(max) /\ ConnOK(x)
      BY <1>2, <2>2, <3>2, DiscardBooks
    <3> QED
      BY <3>1, <3>3
  <2>4. Faulting(n, i, x)
    <3>1. /\ x.state = "CONNECTING_WAIT_CONNECT_REPLY" /\ x.flags = c.flags /\ x.sd = c.sd
          /\ x.replacing_sd = c.replacing_sd /\ x.in_seq = c.in_seq
          /\ x.connect_seq = c.connect_seq /\ (Fresh(c) => Fresh(x))
      BY <2>1, <2>3 DEF SameButQueues
    <3>2. ~Flag(x, "lossy") /\ Undisturbed(x) /\ (x.connect_seq = 0 => Fresh(x))
      BY <2>2, <3>1 DEF Status, Undisturbed, Flag
    <3>3. Numbered(x) /\ x.state \in Linked
      BY <2>3, <3>1 DEF ConnOK, Linked
    <3> QED
      BY <1>1, <2>1, <2>3, <3>1, <3>2, <3>3 DEF Faulting
  <2>5. Near(Popped(n, i), n, c)
    BY <1>1, <2>1, SocketsPositive, NearPopped
  <2>6. Near(Popped(n, i), n, x)
    BY <2>3, <2>5 DEF Near, SameButQueues
  <2>7. CASE fault(n, i, x, Popped(n, i))
    BY <2>4, <2>6, <2>7, SFaultMine
  <2>8. CASE x.replacing = 1 /\ do_replace(n, i, x, Popped(n, i))
    <3>1. Numbered(x)
      BY <2>3 DEF ConnOK
    <3>2. Replacing(n, i, x)
      BY <1>1, <2>3, <2>8, <3>1 DEF Replacing, SameButQueues
    <3> QED
      BY <2>6, <2>8, <3>2, SReplace
  <2> QED
    BY <1>5, <2>7, <2>8 DEF fail
<1> QED
  BY <1>1, <1>2, <1>4, <1>5 DEF reply_SEQ, history, Recorded

\* The acceptor writes its reply, or fails on the way.
LEMMA SAcceptReply ==
    ASSUME Core, Rest, SInv, NEW n \in Node, NEW i \in Slots, accept_reply(n, i)
    PROVE  SInv'
<1>1. PICK c, s, r : c = conn[n][i] /\ s = c.sd /\ r = c.reply
  OBVIOUS
<1>0. PICK told \in Announces(c) :
         \/ /\ conn' = [conn EXCEPT ![n][i] =
                   [Replied(c, told) EXCEPT !.state = IF r.tag = "SEQ" THEN "ACCEPTING_WAIT_SEQ"
                                                                      ELSE "OPEN"]]
            /\ sock' = Put(sock, Replied(c, told).sd, Peer(n), r)
            /\ UNCHANGED <<conns, history>>
         \/ fault(n, i, Replied(c, told), sock)
  BY <1>1, Zenon DEF accept_reply
<1>2. PICK x : x = Replied(c, told)
  OBVIOUS
<1>3. PICK st : st = IF r.tag = "SEQ" THEN "ACCEPTING_WAIT_SEQ" ELSE "OPEN"
  OBVIOUS
<1>4. c.state = "ACCEPTING_REPLY"
  BY <1>1 DEF accept_reply
<1>5. conns[n] = i
  BY <1>1, <1>4, IsMine
<1>6. /\ Status(c) /\ c \in ConnTypes(MaxMsgs[n]) /\ ConnOK(c)
      /\ Books(c.out_seq, c.sent, c.out_q, submitted[n], In(Peer(n)))
  BY <1>1, <1>5, MineIs
<1>7. /\ x \in ConnTypes(MaxMsgs[n]) /\ x.replacing = 0
      /\ x.state = c.state /\ x.sd = c.sd /\ x.connect_seq = c.connect_seq
      /\ x.out_seq = c.out_seq /\ x.sent = c.sent /\ x.out_q = c.out_q
      /\ x.replacing_sd = c.replacing_sd
      /\ Flag(x, "lossy") <=> Flag(c, "lossy")
      /\ Undisturbed(x) <=> Undisturbed(c)
  BY <1>2, <1>6, RepliedRecord
<1>8. x.in_seq = c.in_seq
  BY <1>2, <1>6, RepliedRecord
<1>9. CASE /\ conn' = [conn EXCEPT ![n][i] = [x EXCEPT !.state =
                            IF r.tag = "SEQ" THEN "ACCEPTING_WAIT_SEQ" ELSE "OPEN"]]
           /\ sock' = Put(sock, x.sd, Peer(n), r)
           /\ UNCHANGED <<conns, history>>
  <2>2. conn' = [conn EXCEPT ![n][i] = [x EXCEPT !.state = st]]
    BY <1>3, <1>9, Zenon
  <2>3. sock' = Put(sock, c.sd, Peer(n), r)
    BY <1>7, <1>9, Zenon
  <2>4. conn' = Updated(conn, n, i, WithState(Replied(c, told), st))
    BY <1>2, <2>2 DEF Updated, WithState
  <2>5. conns' = conns /\ submitted' = submitted /\ Recorded
    BY <1>9 DEF history, Recorded
  <2> QED
    BY <1>1, <1>3, <1>4, <2>3, <2>4, <2>5, SReplySent DEF ReplyGoesOut
<1>10. CASE fault(n, i, x, sock)
  <2>1. Numbered(x) /\ x.state \in Linked
    BY <1>4, <1>6, <1>7 DEF ConnOK, Numbered, Linked
  <2>2. Balanced(x, submitted[n], In(Peer(n))) /\ Grows(c, x)
    BY <1>6, <1>7, HigherSelf DEF Balanced, Grows
  <2>3. ~Flag(x, "lossy") /\ Undisturbed(x) /\ (x.connect_seq = 0 => Fresh(x))
    BY <1>6, <1>7, <1>8 DEF Status, Fresh
  <2>4. Faulting(n, i, x)
    BY <1>1, <1>4, <1>5, <1>7, <1>8, <2>1, <2>2, <2>3 DEF Faulting
  <2> QED
    BY <1>10, <2>4, NearSame, SFaultMine
<1> QED
  BY <1>0, <1>2, <1>9, <1>10, Zenon

\* What Decide answers when neither side is lossy and no one checks resets.
LEMMA DecideSteady ==
    ASSUME NEW n, NEW max, NEW e \in ConnTypes(max), ~Flag(e, "lossy"), ~Policy[n].resetcheck,
           NEW m, m.cseq \in Nat, m.gseq \in Nat, NEW reading, NEW d,
           d = Decide(n, e, m, reading)
    PROVE  /\ d.act = "answer" => d.tag \in {"RETRY_GLOBAL", "RETRY_SESSION", "WAIT"}
           /\ d.act = "replace" =>
                 ~d.reset_session /\ (d.reset_from_peer => m.cseq = 0)
<1>1. \A a, b : /\ Replace(a, b).act = "replace" /\ Replace(a, b).reset_session = a
                /\ Replace(a, b).reset_from_peer = b
  BY DEF Replace
<1>2. \A tag, cseq, gseq : /\ Answer(tag, cseq, gseq).tag = tag
                           /\ Answer(tag, cseq, gseq).act = "answer"
  BY DEF Answer
<1>3. \/ d = Replace(FALSE, FALSE)
      \/ d = Replace(Policy[n].resetcheck, TRUE) /\ m.cseq = 0
      \/ d = Answer("RETRY_GLOBAL", 0, e.peer_global_seq)
      \/ d = Answer("RETRY_SESSION", e.connect_seq + 1, 0)
      \/ d = Answer("WAIT", 0, 0)
  BY Zenon DEF Decide
<1>4. CASE d = Replace(FALSE, FALSE)
  BY <1>1, <1>4
<1>5. CASE d = Replace(Policy[n].resetcheck, TRUE) /\ m.cseq = 0
  <2>1. PICK p : p = Policy[n].resetcheck
    OBVIOUS
  <2>2. d = Replace(p, TRUE) /\ ~p
    BY <1>5, <2>1, Zenon
  <2>3. d.act = "replace" /\ ~d.reset_session
    BY <2>2 DEF Replace
  <2>4. "replace" # "answer"
    OBVIOUS
  <2> QED
    BY <1>5, <2>2, <2>3, <2>4, Zenon
<1>6. CASE \/ d = Answer("RETRY_GLOBAL", 0, e.peer_global_seq)
           \/ d = Answer("RETRY_SESSION", e.connect_seq + 1, 0)
           \/ d = Answer("WAIT", 0, 0)
  BY <1>2, <1>6
<1> QED
  BY <1>3, <1>4, <1>5, <1>6

\* The registered connection e takes note of the socket s.
HandedTo(x, y, s, m, d) ==
    /\ y.replacing = 1 /\ y.replacing_sd = s /\ y.state = x.state /\ y.sd = x.sd
    /\ y.connect_seq = x.connect_seq /\ y.out_seq = x.out_seq /\ y.sent = x.sent
    /\ y.out_q = x.out_q /\ y.reply = x.reply /\ y.in_seq = x.in_seq
    /\ \A f : f \notin {"is_reset_from_peer", "replacing_reset_session"} =>
                 (Flag(y, f) <=> Flag(x, f))
    /\ ~Flag(y, "replacing_reset_session")
    /\ Flag(y, "is_reset_from_peer") => m.cseq = 0

\* accept_replace hands socket and answer of i to e, the connection registered.
LEMMA HandIs ==
    ASSUME Core, Rest, NEW n \in Node, NEW i \in Slots, NEW e \in Slots \ {i},
           NEW s \in Socks, s = conn[n][i].sd, NEW m, m.cseq \in Nat,
           ~(conn[n][e].replacing # 0 \/ Flag(conn[n][e], "stopping")),
           NEW d, ~d.reset_session, d.reset_from_peer => m.cseq = 0,
           accept_replace(n, i, e, m, d)
    PROVE  /\ conn'[Peer(n)] = conn[Peer(n)] /\ conn'[n][i] = FreeConn
           /\ \A j \in Slots \ {i, e} : conn'[n][j] = conn[n][j]
           /\ conn'[n][e] \in ConnTypes(MaxMsgs[n])
           /\ HandedTo(conn[n][e], conn'[n][e], s, m, d)
           /\ sock' = Popped(n, i) /\ conns' = conns /\ submitted' = submitted /\ Recorded
<1>1. PICK x : x = conn[n][e]
  OBVIOUS
<1>2. PICK x1 : x1 = [x EXCEPT !.replacing = 1, !.replacing_sd = s, !.replacing_cseq = m.cseq]
  OBVIOUS
<1>3. PICK F : F = SetFlag(SetFlag(x1, "is_reset_from_peer", d.reset_from_peer),
                           "replacing_reset_session", d.reset_session).flags
  OBVIOUS
<1>4. PICK y : y = WithHanded(x, s, m.cseq, F)
  OBVIOUS
<1>5. PICK K : K = Updated(conn, n, i, FreeConn)
  OBVIOUS
<1>6. x \in ConnTypes(MaxMsgs[n]) /\ x.flags \in SUBSET Flags
  <2>1. x \in ConnTypes(MaxMsgs[n])
    BY <1>1, Before
  <2> QED
    BY <2>1, FieldTypes
<1>7. ConnsTyped(conn, MaxMsgs)
  BY DEF Core
<1>8. FreeConn \in ConnTypes(MaxMsgs[n])
  BY FreeRecord
<1>9. /\ ConnsTyped(K, MaxMsgs) /\ K[n][i] = FreeConn
      /\ \A j \in Slots \ {i} : K[n][j] = conn[n][j]
      /\ K[Peer(n)] = conn[Peer(n)]
  BY <1>5, <1>7, <1>8, Update
<1>10. x1.flags = x.flags
  BY <1>2, <1>6 DEF ConnTypes
<1>11. DOMAIN x1 = DOMAIN x /\ "flags" \in DOMAIN x
  BY <1>2, <1>6 DEF ConnTypes
<1>12. /\ \A f : f \notin {"is_reset_from_peer", "replacing_reset_session"} =>
                   (f \in F <=> f \in x.flags)
       /\ "replacing_reset_session" \notin F
       /\ "is_reset_from_peer" \in F => d.reset_from_peer
  BY <1>3, <1>10, <1>11 DEF SetFlag
<1>13. F \in SUBSET Flags
  BY <1>6, <1>12 DEF Flags
<1>14. SetFlag(SetFlag(x1, "is_reset_from_peer", d.reset_from_peer),
               "replacing_reset_session", d.reset_session) = y
  BY <1>2, <1>3, <1>4, <1>6 DEF SetFlag, ConnTypes, WithHanded
<1>15. /\ conn' = Updated(K, n, e, y) /\ sock' = Popped(n, i) /\ conns' = conns
       /\ submitted' = submitted /\ Recorded
  <2>1. K[n][e] = x
    BY <1>1, <1>9
  <2>2. conn' = Updated(K, n, e, SetFlag(SetFlag([K[n][e] EXCEPT
                            !.replacing = 1, !.replacing_sd = s,
                            !.replacing_cseq = m.cseq],
                            "is_reset_from_peer", d.reset_from_peer),
                            "replacing_reset_session", d.reset_session))
    BY <1>5 DEF accept_replace, Updated
  <2>3. conn' = Updated(K, n, e, y)
    BY <1>2, <1>14, <2>1, <2>2, Zenon
  <2> QED
    BY <2>3 DEF accept_replace, history, Recorded
<1>16. /\ y \in ConnTypes(MaxMsgs[n]) /\ y.replacing = 1 /\ y.replacing_sd = s
       /\ y.replacing_cseq = m.cseq /\ y.state = x.state /\ y.sd = x.sd /\ y.flags = F
       /\ y.connect_seq = x.connect_seq /\ y.out_seq = x.out_seq /\ y.sent = x.sent
       /\ y.out_q = x.out_q /\ y.reply = x.reply /\ y.in_seq = x.in_seq
  <2>1. s \in Handles
    BY DEF Handles
  <2> QED
    BY <1>4, <1>6, <1>13, <2>1, WithHandedRecord
<1>17. /\ conn'[n][e] = y
       /\ \A j \in Slots \ {e} : conn'[n][j] = K[n][j]
       /\ conn'[Peer(n)] = K[Peer(n)]
  BY <1>9, <1>15, <1>16, Update
<1>18. HandedTo(x, y, s, m, d)
  BY <1>12, <1>16 DEF HandedTo, Flag
<1> HIDE DEF FreeConn
<1> QED
  BY <1>1, <1>9, <1>15, <1>16, <1>17, <1>18

\* accept_replace: the attempt is refused, or its socket is handed over.
LEMMA SHand ==
    ASSUME Core, Rest, SInv, NEW n \in Node, NEW i \in Slots, NEW e \in Slots \ {i},
           conns[n] = e, Reads(n, i, "ACCEPTING_WAIT_CONNECT_MSG", "connect"),
           NEW d, ~d.reset_session, d.reset_from_peer => Item(n, i).cseq = 0,
           accept_replace(n, i, e, Item(n, i), d)
    PROVE  SInv'
<1>1. PICK c, s, m : c = conn[n][i] /\ s = c.sd /\ m = Item(n, i)
  OBVIOUS
<1>2. /\ s \in Socks /\ sock \in [Socks -> SockTypes] /\ sock[s].q[n] # <<>>
      /\ Popped(n, i) = Pop(sock, s, n) /\ m.cseq \in Nat /\ Len(sock[s].q[n]) = 1
      /\ \A l \in Slots : conn[Peer(n)][l].sd = s =>
            Attempting(c, conn[Peer(n)][l], m, sock[s].q[n], sock[s].q[Peer(n)], sock[s].live)
  BY <1>1, AttemptRead
<1>3. CASE conn[n][e].replacing # 0 \/ Flag(conn[n][e], "stopping")
  <2>1. PICK r : r = Answer("RETRY_SESSION", m.cseq + 1, 0)
    OBVIOUS
  <2>2. r.tag = "RETRY_SESSION" /\ r.cseq = m.cseq + 1 /\ r.gseq = 0
    BY <2>1 DEF Answer
  <2>3. _reply_accept(n, i, r)
    BY <1>1, <1>3, <2>1 DEF accept_replace
  <2>4. /\ conns[n] # None /\ conns[n] # i /\ r.cseq \in Nat /\ r.gseq \in Nat
        /\ r.tag \in {"RETRY_GLOBAL", "RETRY_SESSION", "WAIT"}
    BY <1>2, <2>2, SocketsPositive
  <2> QED
    BY <2>3, <2>4, SRefuse
<1>4. CASE ~(conn[n][e].replacing # 0 \/ Flag(conn[n][e], "stopping"))
  <2>1. PICK x, y : x = conn[n][e] /\ y = conn'[n][e]
    OBVIOUS
  <2>2. /\ conn'[Peer(n)] = conn[Peer(n)] /\ conn'[n][i] = FreeConn
        /\ \A j \in Slots \ {i, e} : conn'[n][j] = conn[n][j]
        /\ y \in ConnTypes(MaxMsgs[n]) /\ HandedTo(x, y, s, m, d)
        /\ sock' = Popped(n, i) /\ conns' = conns /\ submitted' = submitted /\ Recorded
    BY <1>1, <1>2, <1>4, <2>1, HandIs
  <2>3. /\ FreeConn.sd = None /\ FreeConn.replacing_sd = None /\ Spare(FreeConn)
    BY FreeRecord, FreeSpareConn
  <2>4. /\ Status(x) /\ In(n) = x.in_seq
        /\ Books(x.out_seq, x.sent, x.out_q, submitted[n], In(Peer(n)))
        /\ x.connect_seq > 0 => conns[Peer(n)] # None
    BY <2>1, MineIs
  <2>5. /\ x.replacing = 0 /\ y.replacing = 1 /\ y.replacing_sd = s /\ y.state = x.state
        /\ y.sd = x.sd /\ y.connect_seq = x.connect_seq /\ y.out_seq = x.out_seq
        /\ y.sent = x.sent /\ y.out_q = x.out_q /\ y.reply = x.reply /\ y.in_seq = x.in_seq
        /\ (Flag(y, "lossy") <=> Flag(x, "lossy"))
        /\ (Flag(y, "stopping") <=> Flag(x, "stopping"))
        /\ ~Flag(y, "replacing_reset_session") /\ (Flag(y, "is_reset_from_peer") => m.cseq = 0)
    BY <1>4, <2>1, <2>2 DEF HandedTo
  <2>6. x.state # "ACCEPTING_WAIT_CONNECT_MSG" /\ (Fresh(x) => Fresh(y))
    BY <2>4, <2>5 DEF Status, Fresh
  <2>7. Status(y)
    BY <2>4, <2>5, <2>6 DEF Status, Undisturbed
  <2>8. Owned(n, e, y)
    <3>1. Higher(x.out_seq, x.out_q, y.out_seq, y.out_q)
      BY <2>5, HigherSelf
    <3> QED
      BY <2>1, <2>2, <2>4, <2>5, <2>7, <3>1 DEF Owned
  <2> HIDE DEF FreeConn
  <2>9. MovesOne(n, e, y)
    BY <2>1, <2>2, <2>3 DEF MovesOne
  <2>10. /\ Regs' /\ Spares' /\ Past'
         /\ \A p \in Node, k \in Items : Fine(p, k, conn, conns) => Fine(p, k, conn', conns')
    BY <2>2, <2>8, <2>9, Kept DEF Recorded
  <2>11. /\ Exchange(sock, sock', s) /\ sock'[s].q[Peer(n)] = sock[s].q[Peer(n)]
         /\ Taken(sock[s].q[n], sock'[s].q[n]) /\ Len(sock[s].q[Peer(n)]) \in Nat
    BY <1>2, <2>2, ReadSock
  <2>12. sock' \in [Socks -> SockTypes] /\ \A t \in Socks \ {s} : sock'[t] = sock[t]
    BY <2>11 DEF Exchange
  <2>13. PICK b : b = [kind |-> "banner"]
    OBVIOUS
  <2>14. Fine(Peer(n), b, conn', conns')
    BY <2>13, FineBanner
  <2>15. ASSUME NEW t \in Socks PROVE Passes(sock[t], sock'[t], n, b)
    <3>1. CASE t = s
      <4>1. Given(sock[s].q[Peer(n)], sock'[s].q[Peer(n)], b)
        BY <2>11 DEF Given
      <4> QED
        BY <2>11, <3>1, <4>1 DEF Passes
    <3>2. CASE t # s
      BY <1>2, <2>12, <3>2, PassesSame
    <3> QED
      BY <3>1, <3>2
  <2>16. Told'
    BY <2>10, <2>12, <2>14, <2>15, ItemsKept DEF SInv
  <2>17. \A t \in Socks : SockOK(conn, sock[t], t)
    BY DEF Core, AllSocks
  <2>18. Uses(c, s) /\ \A j \in Slots \ {i} : ~Uses(conn[n][j], s)
    <3>1. Uses(conn[n][i], s)
      BY <1>1 DEF Uses
    <3> QED
      BY <1>1, <1>2, <2>17, <3>1, OnlyUser
  <2>19. ASSUME NEW t \in Socks PROVE FlowOK(conn', sock'[t], t)
    <3>1. FlowOK(conn, sock[t], t)
      BY DEF SInv, Flows
    <3>2. CASE t # s
      <4>1. Apart(x, y, t)
        <5>1. SeemsSame(x, y)
          BY <2>5, <2>6 DEF SeemsSame
        <5> QED
          BY <2>5, <3>2, <5>1 DEF Apart
      <4>2. Apart(conn[n][i], FreeConn, t)
        BY <2>3, SocketsPositive DEF Apart
      <4>3. \A j \in Slots : Apart(conn[n][j], conn'[n][j], t)
        BY <2>1, <2>2, <4>1, <4>2, ApartSelf
      <4> QED
        BY <2>2, <2>12, <3>1, <3>2, <4>3, SockApart
    <3>3. CASE t = s
      <4>1. conn'[n][e].sd # s
        BY <2>1, <2>5, <2>18 DEF Uses
      <4>2. ~Uses(FreeConn, s)
        BY <1>2, <2>3, SocketsPositive DEF Uses
      <4>3. \A j \in Slots \ {e} : ~Uses(conn'[n][j], s)
        BY <2>2, <2>18, <4>2
      <4>4. Len(sock'[s].q[n]) = 0
        BY <1>2, <2>11, TakenLast
      <4>5. ASSUME NEW l \in Slots, conn[Peer(n)][l].sd = s
            PROVE  Waits(conn'[n][e], conn[Peer(n)][l])
        BY <1>2, <2>1, <2>5, <4>5 DEF Waits, Attempting
      <4> QED
        BY <2>2, <2>11, <3>1, <3>3, <4>1, <4>3, <4>4, <4>5, SockHeld
    <3> QED
      BY <3>2, <3>3
  <2> QED
    BY <2>10, <2>16, <2>19 DEF SInv, Flows
<1> QED
  BY <1>3, <1>4

\* handle_connect_msg: refused, accepted, or handed to the registered connection.
LEMMA SConnectMsg ==
    ASSUME Core, Rest, SInv, NEW n \in Node, ~Policy[n].lossy, ~Policy[n].resetcheck,
           NEW i \in Slots, handle_connect_msg(n, i)
    PROVE  SInv'
<1>1. PICK m, e : m = Item(n, i) /\ e = IF conns[n] = i THEN None ELSE conns[n]
  OBVIOUS
<1>2. Reads(n, i, "ACCEPTING_WAIT_CONNECT_MSG", "connect")
  BY DEF handle_connect_msg
<1>3. PICK s : s = conn[n][i].sd
  OBVIOUS
<1>4. /\ m.cseq \in Nat /\ m.gseq \in Nat /\ (m.cseq > 0 => conns[n] # None)
      /\ conn[n][i].state = "ACCEPTING_WAIT_CONNECT_MSG"
  BY <1>1, <1>2, <1>3, AttemptRead
<1>5. conns[n] = i => conn[n][i].replacing # 0
  <2>1. conns[n] = i => Status(conn[n][i])
    BY MineIs
  <2> QED
    BY <1>4, <2>1 DEF Status
<1>6. conns[n] # i => conn[n][i].replacing = 0
  BY DEF SInv, Spares, Spare
<1>7. \/ /\ e = None /\ (conn[n][i].replacing # 0 \/ m.cseq = 0)
         /\ accept_open(n, i, Item(n, i))
      \/ e = None /\ conn[n][i].replacing = 0 /\ m.cseq > 0
      \/ /\ e # None
         /\ \E reading : LET d == Decide(n, conn[n][e], m, reading) IN
                \/ d.act = "answer" /\ _reply_accept(n, i, d)
                \/ d.act = "replace" /\ accept_replace(n, i, e, m, d)
  BY <1>1 DEF handle_connect_msg
<1>8. CASE /\ e = None /\ (conn[n][i].replacing # 0 \/ m.cseq = 0)
           /\ accept_open(n, i, Item(n, i))
  <2>1. CASE conns[n] = i
    BY <1>2, <1>8, <2>1, SAcceptMine
  <2>2. CASE conns[n] # i
    <3>1. conns[n] = None /\ Item(n, i).cseq = 0
      BY <1>1, <1>6, <1>8, <2>2
    <3> QED
      BY <1>2, <1>8, <3>1, SAcceptNew
  <2> QED
    BY <2>1, <2>2
<1>9. CASE e = None /\ conn[n][i].replacing = 0 /\ m.cseq > 0
  BY <1>1, <1>4, <1>5, <1>9
<1>10. CASE /\ e # None
            /\ \E reading : LET d == Decide(n, conn[n][e], m, reading) IN
                 \/ d.act = "answer" /\ _reply_accept(n, i, d)
                 \/ d.act = "replace" /\ accept_replace(n, i, e, m, d)
  <2>1. e \in Slots \ {i} /\ conns[n] = e
    BY <1>1, <1>10 DEF Rest
  <2>2. PICK reading, d : /\ d = Decide(n, conn[n][e], m, reading)
                          /\ \/ d.act = "answer" /\ _reply_accept(n, i, d)
                             \/ d.act = "replace" /\ accept_replace(n, i, e, m, d)
    BY <1>10
  <2>3. conn[n][e] \in ConnTypes(MaxMsgs[n]) /\ ~Flag(conn[n][e], "lossy")
    BY <2>1, MineIs DEF Status
  <2>4. /\ d.act = "answer" => d.tag \in {"RETRY_GLOBAL", "RETRY_SESSION", "WAIT"}
        /\ d.act = "replace" => ~d.reset_session /\ (d.reset_from_peer => m.cseq = 0)
    BY <1>4, <2>2, <2>3, DecideSteady
  <2>5. CASE d.act = "answer" /\ _reply_accept(n, i, d)
    <3>1. d.cseq \in Nat /\ d.gseq \in Nat
      BY <1>4, <2>2, <2>3, <2>5, DecideRefuses DEF Refuses
    <3> QED
      BY <1>2, <2>1, <2>4, <2>5, <3>1, SocketsPositive, SRefuse
  <2>6. CASE d.act = "replace" /\ accept_replace(n, i, e, m, d)
    BY <1>1, <1>2, <2>1, <2>4, <2>6, SHand
  <2> QED
    BY <2>2, <2>5, <2>6
<1> QED
  BY <1>7, <1>8, <1>9, <1>10

\* Nobody stops a connection or tells it to reset its session.
LEMMA NoReset ==
    ASSUME Core, Rest, SInv, NEW n \in Node, NEW i \in Slots
    PROVE  ~C_stop(n, i) /\ ~reply_RESETSESSION(n, i)
<1>1. ~C_stop(n, i)
  <2>1. ~Flag(conn[n][i], "stopping")
    <3>1. CASE conns[n] = i
      BY <3>1, MineIs DEF Status, Undisturbed
    <3>2. CASE conns[n] # i
      BY <3>2 DEF SInv, Spares, Spare, Undisturbed
    <3> QED
      BY <3>1, <3>2
  <2> QED
    BY <2>1 DEF C_stop
<1>2. ~reply_RESETSESSION(n, i)
  <2>1. ~HasReply(n, i, "RESETSESSION")
    BY ReplyRead
  <2> QED
    BY <2>1 DEF reply_RESETSESSION
<1> QED
  BY <1>1, <1>2

\* The steps of an event thread.
LEMMA SEvent ==
    ASSUME Core, Rest, SInv, Steady, NEW n \in Node, NEW i \in Slots, Event(n, i)
    PROVE  SInv'
<1>1. ~Policy[n].lossy /\ ~Policy[n].resetcheck
  BY DEF Steady
<1>2. ~C_stop(n, i) /\ ~reply_RESETSESSION(n, i)
  BY NoReset
<1> QED
  BY <1>1, <1>2, SHandleReplace, SSocketError, SConnect, SRecvBanner, SRetryGlobal,
     SRetrySession, SWait, SSeq, SReady, SConnectMsg, SAcceptReply, SRecvSeq, SWriteMessage,
     SWriteAck, SRecvMessage, SRecvAck
     DEF Event, handle_connect_reply

\* A stutter.
LEMMA SUntouched ==
    ASSUME SInv, UNCHANGED vars
    PROVE  SInv'
<1>1. /\ conn' = conn /\ sock' = sock /\ conns' = conns /\ submitted' = submitted
      /\ got' = got /\ ever' = ever /\ dropped' = dropped
  BY DEF vars
<1>2. \A n \in Node : In(n)' = In(n)
  BY <1>1 DEF In, Mine
<1>3. Regs' /\ Spares'
  BY <1>1, <1>2, Peers DEF SInv, Regs, Spares, Account, Mine
<1>4. Past'
  BY <1>1, <1>2 DEF SInv, Past
<1>5. Told' /\ Flows'
  BY <1>1 DEF SInv, Told, ItemOK, Flows
<1> QED
  BY <1>3, <1>4, <1>5 DEF SInv

\* Nothing is registered, nothing is under way.
LEMMA SteadyInit == Init => SInv
<1> SUFFICES ASSUME Init PROVE SInv
  OBVIOUS
<1>1. /\ conns = [n \in Node |-> None] /\ sock = [s \in Socks |-> FreeSock]
      /\ submitted = [n \in Node |-> 0] /\ got = [n \in Node |-> <<>>]
      /\ ever = [n \in Node |-> {}] /\ dropped = [n \in Node |-> {}]
  BY DEF Init
<1>2. \A n \in Node, i \in Slots : conn[n][i] = FreeConn
  BY DEF Init
<1>3. \A n \in Node : conns[n] = None /\ In(n) = 0 /\ Peer(n) \in Node
  BY <1>1, Peers DEF In
<1>4. Regs
  BY <1>1, <1>3 DEF Regs, Account
<1>5. Spares
  BY <1>2, FreeSpareConn DEF Spares
<1>6. Past
  <2>1. 1 .. 0 = {} /\ [k \in 1 .. 0 |-> k] = <<>>
    OBVIOUS
  <2>2. got = [n \in Node |-> [k \in 1 .. In(n) |-> k]]
    BY <1>1, <1>3, <2>1
  <2>3. ever = [n \in Node |-> 1 .. In(n)]
    BY <1>1, <1>3, <2>1
  <2> QED
    BY <1>1, <2>2, <2>3 DEF Past
<1>7. \A s \in Socks, p \in Node : Len(sock[s].q[p]) = 0
  BY <1>1, FreeSockTyped
<1>8. Told
  BY <1>7 DEF Told
<1>9. Flows
  <2>1. FreeConn.sd = None /\ FreeConn.replacing_sd = None
    BY FreeRecord
  <2>2. \A s \in Socks, n \in Node, k \in Slots : conn[n][k].sd # s /\ conn[n][k].replacing_sd # s
    BY <1>2, <2>1, SocketsPositive
  <2> QED
    BY <2>2 DEF Flows, FlowOK
<1> QED
  BY <1>4, <1>5, <1>6, <1>8, <1>9 DEF SInv

\* The application marks nothing down and no process ends.
Calm == Steady /\ downs \in [Node -> Nat] /\ restarts \in [Node -> Nat]

\* ... because no such step is left.
LEMMA CalmStays ==
    ASSUME [Next]_vars, Calm
    PROVE  Calm'
<1>1. scenario' = scenario /\ downs' = downs /\ restarts' = restarts
  <2>1. ASSUME NEW n \in Node, NEW i \in Slots, Event(n, i)
        PROVE  UNCHANGED <<downs, restarts, scenario>>
    BY <2>1, ZenonT(60) DEF Event, handle_replace, SocketError, C_stop, Connect, RecvBanner,
       handle_connect_reply, reply_RESETSESSION, reply_RETRY_GLOBAL, reply_RETRY_SESSION,
       reply_WAIT, reply_SEQ, reply_READY, Resend, handle_connect_msg, accept_reply, RecvSeq,
       WriteMessage, WriteAck, RecvMessage, RecvAck, counters
  <2>2. \A n \in Node, s \in Socks : add_accept(n, s) => UNCHANGED <<downs, restarts, scenario>>
    BY DEF add_accept, counters
  <2>3. \A n \in Node : send_message(n) => UNCHANGED <<downs, restarts, scenario>>
    BY DEF send_message, counters
  <2>4. \A n \in Node : ~mark_down(n) /\ ~Restart(n)
    BY DEF Calm, Steady, mark_down, Restart
  <2>5. \A s \in Socks : Break(s) => UNCHANGED <<downs, restarts, scenario>>
    BY DEF Break
  <2>6. UNCHANGED vars => UNCHANGED <<downs, restarts, scenario>>
    BY DEF vars
  <2> QED
    BY <2>1, <2>2, <2>3, <2>4, <2>5, <2>6 DEF Next
<1> QED
  BY <1>1 DEF Calm, Steady, Policy, MaxDowns, MaxRestarts

\* Every step keeps SInv.
LEMMA SteadyNext ==
    ASSUME IInv, SInv, Calm, [Next]_vars
    PROVE  SInv'
<1>1. Core /\ Rest /\ Steady
  BY TwoParts DEF Calm
<1>2. CASE \E n \in Node, i \in Slots : Event(n, i)
  BY <1>1, <1>2, SEvent
<1>3. CASE \E n \in Node, s \in Socks : add_accept(n, s)
  BY <1>1, <1>3, SAddAccept
<1>4. CASE \E n \in Node : send_message(n) \/ mark_down(n) \/ Restart(n)
  <2>1. PICK n \in Node : send_message(n) \/ mark_down(n) \/ Restart(n)
    BY <1>4
  <2>2. ~mark_down(n) /\ ~Restart(n) /\ ~Policy[n].lossy
    BY DEF Calm, Steady, mark_down, Restart
  <2> QED
    BY <1>1, <2>1, <2>2, SSend
<1>5. CASE \E s \in Socks : Break(s)
  BY <1>1, <1>5, SBreak
<1>6. CASE UNCHANGED vars
  BY <1>6, SUntouched
<1> QED
  BY <1>2, <1>3, <1>4, <1>5, <1>6 DEF Next

\* In a steady scenario SInv always holds: across every break, crossing attempt and
\* replacement the two connections registered know exactly which messages the peer
\* may not have, and nothing on any socket, old or new, tells them otherwise.
THEOREM SteadyInvariant == Spec /\ Steady => [](SInv /\ Calm)
<1>1. Init /\ Steady => SInv /\ Calm
  <2>1. Init => downs \in [Node -> Nat] /\ restarts \in [Node -> Nat]
    BY DEF Init
  <2> QED
    BY <2>1, SteadyInit DEF Calm
<1>2. IInv /\ (SInv /\ Calm) /\ [Next]_vars => (SInv /\ Calm)'
  BY SteadyNext, CalmStays
<1> QED
  BY <1>1, <1>2, SessionInvariant, PTL DEF Spec

\* In a steady scenario an open connection never reads a message it already has (the
\* "old msgs despite reconnect_seq" branch of OPEN_MESSAGE_READ_TAIL is dead):
\* both sides have dropped what the other has before the first message is written.
THEOREM NoOldMessageSteady == Spec /\ Steady => []NoOldMessage
<1>1. IInv /\ SInv => NoOldMessage
  <2> SUFFICES ASSUME IInv, SInv, NEW n \in Node, NEW i \in Slots, Receives(n, i, "msg")
               PROVE  Item(n, i).seq > conn[n][i].in_seq
    BY DEF NoOldMessage
  <2>1. Core /\ Rest /\ Reads(n, i, "OPEN", "msg")
    BY TwoParts DEF Receives
  <2>2. Item(n, i).seq = conn[n][i].in_seq + 1
    BY <2>1, MessageRead
  <2>3. conn[n][i].in_seq \in Nat
    BY <2>1, Before, FieldTypes
  <2> QED
    BY <2>2, <2>3
<1> QED
  BY <1>1, SessionInvariant, SteadyInvariant, PTL

\* In a steady scenario no message is dispatched after a later one, whichever of the
\* session's sockets it came by.
THEOREM NeverOlderSteady == Spec /\ Steady => NeverOlder
<1>1. ASSUME IInv, SInv, SInv' PROVE [\A n \in Node : \A k \in ever'[n] \ ever[n] :
                                           \A j \in ever[n] : j < k]_vars
  <2> SUFFICES ASSUME NEW n \in Node, NEW k \in ever'[n], k \notin ever[n], NEW j \in ever[n]
               PROVE  j < k
    OBVIOUS
  <2>1. ever[n] = 1 .. In(n) /\ ever'[n] = 1 .. In(n)'
    BY <1>1 DEF SInv, Past
  <2>2. In(n) \in Nat
    <3>1. Core /\ Rest
      BY <1>1, TwoParts
    <3>2. CASE conns[n] = None
      BY <3>2 DEF In
    <3>3. CASE conns[n] # None
      <4>1. conns[n] \in Slots
        BY <3>1, <3>3 DEF Rest
      <4>2. conn[n][conns[n]].in_seq \in Nat
        BY <3>1, <4>1, Before, FieldTypes
      <4> QED
        BY <3>3, <4>2 DEF In, Mine
    <3> QED
      BY <3>2, <3>3
  <2> QED
    BY <2>1, <2>2
<1> QED
  BY <1>1, SessionInvariant, SteadyInvariant, PTL DEF NeverOlder

\* What is neither kept nor queued, the peer has.
LEMMA BooksHold ==
    ASSUME NEW out \in Nat, NEW S, NEW Q, NEW sub, NEW inp \in Nat, Len(S) \in Nat,
           Len(Q) \in Nat, Books(out, S, Q, sub, inp), NEW k \in 1 .. sub, k > inp
    PROVE  \/ \E j \in 1 .. Len(S) : S[j].id = k
           \/ \E j \in 1 .. Len(Q) : Q[j].id = k
<1>1. /\ out + Len(Q) = sub /\ out - Len(S) <= inp
      /\ \A j \in 1 .. Len(S) : S[j].id = out - Len(S) + j
      /\ \A j \in 1 .. Len(Q) : Q[j].id = out + j
  BY DEF Books
<1>2. CASE k <= out
  <2>1. PICK j : j = k - out + Len(S)
    OBVIOUS
  <2>2. j \in 1 .. Len(S) /\ out - Len(S) + j = k
    BY <1>1, <1>2, <2>1
  <2> QED
    BY <1>1, <2>2
<1>3. CASE k > out
  <2>1. PICK j : j = k - out
    OBVIOUS
  <2>2. j \in 1 .. Len(Q) /\ out + j = k
    BY <1>1, <1>3, <2>1
  <2> QED
    BY <1>1, <2>2
<1> QED
  BY <1>2, <1>3

\* In a steady scenario every message submitted is dispatched at the peer or still held
\* in sent or out_q of the registered connection, whatever requeue_sent, handle_ack,
\* discard_requeued_up_to and replacement did to those queues: none is lost.
THEOREM NoSilentLossSteady == Spec /\ Steady => []NoSilentLoss
<1>1. IInv /\ SInv => NoSilentLoss
  <2> SUFFICES ASSUME IInv, SInv, NEW n \in Node, NEW k \in 1 .. submitted[n],
                      k \notin ever[Peer(n)]
               PROVE  /\ conns[n] # None
                      /\ k \in Ids(conn[n][conns[n]].sent) \cup Ids(conn[n][conns[n]].out_q)
    BY DEF NoSilentLoss
  <2>1. Core /\ Rest /\ Peer(n) \in Node /\ submitted[n] \in Nat
    BY TwoParts, Peers DEF Rest
  <2>2. ever[Peer(n)] = 1 .. In(Peer(n)) /\ Account(n)
    BY <2>1 DEF SInv, Past, Regs
  <2>3. conns[n] # None
    BY <2>1, <2>2 DEF Account
  <2>4. PICK i \in Slots : conns[n] = i
    BY <2>1, <2>3 DEF Rest
  <2>5. PICK c, sub, inp : c = conn[n][i] /\ sub = submitted[n] /\ inp = In(Peer(n))
    OBVIOUS
  <2>6. /\ inp \in Nat /\ c.out_seq \in Nat /\ c \in ConnTypes(MaxMsgs[n])
        /\ Books(c.out_seq, c.sent, c.out_q, sub, inp)
    BY <2>1, <2>4, <2>5, MineIs
  <2>7. Len(c.sent) \in Nat /\ Len(c.out_q) \in Nat
    <3> HIDE DEF MsgTypes
    <3>1. c.sent \in Seq(MsgTypes(MaxMsgs[n])) /\ c.out_q \in Seq(MsgTypes(MaxMsgs[n]))
      BY <2>6, FieldTypes
    <3> QED
      BY <3>1
  <2>8. k \in 1 .. sub /\ k > inp
    BY <2>1, <2>2, <2>5, <2>6
  <2>9. \/ \E j \in 1 .. Len(c.sent) : c.sent[j].id = k
        \/ \E j \in 1 .. Len(c.out_q) : c.out_q[j].id = k
    BY <2>6, <2>7, <2>8, BooksHold
  <2>10. k \in Ids(c.sent) \cup Ids(c.out_q)
    BY <2>9 DEF Ids
  <2> QED
    BY <2>3, <2>4, <2>5, <2>10
<1> QED
  BY <1>1, SessionInvariant, SteadyInvariant, PTL

\* A step that the applications do not see.
Silent == submitted' = submitted /\ Recorded

\* fault() of a lossless connection drops nothing.
LEMMA FaultSilent ==
    ASSUME SInv, SInv', NEW n \in Node, NEW i \in Slots, NEW c, NEW sk,
           conns[n] = i => ~Flag(c, "lossy"), fault(n, i, c, sk)
    PROVE  Silent
<1>1. CASE Flag(c, "lossy") /\ _stop(n, i, c, sk)
  <2>1. submitted' = submitted /\ got' = got /\ ever' = ever
    BY <1>1 DEF _stop
  <2>2. dropped = [p \in Node |-> {}] /\ dropped' = [p \in Node |-> {}]
    BY DEF SInv, Past
  <2> QED
    BY <2>1, <2>2 DEF Silent, Recorded
<1>2. CASE UNCHANGED <<conns, history>>
  BY <1>2 DEF Silent, Recorded, history
<1> QED
  BY <1>1, <1>2 DEF fault

\* No connection that matters is lossy or about to reset its session.
LEMMA NotLossy ==
    ASSUME Core, Rest, SInv, NEW n \in Node, NEW i \in Slots
    PROVE  /\ conns[n] = i => ~Flag(conn[n][i], "lossy")
           /\ conn[n][i].replacing # 0 => ~Flag(conn[n][i], "lossy")
           /\ ~Flag(conn[n][i], "replacing_reset_session")
           /\ conn[n][i].flags \in SUBSET Flags
<1>1. conns[n] = i => Status(conn[n][i])
  BY MineIs
<1>2. conns[n] # i => Spare(conn[n][i])
  BY DEF SInv, Spares
<1>3. conn[n][i].flags \in SUBSET Flags
  BY Before, FieldTypes
<1> QED
  BY <1>1, <1>2, <1>3 DEF Status, Spare, Undisturbed

\* A failure,
LEMMA FailSilent ==
    ASSUME Core, Rest, SInv, SInv', NEW n \in Node, NEW i \in Slots, NEW c,
           c.flags = conn[n][i].flags, NEW sk, fail(n, i, c, sk) \/ do_replace(n, i, c, sk)
    PROVE  Silent
<1>0. ~Flag(c, "replacing_reset_session") /\ (conns[n] = i => ~Flag(c, "lossy"))
  BY NotLossy DEF Flag
<1>1. CASE do_replace(n, i, c, sk)
  <2>1. UNCHANGED history
    BY <1>0, <1>1, Zenon DEF do_replace
  <2> QED
    BY <2>1 DEF history, Silent, Recorded
<1>2. CASE fault(n, i, c, sk)
  BY <1>0, <1>2, FaultSilent
<1> QED
  BY <1>1, <1>2 DEF fail

\* ... a broken socket,
LEMMA SocketErrorSilent ==
    ASSUME Core, Rest, SInv, SInv', NEW n \in Node, NEW i \in Slots, SocketError(n, i)
    PROVE  Silent
<1>1. \/ fail(n, i, conn[n][i], sock)
      \/ conn[n][i].replacing = 1 /\ Flag(conn[n][i], "lossy")
  BY DEF SocketError
<1> QED
  BY <1>1, NotLossy, FailSilent

\* ... the answer SEQ,
LEMMA SeqSilent ==
    ASSUME Core, Rest, SInv, SInv', NEW n \in Node, NEW i \in Slots, reply_SEQ(n, i)
    PROVE  Silent
<1>1. PICK c : c = discard_requeued_up_to(conn[n][i], Item(n, i).seq)
  OBVIOUS
<1>2. c.flags = conn[n][i].flags
  <2>1. conn[n][i] \in ConnTypes(MaxMsgs[n])
    BY Before
  <2> QED
    BY <1>1, <2>1 DEF discard_requeued_up_to, ConnTypes
<1>4. CASE fail(n, i, c, Popped(n, i))
  BY <1>2, <1>4, FailSilent
<1>5. CASE UNCHANGED <<conns, history>>
  BY <1>5 DEF history, Silent, Recorded
<1> QED
  BY <1>1, <1>4, <1>5 DEF reply_SEQ

\* ... the reply of an acceptor,
LEMMA AcceptReplySilent ==
    ASSUME Core, Rest, SInv, SInv', NEW n \in Node, NEW i \in Slots, accept_reply(n, i)
    PROVE  Silent
<1>1. PICK told \in Announces(conn[n][i]) :
         fault(n, i, Replied(conn[n][i], told), sock) \/ UNCHANGED <<conns, history>>
  BY Zenon DEF accept_reply
<1>2. PICK c : c = Replied(conn[n][i], told)
  OBVIOUS
<1>3. conns[n] = i => ~Flag(c, "lossy")
  <2>1. conn[n][i] \in ConnTypes(MaxMsgs[n])
    BY Before
  <2>2. Flag(c, "lossy") <=> Flag(conn[n][i], "lossy")
    BY <1>2, <2>1, RepliedRecord
  <2> QED
    BY <2>2, NotLossy
<1>4. CASE fault(n, i, c, sock)
  BY <1>3, <1>4, FaultSilent
<1>5. CASE UNCHANGED <<conns, history>>
  BY <1>5 DEF history, Silent, Recorded
<1> QED
  BY <1>1, <1>2, <1>4, <1>5

\* ... an attempt,
LEMMA ConnectMsgSilent ==
    ASSUME NEW n \in Node, NEW i \in Slots, handle_connect_msg(n, i)
    PROVE  Silent
<1>1. UNCHANGED history
  BY ZenonT(30) DEF handle_connect_msg, accept_open, _reply_accept, accept_replace
<1> QED
  BY <1>1 DEF history, Silent, Recorded

\* ... every event but the arrival of a message, is none of the applications' business.
LEMMA EventSilent ==
    ASSUME Core, Rest, SInv, SInv', NEW n \in Node, NEW i \in Slots, Event(n, i)
    PROVE  RecvMessage(n, i) \/ Silent
<1>1. CASE \/ Connect(n, i) \/ RecvBanner(n, i) \/ reply_RETRY_GLOBAL(n, i)
           \/ reply_RETRY_SESSION(n, i) \/ reply_READY(n, i) \/ RecvSeq(n, i)
           \/ WriteMessage(n, i) \/ WriteAck(n, i) \/ RecvAck(n, i)
  <2>1. UNCHANGED history
    BY <1>1, ZenonT(30) DEF Connect, RecvBanner, reply_RETRY_GLOBAL, reply_RETRY_SESSION,
       reply_READY, RecvSeq, WriteMessage, WriteAck, RecvAck
  <2> QED
    BY <2>1 DEF history, Silent, Recorded
<1>2. ~C_stop(n, i) /\ ~reply_RESETSESSION(n, i)
  BY NoReset
<1>3. CASE handle_replace(n, i) \/ reply_WAIT(n, i)
  BY <1>3, FailSilent DEF handle_replace, reply_WAIT
<1> QED
  BY <1>1, <1>2, <1>3, SocketErrorSilent, SeqSilent, AcceptReplySilent, ConnectMsgSilent
     DEF Event, handle_connect_reply

\* Only what was submitted has a number.
LEMMA AssignedBound ==
    ASSUME NEW out \in Nat, NEW S, NEW Q, NEW sub, NEW inp, Tidy(out, S, Q),
           Books(out, S, Q, sub, inp), NEW v \in Nat, Assigned(out, Q, v)
    PROVE  v <= sub
<1>1. out + Len(Q) = sub /\ Len(Q) \in Nat
  BY DEF Books, Tidy
<1>2. ASSUME NEW k \in 1 .. Len(Q), v <= Q[k].seq PROVE v <= sub
  <2>1. Q[k].seq = 0 \/ Q[k].seq = out + k
    BY DEF Tidy
  <2> QED
    BY <1>1, <1>2, <2>1
<1> QED
  BY <1>1, <1>2 DEF Assigned

\* What Delivery sees when nothing is lossy.
LEMMA LosslessSteady ==
    ASSUME Steady, Steady'
    PROVE  Lossless /\ Lossless'
BY DEF Steady, Lossless

\* A message that arrives is the next one owed.
LEMMA DispatchStep ==
    ASSUME Core, Rest, SInv, Steady, Steady', NEW n \in Node, NEW i \in Slots, RecvMessage(n, i)
    PROVE  \E k \in 1 .. submitted[Peer(n)] : D!Dispatch(n, k)
<1>1. PICK c, m : c = conn[n][i] /\ m = Item(n, i)
  OBVIOUS
<1>2. Reads(n, i, "OPEN", "msg")
  BY DEF RecvMessage
<1>3. /\ conns[n] = i /\ m.seq = c.in_seq + 1 /\ m.id = m.seq /\ conns[Peer(n)] # None
      /\ Assigned(Mine(Peer(n)).out_seq, Mine(Peer(n)).out_q, c.in_seq + 1)
  BY <1>1, <1>2, MessageRead
<1>4. In(n) = c.in_seq /\ c.in_seq \in Nat
  BY <1>1, <1>3, MineIs
<1>5. PICK k : k = c.in_seq + 1
  OBVIOUS
<1>6. /\ got' = [got EXCEPT ![n] = Append(@, k)]
      /\ ever' = [ever EXCEPT ![n] = @ \cup {k}]
      /\ submitted' = submitted /\ dropped' = dropped
  <2>1. ~(m.seq <= c.in_seq) /\ m.id = k
    BY <1>3, <1>4, <1>5
  <2> QED
    BY <1>1, <2>1 DEF RecvMessage
<1>7. k \in 1 .. submitted[Peer(n)]
  <2>1. Peer(n) \in Node /\ Peer(Peer(n)) = n
    BY Peers
  <2>2. PICK l \in Slots : conns[Peer(n)] = l
    BY <1>3, <2>1 DEF Rest
  <2>3. PICK x : x = conn[Peer(n)][l]
    OBVIOUS
  <2>4. /\ Books(x.out_seq, x.sent, x.out_q, submitted[Peer(n)], In(n))
        /\ x \in ConnTypes(MaxMsgs[Peer(n)]) /\ ConnOK(x) /\ x.out_seq \in Nat
    BY <2>1, <2>2, <2>3, MineIs
  <2>5. Tidy(x.out_seq, x.sent, x.out_q)
    BY <2>4, TidyIs DEF ConnOK
  <2>6. Assigned(x.out_seq, x.out_q, k)
    BY <1>3, <1>5, <2>2, <2>3 DEF Mine
  <2>7. k <= submitted[Peer(n)]
    BY <1>4, <1>5, <2>4, <2>5, <2>6, AssignedBound
  <2>8. submitted[Peer(n)] \in Nat
    BY <2>1 DEF Rest
  <2> QED
    BY <1>4, <1>5, <2>7, <2>8
<1>8. ever[n] = 1 .. (k - 1) /\ got[n] = [j \in 1 .. (k - 1) |-> j] /\ dropped[Peer(n)] = {}
  <2>1. In(n) = k - 1
    BY <1>4, <1>5
  <2> QED
    BY <2>1, Peers DEF SInv, Past
<1>9. \A j \in (1 .. submitted[Peer(n)]) \ (ever[n] \cup dropped[Peer(n)]) : k <= j
  <2>1. submitted[Peer(n)] \in Nat /\ k \in Nat
    BY <1>4, <1>5, Peers DEF Rest
  <2> QED
    BY <1>8, <2>1
<1>10. \A x \in 1 .. Len(got[n]) : got[n][x] < k
  <2>1. PICK b : b = k - 1
    OBVIOUS
  <2>2. b \in Nat /\ k \in Nat /\ b < k
    BY <1>4, <1>5, <2>1
  <2>3. got[n] = [j \in 1 .. b |-> j]
    BY <1>8, <2>1
  <2>4. Len(got[n]) = b
    BY <2>2, <2>3
  <2>5. \A x \in 1 .. b : got[n][x] = x
    BY <2>3
  <2> QED
    BY <2>2, <2>4, <2>5
<1>11. Lossless /\ Lossless'
  BY LosslessSteady
<1>12. D!Peer(n) = Peer(n)
  BY DEF D!Peer, Peer
<1>13. D!Owed(n) = (1 .. submitted[Peer(n)]) \ (ever[n] \cup dropped[Peer(n)])
  BY <1>11, <1>12 DEF D!Owed
<1>14. D!Dispatch(n, k)
  BY <1>6, <1>9, <1>10, <1>11, <1>13 DEF D!Dispatch
<1> QED
  BY <1>7, <1>14

\* Every step is a step of Delivery or none.
LEMMA DeliveryNext ==
    ASSUME IInv, SInv, Calm, SInv', Calm', [Next]_vars
    PROVE  [D!Next]_(D!vars)
<1>1. Core /\ Rest /\ Steady /\ Steady' /\ Lossless /\ Lossless'
  BY TwoParts, LosslessSteady DEF Calm
<1>2. Silent => UNCHANGED D!vars
  BY <1>1 DEF Silent, Recorded, D!vars
<1>3. D!Node = Node /\ \A n \in Node : D!Peer(n) = Peer(n)
  BY DEF D!Node, Node, D!Peer, Peer
<1>4. ASSUME NEW n \in Node, NEW i \in Slots, Event(n, i) PROVE [D!Next]_(D!vars)
  <2>1. CASE RecvMessage(n, i)
    <3>1. \E k \in 1 .. submitted[Peer(n)] : D!Dispatch(n, k)
      BY <1>1, <2>1, DispatchStep
    <3> QED
      BY <1>3, <3>1 DEF D!Next
  <2> QED
    BY <1>1, <1>2, <1>4, <2>1, EventSilent
<1>5. ASSUME NEW n \in Node, send_message(n) PROVE [D!Next]_(D!vars)
  <2>1. submitted' = [submitted EXCEPT ![n] = @ + 1] /\ got' = got /\ ever' = ever
    BY <1>5 DEF send_message
  <2>2. dropped' = dropped
    BY DEF SInv, Past
  <2>3. D!Submit(n)
    BY <1>1, <2>1, <2>2 DEF D!Submit
  <2> QED
    BY <1>3, <2>3 DEF D!Next
<1>6. \A n \in Node : ~mark_down(n) /\ ~Restart(n)
  BY DEF Calm, Steady, mark_down, Restart
<1>7. \A n \in Node, s \in Socks : add_accept(n, s) => Silent
  BY DEF add_accept, history, Silent, Recorded
<1>8. \A s \in Socks : Break(s) => Silent
  BY DEF Break, history, Silent, Recorded
<1>9. UNCHANGED vars => Silent
  BY DEF vars, Silent, Recorded
<1> QED
  BY <1>2, <1>4, <1>5, <1>6, <1>7, <1>8, <1>9 DEF Next

\* In a steady scenario the session protocol implements Delivery: RecvMessage
\* dispatches the next message owed, send_message submits one, and no other step
\* of the protocol is seen by an application.
THEOREM DeliverySteady == Spec /\ Steady => ImplementsDelivery
<1>1. Init /\ Steady => D!Init
  <2> SUFFICES ASSUME Init, Steady PROVE D!Init
    OBVIOUS
  <2>1. Lossless
    BY DEF Steady, Lossless
  <2> QED
    BY <2>1 DEF Init, D!Init, D!Node, Node
<1>2. IInv /\ (SInv /\ Calm) /\ (SInv /\ Calm)' /\ [Next]_vars => [D!Next]_(D!vars)
  BY DeliveryNext
<1> QED
  BY <1>1, <1>2, SessionInvariant, SteadyInvariant, PTL DEF Spec, ImplementsDelivery, D!Spec

=============================================================================
