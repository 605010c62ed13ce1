---------------------------- MODULE SessionProofs ----------------------------
(***************************************************************************)
(* Theorems about Session, for any slots, sockets and scenarios: any       *)
(* policies of the two nodes, any number of messages, broken sockets,      *)
(* mark_down calls and restarts.                                           *)
(***************************************************************************)
EXTENDS Session, SubsequencesProofs, SequenceTheorems

-----------------------------------------------------------------------------
(***************************************************************************)
(* Types.                                                                  *)
(***************************************************************************)
Flags == {"lossy", "queue_reset", "stopping", "is_reset_from_peer",
          "replacing_reset_session"}

\* The tags of replies.
Tags == {"none", "RESETSESSION", "RETRY_GLOBAL", "RETRY_SESSION", "WAIT",
         "READY", "SEQ"}

\* Replies, NoReply included.
ReplyTypes == [kind : {"none", "reply"}, tag : Tags, cseq : Nat, gseq : Nat,
               seq : Nat, lossy : {"yes", "no"}]

\* What is on its way over a socket.
Items ==
    [kind : {"banner"}] \cup [kind : {"connect"}, gseq : Nat, cseq : Nat]
      \cup ReplyTypes \cup [kind : {"seq", "ack"}, seq : Nat]
      \cup [kind : {"msg"}, id : Nat, seq : Nat]

\* Sockets.
SockTypes == [live : {"yes", "no"}, end : [Node -> {"pending", "open", "closed"}],
              q : [Node -> Seq(Items)]]

\* What sd and replacing_sd may be.
Handles == Socks \cup {None}

\* The messages of a node whose application submits at most max of them.
MsgTypes(max) == [id : 1 .. max, seq : Nat]

\* The connections of a node whose application submits at most max messages.
ConnTypes(max) ==
    [state : States, sd : Handles, connect_seq : Nat, global_seq : Nat,
     peer_global_seq : Nat, in_seq : Nat, in_seq_acked : Nat, out_seq : Nat,
     out_q : Seq(MsgTypes(max)), sent : Seq(MsgTypes(max)), replacing : 0 .. 2,
     replacing_sd : Handles, replacing_cseq : Nat, reply : ReplyTypes,
     flags : SUBSET Flags]

\* The connections K of both nodes, with at most max[n] messages.
ConnsTyped(K, max) ==
    /\ K = [n \in Node |-> K[n]]
    /\ \A n \in Node : K[n] \in [Slots -> ConnTypes(max[n])]

\* Type correctness, the bound on the submitted messages included.
Types ==
    /\ scenario \in ScenarioTypes
    /\ ConnsTyped(conn, MaxMsgs)
    /\ conns \in [Node -> Slots \cup {None}]
    /\ sock \in [Socks -> SockTypes]
    /\ global_seq \in [Node -> Nat]
    /\ submitted \in [Node -> Nat]
    /\ \A n \in Node : submitted[n] <= MaxMsgs[n]

-----------------------------------------------------------------------------
(***************************************************************************)
(* One connection.                                                         *)
(***************************************************************************)
\* The states in which a connection has a socket.
Linked == {"CONNECTING_WAIT_BANNER", "CONNECTING_WAIT_CONNECT_REPLY",
           "ACCEPTING_WAIT_CONNECT_MSG", "ACCEPTING_REPLY",
           "ACCEPTING_WAIT_SEQ", "OPEN"}

\* The numbers of the messages S that were sent and Q that are queued.  Those sent
\* end with out; those queued, if they ever had a number, go on from there, so that
\* they get it again.  Behind a message that never had one are only others like it.
Numbers(out, S, Q) ==
    /\ Len(S) <= out
    /\ \A k \in 1 .. Len(S) : S[k].seq = out - Len(S) + k
    /\ \A k \in 1 .. Len(Q) : Q[k].seq # 0 => Q[k].seq = out + k
    /\ \A j, k \in 1 .. Len(Q) : j < k /\ Q[j].seq = 0 => Q[k].seq = 0

\* What is kept in sent is what was written to the socket of an open lossless channel.
Numbered(c) ==
    /\ Numbers(c.out_seq, c.sent, c.out_q)
    /\ c.state # "OPEN" \/ Flag(c, "lossy") => c.sent = <<>>

\* A connection has a socket exactly in the linked states, and another one while it is
\* being replaced; one that is about to reply holds the reply that confirms its attempt.
Local(c) ==
    /\ c.state \in Linked <=> c.sd # None
    /\ c.replacing = 1 => c.replacing_sd # None
    /\ c.state = "ACCEPTING_REPLY" =>
          c.reply.tag \in {"READY", "SEQ"} /\ c.reply.cseq = c.connect_seq

-----------------------------------------------------------------------------
(***************************************************************************)
(* The two ends of a socket.                                               *)
(***************************************************************************)
\* r answers an attempt with the number cseq.
Fits(r, cseq) ==
    /\ r.tag = "RETRY_SESSION" => r.cseq > cseq
    /\ r.tag \in {"READY", "SEQ"} => r.cseq = cseq + 1

\* What c has still to read: at most one reply, to its last attempt.
Inbox(c, q) ==
    /\ c.state = "CONNECTING_WAIT_BANNER" =>
          \A k \in 1 .. Len(q) : q[k].kind # "reply"
    /\ c.state = "CONNECTING_WAIT_CONNECT_REPLY" =>
          \A k \in 1 .. Len(q) :
              q[k].kind = "reply" => k = 1 /\ Fits(q[k], c.connect_seq)

\* c has made the attempt and has qc to read, d serves it and has qd to read.
Talk(c, d, qc, qd) ==
    \/ /\ c.state = "CONNECTING_WAIT_BANNER"
       /\ d.state = "ACCEPTING_WAIT_CONNECT_MSG"
       /\ Len(qc) <= 1 /\ Len(qd) = 0
    \/ /\ c.state = "CONNECTING_WAIT_CONNECT_REPLY"
       /\ d.state = "ACCEPTING_WAIT_CONNECT_MSG"
       /\ Len(qc) + Len(qd) <= 1
       /\ \A k \in 1 .. Len(qd) : qd[k].cseq = c.connect_seq
       /\ \A k \in 1 .. Len(qc) : qc[k].tag \notin {"READY", "SEQ"}
    \/ /\ c.state = "CONNECTING_WAIT_CONNECT_REPLY"
       /\ d.state = "ACCEPTING_REPLY"
       /\ d.connect_seq = c.connect_seq + 1
       /\ Len(qc) = 0
    \/ /\ c.state = "CONNECTING_WAIT_CONNECT_REPLY"
       /\ d.state \in {"ACCEPTING_WAIT_SEQ", "OPEN"}
       /\ d.connect_seq = c.connect_seq + 1
       /\ \A k \in 1 .. Len(qc) :
             qc[k].kind = "reply" => qc[k].tag \in {"READY", "SEQ"}
    \/ /\ c.state = "OPEN"
       /\ d.state \in {"ACCEPTING_WAIT_SEQ", "OPEN"}
       /\ d.connect_seq = c.connect_seq

\* One of the two has made the attempt.
Paired(c, d, qc, qd) == Talk(c, d, qc, qd) \/ Talk(d, c, qd, qc)

\* The socket of c's attempt waits for connection e to take it over.
Handed(c, e, qc, qd) ==
    /\ c.state = "CONNECTING_WAIT_CONNECT_REPLY"
    /\ Len(qc) = 0 /\ Len(qd) = 0
    /\ e.replacing = 1 => e.replacing_cseq = c.connect_seq

\* A connection holds on to a socket.
Uses(c, s) == c.sd = s \/ c.replacing_sd = s

\* Socket s in the condition x, with the connections K.  Each end has one user,
\* and only while it is open.
OneUser(K, x, s) ==
    \A n \in Node :
        /\ \A k, l \in Slots : Uses(K[n][k], s) /\ Uses(K[n][l], s) => k = l
        /\ \A k \in Slots : /\ Uses(K[n][k], s) => x.end[n] = "open"
                            /\ ~(K[n][k].sd = s /\ K[n][k].replacing_sd = s)

\* While one end is not accepted yet, the other one waits for a banner.
Unaccepted(K, x, s) ==
    \A n \in Node : x.end[Peer(n)] = "pending" =>
        /\ x.end[n] = "open" /\ Len(x.q[n]) = 0 /\ Len(x.q[Peer(n)]) = 0
        /\ \A k \in Slots : /\ K[n][k].replacing_sd # s
                            /\ K[n][k].sd = s => K[n][k].state = "CONNECTING_WAIT_BANNER"

\* What the two ends say to each other fits.
BothEnds(K, x, s) ==
    \A n \in Node :
        /\ \A k \in Slots : K[n][k].sd = s => Inbox(K[n][k], x.q[n])
        /\ \A k, l \in Slots :
              /\ K[n][k].sd = s /\ K[Peer(n)][l].sd = s =>
                    Paired(K[n][k], K[Peer(n)][l], x.q[n], x.q[Peer(n)])
              /\ K[n][k].sd = s /\ K[Peer(n)][l].replacing_sd = s =>
                    Handed(K[n][k], K[Peer(n)][l], x.q[n], x.q[Peer(n)])
              /\ ~(K[n][k].replacing_sd = s /\ K[Peer(n)][l].replacing_sd = s)

\* All that holds of a socket.
SockOK(K, x, s) == OneUser(K, x, s) /\ Unaccepted(K, x, s) /\ BothEnds(K, x, s)

\* All that holds of a connection.
ConnOK(c) == Numbered(c) /\ Local(c)

\* ... of every connection,
Connections == \A n \in Node, i \in Slots : ConnOK(conn[n][i])

\* ... and of every socket.
Sockets == \A s \in Socks : SockOK(conn, sock[s], s)

\* The inductive invariant.
IInv == Types /\ Connections /\ Sockets

-----------------------------------------------------------------------------
(***************************************************************************)
(* Nodes, updates and sockets.                                             *)
(***************************************************************************)
\* There are two nodes.
LEMMA Peers ==
    ASSUME NEW n \in Node
    PROVE  /\ Peer(n) \in Node /\ Peer(n) # n /\ Peer(Peer(n)) = n
           /\ \A m \in Node : m = n \/ m = Peer(n)
BY DEF Node, Peer

\* A socket is a number, None is not.
LEMMA SocketsPositive == None \notin Socks /\ None \notin Slots
BY ConstantsAssumption DEF None

\* The least element of a set of naturals.
LEMMA MinElement ==
    ASSUME NEW T, T \subseteq Nat, T # {}
    PROVE  Min(T) \in T /\ \A t \in T : Min(T) <= t
<1>1. \E x \in T : \A y \in T : x <= y
  BY LeastNatural
<1> QED
  BY <1>1 DEF Min

\* The larger one of two naturals.
LEMMA MaxOfTwo ==
    ASSUME NEW a \in Nat, NEW b \in Nat
    PROVE  Max({a, b}) \in Nat
<1>1. \E x \in {a, b} : \A y \in {a, b} : x >= y
  OBVIOUS
<1>2. Max({a, b}) \in {a, b}
  BY <1>1 DEF Max
<1> QED
  BY <1>2

\* One connection changes.
Updated(K, n, i, d) == [K EXCEPT ![n][i] = d]

\* The others stay as they are.
LEMMA Update ==
    ASSUME NEW max, NEW K, ConnsTyped(K, max), NEW n \in Node, NEW i \in Slots,
           NEW d \in ConnTypes(max[n]), NEW K1, K1 = Updated(K, n, i, d)
    PROVE  /\ ConnsTyped(K1, max) /\ K1[n][i] = d
           /\ \A j \in Slots \ {i} : K1[n][j] = K[n][j]
           /\ K1[Peer(n)] = K[Peer(n)]
<1>1. K1[n] = [K[n] EXCEPT ![i] = d] /\ K1 = [m \in Node |-> K1[m]]
  BY DEF ConnsTyped, Updated
<1>2. \A m \in Node \ {n} : K1[m] = K[m]
  BY DEF ConnsTyped, Updated
<1>3. K[n] \in [Slots -> ConnTypes(max[n])]
  BY DEF ConnsTyped
<1>4. K1[n] \in [Slots -> ConnTypes(max[n])] /\ K1[n][i] = d
  BY <1>1, <1>3
<1>5. \A j \in Slots \ {i} : K1[n][j] = K[n][j]
  BY <1>1, <1>3
<1>6. ConnsTyped(K1, max)
  BY <1>1, <1>2, <1>4 DEF ConnsTyped
<1> QED
  BY <1>2, <1>4, <1>5, <1>6, Peers

\* An item is sent, if the other end is open.
LEMMA PutSock ==
    ASSUME NEW sk \in [Socks -> SockTypes], NEW s \in Socks, NEW m \in Node,
           NEW item \in Items, NEW new, new = Put(sk, s, m, item)
    PROVE  /\ new \in [Socks -> SockTypes]
           /\ \A t \in Socks \ {s} : new[t] = sk[t]
           /\ new[s].end = sk[s].end
           /\ new[s].q[Peer(m)] = sk[s].q[Peer(m)]
           /\ \/ new[s].q[m] = sk[s].q[m]
              \/ new[s].q[m] = Append(sk[s].q[m], item) /\ sk[s].end[m] = "open"
<1>1. CASE ~(sk[s].live = "yes" /\ sk[s].end[m] = "open")
  BY <1>1 DEF Put
<1>2. CASE sk[s].live = "yes" /\ sk[s].end[m] = "open"
  <2> PICK x : x = sk[s]
    OBVIOUS
  <2> PICK y : y = [x EXCEPT !.q[m] = Append(@, item)]
    OBVIOUS
  <2>1. x \in SockTypes /\ x.q \in [Node -> Seq(Items)]
    BY DEF SockTypes
  <2>2. Append(x.q[m], item) \in Seq(Items)
    BY <2>1
  <2>3. /\ y \in SockTypes /\ y.end = x.end /\ y.q[m] = Append(x.q[m], item)
        /\ \A k \in Node \ {m} : y.q[k] = x.q[k]
    BY <2>1, <2>2 DEF SockTypes
  <2>4. new = [sk EXCEPT ![s] = y]
    BY <1>2 DEF Put
  <2> HIDE DEF Items
  <2>5. new \in [Socks -> SockTypes] /\ new[s] = y /\ \A t \in Socks \ {s} : new[t] = sk[t]
    BY <2>3, <2>4
  <2> QED
    BY <1>2, <2>3, <2>5, Peers
<1> QED
  BY <1>1, <1>2

\* The next item is taken.
LEMMA PopSock ==
    ASSUME NEW sk \in [Socks -> SockTypes], NEW s \in Socks, NEW m \in Node,
           sk[s].q[m] # <<>>, NEW new, new = Pop(sk, s, m)
    PROVE  /\ new \in [Socks -> SockTypes]
           /\ \A t \in Socks \ {s} : new[t] = sk[t]
           /\ new[s].end = sk[s].end
           /\ new[s].q[Peer(m)] = sk[s].q[Peer(m)]
           /\ new[s].q[m] = Tail(sk[s].q[m])
           /\ Head(sk[s].q[m]) = sk[s].q[m][1] /\ Head(sk[s].q[m]) \in Items
           /\ Len(sk[s].q[m]) \in Nat \ {0}
           /\ Len(new[s].q[m]) = Len(sk[s].q[m]) - 1
           /\ \A k \in 1 .. Len(new[s].q[m]) : new[s].q[m][k] = sk[s].q[m][k + 1]
<1> PICK x : x = sk[s]
  OBVIOUS
<1> PICK y : y = [x EXCEPT !.q[m] = Tail(@)]
  OBVIOUS
<1>1. x \in SockTypes /\ x.q \in [Node -> Seq(Items)]
  BY DEF SockTypes
<1>2. /\ Tail(x.q[m]) \in Seq(Items) /\ Len(x.q[m]) \in Nat \ {0}
      /\ Len(Tail(x.q[m])) = Len(x.q[m]) - 1
      /\ \A k \in 1 .. Len(Tail(x.q[m])) : Tail(x.q[m])[k] = x.q[m][k + 1]
      /\ Head(x.q[m]) = x.q[m][1] /\ Head(x.q[m]) \in Items
  BY <1>1
<1>3. /\ y \in SockTypes /\ y.end = x.end /\ y.q[m] = Tail(x.q[m])
      /\ \A k \in Node \ {m} : y.q[k] = x.q[k]
  BY <1>1, <1>2 DEF SockTypes
<1>4. new = [sk EXCEPT ![s] = y]
  BY DEF Pop
<1>5. new \in [Socks -> SockTypes] /\ new[s] = y /\ \A t \in Socks \ {s} : new[t] = sk[t]
  BY <1>3, <1>4
<1>6. Peer(m) \in Node \ {m}
  BY Peers
<1>7. new[s].q[Peer(m)] = sk[s].q[Peer(m)] /\ new[s].end = sk[s].end
  BY <1>3, <1>5, <1>6
<1> HIDE DEF Items
<1>8. new[s].q[m] = Tail(sk[s].q[m])
  BY <1>3, <1>5
<1>9. /\ Len(sk[s].q[m]) \in Nat \ {0}
      /\ Len(new[s].q[m]) = Len(sk[s].q[m]) - 1
      /\ \A k \in 1 .. Len(new[s].q[m]) : new[s].q[m][k] = sk[s].q[m][k + 1]
      /\ Head(sk[s].q[m]) = sk[s].q[m][1] /\ Head(sk[s].q[m]) \in Items
  BY <1>2, <1>8, Zenon
<1> QED
  BY <1>5, <1>7, <1>8, <1>9, Zenon

\* A socket without ends.
LEMMA FreeSockTyped ==
    /\ FreeSock \in SockTypes
    /\ \A n \in Node : FreeSock.end[n] = "closed" /\ Len(FreeSock.q[n]) = 0
BY DEF FreeSock, SockTypes

\* What node n's closing its end makes of socket s.
Shut(x, y, n) ==
    \/ x.end[Peer(n)] # "open" /\ y = FreeSock
    \/ /\ x.end[Peer(n)] = "open" /\ y.end[n] = "closed"
       /\ y.end[Peer(n)] = "open" /\ y.q[Peer(n)] = x.q[Peer(n)]

\* A node closes its end of a socket, if there is one.
LEMMA CloseSock ==
    ASSUME NEW sk \in [Socks -> SockTypes], NEW s \in Handles, NEW n \in Node,
           NEW new, new = Close(sk, s, n)
    PROVE  /\ new \in [Socks -> SockTypes]
           /\ \A t \in Socks \ {s} : new[t] = sk[t]
           /\ s \in Socks => Shut(sk[s], new[s], n)
<1>1. CASE s = None
  BY <1>1, SocketsPositive DEF Close
<1>2. CASE s # None
  <2>0. s \in Socks
    BY <1>2 DEF Handles
  <2>1. CASE sk[s].end[Peer(n)] # "open"
    <3>1. new = [sk EXCEPT ![s] = FreeSock]
      BY <1>2, <2>1 DEF Close
    <3> HIDE DEF FreeSock
    <3> QED
      BY <2>0, <2>1, <3>1, FreeSockTyped DEF Shut
  <2>2. CASE sk[s].end[Peer(n)] = "open"
    <3> PICK x : x = sk[s]
      OBVIOUS
    <3> PICK y : y = [x EXCEPT !.end[n] = "closed", !.q[n] = <<>>]
      OBVIOUS
    <3>1. x \in SockTypes /\ x.q \in [Node -> Seq(Items)]
          /\ x.end \in [Node -> {"pending", "open", "closed"}]
      BY <2>0 DEF SockTypes
    <3>2. <<>> \in Seq(Items)
      OBVIOUS
    <3>3. /\ y \in SockTypes /\ y.end[n] = "closed"
          /\ \A k \in Node \ {n} : y.end[k] = x.end[k] /\ y.q[k] = x.q[k]
      BY <3>1, <3>2 DEF SockTypes
    <3>4. new = [sk EXCEPT ![s] = y]
      BY <1>2, <2>2 DEF Close
    <3>5. new \in [Socks -> SockTypes] /\ new[s] = y /\ \A t \in Socks \ {s} : new[t] = sk[t]
      BY <2>0, <3>3, <3>4
    <3> QED
      BY <2>2, <3>3, <3>5, Peers DEF Shut
  <2> QED
    BY <2>1, <2>2
<1> QED
  BY <1>1, <1>2

-----------------------------------------------------------------------------
(***************************************************************************)
(* What a step of node n may do to a socket s and its users at n.          *)
(***************************************************************************)
\* Nobody at n uses the socket any more; its end was closed, or forgotten.
LEMMA LeaveSocket ==
    ASSUME NEW K, NEW K1, NEW n \in Node, NEW s, NEW x, NEW y, SockOK(K, x, s),
           K1[Peer(n)] = K[Peer(n)],
           \A j \in Slots : ~Uses(K1[n][j], s),
           y = x \/ Shut(x, y, n)
    PROVE  SockOK(K1, y, s)
<1> PICK p \in Node : p = Peer(n) /\ Peer(p) = n /\ p # n /\ \A m \in Node : m = n \/ m = p
  BY Peers
<1>1. \A j \in Slots : K1[n][j].sd # s /\ K1[n][j].replacing_sd # s
  BY DEF Uses
<1>2. CASE y = x
  <2>1. OneUser(K1, y, s)
    BY <1>1, <1>2 DEF SockOK, OneUser, Uses
  <2>2. Unaccepted(K1, y, s)
    BY <1>1, <1>2 DEF SockOK, Unaccepted
  <2>3. BothEnds(K1, y, s)
    BY <1>1, <1>2 DEF SockOK, BothEnds
  <2> QED
    BY <2>1, <2>2, <2>3 DEF SockOK
<1>3. CASE x.end[p] # "open" /\ y = FreeSock
  <2>1. \A j \in Slots : ~Uses(K1[p][j], s)
    BY <1>3 DEF SockOK, OneUser
  <2>2. \A m \in Node : y.end[m] = "closed"
    BY <1>3, FreeSockTyped
  <2>3. OneUser(K1, y, s)
    BY <2>1 DEF OneUser, Uses
  <2>4. Unaccepted(K1, y, s)
    BY <2>2 DEF Unaccepted
  <2>5. BothEnds(K1, y, s)
    BY <1>1, <2>1 DEF BothEnds, Uses
  <2> QED
    BY <2>3, <2>4, <2>5 DEF SockOK
<1>4. CASE x.end[p] = "open" /\ y.end[n] = "closed" /\ y.end[p] = "open" /\ y.q[p] = x.q[p]
  <2>1. OneUser(K1, y, s)
    BY <1>1, <1>4 DEF SockOK, OneUser, Uses
  <2>2. Unaccepted(K1, y, s)
    BY <1>4 DEF Unaccepted
  <2>3. BothEnds(K1, y, s)
    BY <1>1, <1>4 DEF SockOK, BothEnds
  <2> QED
    BY <2>1, <2>2, <2>3 DEF SockOK
<1> QED
  BY <1>2, <1>3, <1>4 DEF Shut

\* Connection i of n is the user of the socket, and goes well with the peer's.
Served(K, K1, n, i, s, x, y) ==
    /\ K1[Peer(n)] = K[Peer(n)]
    /\ \A j \in Slots \ {i} : ~Uses(K1[n][j], s)
    /\ K1[n][i].sd = s /\ K1[n][i].replacing_sd # s
    /\ y.end[n] = "open" /\ (x.end[Peer(n)] = "open" => y.end[Peer(n)] = "open")
    /\ y.end[Peer(n)] = "pending" =>
          /\ Len(y.q[n]) = 0 /\ Len(y.q[Peer(n)]) = 0
          /\ K1[n][i].state = "CONNECTING_WAIT_BANNER"
    /\ Inbox(K1[n][i], y.q[n])
    /\ \A l \in Slots :
          /\ K[Peer(n)][l].sd = s =>
                /\ Paired(K1[n][i], K[Peer(n)][l], y.q[n], y.q[Peer(n)])
                /\ Inbox(K[Peer(n)][l], y.q[Peer(n)])
          /\ K[Peer(n)][l].replacing_sd = s =>
                Handed(K1[n][i], K[Peer(n)][l], y.q[n], y.q[Peer(n)])

\* A served socket is all right afterwards.
LEMMA HasSocket ==
    ASSUME NEW K, NEW K1, NEW n \in Node, NEW i \in Slots, NEW s, NEW x, NEW y,
           SockOK(K, x, s), Served(K, K1, n, i, s, x, y)
    PROVE  SockOK(K1, y, s)
<1> PICK p \in Node : p = Peer(n) /\ Peer(p) = n /\ p # n /\ \A m \in Node : m = n \/ m = p
  BY Peers
<1>1. \A j \in Slots : /\ K1[n][j].sd = s => j = i
                       /\ K1[n][j].replacing_sd # s
                       /\ Uses(K1[n][j], s) => j = i
  BY DEF Served, Uses
<1>2. OneUser(K1, y, s)
  BY <1>1 DEF SockOK, OneUser, Served
<1>3. Unaccepted(K1, y, s)
  BY <1>1 DEF Unaccepted, Served
<1>4. \A a, b, u, v : Paired(a, b, u, v) <=> Paired(b, a, v, u)
  BY DEF Paired
<1>5. \A k \in Slots : /\ K1[n][k].sd = s => Inbox(K1[n][k], y.q[n])
                       /\ K1[p][k].sd = s => Inbox(K1[p][k], y.q[p])
  BY <1>1 DEF Served
<1>6. \A k, l \in Slots : K1[n][k].sd = s /\ K1[p][l].sd = s =>
          /\ Paired(K1[n][k], K1[p][l], y.q[n], y.q[p])
          /\ Paired(K1[p][l], K1[n][k], y.q[p], y.q[n])
  BY <1>1, <1>4 DEF Served
<1>7. \A k, l \in Slots :
          /\ K1[n][k].sd = s /\ K1[p][l].replacing_sd = s =>
                Handed(K1[n][k], K1[p][l], y.q[n], y.q[p])
          /\ ~(K1[p][k].sd = s /\ K1[n][l].replacing_sd = s)
          /\ ~(K1[n][k].replacing_sd = s /\ K1[p][l].replacing_sd = s)
  BY <1>1 DEF Served
<1>8. BothEnds(K1, y, s)
  BY <1>5, <1>6, <1>7 DEF BothEnds
<1> QED
  BY <1>2, <1>3, <1>8 DEF SockOK

\* Connection i of n is to take the socket over.
Held(K, K1, n, i, s, x, y) ==
    /\ K1[Peer(n)] = K[Peer(n)]
    /\ \A j \in Slots \ {i} : ~Uses(K1[n][j], s)
    /\ K1[n][i].sd # s /\ K1[n][i].replacing_sd = s
    /\ y.end[n] = "open" /\ (x.end[Peer(n)] = "open" => y.end[Peer(n)] = "open")
    /\ y.end[Peer(n)] # "pending"
    /\ \A l \in Slots : K[Peer(n)][l].sd = s =>
          /\ Handed(K[Peer(n)][l], K1[n][i], y.q[Peer(n)], y.q[n])
          /\ Inbox(K[Peer(n)][l], y.q[Peer(n)])
    /\ \A l \in Slots : K[Peer(n)][l].replacing_sd # s

\* A held socket is all right afterwards.
LEMMA HoldsSocket ==
    ASSUME NEW K, NEW K1, NEW n \in Node, NEW i \in Slots, NEW s, NEW x, NEW y,
           SockOK(K, x, s), Held(K, K1, n, i, s, x, y)
    PROVE  SockOK(K1, y, s)
<1> SUFFICES ASSUME K1[Peer(n)] = K[Peer(n)],
           \A j \in Slots \ {i} : ~Uses(K1[n][j], s),
           K1[n][i].sd # s, K1[n][i].replacing_sd = s,
           y.end[n] = "open", x.end[Peer(n)] = "open" => y.end[Peer(n)] = "open",
           y.end[Peer(n)] # "pending",
           \A l \in Slots : K[Peer(n)][l].sd = s =>
               /\ Handed(K[Peer(n)][l], K1[n][i], y.q[Peer(n)], y.q[n])
               /\ Inbox(K[Peer(n)][l], y.q[Peer(n)]),
           \A l \in Slots : K[Peer(n)][l].replacing_sd # s
           PROVE SockOK(K1, y, s)
  BY DEF Held
<1> PICK p \in Node : p = Peer(n) /\ Peer(p) = n /\ p # n /\ \A m \in Node : m = n \/ m = p
  BY Peers
<1>1. \A j \in Slots : /\ K1[n][j].replacing_sd = s => j = i
                       /\ K1[n][j].sd # s
                       /\ Uses(K1[n][j], s) => j = i
  BY DEF Uses
<1>2. OneUser(K1, y, s)
  BY <1>1 DEF SockOK, OneUser
<1>3. Unaccepted(K1, y, s)
  BY <1>1 DEF Unaccepted
<1>4. BothEnds(K1, y, s)
  BY <1>1 DEF BothEnds
<1> QED
  BY <1>2, <1>3, <1>4 DEF SockOK

\* The connection is the same for the peer of its socket; and for the peer of a
\* socket that it is to take over.
SameEnd(c, d) == d.state = c.state /\ d.sd = c.sd /\ d.connect_seq = c.connect_seq

\* ... and of the socket that is being taken over.
SameHold(c, d) ==
    /\ d.replacing_sd = c.replacing_sd
    /\ d.replacing = 1 => c.replacing = 1 /\ d.replacing_cseq = c.replacing_cseq

\* ... as far as s is concerned.
Alike(c, d, s) ==
    \/ ~Uses(c, s) /\ ~Uses(d, s)
    \/ SameHold(c, d) /\ (SameEnd(c, d) \/ (c.sd # s /\ d.sd # s))
    \/ SameEnd(c, d) /\ c.replacing_sd # s /\ d.replacing_sd # s

\* A socket whose users at n do not change in a way that matters.
LEMMA OtherSocket ==
    ASSUME NEW K, NEW K1, NEW n \in Node, NEW s, NEW x, SockOK(K, x, s),
           K1[Peer(n)] = K[Peer(n)],
           \A j \in Slots : Alike(K[n][j], K1[n][j], s)
    PROVE  SockOK(K1, x, s)
<1> PICK p \in Node : p = Peer(n) /\ Peer(p) = n /\ p # n /\ \A m \in Node : m = n \/ m = p
  BY Peers
<1>1. \A j \in Slots : /\ K1[n][j].sd = s <=> K[n][j].sd = s
                       /\ K1[n][j].replacing_sd = s <=> K[n][j].replacing_sd = s
                       /\ Uses(K1[n][j], s) <=> Uses(K[n][j], s)
                       /\ K[n][j].sd = s => SameEnd(K[n][j], K1[n][j])
                       /\ K[n][j].replacing_sd = s => SameHold(K[n][j], K1[n][j])
  BY DEF Alike, Uses, SameEnd, SameHold
<1>2. OneUser(K1, x, s)
  BY <1>1 DEF SockOK, OneUser
<1>3. Unaccepted(K1, x, s)
  <2>1. \A j \in Slots : K[n][j].sd = s => K1[n][j].state = K[n][j].state
    BY <1>1 DEF SameEnd
  <2> QED
    BY <1>1, <2>1 DEF SockOK, Unaccepted
<1>4. \A c, d, e, u, v : SameEnd(c, d) =>
          /\ Inbox(c, u) => Inbox(d, u)
          /\ Talk(c, e, u, v) => Talk(d, e, u, v)
          /\ Talk(e, c, u, v) => Talk(e, d, u, v)
          /\ Handed(c, e, u, v) => Handed(d, e, u, v)
  BY DEF SameEnd, Inbox, Talk, Handed
<1>5. \A c, d, e, u, v : SameHold(c, d) => (Handed(e, c, u, v) => Handed(e, d, u, v))
  BY DEF SameHold, Handed
<1>6. \A k, l \in Slots :
          /\ K1[n][k].sd = s => Inbox(K1[n][k], x.q[n])
          /\ K1[p][k].sd = s => Inbox(K1[p][k], x.q[p])
  BY <1>1, <1>4 DEF SockOK, BothEnds
<1>7. \A k, l \in Slots : K1[n][k].sd = s /\ K1[p][l].sd = s =>
          /\ Paired(K1[n][k], K1[p][l], x.q[n], x.q[p])
          /\ Paired(K1[p][l], K1[n][k], x.q[p], x.q[n])
  BY <1>1, <1>4 DEF SockOK, BothEnds, Paired
<1>8. \A k, l \in Slots :
          /\ K1[n][k].sd = s /\ K1[p][l].replacing_sd = s =>
                Handed(K1[n][k], K1[p][l], x.q[n], x.q[p])
          /\ K1[p][k].sd = s /\ K1[n][l].replacing_sd = s =>
                Handed(K1[p][k], K1[n][l], x.q[p], x.q[n])
          /\ ~(K1[n][k].replacing_sd = s /\ K1[p][l].replacing_sd = s)
  BY <1>1, <1>4, <1>5 DEF SockOK, BothEnds
<1>9. BothEnds(K1, x, s)
  BY <1>6, <1>7, <1>8 DEF BothEnds
<1> QED
  BY <1>2, <1>3, <1>9 DEF SockOK

\* The network breaks the socket.
LEMMA BreakSocket ==
    ASSUME NEW K, NEW s, NEW x, NEW y, SockOK(K, x, s), y.q = x.q,
           \A m \in Node : y.end[m] = IF x.end[m] = "pending" THEN "closed" ELSE x.end[m]
    PROVE  SockOK(K, y, s)
<1>1. OneUser(K, y, s)
  BY DEF SockOK, OneUser
<1>2. Unaccepted(K, y, s)
  BY Peers DEF Unaccepted
<1>3. BothEnds(K, y, s)
  BY DEF SockOK, BothEnds
<1> QED
  BY <1>1, <1>2, <1>3 DEF SockOK

-----------------------------------------------------------------------------
(***************************************************************************)
(* Steps of connection i of node n, from c to d.                           *)
(***************************************************************************)
AllSocks(K, S) == \A s \in Socks : SockOK(K, S[s], s)

\* Only connection i of n changes.
Moves(K, K1, n, i) ==
    /\ \A j \in Slots \ {i} : K1[n][j] = K[n][j]
    /\ K1[Peer(n)] = K[Peer(n)]

\* Who uses a socket, uses it alone.
LEMMA OnlyUser ==
    ASSUME NEW K, NEW x, NEW s, SockOK(K, x, s), NEW n \in Node, NEW i \in Slots,
           Uses(K[n][i], s)
    PROVE  /\ \A j \in Slots \ {i} : ~Uses(K[n][j], s)
           /\ x.end[n] = "open"
           /\ ~(K[n][i].sd = s /\ K[n][i].replacing_sd = s)
BY DEF SockOK, OneUser

\* What a user of a socket knows about the other end.
LEMMA OtherEnd ==
    ASSUME NEW K, NEW x, NEW s, SockOK(K, x, s), NEW n \in Node, NEW i \in Slots
    PROVE  /\ K[n][i].sd = s =>
                /\ Inbox(K[n][i], x.q[n])
                /\ \A l \in Slots :
                      /\ K[Peer(n)][l].sd = s =>
                            /\ Paired(K[n][i], K[Peer(n)][l], x.q[n], x.q[Peer(n)])
                            /\ Inbox(K[Peer(n)][l], x.q[Peer(n)])
                      /\ K[Peer(n)][l].replacing_sd = s =>
                            Handed(K[n][i], K[Peer(n)][l], x.q[n], x.q[Peer(n)])
           /\ K[n][i].replacing_sd = s =>
                \A l \in Slots :
                    /\ K[Peer(n)][l].sd = s =>
                          /\ Handed(K[Peer(n)][l], K[n][i], x.q[Peer(n)], x.q[n])
                          /\ Inbox(K[Peer(n)][l], x.q[Peer(n)])
                    /\ K[Peer(n)][l].replacing_sd # s
           /\ x.end[Peer(n)] = "pending" =>
                /\ Len(x.q[n]) = 0 /\ Len(x.q[Peer(n)]) = 0
                /\ K[n][i].replacing_sd # s
                /\ K[n][i].sd = s => K[n][i].state = "CONNECTING_WAIT_BANNER"
<1>1. PICK p \in Node : p = Peer(n) /\ Peer(p) = n /\ p # n
  BY Peers
<1>2. K[n][i].sd = s =>
        /\ Inbox(K[n][i], x.q[n])
        /\ \A l \in Slots :
              /\ K[p][l].sd = s =>
                    /\ Paired(K[n][i], K[p][l], x.q[n], x.q[p])
                    /\ Inbox(K[p][l], x.q[p])
              /\ K[p][l].replacing_sd = s => Handed(K[n][i], K[p][l], x.q[n], x.q[p])
  BY <1>1 DEF SockOK, BothEnds
<1>3. K[n][i].replacing_sd = s =>
        \A l \in Slots :
            /\ K[p][l].sd = s =>
                  Handed(K[p][l], K[n][i], x.q[p], x.q[n]) /\ Inbox(K[p][l], x.q[p])
            /\ K[p][l].replacing_sd # s
  BY <1>1 DEF SockOK, BothEnds
<1>4. x.end[p] = "pending" =>
        /\ Len(x.q[n]) = 0 /\ Len(x.q[p]) = 0
        /\ K[n][i].replacing_sd # s
        /\ K[n][i].sd = s => K[n][i].state = "CONNECTING_WAIT_BANNER"
  BY <1>1 DEF SockOK, Unaccepted
<1> QED
  BY <1>1, <1>2, <1>3, <1>4

\* Connections that do not change are alike; so is one that changes nothing that
\* matters to the socket.
LEMMA AlikeOthers ==
    ASSUME NEW K, NEW K1, NEW n \in Node, NEW i \in Slots, Moves(K, K1, n, i), NEW s,
           Alike(K[n][i], K1[n][i], s)
    PROVE  \A j \in Slots : Alike(K[n][j], K1[n][j], s)
BY DEF Moves, Alike, SameHold, SameEnd

\* Nothing that matters to a socket changes.
LEMMA SocketsSame ==
    ASSUME NEW K, NEW K1, NEW S, AllSocks(K, S), NEW n \in Node, NEW i \in Slots,
           Moves(K, K1, n, i), SameHold(K[n][i], K1[n][i]),
           \/ SameEnd(K[n][i], K1[n][i])
           \/ K[n][i].sd = None /\ K1[n][i].sd = None
    PROVE  AllSocks(K1, S)
<1> SUFFICES ASSUME NEW s \in Socks PROVE SockOK(K1, S[s], s)
  BY DEF AllSocks
<1>1. Alike(K[n][i], K1[n][i], s)
  BY SocketsPositive DEF Alike
<1>2. \A j \in Slots : Alike(K[n][j], K1[n][j], s)
  BY <1>1, AlikeOthers
<1> QED
  BY <1>2, OtherSocket DEF Moves, AllSocks

\* Whoever went well with c, which had qn to read, goes well with d, which has qn1.
GoesOn(c, d, qn, qp, qn1, qp1) ==
    /\ Inbox(d, qn1)
    /\ \A x : Paired(c, x, qn, qp) /\ Inbox(x, qp) =>
                 Paired(d, x, qn1, qp1) /\ Inbox(x, qp1)
    /\ \A x : Handed(c, x, qn, qp) => Handed(d, x, qn1, qp1)

\* The connection reads from its socket or writes to it.
LEMMA SocketsServed ==
    ASSUME NEW K, NEW K1, NEW S, NEW S1, AllSocks(K, S), NEW n \in Node, NEW i \in Slots,
           NEW s \in Socks, Moves(K, K1, n, i), SameHold(K[n][i], K1[n][i]),
           K[n][i].sd = s, K1[n][i].sd = s,
           \A t \in Socks \ {s} : S1[t] = S[t],
           S1[s].end = S[s].end,
           K[n][i].state # "CONNECTING_WAIT_BANNER" \/ Len(S[s].q[n]) # 0,
           GoesOn(K[n][i], K1[n][i], S[s].q[n], S[s].q[Peer(n)], S1[s].q[n], S1[s].q[Peer(n)])
    PROVE  AllSocks(K1, S1)
<1> SUFFICES ASSUME NEW t \in Socks PROVE SockOK(K1, S1[t], t)
  BY DEF AllSocks
<1>1. SockOK(K, S[t], t) /\ SockOK(K, S[s], s)
  BY DEF AllSocks
<1>2. CASE t # s
  <2>1. Alike(K[n][i], K1[n][i], t)
    BY <1>2 DEF Alike
  <2>2. \A j \in Slots : Alike(K[n][j], K1[n][j], t)
    BY <2>1, AlikeOthers
  <2>3. S1[t] = S[t]
    BY <1>2
  <2> QED
    BY <1>1, <2>2, <2>3, OtherSocket DEF Moves
<1>3. CASE t = s
  <2>1. /\ \A j \in Slots \ {i} : ~Uses(K[n][j], s)
        /\ S[s].end[n] = "open" /\ K[n][i].replacing_sd # s
    BY <1>1, OnlyUser DEF Uses
  <2>2. \A j \in Slots \ {i} : ~Uses(K1[n][j], s)
    BY <2>1 DEF Moves
  <2>3. K1[n][i].replacing_sd # s
    BY <2>1 DEF SameHold
  <2>4. \A l \in Slots : K[Peer(n)][l].sd = s =>
            /\ Paired(K1[n][i], K[Peer(n)][l], S1[s].q[n], S1[s].q[Peer(n)])
            /\ Inbox(K[Peer(n)][l], S1[s].q[Peer(n)])
    BY <1>1, OtherEnd DEF GoesOn
  <2>5. \A l \in Slots : K[Peer(n)][l].replacing_sd = s =>
            Handed(K1[n][i], K[Peer(n)][l], S1[s].q[n], S1[s].q[Peer(n)])
    BY <1>1, OtherEnd DEF GoesOn
  <2>7. S1[s].end[Peer(n)] # "pending" /\ Inbox(K1[n][i], S1[s].q[n])
    BY <1>1, OtherEnd DEF GoesOn
  <2>6. Served(K, K1, n, i, s, S[s], S1[s])
    BY <2>1, <2>2, <2>3, <2>4, <2>5, <2>7 DEF Served, Moves
  <2> QED
    BY <1>1, <1>3, <2>6, HasSocket
<1> QED
  BY <1>2, <1>3

\* The connection gives its socket up, and with it perhaps the one that it was to
\* take over.
LEMMA SocketsLeft ==
    ASSUME NEW K, NEW K1, NEW S, NEW S1, AllSocks(K, S), NEW n \in Node, NEW i \in Slots,
           Moves(K, K1, n, i), K1[n][i].sd = None,
           \/ K1[n][i].replacing_sd = None
           \/ SameHold(K[n][i], K1[n][i]),
           \A t \in Socks :
               \/ S1[t] = S[t]
               \/ ~Uses(K1[n][i], t) /\ Uses(K[n][i], t) /\ Shut(S[t], S1[t], n)
    PROVE  AllSocks(K1, S1)
<1> SUFFICES ASSUME NEW t \in Socks PROVE SockOK(K1, S1[t], t)
  BY DEF AllSocks
<1>0. SockOK(K, S[t], t) /\ t # None
  BY SocketsPositive DEF AllSocks
<1>1. CASE ~Uses(K1[n][i], t) /\ Uses(K[n][i], t)
  <2>1. \A j \in Slots \ {i} : ~Uses(K[n][j], t)
    BY <1>0, <1>1, OnlyUser
  <2>2. \A j \in Slots : ~Uses(K1[n][j], t)
    BY <1>1, <2>1 DEF Moves
  <2>3. S1[t] = S[t] \/ Shut(S[t], S1[t], n)
    OBVIOUS
  <2> QED
    BY <1>0, <2>2, <2>3, LeaveSocket DEF Moves
<1>2. CASE ~(~Uses(K1[n][i], t) /\ Uses(K[n][i], t))
  <2>1. S1[t] = S[t]
    BY <1>2
  <2>2. Alike(K[n][i], K1[n][i], t)
    <3>1. CASE ~Uses(K1[n][i], t)
      BY <1>2, <3>1 DEF Alike
    <3>2. CASE Uses(K1[n][i], t)
      <4>1. K1[n][i].replacing_sd = t /\ SameHold(K[n][i], K1[n][i])
        BY <1>0, <3>2 DEF Uses
      <4>2. K[n][i].replacing_sd = t
        BY <4>1 DEF SameHold
      <4>3. K[n][i].sd # t
        BY <1>0, <4>2, OnlyUser DEF Uses
      <4> QED
        BY <1>0, <4>1, <4>3 DEF Alike
    <3> QED
      BY <3>1, <3>2
  <2>3. \A j \in Slots : Alike(K[n][j], K1[n][j], t)
    BY <2>2, AlikeOthers
  <2> QED
    BY <1>0, <2>1, <2>3, OtherSocket DEF Moves
<1> QED
  BY <1>1, <1>2

\* The connection takes over the socket that it was handed, and tells the peer to
\* try again.
TakesOver(K, K1, S, S1, n, i, s, r) ==
    /\ AllSocks(K, S) /\ Moves(K, K1, n, i)
    /\ K[n][i].replacing = 1 /\ K[n][i].replacing_sd = s
    /\ K1[n][i].sd = s /\ K1[n][i].replacing_sd = None
    /\ K1[n][i].state = "ACCEPTING_WAIT_CONNECT_MSG"
    /\ \A t \in Socks \ {s} : \/ S1[t] = S[t]
                              \/ K[n][i].sd = t /\ Shut(S[t], S1[t], n)
    /\ S1[s].end = S[s].end /\ S1[s].q[n] = S[s].q[n]
    /\ S[s].q[Peer(n)] \in Seq(Items) /\ K[n][i].replacing_cseq \in Nat
    /\ r = Reply("RETRY_SESSION", K[n][i].replacing_cseq + 1, 0, 0, "no")
    /\ \/ S1[s].q[Peer(n)] = S[s].q[Peer(n)]
       \/ S1[s].q[Peer(n)] = Append(S[s].q[Peer(n)], r)

\* ... and all sockets are all right afterwards.
LEMMA SocketsTaken ==
    ASSUME NEW K, NEW K1, NEW S, NEW S1, NEW n \in Node, NEW i \in Slots,
           NEW s \in Socks, NEW r, TakesOver(K, K1, S, S1, n, i, s, r)
    PROVE  AllSocks(K1, S1)
<1>h. /\ AllSocks(K, S) /\ Moves(K, K1, n, i)
      /\ K[n][i].replacing = 1 /\ K[n][i].replacing_sd = s
      /\ K1[n][i].sd = s /\ K1[n][i].replacing_sd = None
      /\ K1[n][i].state = "ACCEPTING_WAIT_CONNECT_MSG"
      /\ \A t \in Socks \ {s} : \/ S1[t] = S[t]
                                \/ K[n][i].sd = t /\ Shut(S[t], S1[t], n)
      /\ S1[s].end = S[s].end /\ S1[s].q[n] = S[s].q[n]
      /\ S[s].q[Peer(n)] \in Seq(Items) /\ K[n][i].replacing_cseq \in Nat
      /\ r = Reply("RETRY_SESSION", K[n][i].replacing_cseq + 1, 0, 0, "no")
      /\ \/ S1[s].q[Peer(n)] = S[s].q[Peer(n)]
         \/ S1[s].q[Peer(n)] = Append(S[s].q[Peer(n)], r)
  BY DEF TakesOver
<1> USE <1>h
<1> SUFFICES ASSUME NEW t \in Socks PROVE SockOK(K1, S1[t], t)
  BY DEF AllSocks
<1>0. SockOK(K, S[t], t) /\ SockOK(K, S[s], s) /\ t # None
  BY SocketsPositive DEF AllSocks
<1>1. CASE t # s
  <2>1. ~Uses(K1[n][i], t)
    BY <1>0, <1>1 DEF Uses
  <2>2. CASE Uses(K[n][i], t)
    <3>1. \A j \in Slots \ {i} : ~Uses(K[n][j], t)
      BY <1>0, <2>2, OnlyUser
    <3>2. \A j \in Slots : ~Uses(K1[n][j], t)
      BY <2>1, <3>1 DEF Moves
    <3>3. S1[t] = S[t] \/ Shut(S[t], S1[t], n)
      BY <1>1
    <3> QED
      BY <1>0, <3>2, <3>3, LeaveSocket DEF Moves
  <2>3. CASE ~Uses(K[n][i], t)
    <3>1. Alike(K[n][i], K1[n][i], t)
      BY <2>1, <2>3 DEF Alike
    <3>2. \A j \in Slots : Alike(K[n][j], K1[n][j], t)
      BY <3>1, AlikeOthers
    <3>3. S1[t] = S[t]
      BY <1>1, <2>3 DEF Uses
    <3> QED
      BY <1>0, <3>2, <3>3, OtherSocket DEF Moves
  <2> QED
    BY <2>2, <2>3
<1>2. CASE t = s
  <2>1. /\ \A j \in Slots \ {i} : ~Uses(K[n][j], s)
        /\ S[s].end[n] = "open"
    BY <1>0, OnlyUser DEF Uses
  <2>2. \A j \in Slots \ {i} : ~Uses(K1[n][j], s)
    BY <2>1 DEF Moves
  <2>3. S[s].end[Peer(n)] # "pending"
    BY <1>0, OtherEnd
  <2>4. Inbox(K1[n][i], S1[s].q[n])
    BY DEF Inbox
  <2>5. ASSUME NEW l \in Slots, K[Peer(n)][l].sd = s
        PROVE  /\ Paired(K1[n][i], K[Peer(n)][l], S1[s].q[n], S1[s].q[Peer(n)])
               /\ Inbox(K[Peer(n)][l], S1[s].q[Peer(n)])
    <3> PICK e, qp, qp1, qn : /\ e = K[Peer(n)][l] /\ qn = S[s].q[n]
                              /\ qp = S[s].q[Peer(n)] /\ qp1 = S1[s].q[Peer(n)]
      OBVIOUS
    <3>1. Handed(e, K[n][i], qp, qn)
      BY <1>0, <2>5, OtherEnd
    <3>2. /\ e.state = "CONNECTING_WAIT_CONNECT_REPLY" /\ Len(qp) = 0 /\ Len(qn) = 0
          /\ K[n][i].replacing_cseq = e.connect_seq
      BY <3>1 DEF Handed
    <3>3. r.kind = "reply" /\ r.tag = "RETRY_SESSION" /\ r.cseq = K[n][i].replacing_cseq + 1
      BY DEF Reply
    <3>4. Len(qp1) \in {0, 1} /\ \A k \in 1 .. Len(qp1) : k = 1 /\ qp1[k] = r
      <4>1. CASE qp1 = qp
        BY <3>2, <4>1
      <4>2. CASE qp1 = Append(qp, r)
        <5>1. Len(qp1) = 1 /\ qp1[1] = r
          BY <3>2, <4>2
        <5> QED
          BY <5>1
      <4> QED
        BY <4>1, <4>2
    <3>5. Talk(e, K1[n][i], qp1, qn)
      BY <3>2, <3>3, <3>4 DEF Talk
    <3>6. Fits(r, e.connect_seq)
      BY <3>2, <3>3 DEF Fits
    <3>7. Inbox(e, qp1)
      BY <3>2, <3>4, <3>6 DEF Inbox
    <3> QED
      BY <3>5, <3>7 DEF Paired
  <2>6. \A l \in Slots : K[Peer(n)][l].replacing_sd # s
    BY <1>0, OtherEnd
  <2>7. K1[n][i].replacing_sd # s
    BY <1>0, <1>2
  <2>8. /\ K1[Peer(n)] = K[Peer(n)] /\ S1[s].end[n] = "open"
        /\ S[s].end[Peer(n)] = "open" => S1[s].end[Peer(n)] = "open"
    BY <2>1 DEF Moves
  <2>9. S1[s].end[Peer(n)] = "pending" =>
            /\ Len(S1[s].q[n]) = 0 /\ Len(S1[s].q[Peer(n)]) = 0
            /\ K1[n][i].state = "CONNECTING_WAIT_BANNER"
    BY <2>3
  <2>10. \A l \in Slots : K[Peer(n)][l].sd = s =>
            /\ Paired(K1[n][i], K[Peer(n)][l], S1[s].q[n], S1[s].q[Peer(n)])
            /\ Inbox(K[Peer(n)][l], S1[s].q[Peer(n)])
    BY <2>5
  <2>11. \A l \in Slots : K[Peer(n)][l].replacing_sd = s =>
            Handed(K1[n][i], K[Peer(n)][l], S1[s].q[n], S1[s].q[Peer(n)])
    BY <2>6
  <2>12. Served(K, K1, n, i, s, S[s], S1[s])
    BY <2>2, <2>4, <2>7, <2>8, <2>9, <2>10, <2>11, Zenon DEF Served
  <2> QED
    BY <1>0, <1>2, <2>12, HasSocket
<1> QED
  BY <1>1, <1>2

\* The connection hands its socket, from which it has read an attempt, to connection
\* e of its node.
LEMMA SocketsHanded ==
    ASSUME NEW K, NEW K1, NEW S, NEW S1, AllSocks(K, S), NEW n \in Node, NEW i \in Slots,
           NEW e \in Slots \ {i}, NEW s \in Socks,
           \A j \in Slots \ {i, e} : K1[n][j] = K[n][j], K1[Peer(n)] = K[Peer(n)],
           K[n][i].sd = s, K[n][i].state = "ACCEPTING_WAIT_CONNECT_MSG",
           K1[n][i].sd = None, K1[n][i].replacing_sd = None,
           SameEnd(K[n][e], K1[n][e]), K1[n][e].replacing_sd = s,
           K1[n][e].replacing_cseq = S[s].q[n][1].cseq,
           \A t \in Socks \ {s} : S1[t] = S[t],
           S1[s].end = S[s].end, S1[s].q[Peer(n)] = S[s].q[Peer(n)],
           Len(S[s].q[n]) \in Nat \ {0}, Len(S[s].q[Peer(n)]) \in Nat,
           Len(S1[s].q[n]) = Len(S[s].q[n]) - 1
    PROVE  AllSocks(K1, S1)
<1> SUFFICES ASSUME NEW t \in Socks PROVE SockOK(K1, S1[t], t)
  BY DEF AllSocks
<1>0. SockOK(K, S[t], t) /\ SockOK(K, S[s], s) /\ t # None
  BY SocketsPositive DEF AllSocks
<1>1. CASE t # s
  <2>0. ~Uses(K1[n][i], t) /\ K1[n][e].replacing_sd # t
    BY <1>0, <1>1 DEF Uses
  <2>1. S1[t] = S[t]
    BY <1>1
  <2>2. CASE K[n][i].replacing_sd = t
    <3>1. \A j \in Slots \ {i} : ~Uses(K[n][j], t)
      BY <1>0, <2>2, OnlyUser DEF Uses
    <3>2. \A j \in Slots : ~Uses(K1[n][j], t)
      BY <2>0, <3>1 DEF Uses, SameEnd
    <3> QED
      BY <1>0, <2>1, <3>2, LeaveSocket
  <2>3. CASE K[n][e].replacing_sd = t
    <3>1. (\A j \in Slots \ {e} : ~Uses(K[n][j], t)) /\ K[n][e].sd # t
      BY <1>0, <2>3, OnlyUser DEF Uses
    <3>2. \A j \in Slots : ~Uses(K1[n][j], t)
      BY <2>0, <3>1 DEF Uses, SameEnd
    <3> QED
      BY <1>0, <2>1, <3>2, LeaveSocket
  <2>4. CASE K[n][i].replacing_sd # t /\ K[n][e].replacing_sd # t
    <3>1. Alike(K[n][i], K1[n][i], t)
      BY <1>1, <2>0, <2>4 DEF Alike, Uses
    <3>2. Alike(K[n][e], K1[n][e], t)
      BY <2>0, <2>4 DEF Alike
    <3>3. \A j \in Slots : Alike(K[n][j], K1[n][j], t)
      <4>1. \A j \in Slots \ {i, e} : Alike(K[n][j], K1[n][j], t)
        BY DEF Alike, SameEnd, SameHold
      <4> QED
        BY <3>1, <3>2, <4>1
    <3> QED
      BY <1>0, <2>1, <3>3, OtherSocket
  <2> QED
    BY <2>2, <2>3, <2>4
<1>2. CASE t = s
  <2>1. (\A j \in Slots \ {i} : ~Uses(K[n][j], s)) /\ S[s].end[n] = "open"
    BY <1>0, OnlyUser DEF Uses
  <2>2. \A j \in Slots \ {e} : ~Uses(K1[n][j], s)
    BY <1>0, <1>2, <2>1 DEF Uses
  <2>3. K1[n][e].sd # s
    BY <2>1 DEF Uses, SameEnd
  <2>4. S[s].end[Peer(n)] # "pending"
    BY <1>0, OtherEnd
  <2>5. ASSUME NEW l \in Slots, K[Peer(n)][l].sd = s
        PROVE  /\ Handed(K[Peer(n)][l], K1[n][e], S1[s].q[Peer(n)], S1[s].q[n])
               /\ Inbox(K[Peer(n)][l], S1[s].q[Peer(n)])
    <3> PICK f, qp, qn : f = K[Peer(n)][l] /\ qn = S[s].q[n] /\ qp = S[s].q[Peer(n)]
      OBVIOUS
    <3>1. Paired(K[n][i], f, qn, qp) /\ Inbox(f, qp)
      BY <1>0, <2>5, OtherEnd
    <3>2. Talk(f, K[n][i], qp, qn)
      BY <3>1 DEF Paired, Talk
    <3>3. /\ f.state = "CONNECTING_WAIT_CONNECT_REPLY" /\ Len(qp) + Len(qn) <= 1
          /\ \A k \in 1 .. Len(qn) : qn[k].cseq = f.connect_seq
      BY <3>2 DEF Talk
    <3>4. Len(qp) \in Nat /\ Len(qn) \in Nat \ {0} /\ Len(S1[s].q[n]) = Len(qn) - 1
      OBVIOUS
    <3>5. Len(qp) = 0 /\ Len(qn) = 1
      <4>1. \A a \in Nat, b \in Nat \ {0} : a + b <= 1 => a = 0 /\ b = 1
        OBVIOUS
      <4> QED
        BY <3>3, <3>4, <4>1, Zenon
    <3>6. Len(S1[s].q[n]) = 0 /\ qn[1].cseq = f.connect_seq
      BY <3>3, <3>4, <3>5
    <3> QED
      BY <3>1, <3>3, <3>5, <3>6 DEF Handed
  <2>6. \A l \in Slots : K[Peer(n)][l].replacing_sd # s
    BY <1>0, OtherEnd DEF Handed
  <2>7. /\ S1[s].end[n] = "open" /\ S1[s].end[Peer(n)] # "pending"
        /\ S[s].end[Peer(n)] = "open" => S1[s].end[Peer(n)] = "open"
    BY <2>1, <2>4
  <2>8. \A l \in Slots : K[Peer(n)][l].sd = s =>
            /\ Handed(K[Peer(n)][l], K1[n][e], S1[s].q[Peer(n)], S1[s].q[n])
            /\ Inbox(K[Peer(n)][l], S1[s].q[Peer(n)])
    BY <2>5
  <2>9. K1[Peer(n)] = K[Peer(n)] /\ K1[n][e].replacing_sd = s
    OBVIOUS
  <2>10. Held(K, K1, n, e, s, S[s], S1[s])
    BY <2>2, <2>3, <2>6, <2>7, <2>8, <2>9, Zenon DEF Held
  <2> QED
    BY <1>0, <1>2, <2>10, HoldsSocket
<1> QED
  BY <1>1, <1>2

\* The connection opens a new socket.
LEMMA SocketsConnect ==
    ASSUME NEW K, NEW K1, NEW S, NEW S1, AllSocks(K, S), NEW n \in Node, NEW i \in Slots,
           NEW s \in Socks, Moves(K, K1, n, i), SameHold(K[n][i], K1[n][i]),
           K[n][i].sd = None, K1[n][i].sd = s,
           K1[n][i].state = "CONNECTING_WAIT_BANNER",
           \A m \in Node : S[s].end[m] = "closed",
           \A t \in Socks \ {s} : S1[t] = S[t],
           S1[s].end[n] = "open", S1[s].end[Peer(n)] = "pending",
           Len(S1[s].q[n]) = 0, Len(S1[s].q[Peer(n)]) = 0
    PROVE  AllSocks(K1, S1)
<1> SUFFICES ASSUME NEW t \in Socks PROVE SockOK(K1, S1[t], t)
  BY DEF AllSocks
<1>0. SockOK(K, S[t], t) /\ SockOK(K, S[s], s) /\ t # None
  BY SocketsPositive DEF AllSocks
<1>1. CASE t # s
  <2>1. Alike(K[n][i], K1[n][i], t)
    BY <1>0, <1>1 DEF Alike
  <2>2. \A j \in Slots : Alike(K[n][j], K1[n][j], t)
    BY <2>1, AlikeOthers
  <2>3. S1[t] = S[t]
    BY <1>1
  <2> QED
    BY <1>0, <2>2, <2>3, OtherSocket DEF Moves
<1>2. CASE t = s
  <2>1. \A m \in Node, j \in Slots : ~Uses(K[m][j], s)
    BY <1>0, OnlyUser
  <2>2. Peer(n) \in Node
    BY Peers
  <2>3. (\A j \in Slots \ {i} : ~Uses(K1[n][j], s)) /\ K1[n][i].replacing_sd # s
    BY <2>1 DEF Moves, SameHold, Uses
  <2>4. \A l \in Slots : K[Peer(n)][l].sd # s /\ K[Peer(n)][l].replacing_sd # s
    BY <2>1, <2>2 DEF Uses
  <2>5. Inbox(K1[n][i], S1[s].q[n])
    BY DEF Inbox
  <2>6. S[s].end[Peer(n)] # "open"
    BY <2>2
  <2>7. /\ K1[Peer(n)] = K[Peer(n)]
        /\ S[s].end[Peer(n)] = "open" => S1[s].end[Peer(n)] = "open"
    BY <2>6 DEF Moves
  <2>9. \A l \in Slots : K[Peer(n)][l].sd = s =>
            /\ Paired(K1[n][i], K[Peer(n)][l], S1[s].q[n], S1[s].q[Peer(n)])
            /\ Inbox(K[Peer(n)][l], S1[s].q[Peer(n)])
    BY <2>4
  <2>10. \A l \in Slots : K[Peer(n)][l].replacing_sd = s =>
            Handed(K1[n][i], K[Peer(n)][l], S1[s].q[n], S1[s].q[Peer(n)])
    BY <2>4
  <2>11. S1[s].end[Peer(n)] = "pending" =>
            /\ Len(S1[s].q[n]) = 0 /\ Len(S1[s].q[Peer(n)]) = 0
            /\ K1[n][i].state = "CONNECTING_WAIT_BANNER"
    OBVIOUS
  <2>12. Served(K, K1, n, i, s, S[s], S1[s])
    BY <2>3, <2>5, <2>7, <2>9, <2>10, <2>11, Zenon DEF Served
  <2> QED
    BY <1>0, <1>2, <2>12, HasSocket
<1> QED
  BY <1>1, <1>2

\* Connection i of n, which had no socket, accepts s and sends the banner b.
Accepts(K, K1, S, S1, n, i, s, b) ==
    /\ AllSocks(K, S) /\ Moves(K, K1, n, i)
    /\ K[n][i].sd = None /\ K1[n][i].sd = s /\ K1[n][i].replacing_sd = None
    /\ K1[n][i].state = "ACCEPTING_WAIT_CONNECT_MSG"
    /\ S[s].end[n] = "pending"
    /\ \A t \in Socks \ {s} : S1[t] = S[t]
    /\ S1[s].end[n] = "open" /\ S1[s].end[Peer(n)] = S[s].end[Peer(n)]
    /\ S1[s].q[n] = S[s].q[n] /\ S[s].q[Peer(n)] \in Seq(Items)
    /\ b.kind = "banner"
    /\ \/ S1[s].q[Peer(n)] = S[s].q[Peer(n)]
       \/ S1[s].q[Peer(n)] = Append(S[s].q[Peer(n)], b)

\* ... and all sockets are all right afterwards.
LEMMA SocketsAccept ==
    ASSUME NEW K, NEW K1, NEW S, NEW S1, NEW n \in Node, NEW i \in Slots, NEW s \in Socks,
           NEW b, Accepts(K, K1, S, S1, n, i, s, b)
    PROVE  AllSocks(K1, S1)
<1> SUFFICES ASSUME
       AllSocks(K, S), Moves(K, K1, n, i),
       K[n][i].sd = None, K1[n][i].sd = s, K1[n][i].replacing_sd = None,
       K1[n][i].state = "ACCEPTING_WAIT_CONNECT_MSG",
       S[s].end[n] = "pending",
       \A t \in Socks \ {s} : S1[t] = S[t],
       S1[s].end[n] = "open", S1[s].end[Peer(n)] = S[s].end[Peer(n)],
       S1[s].q[n] = S[s].q[n], S[s].q[Peer(n)] \in Seq(Items),
       b.kind = "banner",
       \/ S1[s].q[Peer(n)] = S[s].q[Peer(n)]
       \/ S1[s].q[Peer(n)] = Append(S[s].q[Peer(n)], b)
     PROVE AllSocks(K1, S1)
  BY DEF Accepts
<1> SUFFICES ASSUME NEW t \in Socks PROVE SockOK(K1, S1[t], t)
  BY DEF AllSocks
<1>0. SockOK(K, S[t], t) /\ SockOK(K, S[s], s) /\ t # None
  BY SocketsPositive DEF AllSocks
<1>1. CASE t # s
  <2>1. ~Uses(K1[n][i], t) /\ S1[t] = S[t]
    BY <1>0, <1>1 DEF Uses
  <2>2. CASE Uses(K[n][i], t)
    <3>1. \A j \in Slots \ {i} : ~Uses(K[n][j], t)
      BY <1>0, <2>2, OnlyUser
    <3>2. \A j \in Slots : ~Uses(K1[n][j], t)
      BY <2>1, <3>1 DEF Moves
    <3> QED
      BY <1>0, <2>1, <3>2, LeaveSocket DEF Moves
  <2>3. CASE ~Uses(K[n][i], t)
    <3>1. Alike(K[n][i], K1[n][i], t)
      BY <2>1, <2>3 DEF Alike
    <3>2. \A j \in Slots : Alike(K[n][j], K1[n][j], t)
      BY <3>1, AlikeOthers
    <3> QED
      BY <1>0, <2>1, <3>2, OtherSocket DEF Moves
  <2> QED
    BY <2>2, <2>3
<1>2. CASE t = s
  <2> PICK p \in Node : p = Peer(n) /\ Peer(p) = n /\ p # n
    BY Peers
  <2>1. \A j \in Slots : ~Uses(K[n][j], s)
    BY <1>0, OnlyUser
  <2>2. \A j \in Slots \ {i} : ~Uses(K1[n][j], s)
    BY <2>1 DEF Moves
  <2>3. /\ Len(S[s].q[n]) = 0 /\ Len(S[s].q[p]) = 0 /\ S[s].end[p] = "open"
        /\ \A l \in Slots : /\ K[p][l].replacing_sd # s
                            /\ K[p][l].sd = s => K[p][l].state = "CONNECTING_WAIT_BANNER"
    BY <1>0 DEF SockOK, Unaccepted
  <2>4. Len(S1[s].q[p]) \in {0, 1} /\ \A k \in 1 .. Len(S1[s].q[p]) : S1[s].q[p][k] = b
    <3>1. CASE S1[s].q[p] = S[s].q[p]
      BY <2>3, <3>1
    <3>2. CASE S1[s].q[p] = Append(S[s].q[p], b)
      <4>1. Len(S1[s].q[p]) = 1 /\ S1[s].q[p][1] = b
        BY <2>3, <3>2
      <4> QED
        BY <4>1
    <3> QED
      BY <3>1, <3>2
  <2>5. Inbox(K1[n][i], S1[s].q[n])
    BY DEF Inbox
  <2>6. ASSUME NEW l \in Slots, K[p][l].sd = s
        PROVE  /\ Paired(K1[n][i], K[p][l], S1[s].q[n], S1[s].q[p])
               /\ Inbox(K[p][l], S1[s].q[p])
    <3>0. /\ K[p][l].state = "CONNECTING_WAIT_BANNER"
          /\ K1[n][i].state = "ACCEPTING_WAIT_CONNECT_MSG"
          /\ Len(S1[s].q[p]) <= 1 /\ Len(S1[s].q[n]) = 0
      BY <2>3, <2>4, <2>6
    <3>1. Talk(K[p][l], K1[n][i], S1[s].q[p], S1[s].q[n])
      BY <3>0, Zenon DEF Talk
    <3>2. Inbox(K[p][l], S1[s].q[p])
      BY <2>3, <2>4, <2>6 DEF Inbox
    <3> QED
      BY <3>1, <3>2 DEF Paired
  <2>7. K1[n][i].replacing_sd # s
    BY <1>0, <1>2
  <2>8. K1[Peer(n)] = K[Peer(n)] /\ S1[s].end[Peer(n)] = "open"
    BY <2>3 DEF Moves
  <2>9. S1[s].end[Peer(n)] = "pending" =>
            /\ Len(S1[s].q[n]) = 0 /\ Len(S1[s].q[Peer(n)]) = 0
            /\ K1[n][i].state = "CONNECTING_WAIT_BANNER"
    BY <2>8
  <2>10. \A l \in Slots : K[Peer(n)][l].sd = s =>
            /\ Paired(K1[n][i], K[Peer(n)][l], S1[s].q[n], S1[s].q[Peer(n)])
            /\ Inbox(K[Peer(n)][l], S1[s].q[Peer(n)])
    BY <2>6
  <2>11. \A l \in Slots : K[Peer(n)][l].replacing_sd = s =>
            Handed(K1[n][i], K[Peer(n)][l], S1[s].q[n], S1[s].q[Peer(n)])
    BY <2>3
  <2>12. Served(K, K1, n, i, s, S[s], S1[s])
    BY <2>2, <2>5, <2>7, <2>8, <2>9, <2>10, <2>11, Zenon DEF Served
  <2> QED
    BY <1>0, <1>2, <2>12, HasSocket
<1> QED
  BY <1>1, <1>2

-----------------------------------------------------------------------------
(***************************************************************************)
(* Operations on a connection.                                             *)
(***************************************************************************)
\* requeue_sent: what was sent is queued again, before the rest.
LEMMA RequeueNumbers ==
    ASSUME NEW max, NEW out \in Nat, NEW S \in Seq(MsgTypes(max)),
           NEW Q \in Seq(MsgTypes(max)), Numbers(out, S, Q)
    PROVE  /\ out - Len(S) \in Nat /\ S \o Q \in Seq(MsgTypes(max))
           /\ Numbers(out - Len(S), <<>>, S \o Q)
<1> PICK M : M = MsgTypes(max)
  OBVIOUS
<1>1. S \in Seq(M) /\ Q \in Seq(M) /\ \A m \in M : m.seq \in Nat
  BY DEF MsgTypes
<1>2. /\ Len(S) \in Nat /\ Len(Q) \in Nat /\ Len(S) <= out
      /\ \A k \in 1 .. Len(S) : S[k] \in M /\ S[k].seq = out - Len(S) + k
      /\ \A k \in 1 .. Len(Q) : Q[k] \in M
  BY <1>1 DEF Numbers
<1> PICK T : T = S \o Q
  OBVIOUS
<1>3. /\ T \in Seq(M) /\ Len(T) = Len(S) + Len(Q)
      /\ \A k \in 1 .. Len(T) : T[k] = IF k <= Len(S) THEN S[k] ELSE Q[k - Len(S)]
  BY <1>1
<1> PICK a, b : a = Len(S) /\ b = Len(Q)
  OBVIOUS
<1>4. \A k \in 1 .. Len(T) :
          \/ k \in 1 .. a /\ T[k] = S[k] /\ T[k].seq = out - a + k
          \/ k - a \in 1 .. b /\ k > a /\ T[k] = Q[k - a]
  BY <1>2, <1>3
<1>5. \A k \in 1 .. Len(T) : T[k].seq # 0 => T[k].seq = (out - a) + k
  <2> SUFFICES ASSUME NEW k \in 1 .. Len(T), T[k].seq # 0
               PROVE  T[k].seq = (out - a) + k
    OBVIOUS
  <2>1. CASE k - a \in 1 .. b /\ T[k] = Q[k - a]
    <3>1. Q[k - a].seq = out + (k - a)
      BY <2>1 DEF Numbers
    <3> QED
      BY <1>2, <2>1, <3>1
  <2> QED
    BY <1>4, <2>1
<1>6. \A j, k \in 1 .. Len(T) : j < k /\ T[j].seq = 0 => T[k].seq = 0
  <2> SUFFICES ASSUME NEW j \in 1 .. Len(T), NEW k \in 1 .. Len(T), j < k, T[j].seq = 0
               PROVE  T[k].seq = 0
    OBVIOUS
  <2>1. ~(j \in 1 .. a /\ T[j].seq = out - a + j)
    BY <1>2
  <2>2. j - a \in 1 .. b /\ j > a /\ T[j] = Q[j - a]
    BY <1>4, <2>1
  <2>3. k - a \in 1 .. b /\ T[k] = Q[k - a]
    BY <1>2, <1>4, <2>2
  <2>4. j - a < k - a
    BY <1>2, <2>2, <2>3
  <2> QED
    BY <2>2, <2>3, <2>4 DEF Numbers
<1> QED
  BY <1>2, <1>3, <1>5, <1>6, SMTT(30) DEF Numbers

\* The first message that seq does not acknowledge.
LEMMA PrefixBounds ==
    ASSUME NEW M, NEW Q \in Seq(M), NEW seq
    PROVE  AckedPrefix(Q, seq) \in 0 .. Len(Q)
<1> PICK rest : rest = {k \in 1 .. Len(Q) : Q[k].seq = 0 \/ Q[k].seq > seq}
  OBVIOUS
<1>1. rest \subseteq Nat /\ Len(Q) \in Nat /\ rest \subseteq 1 .. Len(Q)
  OBVIOUS
<1>2. CASE rest = {}
  BY <1>1, <1>2 DEF AckedPrefix
<1>3. CASE rest # {}
  <2>1. Min(rest) \in 1 .. Len(Q)
    BY <1>1, <1>3, MinElement
  <2>2. AckedPrefix(Q, seq) = Min(rest) - 1
    BY <1>3 DEF AckedPrefix
  <2> QED
    BY <1>1, <2>1, <2>2
<1> QED
  BY <1>2, <1>3

\* The rest of a sequence after its first k elements.
LEMMA RestOf ==
    ASSUME NEW M, NEW Q \in Seq(M), NEW k \in 0 .. Len(Q), NEW R,
           R = SubSeq(Q, k + 1, Len(Q))
    PROVE  /\ R \in Seq(M) /\ Len(R) = Len(Q) - k /\ Len(Q) \in Nat
           /\ \A j \in 1 .. Len(R) : R[j] = Q[j + k] /\ j + k \in 1 .. Len(Q)
<1>1. Len(Q) \in Nat /\ \A j \in 1 .. Len(Q) : Q[j] \in M
  OBVIOUS
<1>2. \A j \in (k + 1) .. Len(Q) : Q[j] \in M
  BY <1>1
<1>3. /\ R \in Seq(M) /\ Len(R) = IF k + 1 <= Len(Q) THEN Len(Q) - (k + 1) + 1 ELSE 0
      /\ \A j \in 1 .. (Len(Q) - (k + 1) + 1) : R[j] = Q[(k + 1) + j - 1]
  BY <1>1, <1>2, SubSeqProperties
<1>4. Len(R) = Len(Q) - k
  BY <1>1, <1>3
<1> QED
  BY <1>1, <1>3, <1>4

\* discard_requeued_up_to: queued messages are dropped and counted as sent.
LEMMA DiscardNumbers ==
    ASSUME NEW max, NEW out \in Nat, NEW Q \in Seq(MsgTypes(max)),
           Numbers(out, <<>>, Q), NEW k \in 0 .. Len(Q), NEW R,
           R = SubSeq(Q, k + 1, Len(Q))
    PROVE  R \in Seq(MsgTypes(max)) /\ Numbers(out + k, <<>>, R)
<1>1. /\ R \in Seq(MsgTypes(max)) /\ Len(R) = Len(Q) - k /\ Len(Q) \in Nat
      /\ \A j \in 1 .. Len(R) : R[j] = Q[j + k] /\ j + k \in 1 .. Len(Q)
  BY RestOf
<1>2. \A j \in 1 .. Len(R) : R[j].seq # 0 => R[j].seq = (out + k) + j
  <2> SUFFICES ASSUME NEW j \in 1 .. Len(R), R[j].seq # 0
               PROVE  R[j].seq = (out + k) + j
    OBVIOUS
  <2>1. Q[j + k].seq = out + (j + k) /\ R[j].seq = Q[j + k].seq
    BY <1>1 DEF Numbers
  <2>2. out + (j + k) = (out + k) + j
    BY <1>1
  <2> QED
    BY <2>1, <2>2, Zenon
<1>3. \A i, j \in 1 .. Len(R) : i < j /\ R[i].seq = 0 => R[j].seq = 0
  <2> SUFFICES ASSUME NEW i \in 1 .. Len(R), NEW j \in 1 .. Len(R), i < j, R[i].seq = 0
               PROVE  R[j].seq = 0
    OBVIOUS
  <2>1. i + k < j + k
    BY <1>1
  <2> QED
    BY <1>1, <2>1 DEF Numbers
<1> QED
  BY <1>1, <1>2, <1>3 DEF Numbers

\* handle_ack: sent messages are dropped.
LEMMA AckNumbers ==
    ASSUME NEW max, NEW out \in Nat, NEW S \in Seq(MsgTypes(max)),
           NEW Q \in Seq(MsgTypes(max)), Numbers(out, S, Q), NEW k \in 0 .. Len(S),
           NEW R, R = SubSeq(S, k + 1, Len(S))
    PROVE  R \in Seq(MsgTypes(max)) /\ Numbers(out, R, Q)
<1>1. /\ R \in Seq(MsgTypes(max)) /\ Len(R) = Len(S) - k /\ Len(S) \in Nat
      /\ \A j \in 1 .. Len(R) : R[j] = S[j + k] /\ j + k \in 1 .. Len(S)
  BY RestOf
<1>2. \A j \in 1 .. Len(R) : R[j].seq = out - Len(R) + j
  <2> SUFFICES ASSUME NEW j \in 1 .. Len(R) PROVE R[j].seq = out - Len(R) + j
    OBVIOUS
  <2>1. R[j].seq = out - Len(S) + (j + k)
    BY <1>1 DEF Numbers
  <2>2. \A a, b \in Nat : a = b - k => out - b + (j + k) = out - a + j
    BY <1>1
  <2>3. Len(R) \in Nat
    BY <1>1
  <2> QED
    BY <1>1, <2>1, <2>2, <2>3
<1>3. Len(R) <= out
  BY <1>1 DEF Numbers
<1> QED
  BY <1>1, <1>2, <1>3 DEF Numbers

\* A message gets a number.
LEMMA NumberMessage ==
    ASSUME NEW max, NEW h \in MsgTypes(max), NEW k \in Nat
    PROVE  /\ [h EXCEPT !.seq = k] \in MsgTypes(max) /\ [h EXCEPT !.seq = k].seq = k
           /\ h.seq = k => [h EXCEPT !.seq = k] = h
BY DEF MsgTypes

\* _send: a message gets the next number; if it had one, the same.
LEMMA SendNumbers ==
    ASSUME NEW max, NEW out \in Nat, NEW S \in Seq(MsgTypes(max)),
           NEW Q \in Seq(MsgTypes(max)), Numbers(out, S, Q), Q # <<>>,
           NEW m, m = [Head(Q) EXCEPT !.seq = out + 1]
    PROVE  /\ m \in MsgTypes(max) /\ Tail(Q) \in Seq(MsgTypes(max))
           /\ Head(Q).seq # 0 => m = Head(Q)
           /\ Append(S, m) \in Seq(MsgTypes(max))
           /\ Numbers(out + 1, Append(S, m), Tail(Q))
           /\ S = <<>> => Numbers(out + 1, <<>>, Tail(Q))
<1> PICK M : M = MsgTypes(max)
  OBVIOUS
<1>1. /\ Head(Q) \in M /\ Head(Q) = Q[1] /\ Len(Q) \in Nat \ {0} /\ Tail(Q) \in Seq(M)
      /\ Len(Tail(Q)) = Len(Q) - 1
      /\ \A k \in 1 .. Len(Tail(Q)) : Tail(Q)[k] = Q[k + 1]
  OBVIOUS
<1>2. m \in M /\ m.seq = out + 1
  <2>1. Head(Q) \in MsgTypes(max) /\ out + 1 \in Nat
    BY <1>1
  <2> QED
    BY <2>1, NumberMessage
<1>3. Head(Q).seq # 0 => m = Head(Q)
  <2> SUFFICES ASSUME Head(Q).seq # 0 PROVE m = Head(Q)
    OBVIOUS
  <2>1. Head(Q).seq = out + 1
    BY <1>1 DEF Numbers
  <2> QED
    BY <1>1, <2>1 DEF MsgTypes
<1> PICK R, T : R = Tail(Q) /\ T = Append(S, m)
  OBVIOUS
<1>4. /\ T \in Seq(M) /\ Len(T) = Len(S) + 1 /\ T[Len(S) + 1] = m /\ Len(S) \in Nat
      /\ \A k \in 1 .. Len(S) : T[k] = S[k]
  BY <1>2
<1>5. \A k \in 1 .. Len(R) : R[k].seq # 0 => R[k].seq = (out + 1) + k
  <2> SUFFICES ASSUME NEW k \in 1 .. Len(R), R[k].seq # 0
               PROVE  R[k].seq = (out + 1) + k
    OBVIOUS
  <2>1. k + 1 \in 1 .. Len(Q) /\ R[k] = Q[k + 1]
    BY <1>1
  <2>2. Q[k + 1].seq = out + (k + 1)
    BY <2>1 DEF Numbers
  <2> QED
    BY <2>1, <2>2
<1>6. \A j, k \in 1 .. Len(R) : j < k /\ R[j].seq = 0 => R[k].seq = 0
  <2> SUFFICES ASSUME NEW j \in 1 .. Len(R), NEW k \in 1 .. Len(R), j < k, R[j].seq = 0
               PROVE  R[k].seq = 0
    OBVIOUS
  <2>1. /\ j + 1 \in 1 .. Len(Q) /\ R[j] = Q[j + 1] /\ j + 1 < k + 1
        /\ k + 1 \in 1 .. Len(Q) /\ R[k] = Q[k + 1]
    BY <1>1
  <2> QED
    BY <2>1 DEF Numbers
<1>7. Len(T) <= out + 1 /\ \A k \in 1 .. Len(T) : T[k].seq = (out + 1) - Len(T) + k
  <2>1. Len(S) <= out /\ \A k \in 1 .. Len(S) : S[k].seq = out - Len(S) + k
    BY DEF Numbers
  <2> QED
    BY <1>2, <1>4, <2>1
<1>8. Numbers(out + 1, T, R) /\ Numbers(out + 1, <<>>, R)
  BY <1>4, <1>5, <1>6, <1>7 DEF Numbers
<1> QED
  BY <1>1, <1>2, <1>3, <1>4, <1>8

\* A message that never had a number is queued.
LEMMA QueueNumbers ==
    ASSUME NEW max, NEW out \in Nat, NEW S \in Seq(MsgTypes(max)),
           NEW Q \in Seq(MsgTypes(max)), Numbers(out, S, Q),
           NEW m \in MsgTypes(max), m.seq = 0, NEW R, R = Append(Q, m)
    PROVE  R \in Seq(MsgTypes(max)) /\ Numbers(out, S, R)
<1>1. /\ R \in Seq(MsgTypes(max)) /\ Len(R) = Len(Q) + 1 /\ Len(Q) \in Nat
      /\ R[Len(Q) + 1] = m /\ \A k \in 1 .. Len(Q) : R[k] = Q[k]
  OBVIOUS
<1>2. \A k \in 1 .. Len(R) : k \in 1 .. Len(Q) \/ R[k].seq = 0
  BY <1>1
<1>3. \A k \in 1 .. Len(R) : R[k].seq # 0 => R[k].seq = out + k
  BY <1>1, <1>2 DEF Numbers
<1>4. \A j, k \in 1 .. Len(R) : j < k /\ R[j].seq = 0 => R[k].seq = 0
  <2> SUFFICES ASSUME NEW j \in 1 .. Len(R), NEW k \in 1 .. Len(R), j < k, R[j].seq = 0
               PROVE  R[k].seq = 0
    OBVIOUS
  <2>1. CASE k \in 1 .. Len(Q)
    BY <1>1, <2>1 DEF Numbers
  <2> QED
    BY <1>2, <2>1
<1> QED
  BY <1>1, <1>3, <1>4 DEF Numbers

\* A connection with one field changed is one.
LEMMA OneField ==
    ASSUME NEW max, NEW c \in ConnTypes(max)
    PROVE  /\ \A v \in States : [c EXCEPT !.state = v] \in ConnTypes(max)
           /\ \A v \in Handles : [c EXCEPT !.sd = v] \in ConnTypes(max)
           /\ \A v \in Nat : [c EXCEPT !.connect_seq = v] \in ConnTypes(max)
           /\ \A v \in Nat : [c EXCEPT !.global_seq = v] \in ConnTypes(max)
           /\ \A v \in Nat : [c EXCEPT !.peer_global_seq = v] \in ConnTypes(max)
           /\ \A v \in Nat : [c EXCEPT !.in_seq = v] \in ConnTypes(max)
           /\ \A v \in Nat : [c EXCEPT !.in_seq_acked = v] \in ConnTypes(max)
           /\ \A v \in Nat : [c EXCEPT !.out_seq = v] \in ConnTypes(max)
           /\ \A v \in Seq(MsgTypes(max)) : [c EXCEPT !.out_q = v] \in ConnTypes(max)
           /\ \A v \in Seq(MsgTypes(max)) : [c EXCEPT !.sent = v] \in ConnTypes(max)
           /\ \A v \in 0 .. 2 : [c EXCEPT !.replacing = v] \in ConnTypes(max)
           /\ \A v \in Handles : [c EXCEPT !.replacing_sd = v] \in ConnTypes(max)
           /\ \A v \in Nat : [c EXCEPT !.replacing_cseq = v] \in ConnTypes(max)
           /\ \A v \in ReplyTypes : [c EXCEPT !.reply = v] \in ConnTypes(max)
           /\ \A v \in SUBSET Flags : [c EXCEPT !.flags = v] \in ConnTypes(max)
<1>1. \A v \in States : [c EXCEPT !.state = v] \in ConnTypes(max)
  BY DEF ConnTypes
<1>2. \A v \in Handles : [c EXCEPT !.sd = v] \in ConnTypes(max)
  BY DEF ConnTypes
<1>3. \A v \in Nat : [c EXCEPT !.connect_seq = v] \in ConnTypes(max)
  BY DEF ConnTypes
<1>4. \A v \in Nat : [c EXCEPT !.global_seq = v] \in ConnTypes(max)
  BY DEF ConnTypes
<1>5. \A v \in Nat : [c EXCEPT !.peer_global_seq = v] \in ConnTypes(max)
  BY DEF ConnTypes
<1>6. \A v \in Nat : [c EXCEPT !.in_seq = v] \in ConnTypes(max)
  BY DEF ConnTypes
<1>7. \A v \in Nat : [c EXCEPT !.in_seq_acked = v] \in ConnTypes(max)
  BY DEF ConnTypes
<1>8. \A v \in Nat : [c EXCEPT !.out_seq = v] \in ConnTypes(max)
  BY DEF ConnTypes
<1>9. \A v \in Seq(MsgTypes(max)) : [c EXCEPT !.out_q = v] \in ConnTypes(max)
  BY DEF ConnTypes
<1>10. \A v \in Seq(MsgTypes(max)) : [c EXCEPT !.sent = v] \in ConnTypes(max)
  BY DEF ConnTypes
<1>11. \A v \in 0 .. 2 : [c EXCEPT !.replacing = v] \in ConnTypes(max)
  BY DEF ConnTypes
<1>12. \A v \in Handles : [c EXCEPT !.replacing_sd = v] \in ConnTypes(max)
  BY DEF ConnTypes
<1>13. \A v \in Nat : [c EXCEPT !.replacing_cseq = v] \in ConnTypes(max)
  BY DEF ConnTypes
<1>14. \A v \in ReplyTypes : [c EXCEPT !.reply = v] \in ConnTypes(max)
  BY DEF ConnTypes
<1>15. \A v \in SUBSET Flags : [c EXCEPT !.flags = v] \in ConnTypes(max)
  BY DEF ConnTypes
<1> QED
  BY <1>1, <1>2, <1>3, <1>4, <1>5, <1>6, <1>7, <1>8, <1>9, <1>10, <1>11, <1>12, <1>13, <1>14, <1>15

\* The record of requeue_sent.
LEMMA RequeueRecord ==
    ASSUME NEW max, NEW c \in ConnTypes(max), Numbered(c), NEW q, q = requeue_sent(c)
    PROVE  /\ q \in ConnTypes(max) /\ q.sent = <<>> /\ Numbers(q.out_seq, <<>>, q.out_q)
           /\ q.state = c.state /\ q.sd = c.sd /\ q.connect_seq = c.connect_seq
           /\ q.replacing = c.replacing /\ q.replacing_sd = c.replacing_sd
           /\ q.replacing_cseq = c.replacing_cseq /\ q.flags = c.flags
<1>1. /\ c.out_seq \in Nat /\ c.sent \in Seq(MsgTypes(max)) /\ c.out_q \in Seq(MsgTypes(max))
  BY DEF ConnTypes
<1>2. Numbers(c.out_seq, c.sent, c.out_q)
  BY DEF Numbered
<1> PICK Q, o : Q = c.sent \o c.out_q /\ o = c.out_seq - Len(c.sent)
  OBVIOUS
<1>3. o \in Nat /\ Q \in Seq(MsgTypes(max)) /\ Numbers(o, <<>>, Q)
  BY <1>1, <1>2, RequeueNumbers
<1>4. q = [c EXCEPT !.out_q = Q, !.sent = <<>>, !.out_seq = o]
  BY DEF requeue_sent
<1>5. <<>> \in Seq(MsgTypes(max))
  OBVIOUS
<1> HIDE DEF MsgTypes
<1>6. q \in ConnTypes(max)
  BY <1>3, <1>4, <1>5 DEF ConnTypes
<1>7. /\ q.sent = <<>> /\ q.out_seq = o /\ q.out_q = Q
      /\ q.state = c.state /\ q.sd = c.sd /\ q.connect_seq = c.connect_seq
      /\ q.replacing = c.replacing /\ q.replacing_sd = c.replacing_sd
      /\ q.replacing_cseq = c.replacing_cseq /\ q.flags = c.flags
  BY <1>4 DEF ConnTypes
<1> QED
  BY <1>3, <1>6, <1>7

\* A connection that was just constructed.
LEMMA FreeRecord ==
    ASSUME NEW max
    PROVE  /\ FreeConn \in ConnTypes(max) /\ ConnOK(FreeConn)
           /\ FreeConn.sd = None /\ FreeConn.replacing_sd = None /\ FreeConn.replacing = 0
           /\ FreeConn.sent = <<>> /\ FreeConn.out_q = <<>> /\ FreeConn.out_seq = 0
<1>1. NoReply \in ReplyTypes
  BY DEF NoReply, ReplyTypes, Tags
<1>2. <<>> \in Seq(MsgTypes(max))
  OBVIOUS
<1>3. FreeConn \in ConnTypes(max)
  BY <1>1, <1>2 DEF FreeConn, ConnTypes, States, Handles, Flags
<1>4. ConnOK(FreeConn)
  BY DEF FreeConn, ConnOK, Numbered, Numbers, Local, Linked, None
<1> QED
  BY <1>3, <1>4 DEF FreeConn

\* What fault makes of a connection.
LEMMA FaultedRecord ==
    ASSUME NEW max, NEW c \in ConnTypes(max), Numbered(c), NEW n, NEW d, d = Faulted(n, c)
    PROVE  d \in ConnTypes(max) /\ ConnOK(d) /\ d.sd = None /\ SameHold(c, d)
<1>q. PICK q : q = requeue_sent(c)
  OBVIOUS
<1>1. /\ q \in ConnTypes(max) /\ q.sent = <<>> /\ Numbers(q.out_seq, <<>>, q.out_q)
      /\ q.replacing_sd = c.replacing_sd
  BY <1>q, RequeueRecord
<1>e. PICK e : e = [q EXCEPT !.sd = None, !.replacing = 0, !.global_seq = 0, !.reply = NoReply]
  OBVIOUS
<1>2. NoReply \in ReplyTypes /\ None \in Handles
  BY DEF NoReply, ReplyTypes, Tags, Handles
<1> HIDE DEF NoReply, None
<1>3. e \in ConnTypes(max)
  <2> PICK e1, e2, e3 : /\ e1 = [q EXCEPT !.sd = None] /\ e2 = [e1 EXCEPT !.replacing = 0]
                        /\ e3 = [e2 EXCEPT !.global_seq = 0]
    OBVIOUS
  <2>1. e = [e3 EXCEPT !.reply = NoReply]
    BY <1>e
  <2>2. 0 \in Nat /\ 0 \in 0 .. 2
    OBVIOUS
  <2>3. e1 \in ConnTypes(max)
    BY <1>1, <1>2, OneField, Zenon
  <2>4. e2 \in ConnTypes(max)
    BY <2>2, <2>3, OneField, Zenon
  <2>5. e3 \in ConnTypes(max)
    BY <2>2, <2>4, OneField, Zenon
  <2> QED
    BY <1>2, <2>1, <2>5, OneField, Zenon
<1>4. /\ e.sd = None /\ e.replacing = 0 /\ e.sent = <<>> /\ e.out_seq = q.out_seq
      /\ e.out_q = q.out_q /\ e.replacing_sd = c.replacing_sd
  BY <1>1, <1>e DEF ConnTypes
<1>5. \/ d = [e EXCEPT !.state = "STANDBY"]
      \/ d = [e EXCEPT !.state = "CONNECTING"]
      \/ d = [e EXCEPT !.state = "CONNECTING", !.connect_seq = @ + 1]
  BY <1>q, <1>e, Zenon DEF Faulted
<1>8. d \in ConnTypes(max)
  <2>1. "STANDBY" \in States /\ "CONNECTING" \in States
    BY DEF States, ConnectingStates
  <2>2. e.connect_seq + 1 \in Nat
    BY <1>3, SMTT(30) DEF ConnTypes
  <2>3. \A v : [e EXCEPT !.state = "CONNECTING", !.connect_seq = v] =
               [[e EXCEPT !.state = "CONNECTING"] EXCEPT !.connect_seq = v]
    OBVIOUS
  <2>4. [e EXCEPT !.state = "STANDBY"] \in ConnTypes(max)
    BY <1>3, <2>1, OneField
  <2>5. [e EXCEPT !.state = "CONNECTING"] \in ConnTypes(max)
    BY <1>3, <2>1, OneField
  <2>6. [[e EXCEPT !.state = "CONNECTING"] EXCEPT !.connect_seq = e.connect_seq + 1]
            \in ConnTypes(max)
    BY <2>2, <2>5, OneField
  <2> QED
    BY <1>5, <2>3, <2>4, <2>5, <2>6
<1>6. /\ d.state \in {"STANDBY", "CONNECTING"}
      /\ d.sd = e.sd /\ d.replacing = e.replacing /\ d.sent = e.sent
      /\ d.out_seq = e.out_seq /\ d.out_q = e.out_q /\ d.replacing_sd = e.replacing_sd
  BY <1>3, <1>5 DEF ConnTypes, States, ConnectingStates
<1>7. ConnOK(d)
  BY <1>1, <1>4, <1>6 DEF ConnOK, Numbered, Local, Linked
<1> QED
  BY <1>4, <1>6, <1>7, <1>8 DEF SameHold

\* The values that fields are set to.
LEMMA FieldValues ==
    ASSUME NEW max
    PROVE  /\ 0 \in Nat /\ 0 \in 0 .. 2 /\ 1 \in 0 .. 2 /\ 2 \in 0 .. 2
           /\ <<>> \in Seq(MsgTypes(max)) /\ NoReply \in ReplyTypes /\ None \in Handles
           /\ States = {"CONNECTING", "CONNECTING_WAIT_BANNER",
                        "CONNECTING_WAIT_CONNECT_REPLY", "ACCEPTING_WAIT_CONNECT_MSG",
                        "ACCEPTING_REPLY", "ACCEPTING_WAIT_SEQ", "OPEN", "STANDBY", "CLOSED"}
BY DEF NoReply, ReplyTypes, Tags, Handles, States, ConnectingStates, AcceptingStates

\* The types of a connection's fields.
LEMMA FieldTypes ==
    ASSUME NEW max, NEW c \in ConnTypes(max)
    PROVE  /\ c.state \in States /\ c.sd \in Handles /\ c.connect_seq \in Nat
           /\ c.global_seq \in Nat /\ c.peer_global_seq \in Nat /\ c.in_seq \in Nat
           /\ c.in_seq_acked \in Nat /\ c.out_seq \in Nat
           /\ c.out_q \in Seq(MsgTypes(max)) /\ c.sent \in Seq(MsgTypes(max))
           /\ c.replacing \in 0 .. 2 /\ c.replacing_sd \in Handles
           /\ c.replacing_cseq \in Nat /\ c.reply \in ReplyTypes /\ c.flags \in SUBSET Flags
BY DEF ConnTypes

\* The record of was_session_reset.
Cleared(c, r) ==
    [c EXCEPT !.out_q = <<>>, !.sent = <<>>, !.out_seq = r, !.in_seq = 0,
              !.connect_seq = 0, !.in_seq_acked = 0]

\* was_session_reset leaves nothing to number.
LEMMA ResetRecord ==
    ASSUME NEW max, NEW c \in ConnTypes(max), NEW r \in Nat, NEW d,
           d = Cleared(c, r)
    PROVE  /\ d \in ConnTypes(max) /\ Numbered(d) /\ d.sent = <<>>
           /\ d.state = c.state /\ d.sd = c.sd /\ d.flags = c.flags /\ d.reply = c.reply
           /\ d.replacing = c.replacing /\ d.replacing_sd = c.replacing_sd
           /\ d.replacing_cseq = c.replacing_cseq /\ d.connect_seq = 0
<1>1. <<>> \in Seq(MsgTypes(max)) /\ 0 \in Nat
  BY FieldValues
<1>2. d \in ConnTypes(max)
  <2>1. PICK e1 : e1 = [c EXCEPT !.out_q = <<>>]
    OBVIOUS
  <2>2. e1 \in ConnTypes(max)
    BY <1>1, <2>1, <1>1, OneField, Zenon
  <2>3. PICK e2 : e2 = [e1 EXCEPT !.sent = <<>>]
    OBVIOUS
  <2>4. e2 \in ConnTypes(max)
    BY <2>2, <2>3, <1>1, OneField, Zenon
  <2>5. PICK e3 : e3 = [e2 EXCEPT !.out_seq = r]
    OBVIOUS
  <2>6. e3 \in ConnTypes(max)
    BY <2>4, <2>5, <1>1, OneField, Zenon
  <2>7. PICK e4 : e4 = [e3 EXCEPT !.in_seq = 0]
    OBVIOUS
  <2>8. e4 \in ConnTypes(max)
    BY <2>6, <2>7, <1>1, OneField, Zenon
  <2>9. PICK e5 : e5 = [e4 EXCEPT !.connect_seq = 0]
    OBVIOUS
  <2>10. e5 \in ConnTypes(max)
    BY <2>8, <2>9, <1>1, OneField, Zenon
  <2>11. PICK e6 : e6 = [e5 EXCEPT !.in_seq_acked = 0]
    OBVIOUS
  <2>12. e6 \in ConnTypes(max)
    BY <2>10, <2>11, <1>1, OneField, Zenon
  <2>13. d = e6
    BY <2>1, <2>3, <2>5, <2>7, <2>9, <2>11 DEF Cleared
  <2> QED
    BY <2>12, <2>13
<1>3. /\ d.sent = <<>> /\ d.out_q = <<>> /\ d.out_seq = r
      /\ d.state = c.state /\ d.sd = c.sd /\ d.flags = c.flags /\ d.reply = c.reply
      /\ d.replacing = c.replacing /\ d.replacing_sd = c.replacing_sd
      /\ d.replacing_cseq = c.replacing_cseq /\ d.connect_seq = 0
  BY DEF ConnTypes, Cleared
<1>4. Numbered(d)
  BY <1>3 DEF Numbered, Numbers
<1> QED
  BY <1>2, <1>3, <1>4

\* The record of do_replace: c, or what was_session_reset made of it, takes over the
\* socket.
TakenOver(x, s) ==
    SetFlag([requeue_sent(x) EXCEPT !.sd = s, !.replacing_sd = None,
                                    !.replacing = 2, !.replacing_cseq = 0,
                                    !.global_seq = 0, !.reply = NoReply,
                                    !.state = "ACCEPTING_WAIT_CONNECT_MSG"],
            "replacing_reset_session", FALSE)

\* do_replace requeues what was sent.
LEMMA ReplacedRecord ==
    ASSUME NEW max, NEW c \in ConnTypes(max), NEW x \in ConnTypes(max), Numbered(x),
           c.replacing_sd # None, NEW d,
           d = TakenOver(x, c.replacing_sd)
    PROVE  /\ d \in ConnTypes(max) /\ ConnOK(d) /\ d.sd = c.replacing_sd
           /\ d.replacing_sd = None /\ d.state = "ACCEPTING_WAIT_CONNECT_MSG"
<1>1. PICK q : q = requeue_sent(x)
  OBVIOUS
<1>2. q \in ConnTypes(max) /\ q.sent = <<>> /\ Numbers(q.out_seq, <<>>, q.out_q)
  BY <1>1, RequeueRecord
<1>3. PICK F : F = q.flags \ {"replacing_reset_session"}
  OBVIOUS
<1>4. /\ F \in SUBSET Flags /\ c.replacing_sd \in Handles /\ None \in Handles
      /\ 2 \in 0 .. 2 /\ 0 \in Nat /\ NoReply \in ReplyTypes
      /\ "ACCEPTING_WAIT_CONNECT_MSG" \in States
  <2>1. q.flags \in SUBSET Flags /\ c.replacing_sd \in Handles
    BY <1>2, FieldTypes
  <2> QED
    BY <1>3, <2>1, FieldValues
<1> HIDE DEF NoReply, None
<1>5. PICK y : y = [q EXCEPT !.sd = c.replacing_sd, !.replacing_sd = None,
                             !.replacing = 2, !.replacing_cseq = 0,
                             !.global_seq = 0, !.reply = NoReply,
                             !.state = "ACCEPTING_WAIT_CONNECT_MSG"]
  OBVIOUS
<1>6. y \in ConnTypes(max)
  <2>1. PICK e1 : e1 = [q EXCEPT !.sd = c.replacing_sd]
    OBVIOUS
  <2>2. e1 \in ConnTypes(max)
    BY <1>2, <2>1, <1>4, OneField, Zenon
  <2>3. PICK e2 : e2 = [e1 EXCEPT !.replacing_sd = None]
    OBVIOUS
  <2>4. e2 \in ConnTypes(max)
    BY <2>2, <2>3, <1>4, OneField, Zenon
  <2>5. PICK e3 : e3 = [e2 EXCEPT !.replacing = 2]
    OBVIOUS
  <2>6. e3 \in ConnTypes(max)
    BY <2>4, <2>5, <1>4, OneField, Zenon
  <2>7. PICK e4 : e4 = [e3 EXCEPT !.replacing_cseq = 0]
    OBVIOUS
  <2>8. e4 \in ConnTypes(max)
    BY <2>6, <2>7, <1>4, OneField, Zenon
  <2>9. PICK e5 : e5 = [e4 EXCEPT !.global_seq = 0]
    OBVIOUS
  <2>10. e5 \in ConnTypes(max)
    BY <2>8, <2>9, <1>4, OneField, Zenon
  <2>11. PICK e6 : e6 = [e5 EXCEPT !.reply = NoReply]
    OBVIOUS
  <2>12. e6 \in ConnTypes(max)
    BY <2>10, <2>11, <1>4, OneField, Zenon
  <2>13. PICK e7 : e7 = [e6 EXCEPT !.state = "ACCEPTING_WAIT_CONNECT_MSG"]
    OBVIOUS
  <2>14. e7 \in ConnTypes(max)
    BY <2>12, <2>13, <1>4, OneField, Zenon
  <2>15. y = e7
    BY <2>1, <2>3, <2>5, <2>7, <2>9, <2>11, <2>13, <1>5
  <2> QED
    BY <2>14, <2>15
<1>7. /\ y.sd = c.replacing_sd /\ y.replacing_sd = None /\ y.replacing = 2
      /\ y.state = "ACCEPTING_WAIT_CONNECT_MSG" /\ y.sent = q.sent
      /\ y.out_q = q.out_q /\ y.out_seq = q.out_seq /\ y.flags = q.flags
  BY <1>2, <1>5 DEF ConnTypes
<1>8. d = [y EXCEPT !.flags = F]
  BY <1>1, <1>3, <1>5, <1>7 DEF SetFlag, TakenOver
<1>9. d \in ConnTypes(max)
  <2>1. [y EXCEPT !.flags = F] \in ConnTypes(max)
    BY <1>4, <1>6, OneField, Zenon
  <2> QED
    BY <1>8, <2>1, Zenon
<1>10. /\ d.sd = c.replacing_sd /\ d.replacing_sd = None /\ d.replacing = 2
       /\ d.state = "ACCEPTING_WAIT_CONNECT_MSG" /\ d.sent = q.sent
       /\ d.out_q = q.out_q /\ d.out_seq = q.out_seq
  BY <1>6, <1>7, <1>8 DEF ConnTypes
<1>11. ConnOK(d)
  <2>1. Numbers(d.out_seq, d.sent, d.out_q) /\ d.sent = <<>>
    BY <1>2, <1>10, Zenon
  <2>2. 2 # 1
    OBVIOUS
  <2>3. d.sd # None /\ d.replacing # 1 /\ d.state \in Linked /\ d.state # "ACCEPTING_REPLY"
    BY <1>10, <2>2, Zenon DEF Linked
  <2> QED
    BY <2>1, <2>3, Zenon DEF ConnOK, Numbered, Local
<1> QED
  BY <1>9, <1>10, <1>11

\* Other numbers, sent messages and queued messages.
Renumber(c, o, S, R) == [c EXCEPT !.out_seq = o, !.sent = S, !.out_q = R]

\* ... in a way that keeps the numbers in order.
Renumbering(max, c, o, S, R) ==
    /\ o \in Nat /\ S \in Seq(MsgTypes(max)) /\ R \in Seq(MsgTypes(max))
    /\ Numbers(o, S, R) /\ (c.state # "OPEN" \/ Flag(c, "lossy") => S = <<>>)

\* Such a connection is all right.
LEMMA Renumbered ==
    ASSUME NEW max, NEW c \in ConnTypes(max), ConnOK(c), NEW o, NEW S, NEW R,
           Renumbering(max, c, o, S, R), NEW d, d = Renumber(c, o, S, R)
    PROVE  /\ d \in ConnTypes(max) /\ ConnOK(d) /\ SameEnd(c, d) /\ SameHold(c, d)
           /\ d.flags = c.flags /\ d.in_seq = c.in_seq
<1>0. /\ o \in Nat /\ S \in Seq(MsgTypes(max)) /\ R \in Seq(MsgTypes(max))
      /\ Numbers(o, S, R) /\ (c.state # "OPEN" \/ Flag(c, "lossy") => S = <<>>)
  BY DEF Renumbering
<1> USE <1>0
<1>1. d \in ConnTypes(max)
  <2>1. PICK e1 : e1 = [c EXCEPT !.out_seq = o]
    OBVIOUS
  <2>2. e1 \in ConnTypes(max)
    BY <2>1, OneField, Zenon
  <2>3. PICK e2 : e2 = [e1 EXCEPT !.sent = S]
    OBVIOUS
  <2>4. e2 \in ConnTypes(max)
    BY <2>2, <2>3, OneField, Zenon
  <2>5. PICK e3 : e3 = [e2 EXCEPT !.out_q = R]
    OBVIOUS
  <2>6. e3 \in ConnTypes(max)
    BY <2>4, <2>5, OneField, Zenon
  <2>7. d = e3
    BY <2>1, <2>3, <2>5 DEF Renumber
  <2> QED
    BY <2>6, <2>7
<1>2. /\ d.out_seq = o /\ d.sent = S /\ d.out_q = R /\ d.state = c.state /\ d.sd = c.sd
      /\ d.connect_seq = c.connect_seq /\ d.flags = c.flags /\ d.reply = c.reply
      /\ d.replacing = c.replacing /\ d.replacing_sd = c.replacing_sd
      /\ d.replacing_cseq = c.replacing_cseq /\ d.in_seq = c.in_seq
  BY DEF ConnTypes, Renumber
<1>3. Numbered(d)
  BY <1>2 DEF Numbered, Flag
<1>4. Local(d)
  BY <1>2 DEF ConnOK, Local
<1> QED
  BY <1>1, <1>2, <1>3, <1>4 DEF ConnOK, SameEnd, SameHold

\* The record of _send: the message h is the first one queued, or is not queued.
LEMMA SendRecord ==
    ASSUME NEW max, NEW c \in ConnTypes(max), ConnOK(c), c.state = "OPEN",
           NEW Q \in Seq(MsgTypes(max)), Q # <<>>, Numbers(c.out_seq, c.sent, Q)
    PROVE  \A d : d = [_send(c, Head(Q)) EXCEPT !.out_q = Tail(Q)] =>
               d \in ConnTypes(max) /\ ConnOK(d) /\ SameEnd(c, d) /\ SameHold(c, d)
<1>1. PICK m, R, o, S : /\ m = [Head(Q) EXCEPT !.seq = c.out_seq + 1]
                        /\ R = Tail(Q) /\ o = c.out_seq + 1
                        /\ S = IF Flag(c, "lossy") THEN c.sent ELSE Append(c.sent, m)
  OBVIOUS
<1>2. /\ c.out_seq \in Nat /\ c.sent \in Seq(MsgTypes(max))
  BY FieldTypes
<1>3. Flag(c, "lossy") => c.sent = <<>>
  BY DEF ConnOK, Numbered
<1>4. /\ m \in MsgTypes(max) /\ R \in Seq(MsgTypes(max))
      /\ Append(c.sent, m) \in Seq(MsgTypes(max))
      /\ Numbers(o, Append(c.sent, m), R)
      /\ c.sent = <<>> => Numbers(o, <<>>, R)
  BY <1>1, <1>2, SendNumbers
<1>5. /\ o \in Nat /\ S \in Seq(MsgTypes(max)) /\ Numbers(o, S, R)
      /\ c.state # "OPEN" \/ Flag(c, "lossy") => S = <<>>
  BY <1>1, <1>2, <1>3, <1>4
<1>6. SUFFICES ASSUME NEW d, d = [_send(c, Head(Q)) EXCEPT !.out_q = Tail(Q)]
              PROVE  d \in ConnTypes(max) /\ ConnOK(d) /\ SameEnd(c, d) /\ SameHold(c, d)
  OBVIOUS
<1>7. d = Renumber(c, o, S, R)
  BY <1>1, <1>6 DEF _send, Renumber
<1>8. Renumbering(max, c, o, S, R)
  BY <1>4, <1>5, Zenon DEF Renumbering
<1> QED
  BY <1>7, <1>8, Renumbered

-----------------------------------------------------------------------------
(***************************************************************************)
(* The fields that a step sets, and those that it keeps.                   *)
(***************************************************************************)
\* RecvBanner, RecvSeq.
WithState(c, st) ==
    [c EXCEPT !.state = st]

\* The fields it sets, and the ones it keeps.
LEMMA WithStateRecord ==
    ASSUME NEW max, NEW c \in ConnTypes(max), NEW st \in States,
           NEW d, d = WithState(c, st)
    PROVE  /\ d \in ConnTypes(max) /\ d.state = st /\ d.sd = c.sd
           /\ d.connect_seq = c.connect_seq /\ d.out_seq = c.out_seq /\ d.sent = c.sent
           /\ d.out_q = c.out_q /\ d.replacing = c.replacing
           /\ d.replacing_sd = c.replacing_sd /\ d.replacing_cseq = c.replacing_cseq
           /\ d.reply = c.reply /\ d.flags = c.flags /\ d.in_seq = c.in_seq
<1>1. d \in ConnTypes(max)
  BY FieldValues, OneField, Zenon DEF WithState
<1>2. /\ d.state = st /\ d.sd = c.sd /\ d.connect_seq = c.connect_seq
      /\ d.out_seq = c.out_seq /\ d.sent = c.sent /\ d.out_q = c.out_q
      /\ d.replacing = c.replacing /\ d.replacing_sd = c.replacing_sd
      /\ d.replacing_cseq = c.replacing_cseq /\ d.reply = c.reply /\ d.flags = c.flags
      /\ d.in_seq = c.in_seq
  BY DEF ConnTypes, WithState
<1> QED
  BY <1>1, <1>2

\* mark_down, _reply_accept.
WithFlags(c, F) ==
    [c EXCEPT !.flags = F]

\* The fields it sets, and the ones it keeps.
LEMMA WithFlagsRecord ==
    ASSUME NEW max, NEW c \in ConnTypes(max), NEW F \in SUBSET Flags,
           NEW d, d = WithFlags(c, F)
    PROVE  /\ d \in ConnTypes(max) /\ d.flags = F /\ d.state = c.state /\ d.sd = c.sd
           /\ d.connect_seq = c.connect_seq /\ d.out_seq = c.out_seq /\ d.sent = c.sent
           /\ d.out_q = c.out_q /\ d.replacing = c.replacing
           /\ d.replacing_sd = c.replacing_sd /\ d.replacing_cseq = c.replacing_cseq
           /\ d.reply = c.reply /\ d.in_seq = c.in_seq
<1>1. d \in ConnTypes(max)
  BY FieldValues, OneField, Zenon DEF WithFlags
<1>2. /\ d.flags = F /\ d.state = c.state /\ d.sd = c.sd /\ d.connect_seq = c.connect_seq
      /\ d.out_seq = c.out_seq /\ d.sent = c.sent /\ d.out_q = c.out_q
      /\ d.replacing = c.replacing /\ d.replacing_sd = c.replacing_sd
      /\ d.replacing_cseq = c.replacing_cseq /\ d.reply = c.reply /\ d.in_seq = c.in_seq
  BY DEF ConnTypes, WithFlags
<1> QED
  BY <1>1, <1>2

\* Another attempt, with connect_seq cs.
WithCseq(c, cs) ==
    [c EXCEPT !.connect_seq = cs]

\* The fields it sets, and the ones it keeps.
LEMMA WithCseqRecord ==
    ASSUME NEW max, NEW c \in ConnTypes(max), NEW cs \in Nat,
           NEW d, d = WithCseq(c, cs)
    PROVE  /\ d \in ConnTypes(max) /\ d.connect_seq = cs /\ d.state = c.state /\ d.sd = c.sd
           /\ d.out_seq = c.out_seq /\ d.sent = c.sent /\ d.out_q = c.out_q
           /\ d.replacing = c.replacing /\ d.replacing_sd = c.replacing_sd
           /\ d.replacing_cseq = c.replacing_cseq /\ d.reply = c.reply /\ d.flags = c.flags
           /\ d.in_seq = c.in_seq
<1>1. d \in ConnTypes(max)
  BY FieldValues, OneField, Zenon DEF WithCseq
<1>2. /\ d.connect_seq = cs /\ d.state = c.state /\ d.sd = c.sd /\ d.out_seq = c.out_seq
      /\ d.sent = c.sent /\ d.out_q = c.out_q /\ d.replacing = c.replacing
      /\ d.replacing_sd = c.replacing_sd /\ d.replacing_cseq = c.replacing_cseq
      /\ d.reply = c.reply /\ d.flags = c.flags /\ d.in_seq = c.in_seq
  BY DEF ConnTypes, WithCseq
<1> QED
  BY <1>1, <1>2

\* Another attempt, with global_seq gs.
WithGseq(c, gs) ==
    [c EXCEPT !.global_seq = gs]

\* The fields it sets, and the ones it keeps.
LEMMA WithGseqRecord ==
    ASSUME NEW max, NEW c \in ConnTypes(max), NEW gs \in Nat,
           NEW d, d = WithGseq(c, gs)
    PROVE  /\ d \in ConnTypes(max) /\ d.state = c.state /\ d.sd = c.sd
           /\ d.connect_seq = c.connect_seq /\ d.out_seq = c.out_seq /\ d.sent = c.sent
           /\ d.out_q = c.out_q /\ d.replacing = c.replacing
           /\ d.replacing_sd = c.replacing_sd /\ d.replacing_cseq = c.replacing_cseq
           /\ d.reply = c.reply /\ d.flags = c.flags /\ d.in_seq = c.in_seq
<1>1. d \in ConnTypes(max)
  BY FieldValues, OneField, Zenon DEF WithGseq
<1>2. /\ d.state = c.state /\ d.sd = c.sd /\ d.connect_seq = c.connect_seq
      /\ d.out_seq = c.out_seq /\ d.sent = c.sent /\ d.out_q = c.out_q
      /\ d.replacing = c.replacing /\ d.replacing_sd = c.replacing_sd
      /\ d.replacing_cseq = c.replacing_cseq /\ d.reply = c.reply /\ d.flags = c.flags
      /\ d.in_seq = c.in_seq
  BY DEF ConnTypes, WithGseq
<1> QED
  BY <1>1, <1>2

\* A message was received.
WithInSeq(c, k) ==
    [c EXCEPT !.in_seq = k]

\* The fields it sets, and the ones it keeps.
LEMMA WithInSeqRecord ==
    ASSUME NEW max, NEW c \in ConnTypes(max), NEW k \in Nat,
           NEW d, d = WithInSeq(c, k)
    PROVE  /\ d \in ConnTypes(max) /\ d.in_seq = k /\ d.state = c.state /\ d.sd = c.sd
           /\ d.connect_seq = c.connect_seq /\ d.out_seq = c.out_seq /\ d.sent = c.sent
           /\ d.out_q = c.out_q /\ d.replacing = c.replacing
           /\ d.replacing_sd = c.replacing_sd /\ d.replacing_cseq = c.replacing_cseq
           /\ d.reply = c.reply /\ d.flags = c.flags
<1>1. d \in ConnTypes(max)
  BY FieldValues, OneField, Zenon DEF WithInSeq
<1>2. /\ d.in_seq = k /\ d.state = c.state /\ d.sd = c.sd /\ d.connect_seq = c.connect_seq
      /\ d.out_seq = c.out_seq /\ d.sent = c.sent /\ d.out_q = c.out_q
      /\ d.replacing = c.replacing /\ d.replacing_sd = c.replacing_sd
      /\ d.replacing_cseq = c.replacing_cseq /\ d.reply = c.reply /\ d.flags = c.flags
  BY DEF ConnTypes, WithInSeq
<1> QED
  BY <1>1, <1>2

\* A message was acknowledged.
WithAcked(c, k) ==
    [c EXCEPT !.in_seq_acked = k]

\* The fields it sets, and the ones it keeps.
LEMMA WithAckedRecord ==
    ASSUME NEW max, NEW c \in ConnTypes(max), NEW k \in Nat,
           NEW d, d = WithAcked(c, k)
    PROVE  /\ d \in ConnTypes(max) /\ d.state = c.state /\ d.sd = c.sd
           /\ d.connect_seq = c.connect_seq /\ d.out_seq = c.out_seq /\ d.sent = c.sent
           /\ d.out_q = c.out_q /\ d.replacing = c.replacing
           /\ d.replacing_sd = c.replacing_sd /\ d.replacing_cseq = c.replacing_cseq
           /\ d.reply = c.reply /\ d.flags = c.flags /\ d.in_seq = c.in_seq
<1>1. d \in ConnTypes(max)
  BY FieldValues, OneField, Zenon DEF WithAcked
<1>2. /\ d.state = c.state /\ d.sd = c.sd /\ d.connect_seq = c.connect_seq
      /\ d.out_seq = c.out_seq /\ d.sent = c.sent /\ d.out_q = c.out_q
      /\ d.replacing = c.replacing /\ d.replacing_sd = c.replacing_sd
      /\ d.replacing_cseq = c.replacing_cseq /\ d.reply = c.reply /\ d.flags = c.flags
      /\ d.in_seq = c.in_seq
  BY DEF ConnTypes, WithAcked
<1> QED
  BY <1>1, <1>2

\* A message is queued.
WithQueue(c, Q, st) ==
    [c EXCEPT !.out_q = Q, !.state = st]

\* The fields it sets, and the ones it keeps.
LEMMA WithQueueRecord ==
    ASSUME NEW max, NEW c \in ConnTypes(max), NEW Q \in Seq(MsgTypes(max)), NEW st \in States,
           NEW d, d = WithQueue(c, Q, st)
    PROVE  /\ d \in ConnTypes(max) /\ d.out_q = Q /\ d.state = st /\ d.sd = c.sd
           /\ d.connect_seq = c.connect_seq /\ d.out_seq = c.out_seq /\ d.sent = c.sent
           /\ d.replacing = c.replacing /\ d.replacing_sd = c.replacing_sd
           /\ d.replacing_cseq = c.replacing_cseq /\ d.reply = c.reply /\ d.flags = c.flags
           /\ d.in_seq = c.in_seq
<1>1. d \in ConnTypes(max)
  <2>0. /\ 0 \in Nat /\ 0 \in 0 .. 2 /\ 1 \in 0 .. 2 /\ NoReply \in ReplyTypes
        /\ "OPEN" \in States /\ "CONNECTING_WAIT_BANNER" \in States
        /\ "ACCEPTING_REPLY" \in States
    BY FieldValues
  <2>1. PICK e1 : e1 = [c EXCEPT !.out_q = Q]
    OBVIOUS
  <2>2. e1 \in ConnTypes(max)
    BY <2>0, <2>1, OneField, Zenon
  <2>3. PICK e2 : e2 = [e1 EXCEPT !.state = st]
    OBVIOUS
  <2>4. e2 \in ConnTypes(max)
    BY <2>0, <2>2, <2>3, OneField, Zenon
  <2>5. d = e2
    BY <2>1, <2>3 DEF WithQueue
  <2> QED
    BY <2>4, <2>5
<1>2. /\ d.out_q = Q /\ d.state = st /\ d.sd = c.sd /\ d.connect_seq = c.connect_seq
      /\ d.out_seq = c.out_seq /\ d.sent = c.sent /\ d.replacing = c.replacing
      /\ d.replacing_sd = c.replacing_sd /\ d.replacing_cseq = c.replacing_cseq
      /\ d.reply = c.reply /\ d.flags = c.flags /\ d.in_seq = c.in_seq
  BY DEF ConnTypes, WithQueue
<1> QED
  BY <1>1, <1>2

\* A new socket.
WithSocket(c, s, gs) ==
    [c EXCEPT !.state = "CONNECTING_WAIT_BANNER", !.sd = s, !.global_seq = gs]

\* The fields it sets, and the ones it keeps.
LEMMA WithSocketRecord ==
    ASSUME NEW max, NEW c \in ConnTypes(max), NEW s \in Handles, NEW gs \in Nat,
           NEW d, d = WithSocket(c, s, gs)
    PROVE  /\ d \in ConnTypes(max) /\ d.state = "CONNECTING_WAIT_BANNER" /\ d.sd = s
           /\ d.connect_seq = c.connect_seq /\ d.out_seq = c.out_seq /\ d.sent = c.sent
           /\ d.out_q = c.out_q /\ d.replacing = c.replacing
           /\ d.replacing_sd = c.replacing_sd /\ d.replacing_cseq = c.replacing_cseq
           /\ d.reply = c.reply /\ d.flags = c.flags /\ d.in_seq = c.in_seq
<1>1. d \in ConnTypes(max)
  <2>0. /\ 0 \in Nat /\ 0 \in 0 .. 2 /\ 1 \in 0 .. 2 /\ NoReply \in ReplyTypes
        /\ "OPEN" \in States /\ "CONNECTING_WAIT_BANNER" \in States
        /\ "ACCEPTING_REPLY" \in States
    BY FieldValues
  <2>1. PICK e1 : e1 = [c EXCEPT !.state = "CONNECTING_WAIT_BANNER"]
    OBVIOUS
  <2>2. e1 \in ConnTypes(max)
    BY <2>0, <2>1, OneField, Zenon
  <2>3. PICK e2 : e2 = [e1 EXCEPT !.sd = s]
    OBVIOUS
  <2>4. e2 \in ConnTypes(max)
    BY <2>0, <2>2, <2>3, OneField, Zenon
  <2>5. PICK e3 : e3 = [e2 EXCEPT !.global_seq = gs]
    OBVIOUS
  <2>6. e3 \in ConnTypes(max)
    BY <2>0, <2>4, <2>5, OneField, Zenon
  <2>7. d = e3
    BY <2>1, <2>3, <2>5 DEF WithSocket
  <2> QED
    BY <2>6, <2>7
<1>2. /\ d.state = "CONNECTING_WAIT_BANNER" /\ d.sd = s /\ d.connect_seq = c.connect_seq
      /\ d.out_seq = c.out_seq /\ d.sent = c.sent /\ d.out_q = c.out_q
      /\ d.replacing = c.replacing /\ d.replacing_sd = c.replacing_sd
      /\ d.replacing_cseq = c.replacing_cseq /\ d.reply = c.reply /\ d.flags = c.flags
      /\ d.in_seq = c.in_seq
  BY DEF ConnTypes, WithSocket
<1> QED
  BY <1>1, <1>2

\* The session is open, for the connecting side.
WithSession(c, pg, cs, F) ==
    [c EXCEPT !.state = "OPEN", !.peer_global_seq = pg, !.connect_seq = cs,
              !.global_seq = 0, !.flags = F]

\* The fields it sets, and the ones it keeps.
LEMMA WithSessionRecord ==
    ASSUME NEW max, NEW c \in ConnTypes(max), NEW pg \in Nat, NEW cs \in Nat,
           NEW F \in SUBSET Flags, NEW d, d = WithSession(c, pg, cs, F)
    PROVE  /\ d \in ConnTypes(max) /\ d.state = "OPEN" /\ d.connect_seq = cs /\ d.flags = F
           /\ d.sd = c.sd /\ d.out_seq = c.out_seq /\ d.sent = c.sent /\ d.out_q = c.out_q
           /\ d.replacing = c.replacing /\ d.replacing_sd = c.replacing_sd
           /\ d.replacing_cseq = c.replacing_cseq /\ d.reply = c.reply
           /\ d.in_seq = c.in_seq
<1>1. d \in ConnTypes(max)
  <2>0. /\ 0 \in Nat /\ 0 \in 0 .. 2 /\ 1 \in 0 .. 2 /\ NoReply \in ReplyTypes
        /\ "OPEN" \in States /\ "CONNECTING_WAIT_BANNER" \in States
        /\ "ACCEPTING_REPLY" \in States
    BY FieldValues
  <2>1. PICK e1 : e1 = [c EXCEPT !.state = "OPEN"]
    OBVIOUS
  <2>2. e1 \in ConnTypes(max)
    BY <2>0, <2>1, OneField, Zenon
  <2>3. PICK e2 : e2 = [e1 EXCEPT !.peer_global_seq = pg]
    OBVIOUS
  <2>4. e2 \in ConnTypes(max)
    BY <2>0, <2>2, <2>3, OneField, Zenon
  <2>5. PICK e3 : e3 = [e2 EXCEPT !.connect_seq = cs]
    OBVIOUS
  <2>6. e3 \in ConnTypes(max)
    BY <2>0, <2>4, <2>5, OneField, Zenon
  <2>7. PICK e4 : e4 = [e3 EXCEPT !.global_seq = 0]
    OBVIOUS
  <2>8. e4 \in ConnTypes(max)
    BY <2>0, <2>6, <2>7, OneField, Zenon
  <2>9. PICK e5 : e5 = [e4 EXCEPT !.flags = F]
    OBVIOUS
  <2>10. e5 \in ConnTypes(max)
    BY <2>0, <2>8, <2>9, OneField, Zenon
  <2>11. d = e5
    BY <2>1, <2>3, <2>5, <2>7, <2>9 DEF WithSession
  <2> QED
    BY <2>10, <2>11
<1>2. /\ d.state = "OPEN" /\ d.connect_seq = cs /\ d.flags = F /\ d.sd = c.sd
      /\ d.out_seq = c.out_seq /\ d.sent = c.sent /\ d.out_q = c.out_q
      /\ d.replacing = c.replacing /\ d.replacing_sd = c.replacing_sd
      /\ d.replacing_cseq = c.replacing_cseq /\ d.reply = c.reply /\ d.in_seq = c.in_seq
  BY DEF ConnTypes, WithSession
<1> QED
  BY <1>1, <1>2

\* A socket is handed over.
WithHanded(c, s, cs, F) ==
    [c EXCEPT !.replacing = 1, !.replacing_sd = s, !.replacing_cseq = cs, !.flags = F]

\* The fields it sets, and the ones it keeps.
LEMMA WithHandedRecord ==
    ASSUME NEW max, NEW c \in ConnTypes(max), NEW s \in Handles, NEW cs \in Nat,
           NEW F \in SUBSET Flags, NEW d, d = WithHanded(c, s, cs, F)
    PROVE  /\ d \in ConnTypes(max) /\ d.replacing = 1 /\ d.replacing_sd = s
           /\ d.replacing_cseq = cs /\ d.flags = F /\ d.state = c.state /\ d.sd = c.sd
           /\ d.connect_seq = c.connect_seq /\ d.out_seq = c.out_seq /\ d.sent = c.sent
           /\ d.out_q = c.out_q /\ d.reply = c.reply /\ d.in_seq = c.in_seq
<1>1. d \in ConnTypes(max)
  <2>0. /\ 0 \in Nat /\ 0 \in 0 .. 2 /\ 1 \in 0 .. 2 /\ NoReply \in ReplyTypes
        /\ "OPEN" \in States /\ "CONNECTING_WAIT_BANNER" \in States
        /\ "ACCEPTING_REPLY" \in States
    BY FieldValues
  <2>1. PICK e1 : e1 = [c EXCEPT !.replacing = 1]
    OBVIOUS
  <2>2. e1 \in ConnTypes(max)
    BY <2>0, <2>1, OneField, Zenon
  <2>3. PICK e2 : e2 = [e1 EXCEPT !.replacing_sd = s]
    OBVIOUS
  <2>4. e2 \in ConnTypes(max)
    BY <2>0, <2>2, <2>3, OneField, Zenon
  <2>5. PICK e3 : e3 = [e2 EXCEPT !.replacing_cseq = cs]
    OBVIOUS
  <2>6. e3 \in ConnTypes(max)
    BY <2>0, <2>4, <2>5, OneField, Zenon
  <2>7. PICK e4 : e4 = [e3 EXCEPT !.flags = F]
    OBVIOUS
  <2>8. e4 \in ConnTypes(max)
    BY <2>0, <2>6, <2>7, OneField, Zenon
  <2>9. d = e4
    BY <2>1, <2>3, <2>5, <2>7 DEF WithHanded
  <2> QED
    BY <2>8, <2>9
<1>2. /\ d.replacing = 1 /\ d.replacing_sd = s /\ d.replacing_cseq = cs /\ d.flags = F
      /\ d.state = c.state /\ d.sd = c.sd /\ d.connect_seq = c.connect_seq
      /\ d.out_seq = c.out_seq /\ d.sent = c.sent /\ d.out_q = c.out_q /\ d.reply = c.reply
      /\ d.in_seq = c.in_seq
  BY DEF ConnTypes, WithHanded
<1> QED
  BY <1>1, <1>2

\* The session is open, for the accepting side.
WithReply(c, cs, pg, is, ia, F, r) ==
    [c EXCEPT !.state = "ACCEPTING_REPLY", !.connect_seq = cs, !.peer_global_seq = pg,
              !.in_seq = is, !.in_seq_acked = ia, !.flags = F, !.reply = r]

\* The fields it sets, and the ones it keeps.
LEMMA WithReplyRecord ==
    ASSUME NEW max, NEW c \in ConnTypes(max), NEW cs \in Nat, NEW pg \in Nat,
           NEW is \in Nat, NEW ia \in Nat, NEW F \in SUBSET Flags, NEW r \in ReplyTypes,
           NEW d, d = WithReply(c, cs, pg, is, ia, F, r)
    PROVE  /\ d \in ConnTypes(max) /\ d.state = "ACCEPTING_REPLY" /\ d.connect_seq = cs
           /\ d.in_seq = is /\ d.flags = F /\ d.reply = r /\ d.sd = c.sd
           /\ d.out_seq = c.out_seq /\ d.sent = c.sent /\ d.out_q = c.out_q
           /\ d.replacing = c.replacing /\ d.replacing_sd = c.replacing_sd
           /\ d.replacing_cseq = c.replacing_cseq
<1>1. d \in ConnTypes(max)
  <2>0. /\ 0 \in Nat /\ 0 \in 0 .. 2 /\ 1 \in 0 .. 2 /\ NoReply \in ReplyTypes
        /\ "OPEN" \in States /\ "CONNECTING_WAIT_BANNER" \in States
        /\ "ACCEPTING_REPLY" \in States
    BY FieldValues
  <2>1. PICK e1 : e1 = [c EXCEPT !.state = "ACCEPTING_REPLY"]
    OBVIOUS
  <2>2. e1 \in ConnTypes(max)
    BY <2>0, <2>1, OneField, Zenon
  <2>3. PICK e2 : e2 = [e1 EXCEPT !.connect_seq = cs]
    OBVIOUS
  <2>4. e2 \in ConnTypes(max)
    BY <2>0, <2>2, <2>3, OneField, Zenon
  <2>5. PICK e3 : e3 = [e2 EXCEPT !.peer_global_seq = pg]
    OBVIOUS
  <2>6. e3 \in ConnTypes(max)
    BY <2>0, <2>4, <2>5, OneField, Zenon
  <2>7. PICK e4 : e4 = [e3 EXCEPT !.in_seq = is]
    OBVIOUS
  <2>8. e4 \in ConnTypes(max)
    BY <2>0, <2>6, <2>7, OneField, Zenon
  <2>9. PICK e5 : e5 = [e4 EXCEPT !.in_seq_acked = ia]
    OBVIOUS
  <2>10. e5 \in ConnTypes(max)
    BY <2>0, <2>8, <2>9, OneField, Zenon
  <2>11. PICK e6 : e6 = [e5 EXCEPT !.flags = F]
    OBVIOUS
  <2>12. e6 \in ConnTypes(max)
    BY <2>0, <2>10, <2>11, OneField, Zenon
  <2>13. PICK e7 : e7 = [e6 EXCEPT !.reply = r]
    OBVIOUS
  <2>14. e7 \in ConnTypes(max)
    BY <2>0, <2>12, <2>13, OneField, Zenon
  <2>15. d = e7
    BY <2>1, <2>3, <2>5, <2>7, <2>9, <2>11, <2>13 DEF WithReply
  <2> QED
    BY <2>14, <2>15
<1>2. /\ d.state = "ACCEPTING_REPLY" /\ d.connect_seq = cs /\ d.in_seq = is /\ d.flags = F
      /\ d.reply = r /\ d.sd = c.sd /\ d.out_seq = c.out_seq /\ d.sent = c.sent
      /\ d.out_q = c.out_q /\ d.replacing = c.replacing /\ d.replacing_sd = c.replacing_sd
      /\ d.replacing_cseq = c.replacing_cseq
  BY DEF ConnTypes, WithReply
<1> QED
  BY <1>1, <1>2

\* The reply was sent.
WithReplied(c, F) ==
    [c EXCEPT !.replacing = 0, !.reply = NoReply, !.flags = F]

\* The fields it sets, and the ones it keeps.
LEMMA WithRepliedRecord ==
    ASSUME NEW max, NEW c \in ConnTypes(max), NEW F \in SUBSET Flags,
           NEW d, d = WithReplied(c, F)
    PROVE  /\ d \in ConnTypes(max) /\ d.replacing = 0 /\ d.reply = NoReply
           /\ d.state = c.state /\ d.sd = c.sd /\ d.connect_seq = c.connect_seq
           /\ d.out_seq = c.out_seq /\ d.sent = c.sent /\ d.out_q = c.out_q
           /\ d.replacing_sd = c.replacing_sd /\ d.replacing_cseq = c.replacing_cseq
           /\ d.flags = F /\ d.in_seq = c.in_seq
<1>1. d \in ConnTypes(max)
  <2>0. /\ 0 \in Nat /\ 0 \in 0 .. 2 /\ 1 \in 0 .. 2 /\ NoReply \in ReplyTypes
        /\ "OPEN" \in States /\ "CONNECTING_WAIT_BANNER" \in States
        /\ "ACCEPTING_REPLY" \in States
    BY FieldValues
  <2>1. PICK e1 : e1 = [c EXCEPT !.replacing = 0]
    OBVIOUS
  <2>2. e1 \in ConnTypes(max)
    BY <2>0, <2>1, OneField, Zenon
  <2>3. PICK e2 : e2 = [e1 EXCEPT !.reply = NoReply]
    OBVIOUS
  <2>4. e2 \in ConnTypes(max)
    BY <2>0, <2>2, <2>3, OneField, Zenon
  <2>5. PICK e3 : e3 = [e2 EXCEPT !.flags = F]
    OBVIOUS
  <2>6. e3 \in ConnTypes(max)
    BY <2>4, <2>5, OneField, Zenon
  <2>7. d = e3
    BY <2>1, <2>3, <2>5 DEF WithReplied
  <2> QED
    BY <2>6, <2>7
<1>2. /\ d.replacing = 0 /\ d.reply = NoReply /\ d.state = c.state /\ d.sd = c.sd
      /\ d.connect_seq = c.connect_seq /\ d.out_seq = c.out_seq /\ d.sent = c.sent
      /\ d.out_q = c.out_q /\ d.replacing_sd = c.replacing_sd
      /\ d.replacing_cseq = c.replacing_cseq /\ d.flags = F /\ d.in_seq = c.in_seq
  BY DEF ConnTypes, WithReplied
<1> QED
  BY <1>1, <1>2

\* The flags that Replied leaves.
LEMMA RepliedIs ==
    ASSUME NEW max, NEW c \in ConnTypes(max), NEW told
    PROVE  \E F \in SUBSET Flags :
              /\ Replied(c, told) = WithReplied(c, F)
              /\ \A f \in Flags \ {"queue_reset"} : f \in F <=> f \in c.flags
<1>1. PICK F : F = IF told THEN c.flags \cup {"queue_reset"} ELSE c.flags
  OBVIOUS
<1>2. c.flags \in SUBSET Flags
  BY FieldTypes
<1>3. F \in SUBSET Flags /\ \A f \in Flags \ {"queue_reset"} : f \in F <=> f \in c.flags
  BY <1>1, <1>2 DEF Flags
<1>4. [c EXCEPT !.replacing = 0, !.reply = NoReply].flags = c.flags
  BY DEF ConnTypes
<1>5. Replied(c, told) = WithReplied(c, F)
  BY <1>1, <1>4, Zenon DEF Replied, WithReplied
<1> QED
  BY <1>3, <1>5

-----------------------------------------------------------------------------
(***************************************************************************)
(* A connection c reads from its socket or writes to it, and becomes d.    *)
(***************************************************************************)
\* The first item of q is taken.
Taken(q, q1) ==
    /\ Len(q) \in Nat \ {0} /\ Len(q1) = Len(q) - 1
    /\ \A k \in 1 .. Len(q1) : q1[k] = q[k + 1]

\* The item is sent, or is lost.
Given(q, q1, item) ==
    /\ Len(q) \in Nat
    /\ \/ q1 = q
       \/ /\ Len(q1) = Len(q) + 1 /\ q1[Len(q) + 1] = item
          /\ \A k \in 1 .. Len(q) : q1[k] = q[k]

\* The last item is taken, and another one is the only one sent.
LEMMA OneItem ==
    ASSUME NEW qn, NEW qn1, NEW qp, NEW qp1, NEW item,
           Len(qn) <= 1, Len(qp) = 0, Taken(qn, qn1), Given(qp, qp1, item)
    PROVE  /\ Len(qn1) = 0 /\ Len(qp1) <= 1 /\ Len(qp1) \in Nat
           /\ \A k \in 1 .. Len(qp1) : k = 1 /\ qp1[k] = item
<1>1. Len(qn1) = 0
  BY DEF Taken
<1>2. CASE qp1 = qp
  BY <1>1, <1>2
<1>3. CASE Len(qp1) = Len(qp) + 1 /\ qp1[Len(qp) + 1] = item
  <2>1. Len(qp1) = 1 /\ qp1[1] = item
    BY <1>3
  <2> QED
    BY <1>1, <2>1
<1> QED
  BY <1>2, <1>3 DEF Given

\* An open connection reads, and writes what is not a reply.
LEMMA OpenGoesOn ==
    ASSUME NEW c, NEW d, NEW qn, NEW qp, NEW qn1, NEW qp1, NEW item,
           c.state = "OPEN", d.state = "OPEN", d.connect_seq = c.connect_seq,
           item.kind # "reply", Given(qp, qp1, item)
    PROVE  GoesOn(c, d, qn, qp, qn1, qp1)
<1>1. Inbox(d, qn1)
  BY DEF Inbox
<1>2. ASSUME NEW x, Paired(c, x, qn, qp), Inbox(x, qp)
      PROVE  Paired(d, x, qn1, qp1) /\ Inbox(x, qp1)
  <2>1. CASE Talk(c, x, qn, qp)
    <3>1. x.state \in {"ACCEPTING_WAIT_SEQ", "OPEN"} /\ x.connect_seq = c.connect_seq
      BY <2>1 DEF Talk
    <3> QED
      BY <3>1 DEF Paired, Talk, Inbox
  <2>2. CASE Talk(x, c, qp, qn)
    <3>1. \/ /\ x.state = "CONNECTING_WAIT_CONNECT_REPLY"
             /\ c.connect_seq = x.connect_seq + 1
             /\ \A k \in 1 .. Len(qp) :
                   qp[k].kind = "reply" => qp[k].tag \in {"READY", "SEQ"}
          \/ x.state = "OPEN" /\ c.connect_seq = x.connect_seq
      BY <2>2 DEF Talk
    <3>2. CASE x.state = "OPEN" /\ c.connect_seq = x.connect_seq
      BY <3>2 DEF Paired, Talk, Inbox
    <3>3. CASE /\ x.state = "CONNECTING_WAIT_CONNECT_REPLY"
               /\ c.connect_seq = x.connect_seq + 1
               /\ \A k \in 1 .. Len(qp) :
                     qp[k].kind = "reply" => qp[k].tag \in {"READY", "SEQ"}
      <4>1. \A k \in 1 .. Len(qp1) :
               qp1[k].kind = "reply" => k \in 1 .. Len(qp) /\ qp1[k] = qp[k]
        BY DEF Given
      <4>2. Talk(x, d, qp1, qn1)
        BY <3>3, <4>1 DEF Talk
      <4>3. Inbox(x, qp1)
        BY <1>2, <3>3, <4>1 DEF Inbox
      <4> QED
        BY <4>2, <4>3 DEF Paired
    <3> QED
      BY <3>1, <3>2, <3>3
  <2> QED
    BY <1>2, <2>1, <2>2 DEF Paired
<1>3. \A x : ~Handed(c, x, qn, qp)
  BY DEF Handed
<1> QED
  BY <1>1, <1>2, <1>3 DEF GoesOn

\* The connecting side has read the banner and makes its attempt.
LEMMA BannerGoesOn ==
    ASSUME NEW c, NEW d, NEW qn, NEW qp, NEW qn1, NEW qp1, NEW item,
           c.state = "CONNECTING_WAIT_BANNER", d.state = "CONNECTING_WAIT_CONNECT_REPLY",
           d.connect_seq = c.connect_seq, item.cseq = c.connect_seq,
           Inbox(c, qn), Taken(qn, qn1), Given(qp, qp1, item)
    PROVE  GoesOn(c, d, qn, qp, qn1, qp1)
<1>1. Inbox(d, qn1)
  <2>1. \A k \in 1 .. Len(qn1) : k + 1 \in 1 .. Len(qn) /\ qn1[k] = qn[k + 1]
    BY DEF Taken
  <2> QED
    BY <2>1 DEF Inbox
<1>2. ASSUME NEW x, Paired(c, x, qn, qp), Inbox(x, qp)
      PROVE  Paired(d, x, qn1, qp1) /\ Inbox(x, qp1)
  <2>1. /\ x.state = "ACCEPTING_WAIT_CONNECT_MSG"
        /\ Len(qn) <= 1 /\ Len(qp) = 0
    BY <1>2 DEF Paired, Talk
  <2>2. /\ Len(qn1) = 0 /\ Len(qp1) <= 1 /\ Len(qp1) \in Nat
        /\ \A k \in 1 .. Len(qp1) : qp1[k] = item
    BY <2>1, OneItem
  <2>3. Talk(d, x, qn1, qp1)
    BY <2>1, <2>2 DEF Talk
  <2> QED
    BY <2>1, <2>3 DEF Paired, Inbox
<1>3. \A x : ~Handed(c, x, qn, qp)
  BY DEF Handed
<1> QED
  BY <1>1, <1>2, <1>3 DEF GoesOn

\* The connecting side was told to try again and makes another attempt.
LEMMA RetryGoesOn ==
    ASSUME NEW c, NEW d, NEW qn, NEW qp, NEW qn1, NEW qp1, NEW item,
           c.state = "CONNECTING_WAIT_CONNECT_REPLY", d.state = c.state,
           item.cseq = d.connect_seq, qn[1].kind = "reply", qn[1].tag \notin {"READY", "SEQ"},
           Inbox(c, qn), Taken(qn, qn1), Given(qp, qp1, item)
    PROVE  GoesOn(c, d, qn, qp, qn1, qp1)
<1>1. Inbox(d, qn1)
  <2>1. \A k \in 1 .. Len(qn1) : k + 1 \in 1 .. Len(qn) /\ k + 1 # 1 /\ qn1[k] = qn[k + 1]
    BY DEF Taken
  <2>2. \A k \in 1 .. Len(qn1) : qn1[k].kind # "reply"
    BY <2>1 DEF Inbox
  <2> QED
    BY <2>2 DEF Inbox
<1>0. 1 \in 1 .. Len(qn)
  BY DEF Taken
<1>2. ASSUME NEW x, Paired(c, x, qn, qp), Inbox(x, qp)
      PROVE  Paired(d, x, qn1, qp1) /\ Inbox(x, qp1)
  <2>1. /\ x.state = "ACCEPTING_WAIT_CONNECT_MSG"
        /\ Len(qn) + Len(qp) <= 1
    BY <1>0, <1>2 DEF Paired, Talk, Taken
  <2>2. /\ Len(qn1) = 0 /\ Len(qp1) <= 1 /\ Len(qp1) \in Nat
        /\ \A k \in 1 .. Len(qp1) : qp1[k] = item
    BY <2>1 DEF Taken, Given
  <2>3. Talk(d, x, qn1, qp1)
    BY <2>1, <2>2 DEF Talk
  <2> QED
    BY <2>1, <2>3 DEF Paired, Inbox
<1>3. \A x : ~Handed(c, x, qn, qp)
  BY DEF Handed, Taken
<1> QED
  BY <1>1, <1>2, <1>3 DEF GoesOn

\* The connecting side was told that the session is open.
LEMMA OpenedGoesOn ==
    ASSUME NEW c, NEW d, NEW qn, NEW qp, NEW qn1, NEW qp1,
           c.state = "CONNECTING_WAIT_CONNECT_REPLY", d.state = "OPEN",
           d.connect_seq = c.connect_seq + 1,
           qn[1].tag \in {"READY", "SEQ"}, Taken(qn, qn1)
    PROVE  GoesOn(c, d, qn, qp, qn1, qp1)
<1>0. 1 \in 1 .. Len(qn)
  BY DEF Taken
<1>1. Inbox(d, qn1)
  BY DEF Inbox
<1>2. ASSUME NEW x, Paired(c, x, qn, qp), Inbox(x, qp)
      PROVE  Paired(d, x, qn1, qp1) /\ Inbox(x, qp1)
  <2>1. x.state \in {"ACCEPTING_WAIT_SEQ", "OPEN"} /\ x.connect_seq = c.connect_seq + 1
    BY <1>0, <1>2 DEF Paired, Talk, Taken
  <2> QED
    BY <2>1 DEF Paired, Talk, Inbox
<1>3. \A x : ~Handed(c, x, qn, qp)
  BY DEF Handed, Taken
<1> QED
  BY <1>1, <1>2, <1>3 DEF GoesOn

\* What the accepting side knows when it has an attempt to read.
LEMMA AttemptToRead ==
    ASSUME NEW c, NEW x, NEW qn, NEW qp, NEW qn1, Len(qp) \in Nat,
           c.state = "ACCEPTING_WAIT_CONNECT_MSG", Paired(c, x, qn, qp), Taken(qn, qn1)
    PROVE  /\ x.state = "CONNECTING_WAIT_CONNECT_REPLY"
           /\ Len(qp) = 0 /\ Len(qn) = 1 /\ qn[1].cseq = x.connect_seq
<1>0. 1 \in 1 .. Len(qn) /\ Len(qn) \in Nat
  BY DEF Taken
<1>1. /\ x.state = "CONNECTING_WAIT_CONNECT_REPLY"
      /\ Len(qp) + Len(qn) <= 1
      /\ \A k \in 1 .. Len(qn) : qn[k].cseq = x.connect_seq
  BY <1>0 DEF Paired, Talk
<1>2. Len(qn) >= 1
  BY <1>0
<1>3. \A a, b \in Nat : a + b <= 1 /\ b >= 1 => a = 0 /\ b = 1
  OBVIOUS
<1>4. Len(qp) = 0 /\ Len(qn) = 1
  BY <1>0, <1>1, <1>2, <1>3, Zenon
<1> QED
  BY <1>0, <1>1, <1>4, Zenon

\* The accepting side refuses an attempt.
LEMMA RefuseGoesOn ==
    ASSUME NEW c, NEW d, NEW qn, NEW qp, NEW qn1, NEW qp1, NEW r,
           c.state = "ACCEPTING_WAIT_CONNECT_MSG", SameEnd(c, d),
           r.tag \notin {"READY", "SEQ"}, r.tag = "RETRY_SESSION" => r.cseq > qn[1].cseq,
           Taken(qn, qn1), Given(qp, qp1, r)
    PROVE  GoesOn(c, d, qn, qp, qn1, qp1)
<1>1. Inbox(d, qn1)
  BY DEF Inbox, SameEnd
<1>2. ASSUME NEW x, Paired(c, x, qn, qp), Inbox(x, qp)
      PROVE  Paired(d, x, qn1, qp1) /\ Inbox(x, qp1)
  <2>1. /\ x.state = "CONNECTING_WAIT_CONNECT_REPLY"
        /\ Len(qp) = 0 /\ Len(qn) = 1 /\ qn[1].cseq = x.connect_seq
    BY <1>2, AttemptToRead DEF Given
  <2>2. /\ Len(qn1) = 0 /\ Len(qp1) <= 1 /\ Len(qp1) \in Nat
        /\ \A k \in 1 .. Len(qp1) : k = 1 /\ qp1[k] = r
    <3>1. Len(qn) <= 1 /\ Len(qp) = 0
      BY <2>1
    <3> QED
      BY <3>1, OneItem, Zenon
  <2>3. Talk(x, d, qp1, qn1)
    BY <2>1, <2>2 DEF Talk, SameEnd
  <2>4. Fits(r, x.connect_seq)
    BY <2>1 DEF Fits
  <2>5. Inbox(x, qp1)
    BY <2>1, <2>2, <2>4 DEF Inbox
  <2> QED
    BY <2>3, <2>5 DEF Paired
<1>3. \A x : ~Handed(c, x, qn, qp)
  BY DEF Handed
<1> QED
  BY <1>1, <1>2, <1>3 DEF GoesOn

\* The accepting side accepts an attempt.
LEMMA AcceptGoesOn ==
    ASSUME NEW c, NEW d, NEW qn, NEW qp, NEW qn1, Len(qp) \in Nat,
           c.state = "ACCEPTING_WAIT_CONNECT_MSG", d.state = "ACCEPTING_REPLY",
           d.connect_seq = qn[1].cseq + 1, Taken(qn, qn1)
    PROVE  GoesOn(c, d, qn, qp, qn1, qp)
<1>1. Inbox(d, qn1)
  BY DEF Inbox
<1>2. ASSUME NEW x, Paired(c, x, qn, qp), Inbox(x, qp)
      PROVE  Paired(d, x, qn1, qp) /\ Inbox(x, qp)
  <2>1. /\ x.state = "CONNECTING_WAIT_CONNECT_REPLY"
        /\ Len(qp) = 0 /\ qn[1].cseq = x.connect_seq
    BY <1>2, AttemptToRead
  <2> QED
    BY <1>2, <2>1 DEF Paired, Talk
<1>3. \A x : ~Handed(c, x, qn, qp)
  BY DEF Handed
<1> QED
  BY <1>1, <1>2, <1>3 DEF GoesOn

\* The accepting side sends its reply.
LEMMA ReplyGoesOn ==
    ASSUME NEW c, NEW d, NEW qn, NEW qp, NEW qp1, NEW r,
           c.state = "ACCEPTING_REPLY", d.state \in {"ACCEPTING_WAIT_SEQ", "OPEN"},
           d.connect_seq = c.connect_seq, r.tag \in {"READY", "SEQ"},
           r.cseq = c.connect_seq, Given(qp, qp1, r)
    PROVE  GoesOn(c, d, qn, qp, qn, qp1)
<1>1. Inbox(d, qn)
  BY DEF Inbox
<1>2. ASSUME NEW x, Paired(c, x, qn, qp), Inbox(x, qp)
      PROVE  Paired(d, x, qn, qp1) /\ Inbox(x, qp1)
  <2>1. /\ x.state = "CONNECTING_WAIT_CONNECT_REPLY"
        /\ c.connect_seq = x.connect_seq + 1 /\ Len(qp) = 0
    BY <1>2 DEF Paired, Talk
  <2>2. \A k \in 1 .. Len(qp1) : k = 1 /\ qp1[k] = r
    BY <2>1 DEF Given
  <2>3. Talk(x, d, qp1, qn)
    BY <2>1, <2>2 DEF Talk
  <2>4. Fits(r, x.connect_seq)
    BY <2>1 DEF Fits
  <2>5. Inbox(x, qp1)
    BY <2>1, <2>2, <2>4 DEF Inbox
  <2> QED
    BY <2>3, <2>5 DEF Paired
<1>3. \A x : ~Handed(c, x, qn, qp)
  BY DEF Handed
<1> QED
  BY <1>1, <1>2, <1>3 DEF GoesOn

\* The accepting side has read what the peer has.
LEMMA SeqGoesOn ==
    ASSUME NEW c, NEW d, NEW qn, NEW qp, NEW qn1,
           c.state = "ACCEPTING_WAIT_SEQ", d.state = "OPEN", d.connect_seq = c.connect_seq
    PROVE  GoesOn(c, d, qn, qp, qn1, qp)
<1>1. Inbox(d, qn1)
  BY DEF Inbox
<1>2. ASSUME NEW x, Paired(c, x, qn, qp), Inbox(x, qp)
      PROVE  Paired(d, x, qn1, qp) /\ Inbox(x, qp)
  BY <1>2 DEF Paired, Talk
<1>3. \A x : ~Handed(c, x, qn, qp)
  BY DEF Handed
<1> QED
  BY <1>1, <1>2, <1>3 DEF GoesOn

-----------------------------------------------------------------------------
(***************************************************************************)
(* Steps.                                                                  *)
(***************************************************************************)
\* The invariant in two parts: connections and sockets, and the rest.
Core ==
    /\ ConnsTyped(conn, MaxMsgs) /\ Connections
    /\ sock \in [Socks -> SockTypes] /\ AllSocks(conn, sock)

\* The other variables.
Rest ==
    /\ scenario \in ScenarioTypes
    /\ conns \in [Node -> Slots \cup {None}]
    /\ global_seq \in [Node -> Nat] /\ submitted \in [Node -> Nat]
    /\ \A n \in Node : submitted[n] <= MaxMsgs[n]

\* The two parts make up the invariant.
LEMMA TwoParts == IInv <=> Core /\ Rest
BY DEF IInv, Types, Sockets, Core, Rest, AllSocks

\* What is known of connection i of n before a step.
LEMMA Before ==
    ASSUME Core, NEW n \in Node, NEW i \in Slots
    PROVE  /\ conn[n][i] \in ConnTypes(MaxMsgs[n]) /\ ConnOK(conn[n][i])
           /\ conn[n][i].sd \in Handles /\ conn[n][i].replacing_sd \in Handles
           /\ \A s \in Socks : SockOK(conn, sock[s], s)
           /\ Peer(n) \in Node
<1>1. conn[n][i] \in ConnTypes(MaxMsgs[n])
  BY DEF Core, ConnsTyped
<1> QED
  BY <1>1, FieldTypes, Peers DEF Core, Connections, AllSocks

\* Connection i of n becomes d.
LEMMA After ==
    ASSUME Core, NEW n \in Node, NEW i \in Slots, scenario' = scenario,
           NEW d \in ConnTypes(MaxMsgs[n]), ConnOK(d), conn' = Updated(conn, n, i, d)
    PROVE  /\ ConnsTyped(conn', MaxMsgs') /\ Connections'
           /\ Moves(conn, conn', n, i) /\ conn'[n][i] = d
<1>1. MaxMsgs' = MaxMsgs
  BY DEF MaxMsgs
<1>2. ConnsTyped(conn, MaxMsgs)
  BY DEF Core
<1>3. /\ ConnsTyped(conn', MaxMsgs) /\ conn'[n][i] = d
      /\ \A j \in Slots \ {i} : conn'[n][j] = conn[n][j]
      /\ conn'[Peer(n)] = conn[Peer(n)]
  BY <1>2, Update
<1>4. \A m \in Node, j \in Slots : ConnOK(conn'[m][j])
  <2>1. \A m \in Node, j \in Slots : ConnOK(conn[m][j])
    BY DEF Core, Connections
  <2>2. \A m \in Node : m = n \/ m = Peer(n)
    BY Peers
  <2> QED
    BY <1>3, <2>1, <2>2, Zenon
<1>5. Connections'
  BY <1>4 DEF Connections
<1> QED
  BY <1>1, <1>3, <1>5 DEF Moves

\* The sockets sk are those of the state, but n may have read from that of c.
Near(sk, n, c) ==
    /\ sk \in [Socks -> SockTypes]
    /\ \A t \in Socks : /\ sk[t].end[Peer(n)] = sock[t].end[Peer(n)]
                        /\ sk[t].q[Peer(n)] = sock[t].q[Peer(n)]
                        /\ t # c.sd => sk[t] = sock[t]

\* The sockets as they are; and after n has read.
LEMMA NearSame ==
    ASSUME Core, NEW n, NEW c PROVE Near(sock, n, c)
BY DEF Near, Core

\* ... and after n has read.
LEMMA NearPopped ==
    ASSUME Core, NEW n \in Node, NEW i \in Slots, conn[n][i].sd # None,
           sock[conn[n][i].sd].q[n] # <<>>
    PROVE  Near(Popped(n, i), n, conn[n][i])
<1>1. PICK s, new : s = conn[n][i].sd /\ new = Popped(n, i)
  OBVIOUS
<1>2. s \in Socks
  BY <1>1, Before DEF Handles
<1>3. /\ new \in [Socks -> SockTypes] /\ \A t \in Socks \ {s} : new[t] = sock[t]
      /\ new[s].end = sock[s].end /\ new[s].q[Peer(n)] = sock[s].q[Peer(n)]
  <2>1. new = Pop(sock, s, n) /\ sock \in [Socks -> SockTypes] /\ sock[s].q[n] # <<>>
    BY <1>1 DEF Popped, Core
  <2> QED
    BY <1>2, <2>1, PopSock
<1> QED
  BY <1>1, <1>3 DEF Near

\* n closes its end of c's socket.
LEMMA CloseNear ==
    ASSUME Core, NEW n \in Node, NEW c, c.sd \in Handles, NEW sk, Near(sk, n, c),
           NEW new, new = Close(sk, c.sd, n)
    PROVE  /\ new \in [Socks -> SockTypes]
           /\ \A t \in Socks : t # c.sd => new[t] = sock[t]
           /\ c.sd \in Socks => Shut(sock[c.sd], new[c.sd], n)
<1>1. /\ sk \in [Socks -> SockTypes]
      /\ \A t \in Socks : /\ sk[t].end[Peer(n)] = sock[t].end[Peer(n)]
                          /\ sk[t].q[Peer(n)] = sock[t].q[Peer(n)]
                          /\ t # c.sd => sk[t] = sock[t]
  BY DEF Near
<1>2. /\ new \in [Socks -> SockTypes]
      /\ \A t \in Socks \ {c.sd} : new[t] = sk[t]
      /\ c.sd \in Socks => Shut(sk[c.sd], new[c.sd], n)
  BY <1>1, CloseSock
<1>3. c.sd \in Socks => Shut(sock[c.sd], new[c.sd], n)
  BY <1>1, <1>2 DEF Shut
<1> QED
  BY <1>1, <1>2, <1>3

\* _stop.
LEMMA StopStep ==
    ASSUME Core, NEW n \in Node, NEW i \in Slots, NEW c, NEW sk, scenario' = scenario,
           c.sd = conn[n][i].sd, c.replacing_sd = conn[n][i].replacing_sd,
           Near(sk, n, c), _stop(n, i, c, sk), conns \in [Node -> Slots \cup {None}]
    PROVE  Core' /\ conns' \in [Node -> Slots \cup {None}] /\ submitted' = submitted
<1>1. /\ conn[n][i].sd \in Handles /\ conn[n][i].replacing_sd \in Handles
      /\ \A s \in Socks : SockOK(conn, sock[s], s)
  BY Before
<1>2. /\ FreeConn \in ConnTypes(MaxMsgs[n]) /\ ConnOK(FreeConn)
      /\ FreeConn.sd = None /\ FreeConn.replacing_sd = None
  BY FreeRecord
<1>3. conn' = Updated(conn, n, i, FreeConn)
  BY DEF _stop, Updated
<1> HIDE DEF FreeConn
<1>4. /\ ConnsTyped(conn', MaxMsgs') /\ Connections'
      /\ Moves(conn, conn', n, i) /\ conn'[n][i] = FreeConn
  BY <1>2, <1>3, After
<1>5. PICK S1 : S1 = Close(sk, c.sd, n)
  OBVIOUS
<1>6. sock' = Close(S1, c.replacing_sd, n)
  BY <1>5 DEF _stop
<1>7. /\ S1 \in [Socks -> SockTypes]
      /\ \A t \in Socks : t # c.sd => S1[t] = sock[t]
      /\ c.sd \in Socks => Shut(sock[c.sd], S1[c.sd], n)
  BY <1>1, <1>5, CloseNear
<1>8. /\ sock' \in [Socks -> SockTypes]
      /\ \A t \in Socks \ {c.replacing_sd} : sock'[t] = S1[t]
      /\ c.replacing_sd \in Socks => Shut(S1[c.replacing_sd], sock'[c.replacing_sd], n)
  BY <1>1, <1>6, <1>7, CloseSock
<1>9. \A t \in Socks : ~(c.sd = t /\ c.replacing_sd = t)
  BY <1>1, OnlyUser DEF Uses
<1>10. ASSUME NEW t \in Socks
       PROVE  \/ sock'[t] = sock[t]
              \/ ~Uses(conn'[n][i], t) /\ Uses(conn[n][i], t) /\ Shut(sock[t], sock'[t], n)
  <2>1. ~Uses(conn'[n][i], t)
    BY <1>2, <1>4, SocketsPositive DEF Uses
  <2>2. CASE t = c.sd
    BY <1>7, <1>8, <1>9, <2>1, <2>2 DEF Uses
  <2>3. CASE t = c.replacing_sd
    BY <1>7, <1>8, <1>9, <2>1, <2>3 DEF Uses
  <2>4. CASE t # c.sd /\ t # c.replacing_sd
    BY <1>7, <1>8, <2>4
  <2> QED
    BY <2>2, <2>3, <2>4
<1>11. AllSocks(conn', sock')
  <2>1. AllSocks(conn, sock) /\ conn'[n][i].sd = None /\ conn'[n][i].replacing_sd = None
    BY <1>2, <1>4 DEF Core
  <2> QED
    BY <1>4, <1>10, <2>1, SocketsLeft
<1>12. conns' \in [Node -> Slots \cup {None}] /\ submitted' = submitted
  BY DEF _stop
<1>13. Core'
  BY <1>4, <1>8, <1>11 DEF Core
<1> QED
  BY <1>12, <1>13

\* fault.
LEMMA FaultStep ==
    ASSUME Core, NEW n \in Node, NEW i \in Slots, NEW c, NEW sk, scenario' = scenario,
           c \in ConnTypes(MaxMsgs[n]), Numbered(c),
           c.sd = conn[n][i].sd, SameHold(conn[n][i], c),
           Near(sk, n, c), fault(n, i, c, sk), conns \in [Node -> Slots \cup {None}]
    PROVE  Core' /\ conns' \in [Node -> Slots \cup {None}] /\ submitted' = submitted
<1>0. c.replacing_sd = conn[n][i].replacing_sd
  BY DEF SameHold
<1>1. CASE _stop(n, i, c, sk)
  BY <1>0, <1>1, StopStep
<1>2. CASE ~(Flag(c, "lossy") /\ c.state \notin ConnectingStates)
  <2>1. PICK d : d = IF IsRegistered(n, i) THEN Faulted(n, c)
                     ELSE [FreeConn EXCEPT !.state = "STANDBY"]
    OBVIOUS
  <2>2. /\ conn' = Updated(conn, n, i, d) /\ sock' = Close(sk, c.sd, n)
        /\ conns' = conns /\ submitted' = submitted
    BY <1>2, <2>1 DEF fault, Updated, history
  <2>3. /\ d \in ConnTypes(MaxMsgs[n]) /\ ConnOK(d) /\ d.sd = None
        /\ d.replacing_sd = None \/ SameHold(conn[n][i], d)
    <3>1. CASE IsRegistered(n, i)
      <4>1. d \in ConnTypes(MaxMsgs[n]) /\ ConnOK(d) /\ d.sd = None /\ SameHold(c, d)
        BY <2>1, <3>1, FaultedRecord
      <4>2. SameHold(conn[n][i], d)
        BY <4>1 DEF SameHold
      <4> QED
        BY <4>1, <4>2
    <3>2. CASE ~IsRegistered(n, i)
      <4>0. /\ FreeConn \in ConnTypes(MaxMsgs[n]) /\ "STANDBY" \in States
        BY FreeRecord, FieldValues
      <4>1. d = [FreeConn EXCEPT !.state = "STANDBY"]
        BY <2>1, <3>2
      <4>2. d \in ConnTypes(MaxMsgs[n])
        BY <4>0, <4>1, OneField, Zenon
      <4>3. /\ ConnOK(d) /\ d.sd = None /\ d.replacing_sd = None
        BY <4>1 DEF FreeConn, ConnOK, Numbered, Numbers, Local, Linked, None
      <4> QED
        BY <4>2, <4>3
    <3> QED
      BY <3>1, <3>2
  <2>4. /\ ConnsTyped(conn', MaxMsgs') /\ Connections'
        /\ Moves(conn, conn', n, i) /\ conn'[n][i] = d
    BY <2>2, <2>3, After
  <2>5. conn[n][i].sd \in Handles /\ \A s \in Socks : SockOK(conn, sock[s], s)
    BY Before
  <2>6. /\ sock' \in [Socks -> SockTypes]
        /\ \A t \in Socks : t # c.sd => sock'[t] = sock[t]
        /\ c.sd \in Socks => Shut(sock[c.sd], sock'[c.sd], n)
    BY <2>2, <2>5, CloseNear
  <2>7. ASSUME NEW t \in Socks
        PROVE  \/ sock'[t] = sock[t]
               \/ ~Uses(conn'[n][i], t) /\ Uses(conn[n][i], t) /\ Shut(sock[t], sock'[t], n)
    <3>1. CASE t # c.sd
      BY <2>6, <3>1
    <3>2. CASE t = c.sd
      <4>1. Shut(sock[t], sock'[t], n) /\ Uses(conn[n][i], t)
        BY <2>6, <3>2 DEF Uses
      <4>2. conn[n][i].replacing_sd # t /\ t # None
        BY <2>5, <3>2, OnlyUser, SocketsPositive DEF Uses
      <4>3. ~Uses(conn'[n][i], t)
        BY <2>3, <2>4, <4>2 DEF Uses, SameHold
      <4> QED
        BY <4>1, <4>3
    <3> QED
      BY <3>1, <3>2
  <2>8. AllSocks(conn', sock')
    <3>1. /\ AllSocks(conn, sock) /\ conn'[n][i].sd = None
          /\ conn'[n][i].replacing_sd = None \/ SameHold(conn[n][i], conn'[n][i])
      BY <2>3, <2>4 DEF Core
    <3> QED
      BY <2>4, <2>7, <3>1, SocketsLeft
  <2>9. Core'
    BY <2>4, <2>6, <2>8 DEF Core
  <2> QED
    BY <2>2, <2>9
<1> QED
  BY <1>1, <1>2 DEF fault

\* A reply is an item that a socket may carry.
LEMMA ReplyTyped ==
    ASSUME NEW tag \in Tags, NEW cseq \in Nat, NEW gseq \in Nat, NEW seq \in Nat,
           NEW lossy \in {"yes", "no"}, NEW r, r = Reply(tag, cseq, gseq, seq, lossy)
    PROVE  /\ r \in ReplyTypes /\ r \in Items
           /\ r.kind = "reply" /\ r.tag = tag /\ r.cseq = cseq
BY DEF Reply, ReplyTypes, Items

\* do_replace.
LEMMA ReplaceStep ==
    ASSUME Core, NEW n \in Node, NEW i \in Slots, NEW c, NEW sk, scenario' = scenario,
           scenario \in ScenarioTypes, c \in ConnTypes(MaxMsgs[n]), Numbered(c),
           c.sd = conn[n][i].sd, SameHold(conn[n][i], c), c.replacing = 1,
           Near(sk, n, c), do_replace(n, i, c, sk)
    PROVE  Core' /\ conns' = conns /\ submitted' = submitted
<1>1. PICK s : s = c.replacing_sd
  OBVIOUS
<1>0. /\ conn[n][i].replacing_sd = s /\ conn[n][i].replacing = 1
      /\ conn[n][i].replacing_cseq = c.replacing_cseq
  BY <1>1 DEF SameHold
<1>2. /\ conn[n][i] \in ConnTypes(MaxMsgs[n]) /\ ConnOK(conn[n][i])
      /\ c.sd \in Handles /\ s \in Handles
      /\ \A t \in Socks : SockOK(conn, sock[t], t)
  BY <1>0, Before
<1>3. s \in Socks /\ s # None
  BY <1>0, <1>2 DEF ConnOK, Local, Handles
<1>4. c.sd # s
  BY <1>0, <1>2, <1>3, OnlyUser DEF Uses
<1>5. PICK x \in ConnTypes(MaxMsgs[n]) :
         Numbered(x) /\ conn' = Updated(conn, n, i, TakenOver(x, s))
  <2>1. PICK x \in IF Flag(c, "replacing_reset_session") THEN was_session_reset(c) ELSE {c} :
           conn' = Updated(conn, n, i, TakenOver(x, s))
    BY <1>1, Zenon DEF do_replace, Updated, TakenOver
  <2>2. x \in ConnTypes(MaxMsgs[n]) /\ Numbered(x)
    <3>1. CASE x = c
      BY <3>1
    <3>2. CASE x \in was_session_reset(c)
      <4>1. PICK r \in ResetSeqs : x = Cleared(c, r)
        BY <3>2, Zenon DEF was_session_reset, Cleared
      <4>2. r \in Nat
        BY DEF ScenarioTypes, ResetSeqs
      <4> QED
        BY <4>1, <4>2, ResetRecord
    <3> QED
      BY <2>1, <3>1, <3>2
  <2> QED
    BY <2>1, <2>2, Zenon
<1>6. PICK d : d = TakenOver(x, s)
  OBVIOUS
<1>7. /\ d \in ConnTypes(MaxMsgs[n]) /\ ConnOK(d) /\ d.sd = s
      /\ d.replacing_sd = None /\ d.state = "ACCEPTING_WAIT_CONNECT_MSG"
  BY <1>1, <1>3, <1>5, <1>6, ReplacedRecord
<1>8. conn' = Updated(conn, n, i, d)
  BY <1>5, <1>6
<1>9. /\ ConnsTyped(conn', MaxMsgs') /\ Connections'
      /\ Moves(conn, conn', n, i) /\ conn'[n][i] = d
  BY <1>7, <1>8, After
<1>10. PICK r : r = Reply("RETRY_SESSION", c.replacing_cseq + 1, 0, 0, "no")
  OBVIOUS
<1>11. c.replacing_cseq \in Nat /\ r \in Items
  <2>1. c.replacing_cseq \in Nat /\ c.replacing_cseq + 1 \in Nat /\ 0 \in Nat
        /\ "RETRY_SESSION" \in Tags /\ "no" \in {"yes", "no"}
    BY FieldTypes DEF Tags
  <2> QED
    BY <1>10, <2>1, ReplyTyped
<1>12. PICK S1 : S1 = Close(sk, c.sd, n)
  OBVIOUS
<1>13. /\ S1 \in [Socks -> SockTypes]
       /\ \A t \in Socks : t # c.sd => S1[t] = sock[t]
       /\ c.sd \in Socks => Shut(sock[c.sd], S1[c.sd], n)
  BY <1>1, <1>2, <1>12, CloseNear
<1>14. sock' = Put(S1, s, Peer(n), r)
  BY <1>1, <1>10, <1>12 DEF do_replace
<1>15. /\ sock' \in [Socks -> SockTypes]
       /\ \A t \in Socks \ {s} : sock'[t] = S1[t]
       /\ sock'[s].end = S1[s].end
       /\ sock'[s].q[Peer(Peer(n))] = S1[s].q[Peer(Peer(n))]
       /\ \/ sock'[s].q[Peer(n)] = S1[s].q[Peer(n)]
          \/ sock'[s].q[Peer(n)] = Append(S1[s].q[Peer(n)], r)
  <2>1. Peer(n) \in Node
    BY Peers
  <2> QED
    BY <1>3, <1>11, <1>13, <1>14, <2>1, PutSock
<1>16. /\ sock'[s].end = sock[s].end /\ sock'[s].q[n] = sock[s].q[n]
       /\ \/ sock'[s].q[Peer(n)] = sock[s].q[Peer(n)]
          \/ sock'[s].q[Peer(n)] = Append(sock[s].q[Peer(n)], r)
  <2>1. S1[s] = sock[s] /\ Peer(Peer(n)) = n
    BY <1>3, <1>4, <1>13, Peers
  <2> QED
    BY <1>15, <2>1
<1>17. \A t \in Socks \ {s} : \/ sock'[t] = sock[t]
                              \/ conn[n][i].sd = t /\ Shut(sock[t], sock'[t], n)
  <2> SUFFICES ASSUME NEW t \in Socks \ {s}
               PROVE  sock'[t] = sock[t] \/ (c.sd = t /\ Shut(sock[t], sock'[t], n))
    OBVIOUS
  <2>1. sock'[t] = S1[t]
    BY <1>15
  <2>2. CASE t # c.sd
    BY <1>13, <2>1, <2>2
  <2>3. CASE t = c.sd
    BY <1>13, <2>1, <2>3
  <2> QED
    BY <2>2, <2>3
<1>18. sock[s].q[Peer(n)] \in Seq(Items)
  BY <1>3, Peers DEF Core, SockTypes
<1>19. AllSocks(conn', sock')
  <2>1. /\ conn[n][i].replacing_sd = s /\ conn'[n][i].sd = s /\ conn'[n][i].replacing_sd = None
        /\ conn'[n][i].state = "ACCEPTING_WAIT_CONNECT_MSG"
        /\ conn[n][i].replacing_cseq \in Nat
        /\ r = Reply("RETRY_SESSION", conn[n][i].replacing_cseq + 1, 0, 0, "no")
        /\ AllSocks(conn, sock)
    BY <1>0, <1>7, <1>9, <1>10, <1>11 DEF Core
  <2>2. TakesOver(conn, conn', sock, sock', n, i, s, r)
    BY <1>0, <1>9, <1>16, <1>17, <1>18, <2>1, Zenon DEF TakesOver
  <2> QED
    BY <1>3, <2>2, SocketsTaken
<1>20. Core'
  BY <1>9, <1>15, <1>19 DEF Core
<1>21. conns' = conns /\ submitted' = submitted
  BY DEF do_replace, SessionReset, history
<1> QED
  BY <1>20, <1>21

\* What the kind of an item says about it.
LEMMA ItemKinds ==
    ASSUME NEW x \in Items
    PROVE  /\ x.kind \in {"msg", "ack", "seq"} => x.seq \in Nat
           /\ x.kind = "connect" => x.cseq \in Nat /\ x.gseq \in Nat
           /\ x.kind = "reply" => x \in ReplyTypes
           /\ x \in ReplyTypes => /\ x.tag \in Tags /\ x.cseq \in Nat /\ x.gseq \in Nat
                                  /\ x.seq \in Nat /\ x.lossy \in {"yes", "no"}
BY DEF Items, ReplyTypes

\* Only the queues of socket s change.
Exchange(S, S1, s) ==
    /\ S1 \in [Socks -> SockTypes]
    /\ \A t \in Socks \ {s} : S1[t] = S[t]
    /\ S1[s].end = S[s].end

\* An item is written.
LEMMA WriteSock ==
    ASSUME NEW S \in [Socks -> SockTypes], NEW n \in Node, NEW s \in Socks,
           NEW item \in Items, NEW S1, S1 = Put(S, s, Peer(n), item)
    PROVE  /\ Exchange(S, S1, s) /\ S1[s].q[n] = S[s].q[n]
           /\ Given(S[s].q[Peer(n)], S1[s].q[Peer(n)], item)
<1>0. Peer(n) \in Node /\ Peer(Peer(n)) = n
  BY Peers
<1>1. /\ S1 \in [Socks -> SockTypes]
      /\ \A t \in Socks \ {s} : S1[t] = S[t]
      /\ S1[s].end = S[s].end
      /\ S1[s].q[n] = S[s].q[n]
      /\ \/ S1[s].q[Peer(n)] = S[s].q[Peer(n)]
         \/ S1[s].q[Peer(n)] = Append(S[s].q[Peer(n)], item)
  BY <1>0, PutSock
<1>2. S[s].q[Peer(n)] \in Seq(Items)
  BY <1>0 DEF SockTypes
<1>3. \A q \in Seq(Items) : /\ Len(q) \in Nat /\ Len(Append(q, item)) = Len(q) + 1
                            /\ Append(q, item)[Len(q) + 1] = item
                            /\ \A k \in 1 .. Len(q) : Append(q, item)[k] = q[k]
  OBVIOUS
<1>4. Given(S[s].q[Peer(n)], S1[s].q[Peer(n)], item)
  BY <1>1, <1>2, <1>3, Zenon DEF Given
<1> QED
  BY <1>1, <1>4 DEF Exchange

\* An item is read.
LEMMA ReadSock ==
    ASSUME NEW S \in [Socks -> SockTypes], NEW n \in Node, NEW s \in Socks,
           S[s].q[n] # <<>>, NEW S1, S1 = Pop(S, s, n)
    PROVE  /\ Exchange(S, S1, s) /\ S1[s].q[Peer(n)] = S[s].q[Peer(n)]
           /\ Taken(S[s].q[n], S1[s].q[n])
           /\ Head(S[s].q[n]) = S[s].q[n][1] /\ Head(S[s].q[n]) \in Items
           /\ Len(S[s].q[n]) # 0 /\ Len(S[s].q[Peer(n)]) \in Nat
<1>0. S[s].q[Peer(n)] \in Seq(Items)
  BY Peers DEF SockTypes
<1>1. Len(S[s].q[Peer(n)]) \in Nat
  BY <1>0
<1>2. /\ S1 \in [Socks -> SockTypes]
      /\ \A t \in Socks \ {s} : S1[t] = S[t]
      /\ S1[s].end = S[s].end
      /\ S1[s].q[Peer(n)] = S[s].q[Peer(n)]
      /\ Head(S[s].q[n]) = S[s].q[n][1] /\ Head(S[s].q[n]) \in Items
      /\ Len(S[s].q[n]) \in Nat \ {0}
      /\ Len(S1[s].q[n]) = Len(S[s].q[n]) - 1
      /\ \A k \in 1 .. Len(S1[s].q[n]) : S1[s].q[n][k] = S[s].q[n][k + 1]
  BY PopSock
<1> QED
  BY <1>1, <1>2 DEF Exchange, Taken

\* An item is read and another one is written.
LEMMA ReadWriteSock ==
    ASSUME NEW S \in [Socks -> SockTypes], NEW n \in Node, NEW s \in Socks,
           S[s].q[n] # <<>>, NEW item \in Items,
           NEW S1, S1 = Put(Pop(S, s, n), s, Peer(n), item)
    PROVE  /\ Exchange(S, S1, s)
           /\ Taken(S[s].q[n], S1[s].q[n])
           /\ Given(S[s].q[Peer(n)], S1[s].q[Peer(n)], item)
<1>1. PICK R : R = Pop(S, s, n)
  OBVIOUS
<1>2. /\ Exchange(S, R, s) /\ R[s].q[Peer(n)] = S[s].q[Peer(n)]
      /\ Taken(S[s].q[n], R[s].q[n])
  BY <1>1, ReadSock
<1>3. /\ Exchange(R, S1, s) /\ S1[s].q[n] = R[s].q[n]
      /\ Given(R[s].q[Peer(n)], S1[s].q[Peer(n)], item)
  BY <1>1, <1>2, WriteSock DEF Exchange
<1> QED
  BY <1>2, <1>3 DEF Exchange

\* Connection i of n, with socket s, has an item to read.
LEMMA Reading ==
    ASSUME Core, NEW n \in Node, NEW i \in Slots, NEW state, NEW kind,
           Reads(n, i, state, kind), NEW s, s = conn[n][i].sd
    PROVE  /\ s \in Socks /\ sock \in [Socks -> SockTypes] /\ sock[s].q[n] # <<>>
           /\ conn[n][i].state = state /\ Popped(n, i) = Pop(sock, s, n)
           /\ Item(n, i) = sock[s].q[n][1] /\ Item(n, i).kind = kind
           /\ Item(n, i) \in Items /\ Len(sock[s].q[n]) # 0
           /\ Inbox(conn[n][i], sock[s].q[n])
<1>1. /\ conn[n][i].state = state /\ s # None /\ sock[s].q[n] # <<>>
      /\ Head(sock[s].q[n]).kind = kind
  BY DEF Reads
<1>2. s \in Socks
  BY <1>1, Before DEF Handles
<1>3. sock \in [Socks -> SockTypes]
  BY DEF Core
<1>4. /\ Head(sock[s].q[n]) = sock[s].q[n][1] /\ Head(sock[s].q[n]) \in Items
      /\ Len(sock[s].q[n]) # 0
  BY <1>1, <1>2, <1>3, ReadSock
<1>5. SockOK(conn, sock[s], s)
  BY <1>2, Before
<1>6. Inbox(conn[n][i], sock[s].q[n])
  BY <1>5, OtherEnd
<1>7. Popped(n, i) = Pop(sock, s, n) /\ Item(n, i) = Head(sock[s].q[n])
  BY Zenon DEF Popped, Item
<1> QED
  BY <1>1, <1>2, <1>3, <1>4, <1>6, <1>7, Zenon

\* Connection i of n, with socket s, reads or writes and becomes d.
Serves(n, i, s, d) ==
    /\ conn' = Updated(conn, n, i, d)
    /\ conn[n][i].sd = s /\ d.sd = s /\ SameHold(conn[n][i], d)
    /\ Exchange(sock, sock', s)
    /\ conn[n][i].state # "CONNECTING_WAIT_BANNER" \/ Len(sock[s].q[n]) # 0
    /\ GoesOn(conn[n][i], d, sock[s].q[n], sock[s].q[Peer(n)],
              sock'[s].q[n], sock'[s].q[Peer(n)])

\* The invariant holds afterwards.
LEMMA ServeStep ==
    ASSUME Core, NEW n \in Node, NEW i \in Slots, NEW s \in Socks, scenario' = scenario,
           NEW d \in ConnTypes(MaxMsgs[n]), ConnOK(d), Serves(n, i, s, d)
    PROVE  Core'
<1>1. conn' = Updated(conn, n, i, d)
  BY DEF Serves
<1>2. /\ ConnsTyped(conn', MaxMsgs') /\ Connections'
      /\ Moves(conn, conn', n, i) /\ conn'[n][i] = d
  BY <1>1, After
<1>3. /\ conn[n][i].sd = s /\ conn'[n][i].sd = s /\ SameHold(conn[n][i], conn'[n][i])
      /\ sock' \in [Socks -> SockTypes]
      /\ \A t \in Socks \ {s} : sock'[t] = sock[t]
      /\ sock'[s].end = sock[s].end
      /\ conn[n][i].state # "CONNECTING_WAIT_BANNER" \/ Len(sock[s].q[n]) # 0
      /\ GoesOn(conn[n][i], conn'[n][i], sock[s].q[n], sock[s].q[Peer(n)],
                sock'[s].q[n], sock'[s].q[Peer(n)])
  BY <1>2 DEF Serves, Exchange
<1>4. AllSocks(conn, sock)
  BY DEF Core
<1>5. AllSocks(conn', sock')
  BY <1>2, <1>3, <1>4, SocketsServed
<1> QED
  BY <1>2, <1>3, <1>5 DEF Core

\* The rest of the invariant is hardly ever disturbed.
LEMMA RestStays ==
    ASSUME Rest, scenario' = scenario, conns' \in [Node -> Slots \cup {None}],
           global_seq' \in [Node -> Nat], submitted' = submitted
    PROVE  Rest'
BY DEF Rest, MaxMsgs

\* The rest of the invariant, for the steps that touch none of it.
LEMMA RestUntouched ==
    ASSUME Rest, scenario' = scenario, conns' = conns, global_seq' = global_seq,
           submitted' = submitted
    PROVE  Rest'
BY DEF Rest, MaxMsgs

\* handle_replace.
LEMMA HandleReplaceStep ==
    ASSUME Core, Rest, NEW n \in Node, NEW i \in Slots, handle_replace(n, i)
    PROVE  Core' /\ Rest'
<1>1. /\ conn[n][i].replacing = 1 /\ do_replace(n, i, conn[n][i], sock)
      /\ scenario' = scenario /\ global_seq' = global_seq
  BY DEF handle_replace, counters
<1>2. /\ scenario \in ScenarioTypes /\ SameHold(conn[n][i], conn[n][i])
      /\ conn[n][i] \in ConnTypes(MaxMsgs[n]) /\ Numbered(conn[n][i])
  BY Before DEF Rest, ConnOK, SameHold
<1>3. Core' /\ conns' = conns /\ submitted' = submitted
  BY <1>1, <1>2, NearSame, ReplaceStep
<1> QED
  BY <1>1, <1>3, RestUntouched

\* fail, with the sockets sk.
LEMMA FailStep ==
    ASSUME Core, Rest, NEW n \in Node, NEW i \in Slots, NEW c, NEW sk, scenario' = scenario,
           global_seq' = global_seq, c \in ConnTypes(MaxMsgs[n]), Numbered(c),
           c.sd = conn[n][i].sd, SameHold(conn[n][i], c), Near(sk, n, c), fail(n, i, c, sk)
    PROVE  Core' /\ Rest'
<1>1. /\ scenario \in ScenarioTypes /\ conns \in [Node -> Slots \cup {None}]
      /\ global_seq \in [Node -> Nat]
  BY DEF Rest
<1>2. CASE c.replacing = 1 /\ do_replace(n, i, c, sk)
  <2>1. Core' /\ conns' = conns /\ submitted' = submitted
    BY <1>1, <1>2, ReplaceStep
  <2> QED
    BY <2>1, RestUntouched
<1>3. CASE fault(n, i, c, sk)
  <2>1. Core' /\ conns' \in [Node -> Slots \cup {None}] /\ submitted' = submitted
    BY <1>1, <1>3, FaultStep
  <2> QED
    BY <1>1, <2>1, RestStays
<1> QED
  BY <1>2, <1>3 DEF fail

\* ... and the connection as it is.
LEMMA FailHereStep ==
    ASSUME Core, Rest, NEW n \in Node, NEW i \in Slots, NEW sk, scenario' = scenario,
           global_seq' = global_seq, Near(sk, n, conn[n][i]), fail(n, i, conn[n][i], sk)
    PROVE  Core' /\ Rest'
<1>1. /\ conn[n][i] \in ConnTypes(MaxMsgs[n]) /\ Numbered(conn[n][i])
      /\ SameHold(conn[n][i], conn[n][i])
  BY Before DEF ConnOK, SameHold
<1> QED
  BY <1>1, FailStep

\* SocketError.
LEMMA SocketErrorStep ==
    ASSUME Core, Rest, NEW n \in Node, NEW i \in Slots, SocketError(n, i)
    PROVE  Core' /\ Rest'
<1>1. /\ scenario' = scenario /\ global_seq' = global_seq
      /\ fail(n, i, conn[n][i], sock) \/ _stop(n, i, conn[n][i], sock)
  BY DEF SocketError, counters
<1>2. Near(sock, n, conn[n][i])
  BY NearSame
<1>3. CASE fail(n, i, conn[n][i], sock)
  BY <1>1, <1>2, <1>3, FailHereStep
<1>4. CASE _stop(n, i, conn[n][i], sock)
  <2>1. conns \in [Node -> Slots \cup {None}] /\ global_seq \in [Node -> Nat]
    BY DEF Rest
  <2>2. Core' /\ conns' \in [Node -> Slots \cup {None}] /\ submitted' = submitted
    BY <1>1, <1>2, <1>4, <2>1, StopStep
  <2> QED
    BY <1>1, <2>1, <2>2, RestStays
<1> QED
  BY <1>1, <1>3, <1>4

\* C_stop.
LEMMA CStopStep ==
    ASSUME Core, Rest, NEW n \in Node, NEW i \in Slots, C_stop(n, i)
    PROVE  Core' /\ Rest'
<1>1. /\ scenario' = scenario /\ global_seq' = global_seq
      /\ _stop(n, i, conn[n][i], sock)
  BY DEF C_stop, counters
<1>2. conns \in [Node -> Slots \cup {None}] /\ global_seq \in [Node -> Nat]
  BY DEF Rest
<1>3. Core' /\ conns' \in [Node -> Slots \cup {None}] /\ submitted' = submitted
  BY <1>1, <1>2, NearSame, StopStep
<1> QED
  BY <1>1, <1>2, <1>3, RestStays

\* reply_WAIT.
LEMMA WaitStep ==
    ASSUME Core, Rest, NEW n \in Node, NEW i \in Slots, reply_WAIT(n, i)
    PROVE  Core' /\ Rest'
<1>1. /\ scenario' = scenario /\ global_seq' = global_seq
      /\ fail(n, i, conn[n][i], Popped(n, i))
      /\ conn[n][i].sd # None /\ sock[conn[n][i].sd].q[n] # <<>>
  BY DEF reply_WAIT, counters, HasReply, Reads
<1>2. Near(Popped(n, i), n, conn[n][i])
  BY <1>1, NearPopped
<1> QED
  BY <1>1, <1>2, FailHereStep

\* RecvBanner.
LEMMA RecvBannerStep ==
    ASSUME Core, Rest, NEW n \in Node, NEW i \in Slots, RecvBanner(n, i)
    PROVE  Core' /\ Rest'
<1>1. PICK c, s, d, item : /\ c = conn[n][i] /\ s = c.sd /\ item = ConnectItem(c)
                           /\ d = WithState(c, "CONNECTING_WAIT_CONNECT_REPLY")
  OBVIOUS
<1>2. /\ conn' = Updated(conn, n, i, d) /\ sock' = Put(Popped(n, i), s, Peer(n), item)
      /\ scenario' = scenario /\ conns' = conns /\ global_seq' = global_seq
      /\ submitted' = submitted /\ Reads(n, i, "CONNECTING_WAIT_BANNER", "banner")
  BY <1>1 DEF RecvBanner, Updated, WithState, counters, history
<1>3. /\ s \in Socks /\ sock \in [Socks -> SockTypes] /\ sock[s].q[n] # <<>>
      /\ c.state = "CONNECTING_WAIT_BANNER" /\ Popped(n, i) = Pop(sock, s, n)
      /\ Len(sock[s].q[n]) # 0 /\ Inbox(c, sock[s].q[n])
  BY <1>1, <1>2, Reading
<1>4. c \in ConnTypes(MaxMsgs[n]) /\ ConnOK(c)
  BY <1>1, Before
<1>5. /\ d \in ConnTypes(MaxMsgs[n]) /\ d.state = "CONNECTING_WAIT_CONNECT_REPLY"
      /\ d.sd = c.sd /\ d.connect_seq = c.connect_seq /\ d.out_seq = c.out_seq
      /\ d.sent = c.sent /\ d.out_q = c.out_q /\ d.replacing = c.replacing
      /\ d.replacing_sd = c.replacing_sd /\ d.replacing_cseq = c.replacing_cseq
  <2>1. "CONNECTING_WAIT_CONNECT_REPLY" \in States
    BY FieldValues
  <2> QED
    BY <1>1, <1>4, <2>1, WithStateRecord
<1>6. ConnOK(d)
  BY <1>3, <1>4, <1>5 DEF ConnOK, Numbered, Local, Linked
<1>7. item \in Items /\ item.cseq = c.connect_seq
  <2>1. c.global_seq \in Nat /\ c.connect_seq \in Nat
    BY <1>4, FieldTypes
  <2> QED
    BY <1>1, <2>1 DEF ConnectItem, Items
<1>8. /\ Exchange(sock, sock', s)
      /\ Taken(sock[s].q[n], sock'[s].q[n])
      /\ Given(sock[s].q[Peer(n)], sock'[s].q[Peer(n)], item)
  BY <1>2, <1>3, <1>7, ReadWriteSock
<1>9. GoesOn(c, d, sock[s].q[n], sock[s].q[Peer(n)], sock'[s].q[n], sock'[s].q[Peer(n)])
  BY <1>3, <1>5, <1>7, <1>8, BannerGoesOn
<1>10. Serves(n, i, s, d)
  <2>1. c = conn[n][i] /\ s = c.sd /\ d.sd = s /\ SameHold(c, d)
    BY <1>1, <1>5 DEF SameHold
  <2> QED
    BY <1>2, <1>3, <1>8, <1>9, <2>1, Zenon DEF Serves
<1>11. Core'
  BY <1>2, <1>3, <1>5, <1>6, <1>10, ServeStep
<1> QED
  BY <1>2, <1>11, RestUntouched

\* Another attempt, after a reply that asks for it.
LEMMA ResendStep ==
    ASSUME Core, NEW n \in Node, NEW i \in Slots, NEW tag, tag \notin {"READY", "SEQ"},
           HasReply(n, i, tag), NEW d \in ConnTypes(MaxMsgs[n]), Numbered(d),
           d.state = conn[n][i].state, d.sd = conn[n][i].sd, SameHold(conn[n][i], d),
           Resend(n, i, d)
    PROVE  Core' /\ conns' = conns /\ scenario' = scenario
<1>1. PICK c, s, item : c = conn[n][i] /\ s = c.sd /\ item = ConnectItem(d)
  OBVIOUS
<1>2. /\ conn' = Updated(conn, n, i, d) /\ sock' = Put(Popped(n, i), s, Peer(n), item)
      /\ scenario' = scenario /\ conns' = conns
      /\ Reads(n, i, "CONNECTING_WAIT_CONNECT_REPLY", "reply") /\ Item(n, i).tag = tag
  BY <1>1 DEF Resend, Updated, counters, HasReply
<1>3. /\ s \in Socks /\ sock \in [Socks -> SockTypes] /\ sock[s].q[n] # <<>>
      /\ c.state = "CONNECTING_WAIT_CONNECT_REPLY" /\ Popped(n, i) = Pop(sock, s, n)
      /\ Item(n, i) = sock[s].q[n][1] /\ Item(n, i).kind = "reply"
      /\ Len(sock[s].q[n]) # 0 /\ Inbox(c, sock[s].q[n])
  BY <1>1, <1>2, Reading
<1>4. c \in ConnTypes(MaxMsgs[n]) /\ ConnOK(c)
  BY <1>1, Before
<1>6. ConnOK(d)
  <2>1. d.state \in Linked /\ d.sd # None /\ d.state # "ACCEPTING_REPLY"
    BY <1>1, <1>3, SocketsPositive DEF Linked
  <2>2. d.replacing = 1 => d.replacing_sd # None
    BY <1>1, <1>4 DEF ConnOK, Local, SameHold
  <2> QED
    BY <2>1, <2>2 DEF ConnOK, Local
<1>7. item \in Items /\ item.cseq = d.connect_seq
  <2>1. d.global_seq \in Nat /\ d.connect_seq \in Nat
    BY FieldTypes
  <2> QED
    BY <1>1, <2>1 DEF ConnectItem, Items
<1>8. /\ Exchange(sock, sock', s)
      /\ Taken(sock[s].q[n], sock'[s].q[n])
      /\ Given(sock[s].q[Peer(n)], sock'[s].q[Peer(n)], item)
  BY <1>2, <1>3, <1>7, ReadWriteSock
<1>9. GoesOn(c, d, sock[s].q[n], sock[s].q[Peer(n)], sock'[s].q[n], sock'[s].q[Peer(n)])
  <2>1. /\ sock[s].q[n][1].kind = "reply" /\ sock[s].q[n][1].tag \notin {"READY", "SEQ"}
        /\ d.state = c.state
    BY <1>1, <1>2, <1>3
  <2> QED
    BY <1>3, <1>7, <1>8, <2>1, RetryGoesOn, ZenonT(30)
<1>10. Serves(n, i, s, d)
  <2>1. c = conn[n][i] /\ s = c.sd /\ d.sd = s /\ SameHold(c, d)
    BY <1>1
  <2> QED
    BY <1>2, <1>3, <1>8, <1>9, <2>1, Zenon DEF Serves
<1>11. Core'
  BY <1>2, <1>3, <1>6, <1>10, ServeStep
<1> QED
  BY <1>2, <1>11

\* reply_RESETSESSION.
LEMMA ResetSessionStep ==
    ASSUME Core, Rest, NEW n \in Node, NEW i \in Slots, reply_RESETSESSION(n, i)
    PROVE  Core' /\ Rest'
<1>1. PICK r \in ResetSeqs : Resend(n, i, Cleared(conn[n][i], r))
  BY Zenon DEF reply_RESETSESSION, was_session_reset, Cleared
<1>2. /\ HasReply(n, i, "RESETSESSION") /\ global_seq' = global_seq /\ submitted' = submitted
  BY DEF reply_RESETSESSION, SessionReset
<1>3. conn[n][i] \in ConnTypes(MaxMsgs[n])
  BY Before
<1>4. r \in Nat
  BY DEF Rest, ScenarioTypes, ResetSeqs
<1>5. PICK d : d = Cleared(conn[n][i], r)
  OBVIOUS
<1>6. /\ d \in ConnTypes(MaxMsgs[n]) /\ Numbered(d)
      /\ d.state = conn[n][i].state /\ d.sd = conn[n][i].sd /\ SameHold(conn[n][i], d)
  BY <1>3, <1>4, <1>5, ResetRecord DEF SameHold
<1>7. Core' /\ conns' = conns /\ scenario' = scenario
  <2>1. Resend(n, i, d)
    BY <1>1, <1>5
  <2>2. "RESETSESSION" \notin {"READY", "SEQ"}
    OBVIOUS
  <2> QED
    BY <1>2, <1>6, <2>1, <2>2, ResendStep
<1> QED
  BY <1>2, <1>7, RestUntouched

\* reply_RETRY_GLOBAL.
LEMMA RetryGlobalStep ==
    ASSUME Core, Rest, NEW n \in Node, NEW i \in Slots, reply_RETRY_GLOBAL(n, i)
    PROVE  Core' /\ Rest'
<1>1. PICK new, d : /\ new = Max({global_seq[n], Item(n, i).gseq}) + 1
                    /\ d = WithGseq(conn[n][i], new)
  OBVIOUS
<1>2. /\ HasReply(n, i, "RETRY_GLOBAL") /\ global_seq' = [global_seq EXCEPT ![n] = new]
      /\ Resend(n, i, d) /\ submitted' = submitted
  BY <1>1 DEF reply_RETRY_GLOBAL, WithGseq, history
<1>3. conn[n][i] \in ConnTypes(MaxMsgs[n]) /\ Numbered(conn[n][i])
  BY Before DEF ConnOK
<1>4. Item(n, i) \in Items /\ Item(n, i).kind = "reply"
  <2>1. Reads(n, i, "CONNECTING_WAIT_CONNECT_REPLY", "reply")
    BY <1>2 DEF HasReply
  <2> QED
    BY <2>1, Reading
<1>5. new \in Nat
  <2>1. Item(n, i).gseq \in Nat /\ global_seq[n] \in Nat
    BY <1>4, ItemKinds DEF Rest
  <2>2. Max({global_seq[n], Item(n, i).gseq}) \in Nat
    BY <2>1, MaxOfTwo
  <2> QED
    BY <1>1, <2>2
<1>6. /\ d \in ConnTypes(MaxMsgs[n]) /\ d.flags = conn[n][i].flags
      /\ d.out_seq = conn[n][i].out_seq /\ d.sent = conn[n][i].sent /\ d.out_q = conn[n][i].out_q
      /\ d.state = conn[n][i].state /\ d.sd = conn[n][i].sd /\ SameHold(conn[n][i], d)
  BY <1>1, <1>3, <1>5, WithGseqRecord DEF SameHold
<1>7. Numbered(d)
  BY <1>3, <1>6 DEF Numbered, Flag
<1>8. Core' /\ conns' = conns /\ scenario' = scenario
  <2>1. "RETRY_GLOBAL" \notin {"READY", "SEQ"}
    OBVIOUS
  <2> QED
    BY <1>2, <1>6, <1>7, <2>1, ResendStep
<1>9. global_seq' \in [Node -> Nat] /\ conns \in [Node -> Slots \cup {None}]
  BY <1>2, <1>5 DEF Rest
<1> QED
  BY <1>2, <1>8, <1>9, RestStays

\* reply_RETRY_SESSION.
LEMMA RetrySessionStep ==
    ASSUME Core, Rest, NEW n \in Node, NEW i \in Slots, reply_RETRY_SESSION(n, i)
    PROVE  Core' /\ Rest'
<1>1. PICK new : new = Item(n, i).cseq
  OBVIOUS
<1>d. PICK d : d = WithCseq(conn[n][i], new)
  OBVIOUS
<1>2. /\ HasReply(n, i, "RETRY_SESSION") /\ global_seq' = global_seq
      /\ Resend(n, i, d) /\ submitted' = submitted
  BY <1>1, <1>d DEF reply_RETRY_SESSION, WithCseq, history
<1>3. conn[n][i] \in ConnTypes(MaxMsgs[n]) /\ Numbered(conn[n][i])
  BY Before DEF ConnOK
<1>4. Item(n, i) \in Items /\ Item(n, i).kind = "reply"
  <2>1. Reads(n, i, "CONNECTING_WAIT_CONNECT_REPLY", "reply")
    BY <1>2 DEF HasReply
  <2> QED
    BY <2>1, Reading
<1>5. new \in Nat
  BY <1>1, <1>4, ItemKinds
<1>6. /\ d \in ConnTypes(MaxMsgs[n]) /\ d.flags = conn[n][i].flags
      /\ d.out_seq = conn[n][i].out_seq /\ d.sent = conn[n][i].sent /\ d.out_q = conn[n][i].out_q
      /\ d.state = conn[n][i].state /\ d.sd = conn[n][i].sd /\ SameHold(conn[n][i], d)
  <2>1. /\ d \in ConnTypes(MaxMsgs[n]) /\ d.flags = conn[n][i].flags
        /\ d.out_seq = conn[n][i].out_seq /\ d.sent = conn[n][i].sent
        /\ d.out_q = conn[n][i].out_q /\ d.replacing = conn[n][i].replacing
        /\ d.replacing_sd = conn[n][i].replacing_sd
        /\ d.replacing_cseq = conn[n][i].replacing_cseq
        /\ d.state = conn[n][i].state /\ d.sd = conn[n][i].sd
    BY <1>d, <1>3, <1>5, WithCseqRecord
  <2> QED
    BY <2>1 DEF SameHold
<1>7. Numbered(d)
  BY <1>3, <1>6 DEF Numbered, Flag
<1>8. Core' /\ conns' = conns /\ scenario' = scenario
  <2>1. "RETRY_SESSION" \notin {"READY", "SEQ"}
    OBVIOUS
  <2> QED
    BY <1>2, <1>6, <1>7, <2>1, ResendStep
<1> QED
  BY <1>2, <1>8, RestUntouched

\* The record of discard_requeued_up_to.
LEMMA DiscardRecord ==
    ASSUME NEW max, NEW c \in ConnTypes(max), ConnOK(c), c.state # "OPEN", NEW seq, NEW d,
           d = discard_requeued_up_to(c, seq)
    PROVE  /\ d \in ConnTypes(max) /\ ConnOK(d) /\ SameEnd(c, d) /\ SameHold(c, d)
           /\ d.in_seq = c.in_seq
<1>1. PICK k : k = AckedPrefix(c.out_q, seq)
  OBVIOUS
<1>2. PICK R : R = SubSeq(c.out_q, k + 1, Len(c.out_q))
  OBVIOUS
<1>3. c.out_q \in Seq(MsgTypes(max)) /\ c.out_seq \in Nat /\ c.sent \in Seq(MsgTypes(max))
  BY FieldTypes
<1>4. c.sent = <<>> /\ Numbers(c.out_seq, <<>>, c.out_q)
  BY DEF ConnOK, Numbered
<1>5. k \in 0 .. Len(c.out_q)
  BY <1>1, <1>3, PrefixBounds
<1>6. R \in Seq(MsgTypes(max)) /\ Numbers(c.out_seq + k, <<>>, R)
  BY <1>2, <1>3, <1>4, <1>5, DiscardNumbers
<1>7. c.out_seq + k \in Nat
  <2>1. k \in Nat
    BY <1>3, <1>5
  <2> QED
    BY <1>3, <2>1
<1>8. PICK o : o = c.out_seq + k
  OBVIOUS
<1>9. d = Renumber(c, o, c.sent, R)
  <2>1. d = [c EXCEPT !.out_q = R, !.out_seq = o]
    BY <1>1, <1>2, <1>8, Zenon DEF discard_requeued_up_to
  <2>2. [c EXCEPT !.out_q = R, !.out_seq = o] = Renumber(c, o, c.sent, R)
    BY DEF Renumber, ConnTypes
  <2> QED
    BY <2>1, <2>2
<1>10. o \in Nat /\ Numbers(o, c.sent, R) /\ c.sent = <<>>
  BY <1>4, <1>6, <1>7, <1>8
<1>11. PICK S : S = c.sent
  OBVIOUS
<1>12. /\ S \in Seq(MsgTypes(max)) /\ Numbers(o, S, R)
       /\ c.state # "OPEN" \/ Flag(c, "lossy") => S = <<>>
       /\ d = Renumber(c, o, S, R)
  BY <1>3, <1>9, <1>10, <1>11, Zenon
<1>13. o \in Nat /\ R \in Seq(MsgTypes(max))
  BY <1>6, <1>10
<1>14. Renumbering(max, c, o, S, R)
  BY <1>12, <1>13, Zenon DEF Renumbering
<1> QED
  BY <1>12, <1>14, Renumbered

\* The record of handle_ack.
LEMMA AckRecord ==
    ASSUME NEW max, NEW c \in ConnTypes(max), ConnOK(c), NEW seq, NEW d, d = handle_ack(c, seq)
    PROVE  d \in ConnTypes(max) /\ ConnOK(d) /\ SameEnd(c, d) /\ SameHold(c, d)
<1>1. PICK k : k = AckedPrefix(c.sent, seq)
  OBVIOUS
<1>2. PICK R : R = SubSeq(c.sent, k + 1, Len(c.sent))
  OBVIOUS
<1>3. c.out_q \in Seq(MsgTypes(max)) /\ c.out_seq \in Nat /\ c.sent \in Seq(MsgTypes(max))
  BY FieldTypes
<1>4. /\ Numbers(c.out_seq, c.sent, c.out_q)
      /\ c.state # "OPEN" \/ Flag(c, "lossy") => c.sent = <<>>
  BY DEF ConnOK, Numbered
<1>5. k \in 0 .. Len(c.sent)
  BY <1>1, <1>3, PrefixBounds
<1>6. R \in Seq(MsgTypes(max)) /\ Numbers(c.out_seq, R, c.out_q)
  <2>1. PICK S, Q, o : S = c.sent /\ Q = c.out_q /\ o = c.out_seq
    OBVIOUS
  <2>2. /\ S \in Seq(MsgTypes(max)) /\ Q \in Seq(MsgTypes(max)) /\ o \in Nat
        /\ Numbers(o, S, Q) /\ k \in 0 .. Len(S) /\ R = SubSeq(S, k + 1, Len(S))
    BY <1>2, <1>3, <1>4, <1>5, <2>1, Zenon
  <2>3. R \in Seq(MsgTypes(max)) /\ Numbers(o, R, Q)
    BY <2>2, AckNumbers
  <2> QED
    BY <2>1, <2>3
<1>7. c.sent = <<>> => R = <<>>
  BY <1>2, <1>3, <1>5
<1>8. d = Renumber(c, c.out_seq, R, c.out_q)
  <2>1. d = [c EXCEPT !.sent = R]
    BY <1>1, <1>2, Zenon DEF handle_ack
  <2>2. [c EXCEPT !.sent = R] = Renumber(c, c.out_seq, R, c.out_q)
    BY DEF Renumber, ConnTypes
  <2> QED
    BY <2>1, <2>2
<1>9. c.state # "OPEN" \/ Flag(c, "lossy") => R = <<>>
  BY <1>4, <1>7
<1>10. Renumbering(max, c, c.out_seq, R, c.out_q)
  BY <1>3, <1>6, <1>9, Zenon DEF Renumbering
<1> QED
  BY <1>8, <1>10, Renumbered

\* The record of Opened, for the reply r.
LEMMA OpenedRecord ==
    ASSUME NEW max, NEW c \in ConnTypes(max), ConnOK(c),
           c.state = "CONNECTING_WAIT_CONNECT_REPLY", NEW r \in ReplyTypes, r \in Items,
           NEW d, d = Opened(c, r)
    PROVE  /\ d \in ConnTypes(max) /\ ConnOK(d) /\ d.state = "OPEN" /\ d.sd = c.sd
           /\ d.connect_seq = c.connect_seq + 1 /\ SameHold(c, d)
<1>1. PICK F : F = (c.flags \ {"lossy"}) \cup {"queue_reset"}
                     \cup (IF r.lossy = "yes" THEN {"lossy"} ELSE {})
  OBVIOUS
<1>2. c.flags \in SUBSET Flags /\ c.connect_seq \in Nat
  BY FieldTypes
<1>3. F \in SUBSET Flags
  BY <1>1, <1>2 DEF Flags
<1>4. r.gseq \in Nat /\ c.connect_seq + 1 \in Nat
  BY <1>2, ItemKinds
<1>5. PICK g, k : g = r.gseq /\ k = c.connect_seq + 1
  OBVIOUS
<1>6. d = WithSession(c, g, k, F)
  <2>1. [c EXCEPT !.state = "OPEN", !.peer_global_seq = g].connect_seq = c.connect_seq
    BY DEF ConnTypes
  <2>2. [c EXCEPT !.state = "OPEN", !.peer_global_seq = g, !.connect_seq = k,
                  !.global_seq = 0].flags = c.flags
    BY DEF ConnTypes
  <2> QED
    BY <1>1, <1>5, <2>1, <2>2 DEF Opened, WithSession
<1>7. /\ d \in ConnTypes(max) /\ d.state = "OPEN" /\ d.connect_seq = k /\ d.sd = c.sd
      /\ d.out_seq = c.out_seq /\ d.sent = c.sent /\ d.out_q = c.out_q
      /\ d.replacing = c.replacing /\ d.replacing_sd = c.replacing_sd
      /\ d.replacing_cseq = c.replacing_cseq
  BY <1>3, <1>4, <1>5, <1>6, WithSessionRecord
<1>8. c.sent = <<>> /\ Numbers(c.out_seq, c.sent, c.out_q) /\ c.sd # None
  BY DEF ConnOK, Numbered, Local, Linked
<1>9. Numbered(d)
  BY <1>7, <1>8 DEF Numbered
<1>10. Local(d)
  BY <1>7, <1>8 DEF ConnOK, Local, Linked
<1> QED
  BY <1>5, <1>7, <1>9, <1>10 DEF ConnOK, SameHold

\* A connecting connection that has read READY or SEQ opens.
LEMMA OpenStep ==
    ASSUME Core, NEW n \in Node, NEW i \in Slots, NEW tag \in {"READY", "SEQ"},
           HasReply(n, i, tag), NEW d \in ConnTypes(MaxMsgs[n]), ConnOK(d),
           d.state = "OPEN", d.sd = conn[n][i].sd, SameHold(conn[n][i], d),
           d.connect_seq = conn[n][i].connect_seq + 1,
           conn' = Updated(conn, n, i, d), scenario' = scenario, NEW item \in Items,
           \/ sock' = Popped(n, i)
           \/ sock' = Put(Popped(n, i), conn[n][i].sd, Peer(n), item)
    PROVE  Core'
<1>1. PICK c, s : c = conn[n][i] /\ s = c.sd
  OBVIOUS
<1>2. Reads(n, i, "CONNECTING_WAIT_CONNECT_REPLY", "reply") /\ Item(n, i).tag = tag
  BY DEF HasReply
<1>3. /\ s \in Socks /\ sock \in [Socks -> SockTypes] /\ sock[s].q[n] # <<>>
      /\ c.state = "CONNECTING_WAIT_CONNECT_REPLY" /\ Popped(n, i) = Pop(sock, s, n)
      /\ Item(n, i) = sock[s].q[n][1] /\ Len(sock[s].q[n]) # 0
  BY <1>1, <1>2, Reading
<1>4. Exchange(sock, sock', s) /\ Taken(sock[s].q[n], sock'[s].q[n])
  <2>1. CASE sock' = Pop(sock, s, n)
    BY <1>3, <2>1, ReadSock
  <2>2. CASE sock' = Put(Pop(sock, s, n), s, Peer(n), item)
    BY <1>3, <2>2, ReadWriteSock
  <2> QED
    BY <1>1, <1>3, <2>1, <2>2
<1>5. GoesOn(c, d, sock[s].q[n], sock[s].q[Peer(n)], sock'[s].q[n], sock'[s].q[Peer(n)])
  <2>1. sock[s].q[n][1].tag \in {"READY", "SEQ"} /\ d.connect_seq = c.connect_seq + 1
    BY <1>1, <1>2, <1>3
  <2> QED
    BY <1>3, <1>4, <2>1, OpenedGoesOn, ZenonT(30)
<1>6. Serves(n, i, s, d)
  <2>1. c = conn[n][i] /\ s = c.sd /\ d.sd = s /\ SameHold(c, d)
    BY <1>1
  <2> QED
    BY <1>3, <1>4, <1>5, <2>1, Zenon DEF Serves
<1> QED
  BY <1>3, <1>6, ServeStep

\* reply_READY.
LEMMA ReadyStep ==
    ASSUME Core, Rest, NEW n \in Node, NEW i \in Slots, reply_READY(n, i)
    PROVE  Core' /\ Rest'
<1>1. PICK c, r : c = conn[n][i] /\ r = Item(n, i)
  OBVIOUS
<1>2. PICK d : d = Opened(c, r)
  OBVIOUS
<1>3. /\ HasReply(n, i, "READY") /\ conn' = Updated(conn, n, i, d) /\ sock' = Popped(n, i)
      /\ conns' = conns /\ global_seq' = global_seq /\ submitted' = submitted
      /\ scenario' = scenario
  BY <1>1, <1>2 DEF reply_READY, Updated, history, counters
<1>4. Reads(n, i, "CONNECTING_WAIT_CONNECT_REPLY", "reply")
  BY <1>3 DEF HasReply
<1>5. r \in Items /\ r.kind = "reply" /\ c.state = "CONNECTING_WAIT_CONNECT_REPLY"
  BY <1>1, <1>4, Reading
<1>6. r \in ReplyTypes
  BY <1>5, ItemKinds
<1>7. c \in ConnTypes(MaxMsgs[n]) /\ ConnOK(c)
  BY <1>1, Before
<1>8. /\ d \in ConnTypes(MaxMsgs[n]) /\ ConnOK(d) /\ d.state = "OPEN" /\ d.sd = c.sd
      /\ d.connect_seq = c.connect_seq + 1 /\ SameHold(c, d)
  BY <1>2, <1>5, <1>6, <1>7, OpenedRecord
<1>9. Core'
  <2>1. "READY" \in {"READY", "SEQ"}
    OBVIOUS
  <2> QED
    BY <1>1, <1>3, <1>5, <1>8, <2>1, OpenStep
<1> QED
  BY <1>3, <1>9, RestUntouched

\* reply_SEQ.
LEMMA SeqReplyStep ==
    ASSUME Core, Rest, NEW n \in Node, NEW i \in Slots, reply_SEQ(n, i)
    PROVE  Core' /\ Rest'
<1>1. PICK c, r : c = conn[n][i] /\ r = Item(n, i)
  OBVIOUS
<1>2. PICK x : x = discard_requeued_up_to(c, r.seq)
  OBVIOUS
<1>3. /\ HasReply(n, i, "SEQ") /\ global_seq' = global_seq /\ scenario' = scenario
  BY DEF reply_SEQ, counters
<1>4. Reads(n, i, "CONNECTING_WAIT_CONNECT_REPLY", "reply")
  BY <1>3 DEF HasReply
<1>5. /\ r \in Items /\ r.kind = "reply" /\ c.state = "CONNECTING_WAIT_CONNECT_REPLY"
      /\ c.sd \in Socks /\ sock[c.sd].q[n] # <<>>
  BY <1>1, <1>4, Reading
<1>6. r \in ReplyTypes
  BY <1>5, ItemKinds
<1>7. c \in ConnTypes(MaxMsgs[n]) /\ ConnOK(c)
  BY <1>1, Before
<1>8. /\ x \in ConnTypes(MaxMsgs[n]) /\ ConnOK(x) /\ SameEnd(c, x) /\ SameHold(c, x)
      /\ x.in_seq = c.in_seq
  <2>1. c.state # "OPEN"
    BY <1>5
  <2> QED
    BY <1>2, <1>7, <2>1, DiscardRecord
<1>9. CASE /\ conn' = [conn EXCEPT ![n][i] = Opened(x, r)]
           /\ sock' = Put(Popped(n, i), x.sd, Peer(n), [kind |-> "seq", seq |-> x.in_seq])
           /\ conns' = conns /\ submitted' = submitted
  <2>1. PICK d : d = Opened(x, r)
    OBVIOUS
  <2>2. /\ d \in ConnTypes(MaxMsgs[n]) /\ ConnOK(d) /\ d.state = "OPEN" /\ d.sd = x.sd
        /\ d.connect_seq = x.connect_seq + 1 /\ SameHold(x, d)
    <3>1. x.state = "CONNECTING_WAIT_CONNECT_REPLY"
      BY <1>5, <1>8 DEF SameEnd
    <3> QED
      BY <1>5, <1>6, <1>8, <2>1, <3>1, OpenedRecord
  <2>3. d.sd = c.sd /\ d.connect_seq = c.connect_seq + 1 /\ SameHold(c, d)
    BY <1>8, <2>2 DEF SameEnd, SameHold
  <2>4. PICK item : item = [kind |-> "seq", seq |-> x.in_seq]
    OBVIOUS
  <2>5. item \in Items
    <3>1. x.in_seq \in Nat
      BY <1>8, FieldTypes
    <3> QED
      BY <2>4, <3>1 DEF Items
  <2>6. conn' = Updated(conn, n, i, d) /\ sock' = Put(Popped(n, i), c.sd, Peer(n), item)
    BY <1>8, <1>9, <2>1, <2>4 DEF Updated, SameEnd
  <2>7. "SEQ" \in {"READY", "SEQ"}
    OBVIOUS
  <2>8. Core'
    BY <1>1, <1>3, <2>2, <2>3, <2>5, <2>6, <2>7, OpenStep
  <2> QED
    BY <1>3, <1>9, <2>8, RestUntouched
<1>10. CASE fail(n, i, x, Popped(n, i))
  <2>1. /\ Numbered(x) /\ x.sd = conn[n][i].sd /\ SameHold(conn[n][i], x)
    BY <1>1, <1>8 DEF ConnOK, SameEnd
  <2>2. Near(Popped(n, i), n, c)
    BY <1>1, <1>5, SocketsPositive, NearPopped
  <2>3. Near(Popped(n, i), n, x)
    BY <1>8, <2>2 DEF Near, SameEnd
  <2> QED
    BY <1>3, <1>8, <1>10, <2>1, <2>3, FailStep
<1> QED
  BY <1>1, <1>2, <1>9, <1>10 DEF reply_SEQ, history

\* The flags of a policy.
LEMMA PolicyFlagsTyped ==
    ASSUME NEW n PROVE PolicyFlags(n) \in SUBSET Flags
BY DEF PolicyFlags, Flags

\* An answer to the attempt m that refuses it.
Refuses(r, m) ==
    /\ r.tag \in {"RESETSESSION", "RETRY_GLOBAL", "RETRY_SESSION", "WAIT"}
    /\ r.cseq \in Nat /\ r.gseq \in Nat
    /\ r.tag = "RETRY_SESSION" => r.cseq > m.cseq

\* _reply_accept.
LEMMA ReplyAcceptStep ==
    ASSUME Core, Rest, NEW n \in Node, NEW i \in Slots, scenario' = scenario,
           Reads(n, i, "ACCEPTING_WAIT_CONNECT_MSG", "connect"), NEW r,
           Refuses(r, Item(n, i)), _reply_accept(n, i, r)
    PROVE  Core' /\ Rest'
<1>1. PICK c, s : c = conn[n][i] /\ s = c.sd
  OBVIOUS
<1>2. PICK F, item : /\ F = (c.flags \ {"lossy"}) \cup PolicyFlags(n)
                     /\ item = Reply(r.tag, r.cseq, r.gseq, 0, "no")
  OBVIOUS
<1>3. PICK d : d = WithFlags(c, F)
  OBVIOUS
<1>4. /\ conn' = Updated(conn, n, i, d) /\ sock' = Put(Popped(n, i), s, Peer(n), item)
      /\ conns' = conns /\ global_seq' = global_seq /\ submitted' = submitted
  BY <1>1, <1>2, <1>3 DEF _reply_accept, Updated, WithFlags, history
<1>5. /\ s \in Socks /\ sock \in [Socks -> SockTypes] /\ sock[s].q[n] # <<>>
      /\ c.state = "ACCEPTING_WAIT_CONNECT_MSG" /\ Popped(n, i) = Pop(sock, s, n)
      /\ Item(n, i) = sock[s].q[n][1]
  BY <1>1, Reading
<1>6. c \in ConnTypes(MaxMsgs[n]) /\ ConnOK(c) /\ F \in SUBSET Flags
  <2>1. c \in ConnTypes(MaxMsgs[n]) /\ ConnOK(c)
    BY <1>1, Before
  <2>2. c.flags \in SUBSET Flags
    BY <2>1, FieldTypes
  <2> QED
    BY <1>2, <2>1, <2>2, PolicyFlagsTyped
<1>7. /\ d \in ConnTypes(MaxMsgs[n]) /\ d.state = c.state /\ d.sd = c.sd
      /\ d.connect_seq = c.connect_seq /\ d.out_seq = c.out_seq
      /\ d.sent = c.sent /\ d.out_q = c.out_q /\ d.replacing = c.replacing
      /\ d.replacing_sd = c.replacing_sd /\ d.replacing_cseq = c.replacing_cseq
      /\ d.reply = c.reply
  BY <1>3, <1>6, WithFlagsRecord
<1>8. ConnOK(d)
  BY <1>5, <1>6, <1>7 DEF ConnOK, Numbered, Local
<1>9. item \in Items /\ item.tag = r.tag /\ item.cseq = r.cseq
  <2>1. /\ r.tag \in Tags /\ r.cseq \in Nat /\ r.gseq \in Nat /\ 0 \in Nat
        /\ "no" \in {"yes", "no"}
    BY DEF Refuses, Tags
  <2> QED
    BY <1>2, <2>1, ReplyTyped
<1>10. /\ Exchange(sock, sock', s)
       /\ Taken(sock[s].q[n], sock'[s].q[n])
       /\ Given(sock[s].q[Peer(n)], sock'[s].q[Peer(n)], item)
  BY <1>4, <1>5, <1>9, ReadWriteSock
<1>11. SameEnd(c, d) /\ SameHold(c, d)
  BY <1>7 DEF SameEnd, SameHold
<1>12. GoesOn(c, d, sock[s].q[n], sock[s].q[Peer(n)], sock'[s].q[n], sock'[s].q[Peer(n)])
  <2>1. /\ item.tag \notin {"READY", "SEQ"}
        /\ item.tag = "RETRY_SESSION" => item.cseq > sock[s].q[n][1].cseq
    BY <1>5, <1>9 DEF Refuses
  <2> QED
    BY <1>5, <1>10, <1>11, <2>1, RefuseGoesOn, ZenonT(30)
<1>13. Serves(n, i, s, d)
  <2>1. c = conn[n][i] /\ s = c.sd /\ d.sd = s /\ c.state # "CONNECTING_WAIT_BANNER"
    BY <1>1, <1>5, <1>7
  <2> QED
    BY <1>4, <1>10, <1>11, <1>12, <2>1, Zenon DEF Serves
<1>14. Core'
  BY <1>5, <1>7, <1>8, <1>13, ServeStep
<1> QED
  BY <1>4, <1>14, RestUntouched

\* accept_open.
LEMMA AcceptOpenStep ==
    ASSUME Core, Rest, NEW n \in Node, NEW i \in Slots, scenario' = scenario,
           Reads(n, i, "ACCEPTING_WAIT_CONNECT_MSG", "connect"),
           accept_open(n, i, Item(n, i))
    PROVE  Core' /\ Rest'
<1>1. PICK c, s, m : c = conn[n][i] /\ s = c.sd /\ m = Item(n, i)
  OBVIOUS
<1>2. PICK ni, na, F : /\ ni = IF NegotiatesSeq(c) THEN c.in_seq ELSE 0
                       /\ na = IF NegotiatesSeq(c) THEN c.in_seq_acked ELSE 0
                       /\ F = (c.flags \ {"lossy", "is_reset_from_peer"})
                                 \cup PolicyFlags(n)
  OBVIOUS
<1>3. PICK k, g, tag, lossy :
         /\ k = m.cseq + 1 /\ g = global_seq[n] + 1
         /\ tag = IF NegotiatesSeq(c) THEN "SEQ" ELSE "READY"
         /\ lossy = IF Policy[n].lossy THEN "yes" ELSE "no"
  OBVIOUS
<1>4. PICK r : r = Reply(tag, k, g, ni, lossy)
  OBVIOUS
<1>5. PICK d : d = WithReply(c, k, m.gseq, ni, na, F, r)
  OBVIOUS
<1>6. conn' = Updated(conn, n, i, d)
  <2>1. [c EXCEPT !.state = "ACCEPTING_REPLY", !.connect_seq = k, !.peer_global_seq = m.gseq,
                  !.in_seq = ni].in_seq_acked = c.in_seq_acked
    BY <1>1, Before DEF ConnTypes
  <2>2. [c EXCEPT !.state = "ACCEPTING_REPLY", !.connect_seq = k, !.peer_global_seq = m.gseq,
                  !.in_seq = ni, !.in_seq_acked = na].flags = c.flags
    BY <1>1, Before DEF ConnTypes
  <2>3. conn' = [conn EXCEPT ![n][i] = [c EXCEPT
              !.state = "ACCEPTING_REPLY",
              !.connect_seq = m.cseq + 1,
              !.peer_global_seq = m.gseq,
              !.in_seq = IF NegotiatesSeq(c) THEN c.in_seq ELSE 0,
              !.in_seq_acked = IF NegotiatesSeq(c) THEN @ ELSE 0,
              !.flags = (@ \ {"lossy", "is_reset_from_peer"})
                           \cup PolicyFlags(n),
              !.reply = Reply(IF NegotiatesSeq(c) THEN "SEQ" ELSE "READY", m.cseq + 1,
                              global_seq[n] + 1,
                              IF NegotiatesSeq(c) THEN c.in_seq ELSE 0,
                              IF Policy[n].lossy THEN "yes" ELSE "no")]]
    BY <1>1, Zenon DEF accept_open
  <2> QED
    BY <1>2, <1>3, <1>4, <1>5, <2>1, <2>2, <2>3, Zenon DEF WithReply, Updated
<1>7. /\ global_seq' = [global_seq EXCEPT ![n] = @ + 1] /\ conns' = [conns EXCEPT ![n] = i]
      /\ sock' = Popped(n, i) /\ submitted' = submitted
  BY DEF accept_open, history
<1>8. /\ s \in Socks /\ sock \in [Socks -> SockTypes] /\ sock[s].q[n] # <<>>
      /\ c.state = "ACCEPTING_WAIT_CONNECT_MSG" /\ Popped(n, i) = Pop(sock, s, n)
      /\ m = sock[s].q[n][1] /\ m \in Items /\ m.kind = "connect"
  BY <1>1, Reading
<1>9. c \in ConnTypes(MaxMsgs[n]) /\ ConnOK(c)
  BY <1>1, Before
<1>10. m.cseq \in Nat /\ m.gseq \in Nat /\ global_seq[n] \in Nat
  BY <1>8, ItemKinds DEF Rest
<1>11. /\ k \in Nat /\ g \in Nat /\ ni \in Nat /\ na \in Nat /\ F \in SUBSET Flags
       /\ tag \in {"READY", "SEQ"} /\ lossy \in {"yes", "no"}
  <2>1. c.in_seq \in Nat /\ c.in_seq_acked \in Nat /\ c.flags \in SUBSET Flags
    BY <1>9, FieldTypes
  <2>2. F \in SUBSET Flags
    BY <1>2, <2>1, PolicyFlagsTyped DEF Flags
  <2> QED
    BY <1>2, <1>3, <1>10, <2>1, <2>2
<1>12. r \in ReplyTypes /\ r.tag = tag /\ r.cseq = k
  <2>1. tag \in Tags
    BY <1>11 DEF Tags
  <2> QED
    BY <1>4, <1>11, <2>1, ReplyTyped
<1>13. /\ d \in ConnTypes(MaxMsgs[n]) /\ d.state = "ACCEPTING_REPLY" /\ d.connect_seq = k
       /\ d.reply = r /\ d.sd = c.sd /\ d.out_seq = c.out_seq /\ d.sent = c.sent
       /\ d.out_q = c.out_q /\ d.replacing = c.replacing
       /\ d.replacing_sd = c.replacing_sd /\ d.replacing_cseq = c.replacing_cseq
  BY <1>5, <1>9, <1>10, <1>11, <1>12, WithReplyRecord
<1>14. ConnOK(d)
  <2>1. c.sent = <<>> /\ Numbers(c.out_seq, c.sent, c.out_q) /\ c.sd # None
    BY <1>8, <1>9 DEF ConnOK, Numbered, Local, Linked
  <2>2. Numbered(d)
    BY <1>13, <2>1 DEF Numbered
  <2>3. Local(d)
    BY <1>9, <1>11, <1>12, <1>13, <2>1 DEF ConnOK, Local, Linked
  <2> QED
    BY <2>2, <2>3 DEF ConnOK
<1>15. /\ Exchange(sock, sock', s) /\ sock'[s].q[Peer(n)] = sock[s].q[Peer(n)]
       /\ Taken(sock[s].q[n], sock'[s].q[n]) /\ Len(sock[s].q[Peer(n)]) \in Nat
  BY <1>7, <1>8, ReadSock
<1>16. GoesOn(c, d, sock[s].q[n], sock[s].q[Peer(n)], sock'[s].q[n], sock'[s].q[Peer(n)])
  <2>1. d.connect_seq = sock[s].q[n][1].cseq + 1
    BY <1>3, <1>8, <1>13
  <2>2. GoesOn(c, d, sock[s].q[n], sock[s].q[Peer(n)], sock'[s].q[n], sock[s].q[Peer(n)])
    BY <1>8, <1>13, <1>15, <2>1, AcceptGoesOn
  <2> QED
    BY <1>15, <2>2
<1>17. Serves(n, i, s, d)
  <2>1. /\ c = conn[n][i] /\ s = c.sd /\ d.sd = s /\ c.state # "CONNECTING_WAIT_BANNER"
        /\ SameHold(c, d)
    BY <1>1, <1>8, <1>13 DEF SameHold
  <2>2. Exchange(sock, sock', s)
    BY <1>15
  <2> QED
    BY <1>6, <1>16, <2>1, <2>2, Zenon DEF Serves
<1>18. Core'
  BY <1>8, <1>13, <1>14, <1>17, ServeStep
<1>19. global_seq' \in [Node -> Nat] /\ conns' \in [Node -> Slots \cup {None}]
  BY <1>7, <1>10 DEF Rest
<1> QED
  BY <1>7, <1>18, <1>19, RestStays

\* The answers that handle_connect_msg decides on refuse the attempt.
LEMMA DecideRefuses ==
    ASSUME NEW n, NEW max, NEW e \in ConnTypes(max), NEW m, m.cseq \in Nat, m.gseq \in Nat,
           NEW reading, NEW d, d = Decide(n, e, m, reading), d.act = "answer"
    PROVE  Refuses(d, m)
<1>1. e.connect_seq \in Nat /\ e.peer_global_seq \in Nat
  BY FieldTypes
<1>2. \A a, b : Replace(a, b).act = "replace"
  BY DEF Replace
<1>3. \A tag, cseq, gseq : /\ Answer(tag, cseq, gseq).tag = tag
                           /\ Answer(tag, cseq, gseq).cseq = cseq
                           /\ Answer(tag, cseq, gseq).gseq = gseq
  BY DEF Answer
<1>4. \/ \E a, b : d = Replace(a, b)
      \/ d = Answer("RETRY_GLOBAL", 0, e.peer_global_seq)
      \/ d = Answer("RETRY_SESSION", e.connect_seq + 1, 0) /\ m.cseq < e.connect_seq
      \/ d = Answer("RETRY_SESSION", e.connect_seq + 1, 0) /\ m.cseq = e.connect_seq
      \/ d = Answer("WAIT", 0, 0)
      \/ d = Answer("RESETSESSION", 0, 0)
  BY Zenon DEF Decide
<1>5. CASE \E a, b : d = Replace(a, b)
  BY <1>2, <1>5
<1>6. CASE d = Answer("RETRY_GLOBAL", 0, e.peer_global_seq)
  BY <1>1, <1>3, <1>6 DEF Refuses
<1>7. CASE d = Answer("RETRY_SESSION", e.connect_seq + 1, 0) /\ m.cseq <= e.connect_seq
  BY <1>1, <1>3, <1>7 DEF Refuses
<1>8. CASE d = Answer("WAIT", 0, 0) \/ d = Answer("RESETSESSION", 0, 0)
  BY <1>3, <1>8 DEF Refuses
<1> QED
  BY <1>1, <1>4, <1>5, <1>6, <1>7, <1>8

\* Connection i of n hands its socket s, whose attempt it has read, to e.
HandsOver(K, K1, S, S1, n, i, e, s) ==
    /\ AllSocks(K, S)
    /\ \A j \in Slots \ {i, e} : K1[n][j] = K[n][j]
    /\ K1[Peer(n)] = K[Peer(n)]
    /\ K[n][i].sd = s /\ K[n][i].state = "ACCEPTING_WAIT_CONNECT_MSG"
    /\ K1[n][i].sd = None /\ K1[n][i].replacing_sd = None
    /\ SameEnd(K[n][e], K1[n][e]) /\ K1[n][e].replacing_sd = s
    /\ K1[n][e].replacing_cseq = S[s].q[n][1].cseq
    /\ Exchange(S, S1, s) /\ S1[s].q[Peer(n)] = S[s].q[Peer(n)]
    /\ Taken(S[s].q[n], S1[s].q[n]) /\ Len(S[s].q[Peer(n)]) \in Nat

\* ... and all sockets are all right afterwards.
LEMMA HandOver ==
    ASSUME NEW K, NEW K1, NEW S, NEW S1, NEW n \in Node, NEW i \in Slots,
           NEW e \in Slots \ {i}, NEW s \in Socks, HandsOver(K, K1, S, S1, n, i, e, s)
    PROVE  AllSocks(K1, S1)
BY SocketsHanded DEF HandsOver, Exchange, Taken

\* accept_replace.
LEMMA AcceptReplaceStep ==
    ASSUME Core, Rest, NEW n \in Node, NEW i \in Slots, NEW e \in Slots \ {i},
           scenario' = scenario, Reads(n, i, "ACCEPTING_WAIT_CONNECT_MSG", "connect"),
           NEW d, accept_replace(n, i, e, Item(n, i), d)
    PROVE  Core' /\ Rest'
<1>1. PICK m, s : m = Item(n, i) /\ s = conn[n][i].sd
  OBVIOUS
<1>2. /\ s \in Socks /\ sock \in [Socks -> SockTypes] /\ sock[s].q[n] # <<>>
      /\ conn[n][i].state = "ACCEPTING_WAIT_CONNECT_MSG" /\ Popped(n, i) = Pop(sock, s, n)
      /\ m = sock[s].q[n][1] /\ m \in Items /\ m.kind = "connect"
  BY <1>1, Reading
<1>3. m.cseq \in Nat /\ m.gseq \in Nat
  BY <1>2, ItemKinds
<1>4. CASE conn[n][e].replacing # 0 \/ Flag(conn[n][e], "stopping")
  <2>1. PICK r : r = Answer("RETRY_SESSION", m.cseq + 1, 0)
    OBVIOUS
  <2>2. r.tag = "RETRY_SESSION" /\ r.cseq = m.cseq + 1 /\ r.gseq = 0
    BY <2>1 DEF Answer
  <2>3. Refuses(r, Item(n, i))
    BY <1>1, <1>3, <2>2 DEF Refuses
  <2>4. _reply_accept(n, i, r)
    BY <1>1, <1>4, <2>1 DEF accept_replace
  <2> QED
    BY <2>3, <2>4, ReplyAcceptStep
<1>5. CASE ~(conn[n][e].replacing # 0 \/ Flag(conn[n][e], "stopping"))
  <2>1. PICK x : x = conn[n][e]
    OBVIOUS
  <2>2. PICK F : F = SetFlag(SetFlag([x EXCEPT !.replacing = 1, !.replacing_sd = s,
                                               !.replacing_cseq = m.cseq],
                             "is_reset_from_peer", d.reset_from_peer),
                     "replacing_reset_session", d.reset_session).flags
    OBVIOUS
  <2>3. PICK y : y = WithHanded(x, s, m.cseq, F)
    OBVIOUS
  <2>4. PICK K : K = Updated(conn, n, i, FreeConn)
    OBVIOUS
  <2>5. x \in ConnTypes(MaxMsgs[n]) /\ ConnOK(x) /\ conn[n][i] \in ConnTypes(MaxMsgs[n])
    BY <2>1, Before
  <2>6. ConnsTyped(conn, MaxMsgs)
    BY DEF Core
  <2>7. FreeConn \in ConnTypes(MaxMsgs[n]) /\ ConnOK(FreeConn)
        /\ FreeConn.sd = None /\ FreeConn.replacing_sd = None
    BY FreeRecord
  <2>8. /\ ConnsTyped(K, MaxMsgs) /\ K[n][i] = FreeConn
        /\ \A j \in Slots \ {i} : K[n][j] = conn[n][j]
        /\ K[Peer(n)] = conn[Peer(n)]
    BY <2>4, <2>6, <2>7, Update
  <2>9. F \in SUBSET Flags
    <3>1. x.flags \in SUBSET Flags
      BY <2>5, FieldTypes
    <3>2. [x EXCEPT !.replacing = 1, !.replacing_sd = s, !.replacing_cseq = m.cseq].flags
            = x.flags
      BY <2>5 DEF ConnTypes
    <3> QED
      BY <2>2, <2>5, <3>1, <3>2 DEF SetFlag, ConnTypes, Flags
  <2>10. SetFlag(SetFlag([x EXCEPT !.replacing = 1, !.replacing_sd = s,
                                   !.replacing_cseq = m.cseq],
                         "is_reset_from_peer", d.reset_from_peer),
                 "replacing_reset_session", d.reset_session) = y
    BY <2>2, <2>3, <2>5 DEF SetFlag, ConnTypes, WithHanded
  <2>11. conn' = Updated(K, n, e, y) /\ sock' = Popped(n, i)
         /\ conns' = conns /\ global_seq' = global_seq /\ submitted' = submitted
    <3>1. K[n][e] = x
      BY <2>1, <2>8
    <3>2. conn' = Updated(K, n, e, SetFlag(SetFlag([K[n][e] EXCEPT
                            !.replacing = 1, !.replacing_sd = s,
                            !.replacing_cseq = m.cseq],
                            "is_reset_from_peer", d.reset_from_peer),
                            "replacing_reset_session", d.reset_session))
      BY <1>1, <1>5, <2>4 DEF accept_replace, Updated
    <3>3. conn' = Updated(K, n, e, y)
      BY <2>10, <3>1, <3>2, Zenon
    <3> QED
      BY <1>5, <3>3 DEF accept_replace, history
  <2>12. s \in Handles
    BY <1>2 DEF Handles
  <2>13. /\ y \in ConnTypes(MaxMsgs[n]) /\ y.replacing = 1 /\ y.replacing_sd = s
         /\ y.replacing_cseq = m.cseq /\ y.state = x.state /\ y.sd = x.sd /\ y.flags = F
         /\ y.connect_seq = x.connect_seq /\ y.out_seq = x.out_seq /\ y.sent = x.sent
         /\ y.out_q = x.out_q /\ y.reply = x.reply
    BY <1>3, <2>3, <2>5, <2>9, <2>12, WithHandedRecord
  <2>14. ConnOK(y)
    <3>1. "lossy" \in F <=> "lossy" \in x.flags
      BY <2>2, <2>5 DEF SetFlag, ConnTypes
    <3>2. Numbered(y)
      BY <2>5, <2>13, <3>1 DEF ConnOK, Numbered, Flag
    <3>3. Local(y)
      BY <1>2, <2>5, <2>13, SocketsPositive DEF ConnOK, Local
    <3> QED
      BY <3>2, <3>3 DEF ConnOK
  <2>15. /\ ConnsTyped(conn', MaxMsgs) /\ conn'[n][e] = y
         /\ \A j \in Slots \ {e} : conn'[n][j] = K[n][j]
         /\ conn'[Peer(n)] = K[Peer(n)]
    BY <2>8, <2>11, <2>13, Update
  <2>16. Connections'
    <3>1. \A m1 \in Node, j \in Slots : ConnOK(conn[m1][j])
      BY DEF Core, Connections
    <3>2. \A m1 \in Node, j \in Slots : ConnOK(conn'[m1][j])
      BY <2>7, <2>8, <2>14, <2>15, <3>1, Peers
    <3> QED
      BY <3>2 DEF Connections
  <2>17. HandsOver(conn, conn', sock, sock', n, i, e, s)
    <3>1. /\ Exchange(sock, sock', s) /\ sock'[s].q[Peer(n)] = sock[s].q[Peer(n)]
          /\ Taken(sock[s].q[n], sock'[s].q[n]) /\ Len(sock[s].q[Peer(n)]) \in Nat
      BY <1>2, <2>11, ReadSock
    <3>2. /\ \A j \in Slots \ {i, e} : conn'[n][j] = conn[n][j]
          /\ conn'[Peer(n)] = conn[Peer(n)]
          /\ conn'[n][i].sd = None /\ conn'[n][i].replacing_sd = None
      BY <2>7, <2>8, <2>15
    <3>3. SameEnd(conn[n][e], conn'[n][e]) /\ conn'[n][e].replacing_sd = s
      BY <2>1, <2>13, <2>15 DEF SameEnd
    <3>4. conn'[n][e].replacing_cseq = sock[s].q[n][1].cseq
      BY <1>2, <2>13, <2>15
    <3>5. AllSocks(conn, sock) /\ conn[n][i].sd = s
      BY <1>1 DEF Core
    <3> QED
      BY <1>2, <3>1, <3>2, <3>3, <3>4, <3>5, Zenon DEF HandsOver
  <2>18. AllSocks(conn', sock')
    BY <1>2, <2>17, HandOver
  <2>19. sock' \in [Socks -> SockTypes]
    <3>1. Exchange(sock, sock', s)
      BY <1>2, <2>11, ReadSock
    <3> QED
      BY <3>1 DEF Exchange
  <2>20. MaxMsgs' = MaxMsgs
    BY DEF MaxMsgs
  <2>21. Core'
    BY <2>15, <2>16, <2>18, <2>19, <2>20 DEF Core
  <2> QED
    BY <2>11, <2>21, RestUntouched
<1> QED
  BY <1>4, <1>5

\* handle_connect_msg.
LEMMA ConnectMsgStep ==
    ASSUME Core, Rest, NEW n \in Node, NEW i \in Slots, handle_connect_msg(n, i)
    PROVE  Core' /\ Rest'
<1>1. PICK m, e : m = Item(n, i) /\ e = IF conns[n] = i THEN None ELSE conns[n]
  OBVIOUS
<1>2. scenario' = scenario /\ Reads(n, i, "ACCEPTING_WAIT_CONNECT_MSG", "connect")
  BY DEF handle_connect_msg, counters
<1>3. PICK s : s = conn[n][i].sd
  OBVIOUS
<1>4. m \in Items /\ m.kind = "connect"
  BY <1>1, <1>2, <1>3, Reading
<1>5. m.cseq \in Nat /\ m.gseq \in Nat
  BY <1>4, ItemKinds
<1>6. \/ accept_open(n, i, Item(n, i))
      \/ _reply_accept(n, i, Answer("RESETSESSION", 0, 0))
      \/ /\ e # None
         /\ \E reading : LET d == Decide(n, conn[n][e], m, reading) IN
                \/ d.act = "answer" /\ _reply_accept(n, i, d)
                \/ d.act = "replace" /\ accept_replace(n, i, e, m, d)
  BY <1>1 DEF handle_connect_msg
<1>7. CASE accept_open(n, i, Item(n, i))
  BY <1>2, <1>7, AcceptOpenStep
<1>8. CASE _reply_accept(n, i, Answer("RESETSESSION", 0, 0))
  <2>1. PICK r : r = Answer("RESETSESSION", 0, 0)
    OBVIOUS
  <2>2. Refuses(r, Item(n, i))
    BY <2>1 DEF Refuses, Answer
  <2> QED
    BY <1>2, <1>8, <2>1, <2>2, ReplyAcceptStep
<1>9. CASE /\ e # None
           /\ \E reading : LET d == Decide(n, conn[n][e], m, reading) IN
                \/ d.act = "answer" /\ _reply_accept(n, i, d)
                \/ d.act = "replace" /\ accept_replace(n, i, e, m, d)
  <2>1. e \in Slots \ {i}
    BY <1>1, <1>9 DEF Rest
  <2>2. PICK reading, d : /\ d = Decide(n, conn[n][e], m, reading)
                          /\ \/ d.act = "answer" /\ _reply_accept(n, i, d)
                             \/ d.act = "replace" /\ accept_replace(n, i, e, m, d)
    BY <1>9
  <2>3. CASE d.act = "answer" /\ _reply_accept(n, i, d)
    <3>1. conn[n][e] \in ConnTypes(MaxMsgs[n])
      BY <2>1, Before
    <3>2. Refuses(d, m)
      BY <1>5, <2>2, <2>3, <3>1, DecideRefuses
    <3> QED
      BY <1>1, <1>2, <2>3, <3>2, ReplyAcceptStep
  <2>4. CASE d.act = "replace" /\ accept_replace(n, i, e, m, d)
    BY <1>1, <1>2, <2>1, <2>4, AcceptReplaceStep
  <2> QED
    BY <2>2, <2>3, <2>4
<1> QED
  BY <1>6, <1>7, <1>8, <1>9

\* accept_reply.
LEMMA AcceptReplyStep ==
    ASSUME Core, Rest, NEW n \in Node, NEW i \in Slots, accept_reply(n, i)
    PROVE  Core' /\ Rest'
<1>1. PICK c, s, r : c = conn[n][i] /\ s = c.sd /\ r = c.reply
  OBVIOUS
<1>0. PICK told \in Announces(c) :
         \/ /\ conn' = [conn EXCEPT ![n][i] =
                   [Replied(c, told) EXCEPT !.state = IF r.tag = "SEQ" THEN "ACCEPTING_WAIT_SEQ"
                                                                      ELSE "OPEN"]]
            /\ sock' = Put(sock, Replied(c, told).sd, Peer(n), r)
            /\ UNCHANGED <<conns, history>>
         \/ fault(n, i, Replied(c, told), sock)
  BY <1>1, Zenon DEF accept_reply
<1>2. PICK x : x = Replied(c, told)
  OBVIOUS
<1>3. PICK st : st = IF r.tag = "SEQ" THEN "ACCEPTING_WAIT_SEQ" ELSE "OPEN"
  OBVIOUS
<1>4. PICK d : d = WithState(x, st)
  OBVIOUS
<1>5. c \in ConnTypes(MaxMsgs[n]) /\ ConnOK(c)
  BY <1>1, Before
<1>6. /\ x \in ConnTypes(MaxMsgs[n]) /\ x.replacing = 0
      /\ x.state = c.state /\ x.sd = c.sd /\ x.connect_seq = c.connect_seq
      /\ x.out_seq = c.out_seq /\ x.sent = c.sent /\ x.out_q = c.out_q
      /\ x.replacing_sd = c.replacing_sd /\ x.replacing_cseq = c.replacing_cseq
      /\ "lossy" \in x.flags <=> "lossy" \in c.flags
  <2>1. PICK F \in SUBSET Flags : /\ x = WithReplied(c, F)
                                  /\ \A f \in Flags \ {"queue_reset"} : f \in F <=> f \in c.flags
    BY <1>2, <1>5, RepliedIs
  <2>2. "lossy" \in Flags \ {"queue_reset"}
    BY DEF Flags
  <2> QED
    BY <1>5, <2>1, <2>2, WithRepliedRecord
<1>7. st \in {"ACCEPTING_WAIT_SEQ", "OPEN"} /\ st \in States
  BY <1>3, FieldValues
<1>8. /\ d \in ConnTypes(MaxMsgs[n]) /\ d.state = st /\ d.sd = x.sd
      /\ d.connect_seq = x.connect_seq /\ d.out_seq = x.out_seq /\ d.sent = x.sent
      /\ d.out_q = x.out_q /\ d.replacing = x.replacing
      /\ d.replacing_sd = x.replacing_sd /\ d.replacing_cseq = x.replacing_cseq
  BY <1>4, <1>6, <1>7, WithStateRecord
<1>9. c.state = "ACCEPTING_REPLY" /\ scenario' = scenario /\ global_seq' = global_seq
  BY <1>1 DEF accept_reply, counters
<1>10. /\ s \in Socks /\ c.sent = <<>> /\ Numbers(c.out_seq, c.sent, c.out_q)
       /\ r.tag \in {"READY", "SEQ"} /\ r.cseq = c.connect_seq
  <2>1. c.sd \in Handles
    BY <1>5, FieldTypes
  <2> QED
    BY <1>1, <1>5, <1>9, <2>1 DEF ConnOK, Numbered, Local, Linked, Handles
<1>11. SameHold(c, d) /\ SameHold(c, x)
  BY <1>6, <1>8 DEF SameHold
<1>12. CASE /\ conn' = [conn EXCEPT ![n][i] = [x EXCEPT !.state =
                             IF r.tag = "SEQ" THEN "ACCEPTING_WAIT_SEQ" ELSE "OPEN"]]
            /\ sock' = Put(sock, x.sd, Peer(n), r)
            /\ UNCHANGED <<conns, history>>
  <2>1. /\ conn' = Updated(conn, n, i, d) /\ sock' = Put(sock, s, Peer(n), r)
        /\ conns' = conns /\ submitted' = submitted
    <3>1. conn' = [conn EXCEPT ![n][i] = [x EXCEPT !.state = st]]
      BY <1>3, <1>12, Zenon
    <3>2. sock' = Put(sock, s, Peer(n), r)
      BY <1>1, <1>6, <1>12, Zenon
    <3> QED
      BY <1>4, <1>12, <3>1, <3>2 DEF Updated, WithState, history
  <2>2. ConnOK(d)
    <3>1. d.sd # None /\ d.state \in Linked /\ d.state # "ACCEPTING_REPLY" /\ d.replacing = 0
      BY <1>1, <1>6, <1>7, <1>8, <1>10, SocketsPositive DEF Linked
    <3>2. Numbers(d.out_seq, d.sent, d.out_q) /\ d.sent = <<>>
      BY <1>6, <1>8, <1>10
    <3> QED
      BY <3>1, <3>2 DEF ConnOK, Numbered, Local
  <2>3. r \in Items
    <3>1. r \in ReplyTypes
      BY <1>1, <1>5, FieldTypes
    <3> QED
      BY <3>1 DEF Items
  <2>4. sock \in [Socks -> SockTypes]
    BY DEF Core
  <2>5. /\ Exchange(sock, sock', s) /\ sock'[s].q[n] = sock[s].q[n]
        /\ Given(sock[s].q[Peer(n)], sock'[s].q[Peer(n)], r)
    BY <1>10, <2>1, <2>3, <2>4, WriteSock
  <2>6. GoesOn(c, d, sock[s].q[n], sock[s].q[Peer(n)], sock'[s].q[n], sock'[s].q[Peer(n)])
    <3>1. d.connect_seq = c.connect_seq /\ d.state \in {"ACCEPTING_WAIT_SEQ", "OPEN"}
      BY <1>6, <1>7, <1>8
    <3>2. GoesOn(c, d, sock[s].q[n], sock[s].q[Peer(n)], sock[s].q[n], sock'[s].q[Peer(n)])
      BY <1>9, <1>10, <2>5, <3>1, ReplyGoesOn
    <3> QED
      BY <2>5, <3>2
  <2>7. Serves(n, i, s, d)
    <3>1. c = conn[n][i] /\ s = c.sd /\ d.sd = s /\ c.state # "CONNECTING_WAIT_BANNER"
      BY <1>1, <1>6, <1>8, <1>9
    <3>2. Exchange(sock, sock', s) /\ conn' = Updated(conn, n, i, d)
      BY <2>1, <2>5
    <3> QED
      BY <1>11, <2>6, <3>1, <3>2, Zenon DEF Serves
  <2>8. Core'
    BY <1>8, <1>9, <1>10, <2>2, <2>7, ServeStep
  <2> QED
    BY <1>9, <2>1, <2>8, RestUntouched
<1>13. CASE fault(n, i, x, sock)
  <2>1. Numbered(x)
    BY <1>5, <1>6 DEF ConnOK, Numbered, Flag
  <2>2. Near(sock, n, x) /\ conns \in [Node -> Slots \cup {None}]
    BY NearSame DEF Rest
  <2>3. x.sd = conn[n][i].sd /\ SameHold(conn[n][i], x)
    BY <1>1, <1>6, <1>11
  <2>4. Core' /\ conns' \in [Node -> Slots \cup {None}] /\ submitted' = submitted
    BY <1>6, <1>9, <1>13, <2>1, <2>2, <2>3, FaultStep
  <2>5. global_seq' \in [Node -> Nat]
    BY <1>9 DEF Rest
  <2> QED
    BY <1>9, <2>4, <2>5, RestStays
<1> QED
  BY <1>0, <1>2, <1>12, <1>13, Zenon

\* RecvSeq.
LEMMA RecvSeqStep ==
    ASSUME Core, Rest, NEW n \in Node, NEW i \in Slots, RecvSeq(n, i)
    PROVE  Core' /\ Rest'
<1>1. PICK c, s : c = conn[n][i] /\ s = c.sd
  OBVIOUS
<1>2. PICK x : x = discard_requeued_up_to(c, Item(n, i).seq)
  OBVIOUS
<1>3. PICK d : d = WithState(x, "OPEN")
  OBVIOUS
<1>4. c \in ConnTypes(MaxMsgs[n]) /\ ConnOK(c)
  BY <1>1, Before
<1>5. /\ conn' = Updated(conn, n, i, d) /\ sock' = Popped(n, i) /\ scenario' = scenario
      /\ conns' = conns /\ global_seq' = global_seq /\ submitted' = submitted
  BY <1>1, <1>2, <1>3 DEF RecvSeq, Updated, WithState, counters, history
<1>6. Reads(n, i, "ACCEPTING_WAIT_SEQ", "seq")
  BY DEF RecvSeq
<1>7. /\ s \in Socks /\ sock \in [Socks -> SockTypes] /\ sock[s].q[n] # <<>>
      /\ c.state = "ACCEPTING_WAIT_SEQ" /\ Popped(n, i) = Pop(sock, s, n)
  BY <1>1, <1>6, Reading
<1>8. x \in ConnTypes(MaxMsgs[n]) /\ ConnOK(x) /\ SameEnd(c, x) /\ SameHold(c, x)
  BY <1>2, <1>4, <1>7, DiscardRecord
<1>9. /\ d \in ConnTypes(MaxMsgs[n]) /\ d.state = "OPEN" /\ d.sd = x.sd
      /\ d.connect_seq = x.connect_seq /\ d.out_seq = x.out_seq /\ d.sent = x.sent
      /\ d.out_q = x.out_q /\ d.replacing = x.replacing
      /\ d.replacing_sd = x.replacing_sd /\ d.replacing_cseq = x.replacing_cseq
  BY <1>3, <1>8, FieldValues, WithStateRecord
<1>10. ConnOK(d) /\ d.sd = s /\ d.connect_seq = c.connect_seq /\ SameHold(c, d)
  <2>1. d.sd = s /\ d.connect_seq = c.connect_seq /\ x.state = "ACCEPTING_WAIT_SEQ"
    BY <1>1, <1>7, <1>8, <1>9 DEF SameEnd
  <2>2. SameHold(c, d)
    BY <1>8, <1>9 DEF SameHold
  <2>3. Numbered(d)
    BY <1>8, <1>9, <2>1 DEF ConnOK, Numbered
  <2>4. Local(d)
    BY <1>7, <1>8, <1>9, <2>1 DEF ConnOK, Local, Linked
  <2> QED
    BY <2>1, <2>2, <2>3, <2>4 DEF ConnOK
<1>11. /\ Exchange(sock, sock', s) /\ sock'[s].q[Peer(n)] = sock[s].q[Peer(n)]
  BY <1>5, <1>7, ReadSock
<1>12. GoesOn(c, d, sock[s].q[n], sock[s].q[Peer(n)], sock'[s].q[n], sock'[s].q[Peer(n)])
  <2>1. GoesOn(c, d, sock[s].q[n], sock[s].q[Peer(n)], sock'[s].q[n], sock[s].q[Peer(n)])
    BY <1>7, <1>9, <1>10, SeqGoesOn
  <2> QED
    BY <1>11, <2>1
<1>13. Serves(n, i, s, d)
  <2>1. c = conn[n][i] /\ s = c.sd /\ c.state # "CONNECTING_WAIT_BANNER"
    BY <1>1, <1>7
  <2>2. Exchange(sock, sock', s) /\ conn' = Updated(conn, n, i, d)
    BY <1>5, <1>11
  <2> QED
    BY <1>10, <1>12, <2>1, <2>2, Zenon DEF Serves
<1>14. Core'
  BY <1>5, <1>7, <1>9, <1>10, <1>13, ServeStep
<1> QED
  BY <1>5, <1>14, RestUntouched

-----------------------------------------------------------------------------
(***************************************************************************)
(* An open connection reads and writes.                                    *)
(***************************************************************************)
\* An open connection writes an item that is not a reply.
LEMMA OpenWrites ==
    ASSUME Core, Rest, NEW n \in Node, NEW i \in Slots, NEW d \in ConnTypes(MaxMsgs[n]),
           ConnOK(d), conn[n][i].state = "OPEN", SameEnd(conn[n][i], d),
           SameHold(conn[n][i], d), NEW item \in Items, item.kind # "reply",
           conn' = Updated(conn, n, i, d),
           sock' = Put(sock, conn[n][i].sd, Peer(n), item), scenario' = scenario
    PROVE  Core'
<1>1. PICK c, s : c = conn[n][i] /\ s = c.sd
  OBVIOUS
<1>2. s \in Socks
  <2>1. c \in ConnTypes(MaxMsgs[n]) /\ ConnOK(c) /\ c.sd \in Handles
    BY <1>1, Before
  <2> QED
    BY <1>1, <2>1 DEF ConnOK, Local, Linked, Handles
<1>3. sock \in [Socks -> SockTypes] /\ sock' = Put(sock, s, Peer(n), item)
  BY <1>1 DEF Core
<1>4. /\ Exchange(sock, sock', s)
      /\ Given(sock[s].q[Peer(n)], sock'[s].q[Peer(n)], item)
  BY <1>2, <1>3, WriteSock
<1>5. /\ c.state = "OPEN" /\ d.state = "OPEN" /\ d.connect_seq = c.connect_seq /\ d.sd = s
      /\ c.state # "CONNECTING_WAIT_BANNER"
  BY <1>1 DEF SameEnd
<1>6. GoesOn(c, d, sock[s].q[n], sock[s].q[Peer(n)], sock'[s].q[n], sock'[s].q[Peer(n)])
  BY <1>4, <1>5, OpenGoesOn
<1>7. Serves(n, i, s, d)
  <2>1. SameHold(c, d) /\ Exchange(sock, sock', s)
    BY <1>1, <1>4
  <2> QED
    BY <1>1, <1>5, <1>6, <2>1, Zenon DEF Serves
<1> QED
  BY <1>2, <1>7, ServeStep

\* An open connection reads an item.
LEMMA OpenReads ==
    ASSUME Core, NEW n \in Node, NEW i \in Slots, NEW kind, Reads(n, i, "OPEN", kind),
           NEW d \in ConnTypes(MaxMsgs[n]), ConnOK(d), SameEnd(conn[n][i], d),
           SameHold(conn[n][i], d), conn' = Updated(conn, n, i, d),
           sock' = Popped(n, i), scenario' = scenario
    PROVE  Core'
<1>1. PICK c, s : c = conn[n][i] /\ s = c.sd
  OBVIOUS
<1>2. /\ s \in Socks /\ sock \in [Socks -> SockTypes] /\ sock[s].q[n] # <<>>
      /\ c.state = "OPEN" /\ Popped(n, i) = Pop(sock, s, n)
  BY <1>1, Reading
<1>3. /\ Exchange(sock, sock', s) /\ sock'[s].q[Peer(n)] = sock[s].q[Peer(n)]
      /\ Len(sock[s].q[Peer(n)]) \in Nat
  BY <1>2, ReadSock
<1>4. PICK item : item = [kind |-> "banner"]
  OBVIOUS
<1>5. Given(sock[s].q[Peer(n)], sock'[s].q[Peer(n)], item) /\ item.kind # "reply"
  BY <1>3, <1>4 DEF Given
<1>6. /\ d.state = "OPEN" /\ d.connect_seq = c.connect_seq /\ d.sd = s
      /\ c.state # "CONNECTING_WAIT_BANNER"
  BY <1>1, <1>2 DEF SameEnd
<1>7. GoesOn(c, d, sock[s].q[n], sock[s].q[Peer(n)], sock'[s].q[n], sock'[s].q[Peer(n)])
  BY <1>2, <1>5, <1>6, OpenGoesOn
<1>8. Serves(n, i, s, d)
  <2>1. SameHold(c, d) /\ Exchange(sock, sock', s)
    BY <1>1, <1>3
  <2> QED
    BY <1>1, <1>6, <1>7, <2>1, Zenon DEF Serves
<1> QED
  BY <1>2, <1>8, ServeStep

\* What an open connection writes.
LEMMA OpenItems ==
    ASSUME NEW k \in Nat, NEW id \in Nat
    PROVE  /\ [kind |-> "msg", id |-> id, seq |-> k] \in Items
           /\ [kind |-> "msg", id |-> id, seq |-> k].kind # "reply"
           /\ [kind |-> "ack", seq |-> k] \in Items
           /\ [kind |-> "ack", seq |-> k].kind # "reply"
BY DEF Items

\* A message.
LEMMA MsgItemTyped ==
    ASSUME NEW max \in Nat, NEW c \in ConnTypes(max), NEW m \in MsgTypes(max), NEW item,
           item = MsgItem(c, m)
    PROVE  item \in Items /\ item.kind # "reply"
<1>1. c.out_seq + 1 \in Nat
  BY FieldTypes
<1>2. m.id \in Nat
  BY DEF MsgTypes
<1> QED
  BY <1>1, <1>2, OpenItems DEF MsgItem

\* The bound on a node's messages.
LEMMA MaxMsgsTyped ==
    ASSUME Rest, NEW n \in Node PROVE MaxMsgs[n] \in Nat
BY DEF Rest, MaxMsgs, ScenarioTypes

\* WriteMessage.
LEMMA WriteMessageStep ==
    ASSUME Core, Rest, NEW n \in Node, NEW i \in Slots, WriteMessage(n, i)
    PROVE  Core' /\ Rest'
<1>1. PICK c, Q : c = conn[n][i] /\ Q = c.out_q
  OBVIOUS
<1>2. PICK d : d = [_send(c, Head(Q)) EXCEPT !.out_q = Tail(Q)]
  OBVIOUS
<1>3. PICK item : item = MsgItem(c, Head(Q))
  OBVIOUS
<1>4. c \in ConnTypes(MaxMsgs[n]) /\ ConnOK(c) /\ c.state = "OPEN" /\ Q # <<>>
  BY <1>1, Before DEF WriteMessage
<1>5. _send(c, Head(Q)).out_q = Q
  BY <1>1, <1>4 DEF _send, ConnTypes
<1>6. conn' = Updated(conn, n, i, d)
  <2>1. conn' = Updated(conn, n, i, [_send(c, Head(Q)) EXCEPT
                                       !.out_q = Tail(_send(c, Head(Q)).out_q)])
    BY <1>1 DEF WriteMessage, Updated
  <2> QED
    BY <1>2, <1>5, <2>1, Zenon
<1>7. /\ sock' = Put(sock, conn[n][i].sd, Peer(n), item) /\ scenario' = scenario
      /\ conns' = conns /\ global_seq' = global_seq /\ submitted' = submitted
  BY <1>1, <1>3 DEF WriteMessage, counters, history
<1>8. Q \in Seq(MsgTypes(MaxMsgs[n])) /\ Numbers(c.out_seq, c.sent, Q)
  BY <1>1, <1>4, FieldTypes DEF ConnOK, Numbered
<1>9. d \in ConnTypes(MaxMsgs[n]) /\ ConnOK(d) /\ SameEnd(c, d) /\ SameHold(c, d)
  BY <1>2, <1>4, <1>8, SendRecord
<1>10. item \in Items /\ item.kind # "reply"
  <2>1. Head(Q) \in MsgTypes(MaxMsgs[n])
    BY <1>4, <1>8
  <2> QED
    BY <1>3, <1>4, <2>1, MaxMsgsTyped, MsgItemTyped
<1>11. Core'
  BY <1>1, <1>4, <1>6, <1>7, <1>9, <1>10, OpenWrites
<1> QED
  BY <1>7, <1>11, RestUntouched

\* WriteAck.
LEMMA WriteAckStep ==
    ASSUME Core, Rest, NEW n \in Node, NEW i \in Slots, WriteAck(n, i)
    PROVE  Core' /\ Rest'
<1>1. PICK c : c = conn[n][i]
  OBVIOUS
<1>2. PICK d : d = WithAcked(c, c.in_seq)
  OBVIOUS
<1>3. PICK item : item = [kind |-> "ack", seq |-> c.in_seq]
  OBVIOUS
<1>4. c \in ConnTypes(MaxMsgs[n]) /\ ConnOK(c) /\ c.state = "OPEN" /\ c.in_seq \in Nat
  BY <1>1, Before, FieldTypes DEF WriteAck
<1>5. /\ conn' = Updated(conn, n, i, d) /\ scenario' = scenario
      /\ sock' = Put(sock, conn[n][i].sd, Peer(n), item)
      /\ conns' = conns /\ global_seq' = global_seq /\ submitted' = submitted
  BY <1>1, <1>2, <1>3 DEF WriteAck, Updated, WithAcked, counters, history
<1>6. /\ d \in ConnTypes(MaxMsgs[n]) /\ d.state = c.state /\ d.sd = c.sd
      /\ d.connect_seq = c.connect_seq /\ d.out_seq = c.out_seq /\ d.sent = c.sent
      /\ d.out_q = c.out_q /\ d.replacing = c.replacing
      /\ d.replacing_sd = c.replacing_sd /\ d.replacing_cseq = c.replacing_cseq
      /\ d.reply = c.reply /\ d.flags = c.flags
  BY <1>2, <1>4, WithAckedRecord
<1>7. ConnOK(d)
  BY <1>4, <1>6 DEF ConnOK, Numbered, Local, Flag
<1>8. SameEnd(conn[n][i], d) /\ SameHold(conn[n][i], d)
  BY <1>1, <1>6 DEF SameEnd, SameHold
<1>9. item \in Items /\ item.kind # "reply"
  BY <1>3, <1>4, OpenItems
<1>10. Core'
  BY <1>1, <1>4, <1>5, <1>6, <1>7, <1>8, <1>9, OpenWrites
<1> QED
  BY <1>5, <1>10, RestUntouched

\* RecvMessage.
LEMMA RecvMessageStep ==
    ASSUME Core, Rest, NEW n \in Node, NEW i \in Slots, RecvMessage(n, i)
    PROVE  Core' /\ Rest'
<1>1. PICK c, k : c = conn[n][i] /\ k = IF Item(n, i).seq <= c.in_seq THEN c.in_seq
                                                                    ELSE Item(n, i).seq
  OBVIOUS
<1>2. PICK d : d = WithInSeq(c, k)
  OBVIOUS
<1>3. c \in ConnTypes(MaxMsgs[n]) /\ ConnOK(c) /\ c.in_seq \in Nat
  BY <1>1, Before, FieldTypes
<1>4. /\ Reads(n, i, "OPEN", "msg") /\ sock' = Popped(n, i) /\ scenario' = scenario
      /\ conns' = conns /\ global_seq' = global_seq /\ submitted' = submitted
  BY DEF RecvMessage, counters
<1>5. k \in Nat
  <2>1. PICK s : s = conn[n][i].sd
    OBVIOUS
  <2>2. Item(n, i) \in Items /\ Item(n, i).kind = "msg"
    BY <1>4, <2>1, Reading
  <2>3. Item(n, i).seq \in Nat
    BY <2>2, ItemKinds
  <2> QED
    BY <1>1, <1>3, <2>3
<1>6. conn' = Updated(conn, n, i, d)
  <2>1. CASE Item(n, i).seq <= c.in_seq
    <3>1. d = c /\ conn' = conn
      BY <1>1, <1>2, <1>3, <2>1 DEF WithInSeq, ConnTypes, RecvMessage
    <3>2. conn = [m \in Node |-> conn[m]] /\ conn[n] \in [Slots -> ConnTypes(MaxMsgs[n])]
      BY DEF Core, ConnsTyped
    <3>3. conn[n] = [conn[n] EXCEPT ![i] = conn[n][i]]
      BY <3>2
    <3>4. conn = [conn EXCEPT ![n] = conn[n]]
      BY <3>2
    <3>5. conn = [conn EXCEPT ![n] = [conn[n] EXCEPT ![i] = d]]
      BY <1>1, <3>1, <3>3, <3>4
    <3> QED
      BY <3>1, <3>5 DEF Updated
  <2>2. CASE ~(Item(n, i).seq <= c.in_seq)
    BY <1>1, <1>2, <2>2 DEF RecvMessage, Updated, WithInSeq
  <2> QED
    BY <2>1, <2>2
<1>7. /\ d \in ConnTypes(MaxMsgs[n]) /\ d.state = c.state /\ d.sd = c.sd
      /\ d.connect_seq = c.connect_seq /\ d.out_seq = c.out_seq /\ d.sent = c.sent
      /\ d.out_q = c.out_q /\ d.replacing = c.replacing
      /\ d.replacing_sd = c.replacing_sd /\ d.replacing_cseq = c.replacing_cseq
      /\ d.reply = c.reply /\ d.flags = c.flags
  BY <1>2, <1>3, <1>5, WithInSeqRecord
<1>8. ConnOK(d)
  BY <1>3, <1>7 DEF ConnOK, Numbered, Local, Flag
<1>9. SameEnd(conn[n][i], d) /\ SameHold(conn[n][i], d)
  BY <1>1, <1>7 DEF SameEnd, SameHold
<1>10. Core'
  BY <1>4, <1>6, <1>7, <1>8, <1>9, OpenReads
<1> QED
  BY <1>4, <1>10, RestUntouched

\* RecvAck.
LEMMA RecvAckStep ==
    ASSUME Core, Rest, NEW n \in Node, NEW i \in Slots, RecvAck(n, i)
    PROVE  Core' /\ Rest'
<1>1. PICK c, d : c = conn[n][i] /\ d = handle_ack(c, Item(n, i).seq)
  OBVIOUS
<1>2. c \in ConnTypes(MaxMsgs[n]) /\ ConnOK(c)
  BY <1>1, Before
<1>3. /\ Reads(n, i, "OPEN", "ack") /\ sock' = Popped(n, i) /\ scenario' = scenario
      /\ conns' = conns /\ global_seq' = global_seq /\ submitted' = submitted
      /\ conn' = Updated(conn, n, i, d)
  BY <1>1 DEF RecvAck, counters, history, Updated
<1>4. d \in ConnTypes(MaxMsgs[n]) /\ ConnOK(d) /\ SameEnd(c, d) /\ SameHold(c, d)
  BY <1>1, <1>2, AckRecord
<1>5. Core'
  BY <1>1, <1>3, <1>4, OpenReads
<1> QED
  BY <1>3, <1>5, RestUntouched

-----------------------------------------------------------------------------
(***************************************************************************)
(* Sockets begin, the application calls, and what ends a socket.           *)
(***************************************************************************)
\* Two updates of a connection are one.
LEMMA UpdateAgain ==
    ASSUME NEW max, NEW K, ConnsTyped(K, max), NEW n \in Node, NEW i \in Slots, NEW d, NEW e
    PROVE  /\ Updated(K, n, i, d)[n][i] = d
           /\ Updated(Updated(K, n, i, d), n, i, e) = Updated(K, n, i, e)
<1>1. K = [m \in Node |-> K[m]] /\ K[n] \in [Slots -> ConnTypes(max[n])]
  BY DEF ConnsTyped
<1>2. PICK f : f = K[n]
  OBVIOUS
<1>3. [f EXCEPT ![i] = d][i] = d /\ [[f EXCEPT ![i] = d] EXCEPT ![i] = e] = [f EXCEPT ![i] = e]
  BY <1>1, <1>2
<1>4. Updated(K, n, i, d) = [K EXCEPT ![n] = [f EXCEPT ![i] = d]]
  BY <1>2 DEF Updated
<1>5. Updated(K, n, i, d)[n] = [f EXCEPT ![i] = d]
  BY <1>1, <1>4
<1>6. Updated(K, n, i, e) = [K EXCEPT ![n] = [f EXCEPT ![i] = e]]
  BY <1>2 DEF Updated
<1>7. Updated(Updated(K, n, i, d), n, i, e)
        = [Updated(K, n, i, d) EXCEPT ![n] = [[f EXCEPT ![i] = d] EXCEPT ![i] = e]]
  BY <1>5 DEF Updated
<1>8. [[K EXCEPT ![n] = [f EXCEPT ![i] = d]] EXCEPT ![n] = [f EXCEPT ![i] = e]]
        = [K EXCEPT ![n] = [f EXCEPT ![i] = e]]
  BY <1>1
<1> QED
  BY <1>3, <1>4, <1>5, <1>6, <1>7, <1>8, Zenon

\* A connection changes in what concerns no socket.
LEMMA QuietStep ==
    ASSUME Core, NEW n \in Node, NEW i \in Slots, NEW d \in ConnTypes(MaxMsgs[n]), ConnOK(d),
           conn' = Updated(conn, n, i, d), sock' = sock, scenario' = scenario,
           SameHold(conn[n][i], d),
           SameEnd(conn[n][i], d) \/ (conn[n][i].sd = None /\ d.sd = None)
    PROVE  Core'
<1>1. /\ ConnsTyped(conn', MaxMsgs') /\ Connections'
      /\ Moves(conn, conn', n, i) /\ conn'[n][i] = d
  BY After
<1>2. AllSocks(conn, sock) /\ sock' \in [Socks -> SockTypes]
  BY DEF Core
<1>3. AllSocks(conn', sock)
  BY <1>1, <1>2, SocketsSame
<1> QED
  BY <1>1, <1>2, <1>3 DEF Core

\* Connection i of n, which has no socket, makes an attempt over the free socket s.
Attempts(K, K1, S, S1, n, i, s) ==
    /\ AllSocks(K, S) /\ Moves(K, K1, n, i) /\ SameHold(K[n][i], K1[n][i])
    /\ K[n][i].sd = None /\ K1[n][i].sd = s
    /\ K1[n][i].state = "CONNECTING_WAIT_BANNER"
    /\ \A m \in Node : S[s].end[m] = "closed"
    /\ \A t \in Socks \ {s} : S1[t] = S[t]
    /\ S1[s].end[n] = "open" /\ S1[s].end[Peer(n)] = "pending"
    /\ Len(S1[s].q[n]) = 0 /\ Len(S1[s].q[Peer(n)]) = 0

\* ... and all sockets are all right afterwards.
LEMMA Attempt ==
    ASSUME NEW K, NEW K1, NEW S, NEW S1, NEW n \in Node, NEW i \in Slots, NEW s \in Socks,
           Attempts(K, K1, S, S1, n, i, s)
    PROVE  AllSocks(K1, S1)
BY SocketsConnect DEF Attempts

\* The socket of a new attempt.
NewSock(n) == [FreeSock EXCEPT !.live = "yes",
                               !.end = [m \in Node |-> IF m = n THEN "open" ELSE "pending"]]

\* It is open at one end and not accepted at the other.
LEMMA NewSockTyped ==
    ASSUME NEW n \in Node, NEW x, x = NewSock(n)
    PROVE  /\ x \in SockTypes /\ x.end[n] = "open" /\ x.end[Peer(n)] = "pending"
           /\ Len(x.q[n]) = 0 /\ Len(x.q[Peer(n)]) = 0
<1>1. PICK f : f = [m \in Node |-> IF m = n THEN "open" ELSE "pending"]
  BY Zenon
<1>2. /\ f \in [Node -> {"pending", "open", "closed"}]
      /\ f[n] = "open" /\ f[Peer(n)] = "pending"
  BY <1>1, Peers
<1>3. x = [FreeSock EXCEPT !.live = "yes", !.end = f]
  BY <1>1, Zenon DEF NewSock
<1>4. FreeSock \in SockTypes /\ \A m \in Node : Len(FreeSock.q[m]) = 0
  BY FreeSockTyped
<1>5. x \in SockTypes /\ x.end = f /\ x.q = FreeSock.q
  BY <1>2, <1>3, <1>4 DEF SockTypes
<1> QED
  BY <1>2, <1>4, <1>5, Peers

\* Connect.
LEMMA ConnectStep ==
    ASSUME Core, Rest, NEW n \in Node, NEW i \in Slots, Connect(n, i)
    PROVE  Core' /\ Rest'
<1>1. PICK c, g : c = conn[n][i] /\ g = global_seq[n] + 1
  OBVIOUS
<1>2. PICK T, s : T = {t \in Socks : IsFree(t)} /\ s = Min(T)
  OBVIOUS
<1>3. PICK d : d = WithSocket(c, s, g)
  OBVIOUS
<1>4. PICK x : x = NewSock(n)
  OBVIOUS
<1>5. s \in Socks /\ IsFree(s)
  <2>1. T # {} /\ T \subseteq Socks /\ Socks \subseteq Nat
    BY <1>2, ConstantsAssumption, Zenon DEF Connect
  <2>2. s \in T
    BY <1>2, <2>1, MinElement
  <2> QED
    BY <1>2, <2>2
<1>6. c \in ConnTypes(MaxMsgs[n]) /\ ConnOK(c) /\ c.state = "CONNECTING" /\ c.sd = None
  <2>1. c \in ConnTypes(MaxMsgs[n]) /\ ConnOK(c) /\ c.state = "CONNECTING"
    <3>1. conn[n][i].state = "CONNECTING"
      BY Zenon DEF Connect
    <3> QED
      BY <1>1, <3>1, Before
  <2> QED
    BY <2>1 DEF ConnOK, Local, Linked
<1>7. /\ global_seq' = [global_seq EXCEPT ![n] = @ + 1] /\ scenario' = scenario
      /\ sock' = [sock EXCEPT ![s] = x] /\ conns' = conns /\ submitted' = submitted
  BY <1>2, <1>4, Zenon DEF Connect, counters, history, NewSock
<1>8. ConnsTyped(conn, MaxMsgs) /\ sock \in [Socks -> SockTypes] /\ AllSocks(conn, sock)
  BY DEF Core
<1>9. conn' = Updated(conn, n, i, d)
  <2>1. PICK c1, c2 : /\ c1 = [c EXCEPT !.state = "CONNECTING_WAIT_BANNER"]
                      /\ c2 = [c1 EXCEPT !.sd = s]
    OBVIOUS
  <2>2. PICK K1, K2 : K1 = Updated(conn, n, i, c1) /\ K2 = Updated(K1, n, i, c2)
    OBVIOUS
  <2>3. K1 = [conn EXCEPT ![n][i].state = "CONNECTING_WAIT_BANNER"]
    BY <1>1, <2>1, <2>2 DEF Updated
  <2>4. K1[n][i] = c1 /\ K2 = Updated(conn, n, i, c2) /\ K2[n][i] = c2
    BY <1>8, <2>2, UpdateAgain
  <2>5. K2 = [K1 EXCEPT ![n][i].sd = s]
    BY <2>1, <2>2, <2>4 DEF Updated
  <2>6. conn' = [K2 EXCEPT ![n][i].global_seq = g]
    BY <1>1, <1>2, <2>3, <2>5, Zenon DEF Connect
  <2>7. conn' = Updated(K2, n, i, [c2 EXCEPT !.global_seq = g])
    BY <2>4, <2>6 DEF Updated
  <2>8. [c2 EXCEPT !.global_seq = g] = d
    BY <1>3, <2>1 DEF WithSocket
  <2>9. conn' = Updated(Updated(conn, n, i, c2), n, i, d)
    BY <2>4, <2>7, <2>8, Zenon
  <2> QED
    BY <1>8, <2>9, UpdateAgain
<1>10. g \in Nat /\ s \in Handles
  BY <1>1, <1>5 DEF Rest, Handles
<1>11. /\ d \in ConnTypes(MaxMsgs[n]) /\ d.state = "CONNECTING_WAIT_BANNER" /\ d.sd = s
       /\ d.out_seq = c.out_seq /\ d.sent = c.sent
       /\ d.out_q = c.out_q /\ d.replacing = c.replacing
       /\ d.replacing_sd = c.replacing_sd /\ d.replacing_cseq = c.replacing_cseq
  BY <1>3, <1>6, <1>10, WithSocketRecord
<1>12. ConnOK(d)
  <2>1. Numbered(d)
    BY <1>6, <1>11 DEF ConnOK, Numbered
  <2>2. Local(d)
    BY <1>5, <1>6, <1>11, SocketsPositive DEF ConnOK, Local, Linked
  <2> QED
    BY <2>1, <2>2 DEF ConnOK
<1>13. /\ ConnsTyped(conn', MaxMsgs') /\ Connections'
       /\ Moves(conn, conn', n, i) /\ conn'[n][i] = d
  BY <1>7, <1>9, <1>11, <1>12, After
<1>14. /\ x \in SockTypes /\ x.end[n] = "open" /\ x.end[Peer(n)] = "pending"
       /\ Len(x.q[n]) = 0 /\ Len(x.q[Peer(n)]) = 0
  BY <1>4, NewSockTyped
<1>15. /\ sock' \in [Socks -> SockTypes] /\ sock'[s] = x
       /\ \A t \in Socks \ {s} : sock'[t] = sock[t]
  BY <1>5, <1>7, <1>8, <1>14
<1>16. Attempts(conn, conn', sock, sock', n, i, s)
  <2>1. \A m \in Node : sock[s].end[m] = "closed"
    BY <1>5 DEF IsFree
  <2>2. SameHold(conn[n][i], conn'[n][i]) /\ conn[n][i].sd = None /\ conn'[n][i].sd = s
        /\ conn'[n][i].state = "CONNECTING_WAIT_BANNER"
    BY <1>1, <1>6, <1>11, <1>13 DEF SameHold
  <2> QED
    BY <1>8, <1>13, <1>14, <1>15, <2>1, <2>2 DEF Attempts
<1>17. AllSocks(conn', sock')
  BY <1>5, <1>16, Attempt
<1>18. Core'
  BY <1>13, <1>15, <1>17 DEF Core
<1>19. global_seq' \in [Node -> Nat] /\ conns' \in [Node -> Slots \cup {None}]
  BY <1>7 DEF Rest
<1> QED
  BY <1>7, <1>18, <1>19, RestStays

\* A slot for a new connection has no socket.
LEMMA FreeSlot ==
    ASSUME Core, NEW n \in Node, FreeSlots(n) # {}, NEW i, i = Min(FreeSlots(n))
    PROVE  i \in Slots /\ conn[n][i].sd = None
<1>1. FreeSlots(n) \subseteq Slots /\ Slots \subseteq Nat
  BY ConstantsAssumption DEF FreeSlots
<1>2. i \in FreeSlots(n)
  BY <1>1, MinElement
<1>3. i \in Slots /\ conn[n][i].state \in {"CLOSED", "STANDBY"}
  BY <1>2 DEF FreeSlots
<1>4. ConnOK(conn[n][i])
  BY <1>3, Before
<1> QED
  BY <1>3, <1>4 DEF ConnOK, Local, Linked

\* add_accept.
LEMMA AddAcceptStep ==
    ASSUME Core, Rest, NEW n \in Node, NEW s \in Socks, add_accept(n, s)
    PROVE  Core' /\ Rest'
<1>1. PICK i, d : /\ i = Min(FreeSlots(n))
                  /\ d = [FreeConn EXCEPT !.state = "ACCEPTING_WAIT_CONNECT_MSG", !.sd = s]
  OBVIOUS
<1>2. PICK b, S : b = [kind |-> "banner"] /\ S = [sock EXCEPT ![s].end[n] = "open"]
  OBVIOUS
<1>3. /\ conn' = Updated(conn, n, i, d) /\ sock' = Put(S, s, Peer(n), b)
      /\ scenario' = scenario
      /\ conns' = conns /\ global_seq' = global_seq /\ submitted' = submitted
      /\ sock[s].end[n] = "pending" /\ FreeSlots(n) # {}
  BY <1>1, <1>2 DEF add_accept, Updated, counters, history
<1>4. i \in Slots /\ conn[n][i].sd = None
  BY <1>1, <1>3, FreeSlot
<1>5. /\ d \in ConnTypes(MaxMsgs[n]) /\ ConnOK(d) /\ d.sd = s /\ d.replacing_sd = None
      /\ d.state = "ACCEPTING_WAIT_CONNECT_MSG"
  <2>1. /\ FreeConn \in ConnTypes(MaxMsgs[n]) /\ FreeConn.replacing_sd = None
        /\ FreeConn.replacing = 0 /\ FreeConn.sent = <<>> /\ FreeConn.out_q = <<>>
        /\ Numbered(FreeConn)
    BY FreeRecord DEF ConnOK
  <2>2. PICK c : c = FreeConn
    OBVIOUS
  <2>3. d = [c EXCEPT !.state = "ACCEPTING_WAIT_CONNECT_MSG", !.sd = s]
    BY <1>1, <2>2
  <2>4. s \in Handles /\ "ACCEPTING_WAIT_CONNECT_MSG" \in States
    BY FieldValues DEF Handles
  <2>5. /\ d.sd = s /\ d.state = "ACCEPTING_WAIT_CONNECT_MSG"
        /\ d.replacing_sd = None /\ d.replacing = 0 /\ d.sent = <<>>
        /\ d.out_seq = c.out_seq /\ d.sent = c.sent /\ d.out_q = c.out_q
    BY <2>1, <2>2, <2>3 DEF ConnTypes
  <2>6. d \in ConnTypes(MaxMsgs[n])
    <3>1. [c EXCEPT !.state = "ACCEPTING_WAIT_CONNECT_MSG"] \in ConnTypes(MaxMsgs[n])
      BY <2>1, <2>2, <2>4, OneField
    <3> QED
      BY <2>3, <2>4, <3>1, OneField
  <2>7. Numbered(d)
    BY <2>1, <2>2, <2>5 DEF Numbered
  <2>8. Local(d)
    BY <2>5, SocketsPositive DEF Local, Linked
  <2> QED
    BY <2>5, <2>6, <2>7, <2>8 DEF ConnOK
<1>6. /\ ConnsTyped(conn', MaxMsgs') /\ Connections'
      /\ Moves(conn, conn', n, i) /\ conn'[n][i] = d
  BY <1>3, <1>4, <1>5, After
<1>7. sock \in [Socks -> SockTypes] /\ AllSocks(conn, sock)
  BY DEF Core
<1>8. /\ S \in [Socks -> SockTypes] /\ S[s].end[n] = "open"
      /\ S[s].end[Peer(n)] = sock[s].end[Peer(n)]
      /\ S[s].q = sock[s].q /\ \A t \in Socks \ {s} : S[t] = sock[t]
  <2>1. PICK y, f : y = sock[s] /\ f = [y.end EXCEPT ![n] = "open"]
    OBVIOUS
  <2>2. PICK z : z = [y EXCEPT !.end = f]
    OBVIOUS
  <2>3. S = [sock EXCEPT ![s] = z]
    BY <1>2, <2>1, <2>2
  <2>4. y \in SockTypes /\ y.end \in [Node -> {"pending", "open", "closed"}]
    BY <1>7, <2>1 DEF SockTypes
  <2>5. /\ f \in [Node -> {"pending", "open", "closed"}] /\ f[n] = "open"
        /\ f[Peer(n)] = y.end[Peer(n)]
    BY <2>1, <2>4, Peers
  <2>6. z \in SockTypes /\ z.end = f /\ z.q = y.q
    BY <2>2, <2>4, <2>5 DEF SockTypes
  <2>7. /\ S \in [Socks -> SockTypes] /\ S[s] = z
        /\ \A t \in Socks \ {s} : S[t] = sock[t]
    BY <1>7, <2>3, <2>6
  <2> QED
    BY <2>1, <2>5, <2>6, <2>7
<1>9. b \in Items /\ b.kind = "banner"
  BY <1>2 DEF Items
<1>10. /\ sock' \in [Socks -> SockTypes]
       /\ \A t \in Socks \ {s} : sock'[t] = S[t]
       /\ sock'[s].end = S[s].end /\ sock'[s].q[n] = S[s].q[n]
       /\ \/ sock'[s].q[Peer(n)] = S[s].q[Peer(n)]
          \/ sock'[s].q[Peer(n)] = Append(S[s].q[Peer(n)], b)
  <2>1. Peer(n) \in Node /\ Peer(Peer(n)) = n
    BY Peers
  <2>2. /\ sock' \in [Socks -> SockTypes]
        /\ \A t \in Socks \ {s} : sock'[t] = S[t]
        /\ sock'[s].end = S[s].end /\ sock'[s].q[Peer(Peer(n))] = S[s].q[Peer(Peer(n))]
        /\ \/ sock'[s].q[Peer(n)] = S[s].q[Peer(n)]
           \/ /\ sock'[s].q[Peer(n)] = Append(S[s].q[Peer(n)], b)
              /\ S[s].end[Peer(n)] = "open"
    <3>1. PICK p, S1 : p = Peer(n) /\ S1 = sock'
      OBVIOUS
    <3>2. /\ S \in [Socks -> SockTypes] /\ p \in Node /\ b \in Items
          /\ S1 = Put(S, s, p, b)
      BY <1>3, <1>8, <1>9, <2>1, <3>1
    <3>3. /\ S1 \in [Socks -> SockTypes]
          /\ \A t \in Socks \ {s} : S1[t] = S[t]
          /\ S1[s].end = S[s].end /\ S1[s].q[Peer(p)] = S[s].q[Peer(p)]
          /\ \/ S1[s].q[p] = S[s].q[p]
             \/ S1[s].q[p] = Append(S[s].q[p], b) /\ S[s].end[p] = "open"
      BY <3>2, PutSock
    <3> QED
      BY <3>1, <3>3, Zenon
  <2> QED
    BY <2>1, <2>2, Zenon
<1>11. Accepts(conn, conn', sock, sock', n, i, s, b)
  <2>1. sock[s].q[Peer(n)] \in Seq(Items)
    BY <1>7, Peers DEF SockTypes
  <2>2. /\ \A t \in Socks \ {s} : sock'[t] = sock[t]
        /\ sock'[s].end[n] = "open" /\ sock'[s].end[Peer(n)] = sock[s].end[Peer(n)]
        /\ sock'[s].q[n] = sock[s].q[n]
    BY <1>8, <1>10
  <2>3. \/ sock'[s].q[Peer(n)] = sock[s].q[Peer(n)]
        \/ sock'[s].q[Peer(n)] = Append(sock[s].q[Peer(n)], b)
    BY <1>8, <1>10, Zenon
  <2>4. /\ conn[n][i].sd = None /\ conn'[n][i].sd = s /\ conn'[n][i].replacing_sd = None
        /\ conn'[n][i].state = "ACCEPTING_WAIT_CONNECT_MSG"
    BY <1>4, <1>5, <1>6
  <2> QED
    BY <1>3, <1>6, <1>7, <1>9, <2>1, <2>2, <2>3, <2>4, Zenon DEF Accepts
<1>12. AllSocks(conn', sock')
  BY <1>4, <1>11, SocketsAccept
<1>13. Core'
  BY <1>6, <1>10, <1>12 DEF Core
<1> QED
  BY <1>3, <1>13, RestUntouched

\* Nothing happens to connections and sockets.
LEMMA CoreUntouched ==
    ASSUME Core, conn' = conn, sock' = sock, scenario' = scenario
    PROVE  Core'
BY DEF Core, Connections, MaxMsgs

\* The message that the application submits next.
LEMMA NextMessage ==
    ASSUME Rest, NEW n \in Node, submitted[n] < MaxMsgs[n], NEW m,
           m = Message(submitted[n] + 1)
    PROVE  m \in MsgTypes(MaxMsgs[n]) /\ m.seq = 0
<1>1. submitted[n] \in Nat /\ MaxMsgs[n] \in Nat
  BY MaxMsgsTyped DEF Rest
<1>2. submitted[n] + 1 \in 1 .. MaxMsgs[n]
  BY <1>1
<1> QED
  BY <1>2 DEF Message, MsgTypes

\* send_message with an open connection that has nothing queued.
LEMMA SendDirectStep ==
    ASSUME Core, Rest, NEW n \in Node, NEW i \in Slots, NEW m \in MsgTypes(MaxMsgs[n]),
           m.seq = 0, conn[n][i].state = "OPEN", conn[n][i].out_q = <<>>,
           conn' = [conn EXCEPT ![n][i] = _send(conn[n][i], m)], scenario' = scenario,
           sock' = Put(sock, conn[n][i].sd, Peer(n), MsgItem(conn[n][i], m))
    PROVE  Core'
<1>1. PICK c, d : c = conn[n][i] /\ d = _send(c, m)
  OBVIOUS
<1>2. PICK Q : Q = Append(c.out_q, m)
  OBVIOUS
<1>3. PICK item : item = MsgItem(c, m)
  OBVIOUS
<1>4. /\ c \in ConnTypes(MaxMsgs[n]) /\ ConnOK(c) /\ c.state = "OPEN" /\ c.out_q = <<>>
      /\ Numbers(c.out_seq, c.sent, c.out_q)
  BY <1>1, Before DEF ConnOK, Numbered
<1>5. Q \in Seq(MsgTypes(MaxMsgs[n])) /\ Numbers(c.out_seq, c.sent, Q)
  <2>1. /\ c.out_seq \in Nat /\ c.sent \in Seq(MsgTypes(MaxMsgs[n]))
        /\ c.out_q \in Seq(MsgTypes(MaxMsgs[n])) /\ Numbers(c.out_seq, c.sent, c.out_q)
    BY <1>4, FieldTypes
  <2>2. \A R : R = Append(c.out_q, m) =>
            R \in Seq(MsgTypes(MaxMsgs[n])) /\ Numbers(c.out_seq, c.sent, R)
    BY <2>1, QueueNumbers, Zenon
  <2> QED
    BY <1>2, <2>2
<1>6. Q # <<>> /\ Head(Q) = m /\ Tail(Q) = <<>>
  <2>1. Q = <<m>>
    BY <1>2, <1>4
  <2> QED
    BY <2>1
<1>7. [_send(c, Head(Q)) EXCEPT !.out_q = Tail(Q)] = d
  <2>1. d \in [DOMAIN c -> UNION {{d[f]} : f \in DOMAIN c}] /\ d.out_q = <<>>
        /\ "out_q" \in DOMAIN c
    BY <1>1, <1>4 DEF _send, ConnTypes
  <2>2. [d EXCEPT !.out_q = <<>>] = d
    BY <2>1
  <2> QED
    BY <1>1, <1>6, <2>2, Zenon
<1>8. d \in ConnTypes(MaxMsgs[n]) /\ ConnOK(d) /\ SameEnd(c, d) /\ SameHold(c, d)
  BY <1>4, <1>5, <1>6, <1>7, SendRecord
<1>9. item \in Items /\ item.kind # "reply"
  BY <1>3, <1>4, MaxMsgsTyped, MsgItemTyped
<1>10. /\ conn' = Updated(conn, n, i, d)
       /\ sock' = Put(sock, conn[n][i].sd, Peer(n), item)
  BY <1>1, <1>3 DEF Updated
<1> QED
  BY <1>1, <1>4, <1>8, <1>9, <1>10, OpenWrites

\* send_message when the message has to wait.
LEMMA SendQueueStep ==
    ASSUME Core, Rest, NEW n \in Node, NEW i \in Slots, NEW m \in MsgTypes(MaxMsgs[n]),
           m.seq = 0, scenario' = scenario, sock' = sock, NEW st,
           st = IF conn[n][i].state = "STANDBY" /\ ~Policy[n].server
                THEN "CONNECTING" ELSE conn[n][i].state,
           conn' = Updated(conn, n, i, WithQueue(conn[n][i], Append(conn[n][i].out_q, m), st))
    PROVE  Core'
<1>1. PICK c, Q : c = conn[n][i] /\ Q = Append(c.out_q, m)
  OBVIOUS
<1>2. PICK d : d = WithQueue(c, Q, st)
  OBVIOUS
<1>3. /\ c \in ConnTypes(MaxMsgs[n]) /\ ConnOK(c) /\ Numbers(c.out_seq, c.sent, c.out_q)
  BY <1>1, Before DEF ConnOK, Numbered
<1>4. Q \in Seq(MsgTypes(MaxMsgs[n])) /\ Numbers(c.out_seq, c.sent, Q)
  <2>1. /\ c.out_seq \in Nat /\ c.sent \in Seq(MsgTypes(MaxMsgs[n]))
        /\ c.out_q \in Seq(MsgTypes(MaxMsgs[n])) /\ Numbers(c.out_seq, c.sent, c.out_q)
    BY <1>3, FieldTypes
  <2>2. \A R : R = Append(c.out_q, m) =>
            R \in Seq(MsgTypes(MaxMsgs[n])) /\ Numbers(c.out_seq, c.sent, R)
    BY <2>1, QueueNumbers, Zenon
  <2> QED
    BY <1>1, <2>2
<1>5. st \in States
  BY <1>1, <1>3, FieldTypes, FieldValues
<1>6. /\ d \in ConnTypes(MaxMsgs[n]) /\ d.out_q = Q /\ d.state = st /\ d.sd = c.sd
      /\ d.connect_seq = c.connect_seq /\ d.out_seq = c.out_seq /\ d.sent = c.sent
      /\ d.replacing = c.replacing /\ d.replacing_sd = c.replacing_sd
      /\ d.replacing_cseq = c.replacing_cseq /\ d.reply = c.reply /\ d.flags = c.flags
  BY <1>2, <1>3, <1>4, <1>5, WithQueueRecord
<1>7. conn' = Updated(conn, n, i, d)
  BY <1>1, <1>2
<1>8. CASE st = c.state
  <2>1. ConnOK(d)
    BY <1>3, <1>4, <1>6, <1>8 DEF ConnOK, Numbered, Local, Flag
  <2>2. SameEnd(conn[n][i], d) /\ SameHold(conn[n][i], d)
    BY <1>1, <1>6, <1>8 DEF SameEnd, SameHold
  <2> QED
    BY <1>6, <1>7, <2>1, <2>2, QuietStep
<1>9. CASE st = "CONNECTING" /\ c.state = "STANDBY"
  <2>1. c.sent = <<>> /\ c.sd = None
    BY <1>3, <1>9 DEF ConnOK, Numbered, Local, Linked
  <2>2. Numbered(d)
    BY <1>4, <1>6, <2>1 DEF Numbered
  <2>3. Local(d)
    BY <1>3, <1>6, <1>9, <2>1 DEF ConnOK, Local, Linked
  <2>4. ConnOK(d) /\ SameHold(conn[n][i], d) /\ conn[n][i].sd = None /\ d.sd = None
    BY <1>1, <1>6, <2>1, <2>2, <2>3 DEF ConnOK, SameHold
  <2> QED
    BY <1>6, <1>7, <2>4, QuietStep
<1> QED
  BY <1>1, <1>8, <1>9

\* A new connection with its first message.
NewConn(m, F) ==
    [FreeConn EXCEPT !.state = "CONNECTING", !.out_q = <<m>>, !.flags = F]

\* Its message has no number yet.
LEMMA NewRecord ==
    ASSUME NEW max, NEW m \in MsgTypes(max), m.seq = 0, NEW F \in SUBSET Flags,
           NEW d, d = NewConn(m, F)
    PROVE  /\ d \in ConnTypes(max) /\ ConnOK(d)
           /\ d.sd = None /\ d.replacing_sd = None
<1>1. PICK c, Q : c = FreeConn /\ Q = <<m>>
  OBVIOUS
<1>2. /\ c \in ConnTypes(max) /\ c.sd = None /\ c.replacing_sd = None /\ c.replacing = 0
      /\ c.sent = <<>> /\ c.out_q = <<>> /\ c.out_seq = 0 /\ ConnOK(c)
  BY <1>1, FreeRecord
<1>3. Q \in Seq(MsgTypes(max)) /\ Numbers(c.out_seq, c.sent, Q)
  <2>1. Q = Append(c.out_q, m) /\ Numbers(c.out_seq, c.sent, c.out_q)
    BY <1>1, <1>2 DEF ConnOK, Numbered
  <2>2. c.out_seq \in Nat /\ c.sent \in Seq(MsgTypes(max)) /\ c.out_q \in Seq(MsgTypes(max))
    BY <1>2, FieldTypes
  <2> QED
    BY <2>1, <2>2, QueueNumbers
<1>4. PICK x : x = WithQueue(c, Q, "CONNECTING")
  OBVIOUS
<1>5. d = WithFlags(x, F)
  <2>1. d = [[[c EXCEPT !.state = "CONNECTING"] EXCEPT !.out_q = Q] EXCEPT !.flags = F]
    BY <1>1 DEF NewConn
  <2>2. [[c EXCEPT !.state = "CONNECTING"] EXCEPT !.out_q = Q] = x
    BY <1>2, <1>4 DEF WithQueue, ConnTypes
  <2> QED
    BY <2>1, <2>2, Zenon DEF WithFlags
<1>6. /\ x \in ConnTypes(max) /\ x.out_q = Q /\ x.state = "CONNECTING" /\ x.sd = c.sd
      /\ x.out_seq = c.out_seq /\ x.sent = c.sent
      /\ x.replacing = c.replacing /\ x.replacing_sd = c.replacing_sd
  BY <1>2, <1>3, <1>4, FieldValues, WithQueueRecord
<1>7. /\ d \in ConnTypes(max) /\ d.state = x.state /\ d.sd = x.sd
      /\ d.out_seq = x.out_seq /\ d.sent = x.sent
      /\ d.out_q = x.out_q /\ d.replacing = x.replacing
      /\ d.replacing_sd = x.replacing_sd
  BY <1>5, <1>6, WithFlagsRecord
<1>8. Numbered(d)
  BY <1>2, <1>3, <1>6, <1>7 DEF Numbered
<1>9. Local(d)
  BY <1>2, <1>6, <1>7 DEF Local, Linked
<1> QED
  BY <1>2, <1>6, <1>7, <1>8, <1>9 DEF ConnOK

\* send_message with a new connection.
LEMMA SendNewStep ==
    ASSUME Core, NEW n \in Node, NEW m \in MsgTypes(MaxMsgs[n]), m.seq = 0,
           send_new(n, m), scenario' = scenario,
           conns \in [Node -> Slots \cup {None}]
    PROVE  Core' /\ conns' \in [Node -> Slots \cup {None}]
<1>1. PICK i, d : i = Min(FreeSlots(n)) /\ d = NewConn(m, PolicyFlags(n))
  OBVIOUS
<1>2. /\ FreeSlots(n) # {} /\ conn' = Updated(conn, n, i, d)
      /\ conns' = [conns EXCEPT ![n] = i] /\ sock' = sock
  BY <1>1 DEF send_new, Updated, NewConn
<1>3. i \in Slots
  BY <1>1, <1>2, FreeSlot
<1>4. /\ d \in ConnTypes(MaxMsgs[n]) /\ ConnOK(d) /\ d.sd = None /\ d.replacing_sd = None
  BY <1>1, PolicyFlagsTyped, NewRecord
<1>5. /\ ConnsTyped(conn', MaxMsgs') /\ Connections'
      /\ Moves(conn, conn', n, i) /\ conn'[n][i] = d
  BY <1>2, <1>3, <1>4, After
<1>6. AllSocks(conn, sock) /\ sock' \in [Socks -> SockTypes]
  BY <1>2 DEF Core
<1>7. AllSocks(conn', sock)
  BY <1>3, <1>4, <1>5, <1>6, SocketsLeft
<1> QED
  BY <1>2, <1>3, <1>5, <1>6, <1>7 DEF Core

\* send_message.
LEMMA SendStep ==
    ASSUME Core, Rest, NEW n \in Node, send_message(n)
    PROVE  Core' /\ Rest'
<1>1. PICK m, i : m = Message(submitted[n] + 1) /\ i = conns[n]
  OBVIOUS
<1>2. /\ submitted[n] < MaxMsgs[n] /\ submitted' = [submitted EXCEPT ![n] = @ + 1]
      /\ send_existing(n, m) \/ send_new(n, m)
      /\ global_seq' = global_seq /\ scenario' = scenario
  BY <1>1 DEF send_message, counters
<1>3. m \in MsgTypes(MaxMsgs[n]) /\ m.seq = 0
  BY <1>1, <1>2, NextMessage
<1>4. conns \in [Node -> Slots \cup {None}]
  BY DEF Rest
<1>5. Core' /\ conns' \in [Node -> Slots \cup {None}]
  <2>1. CASE send_existing(n, m)
    <3>1. i \in Slots /\ conns' = conns
      BY <1>1, <1>4, <2>1 DEF send_existing
    <3>2. \/ conn' = conn /\ sock' = sock
          \/ /\ conn[n][i].state = "OPEN" /\ conn[n][i].out_q = <<>>
             /\ conn' = [conn EXCEPT ![n][i] = _send(conn[n][i], m)]
             /\ sock' = Put(sock, conn[n][i].sd, Peer(n), MsgItem(conn[n][i], m))
          \/ /\ conn' = [conn EXCEPT
                     ![n][i].out_q = Append(@, m),
                     ![n][i].state = IF @ = "STANDBY" /\ ~Policy[n].server
                                     THEN "CONNECTING" ELSE @]
             /\ sock' = sock
      BY <1>1, <2>1, Zenon DEF send_existing
    <3>3. CASE conn' = conn /\ sock' = sock
      BY <1>2, <1>4, <3>1, <3>3, CoreUntouched
    <3>4. CASE /\ conn[n][i].state = "OPEN" /\ conn[n][i].out_q = <<>>
               /\ conn' = [conn EXCEPT ![n][i] = _send(conn[n][i], m)]
               /\ sock' = Put(sock, conn[n][i].sd, Peer(n), MsgItem(conn[n][i], m))
      <4>1. Core'
        BY <1>2, <1>3, <3>1, <3>4, SendDirectStep
      <4> QED
        BY <1>4, <3>1, <4>1
    <3>5. CASE /\ conn' = [conn EXCEPT
                     ![n][i].out_q = Append(@, m),
                     ![n][i].state = IF @ = "STANDBY" /\ ~Policy[n].server
                                     THEN "CONNECTING" ELSE @]
               /\ sock' = sock
      <4>1. PICK c, st : /\ c = conn[n][i]
                         /\ st = IF c.state = "STANDBY" /\ ~Policy[n].server
                                 THEN "CONNECTING" ELSE c.state
        OBVIOUS
      <4>2. PICK x, K : x = [c EXCEPT !.out_q = Append(@, m)] /\ K = Updated(conn, n, i, x)
        OBVIOUS
      <4>3. ConnsTyped(conn, MaxMsgs) /\ c \in ConnTypes(MaxMsgs[n])
        BY <3>1, <4>1, Before DEF Core
      <4>4. K = [conn EXCEPT ![n][i].out_q = Append(@, m)]
        BY <4>1, <4>2 DEF Updated
      <4>5. K[n][i] = x
        BY <3>1, <4>2, <4>3, UpdateAgain
      <4>6. x.state = c.state
        BY <4>2, <4>3 DEF ConnTypes
      <4>7. conn' = [K EXCEPT ![n][i].state = IF @ = "STANDBY" /\ ~Policy[n].server
                                              THEN "CONNECTING" ELSE @]
        BY <3>5, <4>4, Zenon
      <4>8. conn' = Updated(K, n, i, [x EXCEPT !.state = st])
        BY <4>1, <4>5, <4>6, <4>7 DEF Updated
      <4>9. [x EXCEPT !.state = st] = WithQueue(c, Append(c.out_q, m), st)
        BY <4>2 DEF WithQueue
      <4>10. conn' = Updated(conn, n, i, WithQueue(c, Append(c.out_q, m), st))
        BY <3>1, <4>2, <4>3, <4>8, <4>9, UpdateAgain
      <4>11. Core'
        <5>1. sock' = sock /\ scenario' = scenario
          BY <1>2, <3>5
        <5>2. /\ conn' = Updated(conn, n, i,
                         WithQueue(conn[n][i], Append(conn[n][i].out_q, m), st))
              /\ st = IF conn[n][i].state = "STANDBY" /\ ~Policy[n].server
                      THEN "CONNECTING" ELSE conn[n][i].state
          BY <4>1, <4>10
        <5> QED
          BY <1>3, <3>1, <5>1, <5>2, SendQueueStep
      <4> QED
        BY <1>4, <3>1, <4>11
    <3> QED
      BY <3>2, <3>3, <3>4, <3>5
  <2>2. CASE send_new(n, m)
    BY <1>2, <1>3, <1>4, <2>2, SendNewStep
  <2> QED
    BY <1>2, <2>1, <2>2
<1>6. submitted' \in [Node -> Nat] /\ \A k \in Node : submitted'[k] <= MaxMsgs'[k]
  <2>1. /\ submitted \in [Node -> Nat] /\ \A k \in Node : submitted[k] <= MaxMsgs[k]
        /\ MaxMsgs' = MaxMsgs /\ \A k \in Node : MaxMsgs[k] \in Nat
    BY <1>2, MaxMsgsTyped DEF Rest, MaxMsgs
  <2>2. /\ submitted' \in [Node -> Nat] /\ submitted'[n] = submitted[n] + 1
        /\ \A k \in Node \ {n} : submitted'[k] = submitted[k]
    BY <1>2, <2>1
  <2>3. submitted[n] + 1 <= MaxMsgs[n]
    BY <1>2, <2>1
  <2> QED
    BY <2>1, <2>2, <2>3
<1> QED
  BY <1>2, <1>5, <1>6 DEF Rest

\* mark_down.
LEMMA MarkDownStep ==
    ASSUME Core, Rest, NEW n \in Node, mark_down(n)
    PROVE  Core' /\ Rest'
<1>1. PICK i, c : i = conns[n] /\ c = conn[n][i]
  OBVIOUS
<1>2. PICK F : F = (c.flags \cup {"stopping"}) \ {"queue_reset"}
  OBVIOUS
<1>3. PICK d : d = WithFlags(c, F)
  OBVIOUS
<1>4. /\ conn' = Updated(conn, n, i, d) /\ sock' = sock /\ scenario' = scenario
      /\ conns' = conns /\ global_seq' = global_seq /\ submitted' = submitted
  BY <1>1, <1>2, <1>3 DEF mark_down, Updated, WithFlags, history
<1>5. i \in Slots
  BY <1>1 DEF mark_down, Rest
<1>6. c \in ConnTypes(MaxMsgs[n]) /\ ConnOK(c)
  BY <1>1, <1>5, Before
<1>7. F \in SUBSET Flags /\ ("lossy" \in F <=> "lossy" \in c.flags)
  <2>1. c.flags \in SUBSET Flags
    BY <1>6, FieldTypes
  <2> QED
    BY <1>2, <2>1 DEF Flags
<1>8. /\ d \in ConnTypes(MaxMsgs[n]) /\ d.flags = F /\ d.state = c.state /\ d.sd = c.sd
      /\ d.connect_seq = c.connect_seq /\ d.out_seq = c.out_seq /\ d.sent = c.sent
      /\ d.out_q = c.out_q /\ d.replacing = c.replacing
      /\ d.replacing_sd = c.replacing_sd /\ d.replacing_cseq = c.replacing_cseq
      /\ d.reply = c.reply
  BY <1>3, <1>6, <1>7, WithFlagsRecord
<1>9. ConnOK(d)
  BY <1>6, <1>7, <1>8 DEF ConnOK, Numbered, Local, Flag
<1>10. SameEnd(conn[n][i], d) /\ SameHold(conn[n][i], d)
  BY <1>1, <1>8 DEF SameEnd, SameHold
<1>11. Core'
  BY <1>4, <1>5, <1>8, <1>9, <1>10, QuietStep
<1> QED
  BY <1>4, <1>11, RestUntouched

\* The network breaks a socket.
LEMMA BreakStep ==
    ASSUME Core, Rest, NEW s \in Socks, Break(s)
    PROVE  Core' /\ Rest'
<1>1. PICK x, f : /\ x = sock[s]
                  /\ f = [n \in Node |-> IF x.end[n] = "pending" THEN "closed" ELSE x.end[n]]
  BY Zenon
<1>2. PICK y : y = [x EXCEPT !.live = "no", !.end = f]
  BY Zenon
<1>3. sock \in [Socks -> SockTypes] /\ AllSocks(conn, sock)
  BY DEF Core
<1>4. x \in SockTypes /\ x.end \in [Node -> {"pending", "open", "closed"}]
  BY <1>1, <1>3 DEF SockTypes
<1>5. /\ f \in [Node -> {"pending", "open", "closed"}]
      /\ \A m \in Node : f[m] = IF x.end[m] = "pending" THEN "closed" ELSE x.end[m]
  BY <1>1, <1>4
<1>6. y \in SockTypes /\ y.end = f /\ y.q = x.q
  BY <1>2, <1>4, <1>5 DEF SockTypes
<1>7. sock' = [sock EXCEPT ![s] = y]
  <2>1. PICK z, S : z = [x EXCEPT !.live = "no"] /\ S = [sock EXCEPT ![s] = z]
    OBVIOUS
  <2>2. S = [sock EXCEPT ![s].live = "no"]
    BY <1>1, <2>1
  <2>3. S[s] = z /\ z.end = x.end
    BY <1>3, <1>4, <2>1 DEF SockTypes
  <2>4. sock' = [S EXCEPT ![s].end = [n \in Node |->
                               IF @[n] = "pending" THEN "closed" ELSE @[n]]]
    BY <2>2, Zenon DEF Break
  <2>5. sock' = [S EXCEPT ![s] = [S[s] EXCEPT !.end = [n \in Node |->
                    IF S[s].end[n] = "pending" THEN "closed" ELSE S[s].end[n]]]]
    BY <2>4, Zenon
  <2>6. sock' = [S EXCEPT ![s] = [z EXCEPT !.end = f]]
    BY <1>1, <2>3, <2>5, Zenon
  <2>7. [z EXCEPT !.end = f] = y
    BY <1>2, <2>1, Zenon
  <2>8. [S EXCEPT ![s] = y] = [sock EXCEPT ![s] = y]
    BY <1>3, <2>1
  <2> QED
    BY <2>6, <2>7, <2>8, Zenon
<1>8. /\ sock' \in [Socks -> SockTypes] /\ sock'[s] = y
      /\ \A t \in Socks \ {s} : sock'[t] = sock[t]
  BY <1>3, <1>6, <1>7
<1>9. /\ conn' = conn /\ scenario' = scenario /\ conns' = conns
      /\ global_seq' = global_seq /\ submitted' = submitted
  BY Zenon DEF Break, history
<1>10. SockOK(conn, y, s)
  <2>1. SockOK(conn, x, s)
    BY <1>1, <1>3 DEF AllSocks
  <2> QED
    BY <1>5, <1>6, <2>1, BreakSocket
<1>11. AllSocks(conn, sock')
  BY <1>3, <1>8, <1>10 DEF AllSocks
<1>12. Core'
  <2>1. ConnsTyped(conn, MaxMsgs) /\ Connections
    BY DEF Core
  <2>2. MaxMsgs' = MaxMsgs /\ Connections'
    BY <1>9, <2>1 DEF MaxMsgs, Connections
  <2> QED
    BY <1>8, <1>9, <1>11, <2>1, <2>2 DEF Core
<1> QED
  BY <1>9, <1>12, RestUntouched

\* The process of a node ends and starts again.
LEMMA RestartStep ==
    ASSUME Core, Rest, NEW n \in Node, Restart(n)
    PROVE  Core' /\ Rest'
<1>1. PICK f : f = [i \in Slots |-> FreeConn]
  BY Zenon
<1>2. /\ conn' = [conn EXCEPT ![n] = f] /\ conns' = [conns EXCEPT ![n] = None]
      /\ sock' = [s \in Socks |-> Close(sock, s, n)[s]]
      /\ global_seq' = [global_seq EXCEPT ![n] = 0]
      /\ submitted' = submitted /\ scenario' = scenario
  BY <1>1, Zenon DEF Restart
<1>3. /\ ConnsTyped(conn, MaxMsgs) /\ Connections /\ sock \in [Socks -> SockTypes]
      /\ AllSocks(conn, sock) /\ MaxMsgs' = MaxMsgs
  BY <1>2 DEF Core, MaxMsgs
<1>4. /\ FreeConn \in ConnTypes(MaxMsgs[n]) /\ ConnOK(FreeConn)
      /\ FreeConn.sd = None /\ FreeConn.replacing_sd = None
  BY FreeRecord
<1>5. /\ conn' = [m \in Node |-> conn'[m]] /\ conn'[n] = f
      /\ \A m \in Node \ {n} : conn'[m] = conn[m]
  BY <1>2, <1>3 DEF ConnsTyped
<1>6. f \in [Slots -> ConnTypes(MaxMsgs[n])] /\ \A j \in Slots : f[j] = FreeConn
  BY <1>1, <1>4
<1>7. ConnsTyped(conn', MaxMsgs)
  BY <1>3, <1>5, <1>6 DEF ConnsTyped
<1>8. Connections'
  <2>1. \A m \in Node, j \in Slots : ConnOK(conn'[m][j])
    BY <1>3, <1>4, <1>5, <1>6 DEF Connections
  <2> QED
    BY <2>1 DEF Connections
<1>9. ASSUME NEW s \in Socks
      PROVE  /\ sock'[s] \in SockTypes /\ Shut(sock[s], sock'[s], n)
             /\ SockOK(conn', sock'[s], s)
  <2>1. PICK new : new = Close(sock, s, n)
    OBVIOUS
  <2>2. new \in [Socks -> SockTypes] /\ Shut(sock[s], new[s], n)
    BY <1>3, <2>1, CloseSock DEF Handles
  <2>3. sock'[s] = new[s]
    BY <1>2, <2>1
  <2>4. \A j \in Slots : ~Uses(conn'[n][j], s)
    BY <1>4, <1>5, <1>6, SocketsPositive DEF Uses
  <2>5. conn'[Peer(n)] = conn[Peer(n)] /\ SockOK(conn, sock[s], s)
    BY <1>3, <1>5, Peers DEF AllSocks
  <2>6. SockOK(conn', new[s], s)
    BY <2>2, <2>4, <2>5, LeaveSocket
  <2> QED
    BY <2>2, <2>3, <2>6
<1>10. sock' \in [Socks -> SockTypes] /\ AllSocks(conn', sock')
  BY <1>2, <1>9 DEF AllSocks
<1>11. Core'
  BY <1>3, <1>7, <1>8, <1>10 DEF Core
<1>12. global_seq' \in [Node -> Nat] /\ conns' \in [Node -> Slots \cup {None}]
  BY <1>2 DEF Rest
<1> QED
  BY <1>2, <1>11, <1>12, RestStays

-----------------------------------------------------------------------------
(***************************************************************************)
(* The invariant.                                                          *)
(***************************************************************************)
\* The initial states satisfy the invariant.
LEMMA InitInvariant == Init => IInv
<1> SUFFICES ASSUME Init PROVE Core /\ Rest
  BY TwoParts
<1>1. /\ conn = [n \in Node |-> [i \in Slots |-> FreeConn]]
      /\ conns = [n \in Node |-> None] /\ sock = [s \in Socks |-> FreeSock]
      /\ global_seq = [n \in Node |-> 0] /\ submitted = [n \in Node |-> 0]
      /\ scenario \in ScenarioTypes
  BY ConstantsAssumption DEF Init
<1>2. \A n \in Node, i \in Slots : conn[n][i] = FreeConn
  BY <1>1
<1>3. Rest
  <2>1. \A n \in Node : MaxMsgs[n] \in Nat
    BY <1>1 DEF MaxMsgs, ScenarioTypes
  <2> QED
    BY <1>1, <2>1 DEF Rest
<1>4. ConnsTyped(conn, MaxMsgs)
  <2>1. \A n \in Node : FreeConn \in ConnTypes(MaxMsgs[n])
    BY FreeRecord
  <2> QED
    BY <1>1, <2>1 DEF ConnsTyped
<1>5. /\ FreeConn.sd = None /\ FreeConn.replacing_sd = None /\ ConnOK(FreeConn)
  BY FreeRecord
<1>6. Connections
  BY <1>2, <1>5 DEF Connections
<1>7. /\ sock \in [Socks -> SockTypes]
      /\ \A s \in Socks, n \in Node : sock[s].end[n] = "closed"
  BY <1>1, FreeSockTyped
<1>8. AllSocks(conn, sock)
  <2> SUFFICES ASSUME NEW s \in Socks PROVE SockOK(conn, sock[s], s)
    BY DEF AllSocks
  <2>1. \A n \in Node, k \in Slots : conn[n][k].sd # s /\ conn[n][k].replacing_sd # s
    BY <1>2, <1>5, SocketsPositive
  <2>2. \A n \in Node : Peer(n) \in Node
    BY Peers
  <2>3. OneUser(conn, sock[s], s)
    BY <2>1 DEF OneUser, Uses
  <2>4. Unaccepted(conn, sock[s], s)
    BY <1>7, <2>2 DEF Unaccepted
  <2>5. BothEnds(conn, sock[s], s)
    BY <2>1, <2>2 DEF BothEnds
  <2> QED
    BY <2>3, <2>4, <2>5 DEF SockOK
<1> QED
  BY <1>3, <1>4, <1>6, <1>7, <1>8 DEF Core

\* What an event thread does.
LEMMA EventStep ==
    ASSUME Core, Rest, NEW n \in Node, NEW i \in Slots, Event(n, i)
    PROVE  Core' /\ Rest'
BY HandleReplaceStep, SocketErrorStep, CStopStep, ConnectStep, RecvBannerStep,
   ResetSessionStep, RetryGlobalStep, RetrySessionStep, WaitStep, SeqReplyStep, ReadyStep,
   ConnectMsgStep, AcceptReplyStep, RecvSeqStep, WriteMessageStep, WriteAckStep,
   RecvMessageStep, RecvAckStep
   DEF Event, handle_connect_reply

\* Every step keeps the invariant.
LEMMA NextInvariant == IInv /\ [Next]_vars => IInv'
<1>0. Core' /\ Rest' => IInv'
  BY DEF IInv, Types, Sockets, Core, Rest, AllSocks
<1> SUFFICES ASSUME Core, Rest, [Next]_vars PROVE Core' /\ Rest'
  BY <1>0, TwoParts
<1>1. CASE \E n \in Node, i \in Slots : Event(n, i)
  BY <1>1, EventStep
<1>2. CASE \E n \in Node, s \in Socks : add_accept(n, s)
  BY <1>2, AddAcceptStep
<1>3. CASE \E n \in Node : send_message(n) \/ mark_down(n) \/ Restart(n)
  BY <1>3, SendStep, MarkDownStep, RestartStep
<1>4. CASE \E s \in Socks : Break(s)
  BY <1>4, BreakStep
<1>5. CASE UNCHANGED vars
  <2>1. /\ conn' = conn /\ sock' = sock /\ scenario' = scenario /\ conns' = conns
        /\ global_seq' = global_seq /\ submitted' = submitted
    BY <1>5 DEF vars
  <2> QED
    BY <2>1, CoreUntouched, RestUntouched
<1> QED
  BY <1>1, <1>2, <1>3, <1>4, <1>5 DEF Next

\* Every step keeps the two ends of every socket in step with each other and
\* the messages of every connection numbered: the inductive invariant.
THEOREM SessionInvariant == Spec => []IInv
BY InitInvariant, NextInvariant, PTL DEF Spec

-----------------------------------------------------------------------------
(***************************************************************************)
(* What follows.                                                           *)
(***************************************************************************)
\* The variables keep their types; requeue_sent, which counts out_seq down, never
\* takes it below zero.
THEOREM TypeCorrect == Spec => []TypeOK
<1>1. IInv => TypeOK
  <2> SUFFICES ASSUME IInv PROVE TypeOK
    OBVIOUS
  <2>1. Core /\ Rest
    BY TwoParts
  <2>2. ASSUME NEW n \in Node, NEW i \in Slots
        PROVE  LET c == conn[n][i] IN
               /\ c.state \in States
               /\ c.sd \in Socks \cup {None} /\ c.replacing_sd \in Socks \cup {None}
               /\ c.replacing \in 0 .. 2
               /\ {c.connect_seq, c.global_seq, c.peer_global_seq, c.in_seq,
                   c.in_seq_acked, c.out_seq} \subseteq Nat
               /\ c.out_q \in Seq(Msgs(n)) /\ c.sent \in Seq(Msgs(n))
    <3>1. PICK c : c = conn[n][i]
      OBVIOUS
    <3>2. c \in ConnTypes(MaxMsgs[n])
      BY <2>1, <3>1, Before
    <3>3. Msgs(n) = MsgTypes(MaxMsgs[n])
      BY DEF Msgs, MsgTypes
    <3>4. /\ c.state \in States /\ c.sd \in Handles /\ c.connect_seq \in Nat
          /\ c.global_seq \in Nat /\ c.peer_global_seq \in Nat /\ c.in_seq \in Nat
          /\ c.in_seq_acked \in Nat /\ c.out_seq \in Nat
          /\ c.out_q \in Seq(Msgs(n)) /\ c.sent \in Seq(Msgs(n))
          /\ c.replacing \in 0 .. 2 /\ c.replacing_sd \in Handles
      BY <3>2, <3>3, FieldTypes
    <3> QED
      BY <3>1, <3>4 DEF Handles
  <2> QED
    BY <2>1, <2>2 DEF TypeOK, Rest
<1> QED
  BY <1>1, SessionInvariant, PTL

\* The assertions of the connecting side on the replies it reads: RETRY_SESSION
\* asks for a larger connect_seq, READY and SEQ confirm the one after its own.
THEOREM RepliesFitAlways == Spec => []RepliesFit
<1>1. IInv => RepliesFit
  <2> SUFFICES ASSUME IInv, NEW n \in Node, NEW i \in Slots, NEW tag, HasReply(n, i, tag)
               PROVE  /\ tag = "RETRY_SESSION" => Item(n, i).cseq > conn[n][i].connect_seq
                      /\ tag \in {"READY", "SEQ"} =>
                            Item(n, i).cseq = conn[n][i].connect_seq + 1
    BY DEF RepliesFit
  <2>1. Core
    BY TwoParts
  <2>2. /\ Reads(n, i, "CONNECTING_WAIT_CONNECT_REPLY", "reply") /\ Item(n, i).tag = tag
    BY DEF HasReply
  <2>3. PICK s : s = conn[n][i].sd
    OBVIOUS
  <2>4. /\ s \in Socks /\ sock \in [Socks -> SockTypes] /\ sock[s].q[n] # <<>>
        /\ conn[n][i].state = "CONNECTING_WAIT_CONNECT_REPLY"
        /\ Item(n, i) = sock[s].q[n][1] /\ Item(n, i).kind = "reply"
        /\ Inbox(conn[n][i], sock[s].q[n])
    BY <2>1, <2>2, <2>3, Reading
  <2>5. 1 \in 1 .. Len(sock[s].q[n])
    <3>1. sock[s].q[n] \in Seq(Items)
      BY <2>4 DEF SockTypes
    <3> QED
      BY <2>4, <3>1
  <2>6. Fits(Item(n, i), conn[n][i].connect_seq)
    BY <2>4, <2>5 DEF Inbox
  <2> QED
    BY <2>2, <2>6 DEF Fits
<1> QED
  BY <1>1, SessionInvariant, PTL

\* Two open connections on the two ends of a socket are in the same session.
THEOREM SameSessionAlways == Spec => []SameSession
<1>1. IInv => SameSession
  <2> SUFFICES ASSUME IInv, NEW i \in Slots, NEW j \in Slots,
                      conn[1][i].state = "OPEN", conn[2][j].state = "OPEN",
                      conn[1][i].sd = conn[2][j].sd
               PROVE  conn[1][i].connect_seq = conn[2][j].connect_seq
    BY DEF SameSession
  <2>1. 1 \in Node /\ Peer(1) = 2 /\ Core
    BY TwoParts DEF Node, Peer
  <2>2. PICK c, s : c = conn[1][i] /\ s = c.sd
    OBVIOUS
  <2>3. s \in Socks
    <3>1. ConnOK(c) /\ c.sd \in Handles
      BY <2>1, <2>2, Before
    <3> QED
      BY <2>2, <3>1 DEF ConnOK, Local, Linked, Handles
  <2>4. SockOK(conn, sock[s], s)
    BY <2>1, <2>3 DEF Core, AllSocks
  <2>5. Paired(conn[1][i], conn[2][j], sock[s].q[1], sock[s].q[2])
    BY <2>1, <2>2, <2>4 DEF SockOK, BothEnds
  <2> QED
    BY <2>5 DEF Paired, Talk
<1> QED
  BY <1>1, SessionInvariant, PTL

\* A message that is sent again, after requeue_sent, gets the number it had: that
\* is how the peer tells which ones it has already (_send numbers a message when
\* it is written, and requeue_sent counts out_seq down by what it puts back).
KeepsNumbers ==
    \A n \in Node, i \in Slots :
        LET c == conn[n][i] IN
        c.out_q # <<>> /\ Head(c.out_q).seq # 0 =>
            MsgItem(c, Head(c.out_q)).seq = Head(c.out_q).seq

\* Whatever breaks, races and resets happen, KeepsNumbers holds.
THEOREM SameNumberAgain == Spec => []KeepsNumbers
<1>1. IInv => KeepsNumbers
  <2> SUFFICES ASSUME IInv, NEW n \in Node, NEW i \in Slots, NEW c, c = conn[n][i],
                      c.out_q # <<>>, Head(c.out_q).seq # 0
               PROVE  MsgItem(c, Head(c.out_q)).seq = Head(c.out_q).seq
    BY DEF KeepsNumbers
  <2>1. c \in ConnTypes(MaxMsgs[n]) /\ ConnOK(c)
    BY TwoParts, Before
  <2>2. PICK Q : Q = c.out_q
    OBVIOUS
  <2>3. Q \in Seq(MsgTypes(MaxMsgs[n])) /\ Q # <<>> /\ Numbers(c.out_seq, c.sent, Q)
    BY <2>1, <2>2, FieldTypes DEF ConnOK, Numbered
  <2>4. 1 \in 1 .. Len(Q) /\ Head(Q) = Q[1]
    BY <2>3
  <2>5. Q[1].seq = c.out_seq + 1
    BY <2>2, <2>3, <2>4 DEF Numbers
  <2> QED
    BY <2>2, <2>4, <2>5 DEF MsgItem
<1> QED
  BY <1>1, SessionInvariant, PTL

=============================================================================
